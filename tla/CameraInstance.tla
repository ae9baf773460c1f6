--------------------------- MODULE CameraInstance ---------------------------
(***************************************************************************)
(* The one object of QualcommCameraHardware (libcamera/                    *)
(* QualcommCameraHardware.cpp): createInstance(), getInstance(), the end   *)
(* of release() and the destructor.  `singleton' is a weak reference; the  *)
(* strong ones are held by the camera service, which makes one call at a   *)
(* time, and by the threads of the preview, of a focus and of a picture,   *)
(* for as long as they run.  A released object lives on until the last of  *)
(* them lets it go; createInstance() waits that long, up to a limit.       *)
(***************************************************************************)
EXTENDS Integers, FiniteSets

CONSTANTS
    Objects,         \* where an object may lie in memory
    Workers          \* detached threads

VARIABLES
    singleton,
    singleton_releasing,
    singleton_lock,  \* who holds it
    life,            \* of each object: "none", "new", "started", "released"
    refs,            \* who holds a strong reference to it
    at,              \* thread -> where it is
    obj,             \* thread -> the object it holds or destroys
    late,            \* threads that have not begun, and their object has gone
    strayed          \* such a thread has found another object

statics == <<singleton, singleton_releasing, singleton_lock>>
astray == <<late, strayed>>
instanceVars == <<statics, life, refs, at, obj, astray>>

Service == "service"
Holders == {Service} \cup Workers
Nothing == "nothing"
ASSUME ObjectsAssumption == Nothing \notin Objects \cup Holders /\ Service \notin Workers

InstanceInit ==
    /\ singleton = Nothing
    /\ singleton_releasing = FALSE
    /\ singleton_lock = Nothing
    /\ life = [o \in Objects |-> "none"]
    /\ refs = [o \in Objects |-> {}]
    /\ at = [h \in Holders |-> "idle"]
    /\ obj = [h \in Holders |-> Nothing]
    /\ late = {} /\ strayed = FALSE

Step(h, from, to) == at[h] = from /\ at' = [at EXCEPT ![h] = to]

(* singleton.promote(): the object, unless its last strong reference has   *)
(* gone.                                                                   *)
promote == IF singleton # Nothing /\ refs[singleton] # {} THEN singleton ELSE Nothing

Hold(h, o) ==
    /\ refs' = [refs EXCEPT ![o] = @ \cup {h}]
    /\ obj' = [obj EXCEPT ![h] = o]

(* The end of an sp<>: whoever drops the last reference runs the           *)
(* destructor; the others go on.                                           *)
LetGo(h, from) ==
    /\ at[h] = from
    /\ refs' = [refs EXCEPT ![obj[h]] = @ \ {h}]
    /\ at' = [at EXCEPT ![h] = IF refs[obj[h]] = {h} THEN "destructor" ELSE "idle"]
    /\ obj' = IF refs[obj[h]] = {h} THEN obj ELSE [obj EXCEPT ![h] = Nothing]
-----------------------------------------------------------------------------
(* createInstance(), and a second call while the service has the object.   *)
createInstance ==
    /\ \/ Step(Service, "idle", "create")
       \/ Step(Service, "using", "create_again")
    /\ UNCHANGED <<statics, life, refs, obj, astray>>

(* createInstance() returns NULL.  A second call finds no object only when *)
(* a strayed thread has destroyed it (see below), and is then followed no  *)
(* further than this.                                                      *)
Refused ==
    \/ Step(Service, "create", "idle")
    \/ Step(Service, "create_again", "using")

(* After SINGLETON_RELEASING_WAIT_TIME.                                    *)
timedOut ==
    /\ Refused
    /\ singleton_lock = Nothing
    /\ singleton_releasing
    /\ UNCHANGED <<statics, life, refs, obj, astray>>

(* Mutants.  An operator whose name ends in _X<n> is a changed form of the *)
(* definition after it, the way a bug would change it; nothing uses it.    *)
existing_X1 ==                                   \* the release is not waited for
    /\ singleton_lock = Nothing
    /\ promote # Nothing
    /\ \/ Step(Service, "create", "using")
       \/ Step(Service, "create_again", "using")
    /\ Hold(Service, promote)
    /\ UNCHANGED <<statics, life, astray>>

existing ==
    /\ singleton_lock = Nothing /\ ~singleton_releasing
    /\ promote # Nothing
    /\ \/ Step(Service, "create", "using")
       \/ Step(Service, "create_again", "using")
    /\ Hold(Service, promote)
    /\ UNCHANGED <<statics, life, astray>>

(* The constructor, which opens the device in a thread of its own.         *)
newHardware ==
    /\ singleton_lock = Nothing /\ ~singleton_releasing
    /\ promote = Nothing
    /\ Step(Service, "create", "start")
    /\ \E o \in {p \in Objects : life[p] = "none"} :
           /\ singleton' = o
           /\ life' = [life EXCEPT ![o] = "new"]
           /\ Hold(Service, o)
    /\ singleton_lock' = Service
    /\ UNCHANGED <<singleton_releasing, astray>>

(* Without the radio's device there is no camera.                          *)
noRpc ==
    /\ singleton_lock = Nothing /\ ~singleton_releasing
    /\ promote = Nothing
    /\ Refused
    /\ UNCHANGED <<statics, life, refs, obj, astray>>

startCamera ==
    /\ Step(Service, "start", "using")
    /\ life' = [life EXCEPT ![obj[Service]] = "started"]
    /\ singleton_lock' = Nothing
    /\ UNCHANGED <<singleton, singleton_releasing, refs, obj, astray>>

(* The library, the open, the framebuffer or the configuration thread; the *)
(* lock is given back before `hardware' goes out of scope.                 *)
startFails ==
    /\ Step(Service, "start", "start_failed")
    /\ singleton_lock' = Nothing
    /\ UNCHANGED <<singleton, singleton_releasing, life, refs, obj, astray>>

dropFailed ==
    /\ LetGo(Service, "start_failed")
    /\ UNCHANGED <<statics, life, astray>>
-----------------------------------------------------------------------------
(* release() gives the device back, then says so; the service drops its    *)
(* reference after it.                                                     *)
release ==
    /\ Step(Service, "using", "released")
    /\ life' = [life EXCEPT ![obj[Service]] = "released"]
    /\ UNCHANGED <<statics, refs, obj, astray>>

setReleasing ==
    /\ singleton_lock = Nothing
    /\ Step(Service, "released", "drop")
    /\ singleton_releasing' = TRUE
    /\ UNCHANGED <<singleton, singleton_lock, life, refs, obj, astray>>

drop ==
    /\ LetGo(Service, "drop")
    /\ UNCHANGED <<statics, life, astray>>

(* The threads that will look for the object when it is no longer there.   *)
Unbegun == {w \in Workers : at[w] = "begin"}

destructor_X1(h) ==                              \* only the weak reference is reset
    /\ singleton_lock = Nothing
    /\ Step(h, "destructor", "idle")
    /\ singleton' = Nothing
    /\ life' = [life EXCEPT ![obj[h]] = "none"]
    /\ obj' = [obj EXCEPT ![h] = Nothing]
    /\ late' = Unbegun
    /\ UNCHANGED <<singleton_releasing, singleton_lock, refs, strayed>>

destructor(h) ==
    /\ singleton_lock = Nothing
    /\ Step(h, "destructor", "idle")
    /\ singleton' = Nothing
    /\ singleton_releasing' = FALSE
    /\ life' = [life EXCEPT ![obj[h]] = "none"]
    /\ obj' = [obj EXCEPT ![h] = Nothing]
    /\ late' = Unbegun
    /\ UNCHANGED <<singleton_lock, refs, strayed>>
-----------------------------------------------------------------------------
(* frame_thread(), auto_focus_thread() and snapshot_thread(): each first   *)
(* looks for the object, which may have gone away, and holds it while it   *)
(* runs.  pthread_create() says nothing of when a thread begins: it may be *)
(* after the object has gone, and when the next one is there.              *)
createThread(w) ==
    /\ at[Service] = "using"
    /\ Step(w, "idle", "begin")
    /\ UNCHANGED <<statics, life, refs, obj, astray>>

getInstance(w) ==
    /\ \/ /\ promote # Nothing
          /\ Step(w, "begin", "run")
          /\ Hold(w, promote)
       \/ /\ promote = Nothing
          /\ Step(w, "begin", "idle")
          /\ UNCHANGED <<refs, obj>>
    /\ late' = late \ {w}
    /\ strayed' = (strayed \/ (w \in late /\ promote # Nothing))
    /\ UNCHANGED <<statics, life>>

endThread(w) ==
    /\ LetGo(w, "run")
    /\ UNCHANGED <<statics, life, astray>>

(* receive_camframe_callback() and its like, called in the thread: what    *)
(* they find.                                                              *)
CallbackObject == promote

creating == timedOut \/ existing \/ newHardware \/ noRpc \/ startCamera \/ startFails \/ dropFailed
releasing == setReleasing \/ drop \/ destructor(Service)
working(w) == getInstance(w) \/ endThread(w) \/ destructor(w)

InstanceNext ==
    \/ createInstance \/ creating
    \/ release \/ releasing
    \/ \E w \in Workers : createThread(w) \/ working(w)

(* Threads end: the driver and the encoder answer (see CameraHardware).    *)
InstanceSpec ==
    /\ InstanceInit /\ [][InstanceNext]_instanceVars
    /\ WF_instanceVars(creating) /\ WF_instanceVars(releasing)
    /\ \A w \in Workers : WF_instanceVars(working(w))
-----------------------------------------------------------------------------
(* One camera: while one object has or gets the device no other exists,    *)
(* not even a released one; the service is never given an object that was  *)
(* released; and a callback finds the object whose thread it came from.    *)
(* This is so until a thread that begins after its object has gone finds   *)
(* another one (strayed): then it may be the last to hold that one.        *)
OneInstance ==
    ~strayed =>
        /\ \A o, p \in Objects :
               o # p /\ life[o] \in {"new", "started"} => life[p] = "none"
        /\ at[Service] = "using" => life[obj[Service]] = "started" /\ singleton = obj[Service]
        /\ \A w \in Workers : at[w] = "run" => CallbackObject = obj[w]

(* createInstance() answers, whoever runs the destructor of the object     *)
(* before it, and of an object that could not be started; and a release is *)
(* not waited for for ever.                                                *)
CreateReturns ==
    /\ at[Service] = "create" ~> at[Service] \in {"idle", "using"}
    /\ singleton_releasing ~> ~singleton_releasing
=============================================================================
