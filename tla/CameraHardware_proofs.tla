----------------------- MODULE CameraHardware_proofs ------------------------
(***************************************************************************)
(* The invariants of CameraHardware, whatever can fail, whatever messages  *)
(* are enabled and whatever the preview callback calls.                    *)
(*                                                                         *)
(* IInv says where each thread may be, who has mLock and                   *)
(* mCameraRunningLock there, and what the flags that threads leave for     *)
(* each other mean: mFrameThreadRunning, mAutoFocusThreadRunning and       *)
(* mSnapshotThreadRunning that the thread is alive, mCameraRunning what    *)
(* the driver does while nobody has mCameraRunningLock (DriverAgrees),     *)
(* mPreviewInitialized that the preview runs or somebody is about to       *)
(* start or stop it.  Claims(t) is what a call has found out and relies    *)
(* on while it has mLock: that no frame thread lives when it makes the     *)
(* heap for the next, that no picture is being taken when it sets up the   *)
(* preview or creates the snapshot thread.                                 *)
(*                                                                         *)
(* A step of a thread that has no call changes none of this (QuietInv); a  *)
(* step of a call is alone, because whoever is in a call has mLock         *)
(* (Alone).  So each action is shown to keep IInv by where it goes:        *)
(* CallGoto and FrameGoto for those that change a place only, and a proof  *)
(* of their own for those that change the flags.                           *)
(*                                                                         *)
(* PInv adds what memory a picture has, from the call that allocates it to *)
(* the last of the threads that use it.  The last section follows the      *)
(* locks that are taken within one another (HeldWhere), and shows that     *)
(* every thread takes them in one order.                                   *)
(***************************************************************************)
EXTENDS CameraHardware, TLAPS

(* The threads that make calls.                                            *)
Callers == {"app"} \cup Frames

(* Starting the preview, from where initPreview() has no frame thread.     *)
AllocPlaces == {"wait_snapshot", "heap", "create"}
SetUpPlaces == {"heap", "create", "native_start", "started", "not_started"}
StartPlaces == SetUpPlaces \cup {"wait_frame", "wait_snapshot", "undo_start"}

(* Stopping it: it runs from the second place to the second last.          *)
RunPlaces == {"cancel", "cancel_unlock", "lock_timeout", "native_stop", "stopped", "not_stopped"}
StopPlaces == RunPlaces \cup {"stop", "deinit"}

OtherPlaces == {"messages", "rec_start", "start", "stop_check", "rec_stop", "auto_focus",
                "cancel_check", "release", "join", "deinit_raw", "exit", "leave"}
TakePlaces == {"take", "raw", "create_snapshot", "give_up", "set_mode"}
CallPlaces == StartPlaces \cup StopPlaces \cup OtherPlaces \cup TakePlaces

FramePlaces == {"loop", "received", "mask", "pcb", "rcb", "rec_check", "rec_wait", "rec_woken",
                "ended", "cleared"}
FocusPlaces == {"af_start", "af_try", "af_lock", "focusing", "af_unlock", "af_done"}
SensorPlaces == {"snap_start", "raw_picture", "crop", "raw_callback", "encode",
                 "native_encode", "raw_deinit", "raw_return", "raw_snapshot",
                 "snapshot_callback"}
SnapshotPlaces == SensorPlaces \cup {"snap_mode", "jpeg_wait", "snap_join", "snap_end"}
EncoderPlaces == {"encoding", "jpeg_done"}

PlacesOf(t) ==
    IF t = "app" THEN {"idle", "enter"} \cup CallPlaces
    ELSE IF t \in Frames THEN {None, "enter"} \cup FramePlaces \cup CallPlaces
    ELSE IF t = "af" THEN {None} \cup FocusPlaces
    ELSE IF t = "snapshot" THEN {None} \cup SnapshotPlaces
    ELSE {None} \cup EncoderPlaces

Places == {None, "idle", "enter"} \cup CallPlaces \cup FramePlaces \cup FocusPlaces
              \cup SnapshotPlaces \cup EncoderPlaces

PlacesCorrect == pc \in [Threads -> Places] /\ \A t \in Threads : pc[t] \in PlacesOf(t)

TypesCorrect ==
    /\ PlacesCorrect
    /\ call \in [Threads -> Calls \cup CallbackCalls \cup {None}]
    /\ held \in [Locks -> Threads \cup {None}]
    /\ mCameraRunning \in BOOLEAN /\ driver \in BOOLEAN

DriverPlaces == {"started", "not_started", "stopped", "not_stopped"}

LocksAgree ==
    /\ held["mLock"] \in Callers \cup {None}
    /\ held["mCameraRunningLock"] \in Callers \cup {"af", None}
    /\ \A t \in Callers : held["mLock"] = t <=> pc[t] \in CallPlaces
    /\ \A t \in Callers : held["mCameraRunningLock"] = t <=> pc[t] \in DriverPlaces
    /\ held["mCameraRunningLock"] = "af" <=> pc["af"] \in {"focusing", "af_unlock"}

NoFrame == \A f \in Frames : pc[f] = None

FrameAgrees ==
    /\ mFrameThreadRunning <=> ~NoFrame
    /\ OneFrameThread
    /\ HeapInUse

DriverAgrees ==
    /\ held["mCameraRunningLock"] \in {None, "af"} /\ ~released /\ ~camframe_timeout_flag =>
           driver = mCameraRunning
    /\ pc["af"] = "focusing" => mCameraRunning /\ (driver \/ camframe_timeout_flag \/ released)

InitializedRuns ==
    mPreviewInitialized =>
        \/ mCameraRunning
        \/ \E t \in Callers : pc[t] \in {"native_start", "started", "not_started", "undo_start",
                                         "deinit"}

SnapshotAgrees ==
    /\ mSnapshotThreadRunning <=> pc["snapshot"] # None
    /\ pc["snapshot"] \in SensorPlaces => mInSnapshotMode \/ \E t \in Callers : pc[t] = "set_mode"

FocusAgrees == mAutoFocusThreadRunning <=> pc["af"] # None

(* On its way to create the snapshot thread.                               *)
Taking(t) ==
    \/ pc[t] \in {"raw", "create_snapshot"}
    \/ pc[t] \in StopPlaces /\ call[t] = "takePicture"

(* What a call has found out, and relies on while it has mLock.            *)
Claims(t) ==
    /\ pc[t] \in AllocPlaces => NoFrame
    /\ pc[t] = "create" => mPreviewHeap \in Frames
    /\ pc[t] \in StartPlaces => ~mCameraRunning
    /\ pc[t] \in RunPlaces => mCameraRunning
    /\ call[t] = "takePicture" /\ pc[t] \in CallPlaces =>
           pc[t] \in TakePlaces \cup StopPlaces \cup {"leave"}
    /\ Taking(t) => pc["snapshot"] = None
    /\ pc[t] \in SetUpPlaces => pc["snapshot"] \notin SensorPlaces
    /\ ~released /\ ~camframe_timeout_flag =>
           /\ pc[t] \in {"started", "not_stopped"} => driver
           /\ pc[t] \in {"not_started", "stopped"} => ~driver

IInv ==
    /\ TypesCorrect /\ LocksAgree /\ FrameAgrees /\ DriverAgrees /\ InitializedRuns
    /\ FocusAgrees /\ SnapshotAgrees /\ \A t \in Callers : Claims(t)
-----------------------------------------------------------------------------
(* How a step moves the threads.                                           *)

(* A thread that does not move, or that waits for the recorder no more.    *)
Same(u) == pc'[u] = pc[u] \/ (pc[u] = "rec_wait" /\ pc'[u] = "rec_woken")

Moves(t, to) ==
    /\ PlacesCorrect'
    /\ pc'[t] = to
    /\ \A u \in Threads \ {t} : Same(u)

(* Every place of a thread is a place.                                     *)
LEMMA PlacesOfPlaces == \A t \in Threads : PlacesOf(t) \subseteq Places
BY DEF PlacesOf, Places

(* Who makes calls: the service and the frame threads.                     *)
LEMMA CallersAreThreads ==
    /\ Callers \subseteq Threads /\ Frames \subseteq Callers /\ Frames \subseteq Threads
    /\ "app" \in Callers /\ "app" \notin Frames
    /\ {"af", "snapshot", "encoder"} \subseteq Threads
    /\ {"af", "snapshot", "encoder"} \cap Callers = {}
    /\ Frames = {"frame1", "frame2"}
BY DEF Callers, Threads, Frames

(* A step that goes from one place to another moves nobody else.           *)
LEMMA GotoMoves ==
    ASSUME TypesCorrect, NEW t \in Threads, NEW from, NEW to \in PlacesOf(t), Goto(t, from, to)
    PROVE  pc[t] = from /\ Moves(t, to)
BY PlacesOfPlaces DEF Goto, At, Moves, Same, TypesCorrect, PlacesCorrect

(* mRecordWait.signal() moves only frame threads that wait for the         *)
(* recorder.                                                               *)
LEMMA SignalMoves ==
    ASSUME TypesCorrect, NEW t \in Threads, NEW to \in PlacesOf(t), to # "rec_wait",
           pc' = Signal([pc EXCEPT ![t] = to])
    PROVE  Moves(t, to)
<1>1. "rec_woken" \in Places /\ \A f \in Frames : "rec_woken" \in PlacesOf(f)
  BY CallersAreThreads DEF Places, PlacesOf, FramePlaces
<1>2. \A u \in Threads : pc[u] = "rec_wait" => u \in Frames
  BY DEF TypesCorrect, PlacesCorrect, PlacesOf, CallPlaces, StartPlaces, SetUpPlaces, StopPlaces,
         RunPlaces, OtherPlaces, TakePlaces, FocusPlaces, SnapshotPlaces, SensorPlaces,
         EncoderPlaces, None
<1> QED BY <1>1, <1>2, PlacesOfPlaces
        DEF Signal, Moves, Same, TypesCorrect, PlacesCorrect

(* Which places are within a call.                                         *)
LEMMA Apart ==
    /\ AllocPlaces \subseteq CallPlaces /\ SetUpPlaces \subseteq CallPlaces
    /\ StartPlaces \subseteq CallPlaces /\ RunPlaces \subseteq StopPlaces
    /\ StopPlaces \subseteq CallPlaces /\ DriverPlaces \subseteq CallPlaces
    /\ TakePlaces \subseteq CallPlaces /\ OtherPlaces \subseteq CallPlaces
    /\ {"native_start", "started", "not_started", "undo_start", "deinit", "create", "stopped",
        "not_stopped", "raw", "create_snapshot", "set_mode"} \subseteq CallPlaces
    /\ CallPlaces \cap (FramePlaces \cup {None, "idle", "enter"}) = {}
BY DEF AllocPlaces, SetUpPlaces, StartPlaces, RunPlaces, StopPlaces, DriverPlaces, TakePlaces,
       OtherPlaces, CallPlaces, FramePlaces, None

(* Who is not in a call claims nothing.                                    *)
LEMMA OutOfCall == \A t : pc[t] \notin CallPlaces => Claims(t)
BY Apart DEF Claims, Taking

(* The same after a step.                                                  *)
LEMMA OutOfCallNext == \A t : pc'[t] \notin CallPlaces => Claims(t)'
BY Apart DEF Claims, Taking

(* A call moves within a call, and a thread that is alive does not end.    *)
Alive(u) == pc[u] \notin {None, "ended", "cleared"}
QuietCaller(u) ==
    \/ Same(u)
    \/ /\ pc[u] \notin CallPlaces /\ pc'[u] \notin CallPlaces
       /\ u \in Frames => Alive(u) /\ pc'[u] \notin {None, "cleared"}

(* Who makes a quiet step neither enters nor leaves a call, and no frame   *)
(* thread begins or ends.                                                  *)
LEMMA SameStays ==
    ASSUME NEW u, QuietCaller(u)
    PROVE  /\ pc'[u] \in CallPlaces <=> pc[u] \in CallPlaces
           /\ pc[u] \in CallPlaces => pc'[u] = pc[u]
           /\ u \in Frames => (pc'[u] = None <=> pc[u] = None)
           /\ u \in Frames /\ Alive(u)' => Alive(u)
<1>1. "rec_wait" \in FramePlaces /\ "rec_woken" \in FramePlaces
      /\ {"rec_wait", "rec_woken"} \cap {None, "ended", "cleared"} = {}
  BY DEF FramePlaces, None
<1> QED BY <1>1, Apart DEF QuietCaller, Same, Alive

(* The variables the invariant is about, apart from the places.            *)
core == <<mCameraRunning, mPreviewInitialized, mFrameThreadRunning, mPreviewHeap, driver,
          released, mSnapshotThreadRunning, mInSnapshotMode>>

KeepsLocks ==
    /\ held' \in [Locks -> Threads \cup {None}]
    /\ held'["mLock"] = held["mLock"]
    /\ held'["mCameraRunningLock"] = held["mCameraRunningLock"]

KeepsCalls ==
    /\ call' \in [Threads -> Calls \cup CallbackCalls \cup {None}]
    /\ \A t \in Callers : pc[t] \in CallPlaces => call'[t] = call[t]

QuietSnapshot ==
    /\ pc'["snapshot"] = None <=> pc["snapshot"] = None
    /\ pc'["snapshot"] \in SensorPlaces => pc["snapshot"] \in SensorPlaces

QuietFocus ==
    /\ pc'["af"] \in {"focusing", "af_unlock"} <=> pc["af"] \in {"focusing", "af_unlock"}
    /\ pc'["af"] = "focusing" => pc["af"] = "focusing"
    /\ FocusAgrees'

(* Quiet steps take nothing away that a call relies on.                    *)
LEMMA QuietClaims ==
    ASSUME IInv, \A u \in Callers : QuietCaller(u), UNCHANGED core, KeepsCalls, QuietSnapshot,
           camframe_timeout_flag => camframe_timeout_flag'
    PROVE  \A t \in Callers : Claims(t)'
<1> SUFFICES ASSUME NEW t \in Callers, pc'[t] \in CallPlaces
             PROVE  Claims(t)'
  BY OutOfCallNext
<1>1. pc'[t] = pc[t] /\ call'[t] = call[t]
  BY SameStays DEF KeepsCalls
<1>2. NoFrame => NoFrame'
  BY CallersAreThreads, SameStays DEF NoFrame
<1>3. Taking(t)' => Taking(t)
  BY <1>1 DEF Taking
<1>4. Claims(t)
  BY DEF IInv
<1> QED BY <1>1, <1>2, <1>3, <1>4 DEF Claims, QuietSnapshot, core

(* A step in which nobody enters or leaves a call.                         *)
LEMMA QuietInv ==
    ASSUME IInv, PlacesCorrect', \A u \in Callers : QuietCaller(u), UNCHANGED core,
           KeepsLocks, KeepsCalls, QuietSnapshot, QuietFocus,
           camframe_timeout_flag => camframe_timeout_flag'
    PROVE  IInv'
<1>1. TypesCorrect'
  BY DEF IInv, TypesCorrect, KeepsLocks, KeepsCalls, core
<1>2. \A t \in Callers : (pc'[t] \in CallPlaces <=> pc[t] \in CallPlaces)
                         /\ (pc'[t] \in DriverPlaces <=> pc[t] \in DriverPlaces)
  BY SameStays, Apart
<1>3. LocksAgree'
  BY <1>2 DEF IInv, LocksAgree, KeepsLocks, QuietFocus
<1>4. NoFrame' <=> NoFrame
  BY CallersAreThreads, SameStays DEF NoFrame
<1>5. FrameAgrees'
  BY <1>4, CallersAreThreads, SameStays
  DEF IInv, FrameAgrees, OneFrameThread, HeapInUse, Alive, core
<1>6. DriverAgrees'
  BY DEF IInv, DriverAgrees, KeepsLocks, QuietFocus, core
<1>7. InitializedRuns'
  BY SameStays, Apart DEF IInv, InitializedRuns, core
<1>8. SnapshotAgrees'
  BY SameStays, Apart DEF IInv, SnapshotAgrees, QuietSnapshot, core
<1> QED BY <1>1, <1>3, <1>5, <1>6, <1>7, <1>8, QuietClaims DEF IInv, QuietFocus

(* Only frame threads wait for the recorder.                               *)
LEMMA OthersStay ==
    ASSUME TypesCorrect, NEW u \in {"app", "af", "snapshot", "encoder"}, Same(u)
    PROVE  pc'[u] = pc[u]
<1>1. pc[u] # "rec_wait"
  BY DEF TypesCorrect, PlacesCorrect, PlacesOf, Threads, Frames, CallPlaces, StartPlaces,
         SetUpPlaces, StopPlaces, RunPlaces, OtherPlaces, TakePlaces, FocusPlaces,
         SnapshotPlaces, SensorPlaces, EncoderPlaces, None
<1> QED BY <1>1 DEF Same

(* Whoever has mLock is alone in a call, before the step and after it.     *)
LEMMA Alone ==
    ASSUME IInv, NEW t \in Callers, pc[t] \in CallPlaces, NEW to, Moves(t, to)
    PROVE  /\ held["mLock"] = t
           /\ \A u \in Callers \ {t} : /\ pc[u] \notin CallPlaces /\ pc'[u] \notin CallPlaces
                                       /\ QuietCaller(u) /\ Claims(u)'
           /\ pc'["af"] = pc["af"] /\ pc'["snapshot"] = pc["snapshot"]
           /\ pc'["encoder"] = pc["encoder"]
<1>1. held["mLock"] = t /\ \A u \in Callers \ {t} : pc[u] \notin CallPlaces
  BY DEF IInv, LocksAgree
<1>2. \A u \in Callers \ {t} : QuietCaller(u)
  BY CallersAreThreads DEF Moves, QuietCaller
<1>3. \A u \in Callers \ {t} : pc'[u] \notin CallPlaces /\ Claims(u)'
  BY <1>1, <1>2, SameStays, OutOfCallNext
<1>4. \A u \in {"af", "snapshot", "encoder"} : pc'[u] = pc[u]
  BY CallersAreThreads, OthersStay DEF Moves, IInv
<1> QED BY <1>1, <1>2, <1>3, <1>4

(* A frame thread in a call is alive: its heap is there.                   *)
LEMMA CallFrames ==
    ASSUME IInv, NEW t \in Callers, pc[t] \in CallPlaces, NEW to, Moves(t, to), to \in CallPlaces,
           UNCHANGED <<mFrameThreadRunning, mPreviewHeap>>
    PROVE  FrameAgrees' /\ (NoFrame' <=> NoFrame)
<1>1. /\ pc'[t] # None /\ pc[t] # None
      /\ Alive(t)
  BY Apart DEF Moves, Alive, FramePlaces
<1>2. \A f \in Frames : /\ pc'[f] = None <=> pc[f] = None
                        /\ Alive(f)' => Alive(f)
  BY <1>1, Alone, SameStays, CallersAreThreads DEF Moves
<1> QED BY <1>2, CallersAreThreads
        DEF IInv, FrameAgrees, NoFrame, OneFrameThread, HeapInUse, Alive

(* A call keeps its locks while it stays between the same acquire and      *)
(* release.                                                                *)
LEMMA CallLocks ==
    ASSUME IInv, NEW t \in Callers, NEW to, Moves(t, to), KeepsLocks,
           pc[t] \in CallPlaces, to \in CallPlaces,
           to \in DriverPlaces <=> pc[t] \in DriverPlaces
    PROVE  LocksAgree'
<1>1. \A u \in Callers \ {t} : /\ pc[u] \notin CallPlaces /\ pc'[u] \notin CallPlaces
                               /\ pc[u] \notin DriverPlaces /\ pc'[u] \notin DriverPlaces
  BY Alone, Apart
<1>2. pc'[t] = to /\ pc'["af"] = pc["af"]
  BY Alone DEF Moves
<1> QED BY <1>1, <1>2 DEF IInv, LocksAgree, KeepsLocks

(* A step of a call that changes no more than where it is.                 *)
LEMMA CallInv ==
    ASSUME IInv, NEW t \in Callers, NEW to, Moves(t, to), UNCHANGED core, UNCHANGED call,
           UNCHANGED camframe_timeout_flag, UNCHANGED mAutoFocusThreadRunning, KeepsLocks,
           pc[t] \in CallPlaces \ (DriverPlaces \cup {"set_mode", "native_start", "undo_start",
                                                      "deinit"}),
           to \in CallPlaces \ DriverPlaces,
           Claims(t)'
    PROVE  IInv'
<1>1. TypesCorrect'
  BY DEF IInv, TypesCorrect, Moves, KeepsLocks, core
<1>2. LocksAgree'
  BY CallLocks
<1>3. FrameAgrees'
  BY CallFrames DEF core
<1>4. DriverAgrees'
  BY Alone DEF IInv, DriverAgrees, KeepsLocks, core
<1>5. \A u \in Callers : pc[u] \in {"native_start", "started", "not_started", "undo_start",
                                    "deinit",
                                   "set_mode"} =>
          pc'[u] = pc[u]
  <2>1. {"native_start", "started", "not_started", "undo_start", "deinit", "set_mode"}
        \subseteq CallPlaces /\ {"started", "not_started"} \subseteq DriverPlaces
    BY Apart DEF DriverPlaces
  <2> QED BY <2>1, Alone
<1>6. InitializedRuns'
  BY <1>5 DEF IInv, InitializedRuns, core
<1>7. SnapshotAgrees'
  BY <1>5, Alone DEF IInv, SnapshotAgrees, core
<1>8. \A u \in Callers : Claims(u)'
  BY Alone
<1>9. FocusAgrees'
  BY Alone DEF IInv, FocusAgrees
<1> QED BY <1>1, <1>2, <1>3, <1>4, <1>6, <1>7, <1>8, <1>9 DEF IInv
-----------------------------------------------------------------------------
(* The frame thread out of a call.                                         *)

(* A step that takes and drops no lock.                                    *)
LEMMA NothingHeld ==
    ASSUME IInv, UNCHANGED held
    PROVE  KeepsLocks
BY DEF IInv, TypesCorrect, KeepsLocks

(* A step in which no call begins.                                         *)
LEMMA NoCallBegins ==
    ASSUME IInv, UNCHANGED call
    PROVE  KeepsCalls
BY DEF IInv, TypesCorrect, KeepsCalls

(* A frame thread delivers a frame, or begins a call from its callback.    *)
LEMMA FrameStep ==
    ASSUME IInv, NEW f \in Frames, NEW to, Moves(f, to),
           pc[f] \in FramePlaces \ {"ended", "cleared"},
           to \in (FramePlaces \cup {"enter"}) \ {"cleared"},
           UNCHANGED core, UNCHANGED camframe_timeout_flag, UNCHANGED mAutoFocusThreadRunning,
           UNCHANGED held, KeepsCalls
    PROVE  IInv'
<1>1. f \in Callers /\ f \in Threads
  BY CallersAreThreads
<1>2. QuietCaller(f)
  BY Apart DEF QuietCaller, Alive, Moves, FramePlaces, None
<1>3. \A u \in Callers : QuietCaller(u)
  BY <1>2, CallersAreThreads DEF Moves, QuietCaller
<1>4. pc'["af"] = pc["af"] /\ pc'["snapshot"] = pc["snapshot"]
  BY <1>1, CallersAreThreads, OthersStay DEF Moves, IInv
<1>5. QuietSnapshot /\ QuietFocus
  BY <1>4 DEF QuietSnapshot, QuietFocus, FocusAgrees, IInv
<1> QED BY <1>3, <1>5, QuietInv, NothingHeld DEF Moves

(* The same for a step that names both places.                             *)
LEMMA FrameGoto ==
    ASSUME IInv, NEW f \in Frames, NEW from \in FramePlaces \ {"ended", "cleared"},
           NEW to \in (FramePlaces \cup {"enter"}) \ {"cleared"}, Goto(f, from, to),
           UNCHANGED core, UNCHANGED camframe_timeout_flag, UNCHANGED mAutoFocusThreadRunning,
           UNCHANGED held, KeepsCalls
    PROVE  IInv'
<1>1. to \in PlacesOf(f) /\ f \in Threads
  BY CallersAreThreads DEF PlacesOf
<1>2. pc[f] = from /\ Moves(f, to)
  BY <1>1, GotoMoves DEF IInv
<1> QED BY <1>2, FrameStep

(* A frame comes from the driver.                                          *)
LEMMA frameArrivesInv ==
    ASSUME IInv, NEW f \in Frames, frameArrives(f)
    PROVE  IInv'
BY FrameGoto, NoCallBegins DEF frameArrives, FramePlaces, core, client, preview, picture, mode

(* receivePreviewFrame() looks at mCameraRunning without a lock, and       *)
(* changes nothing.                                                        *)
LEMMA receivePreviewFrameInv ==
    ASSUME IInv, NEW f \in Frames, receivePreviewFrame(f)
    PROVE  IInv'
<1>1. CASE mCameraRunning
  <2>1. Goto(f, "received", "mask")
    BY <1>1 DEF receivePreviewFrame
  <2> QED BY <2>1, FrameGoto, NoCallBegins
          DEF receivePreviewFrame, FramePlaces, core, client, preview, picture, mode
<1>2. CASE ~mCameraRunning
  <2>1. Goto(f, "received", "loop")
    BY <1>2 DEF receivePreviewFrame
  <2> QED BY <2>1, FrameGoto, NoCallBegins
          DEF receivePreviewFrame, FramePlaces, core, client, preview, picture, mode
<1> QED BY <1>1, <1>2

(* The mask of messages is copied under mCallbackLock.                     *)
LEMMA copyMaskInv ==
    ASSUME IInv, NEW f \in Frames, copyMask(f)
    PROVE  IInv'
BY FrameGoto, NoCallBegins DEF copyMask, FramePlaces, core, client, preview, picture, mode

(* The preview callback returns, or begins a call.                         *)
LEMMA previewCallbackInv ==
    ASSUME IInv, NEW f \in Frames, previewCallback(f)
    PROVE  IInv'
<1> USE DEF FramePlaces, core, client, preview, picture, mode
<1>1. CASE Goto(f, "pcb", "rcb") /\ UNCHANGED call
  BY <1>1, FrameGoto, NoCallBegins DEF previewCallback
<1>2. ASSUME NEW c \in CallbackCalls, Goto(f, "pcb", "enter"), call' = [call EXCEPT ![f] = c]
      PROVE  IInv'
  <2>1. f \in Threads /\ pc[f] = "pcb" /\ pc[f] \notin CallPlaces
    BY <1>2, CallersAreThreads, Apart DEF Goto, At
  <2>2. KeepsCalls
    BY <1>2, <2>1, CallersAreThreads DEF KeepsCalls, IInv, TypesCorrect
  <2> QED BY <1>2, <2>2, FrameGoto DEF previewCallback
<1> QED BY <1>1, <1>2 DEF previewCallback

(* The recorder gets its frame.                                            *)
LEMMA recordCallbackInv ==
    ASSUME IInv, NEW f \in Frames, recordCallback(f)
    PROVE  IInv'
BY FrameGoto, NoCallBegins DEF recordCallback, FramePlaces, core, client, preview, picture, mode

(* The frame thread waits for the recorder, which may have been faster.    *)
LEMMA waitRecorderInv ==
    ASSUME IInv, NEW f \in Frames, waitRecorder(f)
    PROVE  IInv'
BY FrameGoto, NoCallBegins DEF waitRecorder, FramePlaces, core, client, preview, picture, mode

(* The frame loop ends when it was told to.                                *)
LEMMA frameLoopEndsInv ==
    ASSUME IInv, NEW f \in Frames, frameLoopEnds(f)
    PROVE  IInv'
BY FrameGoto, NoCallBegins DEF frameLoopEnds, FramePlaces, core, client, preview, picture, mode

(* The recorder wakes who waits for it.                                    *)
LEMMA StillPlaces ==
    ASSUME IInv, \A u \in Threads : Same(u), PlacesCorrect', UNCHANGED mAutoFocusThreadRunning
    PROVE  (\A u \in Callers : QuietCaller(u)) /\ QuietSnapshot /\ QuietFocus
<1>1. pc'["af"] = pc["af"] /\ pc'["snapshot"] = pc["snapshot"]
  BY CallersAreThreads, OthersStay DEF IInv
<1> QED BY <1>1, CallersAreThreads DEF QuietCaller, QuietSnapshot, QuietFocus, FocusAgrees, IInv

(* The recorder gives a frame back.                                        *)
LEMMA releaseRecordingFrameInv ==
    ASSUME IInv, releaseRecordingFrame
    PROVE  IInv'
<1>1. pc \in [Threads -> Places] /\ pc["app"] \in PlacesOf("app") /\ "app" \in Threads
  BY CallersAreThreads DEF IInv, TypesCorrect, PlacesCorrect
<1>2. pc["app"] # "rec_wait"
  BY <1>1 DEF PlacesOf, CallPlaces, StartPlaces, SetUpPlaces, StopPlaces, RunPlaces,
              OtherPlaces, TakePlaces
<1>3. Moves("app", pc["app"])
  <2>1. [pc EXCEPT !["app"] = pc["app"]] = pc
    BY <1>1
  <2> QED BY <1>1, <1>2, <2>1, SignalMoves DEF releaseRecordingFrame, IInv
<1>4. PlacesCorrect' /\ \A u \in Threads : Same(u)
  BY <1>3 DEF Moves, Same
<1> QED BY <1>4, StillPlaces, QuietInv, NothingHeld, NoCallBegins
        DEF releaseRecordingFrame, core, client, preview, picture, mode

(* A timeout sets its flag: what is claimed of the driver is claimed of a  *)
(* driver that has not timed out.                                          *)
LEMMA receive_camframetimeoutInv ==
    ASSUME IInv, NEW f \in Frames, receive_camframetimeout(f)
    PROVE  IInv'
<1>1. PlacesCorrect' /\ \A u \in Threads : Same(u)
  BY DEF receive_camframetimeout, IInv, TypesCorrect, PlacesCorrect, Same
<1> QED BY <1>1, StillPlaces, QuietInv, NothingHeld, NoCallBegins
        DEF receive_camframetimeout, core, client, preview, picture, mode

(* The service makes a call, and waits for mLock.                          *)
LEMMA enterInv ==
    ASSUME IInv, NEW c \in Calls, enter(c)
    PROVE  IInv'
<1>1. "app" \in Threads /\ "enter" \in PlacesOf("app") /\ "app" \notin Frames
  BY CallersAreThreads DEF PlacesOf
<1>2. pc["app"] = "idle" /\ Moves("app", "enter")
  BY <1>1, GotoMoves DEF enter, IInv
<1>3. QuietCaller("app")
  BY <1>1, <1>2, Apart DEF QuietCaller, Moves
<1>4. \A u \in Callers : QuietCaller(u)
  BY <1>2, <1>3, CallersAreThreads DEF Moves, QuietCaller
<1>5. pc'["af"] = pc["af"] /\ pc'["snapshot"] = pc["snapshot"]
  BY <1>2, CallersAreThreads, OthersStay DEF Moves, IInv
<1>6. KeepsCalls
  BY <1>1, <1>2, Apart DEF KeepsCalls, enter, IInv, TypesCorrect
<1> QED BY <1>2, <1>4, <1>5, <1>6, QuietInv, NothingHeld
        DEF enter, Moves, QuietSnapshot, QuietFocus, FocusAgrees, IInv, core, client, preview,
            picture, mode
-----------------------------------------------------------------------------
(* The threads that focus, take the picture and encode it.                 *)

Workers == {"af", "snapshot", "encoder"}

(* A step of a thread that makes no calls is quiet for those that do.      *)
LEMMA WorkerMoves ==
    ASSUME IInv, NEW t \in Workers, NEW to, Moves(t, to)
    PROVE  /\ \A u \in Callers : QuietCaller(u)
           /\ \A u \in Workers \ {t} : pc'[u] = pc[u]
<1>1. t \in Threads /\ t \notin Callers /\ Workers \subseteq Threads
  BY CallersAreThreads DEF Workers
<1> QED BY <1>1, CallersAreThreads, OthersStay DEF Workers, Moves, QuietCaller, IInv

(* Such a step that changes no flag but the thread's own, and takes        *)
(* neither of the two locks.                                               *)
LEMMA WorkerStep ==
    ASSUME IInv, NEW t \in Workers, NEW from, NEW to \in PlacesOf(t), Goto(t, from, to),
           UNCHANGED core, UNCHANGED call, UNCHANGED camframe_timeout_flag, KeepsLocks,
           t = "snapshot" =>
               from # None /\ to # None /\ (to \in SensorPlaces => from \in SensorPlaces),
           t # "af" => UNCHANGED mAutoFocusThreadRunning,
           t = "af" =>
               /\ from \notin {"focusing", "af_unlock"} /\ to \notin {"focusing", "af_unlock"}
               /\ mAutoFocusThreadRunning' <=> to # None
    PROVE  IInv'
<1>1. t \in Threads
  BY CallersAreThreads DEF Workers
<1>2. pc[t] = from /\ Moves(t, to)
  BY <1>1, GotoMoves DEF IInv
<1>3. (\A u \in Callers : QuietCaller(u)) /\ \A u \in Workers \ {t} : pc'[u] = pc[u]
  BY <1>2, WorkerMoves
<1>4. QuietSnapshot
  BY <1>2, <1>3 DEF QuietSnapshot, Moves, Workers
<1>5. QuietFocus
  BY <1>2, <1>3 DEF QuietFocus, Moves, Workers, FocusAgrees, IInv
<1> QED BY <1>2, <1>3, <1>4, <1>5, QuietInv, NoCallBegins DEF Moves

(* The other locks do not matter here: taking one,                         *)
LEMMA TakesLock ==
    ASSUME IInv, NEW t \in Threads, NEW l \in Locks \ {"mLock", "mCameraRunningLock"},
           Acquire(t, l)
    PROVE  KeepsLocks
BY DEF IInv, TypesCorrect, Acquire, KeepsLocks, Locks

(* and dropping one.                                                       *)
LEMMA DropsLock ==
    ASSUME IInv, NEW t \in Threads, NEW ls \in SUBSET (Locks \ {"mLock", "mCameraRunningLock"}),
           Drop(t, ls)
    PROVE  KeepsLocks
<1>1. "mLock" \in Locks /\ "mCameraRunningLock" \in Locks
  BY DEF Locks
<1>2. \A l \in Locks : held[l] \in Threads \cup {None}
  BY DEF IInv, TypesCorrect
<1>3. held' \in [Locks -> Threads \cup {None}]
  BY <1>2 DEF Drop
<1> QED BY <1>1, <1>3 DEF Drop, KeepsLocks

(* Auto focus.                                                             *)
LEMMA FocusStays ==
    ASSUME IInv, NEW from, from # None, NEW to, to # None, Goto("af", from, to),
           UNCHANGED mAutoFocusThreadRunning
    PROVE  mAutoFocusThreadRunning' <=> to # None
BY DEF IInv, FocusAgrees, Goto, At

(* The focusing thread looks whether there is something to do.             *)
LEMMA runAutoFocusInv ==
    ASSUME IInv, runAutoFocus
    PROVE  IInv'
<1> USE DEF core, client, preview, picture, mode
<1>1. "af" \in Workers /\ "af" \in Threads /\ "mAutoFocusThreadLock" \in Locks
      /\ {"af_try", "af_done", None} \subseteq PlacesOf("af")
  BY CallersAreThreads DEF Workers, Locks, PlacesOf, FocusPlaces, Frames
<1>2. ASSUME NEW p \in {"af_try", "af_done"}, Goto("af", "af_start", p),
             Acquire("af", "mAutoFocusThreadLock")
      PROVE  IInv'
  BY <1>1, <1>2, FocusStays, TakesLock, WorkerStep DEF runAutoFocus, None
<1>3. CASE Goto("af", "af_start", None) /\ UNCHANGED held
  BY <1>1, <1>3, NothingHeld, WorkerStep DEF runAutoFocus, None
<1> QED BY <1>2, <1>3 DEF runAutoFocus

(* It takes mAfLock, or gives up.                                          *)
LEMMA tryAutoFocusInv ==
    ASSUME IInv, tryAutoFocus
    PROVE  IInv'
<1> USE DEF core, client, preview, picture, mode
<1>1. "af" \in Workers /\ "af" \in Threads /\ "mAfLock" \in Locks
      /\ {"af_lock", "af_done"} \subseteq PlacesOf("af")
  BY CallersAreThreads DEF Workers, Locks, PlacesOf, FocusPlaces, Frames
<1>2. CASE Acquire("af", "mAfLock") /\ Goto("af", "af_try", "af_lock")
  BY <1>1, <1>2, FocusStays, TakesLock, WorkerStep DEF tryAutoFocus, None
<1>3. CASE Goto("af", "af_try", "af_done") /\ UNCHANGED held
  BY <1>1, <1>3, FocusStays, NothingHeld, WorkerStep DEF tryAutoFocus, None
<1> QED BY <1>2, <1>3 DEF tryAutoFocus

(* It ends, and reports it.                                                *)
LEMMA autoFocusDoneInv ==
    ASSUME IInv, autoFocusDone
    PROVE  IInv'
<1>1. "af" \in Workers /\ "af" \in Threads /\ None \in PlacesOf("af")
      /\ {"mAutoFocusThreadLock"} \in SUBSET (Locks \ {"mLock", "mCameraRunningLock"})
  BY CallersAreThreads DEF Workers, Locks, PlacesOf, Frames
<1> QED BY <1>1, DropsLock, WorkerStep
        DEF autoFocusDone, None, core, client, preview, picture, mode

(* The thread that focuses has the lock and finds the preview running.     *)
LEMMA startAutoFocusInv ==
    ASSUME IInv, startAutoFocus
    PROVE  IInv'
<1> DEFINE to == IF mCameraRunning THEN "focusing" ELSE "af_unlock"
<1>1. "af" \in Workers /\ "af" \in Threads /\ "mCameraRunningLock" \in Locks /\ "mLock" \in Locks
      /\ to \in PlacesOf("af")
  BY CallersAreThreads DEF Workers, Locks, PlacesOf, FocusPlaces, Frames
<1>2. pc["af"] = "af_lock" /\ Moves("af", to)
  BY <1>1, GotoMoves DEF startAutoFocus, IInv
<1>3. (\A u \in Callers : QuietCaller(u)) /\ \A u \in Workers \ {"af"} : pc'[u] = pc[u]
  BY <1>1, <1>2, WorkerMoves
<1>4. QuietSnapshot
  BY <1>3 DEF QuietSnapshot, Workers
<1>5. /\ held' \in [Locks -> Threads \cup {None}]
      /\ held'["mLock"] = held["mLock"]
      /\ held["mCameraRunningLock"] = None /\ held'["mCameraRunningLock"] = "af"
  BY <1>1 DEF startAutoFocus, Acquire, IInv, TypesCorrect
<1>6. UNCHANGED core /\ UNCHANGED call /\ UNCHANGED camframe_timeout_flag
  BY DEF startAutoFocus, core, client, preview, picture, mode
<1>7. TypesCorrect'
  BY <1>2, <1>5, <1>6 DEF IInv, TypesCorrect, Moves, core
<1>8. \A t \in Callers : (pc'[t] \in CallPlaces <=> pc[t] \in CallPlaces)
                         /\ (pc'[t] \in DriverPlaces <=> pc[t] \in DriverPlaces)
  BY <1>3, SameStays, Apart
<1>9. LocksAgree'
  <2>1. \A t \in Callers : t # "af" /\ t # None
    BY CallersAreThreads DEF Callers, Frames, None
  <2>2. pc'["af"] \in {"focusing", "af_unlock"}
    BY <1>2 DEF Moves
  <2> QED BY <1>5, <1>8, <2>1, <2>2 DEF IInv, LocksAgree
<1>10. NoFrame' <=> NoFrame
  BY <1>3, CallersAreThreads, SameStays DEF NoFrame
<1>11. FrameAgrees'
  BY <1>3, <1>6, <1>10, CallersAreThreads, SameStays
  DEF IInv, FrameAgrees, OneFrameThread, HeapInUse, Alive, core
<1>12. DriverAgrees'
  BY <1>2, <1>5, <1>6 DEF IInv, DriverAgrees, Moves, core
<1>13. InitializedRuns'
  BY <1>3, <1>6, SameStays, Apart DEF IInv, InitializedRuns, core
<1>14. SnapshotAgrees'
  BY <1>3, <1>4, <1>6, SameStays, Apart DEF IInv, SnapshotAgrees, QuietSnapshot, core
<1>15. FocusAgrees'
  BY <1>2 DEF startAutoFocus, Moves, IInv, FocusAgrees, None
<1> QED BY <1>3, <1>4, <1>6, <1>7, <1>9, <1>11, <1>12, <1>13, <1>14, <1>15, QuietClaims,
           NoCallBegins
        DEF IInv

(* It gives mCameraRunningLock back: nobody took the driver from it.       *)
LEMMA unlockAutoFocusInv ==
    ASSUME IInv, unlockAutoFocus
    PROVE  IInv'
<1>1. "af" \in Workers /\ "af" \in Threads /\ "mCameraRunningLock" \in Locks /\ "mLock" \in Locks
      /\ "af_done" \in PlacesOf("af")
  BY CallersAreThreads DEF Workers, Locks, PlacesOf, FocusPlaces, Frames
<1>2. pc["af"] \in {"focusing", "af_unlock"} /\ Moves("af", "af_done")
  BY <1>1, GotoMoves DEF unlockAutoFocus, IInv
<1>3. (\A u \in Callers : QuietCaller(u)) /\ \A u \in Workers \ {"af"} : pc'[u] = pc[u]
  BY <1>1, <1>2, WorkerMoves
<1>4. QuietSnapshot
  BY <1>3 DEF QuietSnapshot, Workers
<1>5. held["mCameraRunningLock"] = "af"
  BY <1>2 DEF IInv, LocksAgree
<1>6. /\ held' \in [Locks -> Threads \cup {None}]
      /\ held'["mLock"] = held["mLock"]
      /\ held'["mCameraRunningLock"] = None
  <2>1. \A l \in Locks : held[l] \in Threads \cup {None}
    BY DEF IInv, TypesCorrect
  <2> QED BY <1>1, <1>5, <2>1 DEF unlockAutoFocus, Drop
<1>7. UNCHANGED core /\ UNCHANGED call /\ UNCHANGED camframe_timeout_flag
  BY DEF unlockAutoFocus, core, client, preview, picture, mode
<1>8. TypesCorrect'
  BY <1>2, <1>6, <1>7 DEF IInv, TypesCorrect, Moves, core
<1>9. \A t \in Callers : (pc'[t] \in CallPlaces <=> pc[t] \in CallPlaces)
                         /\ (pc'[t] \in DriverPlaces <=> pc[t] \in DriverPlaces)
  BY <1>3, SameStays, Apart
<1>10. LocksAgree'
  <2>1. \A t \in Callers : t # "af" /\ t # None
    BY CallersAreThreads DEF Callers, Frames, None
  <2>2. pc'["af"] \notin {"focusing", "af_unlock"}
    BY <1>2 DEF Moves
  <2>3. "af" # None
    BY DEF None
  <2> QED BY <1>5, <1>6, <1>9, <2>1, <2>2, <2>3 DEF IInv, LocksAgree
<1>11. NoFrame' <=> NoFrame
  BY <1>3, CallersAreThreads, SameStays DEF NoFrame
<1>12. FrameAgrees'
  BY <1>3, <1>7, <1>11, CallersAreThreads, SameStays
  DEF IInv, FrameAgrees, OneFrameThread, HeapInUse, Alive, core
<1>13. DriverAgrees'
  BY <1>2, <1>5, <1>6, <1>7 DEF IInv, DriverAgrees, Moves, core
<1>14. InitializedRuns'
  BY <1>3, <1>7, SameStays, Apart DEF IInv, InitializedRuns, core
<1>15. SnapshotAgrees'
  BY <1>3, <1>4, <1>7, SameStays, Apart DEF IInv, SnapshotAgrees, QuietSnapshot, core
<1>16. FocusAgrees'
  BY <1>2 DEF unlockAutoFocus, Moves, IInv, FocusAgrees, None
<1> QED BY <1>3, <1>4, <1>7, <1>8, <1>10, <1>12, <1>13, <1>14, <1>15, <1>16, QuietClaims,
           NoCallBegins
        DEF IInv

(* The picture.                                                            *)
LEMMA SnapshotStep ==
    ASSUME IInv, NEW from \in SnapshotPlaces, NEW to \in SnapshotPlaces,
           Goto("snapshot", from, to), to \in SensorPlaces => from \in SensorPlaces,
           UNCHANGED core, UNCHANGED call, UNCHANGED camframe_timeout_flag,
           UNCHANGED mAutoFocusThreadRunning, KeepsLocks
    PROVE  IInv'
<1>1. "snapshot" \in Workers /\ to \in PlacesOf("snapshot") /\ None \notin SnapshotPlaces
  BY DEF Workers, PlacesOf, Frames, SnapshotPlaces, SensorPlaces, None
<1> QED BY <1>1, WorkerStep

(* The snapshot thread asks the driver for the picture.                    *)
LEMMA startSnapshotInv ==
    ASSUME IInv, startSnapshot
    PROVE  IInv'
BY SnapshotStep, NothingHeld
DEF startSnapshot, SnapshotPlaces, SensorPlaces, core, client, preview, picture, mode

(* The raw picture comes, with the shutter if it is wanted, or does not.   *)
LEMMA receiveRawPictureInv ==
    ASSUME IInv, receiveRawPicture
    PROVE  IInv'
<1>1. "snapshot" \in Threads /\ "mCallbackLock" \in Locks \ {"mLock", "mCameraRunningLock"}
  BY CallersAreThreads DEF Locks
<1>2. KeepsLocks
  BY <1>1, TakesLock DEF receiveRawPicture
<1>3. \E to \in {"crop", "raw_callback", "raw_return", "encode"} :
          Goto("snapshot", "raw_picture", to)
  BY DEF receiveRawPicture
<1>4. /\ UNCHANGED core /\ UNCHANGED call /\ UNCHANGED camframe_timeout_flag
      /\ UNCHANGED mAutoFocusThreadRunning
  BY DEF receiveRawPicture, core, client, preview
<1> QED BY <1>2, <1>3, <1>4, SnapshotStep DEF SnapshotPlaces, SensorPlaces

(* It is cropped,                                                          *)
LEMMA cropPictureInv ==
    ASSUME IInv, cropPicture
    PROVE  IInv'
BY SnapshotStep, NothingHeld
DEF cropPicture, SnapshotPlaces, SensorPlaces, core, client, preview, picture, mode

(* and the raw callback is called.                                         *)
LEMMA rawCallbackInv ==
    ASSUME IInv, rawCallback
    PROVE  IInv'
BY SnapshotStep, NothingHeld
DEF rawCallback, SnapshotPlaces, SensorPlaces, core, client, preview, picture, mode

(* The encoder is started if the client wants the image.                   *)
LEMMA encodeInv ==
    ASSUME IInv, encode
    PROVE  IInv'
BY SnapshotStep, NothingHeld
DEF encode, SnapshotPlaces, SensorPlaces, core, client, preview, mode

(* The memory goes if nobody will encode it.                               *)
LEMMA rawDeinitInv ==
    ASSUME IInv, rawDeinit
    PROVE  IInv'
BY SnapshotStep, NothingHeld
DEF rawDeinit, SnapshotPlaces, SensorPlaces, core, client, preview, mode

(* receiveRawPicture() returns.                                            *)
LEMMA rawReturnInv ==
    ASSUME IInv, rawReturn
    PROVE  IInv'
<1>1. "snapshot" \in Threads
      /\ {"mCallbackLock"} \in SUBSET (Locks \ {"mLock", "mCameraRunningLock"})
  BY CallersAreThreads DEF Locks
<1> QED BY <1>1, DropsLock, SnapshotStep
        DEF rawReturn, SnapshotPlaces, SensorPlaces, core, client, preview, picture, mode

(* A raw picture needs no encoder.                                         *)
LEMMA receiveRawSnapshotInv ==
    ASSUME IInv, receiveRawSnapshot
    PROVE  IInv'
<1>1. "snapshot" \in Threads /\ "mCallbackLock" \in Locks \ {"mLock", "mCameraRunningLock"}
  BY CallersAreThreads DEF Locks
<1>2. KeepsLocks
  BY <1>1, TakesLock, NothingHeld DEF receiveRawSnapshot
<1>3. \E to \in {"snapshot_callback", "snap_mode"} : Goto("snapshot", "raw_snapshot", to)
  BY DEF receiveRawSnapshot
<1>4. /\ UNCHANGED core /\ UNCHANGED call /\ UNCHANGED camframe_timeout_flag
      /\ UNCHANGED mAutoFocusThreadRunning
  BY DEF receiveRawSnapshot, core, client, preview
<1> QED BY <1>2, <1>3, <1>4, SnapshotStep DEF SnapshotPlaces, SensorPlaces

(* It is delivered.                                                        *)
LEMMA snapshotCallbackInv ==
    ASSUME IInv, snapshotCallback
    PROVE  IInv'
<1>1. "snapshot" \in Threads
      /\ {"mCallbackLock"} \in SUBSET (Locks \ {"mLock", "mCameraRunningLock"})
  BY CallersAreThreads DEF Locks
<1> QED BY <1>1, DropsLock, SnapshotStep
        DEF snapshotCallback, SnapshotPlaces, SensorPlaces, core, client, preview, mode

(* The thread waits for the encoder,                                       *)
LEMMA waitEncoderInv ==
    ASSUME IInv, waitEncoder
    PROVE  IInv'
BY SnapshotStep, NothingHeld DEF waitEncoder, SnapshotPlaces, SensorPlaces, core, client, preview

(* and gives the memory back after it.                                     *)
LEMMA joinSnapshotInv ==
    ASSUME IInv, joinSnapshot
    PROVE  IInv'
BY SnapshotStep, NothingHeld
DEF joinSnapshot, SnapshotPlaces, SensorPlaces, core, client, preview, mode

(* The thread has the picture, and tells so.                               *)
LEMMA PictureTaken ==
    ASSUME IInv, NEW from \in SnapshotPlaces, NEW to \in SnapshotPlaces \cup {None},
           to \notin SensorPlaces, Goto("snapshot", from, to),
           mSnapshotThreadRunning' <=> to # None, UNCHANGED call, UNCHANGED held,
           UNCHANGED <<mCameraRunning, mPreviewInitialized, mFrameThreadRunning, mPreviewHeap,
                       driver, released, camframe_timeout_flag, mAutoFocusThreadRunning>>
    PROVE  IInv'
<1>1. "snapshot" \in Workers /\ to \in PlacesOf("snapshot") /\ "snapshot" \in Threads
      /\ from # None
  BY CallersAreThreads DEF Workers, PlacesOf, Frames, SnapshotPlaces, SensorPlaces, None
<1>2. pc["snapshot"] = from /\ Moves("snapshot", to)
  BY <1>1, GotoMoves DEF IInv
<1>3. (\A u \in Callers : QuietCaller(u)) /\ pc'["af"] = pc["af"]
  BY <1>1, <1>2, WorkerMoves DEF Workers
<1>4. TypesCorrect'
  BY <1>2 DEF IInv, TypesCorrect, Moves
<1>5. \A t \in Callers : (pc'[t] \in CallPlaces <=> pc[t] \in CallPlaces)
                         /\ (pc'[t] \in DriverPlaces <=> pc[t] \in DriverPlaces)
  BY <1>3, SameStays, Apart
<1>6. LocksAgree'
  BY <1>3, <1>5 DEF IInv, LocksAgree
<1>7. NoFrame' <=> NoFrame
  BY <1>3, CallersAreThreads, SameStays DEF NoFrame
<1>8. FrameAgrees'
  BY <1>3, <1>7, CallersAreThreads, SameStays
  DEF IInv, FrameAgrees, OneFrameThread, HeapInUse, Alive
<1>9. DriverAgrees'
  BY <1>3 DEF IInv, DriverAgrees
<1>10. InitializedRuns'
  BY <1>3, SameStays, Apart DEF IInv, InitializedRuns
<1>11. SnapshotAgrees'
  BY <1>2 DEF SnapshotAgrees, Moves
<1>12. \A t \in Callers : Claims(t)'
  <2> SUFFICES ASSUME NEW t \in Callers, pc'[t] \in CallPlaces
               PROVE  Claims(t)'
    BY OutOfCallNext
  <2>1. pc'[t] = pc[t] /\ call'[t] = call[t]
    BY <1>3, SameStays
  <2>2. Taking(t)' <=> Taking(t)
    BY <2>1 DEF Taking
  <2>3. Claims(t) /\ ~Taking(t)
    BY <1>1, <1>2 DEF IInv, Claims
  <2>4. pc'["snapshot"] \notin SensorPlaces
    BY <1>2 DEF Moves
  <2> QED BY <1>7, <2>1, <2>2, <2>3, <2>4 DEF Claims
<1>13. FocusAgrees'
  BY <1>3 DEF IInv, FocusAgrees
<1> QED BY <1>4, <1>6, <1>8, <1>9, <1>10, <1>11, <1>12, <1>13 DEF IInv

(* The snapshot mode ends: whoever waits for it in initPreview() may go    *)
(* on, and no picture is with the sensor.                                  *)
LEMMA leaveSnapshotModeInv ==
    ASSUME IInv, leaveSnapshotMode
    PROVE  IInv'
<1>1. /\ "snap_mode" \in SnapshotPlaces /\ "jpeg_wait" \in SnapshotPlaces
      /\ "jpeg_wait" \notin SensorPlaces /\ "jpeg_wait" # None
  BY DEF SnapshotPlaces, SensorPlaces, None
<1>2. mSnapshotThreadRunning
  BY DEF leaveSnapshotMode, Goto, At, IInv, SnapshotAgrees, None
<1> QED BY <1>1, <1>2, PictureTaken DEF leaveSnapshotMode, client, preview

(* The thread ends.                                                        *)
LEMMA endSnapshotThreadInv ==
    ASSUME IInv, endSnapshotThread
    PROVE  IInv'
BY PictureTaken DEF endSnapshotThread, SnapshotPlaces, SensorPlaces, None, client, preview

(* The picture goes to the encoder, which reads it and is done.            *)
LEMMA EncoderMoves ==
    ASSUME IInv, NEW to \in SnapshotPlaces, NEW start \in EncoderPlaces,
           NEW from \in SnapshotPlaces,
           Fork("snapshot", from, to, "encoder", start),
           to \in SensorPlaces => from \in SensorPlaces,
           UNCHANGED core, UNCHANGED call, UNCHANGED camframe_timeout_flag,
           UNCHANGED mAutoFocusThreadRunning, UNCHANGED held
    PROVE  IInv'
<1>1. /\ "snapshot" \in Threads /\ "encoder" \in Threads /\ Callers \subseteq Threads
      /\ {"af", "snapshot", "encoder"} \cap Callers = {}
      /\ to \in PlacesOf("snapshot") /\ start \in PlacesOf("encoder")
      /\ None \notin SnapshotPlaces /\ "af" \in Threads
  BY CallersAreThreads
  DEF PlacesOf, Frames, SnapshotPlaces, SensorPlaces, EncoderPlaces, None
<1>2. /\ pc["snapshot"] = from /\ pc' = [pc EXCEPT !["snapshot"] = to, !["encoder"] = start]
      /\ pc \in [Threads -> Places] /\ \A t \in Threads : pc[t] \in PlacesOf(t)
  BY DEF Fork, At, IInv, TypesCorrect, PlacesCorrect
<1>3. pc'["snapshot"] = to /\ \A t \in Threads \ {"snapshot", "encoder"} : pc'[t] = pc[t]
  BY <1>1, <1>2
<1>4. PlacesCorrect'
  BY <1>1, <1>2, PlacesOfPlaces DEF PlacesCorrect
<1>5. QuietSnapshot /\ QuietFocus /\ \A u \in Callers : QuietCaller(u)
  BY <1>1, <1>2, <1>3 DEF QuietSnapshot, QuietFocus, QuietCaller, Same, FocusAgrees, IInv
<1> QED BY <1>4, <1>5, QuietInv, NothingHeld, NoCallBegins

(* The encoder starts, or does not.                                        *)
LEMMA native_jpeg_encodeInv ==
    ASSUME IInv, native_jpeg_encode
    PROVE  IInv'
BY EncoderMoves, SnapshotStep, NothingHeld
DEF native_jpeg_encode, SnapshotPlaces, SensorPlaces, EncoderPlaces, core, client, preview,
    picture, mode

(* A step of the encoder.                                                  *)
LEMMA EncoderStep ==
    ASSUME IInv, NEW from, NEW to \in EncoderPlaces \cup {None}, Goto("encoder", from, to),
           UNCHANGED core, UNCHANGED call, UNCHANGED camframe_timeout_flag,
           UNCHANGED mAutoFocusThreadRunning, UNCHANGED held
    PROVE  IInv'
<1>1. "encoder" \in Workers /\ to \in PlacesOf("encoder")
  BY DEF Workers, PlacesOf, Frames
<1> QED BY <1>1, WorkerStep, NothingHeld

(* All of them.                                                            *)
LEMMA InEncoderInv ==
    ASSUME IInv, InEncoder
    PROVE  IInv'
BY EncoderStep
DEF InEncoder, encoderEvent, receiveJpegPicture, EncoderPlaces, core, client, preview, picture, mode
-----------------------------------------------------------------------------
(* The calls.                                                              *)

(* What a call needs to move on within it.                                 *)
MayReach(t, to) ==
    /\ to \in CallPlaces \ DriverPlaces
    /\ to \in AllocPlaces => NoFrame
    /\ to = "create" => mPreviewHeap \in Frames
    /\ to \in StartPlaces => ~mCameraRunning
    /\ to \in RunPlaces => mCameraRunning
    /\ call[t] = "takePicture" =>
           /\ to \in TakePlaces \cup StopPlaces \cup {"leave"}
           /\ to \in {"raw", "create_snapshot"} \cup StopPlaces => pc["snapshot"] = None
    /\ to \in {"raw", "create_snapshot"} => pc["snapshot"] = None
    /\ to \in SetUpPlaces => pc["snapshot"] \notin SensorPlaces

SpecialPlaces == DriverPlaces \cup {"set_mode", "native_start", "undo_start", "deinit"}

(* A call goes on to where nothing hinders it.                             *)
LEMMA CallStep ==
    ASSUME IInv, NEW t \in Callers, NEW to, Moves(t, to), UNCHANGED core, UNCHANGED call,
           UNCHANGED camframe_timeout_flag, UNCHANGED mAutoFocusThreadRunning, KeepsLocks,
           pc[t] \in CallPlaces \ SpecialPlaces, MayReach(t, to)
    PROVE  IInv'
<1>1. to \in CallPlaces \ DriverPlaces
  BY DEF MayReach
<1>2. NoFrame' <=> NoFrame
  BY <1>1, CallFrames DEF core
<1>3. pc'[t] = to /\ pc'["snapshot"] = pc["snapshot"]
  BY Alone DEF Moves
<1>4. to \notin {"started", "not_started", "stopped", "not_stopped"}
  BY <1>1 DEF DriverPlaces
<1>5. Taking(t)' => pc'["snapshot"] = None
  BY <1>3 DEF MayReach, Taking
<1>6. Claims(t)'
  BY <1>1, <1>2, <1>3, <1>4, <1>5 DEF MayReach, Claims, core
<1> QED BY <1>1, <1>6, CallInv DEF SpecialPlaces

(* The same for a step that names both places.                             *)
LEMMA CallGoto ==
    ASSUME IInv, NEW t \in Callers, NEW from, NEW to, Goto(t, from, to), UNCHANGED core,
           UNCHANGED call, UNCHANGED camframe_timeout_flag, UNCHANGED mAutoFocusThreadRunning,
           KeepsLocks, from \in CallPlaces \ SpecialPlaces, MayReach(t, to)
    PROVE  IInv'
<1>1. t \in Threads /\ to \in PlacesOf(t)
  BY CallersAreThreads DEF MayReach, PlacesOf, Callers
<1> QED BY <1>1, GotoMoves, CallStep DEF IInv

(* Places that are in none of the groups the invariant speaks of.          *)
LEMMA PlainPlaces ==
    /\ OtherPlaces \subseteq CallPlaces \ SpecialPlaces
    /\ OtherPlaces \cap (AllocPlaces \cup SetUpPlaces \cup StartPlaces \cup RunPlaces
                         \cup StopPlaces \cup TakePlaces \cup {"create", "raw", "create_snapshot"})
       = {}
    /\ {"take", "raw", "create_snapshot", "give_up", "stop", "cancel", "cancel_unlock", "create",
        "lock_timeout", "native_stop", "wait_frame", "wait_snapshot", "heap"}
       \subseteq CallPlaces \ SpecialPlaces
BY DEF OtherPlaces, AllocPlaces, SetUpPlaces, StartPlaces, RunPlaces, StopPlaces, TakePlaces,
       CallPlaces, SpecialPlaces, DriverPlaces

(* A place that needs nothing.                                             *)
LEMMA PlainReach ==
    ASSUME NEW t, NEW to \in OtherPlaces, call[t] = "takePicture" => to = "leave"
    PROVE  MayReach(t, to)
<1>1. DriverPlaces \subseteq SpecialPlaces
  BY DEF SpecialPlaces
<1>2. to \notin DriverPlaces /\ to \in CallPlaces
  BY <1>1, PlainPlaces
<1> QED BY <1>2, PlainPlaces DEF MayReach

(* enableMsgType() and disableMsgType() change the mask.                   *)
LEMMA setMessagesInv ==
    ASSUME IInv, NEW t \in Callers, setMessages(t)
    PROVE  IInv'
BY PlainReach, PlainPlaces, CallGoto, NothingHeld
DEF setMessages, OtherPlaces, core, preview, picture, mode

(* Who takes a picture does nothing else.                                  *)
LEMMA TakesOnly ==
    ASSUME IInv, NEW t \in Callers, pc[t] \in OtherPlaces \ {"leave"}
    PROVE  call[t] # "takePicture"
BY PlainPlaces DEF IInv, Claims

(* startRecording() starts the preview.                                    *)
LEMMA startRecordingInv ==
    ASSUME IInv, NEW t \in Callers, startRecording(t)
    PROVE  IInv'
<1>1. "rec_start" \in OtherPlaces /\ "start" \in OtherPlaces /\ "rec_start" # "leave"
  BY DEF OtherPlaces
<1>2. call[t] # "takePicture"
  BY <1>1, TakesOnly DEF startRecording, Goto, At
<1> QED BY <1>1, <1>2, PlainReach, PlainPlaces, CallGoto, NothingHeld
        DEF startRecording, core, client, preview, picture, mode

(* A preview that is initialized runs: the first branch but one is dead.   *)
LEMMA startPreviewInternalInv ==
    ASSUME IInv, NEW t \in Callers, startPreviewInternal(t)
    PROVE  IInv'
<1> USE DEF core, client, preview, picture, mode
<1>1. "start" \in OtherPlaces /\ "leave" \in OtherPlaces /\ "start" # "leave"
  BY DEF OtherPlaces
<1>2. pc[t] = "start" /\ pc[t] \in CallPlaces
  BY <1>1, PlainPlaces DEF startPreviewInternal, Goto, At
<1>3. call[t] # "takePicture"
  BY <1>1, <1>2, TakesOnly
<1>4. mPreviewInitialized => mCameraRunning
  <2>1. \A u \in Callers \ {t} : pc[u] \notin CallPlaces
    BY <1>2 DEF IInv, LocksAgree
  <2>2. \A u \in Callers : pc[u] \notin {"native_start", "started", "not_started", "undo_start",
                                         "deinit"}
    BY <1>2, <2>1, Apart
  <2> QED BY <2>2 DEF IInv, InitializedRuns
<1>5. CASE Goto(t, "start", "leave")
  BY <1>1, <1>3, <1>5, PlainReach, PlainPlaces, CallGoto, NothingHeld DEF startPreviewInternal
<1>6. CASE ~mCameraRunning /\ Goto(t, "start", "wait_frame")
  <2>1. MayReach(t, "wait_frame")
    BY <1>3, <1>6, PlainPlaces DEF MayReach, SpecialPlaces, AllocPlaces, RunPlaces, SetUpPlaces
  <2> QED BY <1>1, <1>6, <2>1, PlainPlaces, CallGoto, NothingHeld DEF startPreviewInternal
<1> QED BY <1>4, <1>5, <1>6 DEF startPreviewInternal

(* Who starts the preview knows that it does not run, and is not taking a  *)
(* picture.                                                                *)
LEMMA StartClaims ==
    ASSUME IInv, NEW t \in Callers, pc[t] \in StartPlaces
    PROVE  ~mCameraRunning /\ call[t] # "takePicture"
<1>1. StartPlaces \cap (TakePlaces \cup StopPlaces \cup {"leave"}) = {}
  BY DEF StartPlaces, SetUpPlaces, TakePlaces, StopPlaces, RunPlaces
<1> QED BY <1>1, Apart DEF IInv, Claims

(* initPreview() waits until the last frame thread is gone: from here no   *)
(* frame thread lives.                                                     *)
LEMMA waitFrameThreadInv ==
    ASSUME IInv, NEW t \in Callers, waitFrameThread(t)
    PROVE  IInv'
<1>1. ~mCameraRunning /\ call[t] # "takePicture"
  BY StartClaims DEF waitFrameThread, Goto, At, StartPlaces
<1>2. NoFrame
  BY DEF waitFrameThread, IInv, FrameAgrees
<1>3. MayReach(t, "wait_snapshot")
  BY <1>1, <1>2, PlainPlaces DEF MayReach, SpecialPlaces, RunPlaces, SetUpPlaces
<1> QED BY <1>3, PlainPlaces, CallGoto, NothingHeld
        DEF waitFrameThread, core, client, preview, picture, mode

(* It waits until no picture is with the sensor.                           *)
LEMMA waitSnapshotModeInv ==
    ASSUME IInv, NEW t \in Callers, waitSnapshotMode(t)
    PROVE  IInv'
<1>1. pc[t] = "wait_snapshot" /\ pc[t] \in StartPlaces /\ pc[t] \in AllocPlaces
      /\ pc[t] \in CallPlaces
  BY PlainPlaces DEF waitSnapshotMode, Goto, At, StartPlaces, AllocPlaces
<1>2. ~mCameraRunning /\ call[t] # "takePicture" /\ NoFrame
  BY <1>1, StartClaims DEF IInv, Claims
<1>3. pc["snapshot"] \notin SensorPlaces
  <2>1. \A u \in Callers \ {t} : pc[u] \notin CallPlaces
    BY <1>1 DEF IInv, LocksAgree
  <2>2. \A u \in Callers : pc[u] # "set_mode"
    BY <1>1, <2>1, Apart
  <2> QED BY <2>2 DEF waitSnapshotMode, IInv, SnapshotAgrees
<1>4. MayReach(t, "heap")
  BY <1>2, <1>3, PlainPlaces DEF MayReach, SpecialPlaces, RunPlaces
<1> QED BY <1>4, PlainPlaces, CallGoto, NothingHeld
        DEF waitSnapshotMode, core, client, preview, picture, mode

(* Stopping it: the call that stops for a picture knows no other is taken. *)
LEMMA stopPreviewInv ==
    ASSUME IInv, NEW t \in Callers, stopPreview(t)
    PROVE  IInv'
<1>1. "stop_check" \in OtherPlaces /\ "leave" \in OtherPlaces /\ "stop_check" # "leave"
  BY DEF OtherPlaces
<1>2. call[t] # "takePicture"
  BY <1>1, TakesOnly DEF stopPreview, Goto, At
<1>3. MayReach(t, "leave") /\ MayReach(t, "stop")
  BY <1>1, <1>2, PlainReach, PlainPlaces
  DEF MayReach, SpecialPlaces, AllocPlaces, StartPlaces, SetUpPlaces, RunPlaces
<1> QED BY <1>1, <1>3, PlainPlaces, CallGoto, NothingHeld
        DEF stopPreview, core, client, preview, picture, mode

(* stopRecording() stops the preview, unless frames are still shown.       *)
LEMMA stopRecordingInv ==
    ASSUME IInv, NEW t \in Callers, stopRecording(t)
    PROVE  IInv'
<1> DEFINE to == IF Enabled("PREVIEW_FRAME") THEN "leave" ELSE "stop"
<1>1. "rec_stop" \in OtherPlaces /\ "leave" \in OtherPlaces /\ "rec_stop" # "leave"
  BY DEF OtherPlaces
<1>2. call[t] # "takePicture" /\ pc[t] = "rec_stop"
  BY <1>1, TakesOnly DEF stopRecording, At
<1>3. MayReach(t, "leave") /\ MayReach(t, "stop")
  BY <1>1, <1>2, PlainReach, PlainPlaces
  DEF MayReach, SpecialPlaces, AllocPlaces, StartPlaces, SetUpPlaces, RunPlaces
<1>4. t \in Threads /\ to \in PlacesOf(t) /\ to # "rec_wait"
  BY <1>3, CallersAreThreads DEF MayReach, PlacesOf, Callers
<1>5. Moves(t, to)
  BY <1>4, SignalMoves DEF stopRecording, IInv
<1> QED BY <1>1, <1>2, <1>3, <1>5, PlainPlaces, CallStep, NothingHeld
        DEF stopRecording, core, client, preview, picture, mode

(* Who stops the preview for a picture has found no other on its way.      *)
LEMMA StopClaims ==
    ASSUME IInv, NEW t \in Callers, pc[t] \in StopPlaces, call[t] = "takePicture"
    PROVE  pc["snapshot"] = None
BY DEF IInv, Claims, Taking

(* Where a call may go that stops a running preview.                       *)
LEMMA StopReach ==
    ASSUME IInv, NEW t \in Callers, pc[t] \in StopPlaces,
           NEW to \in {"cancel", "cancel_unlock", "lock_timeout", "native_stop"}, mCameraRunning
    PROVE  MayReach(t, to)
<1>1. to \in RunPlaces /\ to \in StopPlaces /\ to \in CallPlaces \ SpecialPlaces
  BY PlainPlaces DEF RunPlaces, StopPlaces
<1>2. to \notin AllocPlaces \cup StartPlaces \cup SetUpPlaces
  BY DEF AllocPlaces, StartPlaces, SetUpPlaces
<1> QED BY <1>1, <1>2, StopClaims DEF MayReach, SpecialPlaces

(* Where it returns to.                                                    *)
LEMMA AfterStopReach ==
    ASSUME IInv, NEW t \in Callers, pc[t] \in StopPlaces
    PROVE  MayReach(t, AfterStop(t))
<1>1. CASE call[t] = "takePicture"
  <2>1. AfterStop(t) = "raw" /\ pc["snapshot"] = None
    BY <1>1, StopClaims DEF AfterStop
  <2>2. "raw" \in TakePlaces /\ "raw" \in CallPlaces \ SpecialPlaces
    BY PlainPlaces DEF TakePlaces
  <2>3. "raw" \notin AllocPlaces \cup StartPlaces \cup SetUpPlaces \cup RunPlaces
    BY DEF AllocPlaces, StartPlaces, SetUpPlaces, RunPlaces
  <2> QED BY <2>1, <2>2, <2>3 DEF MayReach, SpecialPlaces
<1>2. CASE call[t] # "takePicture"
  <2>1. AfterStop(t) \in OtherPlaces
    BY <1>2 DEF AfterStop, OtherPlaces
  <2> QED BY <1>2, <2>1, PlainReach
<1> QED BY <1>1, <1>2

(* stopPreviewInternal() has nothing to do if the preview does not run.    *)
LEMMA stopPreviewInternalInv ==
    ASSUME IInv, NEW t \in Callers, stopPreviewInternal(t)
    PROVE  IInv'
<1> USE DEF core, client, preview, picture, mode
<1>1. pc[t] \in StopPlaces
  BY DEF stopPreviewInternal, Goto, At, StopPlaces
<1>2. CASE Goto(t, "stop", AfterStop(t))
  BY <1>1, <1>2, AfterStopReach, PlainPlaces, CallGoto, NothingHeld DEF stopPreviewInternal
<1>3. ASSUME mCameraRunning, NEW to \in {"cancel", "lock_timeout"}, Goto(t, "stop", to)
      PROVE  IInv'
  BY <1>1, <1>3, StopReach, PlainPlaces, CallGoto, NothingHeld DEF stopPreviewInternal
<1> QED BY <1>2, <1>3 DEF stopPreviewInternal

(* It takes mCamframeTimeoutLock.                                          *)
LEMMA lockTimeoutInv ==
    ASSUME IInv, NEW t \in Callers, lockTimeout(t)
    PROVE  IInv'
<1>1. pc[t] = "lock_timeout" /\ pc[t] \in StopPlaces /\ pc[t] \in RunPlaces /\ t \in Threads
  BY CallersAreThreads DEF lockTimeout, Goto, At, StopPlaces, RunPlaces
<1>2. mCameraRunning
  BY <1>1 DEF IInv, Claims
<1>3. KeepsLocks
  BY <1>1, TakesLock DEF lockTimeout, Locks
<1> QED BY <1>1, <1>2, <1>3, StopReach, PlainPlaces, CallGoto
        DEF lockTimeout, core, client, preview, picture, mode

(* release() stops the preview if it runs, once.                           *)
LEMMA releaseInv ==
    ASSUME IInv, NEW t \in Callers, release(t)
    PROVE  IInv'
<1> USE DEF core, client, preview, picture, mode
<1>1. "release" \in OtherPlaces /\ "leave" \in OtherPlaces /\ "join" \in OtherPlaces
      /\ "release" # "leave"
  BY DEF OtherPlaces
<1>2. call[t] # "takePicture" /\ pc[t] = "release" /\ t \in Threads
  BY <1>1, TakesOnly, CallersAreThreads DEF release, Goto, At
<1>3. MayReach(t, "leave") /\ MayReach(t, "join") /\ MayReach(t, "stop")
  BY <1>1, <1>2, PlainReach, PlainPlaces
  DEF MayReach, SpecialPlaces, AllocPlaces, StartPlaces, SetUpPlaces, RunPlaces
<1>4. ASSUME NEW to \in {"leave", "join", "stop"}, Goto(t, "release", to)
      PROVE  IInv'
  BY <1>1, <1>3, <1>4, PlainPlaces, CallGoto, NothingHeld DEF release
<1>5. CASE pc' = Signal([pc EXCEPT ![t] = "stop"])
  <2>1. "stop" \in PlacesOf(t)
    BY <1>3, CallersAreThreads DEF MayReach, PlacesOf, Callers
  <2>2. Moves(t, "stop")
    BY <1>2, <1>5, <2>1, SignalMoves DEF IInv
  <2> QED BY <1>1, <1>2, <1>3, <2>2, PlainPlaces, CallStep, NothingHeld DEF release
<1> QED BY <1>4, <1>5 DEF release

(* It waits for the encoder, and frees what the picture was in.            *)
LEMMA joinEncoderInv ==
    ASSUME IInv, NEW t \in Callers, joinEncoder(t) \/ releaseRaw(t)
    PROVE  IInv'
<1>1. PICK from \in {"join", "deinit_raw"}, to \in {"deinit_raw", "exit"} : Goto(t, from, to)
  BY DEF joinEncoder, releaseRaw
<1>2. from \in OtherPlaces /\ to \in OtherPlaces /\ from # "leave"
  BY DEF OtherPlaces
<1>3. call[t] # "takePicture"
  BY <1>1, <1>2, TakesOnly DEF Goto, At
<1> QED BY <1>1, <1>2, <1>3, PlainReach, PlainPlaces, CallGoto, NothingHeld
        DEF joinEncoder, releaseRaw, core, client, preview, mode

(* cancelAutoFocus() has nothing to do if the preview does not run or      *)
(* nobody wants to hear of focusing.                                       *)
LEMMA cancelAutoFocusInv ==
    ASSUME IInv, NEW t \in Callers, cancelAutoFocus(t)
    PROVE  IInv'
<1> USE DEF core, client, preview, picture, mode
<1>1. "cancel_check" \in OtherPlaces /\ "leave" \in OtherPlaces /\ "cancel_check" # "leave"
  BY DEF OtherPlaces
<1>2. call[t] # "takePicture"
  BY <1>1, TakesOnly DEF cancelAutoFocus, Goto, At
<1>3. CASE Goto(t, "cancel_check", "leave")
  BY <1>1, <1>2, <1>3, PlainReach, PlainPlaces, CallGoto, NothingHeld DEF cancelAutoFocus
<1>4. CASE mCameraRunning /\ Goto(t, "cancel_check", "cancel")
  <2>1. MayReach(t, "cancel")
    BY <1>2, <1>4, PlainPlaces DEF MayReach, SpecialPlaces, AllocPlaces, StartPlaces, SetUpPlaces
  <2> QED BY <1>1, <1>4, <2>1, PlainPlaces, CallGoto, NothingHeld DEF cancelAutoFocus
<1> QED BY <1>3, <1>4 DEF cancelAutoFocus

(* It takes mAfLock for a moment, or, when that is busy, tells the driver  *)
(* to cancel.                                                              *)
LEMMA cancelAutoFocusInternalInv ==
    ASSUME IInv, NEW t \in Callers, cancelAutoFocusInternal(t)
    PROVE  IInv'
<1> USE DEF core, client, preview, picture, mode
<1> DEFINE next == IF call[t] = "cancelAutoFocus" THEN "leave" ELSE "lock_timeout"
<1>1. pc[t] \in {"cancel", "cancel_unlock"} /\ pc[t] \in StopPlaces /\ pc[t] \in RunPlaces
      /\ t \in Threads
  BY CallersAreThreads DEF cancelAutoFocusInternal, Goto, At, StopPlaces, RunPlaces
<1>2. mCameraRunning
  BY <1>1 DEF IInv, Claims
<1>3. "leave" \in OtherPlaces
  BY DEF OtherPlaces
<1>4. MayReach(t, "cancel_unlock") /\ MayReach(t, next)
  BY <1>1, <1>2, <1>3, StopReach, PlainReach
<1>5. "mAfLock" \in Locks \ {"mLock", "mCameraRunningLock"}
  BY DEF Locks
<1>6. KeepsLocks
  BY <1>1, <1>5, TakesLock, DropsLock, NothingHeld DEF cancelAutoFocusInternal
<1> HIDE DEF next
<1>7. \/ Goto(t, "cancel", "cancel_unlock") \/ Goto(t, "cancel", next)
      \/ Goto(t, "cancel_unlock", next)
  BY DEF cancelAutoFocusInternal, next
<1> QED BY <1>4, <1>6, <1>7, PlainPlaces, CallGoto DEF cancelAutoFocusInternal

(* Taking a picture.                                                       *)
LEMMA takePictureInv ==
    ASSUME IInv, NEW t \in Callers, takePicture(t)
    PROVE  IInv'
<1>1. pc["snapshot"] = None
  BY DEF takePicture, IInv, SnapshotAgrees
<1>2. t \in Threads /\ "mSnapshotThreadWaitLock" \in Locks \ {"mLock", "mCameraRunningLock"}
  BY CallersAreThreads DEF Locks
<1>3. KeepsLocks
  BY <1>2, TakesLock DEF takePicture
<1>4. MayReach(t, "stop") /\ MayReach(t, "give_up")
  BY <1>1, PlainPlaces
  DEF MayReach, SpecialPlaces, AllocPlaces, StartPlaces, SetUpPlaces, RunPlaces, TakePlaces,
      StopPlaces
<1> QED BY <1>3, <1>4, PlainPlaces, CallGoto DEF takePicture, core, client, preview

(* takePicture() fails.                                                    *)
LEMMA giveUpInv ==
    ASSUME IInv, NEW t \in Callers, giveUp(t)
    PROVE  IInv'
<1>1. t \in Threads
      /\ {"mSnapshotThreadWaitLock"} \in SUBSET (Locks \ {"mLock", "mCameraRunningLock"})
  BY CallersAreThreads DEF Locks
<1>2. KeepsLocks
  BY <1>1, DropsLock DEF giveUp
<1>3. MayReach(t, "leave")
  BY PlainReach DEF OtherPlaces
<1> QED BY <1>2, <1>3, PlainPlaces, CallGoto DEF giveUp, core, client, preview, picture, mode

(* initRaw() allocates, or fails.                                          *)
LEMMA initPictureInv ==
    ASSUME IInv, NEW t \in Callers, initPicture(t)
    PROVE  IInv'
<1>1. pc[t] = "raw"
  BY DEF initPicture, Goto, At
<1>2. pc["snapshot"] = None
  BY <1>1 DEF IInv, Claims, Taking
<1>3. MayReach(t, "create_snapshot") /\ MayReach(t, "give_up")
  BY <1>2, PlainPlaces
  DEF MayReach, SpecialPlaces, AllocPlaces, StartPlaces, SetUpPlaces, RunPlaces, TakePlaces,
      StopPlaces
<1> QED BY <1>3, PlainPlaces, CallGoto, NothingHeld
        DEF initPicture, core, client, preview, mode
-----------------------------------------------------------------------------
(* The steps of a call that change what it is about.                       *)

(* What remains to be shown of such a step: the thread alone moves, and    *)
(* the frame threads are as they were.                                     *)
Inner(t, to) ==
    /\ Moves(t, to)
    /\ pc[t] \in CallPlaces /\ to \in CallPlaces
    /\ held' \in [Locks -> Threads \cup {None}] /\ UNCHANGED call
    /\ UNCHANGED <<mFrameThreadRunning, camframe_timeout_flag, mAutoFocusThreadRunning>>
    /\ mCameraRunning' \in BOOLEAN /\ driver' \in BOOLEAN

(* Such a step keeps the invariant if it keeps its parts.                  *)
LEMMA InnerInv ==
    ASSUME IInv, NEW t \in Callers, NEW to, Inner(t, to), UNCHANGED mPreviewHeap,
           LocksAgree', DriverAgrees', InitializedRuns', SnapshotAgrees', Claims(t)'
    PROVE  IInv'
<1>1. TypesCorrect'
  BY DEF IInv, TypesCorrect, Inner, Moves
<1>2. FrameAgrees'
  BY CallFrames DEF Inner
<1>3. FocusAgrees'
  BY Alone DEF Inner, IInv, FocusAgrees
<1>4. \A u \in Callers : Claims(u)'
  BY Alone DEF Inner
<1> QED BY <1>1, <1>2, <1>3, <1>4 DEF IInv

(* A step that names both places, within a call.                           *)
LEMMA InnerGoto ==
    ASSUME IInv, NEW t \in Callers, NEW from \in CallPlaces, NEW to \in CallPlaces,
           Goto(t, from, to)
    PROVE  pc[t] = from /\ Moves(t, to)
<1>1. t \in Threads /\ to \in PlacesOf(t)
  BY CallersAreThreads DEF PlacesOf, Callers
<1> QED BY <1>1, GotoMoves DEF IInv

(* The others are where the invariant says nothing of them.                *)
LEMMA OthersOut ==
    ASSUME IInv, NEW t \in Callers, pc[t] \in CallPlaces, NEW to, Moves(t, to)
    PROVE  \A u \in Callers \ {t} :
               /\ pc[u] \notin {"set_mode", "native_start", "started", "not_started",
                                "undo_start", "deinit"}
               /\ pc'[u] \notin {"set_mode", "native_start", "started", "not_started",
                                 "undo_start", "deinit"}
BY Alone, Apart

(* A step that is not about the snapshot mode.                             *)
LEMMA SnapshotSame ==
    ASSUME IInv, NEW t \in Callers, pc[t] \in CallPlaces \ {"set_mode"}, NEW to, Moves(t, to),
           UNCHANGED <<mSnapshotThreadRunning, mInSnapshotMode>>
    PROVE  SnapshotAgrees'
<1>1. \A u \in Callers : pc[u] = "set_mode" => pc'[u] = "set_mode"
  BY OthersOut
<1> QED BY <1>1, Alone DEF IInv, SnapshotAgrees

(* The focusing thread makes no calls.                                     *)
LEMMA CallersNamed == \A t \in Callers : t # "af" /\ t # None
BY DEF Callers, Frames, None

(* Taking mCameraRunningLock and giving it back.                           *)
LEMMA TakesDriver ==
    ASSUME IInv, NEW t \in Callers, NEW to \in DriverPlaces, Moves(t, to), pc[t] \in CallPlaces,
           Acquire(t, "mCameraRunningLock")
    PROVE  /\ LocksAgree'
           /\ held["mCameraRunningLock"] = None /\ held'["mCameraRunningLock"] = t
           /\ held' \in [Locks -> Threads \cup {None}]
<1>1. /\ held["mCameraRunningLock"] = None /\ held'["mCameraRunningLock"] = t
      /\ held' \in [Locks -> Threads \cup {None}] /\ held'["mLock"] = held["mLock"]
  BY CallersAreThreads DEF Acquire, Locks, IInv, TypesCorrect
<1>2. \A u \in Callers \ {t} : /\ pc[u] \notin CallPlaces /\ pc'[u] \notin CallPlaces
                               /\ pc'[u] \notin DriverPlaces
  BY Alone, Apart
<1>3. pc'[t] = to /\ pc'["af"] = pc["af"] /\ to \in CallPlaces
  BY Alone, Apart DEF Moves
<1>4. \A u \in Callers : held'["mLock"] = u <=> pc'[u] \in CallPlaces
  BY <1>1, <1>2, <1>3 DEF IInv, LocksAgree
<1>5. \A u \in Callers : held'["mCameraRunningLock"] = u <=> pc'[u] \in DriverPlaces
  BY <1>1, <1>2, <1>3
<1>6. ~(held'["mCameraRunningLock"] = "af") /\ ~(pc'["af"] \in {"focusing", "af_unlock"})
  BY <1>1, <1>3, CallersNamed DEF IInv, LocksAgree, None
<1> QED BY <1>1, <1>4, <1>5, <1>6 DEF IInv, LocksAgree

(* Who gives mCameraRunningLock back had it.                               *)
LEMMA DropsDriver ==
    ASSUME IInv, NEW t \in Callers, NEW to \in CallPlaces \ DriverPlaces, Moves(t, to),
           pc[t] \in DriverPlaces, Drop(t, {"mCameraRunningLock"})
    PROVE  /\ LocksAgree'
           /\ held["mCameraRunningLock"] = t /\ held'["mCameraRunningLock"] = None
           /\ held' \in [Locks -> Threads \cup {None}]
<1>1. pc[t] \in CallPlaces /\ held["mCameraRunningLock"] = t
  BY Apart DEF IInv, LocksAgree
<1>2. \A l \in Locks : held[l] \in Threads \cup {None}
  BY DEF IInv, TypesCorrect
<1>3. "mLock" \in Locks /\ "mCameraRunningLock" \in Locks
  BY DEF Locks
<1>4. /\ held'["mCameraRunningLock"] = None /\ held'["mLock"] = held["mLock"]
      /\ held' \in [Locks -> Threads \cup {None}]
  BY <1>1, <1>2, <1>3 DEF Drop
<1>5. \A u \in Callers \ {t} : /\ pc[u] \notin CallPlaces /\ pc'[u] \notin CallPlaces
                               /\ pc'[u] \notin DriverPlaces
  BY <1>1, Alone, Apart
<1>6. pc'[t] = to /\ pc'["af"] = pc["af"]
  BY <1>1, Alone DEF Moves
<1>7. \A u \in Callers : held'["mLock"] = u <=> pc'[u] \in CallPlaces
  BY <1>1, <1>4, <1>5, <1>6 DEF IInv, LocksAgree
<1>8. \A u \in Callers : held'["mCameraRunningLock"] = u <=> pc'[u] \in DriverPlaces
  BY <1>4, <1>5, <1>6, CallersNamed
<1>9. ~(held'["mCameraRunningLock"] = "af") /\ ~(pc'["af"] \in {"focusing", "af_unlock"})
  BY <1>1, <1>4, <1>6, CallersNamed DEF IInv, LocksAgree, None
<1> QED BY <1>1, <1>4, <1>7, <1>8, <1>9 DEF IInv, LocksAgree

(* None of those who claim nothing but what their place says.              *)
LEMMA PlaceSets ==
    /\ {"native_start", "started", "not_started"} \subseteq StartPlaces \cap SetUpPlaces
    /\ "undo_start" \in StartPlaces \ SetUpPlaces
    /\ {"native_start", "started", "not_started", "undo_start"} \cap
       (AllocPlaces \cup RunPlaces \cup StopPlaces \cup TakePlaces
        \cup {"create", "raw", "create_snapshot", "leave"}) = {}
    /\ {"native_stop", "stopped", "not_stopped"} \subseteq RunPlaces
    /\ "deinit" \in StopPlaces \ RunPlaces
    /\ {"native_stop", "stopped", "not_stopped", "deinit"} \subseteq StopPlaces
    /\ {"native_stop", "stopped", "not_stopped", "deinit"} \cap
       (AllocPlaces \cup StartPlaces \cup SetUpPlaces
        \cup {"create", "raw", "create_snapshot"}) = {}
    /\ {"started", "not_started", "stopped", "not_stopped"} = DriverPlaces
    /\ {"undo_start", "deinit", "leave", "native_start", "native_stop"} \cap DriverPlaces = {}
    /\ {"native_start", "started", "not_started", "undo_start", "native_stop", "stopped",
        "not_stopped", "deinit", "leave"} \subseteq CallPlaces
BY DEF StartPlaces, SetUpPlaces, AllocPlaces, RunPlaces, StopPlaces, TakePlaces, DriverPlaces,
       CallPlaces, OtherPlaces

(* A call that is about to return claims nothing.                          *)
LEMMA LeaveClaims ==
    ASSUME NEW t, pc'[t] = "leave"
    PROVE  Claims(t)'
<1>1. "leave" \notin AllocPlaces \cup StartPlaces \cup SetUpPlaces \cup RunPlaces \cup StopPlaces
                     \cup {"create", "raw", "create_snapshot", "started", "not_started", "stopped",
                           "not_stopped"}
  BY DEF AllocPlaces, StartPlaces, SetUpPlaces, RunPlaces, StopPlaces
<1> QED BY <1>1 DEF Claims, Taking

(* The driver starts, under mCameraRunningLock.                            *)
LEMMA nativeStartInv ==
    ASSUME IInv, NEW t \in Callers, nativeStart(t)
    PROVE  IInv'
<1> USE DEF client, preview, picture, mode
<1>1. PICK to \in {"started", "not_started"} : Goto(t, "native_start", to)
        /\ (to = "started" => driver') /\ driver' \in BOOLEAN
        /\ (to = "not_started" => UNCHANGED driver)
  BY DEF nativeStart, IInv, TypesCorrect
<1>2. pc[t] = "native_start" /\ Moves(t, to)
  BY <1>1, InnerGoto, PlaceSets
<1>3. pc[t] \in CallPlaces \ {"set_mode"} /\ to \in DriverPlaces /\ to \in CallPlaces
  BY <1>2, PlaceSets
<1>4. /\ LocksAgree'
      /\ held["mCameraRunningLock"] = None /\ held'["mCameraRunningLock"] = t
      /\ held' \in [Locks -> Threads \cup {None}]
  BY <1>2, <1>3, TakesDriver DEF nativeStart
<1>5. Inner(t, to)
  BY <1>1, <1>2, <1>3, <1>4 DEF Inner, nativeStart, IInv, TypesCorrect
<1>6. pc'["af"] = pc["af"] /\ pc'["snapshot"] = pc["snapshot"] /\ pc'[t] = to
  BY <1>2, <1>3, Alone DEF Moves
<1>7. pc["af"] # "focusing"
  BY <1>4 DEF IInv, LocksAgree, None
<1>8. DriverAgrees'
  BY <1>4, <1>6, <1>7, CallersNamed DEF DriverAgrees
<1>9. InitializedRuns'
  BY <1>6 DEF InitializedRuns
<1>10. SnapshotAgrees'
  BY <1>2, <1>3, SnapshotSame DEF nativeStart
<1>11. /\ ~mCameraRunning /\ pc["snapshot"] \notin SensorPlaces
       /\ call[t] # "takePicture"
       /\ ~released /\ ~camframe_timeout_flag => ~driver
  BY <1>2, <1>4, StartClaims, PlaceSets DEF IInv, Claims, DriverAgrees
<1>12. Claims(t)'
  BY <1>1, <1>6, <1>11, PlaceSets DEF Claims, Taking, nativeStart
<1> QED BY <1>4, <1>5, <1>8, <1>9, <1>10, <1>12, InnerInv DEF nativeStart

(* mCameraRunning is set to what the driver answered.                      *)
LEMMA startedInv ==
    ASSUME IInv, NEW t \in Callers, started(t)
    PROVE  IInv'
<1> USE DEF client, preview, picture, mode
<1>1. PICK from \in {"started", "not_started"}, to \in {"leave", "undo_start"} :
          /\ Goto(t, from, to)
          /\ from = "started" <=> to = "leave"
          /\ mCameraRunning' = (to = "leave")
  BY DEF started
<1>2. pc[t] = from /\ Moves(t, to)
  BY <1>1, InnerGoto, PlaceSets
<1>3. pc[t] \in CallPlaces \ {"set_mode"} /\ pc[t] \in DriverPlaces
      /\ to \in CallPlaces \ DriverPlaces
  BY <1>2, PlaceSets
<1>4. /\ LocksAgree'
      /\ held["mCameraRunningLock"] = t /\ held'["mCameraRunningLock"] = None
      /\ held' \in [Locks -> Threads \cup {None}]
  BY <1>2, <1>3, DropsDriver DEF started
<1>5. Inner(t, to)
  BY <1>1, <1>2, <1>3, <1>4 DEF Inner, started, IInv, TypesCorrect
<1>6. pc'["af"] = pc["af"] /\ pc'["snapshot"] = pc["snapshot"] /\ pc'[t] = to
  BY <1>2, <1>3, Alone DEF Moves
<1>7. pc["af"] # "focusing"
  BY <1>4, CallersNamed DEF IInv, LocksAgree
<1>8. ~released /\ ~camframe_timeout_flag => driver = (to = "leave")
  BY <1>1, <1>2 DEF IInv, Claims, TypesCorrect
<1>9. DriverAgrees'
  BY <1>1, <1>6, <1>7, <1>8 DEF DriverAgrees, started
<1>10. InitializedRuns'
  BY <1>1, <1>6 DEF InitializedRuns
<1>11. SnapshotAgrees'
  BY <1>2, <1>3, SnapshotSame DEF started
<1>12. call[t] # "takePicture"
  BY <1>2, StartClaims, PlaceSets
<1>13. Claims(t)'
  BY <1>1, <1>6, <1>12, LeaveClaims, PlaceSets DEF Claims, Taking, started
<1> QED BY <1>4, <1>5, <1>9, <1>10, <1>11, <1>13, InnerInv DEF started

(* A step that takes neither lock and is not between them.                 *)
LEMMA InnerLocks ==
    ASSUME IInv, NEW t \in Callers, NEW to \in CallPlaces \ DriverPlaces, Moves(t, to),
           pc[t] \in CallPlaces \ DriverPlaces, KeepsLocks
    PROVE  LocksAgree'
BY CallLocks

(* A start that failed is undone.                                          *)
LEMMA undoStartInv ==
    ASSUME IInv, NEW t \in Callers, undoStart(t)
    PROVE  IInv'
<1> USE DEF client, preview, picture, mode
<1>1. pc[t] = "undo_start" /\ Moves(t, "leave")
  BY InnerGoto, PlaceSets DEF undoStart
<1>2. pc[t] \in (CallPlaces \ {"set_mode"}) \ DriverPlaces /\ "leave" \in CallPlaces \ DriverPlaces
  BY <1>1, PlaceSets
<1>3. LocksAgree' /\ KeepsLocks
  BY <1>1, <1>2, InnerLocks, NothingHeld DEF undoStart
<1>4. Inner(t, "leave")
  BY <1>1, <1>2, <1>3 DEF Inner, undoStart, IInv, TypesCorrect, KeepsLocks
<1>5. pc'["af"] = pc["af"] /\ pc'[t] = "leave"
  BY <1>1, <1>2, Alone DEF Moves
<1>6. DriverAgrees'
  BY <1>5 DEF DriverAgrees, IInv, undoStart
<1>7. InitializedRuns'
  BY DEF InitializedRuns, undoStart, deinitPreview
<1>8. SnapshotAgrees'
  BY <1>1, <1>2, SnapshotSame DEF undoStart
<1>9. Claims(t)'
  BY <1>5, LeaveClaims
<1> QED BY <1>3, <1>4, <1>6, <1>7, <1>8, <1>9, InnerInv DEF undoStart

(* The driver stops, under mCameraRunningLock; after a timeout it is not   *)
(* asked to.                                                               *)
LEMMA nativeStopInv ==
    ASSUME IInv, NEW t \in Callers, nativeStop(t)
    PROVE  IInv'
<1> USE DEF client, preview, picture, mode
<1>1. PICK to \in {"stopped", "not_stopped"} : Goto(t, "native_stop", to)
        /\ (to = "stopped" /\ ~camframe_timeout_flag => ~driver') /\ driver' \in BOOLEAN
        /\ (to = "not_stopped" => UNCHANGED driver)
  BY DEF nativeStop, IInv, TypesCorrect
<1>2. pc[t] = "native_stop" /\ Moves(t, to)
  BY <1>1, InnerGoto, PlaceSets
<1>3. pc[t] \in CallPlaces \ {"set_mode"} /\ to \in DriverPlaces /\ to \in CallPlaces
      /\ pc[t] \in RunPlaces /\ pc[t] \in StopPlaces
  BY <1>2, PlaceSets
<1>4. /\ LocksAgree'
      /\ held["mCameraRunningLock"] = None /\ held'["mCameraRunningLock"] = t
      /\ held' \in [Locks -> Threads \cup {None}]
  BY <1>2, <1>3, TakesDriver DEF nativeStop
<1>5. Inner(t, to)
  BY <1>1, <1>2, <1>3, <1>4 DEF Inner, nativeStop, IInv, TypesCorrect
<1>6. pc'["af"] = pc["af"] /\ pc'["snapshot"] = pc["snapshot"] /\ pc'[t] = to
  BY <1>2, <1>3, Alone DEF Moves
<1>7. pc["af"] # "focusing"
  BY <1>4 DEF IInv, LocksAgree, None
<1>8. DriverAgrees'
  BY <1>4, <1>6, <1>7, CallersNamed DEF DriverAgrees
<1>9. mCameraRunning
  BY <1>3 DEF IInv, Claims
<1>10. InitializedRuns'
  BY <1>9 DEF InitializedRuns, nativeStop
<1>11. SnapshotAgrees'
  BY <1>2, <1>3, SnapshotSame DEF nativeStop
<1>12. /\ call[t] = "takePicture" => pc["snapshot"] = None
       /\ ~released /\ ~camframe_timeout_flag => driver
  BY <1>3, <1>4, <1>9, StopClaims DEF IInv, DriverAgrees
<1>13. Claims(t)'
  BY <1>1, <1>6, <1>9, <1>12, PlaceSets DEF Claims, Taking, nativeStop
<1> QED BY <1>4, <1>5, <1>8, <1>10, <1>11, <1>13, InnerInv DEF nativeStop

(* mCameraRunning is set to what the driver answered.                      *)
LEMMA stoppedInv ==
    ASSUME IInv, NEW t \in Callers, stopped(t)
    PROVE  IInv'
<1> USE DEF client, preview, picture, mode
<1>1. PICK from \in {"stopped", "not_stopped"} :
          /\ Goto(t, from, "deinit")
          /\ mCameraRunning' = (from = "not_stopped")
  BY DEF stopped
<1>2. pc[t] = from /\ Moves(t, "deinit")
  BY <1>1, InnerGoto, PlaceSets
<1>3. pc[t] \in CallPlaces \ {"set_mode"} /\ pc[t] \in DriverPlaces /\ pc[t] \in StopPlaces
      /\ "deinit" \in CallPlaces \ DriverPlaces
  BY <1>2, PlaceSets
<1>4. /\ LocksAgree'
      /\ held["mCameraRunningLock"] = t /\ held'["mCameraRunningLock"] = None
      /\ held' \in [Locks -> Threads \cup {None}]
  BY <1>2, <1>3, DropsDriver DEF stopped
<1>5. Inner(t, "deinit")
  BY <1>1, <1>2, <1>3, <1>4 DEF Inner, stopped, IInv, TypesCorrect
<1>6. pc'["af"] = pc["af"] /\ pc'["snapshot"] = pc["snapshot"] /\ pc'[t] = "deinit"
  BY <1>2, <1>3, Alone DEF Moves
<1>7. pc["af"] # "focusing"
  BY <1>4, CallersNamed DEF IInv, LocksAgree
<1>8. ~released /\ ~camframe_timeout_flag => driver = (from = "not_stopped")
  BY <1>1, <1>2 DEF IInv, Claims, TypesCorrect
<1>9. DriverAgrees'
  BY <1>1, <1>6, <1>7, <1>8 DEF DriverAgrees, stopped
<1>10. InitializedRuns'
  BY <1>6 DEF InitializedRuns
<1>11. SnapshotAgrees'
  BY <1>2, <1>3, SnapshotSame DEF stopped
<1>12. call[t] = "takePicture" => pc["snapshot"] = None
  BY <1>3, StopClaims
<1>13. Claims(t)'
  BY <1>6, <1>12, PlaceSets DEF Claims, Taking, stopped
<1> QED BY <1>4, <1>5, <1>9, <1>10, <1>11, <1>13, InnerInv DEF stopped

(* What a call claims where it goes on to.                                 *)
LEMMA ReachClaims ==
    ASSUME IInv, NEW t \in Callers, NEW to, Inner(t, to), MayReach(t, to),
           UNCHANGED <<mCameraRunning, mPreviewHeap>>
    PROVE  Claims(t)'
<1>1. to \in CallPlaces \ DriverPlaces
  BY DEF MayReach
<1>2. NoFrame' <=> NoFrame
  BY <1>1, CallFrames DEF Inner
<1>3. pc'[t] = to /\ pc'["snapshot"] = pc["snapshot"] /\ call'[t] = call[t]
  BY Alone DEF Moves, Inner
<1>4. to \notin {"started", "not_started", "stopped", "not_stopped"}
  BY <1>1 DEF DriverPlaces
<1>5. Taking(t)' => pc'["snapshot"] = None
  BY <1>3 DEF MayReach, Taking
<1> QED BY <1>1, <1>2, <1>3, <1>4, <1>5 DEF MayReach, Claims

(* The frame loop is told to end if the preview has stopped.               *)
LEMMA stopEndInv ==
    ASSUME IInv, NEW t \in Callers, stopEnd(t)
    PROVE  IInv'
<1> USE DEF client, preview, picture, mode
<1> DEFINE to == AfterStop(t)
<1>1. pc[t] = "deinit" /\ pc[t] \in (CallPlaces \ {"set_mode"}) \ DriverPlaces
      /\ pc[t] \in StopPlaces
  BY PlaceSets DEF stopEnd, Goto, At
<1>2. MayReach(t, to)
  BY <1>1, AfterStopReach
<1>3. to \in CallPlaces \ DriverPlaces
  BY <1>2 DEF MayReach
<1>4. Goto(t, "deinit", to)
  BY DEF stopEnd
<1> HIDE DEF to
<1>5. Moves(t, to)
  BY <1>1, <1>3, <1>4, InnerGoto
<1>6. KeepsLocks
  <2>1. {"mCamframeTimeoutLock"} \in SUBSET (Locks \ {"mLock", "mCameraRunningLock"})
    BY DEF Locks
  <2> QED BY <2>1, CallersAreThreads, DropsLock DEF stopEnd
<1>7. LocksAgree'
  BY <1>1, <1>3, <1>5, <1>6, InnerLocks
<1>8. Inner(t, to)
  BY <1>1, <1>3, <1>5, <1>6 DEF Inner, stopEnd, IInv, TypesCorrect, KeepsLocks
<1>9. pc'["af"] = pc["af"]
  BY <1>1, <1>5, Alone
<1>10. DriverAgrees'
  BY <1>6, <1>9 DEF DriverAgrees, IInv, stopEnd, KeepsLocks
<1>11. mPreviewInitialized' => mCameraRunning'
  BY DEF stopEnd, deinitPreview
<1>12. InitializedRuns'
  BY <1>11 DEF InitializedRuns
<1>13. SnapshotAgrees'
  BY <1>1, <1>5, SnapshotSame DEF stopEnd
<1>14. Claims(t)'
  BY <1>2, <1>8, ReachClaims DEF stopEnd
<1> QED BY <1>7, <1>8, <1>10, <1>12, <1>13, <1>14, InnerInv DEF stopEnd

(* A step from a place that initPreview() and deinitPreview() leave alone. *)
LEMMA InitializedSame ==
    ASSUME IInv, NEW t \in Callers, NEW to, Moves(t, to), pc[t] \in CallPlaces,
           pc[t] \notin {"native_start", "started", "not_started", "undo_start", "deinit"},
           UNCHANGED <<mCameraRunning, mPreviewInitialized>>
    PROVE  InitializedRuns'
<1>1. \A u \in Callers : pc[u] \notin {"native_start", "started", "not_started", "undo_start",
                                       "deinit"}
  BY OthersOut
<1> QED BY <1>1 DEF IInv, InitializedRuns

(* The driver is closed: nothing is claimed of it after this.              *)
LEMMA exitCameraInv ==
    ASSUME IInv, NEW t \in Callers, exitCamera(t)
    PROVE  IInv'
<1> USE DEF client, preview, picture, mode
<1>1. pc[t] = "exit" /\ pc[t] \in (CallPlaces \ {"set_mode"}) \ DriverPlaces
      /\ "leave" \in CallPlaces \ DriverPlaces
  BY PlainPlaces DEF exitCamera, Goto, At, OtherPlaces, SpecialPlaces
<1>2. Moves(t, "leave")
  BY <1>1, InnerGoto DEF exitCamera
<1>3. KeepsLocks
  BY NothingHeld DEF exitCamera
<1>4. Inner(t, "leave")
  BY <1>1, <1>2, <1>3 DEF Inner, exitCamera, IInv, TypesCorrect, KeepsLocks
<1>5. LocksAgree' /\ InitializedRuns' /\ SnapshotAgrees'
  BY <1>1, <1>2, <1>3, InnerLocks, InitializedSame, SnapshotSame DEF exitCamera
<1>6. pc'["af"] = pc["af"] /\ pc'[t] = "leave"
  BY <1>1, <1>2, Alone DEF Moves
<1>7. DriverAgrees'
  BY <1>6 DEF DriverAgrees, IInv, exitCamera
<1>8. Claims(t)'
  BY <1>6, LeaveClaims
<1> QED BY <1>4, <1>5, <1>7, <1>8, InnerInv DEF exitCamera

(* takePicture() says that a picture is being taken, after the thread      *)
(* that takes it has begun.                                                *)
LEMMA setSnapshotModeInv ==
    ASSUME IInv, NEW t \in Callers, setSnapshotMode(t)
    PROVE  IInv'
<1> USE DEF client, preview, picture, mode
<1>1. pc[t] = "set_mode" /\ pc[t] \in CallPlaces \ DriverPlaces
      /\ "leave" \in CallPlaces \ DriverPlaces
  BY PlainPlaces, PlaceSets DEF setSnapshotMode, Goto, At, TakePlaces, CallPlaces, DriverPlaces
<1>2. Moves(t, "leave")
  BY <1>1, InnerGoto DEF setSnapshotMode
<1>3. KeepsLocks
  BY NothingHeld DEF setSnapshotMode
<1>4. Inner(t, "leave")
  BY <1>1, <1>2, <1>3 DEF Inner, setSnapshotMode, IInv, TypesCorrect, KeepsLocks
<1>5. LocksAgree' /\ InitializedRuns'
  BY <1>1, <1>2, <1>3, InnerLocks, InitializedSame DEF setSnapshotMode
<1>6. pc'["af"] = pc["af"] /\ pc'[t] = "leave" /\ pc'["snapshot"] = pc["snapshot"]
  BY <1>1, <1>2, Alone DEF Moves
<1>7. DriverAgrees' /\ SnapshotAgrees'
  BY <1>6 DEF DriverAgrees, SnapshotAgrees, IInv, setSnapshotMode
<1>8. Claims(t)'
  BY <1>6, LeaveClaims
<1> QED BY <1>4, <1>5, <1>7, <1>8, InnerInv DEF setSnapshotMode

(* The heap is for a frame thread that does not live yet: none does.       *)
LEMMA AppSetsUp ==
    ASSUME IInv, NEW t \in Callers, pc[t] \in AllocPlaces
    PROVE  /\ t = "app" /\ NoFrame /\ pc[t] \in StartPlaces /\ pc[t] \in CallPlaces
           /\ ~mCameraRunning /\ call[t] # "takePicture"
<1>1. pc[t] \in CallPlaces /\ pc[t] \in StartPlaces /\ pc[t] # None
  BY Apart DEF AllocPlaces, StartPlaces, SetUpPlaces, None
<1>2. NoFrame
  BY DEF IInv, Claims
<1> QED BY <1>1, <1>2, StartClaims DEF NoFrame, Callers

(* initPreview() makes the heap for a frame thread to come.                *)
LEMMA allocPreviewHeapInv ==
    ASSUME IInv, NEW t \in Callers, allocPreviewHeap(t)
    PROVE  IInv'
<1> USE DEF client, preview, picture, mode
<1>1. PICK to \in {"create", "leave"} : /\ Goto(t, "heap", to)
                                        /\ to = "create" => mPreviewHeap' \in Frames
  BY DEF allocPreviewHeap, FreeFrame
<1>2. pc[t] = "heap" /\ pc[t] \in AllocPlaces
      /\ pc[t] \in (CallPlaces \ {"set_mode"}) \ DriverPlaces
  BY <1>1, PlainPlaces DEF Goto, At, AllocPlaces, SpecialPlaces
<1>3. to \in CallPlaces \ DriverPlaces
  BY PlainPlaces, PlaceSets DEF SpecialPlaces
<1>4. Moves(t, to)
  BY <1>1, <1>2, <1>3, InnerGoto
<1>5. KeepsLocks
  BY NothingHeld DEF allocPreviewHeap
<1>6. TypesCorrect'
  BY <1>4, <1>5 DEF IInv, TypesCorrect, Moves, KeepsLocks, allocPreviewHeap
<1>7. LocksAgree' /\ InitializedRuns' /\ SnapshotAgrees'
  BY <1>2, <1>3, <1>4, <1>5, InnerLocks, InitializedSame, SnapshotSame DEF allocPreviewHeap
<1>8. pc'["af"] = pc["af"] /\ pc'[t] = to /\ pc'["snapshot"] = pc["snapshot"]
      /\ \A u \in Callers \ {t} : QuietCaller(u) /\ Claims(u)'
  BY <1>2, <1>4, Alone DEF Moves
<1>9. NoFrame /\ t \notin Frames /\ ~mCameraRunning /\ call[t] # "takePicture"
  BY <1>2, AppSetsUp, CallersAreThreads
<1>10. NoFrame'
  BY <1>8, <1>9, SameStays, CallersAreThreads DEF NoFrame
<1>11. FrameAgrees'
  BY <1>9, <1>10 DEF FrameAgrees, NoFrame, OneFrameThread, HeapInUse, IInv, allocPreviewHeap
<1>12. DriverAgrees' /\ FocusAgrees'
  BY <1>8 DEF DriverAgrees, FocusAgrees, IInv, allocPreviewHeap
<1>13. Claims(t)'
  <2>1. pc["snapshot"] \notin SensorPlaces
    BY <1>2 DEF IInv, Claims, SetUpPlaces
  <2>2. CASE to = "leave"
    BY <1>8, <2>2, LeaveClaims
  <2>3. CASE to = "create"
    <3>1. "create" \notin RunPlaces \cup StopPlaces
          /\ "create" \notin {"raw", "create_snapshot", "started", "not_started", "stopped",
                              "not_stopped"}
      BY DEF RunPlaces, StopPlaces
    <3> QED BY <1>1, <1>8, <1>9, <1>10, <2>1, <2>3, <3>1 DEF Claims, Taking, allocPreviewHeap
  <2> QED BY <2>2, <2>3
<1> QED BY <1>6, <1>7, <1>8, <1>11, <1>12, <1>13 DEF IInv

(* The thread that a call starts.                                          *)
LEMMA ForkMoves ==
    ASSUME IInv, NEW t \in Callers, NEW from \in CallPlaces, NEW to \in CallPlaces,
           NEW s \in Threads \ {t}, NEW start \in PlacesOf(s), Fork(t, from, to, s, start)
    PROVE  /\ PlacesCorrect' /\ pc[t] = from /\ pc'[t] = to /\ pc'[s] = start
           /\ \A u \in Threads \ {t, s} : pc'[u] = pc[u]
           /\ \A u \in Callers \ {t} : pc[u] \notin CallPlaces
<1>1. t \in Threads /\ to \in PlacesOf(t)
  BY CallersAreThreads DEF PlacesOf, Callers
<1>2. pc[t] = from /\ pc' = [pc EXCEPT ![t] = to, ![s] = start]
  BY DEF Fork, At
<1>3. \A u \in Callers \ {t} : pc[u] \notin CallPlaces
  BY <1>2 DEF IInv, LocksAgree
<1> QED BY <1>1, <1>2, <1>3, PlacesOfPlaces DEF IInv, TypesCorrect, PlacesCorrect

(* The thread does not start; the heap stays.                              *)
LEMMA createFrameThreadFails ==
    ASSUME IInv, NEW t \in Callers, createFrameThread(t), Goto(t, "create", "leave"),
           UNCHANGED <<mFrameThreadRunning, mPreviewInitialized>>
    PROVE  IInv'
<1>1. MayReach(t, "leave")
  BY AppSetsUp, PlainReach DEF OtherPlaces, Goto, At, AllocPlaces
<1> QED BY <1>1, PlainPlaces, CallGoto, NothingHeld
        DEF createFrameThread, core, client, preview, picture, mode

(* The frame thread starts with its heap, and is the only one.             *)
LEMMA createFrameThreadInv ==
    ASSUME IInv, NEW t \in Callers, createFrameThread(t)
    PROVE  IInv'
<1> USE DEF client, preview, picture, mode
<1> DEFINE f == mPreviewHeap
<1>1. CASE Goto(t, "create", "leave") /\ UNCHANGED <<mFrameThreadRunning, mPreviewInitialized>>
  BY <1>1, createFrameThreadFails
<1>2. CASE Fork(t, "create", "native_start", f, "loop")
           /\ mFrameThreadRunning' /\ mPreviewInitialized'
  <2>1. pc[t] = "create" /\ pc[t] \in AllocPlaces /\ pc[t] \in SetUpPlaces
    BY <1>2 DEF Fork, At, AllocPlaces, SetUpPlaces
  <2>2. t = "app" /\ NoFrame /\ ~mCameraRunning /\ call[t] # "takePicture"
    BY <2>1, AppSetsUp
  <2>3. f \in Frames /\ pc["snapshot"] \notin SensorPlaces
    BY <2>1 DEF IInv, Claims
  <2>4. f \in Threads \ {t} /\ f \in Callers /\ "loop" \in PlacesOf(f) /\ "loop" \notin CallPlaces
        /\ "loop" # None
    BY <2>2, <2>3, CallersAreThreads, Apart DEF PlacesOf, FramePlaces, None
  <2>5. "native_start" \in CallPlaces /\ "create" \in CallPlaces
        /\ "native_start" \notin DriverPlaces /\ "create" \notin DriverPlaces
        /\ DriverPlaces \subseteq CallPlaces
    BY PlaceSets, PlainPlaces, Apart DEF SpecialPlaces
  <2>6. /\ PlacesCorrect' /\ pc'[t] = "native_start" /\ pc'[f] = "loop"
        /\ \A u \in Threads \ {t, f} : pc'[u] = pc[u]
        /\ \A u \in Callers \ {t} : pc[u] \notin CallPlaces
    BY <1>2, <2>4, <2>5, ForkMoves
  <2>7. pc'["af"] = pc["af"] /\ pc'["snapshot"] = pc["snapshot"]
    BY <2>3, <2>6, CallersAreThreads
  <2>8. \A u \in Callers \ {t} : pc'[u] \notin CallPlaces
    BY <2>4, <2>6, CallersAreThreads
  <2> HIDE DEF f
  <2>9. TypesCorrect'
    BY <2>6 DEF IInv, TypesCorrect, createFrameThread
  <2>10. LocksAgree'
    <3>1. \A u \in Callers : (pc'[u] \in CallPlaces <=> pc[u] \in CallPlaces)
                             /\ (pc'[u] \in DriverPlaces <=> pc[u] \in DriverPlaces)
      BY <2>1, <2>5, <2>6, <2>8
    <3> QED BY <2>7, <3>1 DEF IInv, LocksAgree, createFrameThread
  <2>11. \A g \in Frames \ {f} : pc'[g] = None
    BY <2>2, <2>6, CallersAreThreads DEF NoFrame
  <2>12. FrameAgrees'
    BY <1>2, <2>3, <2>4, <2>6, <2>11
    DEF FrameAgrees, NoFrame, OneFrameThread, HeapInUse, createFrameThread, f
  <2>13. DriverAgrees' /\ FocusAgrees'
    BY <2>7 DEF DriverAgrees, FocusAgrees, IInv, createFrameThread
  <2>14. InitializedRuns'
    BY <2>6 DEF InitializedRuns
  <2>15. \A u \in Callers : pc[u] # "set_mode"
    BY <2>1, <2>6, Apart
  <2>16. SnapshotAgrees'
    BY <2>7, <2>15 DEF IInv, SnapshotAgrees, createFrameThread
  <2>17. Claims(t)'
    BY <2>2, <2>3, <2>6, <2>7, PlaceSets DEF Claims, Taking, createFrameThread
  <2>18. \A u \in Callers : Claims(u)'
    BY <2>8, <2>17, OutOfCallNext
  <2> QED BY <2>9, <2>10, <2>12, <2>13, <2>14, <2>16, <2>18 DEF IInv
<1> QED BY <1>1, <1>2 DEF createFrameThread

(* There is no other, so with it goes the last.                            *)
LEMMA endFrameThreadInv ==
    ASSUME IInv, NEW f \in Frames, endFrameThread(f)
    PROVE  IInv'
<1> USE DEF client, preview, picture, mode
<1>1. PICK from \in {"ended", "cleared"}, to \in {"cleared", None} :
          /\ Goto(f, from, to)
          /\ to = "cleared" => UNCHANGED mFrameThreadRunning
          /\ to = None => ~mFrameThreadRunning'
          /\ (from = "ended" /\ to = "cleared") \/ (from = "cleared" /\ to = None)
  BY DEF endFrameThread, None
<1>2. f \in Threads /\ f \in Callers /\ to \in PlacesOf(f) /\ {from, to} \cap CallPlaces = {}
      /\ "cleared" # None /\ from # None
  BY Apart, CallersAreThreads DEF PlacesOf, FramePlaces, None
<1>3. pc[f] = from /\ Moves(f, to)
  BY <1>1, <1>2, GotoMoves DEF IInv
<1>4. pc'[f] = to /\ \A u \in Callers \ {f} : QuietCaller(u)
  BY <1>3, CallersAreThreads DEF Moves, QuietCaller
<1>5. pc'["af"] = pc["af"] /\ pc'["snapshot"] = pc["snapshot"]
  BY <1>2, <1>3, CallersAreThreads, OthersStay DEF Moves, IInv
<1>6. \A u \in Callers : /\ pc'[u] \in CallPlaces <=> pc[u] \in CallPlaces
                         /\ pc[u] \in CallPlaces => pc'[u] = pc[u]
  BY <1>2, <1>3, <1>4, SameStays
<1>7. \A g \in Frames \ {f} : pc[g] = None /\ pc'[g] = None
  <2>1. \A g \in Frames \ {f} : pc[g] = None
    BY <1>2, <1>3 DEF IInv, FrameAgrees, OneFrameThread
  <2> QED BY <1>4, <2>1, SameStays, CallersAreThreads
<1>8. TypesCorrect'
  BY <1>3 DEF IInv, TypesCorrect, Moves, endFrameThread
<1>9. LocksAgree'
  <2>1. \A u \in Callers : pc'[u] \in DriverPlaces <=> pc[u] \in DriverPlaces
    BY <1>6, Apart
  <2> QED BY <1>5, <1>6, <2>1 DEF IInv, LocksAgree, endFrameThread
<1>10. NoFrame' <=> to = None
  BY <1>4, <1>7 DEF NoFrame
<1>11. mFrameThreadRunning' <=> ~NoFrame'
  <2>1. mFrameThreadRunning
    BY <1>2, <1>3 DEF IInv, FrameAgrees, NoFrame
  <2> QED BY <1>1, <1>2, <1>10, <2>1
<1>12. FrameAgrees'
  BY <1>4, <1>7, <1>11 DEF FrameAgrees, OneFrameThread, HeapInUse
<1>13. DriverAgrees' /\ FocusAgrees'
  BY <1>5 DEF DriverAgrees, FocusAgrees, IInv, endFrameThread
<1>14. InitializedRuns'
  BY <1>6, Apart DEF IInv, InitializedRuns, endFrameThread
<1>15. SnapshotAgrees'
  BY <1>5, <1>6, Apart DEF IInv, SnapshotAgrees, endFrameThread
<1>16. \A t \in Callers : Claims(t)'
  <2> SUFFICES ASSUME NEW t \in Callers, pc'[t] \in CallPlaces
               PROVE  Claims(t)'
    BY OutOfCallNext
  <2>1. pc'[t] = pc[t] /\ call'[t] = call[t] /\ (Taking(t)' => Taking(t))
    BY <1>6 DEF endFrameThread, Taking
  <2>2. Claims(t) /\ ~NoFrame /\ pc[t] \notin AllocPlaces /\ pc[t] # "create"
    BY <1>2, <1>3, AppSetsUp DEF IInv, NoFrame, AllocPlaces
  <2> QED BY <1>5, <2>1, <2>2 DEF Claims, endFrameThread
<1> QED BY <1>8, <1>9, <1>12, <1>13, <1>14, <1>15, <1>16 DEF IInv

(* The focusing thread begins, and none was there.                         *)
LEMMA autoFocusInv ==
    ASSUME IInv, NEW t \in Callers, autoFocus(t)
    PROVE  IInv'
<1> USE DEF core, client, preview, picture, mode
<1>1. "auto_focus" \in OtherPlaces /\ "leave" \in OtherPlaces /\ "auto_focus" # "leave"
  BY DEF OtherPlaces
<1>2. pc[t] = "auto_focus" /\ call[t] # "takePicture"
  BY <1>1, TakesOnly DEF autoFocus, Goto, Fork, At
<1>3. MayReach(t, "leave")
  BY <1>1, PlainReach
<1>4. CASE Goto(t, "auto_focus", "leave") /\ UNCHANGED mAutoFocusThreadRunning
  BY <1>1, <1>3, <1>4, PlainPlaces, CallGoto, NothingHeld DEF autoFocus
<1>5. CASE Fork(t, "auto_focus", "leave", "af", "af_start")
           /\ ~mAutoFocusThreadRunning /\ mAutoFocusThreadRunning'
  <2>1. "auto_focus" \in CallPlaces \ SpecialPlaces /\ "leave" \in CallPlaces \ SpecialPlaces
    BY <1>1, PlainPlaces
  <2>2. "af" \in Threads \ {t} /\ "af_start" \in PlacesOf("af")
    BY CallersAreThreads DEF PlacesOf, FocusPlaces, Frames
  <2>3. /\ PlacesCorrect' /\ pc'[t] = "leave" /\ pc'["af"] = "af_start"
        /\ \A u \in Threads \ {t, "af"} : pc'[u] = pc[u]
        /\ \A u \in Callers \ {t} : pc[u] \notin CallPlaces
    BY <1>5, <2>1, <2>2, ForkMoves
  <2>4. pc["af"] = None
    BY <1>5 DEF IInv, FocusAgrees
  <2>5. pc'["snapshot"] = pc["snapshot"] /\ \A u \in Callers \ {t} : pc'[u] = pc[u]
    BY <2>3, CallersAreThreads
  <2>6. TypesCorrect'
    BY <2>3 DEF IInv, TypesCorrect, autoFocus
  <2>7. LocksAgree'
    <3>1. \A u \in Callers : (pc'[u] \in CallPlaces <=> pc[u] \in CallPlaces)
                             /\ (pc'[u] \in DriverPlaces <=> pc[u] \in DriverPlaces)
      BY <1>2, <2>1, <2>3, <2>5 DEF SpecialPlaces
    <3> QED BY <2>3, <2>4, <3>1 DEF IInv, LocksAgree, autoFocus, None
  <2>8. FrameAgrees'
    <3>1. pc[t] \notin {None, "ended", "cleared"} /\ pc'[t] \notin {None, "ended", "cleared"}
      BY <1>2, <2>3 DEF None
    <3>2. \A f \in Frames : /\ pc'[f] = None <=> pc[f] = None
                            /\ Alive(f)' <=> Alive(f)
      BY <2>5, <3>1, CallersAreThreads DEF Alive
    <3> QED BY <3>2
            DEF IInv, FrameAgrees, NoFrame, OneFrameThread, HeapInUse, Alive, autoFocus
  <2>9. DriverAgrees'
    BY <2>3 DEF DriverAgrees, IInv, autoFocus
  <2>10. FocusAgrees'
    BY <1>5, <2>3 DEF FocusAgrees, None
  <2>11. \A u \in Callers : pc[u] \notin {"native_start", "started", "not_started",
                                          "undo_start", "deinit", "set_mode"}
    BY <1>2, <2>3, Apart
  <2>12. InitializedRuns' /\ SnapshotAgrees'
    BY <2>5, <2>11 DEF IInv, InitializedRuns, SnapshotAgrees, autoFocus
  <2>13. \A u \in Callers : Claims(u)'
    BY <2>3, <2>5, LeaveClaims, OutOfCallNext
  <2> QED BY <2>6, <2>7, <2>8, <2>9, <2>10, <2>12, <2>13 DEF IInv
<1> QED BY <1>4, <1>5 DEF autoFocus

(* The snapshot thread starts, and no other was there.                     *)
LEMMA createSnapshotThreadInv ==
    ASSUME IInv, NEW t \in Callers, createSnapshotThread(t)
    PROVE  IInv'
<1> USE DEF client, preview, picture, mode
<1>1. pc[t] = "create_snapshot"
  BY DEF createSnapshotThread, Goto, Fork, At
<1>2. pc["snapshot"] = None
  BY <1>1 DEF IInv, Claims, Taking
<1>3. "create_snapshot" \in CallPlaces \ SpecialPlaces /\ "set_mode" \in CallPlaces \ DriverPlaces
      /\ "set_mode" \in TakePlaces
  BY PlainPlaces, Apart DEF TakePlaces, DriverPlaces
<1>4. KeepsLocks
  <2>1. {"mSnapshotThreadWaitLock"} \in SUBSET (Locks \ {"mLock", "mCameraRunningLock"})
    BY DEF Locks
  <2> QED BY <2>1, CallersAreThreads, DropsLock DEF createSnapshotThread
<1>5. PICK start \in {"snap_start", None} :
          /\ PlacesCorrect' /\ pc'[t] = "set_mode" /\ pc'["snapshot"] = start
          /\ \A u \in Threads \ {t, "snapshot"} : pc'[u] = pc[u] \/ Same(u)
          /\ \A u \in Callers \ {t} : pc[u] \notin CallPlaces
          /\ mSnapshotThreadRunning' <=> start # None
  <2>1. "snapshot" \in Threads \ {t} /\ "snap_start" \in PlacesOf("snapshot")
        /\ "snap_start" # None
    BY CallersAreThreads DEF PlacesOf, SnapshotPlaces, SensorPlaces, Frames, None
  <2>2. CASE Fork(t, "create_snapshot", "set_mode", "snapshot", "snap_start")
             /\ mSnapshotThreadRunning'
    BY <1>3, <2>1, <2>2, ForkMoves
  <2>3. CASE Goto(t, "create_snapshot", "set_mode") /\ ~mSnapshotThreadRunning'
    <3>1. Moves(t, "set_mode")
      BY <1>3, <2>3, InnerGoto
    <3>2. pc'["snapshot"] = None /\ \A u \in Callers \ {t} : pc[u] \notin CallPlaces
      BY <1>1, <1>2, <1>3, <3>1, Alone
    <3> QED BY <2>3, <3>1, <3>2 DEF Moves
  <2> QED BY <2>2, <2>3 DEF createSnapshotThread
<1>6. \A u \in Callers \ {t} : QuietCaller(u)
  BY <1>5, CallersAreThreads DEF QuietCaller, Same
<1>7. pc'["af"] = pc["af"]
  BY <1>5, CallersAreThreads, OthersStay DEF Same, IInv
<1>8. \A u \in Callers \ {t} : pc'[u] \notin CallPlaces
  BY <1>5, <1>6, SameStays
<1>9. TypesCorrect'
  BY <1>4, <1>5 DEF IInv, TypesCorrect, createSnapshotThread, KeepsLocks
<1>10. LocksAgree'
  <2>1. \A u \in Callers : (pc'[u] \in CallPlaces <=> pc[u] \in CallPlaces)
                           /\ (pc'[u] \in DriverPlaces <=> pc[u] \in DriverPlaces)
    BY <1>1, <1>3, <1>5, <1>8, Apart DEF SpecialPlaces
  <2> QED BY <1>4, <1>7, <2>1 DEF IInv, LocksAgree, KeepsLocks
<1>11. FrameAgrees'
  <2>1. pc[t] \notin {None, "ended", "cleared"} /\ pc'[t] \notin {None, "ended", "cleared"}
    BY <1>1, <1>5 DEF None
  <2>2. \A f \in Frames : /\ pc'[f] = None <=> pc[f] = None
                          /\ Alive(f)' => Alive(f)
    BY <1>6, <2>1, SameStays, CallersAreThreads DEF Alive
  <2> QED BY <2>2 DEF IInv, FrameAgrees, NoFrame, OneFrameThread, HeapInUse, Alive,
                      createSnapshotThread
<1>12. DriverAgrees' /\ FocusAgrees'
  BY <1>4, <1>7 DEF DriverAgrees, FocusAgrees, IInv, KeepsLocks, createSnapshotThread
<1>13. InitializedRuns'
  <2>1. \A u \in Callers : pc[u] \notin {"native_start", "started", "not_started",
                                         "undo_start", "deinit"}
    BY <1>1, <1>5, Apart
  <2> QED BY <2>1 DEF IInv, InitializedRuns, createSnapshotThread
<1>14. SnapshotAgrees'
  BY <1>5 DEF SnapshotAgrees
<1>15. Claims(t)'
  <2>1. "set_mode" \notin AllocPlaces \cup StartPlaces \cup SetUpPlaces \cup RunPlaces
        \cup StopPlaces
                          \cup {"create", "raw", "create_snapshot", "started", "not_started",
                                "stopped", "not_stopped"}
    BY DEF AllocPlaces, StartPlaces, SetUpPlaces, RunPlaces, StopPlaces
  <2> QED BY <1>3, <1>5, <2>1 DEF Claims, Taking
<1>16. \A u \in Callers : Claims(u)'
  BY <1>8, <1>15, OutOfCallNext
<1> QED BY <1>9, <1>10, <1>11, <1>12, <1>13, <1>14, <1>16 DEF IInv

(* A call begins when nobody is in one, and ends.                          *)
LEMMA FirstPlaces ==
    \A c : /\ First(c) \in (OtherPlaces \ {"leave"}) \cup {"take"}
           /\ c = "takePicture" => First(c) = "take"
BY DEF First, OtherPlaces

(* A call takes mLock, and so is alone.                                    *)
LEMMA lockInv ==
    ASSUME IInv, NEW t \in Callers, lock(t)
    PROVE  IInv'
<1> USE DEF core, client, preview, picture, mode
<1> DEFINE to == First(call[t])
<1>1. to \in CallPlaces \ SpecialPlaces /\ to # "leave"
      /\ to \notin AllocPlaces \cup StartPlaces \cup SetUpPlaces \cup RunPlaces \cup StopPlaces
                   \cup {"create", "raw", "create_snapshot"}
      /\ (call[t] = "takePicture" => to = "take")
  <2>1. "take" \notin AllocPlaces \cup StartPlaces \cup SetUpPlaces \cup RunPlaces \cup StopPlaces
                      \cup {"create", "raw", "create_snapshot"}
    BY DEF AllocPlaces, StartPlaces, SetUpPlaces, RunPlaces, StopPlaces
  <2> QED BY <2>1, FirstPlaces, PlainPlaces
<1>2. Goto(t, "enter", to) /\ Acquire(t, "mLock")
  BY DEF lock
<1> HIDE DEF to
<1>3. t \in Threads /\ to \in PlacesOf(t)
  BY <1>1, CallersAreThreads DEF PlacesOf, Callers
<1>4. pc[t] = "enter" /\ Moves(t, to)
  BY <1>2, <1>3, GotoMoves DEF IInv
<1>5. pc'[t] = to /\ \A u \in Callers \ {t} : QuietCaller(u)
  BY <1>4, CallersAreThreads DEF Moves, QuietCaller
<1>6. pc'["af"] = pc["af"] /\ pc'["snapshot"] = pc["snapshot"]
  BY <1>4, CallersAreThreads, OthersStay DEF Moves, IInv
<1>7. /\ held["mLock"] = None /\ held'["mLock"] = t
      /\ held'["mCameraRunningLock"] = held["mCameraRunningLock"]
      /\ held' \in [Locks -> Threads \cup {None}]
  BY <1>2, <1>3 DEF Acquire, IInv, TypesCorrect, Locks
<1>8. \A u \in Callers : pc[u] \notin CallPlaces
  BY <1>7, CallersNamed DEF IInv, LocksAgree
<1>9. \A u \in Callers \ {t} : pc'[u] \notin CallPlaces
  BY <1>5, <1>8, SameStays
<1>10. TypesCorrect'
  BY <1>4, <1>7 DEF IInv, TypesCorrect, Moves, lock
<1>11. LocksAgree'
  <2>1. \A u \in Callers : pc[u] \notin DriverPlaces /\ pc'[u] \notin DriverPlaces
    BY <1>1, <1>5, <1>8, <1>9, Apart DEF SpecialPlaces
  <2>2. \A u \in Callers : held'["mLock"] = u <=> pc'[u] \in CallPlaces
    BY <1>1, <1>5, <1>7, <1>9
  <2> QED BY <1>6, <1>7, <2>1, <2>2 DEF IInv, LocksAgree
<1>12. FrameAgrees'
  <2>1. "enter" \notin {None, "ended", "cleared"} /\ to \notin {None, "ended", "cleared"}
    BY <1>1, Apart DEF None, FramePlaces
  <2>2. \A f \in Frames : /\ pc'[f] = None <=> pc[f] = None
                          /\ Alive(f)' => Alive(f)
    BY <1>4, <1>5, <2>1, SameStays, CallersAreThreads DEF Alive
  <2> QED BY <2>2 DEF IInv, FrameAgrees, NoFrame, OneFrameThread, HeapInUse, Alive, lock
<1>13. DriverAgrees' /\ FocusAgrees'
  BY <1>6, <1>7 DEF DriverAgrees, FocusAgrees, IInv, lock
<1>14. InitializedRuns' /\ SnapshotAgrees'
  <2>1. \A u \in Callers : pc[u] \notin {"native_start", "started", "not_started",
                                         "undo_start", "deinit", "set_mode"}
    BY <1>8, Apart
  <2> QED BY <1>6, <2>1 DEF IInv, InitializedRuns, SnapshotAgrees, lock
<1>15. Claims(t)'
  <2>1. {"started", "not_started", "stopped", "not_stopped"} \subseteq SpecialPlaces
    BY DEF SpecialPlaces, DriverPlaces
  <2>2. "take" \in TakePlaces
    BY DEF TakePlaces
  <2> QED BY <1>1, <1>5, <2>1, <2>2 DEF Claims, Taking, lock
<1>16. \A u \in Callers : Claims(u)'
  BY <1>9, <1>15, OutOfCallNext
<1> QED BY <1>10, <1>11, <1>12, <1>13, <1>14, <1>16 DEF IInv

(* A call drops mLock and claims nothing more.                             *)
LEMMA leaveInv ==
    ASSUME IInv, NEW t \in Callers, leave(t)
    PROVE  IInv'
<1> USE DEF core, client, preview, picture, mode
<1> DEFINE to == IF t \in Frames THEN "rcb" ELSE "idle"
<1>1. t \in Threads /\ to \in PlacesOf(t) /\ to \notin CallPlaces
      /\ to \notin {None, "ended", "cleared"}
  BY CallersAreThreads, Apart DEF PlacesOf, Callers, FramePlaces, None
<1>2. Goto(t, "leave", to) /\ Drop(t, {"mLock"})
  BY DEF leave
<1> HIDE DEF to
<1>3. pc[t] = "leave" /\ Moves(t, to)
  BY <1>1, <1>2, GotoMoves DEF IInv
<1>4. pc[t] \in CallPlaces \ DriverPlaces /\ pc[t] # "set_mode"
  BY <1>3, PlaceSets
<1>5. /\ held["mLock"] = t /\ pc'[t] = to /\ pc'["af"] = pc["af"]
      /\ pc'["snapshot"] = pc["snapshot"]
      /\ \A u \in Callers \ {t} : pc[u] \notin CallPlaces /\ pc'[u] \notin CallPlaces
                                  /\ QuietCaller(u)
  BY <1>3, <1>4, Alone DEF Moves
<1>6. /\ held'["mLock"] = None
      /\ held'["mCameraRunningLock"] = held["mCameraRunningLock"]
      /\ held' \in [Locks -> Threads \cup {None}]
  <2>1. \A l \in Locks : held[l] \in Threads \cup {None}
    BY DEF IInv, TypesCorrect
  <2>2. "mLock" \in Locks /\ "mCameraRunningLock" \in Locks
    BY DEF Locks
  <2> QED BY <1>2, <1>5, <2>1, <2>2 DEF Drop
<1>7. TypesCorrect'
  <2>1. call' \in [Threads -> Calls \cup CallbackCalls \cup {None}]
    BY DEF leave, IInv, TypesCorrect
  <2> QED BY <1>3, <1>6, <2>1 DEF IInv, TypesCorrect, Moves, leave
<1>8. LocksAgree'
  <2>1. \A u \in Callers : pc'[u] \notin CallPlaces
    BY <1>1, <1>5
  <2>2. \A u \in Callers : pc[u] \notin DriverPlaces /\ pc'[u] \notin DriverPlaces
    BY <1>4, <1>5, <2>1, Apart
  <2> QED BY <1>5, <1>6, <2>1, <2>2, CallersNamed DEF IInv, LocksAgree
<1>9. FrameAgrees'
  <2>1. pc[t] \notin {None, "ended", "cleared"}
    BY <1>3 DEF None
  <2>2. \A f \in Frames : /\ pc'[f] = None <=> pc[f] = None
                          /\ Alive(f)' => Alive(f)
    BY <1>1, <1>5, <2>1, SameStays, CallersAreThreads DEF Alive
  <2> QED BY <2>2 DEF IInv, FrameAgrees, NoFrame, OneFrameThread, HeapInUse, Alive, leave
<1>10. DriverAgrees' /\ FocusAgrees'
  BY <1>5, <1>6 DEF DriverAgrees, FocusAgrees, IInv, leave
<1>11. InitializedRuns' /\ SnapshotAgrees'
  <2>1. \A u \in Callers : pc[u] \notin {"native_start", "started", "not_started",
                                         "undo_start", "deinit", "set_mode"}
    BY <1>3, <1>5, Apart
  <2> QED BY <1>5, <2>1 DEF IInv, InitializedRuns, SnapshotAgrees, leave
<1>12. \A u \in Callers : Claims(u)'
  BY <1>1, <1>5, OutOfCallNext
<1> QED BY <1>7, <1>8, <1>9, <1>10, <1>11, <1>12 DEF IInv
-----------------------------------------------------------------------------
(* What the camera promises.                                               *)

(* Before the first call nothing runs.                                     *)
LEMMA InitInv ==
    ASSUME Init
    PROVE  IInv
<1>1. TypesCorrect
  <2>1. \A t \in Threads : (IF t = "app" THEN "idle" ELSE None) \in PlacesOf(t)
    BY DEF Threads, Frames, PlacesOf
  <2>2. PlacesCorrect
    BY <2>1, PlacesOfPlaces DEF Init, PlacesCorrect
  <2> QED BY <2>2 DEF Init, TypesCorrect
<1>2. \A t \in Callers : pc[t] \notin CallPlaces
  BY CallersAreThreads, Apart DEF Init
<1>3. pc["af"] = None /\ pc["snapshot"] = None /\ \A f \in Frames : pc[f] = None
  BY CallersAreThreads DEF Init
<1>4. LocksAgree
  <2>1. held["mLock"] = None /\ held["mCameraRunningLock"] = None
    BY DEF Init, Locks
  <2>2. \A t \in Callers : pc[t] \notin DriverPlaces
    BY <1>2, Apart
  <2> QED BY <1>2, <1>3, <2>1, <2>2, CallersNamed DEF LocksAgree, None
<1>5. FrameAgrees /\ DriverAgrees /\ InitializedRuns
  BY <1>3 DEF FrameAgrees, NoFrame, OneFrameThread, HeapInUse, DriverAgrees, InitializedRuns,
              Init, None
<1>6. FocusAgrees /\ SnapshotAgrees
  BY <1>3 DEF FocusAgrees, SnapshotAgrees, SensorPlaces, Init, None
<1> QED BY <1>1, <1>2, <1>4, <1>5, <1>6, OutOfCall DEF IInv

(* A step that changes nothing keeps the invariant.                        *)
LEMMA StutterInv ==
    ASSUME IInv, UNCHANGED vars
    PROVE  IInv'
<1>1. PlacesCorrect' /\ \A u \in Threads : Same(u)
  BY DEF vars, IInv, TypesCorrect, PlacesCorrect, Same
<1> QED BY <1>1, StillPlaces, QuietInv, NothingHeld, NoCallBegins
        DEF vars, core, client, preview, picture, mode

(* So does every other.                                                    *)
LEMMA NextInv ==
    ASSUME IInv, Next
    PROVE  IInv'
<1>1. ASSUME NEW c \in Calls, enter(c) PROVE IInv'
  BY <1>1, enterInv
<1>2. ASSUME NEW t \in Callers, InCall(t) PROVE IInv'
  <2> USE <1>2
  <2>1. CASE lock(t) \/ leave(t) \/ setMessages(t)
    BY <2>1, lockInv, leaveInv, setMessagesInv
  <2>2. CASE startRecording(t) \/ startPreviewInternal(t) \/ waitFrameThread(t)
             \/ waitSnapshotMode(t) \/ allocPreviewHeap(t) \/ createFrameThread(t)
    BY <2>2, startRecordingInv, startPreviewInternalInv, waitFrameThreadInv,
       waitSnapshotModeInv, allocPreviewHeapInv, createFrameThreadInv
  <2>3. CASE nativeStart(t) \/ started(t) \/ undoStart(t)
    BY <2>3, nativeStartInv, startedInv, undoStartInv
  <2>4. CASE stopPreview(t) \/ stopRecording(t) \/ stopPreviewInternal(t) \/ lockTimeout(t)
             \/ nativeStop(t) \/ stopped(t) \/ stopEnd(t)
    BY <2>4, stopPreviewInv, stopRecordingInv, stopPreviewInternalInv, lockTimeoutInv,
       nativeStopInv, stoppedInv, stopEndInv
  <2>5. CASE release(t) \/ joinEncoder(t) \/ releaseRaw(t) \/ exitCamera(t)
    BY <2>5, releaseInv, joinEncoderInv, exitCameraInv
  <2>6. CASE autoFocus(t) \/ cancelAutoFocus(t) \/ cancelAutoFocusInternal(t)
    BY <2>6, autoFocusInv, cancelAutoFocusInv, cancelAutoFocusInternalInv
  <2>7. CASE takePicture(t) \/ giveUp(t) \/ initPicture(t) \/ createSnapshotThread(t)
             \/ setSnapshotMode(t)
    BY <2>7, takePictureInv, giveUpInv, initPictureInv, createSnapshotThreadInv,
       setSnapshotModeInv
  <2> QED BY <2>1, <2>2, <2>3, <2>4, <2>5, <2>6, <2>7 DEF InCall
<1>3. ASSUME NEW f \in Frames, frameArrives(f) \/ InFrame(f) \/ receive_camframetimeout(f)
      PROVE  IInv'
  BY <1>3, frameArrivesInv, receivePreviewFrameInv, copyMaskInv, previewCallbackInv,
     recordCallbackInv, waitRecorderInv, frameLoopEndsInv, endFrameThreadInv,
     receive_camframetimeoutInv DEF InFrame
<1>4. ASSUME InAutoFocus PROVE IInv'
  BY <1>4, runAutoFocusInv, tryAutoFocusInv, startAutoFocusInv, unlockAutoFocusInv,
     autoFocusDoneInv DEF InAutoFocus
<1>5. ASSUME InSnapshot PROVE IInv'
  BY <1>5, startSnapshotInv, receiveRawPictureInv, cropPictureInv, rawCallbackInv, encodeInv,
     native_jpeg_encodeInv, rawDeinitInv, rawReturnInv, receiveRawSnapshotInv,
     snapshotCallbackInv, leaveSnapshotModeInv, waitEncoderInv, joinSnapshotInv,
     endSnapshotThreadInv
  DEF InSnapshot
<1> QED BY <1>1, <1>2, <1>3, <1>4, <1>5, releaseRecordingFrameInv, InEncoderInv DEF Next, Callers

(* The flags, the locks and what each call relies on agree in every        *)
(* reachable state, whatever fails and whatever the callbacks call.        *)
THEOREM InductiveInvariant == Spec => []IInv
BY InitInv, NextInv, StutterInv, PTL DEF Spec

(* There is never more than one frame thread: initPreview() waits for the  *)
(* last to report.                                                         *)
THEOREM FrameThreadIsAlone == Spec => []OneFrameThread
<1>1. IInv => OneFrameThread
  BY DEF IInv, FrameAgrees
<1> QED BY <1>1, InductiveInvariant, PTL

(* A frame thread that delivers has its heap: the next heap is made when   *)
(* no frame thread lives, and a frame thread drops its own after its       *)
(* loop.                                                                   *)
THEOREM HeapOutlivesDelivery == Spec => []HeapInUse
<1>1. IInv => HeapInUse
  BY DEF IInv, FrameAgrees
<1> QED BY <1>1, InductiveInvariant, PTL

(* While nobody starts or stops it, mCameraRunning is what the driver      *)
(* does, except after a timeout, when the driver is not told to stop, and  *)
(* after release().                                                        *)
THEOREM CameraFollowsDriver == Spec => []DriverFollows
<1>1. IInv => DriverFollows
  BY DEF IInv, DriverAgrees, DriverFollows
<1> QED BY <1>1, InductiveInvariant, PTL

(* The preview is set up only when no picture is with the sensor.          *)
THEOREM PreviewWaitsForPicture == Spec => []NoPreviewInSnapshot
<1>1. ASSUME IInv
      PROVE  NoPreviewInSnapshot
  <2>1. pc["app"] \in SetUpPlaces => pc["snapshot"] \notin SensorPlaces
    BY <1>1, CallersAreThreads DEF IInv, Claims
  <2> QED BY <2>1 DEF NoPreviewInSnapshot, SetUpPlaces, SensorPlaces
<1> QED BY <1>1, InductiveInvariant, PTL
-----------------------------------------------------------------------------
(* The memory of a picture.                                                *)

(* Where a call replaces or frees it, or relies on what it allocated.      *)
HeapPlaces == {"create_snapshot", "deinit_raw", "exit"}

(* What a picture needs is allocated: as a JPEG, and in its format.        *)
Raw == "raw" \in heaps /\ (wanted => {"jpeg", "thumbnail"} \subseteq heaps)

Allocated ==
    /\ mSnapshotFormat = "JPEG" => Raw
    /\ mSnapshotFormat = "RAW" => "rawSnapshot" \in heaps

(* The encoder works for the picture last taken, and the shutter is told   *)
(* after the picture is with the snapshot thread.                          *)
PictureAgrees ==
    /\ pc["encoder"] # None =>
           pc["snapshot"] \in {"raw_return", "snap_mode", "jpeg_wait", "snap_join"}
    /\ pc["snapshot"] \in {"snap_start", "raw_picture"} => mShutterPending

(* The memory is there from initPicture() to the last that uses it.        *)
Provided ==
    /\ \A t \in Callers : pc[t] = "create_snapshot" => Allocated
    /\ pc["snapshot"] = "snap_start" => Allocated
    /\ pc["snapshot"] \in {"raw_picture", "crop", "raw_callback", "encode", "native_encode"} => Raw
    /\ pc["snapshot"] \in {"raw_snapshot", "snapshot_callback"} => "rawSnapshot" \in heaps
    /\ pc["snapshot"] \in {"crop", "raw_callback"} /\ ~mShutterPending /\ wanted =>
           "display" \in heaps

(* A release() frees it when nobody uses it.                               *)
Undisturbed ==
    \A t \in Callers :
        /\ pc[t] \in {"deinit_raw", "exit"} => pc["snapshot"] \in Finishing
        /\ pc[t] = "deinit_raw" => pc["encoder"] = None

PInv == PictureAgrees /\ (~parted => Provided /\ Undisturbed) /\ PictureInUse

(* Where threads are after a step from one place to another,               *)
LEMMA GotoPlain ==
    ASSUME IInv, NEW t \in Threads, NEW from, NEW to, Goto(t, from, to)
    PROVE  pc[t] = from /\ pc'[t] = to /\ \A u \in Threads \ {t} : pc'[u] = pc[u]
BY DEF Goto, At, IInv, TypesCorrect, PlacesCorrect

(* after one that starts a thread,                                         *)
LEMMA ForkPlain ==
    ASSUME IInv, NEW t \in Threads, NEW from, NEW to, NEW s \in Threads \ {t}, NEW start,
           Fork(t, from, to, s, start)
    PROVE  /\ pc[t] = from /\ pc'[t] = to /\ pc'[s] = start
           /\ \A u \in Threads \ {t, s} : pc'[u] = pc[u]
BY DEF Fork, At, IInv, TypesCorrect, PlacesCorrect

(* and after one that wakes who waits for the recorder.                    *)
LEMMA SignalPlain ==
    ASSUME IInv, NEW t \in Threads, NEW to, to # "rec_wait", pc' = Signal([pc EXCEPT ![t] = to])
    PROVE  pc'[t] = to /\ \A u \in Threads \ {t} : Same(u)
BY DEF Signal, Same, IInv, TypesCorrect, PlacesCorrect

(* The names of the threads.                                               *)
LEMMA ThreadNames ==
    /\ {"app", "af", "snapshot", "encoder"} \cap Frames = {}
    /\ {"app", "af", "snapshot", "encoder"} \subseteq Threads
    /\ Frames \subseteq Threads /\ Callers \subseteq Threads /\ Frames \subseteq Callers
    /\ Callers = {"app"} \cup Frames
    /\ {"af", "snapshot", "encoder"} \cap Callers = {}
BY DEF Threads, Frames, Callers

(* What the memory of a picture depends on, apart from the places.         *)
buffers == <<mSnapshotFormat, mShutterPending, heaps, history>>

(* A step that leaves the picture alone, and no call where it needs it.    *)
LEMMA PictureStays ==
    ASSUME PInv, UNCHANGED buffers,
           pc'["snapshot"] = pc["snapshot"], pc'["encoder"] = pc["encoder"],
           \A t \in Callers : pc'[t] \in HeapPlaces => pc'[t] = pc[t]
    PROVE  PInv'
<1>1. UNCHANGED <<mSnapshotFormat, mShutterPending, heaps, wanted, parted>>
  BY DEF buffers, history
<1>2. PictureAgrees' /\ PictureInUse'
  BY <1>1 DEF PInv, PictureAgrees, PictureInUse
<1>3. Provided => Provided'
  <2>1. Raw' = Raw /\ Allocated' = Allocated
    BY <1>1 DEF Allocated, Raw
  <2> QED BY <1>1, <2>1 DEF Provided, HeapPlaces
<1>4. Undisturbed => Undisturbed'
  BY DEF Undisturbed, HeapPlaces
<1> QED BY <1>1, <1>2, <1>3, <1>4 DEF PInv

(* The same of a thread that goes elsewhere, starting another or not.      *)
LEMMA PlainPicture ==
    ASSUME PInv, IInv, NEW t \in Threads \ {"snapshot", "encoder"}, pc'[t] \notin HeapPlaces,
           \A u \in Threads \ {t} :
               Same(u) \/ (u \in Frames \cup {"af"} /\ pc'[u] \notin HeapPlaces),
           UNCHANGED buffers
    PROVE  PInv'
<1>1. pc'["snapshot"] = pc["snapshot"] /\ pc'["encoder"] = pc["encoder"]
  BY ThreadNames, OthersStay DEF IInv
<1>2. \A u \in Callers : pc'[u] \in HeapPlaces => pc'[u] = pc[u]
  BY ThreadNames DEF Same, HeapPlaces
<1> QED BY <1>1, <1>2, PictureStays

(* The same of a step from one place to another.                           *)
LEMMA GotoPicture ==
    ASSUME PInv, IInv, NEW t \in Threads \ {"snapshot", "encoder"},
           NEW from, NEW to, to \notin HeapPlaces, Goto(t, from, to), UNCHANGED buffers
    PROVE  PInv'
BY GotoPlain, PlainPicture DEF Same

(* Calls that begin and end, and those that start the preview.             *)
LEMMA StartPicture ==
    ASSUME PInv, IInv, NEW t \in Callers,
           \/ lock(t) \/ leave(t) \/ setMessages(t) \/ startRecording(t)
           \/ startPreviewInternal(t) \/ waitFrameThread(t) \/ waitSnapshotMode(t)
           \/ allocPreviewHeap(t) \/ nativeStart(t) \/ started(t) \/ undoStart(t)
    PROVE  PInv'
<1>1. First(call[t]) \notin HeapPlaces
  BY DEF First, HeapPlaces
<1>2. PICK from, to : to \notin HeapPlaces /\ Goto(t, from, to)
  BY <1>1 DEF lock, leave, setMessages, startRecording, startPreviewInternal, waitFrameThread,
         waitSnapshotMode, allocPreviewHeap, nativeStart, started, undoStart, HeapPlaces
<1>3. UNCHANGED buffers
  BY DEF lock, leave, setMessages, startRecording, startPreviewInternal, waitFrameThread,
         waitSnapshotMode, allocPreviewHeap, nativeStart, started, undoStart, buffers, picture, mode
<1> QED BY <1>2, <1>3, ThreadNames, GotoPicture

(* Calls that stop it, and what the calls about focusing and pictures do   *)
(* besides.                                                                *)
LEMMA StopPicture ==
    ASSUME PInv, IInv, NEW t \in Callers,
           \/ stopPreview(t) \/ stopPreviewInternal(t) \/ lockTimeout(t) \/ nativeStop(t)
           \/ stopped(t) \/ stopEnd(t) \/ cancelAutoFocus(t) \/ cancelAutoFocusInternal(t)
           \/ giveUp(t) \/ setSnapshotMode(t)
    PROVE  PInv'
<1>1. AfterStop(t) \notin HeapPlaces
  BY DEF AfterStop, HeapPlaces
<1>2. PICK from, to : to \notin HeapPlaces /\ Goto(t, from, to)
  BY <1>1 DEF stopPreview, stopPreviewInternal, lockTimeout, nativeStop, stopped, stopEnd,
         cancelAutoFocus, cancelAutoFocusInternal, giveUp, setSnapshotMode, HeapPlaces
<1>3. UNCHANGED buffers
  BY DEF stopPreview, stopPreviewInternal, lockTimeout, nativeStop, stopped, stopEnd,
         cancelAutoFocus, cancelAutoFocusInternal, giveUp, setSnapshotMode, buffers, picture, mode
<1> QED BY <1>2, <1>3, ThreadNames, GotoPicture

(* Calls that signal the recorder's condition.                             *)
LEMMA SignalPicture ==
    ASSUME PInv, IInv, NEW t \in Callers, stopRecording(t) \/ release(t)
    PROVE  PInv'
<1>1. UNCHANGED buffers
  BY DEF stopRecording, release, buffers, picture, mode
<1>2. PICK to \in {"leave", "stop", "join"} :
          (\E from : Goto(t, from, to)) \/ pc' = Signal([pc EXCEPT ![t] = to])
  BY DEF stopRecording, release
<1>3. to \notin HeapPlaces
  BY DEF HeapPlaces
<1>4. CASE \E from : Goto(t, from, to)
  BY <1>1, <1>3, <1>4, ThreadNames, GotoPicture
<1>5. CASE pc' = Signal([pc EXCEPT ![t] = to])
  <2>1. pc'[t] = to /\ \A u \in Threads \ {t} : Same(u)
    BY <1>5, ThreadNames, SignalPlain
  <2> QED BY <1>1, <1>3, <2>1, ThreadNames, PlainPicture
<1> QED BY <1>2, <1>4, <1>5

(* Calls that start the frame thread, or the one that focuses.             *)
LEMMA ForkPicture ==
    ASSUME PInv, IInv, NEW t \in Callers, createFrameThread(t) \/ autoFocus(t)
    PROVE  PInv'
<1>1. UNCHANGED buffers
  BY DEF createFrameThread, autoFocus, buffers, picture, mode
<1>2. {"leave", "native_start", "loop", "af_start"} \cap HeapPlaces = {}
  BY DEF HeapPlaces
<1>3. CASE \E from : Goto(t, from, "leave")
  BY <1>1, <1>2, <1>3, ThreadNames, GotoPicture
<1>4. CASE createFrameThread(t) /\ Fork(t, "create", "native_start", mPreviewHeap, "loop")
  <2>1. mPreviewHeap \in Frames /\ pc[mPreviewHeap] = None /\ pc[t] = "create"
    BY <1>4 DEF IInv, Claims, AllocPlaces, NoFrame, Fork, At
  <2>2. mPreviewHeap \in Threads \ {t}
    BY <2>1, ThreadNames DEF None
  <2>3. pc'[t] = "native_start" /\ pc'[mPreviewHeap] = "loop"
        /\ \A u \in Threads \ {t, mPreviewHeap} : pc'[u] = pc[u]
    BY <1>4, <2>2, ForkPlain, ThreadNames
  <2> QED BY <1>1, <1>2, <2>1, <2>3, PlainPicture, ThreadNames DEF Same
<1>5. CASE Fork(t, "auto_focus", "leave", "af", "af_start")
  <2>1. "af" \in Threads \ {t}
    BY ThreadNames
  <2>2. pc'[t] = "leave" /\ pc'["af"] = "af_start"
        /\ \A u \in Threads \ {t, "af"} : pc'[u] = pc[u]
    BY <1>5, <2>1, ForkPlain, ThreadNames
  <2> QED BY <1>1, <1>2, <2>2, PlainPicture, ThreadNames DEF Same
<1> QED BY <1>3, <1>4, <1>5 DEF createFrameThread, autoFocus

(* The service, the frame threads, the focusing thread and the recorder.   *)
LEMMA OtherPicture ==
    ASSUME PInv, IInv,
           \/ \E c \in Calls : enter(c)
           \/ \E f \in Frames : frameArrives(f) \/ InFrame(f)
           \/ InAutoFocus
    PROVE  PInv'
<1>1. UNCHANGED buffers
  BY DEF enter, frameArrives, InFrame, receivePreviewFrame, copyMask, previewCallback,
         recordCallback, waitRecorder, frameLoopEnds, endFrameThread, InAutoFocus, runAutoFocus,
         tryAutoFocus, startAutoFocus, unlockAutoFocus, autoFocusDone, buffers, picture, mode
<1>2. {None, "enter", "loop", "received", "mask", "pcb", "rcb", "rec_check", "rec_wait",
       "ended", "cleared", "af_try", "af_lock", "focusing", "af_unlock", "af_done"}
      \cap HeapPlaces = {}
  BY DEF HeapPlaces, None
<1>3. \E t \in {"app", "af"} \cup Frames : \E from, to :
          Goto(t, from, to) /\ to \notin HeapPlaces
  BY <1>2 DEF enter, frameArrives, InFrame, receivePreviewFrame, copyMask, previewCallback,
         recordCallback, waitRecorder, frameLoopEnds, endFrameThread, InAutoFocus, runAutoFocus,
         tryAutoFocus, startAutoFocus, unlockAutoFocus, autoFocusDone
<1> QED BY <1>1, <1>3, ThreadNames, GotoPicture

(* Nobody goes anywhere, but a thread that waits for the recorder.         *)
LEMMA StillPicture ==
    ASSUME PInv, IInv,
           \/ releaseRecordingFrame \/ UNCHANGED vars
           \/ \E f \in Frames : receive_camframetimeout(f)
    PROVE  PInv'
<1>1. \A u \in Threads : Same(u)
  BY DEF Same, releaseRecordingFrame, receive_camframetimeout, Signal, vars, IInv, TypesCorrect,
         PlacesCorrect
<1>2. UNCHANGED buffers
  BY DEF releaseRecordingFrame, receive_camframetimeout, vars, buffers, picture, mode
<1>3. pc'["snapshot"] = pc["snapshot"] /\ pc'["encoder"] = pc["encoder"]
  BY <1>1, ThreadNames, OthersStay DEF IInv
<1>4. \A u \in Callers : pc'[u] \in HeapPlaces => pc'[u] = pc[u]
  BY <1>1, ThreadNames DEF Same, HeapPlaces
<1> QED BY <1>2, <1>3, <1>4, PictureStays

(* A call about the picture is alone, and moves nobody else.               *)
LEMMA PictureCall ==
    ASSUME IInv, NEW t \in Callers, NEW from \in CallPlaces, NEW to, Goto(t, from, to)
    PROVE  /\ pc[t] = from /\ pc'[t] = to
           /\ pc'["snapshot"] = pc["snapshot"] /\ pc'["encoder"] = pc["encoder"]
           /\ \A u \in Callers \ {t} : pc'[u] = pc[u] /\ pc[u] \notin HeapPlaces
<1>1. pc[t] = from /\ pc'[t] = to /\ \A u \in Threads \ {t} : pc'[u] = pc[u]
  BY GotoPlain, ThreadNames
<1>2. \A u \in Callers \ {t} : pc[u] \notin CallPlaces
  BY <1>1 DEF IInv, LocksAgree
<1>3. HeapPlaces \subseteq CallPlaces
  BY DEF HeapPlaces, CallPlaces, OtherPlaces, TakePlaces
<1> QED BY <1>1, <1>2, <1>3, ThreadNames

(* Places within a call.                                                   *)
LEMMA PictureNames ==
    {"take", "raw", "create_snapshot", "give_up", "join", "deinit_raw", "exit"} \subseteq CallPlaces
BY DEF CallPlaces, OtherPlaces, TakePlaces

(* takePicture() waits for the last picture's thread; the format it sets   *)
(* is nobody else's.                                                       *)
LEMMA takePicturePicture ==
    ASSUME PInv, IInv, NEW t \in Callers, takePicture(t)
    PROVE  PInv'
<1>1. PICK to \in {"stop", "give_up"} : Goto(t, "take", to)
  BY DEF takePicture
<1>2. UNCHANGED <<mShutterPending, heaps, wanted, parted>>
  BY DEF takePicture, history
<1>3. /\ pc'[t] = to
      /\ pc'["snapshot"] = pc["snapshot"] /\ pc'["encoder"] = pc["encoder"]
      /\ \A u \in Callers \ {t} : pc'[u] = pc[u] /\ pc[u] \notin HeapPlaces
  BY <1>1, PictureCall, PictureNames
<1>4. pc["snapshot"] = None
  BY DEF takePicture, IInv, SnapshotAgrees
<1>5. \A u \in Callers : pc'[u] \notin HeapPlaces
  BY <1>3 DEF HeapPlaces
<1>6. Provided' /\ Undisturbed'
  BY <1>3, <1>4, <1>5 DEF Provided, Undisturbed, HeapPlaces, None
<1>7. PictureAgrees' /\ PictureInUse'
  BY <1>2, <1>3 DEF PInv, PictureAgrees, PictureInUse
<1> QED BY <1>6, <1>7 DEF PInv

(* initRaw() and initRawSnapshot() allocate what the picture needs; nobody *)
(* uses the memory that they replace.                                      *)
LEMMA initPicturePicture ==
    ASSUME PInv, IInv, NEW t \in Callers, initPicture(t)
    PROVE  PInv'
<1>1. PICK to \in {"create_snapshot", "give_up"} :
          /\ Goto(t, "raw", to)
          /\ to = "create_snapshot" =>
                 \/ mSnapshotFormat = "JPEG" /\ initRaw /\ wanted' = Enabled("COMPRESSED_IMAGE")
                 \/ mSnapshotFormat = "RAW" /\ initRawSnapshot
  BY DEF initPicture
<1>2. UNCHANGED <<mSnapshotFormat, mShutterPending, parted>>
  BY DEF initPicture, mode
<1>3. /\ pc[t] = "raw" /\ pc'[t] = to
      /\ pc'["snapshot"] = pc["snapshot"] /\ pc'["encoder"] = pc["encoder"]
      /\ \A u \in Callers \ {t} : pc'[u] = pc[u] /\ pc[u] \notin HeapPlaces
  BY <1>1, PictureCall, PictureNames
<1>4. pc["snapshot"] = None
  BY <1>3 DEF IInv, Claims, Taking
<1>5. pc["encoder"] = None
  BY <1>4 DEF PInv, PictureAgrees, None
<1>6. to = "create_snapshot" => Allocated'
  BY <1>1, <1>2 DEF initRaw, initRawSnapshot, Allocated, Raw
<1>7. \A u \in Callers \ {t} : pc'[u] \notin HeapPlaces
  BY <1>3
<1>8. Provided'
  BY <1>3, <1>4, <1>6, <1>7 DEF Provided, HeapPlaces, None
<1>9. Undisturbed' /\ PictureAgrees' /\ PictureInUse'
  BY <1>3, <1>4, <1>5, <1>7 DEF Undisturbed, PictureAgrees, PictureInUse, HeapPlaces, None
<1> QED BY <1>8, <1>9 DEF PInv

(* The thread begins with what it needs.                                   *)
LEMMA createSnapshotThreadPicture ==
    ASSUME PInv, IInv, NEW t \in Callers, createSnapshotThread(t)
    PROVE  PInv'
<1>1. pc[t] = "create_snapshot"
  BY DEF createSnapshotThread, Goto, Fork, At
<1>2. pc["snapshot"] = None
  BY <1>1 DEF IInv, Claims, Taking
<1>3. pc["encoder"] = None
  BY <1>2 DEF PInv, PictureAgrees, None
<1>4. UNCHANGED <<mSnapshotFormat, heaps, wanted, parted>> /\ mShutterPending'
  BY DEF createSnapshotThread, history
<1>5. /\ pc'[t] = "set_mode" /\ pc'["snapshot"] \in {None, "snap_start"}
      /\ \A u \in Threads \ {t, "snapshot"} : pc'[u] = pc[u]
  <2>1. CASE Fork(t, "create_snapshot", "set_mode", "snapshot", "snap_start")
    <3>1. "snapshot" \in Threads \ {t}
      BY ThreadNames
    <3> QED BY <2>1, <3>1, ForkPlain, ThreadNames
  <2>2. CASE Goto(t, "create_snapshot", "set_mode")
    BY <1>2, <2>2, GotoPlain, ThreadNames
  <2> QED BY <2>1, <2>2 DEF createSnapshotThread
<1>6. pc'["encoder"] = None
  BY <1>3, <1>5, ThreadNames
<1>7. \A u \in Callers : pc'[u] \notin HeapPlaces
  <2>1. \A u \in Callers \ {t} : pc'[u] = pc[u] /\ pc[u] \notin CallPlaces
    BY <1>1, <1>5, ThreadNames, PictureNames DEF IInv, LocksAgree
  <2>2. HeapPlaces \subseteq CallPlaces
    BY PictureNames DEF HeapPlaces
  <2> QED BY <1>5, <2>1, <2>2 DEF HeapPlaces
<1>8. Provided => Provided'
  <2>1. Allocated' = Allocated
    BY <1>4 DEF Allocated, Raw
  <2> QED BY <1>1, <1>5, <1>7, <2>1 DEF Provided, HeapPlaces, None
<1>9. Undisturbed' /\ PictureAgrees' /\ PictureInUse'
  BY <1>4, <1>5, <1>6, <1>7 DEF Undisturbed, PictureAgrees, PictureInUse, HeapPlaces, None
<1> QED BY <1>4, <1>8, <1>9 DEF PInv

(* release() waits for the encoder, and finds the snapshot thread done     *)
(* with the memory unless it parts with it.                                *)
LEMMA joinEncoderPicture ==
    ASSUME PInv, IInv, NEW t \in Callers, joinEncoder(t)
    PROVE  PInv'
<1>1. /\ pc'[t] = "deinit_raw"
      /\ pc'["snapshot"] = pc["snapshot"] /\ pc'["encoder"] = pc["encoder"]
      /\ \A u \in Callers \ {t} : pc'[u] = pc[u] /\ pc[u] \notin HeapPlaces
  BY PictureCall, PictureNames DEF joinEncoder
<1>2. UNCHANGED <<mSnapshotFormat, mShutterPending, heaps, wanted>>
      /\ pc["encoder"] = None
  BY DEF joinEncoder, mode
<1>3. ~parted' => ~parted /\ pc["snapshot"] \in Finishing
  BY DEF joinEncoder
<1>4. Provided => Provided'
  <2>1. Raw' = Raw /\ Allocated' = Allocated
    BY <1>2 DEF Allocated, Raw
  <2> QED BY <1>1, <1>2, <2>1 DEF Provided, HeapPlaces
<1>5. pc["snapshot"] \in Finishing => Undisturbed'
  BY <1>1, <1>2 DEF Undisturbed, HeapPlaces
<1>6. PictureAgrees' /\ (~parted => PictureInUse')
  BY <1>1, <1>2 DEF PInv, PictureAgrees, PictureInUse
<1>7. parted' => PictureInUse'
  BY DEF PictureInUse
<1> QED BY <1>3, <1>4, <1>5, <1>6, <1>7 DEF PInv

(* The memory goes when nobody uses it any more.                           *)
LEMMA releaseRawPicture ==
    ASSUME PInv, IInv, NEW t \in Callers, releaseRaw(t) \/ exitCamera(t)
    PROVE  PInv'
<1>1. PICK from \in {"deinit_raw", "exit"}, to \in {"exit", "leave"} :
          /\ Goto(t, from, to)
          /\ from = "exit" => heaps' = heaps \ {"rawSnapshot"} /\ to = "leave"
  BY DEF releaseRaw, exitCamera
<1>2. /\ pc[t] = from /\ pc'[t] = to
      /\ pc'["snapshot"] = pc["snapshot"] /\ pc'["encoder"] = pc["encoder"]
      /\ \A u \in Callers \ {t} : pc'[u] = pc[u] /\ pc[u] \notin HeapPlaces
  BY <1>1, PictureCall, PictureNames
<1>3. UNCHANGED <<mShutterPending, wanted, parted>>
  BY DEF releaseRaw, exitCamera, mode, history
<1>4. PictureAgrees'
  BY <1>2, <1>3 DEF PInv, PictureAgrees
<1>5. CASE parted
  BY <1>3, <1>4, <1>5 DEF PInv, PictureInUse
<1>6. CASE ~parted
  <2>1. pc["snapshot"] \in Finishing /\ (from = "deinit_raw" => pc["encoder"] = None)
    BY <1>2, <1>6 DEF PInv, Undisturbed
  <2>2. Undisturbed'
    BY <1>1, <1>2, <2>1 DEF Undisturbed, HeapPlaces
  <2>3. pc["snapshot"] \notin {"snap_start", "raw_picture", "crop", "raw_callback", "encode",
                               "native_encode", "raw_snapshot", "snapshot_callback"}
    BY <2>1 DEF Finishing, None
  <2>4. Provided'
    BY <1>1, <1>2, <2>3 DEF Provided, HeapPlaces
  <2>5. PictureInUse'
    BY <1>1, <1>2, <1>3, <1>6, <2>1, <2>3 DEF PInv, PictureInUse
  <2> QED BY <1>4, <2>2, <2>4, <2>5 DEF PInv
<1> QED BY <1>5, <1>6

(* A step of the snapshot thread: no call is on its way to create it.      *)
LEMMA SnapshotMoves ==
    ASSUME IInv, NEW from, from # None, NEW to, Goto("snapshot", from, to)
    PROVE  /\ pc["snapshot"] = from /\ pc'["snapshot"] = to
           /\ pc'["encoder"] = pc["encoder"]
           /\ \A u \in Callers : pc'[u] = pc[u] /\ pc[u] # "create_snapshot"
<1>1. pc["snapshot"] = from /\ pc'["snapshot"] = to
      /\ \A u \in Threads \ {"snapshot"} : pc'[u] = pc[u]
  BY GotoPlain, ThreadNames
<1>2. \A u \in Callers : pc[u] # "create_snapshot"
  BY <1>1 DEF IInv, Claims, Taking
<1> QED BY <1>1, <1>2, ThreadNames

(* A thread that has finished with the memory does not go back to it, and  *)
(* only the encoder that it starts uses it then.                           *)
LEMMA UndisturbedStays ==
    ASSUME Undisturbed, pc'["encoder"] = pc["encoder"], \A u \in Callers : pc'[u] = pc[u],
           pc["snapshot"] \in Finishing => pc'["snapshot"] \in Finishing
    PROVE  Undisturbed'
BY DEF Undisturbed

(* Places of the snapshot thread before it has finished with the memory.   *)
LEMMA EarlyPlaces ==
    /\ {"snap_start", "raw_picture", "crop", "raw_callback", "encode", "native_encode",
        "raw_deinit", "raw_return", "raw_snapshot", "snapshot_callback", "snap_mode"}
       \cap Finishing = {}
    /\ None \notin {"snap_start", "raw_picture", "crop", "raw_callback", "encode",
        "native_encode", "raw_deinit", "raw_return", "raw_snapshot", "snapshot_callback",
        "snap_mode", "jpeg_wait", "snap_join", "snap_end"}
BY DEF Finishing, None

(* The picture comes with its memory allocated.                            *)
LEMMA startSnapshotPicture ==
    ASSUME PInv, IInv, startSnapshot
    PROVE  PInv'
<1>1. PICK to \in {"raw_picture", "raw_snapshot", "snap_mode"} :
          /\ Goto("snapshot", "snap_start", to)
          /\ to = "raw_picture" => mSnapshotFormat = "JPEG"
          /\ to = "raw_snapshot" => mSnapshotFormat = "RAW"
  BY DEF startSnapshot
<1>2. UNCHANGED <<mSnapshotFormat, mShutterPending, heaps, wanted, parted>>
  BY DEF startSnapshot, picture, mode, history
<1>3. /\ pc["snapshot"] = "snap_start" /\ pc'["snapshot"] = to
      /\ pc'["encoder"] = pc["encoder"]
      /\ \A u \in Callers : pc'[u] = pc[u] /\ pc[u] # "create_snapshot"
  BY <1>1, SnapshotMoves, EarlyPlaces
<1>4. pc["encoder"] = None /\ mShutterPending
  BY <1>3 DEF PInv, PictureAgrees
<1>5. Provided => Provided'
  <2>1. Raw' = Raw
    BY <1>2 DEF Raw
  <2> QED BY <1>1, <1>2, <1>3, <2>1 DEF Provided, Allocated
<1>6. Undisturbed => Undisturbed'
  BY <1>3, UndisturbedStays, EarlyPlaces
<1>7. PictureAgrees' /\ PictureInUse'
  BY <1>1, <1>2, <1>3, <1>4 DEF PictureAgrees, PictureInUse, None
<1> QED BY <1>2, <1>5, <1>6, <1>7 DEF PInv

(* With the shutter a heap is set that the raw callback shows.             *)
LEMMA receiveRawPicturePicture ==
    ASSUME PInv, IInv, receiveRawPicture
    PROVE  PInv'
<1>1. PICK to \in {"crop", "raw_callback", "raw_return", "encode"} :
          /\ Goto("snapshot", "raw_picture", to)
          /\ \/ to \in {"crop", "raw_callback"} /\ notifyShutter
             \/ to \notin {"crop", "raw_callback"} /\ UNCHANGED <<mShutterPending, heaps>>
  BY DEF receiveRawPicture
<1>2. UNCHANGED <<wanted, parted>>
  BY DEF receiveRawPicture, history
<1>3. /\ pc["snapshot"] = "raw_picture" /\ pc'["snapshot"] = to
      /\ pc'["encoder"] = pc["encoder"]
      /\ \A u \in Callers : pc'[u] = pc[u] /\ pc[u] # "create_snapshot"
  BY <1>1, SnapshotMoves, EarlyPlaces
<1>4. pc["encoder"] = None /\ mShutterPending
  BY <1>3 DEF PInv, PictureAgrees
<1>5. Raw => Raw' /\ (~mShutterPending' /\ wanted => "display" \in heaps')
  BY <1>1, <1>2, <1>4 DEF Raw, notifyShutter, Displayed
<1>6. Provided => Provided'
  BY <1>1, <1>2, <1>3, <1>5 DEF Provided
<1>7. Undisturbed => Undisturbed'
  BY <1>3, UndisturbedStays, EarlyPlaces
<1>8. PictureAgrees'
  BY <1>1, <1>3, <1>4 DEF PictureAgrees, None
<1>9. Provided => PictureInUse'
  BY <1>1, <1>2, <1>3, <1>4, <1>5 DEF Provided, PictureInUse, Raw, None
<1>10. parted' => PictureInUse'
  BY DEF PictureInUse
<1> QED BY <1>2, <1>6, <1>7, <1>8, <1>9, <1>10 DEF PInv

(* The picture is cropped, shown, and given to the encoder.                *)
LEMMA encodePicture ==
    ASSUME PInv, IInv, cropPicture \/ rawCallback \/ encode
    PROVE  PInv'
<1>1. PICK from \in {"crop", "raw_callback", "encode"},
           to \in {"raw_callback", "encode", "native_encode", "raw_deinit"} :
          /\ Goto("snapshot", from, to)
          /\ to = "raw_callback" => from = "crop"
  BY DEF cropPicture, rawCallback, encode
<1>2. UNCHANGED <<mSnapshotFormat, mShutterPending, heaps, wanted, parted>>
  BY DEF cropPicture, rawCallback, encode, picture, mode, history
<1>3. /\ pc["snapshot"] = from /\ pc'["snapshot"] = to
      /\ pc'["encoder"] = pc["encoder"]
      /\ \A u \in Callers : pc'[u] = pc[u] /\ pc[u] # "create_snapshot"
  BY <1>1, SnapshotMoves, EarlyPlaces
<1>4. pc["encoder"] = None
  BY <1>3 DEF PInv, PictureAgrees
<1>5. Raw' = Raw
  BY <1>2 DEF Raw
<1>6. Provided => Provided'
  BY <1>1, <1>2, <1>3, <1>5 DEF Provided
<1>7. Undisturbed => Undisturbed'
  BY <1>1, <1>3, UndisturbedStays, EarlyPlaces
<1>8. PictureAgrees'
  BY <1>1, <1>3, <1>4 DEF PictureAgrees, None
<1>9. Provided => PictureInUse'
  BY <1>1, <1>2, <1>3, <1>4 DEF Provided, PictureInUse, Raw, None
<1>10. parted' => PictureInUse'
  BY DEF PictureInUse
<1> QED BY <1>2, <1>6, <1>7, <1>8, <1>9, <1>10 DEF PInv

(* The encoder starts with the memory it reads and writes.                 *)
LEMMA native_jpeg_encodePicture ==
    ASSUME PInv, IInv, native_jpeg_encode
    PROVE  PInv'
<1>1. UNCHANGED <<mSnapshotFormat, mShutterPending, heaps, wanted, parted>>
  BY DEF native_jpeg_encode, picture, mode, history
<1>2. /\ pc["snapshot"] = "native_encode" /\ pc'["snapshot"] \in {"raw_return", "raw_deinit"}
      /\ pc'["snapshot"] = "raw_deinit" => pc'["encoder"] = pc["encoder"]
      /\ \A u \in Callers : pc'[u] = pc[u]
  <2>1. CASE Fork("snapshot", "native_encode", "raw_return", "encoder", "encoding")
    BY <2>1, ForkPlain, ThreadNames
  <2>2. CASE Goto("snapshot", "native_encode", "raw_deinit")
    BY <2>2, GotoPlain, ThreadNames
  <2> QED BY <2>1, <2>2 DEF native_jpeg_encode
<1>3. \A u \in Callers : pc[u] # "create_snapshot"
  BY <1>2 DEF IInv, Claims, Taking, None
<1>4. {"raw", "thumbnail"} \subseteq heaps
  BY <1>2 DEF native_jpeg_encode, InPlace, Uses, Present
<1>5. pc["encoder"] = None
  BY <1>2 DEF PInv, PictureAgrees
<1>6. Provided => Provided'
  BY <1>2, <1>3 DEF Provided
<1>7. Undisturbed => Undisturbed'
  BY <1>2, EarlyPlaces DEF Undisturbed
<1>8. PictureAgrees'
  BY <1>2, <1>5 DEF PictureAgrees, None
<1>9. Provided => PictureInUse'
  BY <1>1, <1>2, <1>4 DEF Provided, PictureInUse, Raw
<1>10. parted' => PictureInUse'
  BY DEF PictureInUse
<1> QED BY <1>1, <1>6, <1>7, <1>8, <1>9, <1>10 DEF PInv

(* A raw snapshot is shown from the heap that it came in.                  *)
LEMMA receiveRawSnapshotPicture ==
    ASSUME PInv, IInv, receiveRawSnapshot
    PROVE  PInv'
<1>1. PICK to \in {"snapshot_callback", "snap_mode"} :
          /\ Goto("snapshot", "raw_snapshot", to)
          /\ to = "snapshot_callback" => notifyShutter
  BY DEF receiveRawSnapshot
<1>2. UNCHANGED <<wanted, parted>>
  BY DEF receiveRawSnapshot, history
<1>3. /\ pc["snapshot"] = "raw_snapshot" /\ pc'["snapshot"] = to
      /\ pc'["encoder"] = pc["encoder"]
      /\ \A u \in Callers : pc'[u] = pc[u] /\ pc[u] # "create_snapshot"
  BY <1>1, SnapshotMoves, EarlyPlaces
<1>4. pc["encoder"] = None
  BY <1>3 DEF PInv, PictureAgrees
<1>5. to = "snapshot_callback" /\ "rawSnapshot" \in heaps => "rawSnapshot" \in heaps'
  BY <1>1 DEF notifyShutter, Displayed
<1>6. Provided => Provided'
  BY <1>1, <1>3, <1>5 DEF Provided
<1>7. Undisturbed => Undisturbed'
  BY <1>3, UndisturbedStays, EarlyPlaces
<1>8. PictureAgrees'
  BY <1>1, <1>3, <1>4 DEF PictureAgrees
<1>9. Provided => PictureInUse'
  BY <1>1, <1>3, <1>4, <1>5 DEF Provided, PictureInUse
<1>10. parted' => PictureInUse'
  BY DEF PictureInUse
<1> QED BY <1>2, <1>6, <1>7, <1>8, <1>9, <1>10 DEF PInv

(* Without an encoder that uses it the memory may go.                      *)
LEMMA FreesPicture ==
    ASSUME PInv, IInv, rawDeinit \/ snapshotCallback \/ joinSnapshot \/ endSnapshotThread
    PROVE  PInv'
<1>1. PICK from \in {"raw_deinit", "snapshot_callback", "snap_join", "snap_end"},
           to \in {"raw_return", "snap_mode", "snap_end", None} :
          /\ Goto("snapshot", from, to)
          /\ from \in {"snap_join", "snap_end"} <=> to \in {"snap_end", None}
          /\ from = "snap_join" => pc["encoder"] = None
  BY EarlyPlaces DEF rawDeinit, snapshotCallback, joinSnapshot, endSnapshotThread, None
<1>2. UNCHANGED <<wanted, parted>>
  BY DEF rawDeinit, snapshotCallback, joinSnapshot, endSnapshotThread, history
<1>3. /\ pc["snapshot"] = from /\ pc'["snapshot"] = to
      /\ pc'["encoder"] = pc["encoder"]
      /\ \A u \in Callers : pc'[u] = pc[u] /\ pc[u] # "create_snapshot"
  BY <1>1, SnapshotMoves, EarlyPlaces
<1>4. pc["encoder"] = None
  BY <1>1, <1>3 DEF PInv, PictureAgrees
<1>5. Provided'
  BY <1>1, <1>3 DEF Provided, None
<1>6. Undisturbed => Undisturbed'
  BY <1>1, <1>3, UndisturbedStays, EarlyPlaces DEF Finishing
<1>7. PictureAgrees' /\ PictureInUse'
  BY <1>1, <1>3, <1>4 DEF PictureAgrees, PictureInUse, None
<1> QED BY <1>2, <1>5, <1>6, <1>7 DEF PInv

(* The encoder goes on while the thread tells that it has the picture.     *)
LEMMA returnPicture ==
    ASSUME PInv, IInv, rawReturn \/ leaveSnapshotMode \/ waitEncoder
    PROVE  PInv'
<1>1. PICK from \in {"raw_return", "snap_mode", "jpeg_wait"},
           to \in {"snap_mode", "jpeg_wait", "snap_join"} :
          /\ Goto("snapshot", from, to)
          /\ from = "jpeg_wait" => to = "snap_join"
  BY DEF rawReturn, leaveSnapshotMode, waitEncoder
<1>2. UNCHANGED <<mShutterPending, heaps, wanted, parted>>
  BY DEF rawReturn, leaveSnapshotMode, waitEncoder, picture, mode, history
<1>3. /\ pc["snapshot"] = from /\ pc'["snapshot"] = to
      /\ pc'["encoder"] = pc["encoder"]
      /\ \A u \in Callers : pc'[u] = pc[u] /\ pc[u] # "create_snapshot"
  BY <1>1, SnapshotMoves, EarlyPlaces
<1>4. Provided'
  BY <1>1, <1>3 DEF Provided
<1>5. Undisturbed => Undisturbed'
  BY <1>1, <1>3, UndisturbedStays, EarlyPlaces DEF Finishing
<1>6. PictureAgrees' /\ PictureInUse'
  BY <1>1, <1>2, <1>3 DEF PInv, PictureAgrees, PictureInUse
<1> QED BY <1>2, <1>4, <1>5, <1>6 DEF PInv

(* The encoder works, and ends.                                            *)
LEMMA EncoderPicture ==
    ASSUME PInv, IInv, InEncoder
    PROVE  PInv'
<1>1. UNCHANGED <<mSnapshotFormat, mShutterPending, heaps, wanted, parted>>
  BY DEF InEncoder, encoderEvent, receiveJpegPicture, picture, mode, history
<1>2. PICK from, to : from \in {"encoding", "jpeg_done"} /\ Goto("encoder", from, to)
  BY DEF InEncoder, encoderEvent, receiveJpegPicture
<1>3. pc["encoder"] # None /\ pc'["snapshot"] = pc["snapshot"]
      /\ \A u \in Callers : pc'[u] = pc[u]
  BY <1>2, GotoPlain, ThreadNames DEF None
<1>4. Provided => Provided'
  <2>1. Raw' = Raw /\ Allocated' = Allocated
    BY <1>1 DEF Raw, Allocated
  <2> QED BY <1>1, <1>3, <2>1 DEF Provided
<1>5. Undisturbed => Undisturbed'
  BY <1>3 DEF Undisturbed
<1>6. PictureAgrees' /\ PictureInUse'
  BY <1>1, <1>3 DEF PInv, PictureAgrees, PictureInUse
<1> QED BY <1>1, <1>4, <1>5, <1>6 DEF PInv

(* Before the first call there is no picture.                              *)
LEMMA InitPicture ==
    ASSUME Init
    PROVE  PInv
<1>1. pc["snapshot"] = None /\ pc["encoder"] = None
      /\ \A t \in Callers : pc[t] \in {"idle", None}
  BY ThreadNames DEF Init
<1> QED BY <1>1 DEF PInv, PictureAgrees, Provided, Undisturbed, PictureInUse, None

(* Every step leaves a picture the memory it needs.                        *)
LEMMA NextPicture ==
    ASSUME PInv, IInv, [Next]_vars
    PROVE  PInv'
<1>1. ASSUME NEW t \in Callers, InCall(t) PROVE PInv'
  <2> USE <1>1
  <2>1. CASE \/ lock(t) \/ leave(t) \/ setMessages(t) \/ startRecording(t)
             \/ startPreviewInternal(t) \/ waitFrameThread(t) \/ waitSnapshotMode(t)
             \/ allocPreviewHeap(t) \/ nativeStart(t) \/ started(t) \/ undoStart(t)
    BY <2>1, StartPicture
  <2>2. CASE \/ stopPreview(t) \/ stopPreviewInternal(t) \/ lockTimeout(t) \/ nativeStop(t)
             \/ stopped(t) \/ stopEnd(t) \/ cancelAutoFocus(t) \/ cancelAutoFocusInternal(t)
             \/ giveUp(t) \/ setSnapshotMode(t)
    BY <2>2, StopPicture
  <2>3. CASE createFrameThread(t) \/ autoFocus(t) \/ stopRecording(t) \/ release(t)
    BY <2>3, ForkPicture, SignalPicture
  <2>4. CASE takePicture(t) \/ initPicture(t) \/ createSnapshotThread(t)
    BY <2>4, takePicturePicture, initPicturePicture, createSnapshotThreadPicture
  <2>5. CASE joinEncoder(t) \/ releaseRaw(t) \/ exitCamera(t)
    BY <2>5, joinEncoderPicture, releaseRawPicture
  <2> QED BY <2>1, <2>2, <2>3, <2>4, <2>5 DEF InCall
<1>2. CASE \/ \E c \in Calls : enter(c)
           \/ \E f \in Frames : frameArrives(f) \/ InFrame(f)
           \/ InAutoFocus
  BY <1>2, OtherPicture
<1>3. CASE releaseRecordingFrame \/ UNCHANGED vars \/ \E f \in Frames : receive_camframetimeout(f)
  BY <1>3, StillPicture
<1>4. CASE InSnapshot
  BY <1>4, startSnapshotPicture, receiveRawPicturePicture, encodePicture,
     native_jpeg_encodePicture, receiveRawSnapshotPicture, FreesPicture, returnPicture
  DEF InSnapshot
<1>5. CASE InEncoder
  BY <1>5, EncoderPicture
<1> QED BY <1>1, <1>2, <1>3, <1>4, <1>5 DEF Next, Callers

(* Whoever uses a picture, the encoder or a callback, finds its memory:    *)
(* whatever fails, whatever messages come and go, and whoever calls what,  *)
(* but after a release() that does not wait for the picture.               *)
THEOREM PictureOutlivesEncoder == Spec => []PictureInUse
<1>1. PInv => PictureInUse
  BY DEF PInv
<1>2. Init => PInv
  BY InitPicture
<1>3. PInv /\ IInv /\ [Next]_vars => PInv'
  BY NextPicture
<1> QED BY <1>1, <1>2, <1>3, InductiveInvariant, PTL DEF Spec
-----------------------------------------------------------------------------
(* The order of the locks.  Besides mLock and mCameraRunningLock, which    *)
(* IInv knows, five locks are taken, some within others.                   *)

(* A thread may be waiting for a lock.  cancelAutoFocus() and the focus    *)
(* thread try mAfLock and do not wait for it.                              *)
Waits(t, l) ==
    \/ l = "mLock" /\ pc[t] = "enter"
    \/ l = "mSnapshotThreadWaitLock" /\ pc[t] = "take"
    \/ l = "mCamframeTimeoutLock" /\ pc[t] \in {"lock_timeout", "loop"}
    \/ l = "mAutoFocusThreadLock" /\ pc[t] \in {"auto_focus", "af_start"}
    \/ l = "mCameraRunningLock" /\ pc[t] \in {"native_start", "native_stop", "af_lock"}
    \/ l = "mCallbackLock" /\ pc[t] \in {"mask", "raw_picture", "raw_snapshot", "jpeg_done"}

(* Threads that wait for one another: no set of threads is such that each  *)
(* of them waits for a lock that one of them has.                          *)
NoCircle ==
    \A S \in (SUBSET Threads) \ {{}} :
        \E t \in S : \A l \in Locks : Waits(t, l) => held[l] \notin S

(* Within receiveRawPicture() and receiveRawSnapshot().                    *)
RawPlaces == {"crop", "raw_callback", "encode", "native_encode", "raw_deinit", "raw_return",
              "snapshot_callback"}

(* Where thread t has lock l: at place p, in call c.                       *)
Within(l, t, p, c) ==
    \/ /\ l = "mSnapshotThreadWaitLock" /\ t \in Callers /\ c = "takePicture"
       /\ p \in {"raw", "create_snapshot", "give_up"} \cup StopPlaces
    \/ /\ l = "mCamframeTimeoutLock" /\ t \in Callers
       /\ p \in {"native_stop", "stopped", "not_stopped", "deinit"}
    \/ l = "mAfLock" /\ t \in Callers /\ p = "cancel_unlock"
    \/ l = "mAfLock" /\ t = "af" /\ p \in {"af_lock", "focusing", "af_unlock"}
    \/ l = "mAutoFocusThreadLock" /\ t = "af" /\ p \in FocusPlaces \ {"af_start"}
    \/ l = "mCallbackLock" /\ t = "snapshot" /\ p \in RawPlaces

Nested == Locks \ {"mLock", "mCameraRunningLock"}

(* No thread has one of these anywhere else.                               *)
HeldWhere ==
    /\ \A l \in Nested, t \in Threads : held[l] = t => Within(l, t, pc[t], call[t])
    /\ \A t \in Callers : pc[t] \in TakePlaces => call[t] = "takePicture"

(* What a step of one thread has to see to.                                *)
LEMMA HoldStep ==
    ASSUME IInv, HeldWhere, NEW t \in Threads,
           held' \in [Locks -> Threads \cup {None}],
           \A l \in Nested : held'[l] \in {held[l], t, None},
           \A u \in Threads \ {t} : /\ Same(u) \/ pc[u] = None \/ u = "encoder"
                                    /\ u \in Callers => pc'[u] \notin TakePlaces \/ Same(u)
                                    /\ call'[u] = call[u],
           \A l \in Nested : held'[l] = t => Within(l, t, pc'[t], call'[t]),
           t \in Callers /\ pc'[t] \in TakePlaces => call'[t] = "takePicture"
    PROVE  HeldWhere'
<1>1. ASSUME NEW l \in Nested, NEW u \in Threads, held'[l] = u, u # t
      PROVE  Within(l, u, pc'[u], call'[u])
  <2>1. held[l] = u
    BY <1>1, CallersAreThreads DEF Threads, None
  <2>2. Within(l, u, pc[u], call[u])
    BY <2>1 DEF HeldWhere
  <2>3. pc[u] \notin {None, "rec_wait"} /\ u # "encoder"
    BY <2>2 DEF Within, Callers, Frames, StopPlaces, RunPlaces, FocusPlaces, RawPlaces, None
  <2> QED BY <1>1, <2>2, <2>3 DEF Same
<1>2. ASSUME NEW u \in Callers, u # t, pc'[u] \in TakePlaces
      PROVE  call'[u] = "takePicture"
  <2>1. u \in Threads /\ Same(u) /\ "rec_woken" \notin TakePlaces
    BY <1>2, CallersAreThreads DEF TakePlaces
  <2> QED BY <1>2, <2>1 DEF HeldWhere, Same
<1> QED BY <1>1, <1>2 DEF HeldWhere

(* A step that goes from one place to another and takes and drops no lock. *)
LEMMA HoldGoto ==
    ASSUME IInv, HeldWhere, NEW t \in Threads, NEW from, NEW to, Goto(t, from, to),
           UNCHANGED <<held, call>>,
           \A l \in Nested : Within(l, t, from, call[t]) => Within(l, t, to, call[t]),
           t \in Callers /\ to \in TakePlaces => from \in TakePlaces \/ call[t] = "takePicture"
    PROVE  HeldWhere'
<1>1. /\ pc[t] = from /\ pc'[t] = to /\ call' = call /\ held' = held
      /\ \A u \in Threads \ {t} : pc'[u] = pc[u]
  BY DEF Goto, At, IInv, TypesCorrect, PlacesCorrect
<1>2. held' \in [Locks -> Threads \cup {None}]
  BY DEF IInv, TypesCorrect
<1>3. \A l \in Nested : held[l] = t => Within(l, t, from, call[t])
  BY <1>1 DEF HeldWhere
<1>4. t \in Callers /\ from \in TakePlaces => call[t] = "takePicture"
  BY <1>1 DEF HeldWhere
<1> QED BY <1>1, <1>2, <1>3, <1>4, HoldStep DEF Same

(* A caller has none of the inner locks outside taking and stopping.       *)
LEMMA CallerHasNone ==
    ASSUME NEW t \in Callers, NEW p, p \notin {"raw", "create_snapshot", "give_up"} \cup StopPlaces
    PROVE  \A l, c : ~Within(l, t, p, c)
<1>1. {"native_stop", "stopped", "not_stopped", "deinit", "cancel_unlock"} \subseteq StopPlaces
      /\ t # "af" /\ t # "snapshot"
  BY CallersAreThreads DEF StopPlaces, RunPlaces
<1> QED BY <1>1 DEF Within

(* Calls that take no inner lock.                                          *)
LEMMA FreeGoto ==
    ASSUME IInv, HeldWhere, NEW t \in Callers, NEW from, NEW to, Goto(t, from, to),
           UNCHANGED <<held, call>>,
           from \notin {"raw", "create_snapshot", "give_up"} \cup StopPlaces,
           to \in TakePlaces => from \in TakePlaces \/ call[t] = "takePicture"
    PROVE  HeldWhere'
BY HoldGoto, CallerHasNone, CallersAreThreads

(* Which places those are.                                                 *)
LEMMA FreeNames ==
    /\ {"messages", "rec_start", "start", "wait_frame", "wait_snapshot", "heap", "create",
        "undo_start", "stop_check", "rec_stop", "release", "join", "deinit_raw", "exit",
        "auto_focus", "cancel_check", "set_mode", "loop", "received", "mask", "pcb", "rcb",
        "rec_check", "rec_wait", "rec_woken", "ended", "native_start", "started",
        "not_started", "enter"}
        \cap ({"raw", "create_snapshot", "give_up"} \cup StopPlaces) = {}
    /\ {"leave", "start", "native_start", "wait_frame", "wait_snapshot", "heap", "create",
        "stop", "join", "deinit_raw", "exit", "cancel", "lock_timeout", "loop", "received",
        "mask", "pcb", "rcb", "rec_check", "rec_wait", "rec_woken", "ended",
        "undo_start"} \cap TakePlaces = {}
BY DEF StopPlaces, RunPlaces, TakePlaces

(* What is said of these places, once a thread has come to another.       *)
LEMMA StartHold ==
    ASSUME IInv, HeldWhere, NEW t \in Callers,
           \/ setMessages(t) \/ startRecording(t) \/ startPreviewInternal(t) \/ waitFrameThread(t)
           \/ waitSnapshotMode(t) \/ allocPreviewHeap(t) \/ undoStart(t) \/ stopPreview(t)
           \/ joinEncoder(t) \/ releaseRaw(t) \/ exitCamera(t) \/ cancelAutoFocus(t)
           \/ setSnapshotMode(t)
    PROVE  HeldWhere'
<1>1. UNCHANGED <<held, call>>
  BY DEF setMessages, startRecording, startPreviewInternal, waitFrameThread, waitSnapshotMode,
     allocPreviewHeap, undoStart, stopPreview, joinEncoder, releaseRaw, exitCamera,
     cancelAutoFocus, setSnapshotMode, client
<1>2. PICK from \in {"messages", "rec_start", "start", "wait_frame", "wait_snapshot", "heap",
                     "undo_start", "stop_check", "join", "deinit_raw", "exit", "cancel_check",
                     "set_mode"},
           to \in {"leave", "start", "native_start", "wait_frame", "wait_snapshot", "heap",
                   "create", "stop", "deinit_raw", "exit", "cancel"} : Goto(t, from, to)
  BY DEF setMessages, startRecording, startPreviewInternal, waitFrameThread, waitSnapshotMode,
     allocPreviewHeap, undoStart, stopPreview, joinEncoder, releaseRaw, exitCamera,
     cancelAutoFocus, setSnapshotMode
<1> QED BY <1>1, <1>2, FreeGoto, FreeNames

(* mRecordWait.signal() moves a frame thread as well.                      *)
LEMMA SignalHold ==
    ASSUME IInv, HeldWhere, NEW t \in Callers, stopRecording(t) \/ release(t)
    PROVE  HeldWhere'
<1>1. UNCHANGED <<held, call>>
  BY DEF stopRecording, release, client
<1>2. PICK from \in {"rec_stop", "release"}, to \in {"leave", "stop", "join"} :
         pc[t] = from /\ (Goto(t, from, to) \/ pc' = Signal([pc EXCEPT ![t] = to]))
  BY DEF stopRecording, release, Goto, At
<1>3. t \in Threads /\ to \in PlacesOf(t) /\ to # "rec_wait"
  BY CallersAreThreads DEF PlacesOf, CallPlaces, OtherPlaces, StopPlaces, Callers
<1>4. Moves(t, to)
  BY <1>2, <1>3, GotoMoves, SignalMoves DEF IInv
<1>5. \A l, c : ~Within(l, t, from, c)
  BY <1>2, CallerHasNone, FreeNames
<1>6. held' \in [Locks -> Threads \cup {None}]
  BY <1>1 DEF IInv, TypesCorrect
<1>7. \A l \in Nested : held'[l] # t
  BY <1>1, <1>2, <1>3, <1>5 DEF HeldWhere
<1>8. pc'[t] \notin TakePlaces
  BY <1>4, FreeNames DEF Moves
<1> QED BY <1>1, <1>3, <1>4, <1>6, <1>7, <1>8, HoldStep DEF Moves

(* A thread that a call starts has no lock.                                *)
LEMMA ForkHold ==
    ASSUME IInv, HeldWhere, NEW t \in Callers,
           createFrameThread(t) \/ autoFocus(t)
    PROVE  HeldWhere'
<1>1. UNCHANGED <<held, call>>
  BY DEF createFrameThread, autoFocus, client
<1>2. CASE \E from \in {"create", "auto_focus"} : Goto(t, from, "leave")
  BY <1>1, <1>2, FreeGoto, FreeNames
<1>3. CASE createFrameThread(t) /\ Fork(t, "create", "native_start", mPreviewHeap, "loop")
  <2>1. pc[t] = "create" /\ "create" \in AllocPlaces
    BY <1>3 DEF Fork, At, AllocPlaces
  <2>2. mPreviewHeap \in Frames /\ NoFrame
    BY <2>1 DEF IInv, Claims
  <2>3. t \in Threads /\ mPreviewHeap \in Callers
    BY <2>2, CallersAreThreads
  <2>4. mPreviewHeap # t
    BY <2>1, <2>2 DEF NoFrame, None
  <2>5. /\ pc'[t] = "native_start" /\ pc[mPreviewHeap] = None /\ pc'[mPreviewHeap] = "loop"
        /\ \A u \in Threads \ {t, mPreviewHeap} : pc'[u] = pc[u]
    BY <1>3, <2>2, <2>3, <2>4, CallersAreThreads
       DEF Fork, IInv, TypesCorrect, PlacesCorrect, NoFrame
  <2>6. \A l, c : ~Within(l, t, "create", c)
    BY CallerHasNone, FreeNames
  <2>7. held' \in [Locks -> Threads \cup {None}]
    BY <1>1 DEF IInv, TypesCorrect
  <2>8. \A l \in Nested : held'[l] # t
    BY <1>1, <2>1, <2>3, <2>6 DEF HeldWhere
  <2> QED BY <1>1, <2>3, <2>5, <2>7, <2>8, FreeNames, HoldStep DEF Same
<1>4. CASE autoFocus(t) /\ Fork(t, "auto_focus", "leave", "af", "af_start")
           /\ ~mAutoFocusThreadRunning
  <2>1. t \in Threads /\ t # "af" /\ pc["af"] = None
    BY <1>4, CallersAreThreads DEF IInv, FocusAgrees
  <2>2. /\ pc[t] = "auto_focus" /\ pc'[t] = "leave"
        /\ \A u \in Threads \ {t, "af"} : pc'[u] = pc[u]
    BY <1>4, <2>1 DEF Fork, At, IInv, TypesCorrect, PlacesCorrect
  <2>3. \A l, c : ~Within(l, t, "auto_focus", c)
    BY CallerHasNone, FreeNames
  <2>4. held' \in [Locks -> Threads \cup {None}]
    BY <1>1 DEF IInv, TypesCorrect
  <2>5. \A l \in Nested : held'[l] # t
    BY <1>1, <2>1, <2>2, <2>3 DEF HeldWhere
  <2> QED BY <1>1, <2>1, <2>2, <2>4, <2>5, FreeNames, CallersAreThreads, HoldStep DEF Same
<1> QED BY <1>2, <1>3, <1>4 DEF createFrameThread, autoFocus

(* Taking and dropping a lock.                                             *)
LEMMA LockGoto ==
    ASSUME IInv, HeldWhere, NEW t \in Threads, NEW from, NEW to, Goto(t, from, to),
           NEW ls, (Acquire(t, ls) /\ ls \in Locks) \/ Drop(t, ls) \/ UNCHANGED held,
           \A u \in Threads \ {t} : call'[u] = call[u],
           \A l \in Nested : held'[l] = t => Within(l, t, to, call'[t]),
           t \in Callers /\ to \in TakePlaces => call'[t] = "takePicture"
    PROVE  HeldWhere'
<1>1. /\ pc[t] = from /\ pc'[t] = to
      /\ \A u \in Threads \ {t} : pc'[u] = pc[u]
  BY DEF Goto, At, IInv, TypesCorrect, PlacesCorrect
<1>2. /\ held' \in [Locks -> Threads \cup {None}]
      /\ \A l \in Nested : held'[l] \in {held[l], t, None}
  <2>1. Nested \subseteq Locks /\ held \in [Locks -> Threads \cup {None}]
    BY DEF Nested, IInv, TypesCorrect
  <2>2. CASE Acquire(t, ls) /\ ls \in Locks
    BY <2>1, <2>2 DEF Acquire
  <2>3. CASE Drop(t, ls)
    BY <2>1, <2>3 DEF Drop
  <2> QED BY <2>1, <2>2, <2>3
<1> QED BY <1>1, <1>2, HoldStep DEF Same

(* mLock comes before a call and goes after it.                            *)
LEMMA EnterHold ==
    ASSUME IInv, HeldWhere, NEW t \in Callers, lock(t) \/ leave(t)
    PROVE  HeldWhere'
<1>1. t \in Threads /\ "mLock" \in Locks /\ "mLock" \notin Nested
  BY CallersAreThreads DEF Locks, Nested
<1>2. "enter" \notin {"raw", "create_snapshot", "give_up"} \cup StopPlaces
      /\ "leave" \notin {"raw", "create_snapshot", "give_up"} \cup StopPlaces
  BY DEF StopPlaces, RunPlaces
<1>3. \A l, c : ~Within(l, t, "enter", c) /\ ~Within(l, t, "leave", c)
  BY <1>2, CallerHasNone
<1>4. CASE lock(t)
  <2>1. Goto(t, "enter", First(call[t])) /\ Acquire(t, "mLock") /\ UNCHANGED call
    BY <1>4 DEF lock, client
  <2>2. pc[t] = "enter"
    BY <2>1 DEF Goto, At
  <2>3. \A l \in Nested : held'[l] # t
    BY <1>1, <1>3, <2>1, <2>2 DEF HeldWhere, Acquire, IInv, TypesCorrect, Nested
  <2>4. First(call[t]) \in TakePlaces => call[t] = "takePicture"
    BY DEF First, TakePlaces
  <2> QED BY <1>1, <2>1, <2>3, <2>4, LockGoto
<1>5. CASE leave(t)
  <2>1. PICK to \in {"rcb", "idle"} : Goto(t, "leave", to) /\ Drop(t, {"mLock"})
    BY <1>5 DEF leave
  <2>2. call' = [call EXCEPT ![t] = None]
    BY <1>5 DEF leave
  <2>3. \A l \in Nested : held'[l] # t
    BY <1>1, <1>3, <2>1 DEF HeldWhere, Drop, IInv, TypesCorrect, Nested, Goto, At
  <2>4. to \notin TakePlaces
    BY DEF TakePlaces
  <2>5. \A u \in Threads \ {t} : call'[u] = call[u]
    BY <2>2 DEF IInv, TypesCorrect
  <2> QED BY <1>1, <2>1, <2>3, <2>4, <2>5, LockGoto
<1> QED BY <1>4, <1>5

(* mCameraRunningLock is held over a call of the driver.                   *)
LEMMA DriverHold ==
    ASSUME IInv, HeldWhere, NEW t \in Callers, nativeStart(t) \/ started(t)
    PROVE  HeldWhere'
<1>1. t \in Threads /\ "mCameraRunningLock" \in Locks \ Nested
  BY CallersAreThreads DEF Locks, Nested
<1>2. PICK from \in {"native_start", "started", "not_started"},
           to \in {"started", "not_started", "leave", "undo_start"} : Goto(t, from, to)
  BY DEF nativeStart, started
<1>3. Acquire(t, "mCameraRunningLock") \/ Drop(t, {"mCameraRunningLock"})
  BY DEF nativeStart, started
<1>4. \A l, c : ~Within(l, t, from, c)
  BY CallerHasNone, FreeNames
<1>5. \A l \in Nested : held'[l] # t
  BY <1>1, <1>2, <1>3, <1>4 DEF HeldWhere, Acquire, Drop, IInv, TypesCorrect, Nested, Goto, At
<1>6. to \notin TakePlaces /\ UNCHANGED call
  BY FreeNames DEF TakePlaces, nativeStart, started, client
<1> QED BY <1>1, <1>2, <1>3, <1>5, <1>6, LockGoto

(* A stop goes from lock to lock.                                          *)
LEMMA StopHold ==
    ASSUME IInv, HeldWhere, NEW t \in Callers,
           \/ stopPreviewInternal(t) \/ lockTimeout(t) \/ nativeStop(t) \/ stopped(t)
           \/ stopEnd(t) \/ cancelAutoFocusInternal(t)
    PROVE  HeldWhere'
<1>1. t \in Threads /\ t # "af" /\ t # "snapshot" /\ Nested \subseteq Locks
      /\ {"mCamframeTimeoutLock", "mCameraRunningLock", "mAfLock"} \subseteq Locks
  BY CallersAreThreads DEF Locks, Nested
<1>2. UNCHANGED call
  BY DEF stopPreviewInternal, lockTimeout, nativeStop, stopped, stopEnd, cancelAutoFocusInternal,
     client
<1>3. \A l \in Nested : held[l] = t => Within(l, t, pc[t], call[t])
  BY <1>1 DEF HeldWhere
<1>4. AfterStop(t) \in TakePlaces => call[t] = "takePicture"
  BY DEF AfterStop, TakePlaces
<1>5. held \in [Locks -> Threads \cup {None}]
  BY DEF IInv, TypesCorrect
<1> USE DEF StopPlaces, RunPlaces
<1>6. CASE stopPreviewInternal(t)
  <2>1. PICK to \in {AfterStop(t), "cancel", "lock_timeout"} : Goto(t, "stop", to)
    BY <1>6 DEF stopPreviewInternal
  <2>2. UNCHANGED held /\ pc[t] = "stop"
    BY <1>6, <2>1 DEF stopPreviewInternal, Goto, At
  <2>3. \A l \in Nested : held'[l] = t => Within(l, t, to, call'[t])
    BY <1>1, <1>2, <1>3, <2>2 DEF Within, AfterStop
  <2>4. to \in TakePlaces => call'[t] = "takePicture"
    BY <1>2, <1>4, FreeNames
  <2> QED BY <1>1, <1>2, <2>1, <2>2, <2>3, <2>4, LockGoto
<1>7. CASE lockTimeout(t)
  <2>1. Goto(t, "lock_timeout", "native_stop") /\ pc[t] = "lock_timeout"
    BY <1>7 DEF lockTimeout, Goto, At
  <2>2. Acquire(t, "mCamframeTimeoutLock")
    BY <1>7 DEF lockTimeout
  <2>3. \A l \in Nested : held'[l] = t => Within(l, t, "native_stop", call'[t])
    BY <1>1, <1>2, <1>3, <1>5, <2>1, <2>2 DEF Within, Acquire
  <2>4. "native_stop" \notin TakePlaces
    BY DEF TakePlaces
  <2> QED BY <1>1, <1>2, <2>1, <2>2, <2>3, <2>4, LockGoto
<1>8. CASE nativeStop(t) \/ stopped(t)
  <2>1. PICK from \in {"native_stop", "stopped", "not_stopped"},
             to \in {"stopped", "not_stopped", "deinit"} : Goto(t, from, to) /\ pc[t] = from
    BY <1>8 DEF nativeStop, stopped, Goto, At
  <2>2. Acquire(t, "mCameraRunningLock") \/ Drop(t, {"mCameraRunningLock"})
    BY <1>8 DEF nativeStop, stopped
  <2>3. \A l \in Nested : held'[l] = t => held[l] = t
    BY <1>1, <1>5, <2>2 DEF Acquire, Drop, Nested, Locks
  <2>4. \A l \in Nested : held'[l] = t => Within(l, t, to, call'[t])
    BY <1>1, <1>2, <1>3, <2>1, <2>3 DEF Within
  <2>5. to \notin TakePlaces
    BY DEF TakePlaces
  <2> QED BY <1>1, <1>2, <2>1, <2>2, <2>4, <2>5, LockGoto
<1>9. CASE stopEnd(t)
  <2>1. Goto(t, "deinit", AfterStop(t)) /\ pc[t] = "deinit"
    BY <1>9 DEF stopEnd, Goto, At
  <2>2. Drop(t, {"mCamframeTimeoutLock"})
    BY <1>9 DEF stopEnd
  <2>3. \A l \in Nested : held'[l] = t => held[l] = t /\ l # "mCamframeTimeoutLock"
    BY <1>1, <1>5, <2>2 DEF Drop, None, Threads, Frames
  <2>4. \A l \in Nested : held'[l] = t => Within(l, t, AfterStop(t), call'[t])
    BY <1>1, <1>2, <1>3, <2>1, <2>3 DEF Within, AfterStop
  <2> QED BY <1>1, <1>2, <1>4, <2>1, <2>2, <2>4, LockGoto
<1>10. CASE cancelAutoFocusInternal(t)
  <2>1. PICK from \in {"cancel", "cancel_unlock"},
             to \in {"cancel_unlock", "leave", "lock_timeout"} :
            Goto(t, from, to) /\ pc[t] = from
    BY <1>10 DEF cancelAutoFocusInternal, Goto, At
  <2>2. Acquire(t, "mAfLock") \/ UNCHANGED held \/ Drop(t, {"mAfLock"})
    BY <1>10 DEF cancelAutoFocusInternal
  <2>3. \A l \in Nested : held'[l] = t => Within(l, t, to, call'[t])
    <3>1. CASE Acquire(t, "mAfLock") /\ Goto(t, "cancel", "cancel_unlock")
      BY <1>1, <1>2, <1>3, <1>5, <2>1, <3>1
         DEF Within, Acquire, Goto, At, IInv, TypesCorrect, PlacesCorrect
    <3>2. CASE UNCHANGED held /\ pc[t] = "cancel"
               /\ to = IF call[t] = "cancelAutoFocus" THEN "leave" ELSE "lock_timeout"
      BY <1>1, <1>2, <1>3, <3>2 DEF Within
    <3>3. CASE Drop(t, {"mAfLock"}) /\ pc[t] = "cancel_unlock"
               /\ to = IF call[t] = "cancelAutoFocus" THEN "leave" ELSE "lock_timeout"
      <4>1. \A l \in Nested : held'[l] = t => held[l] = t /\ l # "mAfLock"
        BY <1>1, <1>5, <3>3 DEF Drop, None, Threads, Frames
      <4> QED BY <1>1, <1>2, <1>3, <3>3, <4>1 DEF Within
    <3>4. pc'[t] = to
      BY <1>1, <2>1 DEF Goto, IInv, TypesCorrect, PlacesCorrect
    <3> QED BY <1>1, <1>10, <2>1, <3>1, <3>2, <3>3, <3>4
            DEF cancelAutoFocusInternal, Goto, At, IInv, TypesCorrect, PlacesCorrect
  <2>4. to \notin TakePlaces
    BY DEF TakePlaces
  <2>5. PICK ls : (ls \in Locks /\ Acquire(t, ls)) \/ Drop(t, ls) \/ UNCHANGED held
    BY <1>1, <2>2
  <2> QED BY <1>1, <1>2, <2>1, <2>3, <2>4, <2>5, LockGoto
<1> QED BY <1>6, <1>7, <1>8, <1>9, <1>10

(* takePicture() has mSnapshotThreadWaitLock until it has made the thread. *)
LEMMA TakeHold ==
    ASSUME IInv, HeldWhere, NEW t \in Callers,
           takePicture(t) \/ giveUp(t) \/ initPicture(t) \/ createSnapshotThread(t)
    PROVE  HeldWhere'
<1>1. t \in Threads /\ t # "af" /\ t # "snapshot" /\ Nested \subseteq Locks
      /\ "mSnapshotThreadWaitLock" \in Locks
  BY CallersAreThreads DEF Locks, Nested
<1>2. UNCHANGED call
  BY DEF takePicture, giveUp, initPicture, createSnapshotThread, client
<1>3. /\ \A l \in Nested : held[l] = t => Within(l, t, pc[t], call[t])
      /\ pc[t] \in TakePlaces => call[t] = "takePicture"
  BY <1>1 DEF HeldWhere
<1>4. held \in [Locks -> Threads \cup {None}]
  BY DEF IInv, TypesCorrect
<1>5. {"take", "raw", "create_snapshot", "give_up", "set_mode"} \subseteq TakePlaces
  BY DEF TakePlaces
<1>6. \A c : /\ \A l : Within(l, t, "take", c) => FALSE
            /\ \A l, p : p \in {"raw", "give_up", "create_snapshot"} /\ Within(l, t, p, c) =>
                   l = "mSnapshotThreadWaitLock"
            /\ \A q \in {"stop", "raw", "give_up", "create_snapshot"} :
                   c = "takePicture" => Within("mSnapshotThreadWaitLock", t, q, c)
  BY <1>1 DEF Within, StopPlaces, RunPlaces
<1>7. CASE takePicture(t)
  <2>1. PICK to \in {"stop", "give_up"} : Goto(t, "take", to) /\ pc[t] = "take"
    BY <1>7 DEF takePicture, Goto, At
  <2>2. Acquire(t, "mSnapshotThreadWaitLock")
    BY <1>7 DEF takePicture
  <2>3. \A l \in Nested : held'[l] = t => held[l] = t \/ l = "mSnapshotThreadWaitLock"
    BY <1>1, <1>4, <2>2 DEF Acquire
  <2>5. call'[t] = "takePicture" /\ call[t] = "takePicture"
    BY <1>2, <1>3, <1>5, <2>1
  <2>6. \A l \in Nested : held[l] # t
    BY <1>3, <1>6, <2>1
  <2>4. \A l \in Nested : held'[l] = t => Within(l, t, to, call'[t])
    <3>1. to \in {"stop", "raw", "give_up", "create_snapshot"}
      BY <2>1
    <3>2. Within("mSnapshotThreadWaitLock", t, to, "takePicture")
      BY <1>1, <3>1 DEF Within, StopPlaces, RunPlaces
    <3> QED BY <2>3, <2>5, <2>6, <3>2
  <2> QED BY <1>1, <1>2, <2>1, <2>2, <2>4, <2>5, LockGoto
<1>8. CASE giveUp(t) \/ (createSnapshotThread(t) /\ Goto(t, "create_snapshot", "set_mode"))
  <2>1. PICK from \in {"give_up", "create_snapshot"}, to \in {"leave", "set_mode"} :
            Goto(t, from, to) /\ pc[t] = from
    BY <1>8 DEF giveUp, Goto, At
  <2>2. Drop(t, {"mSnapshotThreadWaitLock"})
    BY <1>8 DEF giveUp, createSnapshotThread
  <2>3. \A l \in Nested : held'[l] = t => held[l] = t /\ l # "mSnapshotThreadWaitLock"
    BY <1>1, <1>4, <2>2 DEF Drop, None, Threads, Frames
  <2>4. \A l \in Nested : held'[l] # t
    BY <1>3, <1>6, <2>1, <2>3
  <2>5. call'[t] = "takePicture"
    BY <1>2, <1>3, <1>5, <2>1
  <2> QED BY <1>1, <1>2, <2>1, <2>2, <2>4, <2>5, LockGoto
<1>9. CASE initPicture(t)
  <2>1. PICK to \in {"create_snapshot", "give_up"} : Goto(t, "raw", to) /\ pc[t] = "raw"
    BY <1>9 DEF initPicture, Goto, At
  <2>2. UNCHANGED held
    BY <1>9 DEF initPicture
  <2>3. call'[t] = "takePicture"
    BY <1>2, <1>3, <1>5, <2>1
  <2>4. \A l \in Nested : held'[l] = t => Within(l, t, to, call'[t])
    BY <1>2, <1>3, <1>6, <2>1, <2>2, <2>3
  <2> QED BY <1>1, <1>2, <2>1, <2>2, <2>3, <2>4, LockGoto
<1>10. CASE createSnapshotThread(t)
            /\ Fork(t, "create_snapshot", "set_mode", "snapshot", "snap_start")
  <2>1. pc[t] = "create_snapshot" /\ pc'[t] = "set_mode"
        /\ \A u \in Threads \ {t, "snapshot"} : pc'[u] = pc[u]
    BY <1>1, <1>10 DEF Fork, At, IInv, TypesCorrect, PlacesCorrect
  <2>2. pc["snapshot"] = None
    BY <2>1 DEF IInv, Claims, Taking
  <2>3. /\ held' \in [Locks -> Threads \cup {None}]
        /\ \A l \in Nested : held'[l] \in {held[l], None}
        /\ \A l \in Nested : held'[l] = t => held[l] = t /\ l # "mSnapshotThreadWaitLock"
    BY <1>1, <1>4, <1>10 DEF createSnapshotThread, Drop, None, Threads, Frames
  <2>4. \A l \in Nested : held'[l] # t
    BY <1>3, <1>6, <2>1, <2>3
  <2>5. call'[t] = "takePicture"
    BY <1>2, <1>3, <1>5, <2>1
  <2>6. \A u \in Threads \ {t} :
            /\ Same(u) \/ pc[u] = None \/ u = "encoder"
            /\ u \in Callers => pc'[u] \notin TakePlaces \/ Same(u)
            /\ call'[u] = call[u]
    BY <1>2, <2>1, <2>2, CallersAreThreads DEF Same, Callers, Frames
  <2>7. /\ \A l \in Nested : held'[l] \in {held[l], t, None}
        /\ \A l \in Nested : held'[l] = t => Within(l, t, pc'[t], call'[t])
    BY <2>3, <2>4
  <2> QED BY <1>1, <2>3, <2>5, <2>6, <2>7, HoldStep
<1>11. createSnapshotThread(t) =>
           \/ Fork(t, "create_snapshot", "set_mode", "snapshot", "snap_start")
           \/ Goto(t, "create_snapshot", "set_mode")
  BY DEF createSnapshotThread
<1> QED BY <1>7, <1>8, <1>9, <1>10, <1>11

(* The frame thread takes no inner lock for longer than a step.            *)
LEMMA FrameHold ==
    ASSUME IInv, HeldWhere, NEW f \in Frames, frameArrives(f) \/ InFrame(f)
    PROVE  HeldWhere'
<1>1. f \in Callers /\ f \in Threads
  BY CallersAreThreads
<1>2. PICK from \in {"loop", "received", "mask", "pcb", "rcb", "rec_check", "rec_wait", "rec_woken",
                     "ended", "cleared"},
           to \in {"loop", "received", "mask", "pcb", "rcb", "rec_check", "rec_wait", "rec_woken",
                   "ended", "cleared", "enter", None} : Goto(f, from, to)
  BY DEF frameArrives, InFrame, receivePreviewFrame, copyMask, previewCallback, recordCallback,
     waitRecorder, frameLoopEnds, endFrameThread
<1>3. UNCHANGED held /\ \A u \in Threads \ {f} : call'[u] = call[u]
  BY DEF frameArrives, InFrame, receivePreviewFrame, copyMask, previewCallback, recordCallback,
     waitRecorder, frameLoopEnds, endFrameThread, client, IInv, TypesCorrect
<1>4. \A l \in Nested : held'[l] # f
  <2>1. from \notin {"raw", "create_snapshot", "give_up"} \cup StopPlaces
    BY DEF StopPlaces, RunPlaces
  <2>2. \A l, c : ~Within(l, f, from, c)
    BY <1>1, <2>1, CallerHasNone
  <2> QED BY <1>1, <1>2, <1>3, <2>2 DEF HeldWhere, Goto, At
<1>5. to \notin TakePlaces
  BY DEF TakePlaces, None
<1> QED BY <1>1, <1>2, <1>3, <1>4, <1>5, LockGoto

(* Nor does the service between its calls, or who is woken.                *)
LEMMA OutsideHold ==
    ASSUME IInv, HeldWhere,
           \/ \E c \in Calls : enter(c)
           \/ releaseRecordingFrame \/ UNCHANGED vars
           \/ \E f \in Frames : receive_camframetimeout(f)
    PROVE  HeldWhere'
<1>1. "app" \in Threads /\ "app" \in Callers
  BY CallersAreThreads
<1>2. held \in [Locks -> Threads \cup {None}]
  BY DEF IInv, TypesCorrect
<1>3. ASSUME NEW c \in Calls, enter(c) PROVE HeldWhere'
  <2>1. Goto("app", "idle", "enter") /\ UNCHANGED held
    BY <1>3 DEF enter
  <2>2. \A u \in Threads \ {"app"} : call'[u] = call[u]
    BY <1>3 DEF enter, IInv, TypesCorrect
  <2>3. "idle" \notin {"raw", "create_snapshot", "give_up"} \cup StopPlaces
        /\ "enter" \notin TakePlaces
    BY DEF StopPlaces, RunPlaces, TakePlaces
  <2>4. \A l \in Nested : held'[l] # "app"
    BY <1>1, <2>1, <2>3, CallerHasNone DEF HeldWhere, Goto, At
  <2> QED BY <1>1, <2>1, <2>2, <2>3, <2>4, LockGoto
<1>4. CASE releaseRecordingFrame
  <2>1. UNCHANGED <<held, call>> /\ \A u \in Threads : Same(u)
    BY <1>4 DEF releaseRecordingFrame, Signal, Same, client
  <2>2. "rec_wait" \notin StopPlaces \cup FocusPlaces \cup RawPlaces
        /\ "rec_woken" \notin TakePlaces
    BY DEF StopPlaces, RunPlaces, FocusPlaces, RawPlaces, TakePlaces
  <2>3. \A l, t, c : ~Within(l, t, "rec_wait", c)
    BY <2>2 DEF Within
  <2> QED BY <2>1, <2>2, <2>3, CallersAreThreads DEF HeldWhere, Same
<1>5. CASE UNCHANGED vars \/ \E f \in Frames : receive_camframetimeout(f)
  BY <1>5 DEF vars, receive_camframetimeout, client, HeldWhere
<1> QED BY <1>3, <1>4, <1>5

(* The focus thread has mAutoFocusThreadLock, and mAfLock within it.       *)
LEMMA FocusHold ==
    ASSUME IInv, HeldWhere, InAutoFocus
    PROVE  HeldWhere'
<1>1. /\ "af" \in Threads /\ "af" \notin Callers /\ Nested \subseteq Locks
      /\ {"mAutoFocusThreadLock", "mAfLock", "mCameraRunningLock"} \subseteq Locks
      /\ "mCameraRunningLock" \notin Nested
  BY CallersNamed DEF Threads, Locks, Nested
<1>2. UNCHANGED call
  BY DEF InAutoFocus, runAutoFocus, tryAutoFocus, startAutoFocus, unlockAutoFocus, autoFocusDone,
     client
<1>3. \A l \in Nested : held[l] = "af" => Within(l, "af", pc["af"], call["af"])
  BY <1>1 DEF HeldWhere
<1>4. held \in [Locks -> Threads \cup {None}] /\ None # "af"
  BY DEF IInv, TypesCorrect, None
<1>5. \A l, p, c : Within(l, "af", p, c) <=>
          \/ l = "mAfLock" /\ p \in {"af_lock", "focusing", "af_unlock"}
          \/ /\ l = "mAutoFocusThreadLock"
             /\ p \in {"af_try", "af_lock", "focusing", "af_unlock", "af_done"}
  BY <1>1 DEF Within, FocusPlaces
<1>6. CASE runAutoFocus
  <2>1. PICK to \in {"af_try", "af_done", None} :
            Goto("af", "af_start", to) /\ pc["af"] = "af_start"
    BY <1>6 DEF runAutoFocus, Goto, At
  <2>2. \A l \in Nested : held[l] # "af"
    BY <1>3, <1>5, <2>1
  <2>3. CASE Acquire("af", "mAutoFocusThreadLock") /\ to # None
    <3>1. \A l \in Nested : held'[l] = "af" => l = "mAutoFocusThreadLock"
      BY <1>1, <1>4, <2>2, <2>3 DEF Acquire
    <3>2. \A l \in Nested : held'[l] = "af" => Within(l, "af", to, call'["af"])
      BY <1>5, <2>1, <2>3, <3>1
    <3> QED BY <1>1, <1>2, <2>1, <2>3, <3>2, LockGoto
  <2>4. CASE UNCHANGED held
    BY <1>1, <1>2, <2>1, <2>2, <2>4, LockGoto
  <2>5. pc'["af"] = to
    BY <1>1, <2>1 DEF Goto, IInv, TypesCorrect, PlacesCorrect
  <2>6. \/ UNCHANGED held
        \/ Acquire("af", "mAutoFocusThreadLock") /\ pc'["af"] \in {"af_try", "af_done"}
    BY <1>1, <1>6 DEF runAutoFocus, Goto, IInv, TypesCorrect, PlacesCorrect
  <2> QED BY <2>3, <2>4, <2>5, <2>6 DEF None
<1>7. CASE tryAutoFocus
  <2>1. pc["af"] = "af_try"
    BY <1>7 DEF tryAutoFocus, Goto, At
  <2>2. \A l \in Nested : held[l] = "af" => l = "mAutoFocusThreadLock"
    BY <1>3, <1>5, <2>1
  <2>3. CASE Acquire("af", "mAfLock") /\ Goto("af", "af_try", "af_lock")
    <3>1. \A l \in Nested : held'[l] = "af" => l \in {"mAutoFocusThreadLock", "mAfLock"}
      BY <1>1, <1>4, <2>2, <2>3 DEF Acquire
    <3>2. \A l \in Nested : held'[l] = "af" => Within(l, "af", "af_lock", call'["af"])
      BY <1>5, <3>1
    <3> QED BY <1>1, <1>2, <2>3, <3>2, LockGoto
  <2>4. CASE Goto("af", "af_try", "af_done") /\ UNCHANGED held
    <3>1. \A l \in Nested : held'[l] = "af" => Within(l, "af", "af_done", call'["af"])
      BY <1>5, <2>2, <2>4
    <3> QED BY <1>1, <1>2, <2>4, <3>1, LockGoto
  <2> QED BY <1>7, <2>3, <2>4 DEF tryAutoFocus
<1>8. CASE startAutoFocus
  <2>1. PICK to \in {"focusing", "af_unlock"} : Goto("af", "af_lock", to) /\ pc["af"] = "af_lock"
    BY <1>8 DEF startAutoFocus, Goto, At
  <2>2. Acquire("af", "mCameraRunningLock")
    BY <1>8 DEF startAutoFocus
  <2>3. \A l \in Nested : held'[l] = "af" => held[l] = "af"
    BY <1>1, <1>4, <2>2 DEF Acquire
  <2>4. \A l \in Nested : held'[l] = "af" => Within(l, "af", to, call'["af"])
    BY <1>3, <1>5, <2>1, <2>3
  <2> QED BY <1>1, <1>2, <2>1, <2>2, <2>4, LockGoto
<1>9. CASE unlockAutoFocus
  <2>1. PICK from \in {"focusing", "af_unlock"} : Goto("af", from, "af_done") /\ pc["af"] = from
    BY <1>9 DEF unlockAutoFocus, Goto, At
  <2>2. Drop("af", {"mCameraRunningLock", "mAfLock"})
    BY <1>9 DEF unlockAutoFocus
  <2>3. \A l \in Nested : held'[l] = "af" => held[l] = "af" /\ l # "mAfLock"
    BY <1>1, <1>4, <2>2 DEF Drop
  <2>4. \A l \in Nested : held'[l] = "af" => Within(l, "af", "af_done", call'["af"])
    BY <1>3, <1>5, <2>1, <2>3
  <2> QED BY <1>1, <1>2, <2>1, <2>2, <2>4, LockGoto
<1>10. CASE autoFocusDone
  <2>1. Goto("af", "af_done", None) /\ pc["af"] = "af_done" /\ Drop("af", {"mAutoFocusThreadLock"})
    BY <1>10 DEF autoFocusDone, Goto, At
  <2>2. \A l \in Nested : held'[l] = "af" => held[l] = "af" /\ l # "mAutoFocusThreadLock"
    BY <1>1, <1>4, <2>1 DEF Drop
  <2>3. \A l \in Nested : held'[l] # "af"
    BY <1>3, <1>5, <2>1, <2>2
  <2> QED BY <1>1, <1>2, <2>1, <2>3, LockGoto
<1> QED BY <1>6, <1>7, <1>8, <1>9, <1>10 DEF InAutoFocus

(* receiveRawPicture() has mCallbackLock until it returns, and so has      *)
(* receiveRawSnapshot().                                                   *)
LEMMA SnapshotHold ==
    ASSUME IInv, HeldWhere, InSnapshot
    PROVE  HeldWhere'
<1>1. /\ "snapshot" \in Threads /\ "snapshot" \notin Callers /\ Nested \subseteq Locks
      /\ "mCallbackLock" \in Locks
  BY DEF Threads, Locks, Nested, Callers, Frames
<1>2. UNCHANGED call
  BY DEF InSnapshot, startSnapshot, receiveRawPicture, cropPicture, rawCallback, encode,
     native_jpeg_encode, rawDeinit, rawReturn, receiveRawSnapshot, snapshotCallback,
     leaveSnapshotMode, waitEncoder, joinSnapshot, endSnapshotThread, client
<1>3. \A l \in Nested : held[l] = "snapshot" =>
          Within(l, "snapshot", pc["snapshot"], call["snapshot"])
  BY <1>1 DEF HeldWhere
<1>4. held \in [Locks -> Threads \cup {None}] /\ None # "snapshot"
  BY DEF IInv, TypesCorrect, None
<1>5. \A l, p, c : Within(l, "snapshot", p, c) <=> l = "mCallbackLock" /\ p \in RawPlaces
  BY <1>1 DEF Within
<1>6. CASE receiveRawPicture \/ (receiveRawSnapshot /\ Acquire("snapshot", "mCallbackLock")
                                 /\ Goto("snapshot", "raw_snapshot", "snapshot_callback"))
  <2>1. PICK from \in {"raw_picture", "raw_snapshot"}, to \in RawPlaces :
            Goto("snapshot", from, to) /\ pc["snapshot"] = from
    BY <1>6 DEF receiveRawPicture, Goto, At, RawPlaces
  <2>2. Acquire("snapshot", "mCallbackLock")
    BY <1>6 DEF receiveRawPicture
  <2>3. from \notin RawPlaces
    BY DEF RawPlaces
  <2>4. \A l \in Nested : held'[l] = "snapshot" => l = "mCallbackLock"
    BY <1>1, <1>3, <1>4, <1>5, <2>1, <2>2, <2>3 DEF Acquire
  <2>5. \A l \in Nested : held'[l] = "snapshot" => Within(l, "snapshot", to, call'["snapshot"])
    BY <1>5, <2>1, <2>4
  <2> QED BY <1>1, <1>2, <2>1, <2>2, <2>5, LockGoto
<1>7. CASE /\ native_jpeg_encode
           /\ Fork("snapshot", "native_encode", "raw_return", "encoder", "encoding")
  <2>1. UNCHANGED held
    BY <1>7 DEF native_jpeg_encode
  <2>2. /\ pc["snapshot"] = "native_encode" /\ pc'["snapshot"] = "raw_return"
        /\ \A u \in Threads \ {"snapshot"} : u = "encoder" \/ pc'[u] = pc[u]
    BY <1>1, <1>7 DEF Fork, At, IInv, TypesCorrect, PlacesCorrect
  <2>3. "native_encode" \in RawPlaces /\ "raw_return" \in RawPlaces
    BY DEF RawPlaces
  <2>4. /\ \A l \in Nested : held'[l] \in {held[l], "snapshot", None}
        /\ \A l \in Nested : held'[l] = "snapshot" =>
               Within(l, "snapshot", pc'["snapshot"], call'["snapshot"])
    BY <1>3, <1>5, <2>1, <2>2, <2>3
  <2>5. \A u \in Threads \ {"snapshot"} :
            /\ Same(u) \/ pc[u] = None \/ u = "encoder"
            /\ u \in Callers => pc'[u] \notin TakePlaces \/ Same(u)
            /\ call'[u] = call[u]
    BY <1>2, <2>2 DEF Same, Callers, Frames
  <2> QED BY <1>1, <1>4, <2>1, <2>4, <2>5, HoldStep
<1>8. CASE cropPicture \/ rawCallback \/ encode \/ rawDeinit
           \/ (native_jpeg_encode /\ Goto("snapshot", "native_encode", "raw_deinit"))
  <2>1. PICK from \in RawPlaces, to \in RawPlaces : Goto("snapshot", from, to)
    BY <1>8 DEF cropPicture, rawCallback, encode, rawDeinit, RawPlaces
  <2>2. UNCHANGED held
    BY <1>8 DEF cropPicture, rawCallback, encode, rawDeinit, native_jpeg_encode
  <2>3. \A l \in Nested : Within(l, "snapshot", from, call["snapshot"]) =>
                          Within(l, "snapshot", to, call["snapshot"])
    BY <1>5
  <2> QED BY <1>1, <1>2, <2>1, <2>2, <2>3, HoldGoto
<1>9. CASE rawReturn \/ snapshotCallback
  <2>1. PICK from \in {"raw_return", "snapshot_callback"} :
            Goto("snapshot", from, "snap_mode") /\ Drop("snapshot", {"mCallbackLock"})
    BY <1>9 DEF rawReturn, snapshotCallback
  <2>2. \A l \in Nested : held'[l] = "snapshot" => held[l] = "snapshot" /\ l # "mCallbackLock"
    BY <1>1, <1>4, <2>1 DEF Drop
  <2>3. \A l \in Nested : held'[l] # "snapshot"
    BY <1>3, <1>5, <2>2
  <2> QED BY <1>1, <1>2, <2>1, <2>3, LockGoto
<1>10. CASE \/ startSnapshot \/ leaveSnapshotMode \/ waitEncoder \/ joinSnapshot
            \/ endSnapshotThread
            \/ /\ receiveRawSnapshot /\ UNCHANGED held
               /\ Goto("snapshot", "raw_snapshot", "snap_mode")
  <2>1. PICK from \in {"snap_start", "raw_snapshot", "snap_mode", "jpeg_wait", "snap_join",
                       "snap_end"},
             to \in {"raw_picture", "raw_snapshot", "snap_mode", "jpeg_wait", "snap_join",
                     "snap_end", None} : Goto("snapshot", from, to)
    BY <1>10 DEF startSnapshot, leaveSnapshotMode, waitEncoder, joinSnapshot, endSnapshotThread
  <2>2. UNCHANGED held
    BY <1>10 DEF startSnapshot, leaveSnapshotMode, waitEncoder, joinSnapshot, endSnapshotThread
  <2>3. from \notin RawPlaces
    BY <2>1 DEF RawPlaces
  <2>4. \A l \in Nested : Within(l, "snapshot", from, call["snapshot"]) =>
                          Within(l, "snapshot", to, call["snapshot"])
    BY <1>5, <2>3
  <2> QED BY <1>1, <1>2, <2>1, <2>2, <2>4, HoldGoto
<1>11. native_jpeg_encode =>
           \/ Fork("snapshot", "native_encode", "raw_return", "encoder", "encoding")
           \/ Goto("snapshot", "native_encode", "raw_deinit")
  BY DEF native_jpeg_encode
<1>12. receiveRawSnapshot =>
           \/ /\ Acquire("snapshot", "mCallbackLock")
              /\ Goto("snapshot", "raw_snapshot", "snapshot_callback")
           \/ UNCHANGED held /\ Goto("snapshot", "raw_snapshot", "snap_mode")
  BY DEF receiveRawSnapshot
<1> QED BY <1>6, <1>7, <1>8, <1>9, <1>10, <1>11, <1>12 DEF InSnapshot

(* The encoder has none.                                                   *)
LEMMA EncoderHold ==
    ASSUME IInv, HeldWhere, InEncoder
    PROVE  HeldWhere'
<1>1. "encoder" \in Threads /\ "encoder" \notin Callers
  BY DEF Threads, Callers, Frames
<1>2. UNCHANGED <<held, call>>
  BY DEF InEncoder, encoderEvent, receiveJpegPicture, client
<1>3. PICK from \in {"encoding", "jpeg_done"}, to \in {"jpeg_done", None} :
          Goto("encoder", from, to)
  BY DEF InEncoder, encoderEvent, receiveJpegPicture
<1>4. \A l, p, c : ~Within(l, "encoder", p, c)
  BY <1>1 DEF Within
<1> QED BY <1>1, <1>2, <1>3, <1>4, HoldGoto

(* At first no lock is held.                                               *)
LEMMA InitHold ==
    ASSUME Init
    PROVE  HeldWhere
<1>1. \A l \in Nested : held[l] = None
  BY DEF Init, Nested
<1>2. \A t \in Threads : t # None /\ pc[t] \notin TakePlaces
  BY DEF Init, Threads, Frames, None, TakePlaces
<1> QED BY <1>1, <1>2, CallersAreThreads DEF HeldWhere

(* Every step sees to it.                                                  *)
LEMMA NextHold ==
    ASSUME IInv, HeldWhere, [Next]_vars
    PROVE  HeldWhere'
<1>1. CASE (\E c \in Calls : enter(c)) \/ releaseRecordingFrame \/ UNCHANGED vars
           \/ \E f \in Frames : receive_camframetimeout(f)
  BY <1>1, OutsideHold
<1>2. ASSUME NEW t \in Callers, InCall(t) PROVE HeldWhere'
  <2>1. CASE lock(t) \/ leave(t)
    BY <2>1, EnterHold
  <2>2. CASE \/ setMessages(t) \/ startRecording(t) \/ startPreviewInternal(t)
             \/ waitFrameThread(t) \/ waitSnapshotMode(t) \/ allocPreviewHeap(t) \/ undoStart(t)
             \/ stopPreview(t) \/ joinEncoder(t) \/ releaseRaw(t) \/ exitCamera(t)
             \/ cancelAutoFocus(t) \/ setSnapshotMode(t)
    BY <2>2, StartHold
  <2>3. CASE createFrameThread(t) \/ autoFocus(t)
    BY <2>3, ForkHold
  <2>4. CASE nativeStart(t) \/ started(t)
    BY <2>4, DriverHold
  <2>5. CASE stopRecording(t) \/ release(t)
    BY <2>5, SignalHold
  <2>6. CASE stopPreviewInternal(t) \/ lockTimeout(t) \/ nativeStop(t) \/ stopped(t)
             \/ stopEnd(t) \/ cancelAutoFocusInternal(t)
    BY <2>6, StopHold
  <2>7. CASE takePicture(t) \/ giveUp(t) \/ initPicture(t) \/ createSnapshotThread(t)
    BY <2>7, TakeHold
  <2> QED BY <1>2, <2>1, <2>2, <2>3, <2>4, <2>5, <2>6, <2>7 DEF InCall
<1>3. ASSUME NEW f \in Frames, frameArrives(f) \/ InFrame(f) PROVE HeldWhere'
  BY <1>3, FrameHold
<1>4. CASE InAutoFocus \/ InSnapshot \/ InEncoder
  BY <1>4, FocusHold, SnapshotHold, EncoderHold
<1> QED BY <1>1, <1>2, <1>3, <1>4 DEF Next, Callers

(* The order in which they are taken.                                      *)
Rank == [l \in Locks |->
    CASE l = "mLock"                   -> 1
      [] l = "mSnapshotThreadWaitLock" -> 2
      [] l = "mCamframeTimeoutLock"    -> 3
      [] l = "mAutoFocusThreadLock"    -> 4
      [] l = "mAfLock"                 -> 5
      [] l = "mCameraRunningLock"      -> 6
      [] l = "mCallbackLock"           -> 7]

(* Who waits for a lock has none that comes after it.                      *)
LEMMA Ordered ==
    ASSUME IInv, HeldWhere, NEW t \in Threads, NEW l \in Locks, NEW m \in Locks,
           held[l] = t, Waits(t, m)
    PROVE  Rank[l] < Rank[m]
<1>1. pc[t] \in {"enter", "take", "lock_timeout", "loop", "auto_focus", "af_start", "native_start",
                 "native_stop", "af_lock", "mask", "raw_picture", "raw_snapshot", "jpeg_done"}
  BY DEF Waits
<1>2. CASE l = "mLock"
  <2>1. t \in Callers /\ pc[t] \in CallPlaces
    BY <1>2, CallersNamed DEF IInv, LocksAgree, None, Threads, Frames
  <2>2. pc[t] # "enter"
    BY <2>1, Apart
  <2> QED BY <1>2, <2>2 DEF Waits, Rank, Locks
<1>3. CASE l = "mCameraRunningLock"
  <2>1. pc[t] \in DriverPlaces \/ pc[t] \in {"focusing", "af_unlock"}
    BY <1>3 DEF IInv, LocksAgree, None, Threads, Frames
  <2> QED BY <1>1, <2>1 DEF DriverPlaces
<1>4. CASE l \in Nested
  <2>1. Within(l, t, pc[t], call[t])
    BY <1>4 DEF HeldWhere
  <2>2. t \in Callers => t # "af" /\ t # "snapshot"
    BY DEF Callers, Frames
  <2>3. CASE l = "mSnapshotThreadWaitLock"
    <3>1. pc[t] \in {"lock_timeout", "native_stop"}
      BY <1>1, <2>1, <2>3 DEF Within, StopPlaces, RunPlaces
    <3> QED BY <2>3, <3>1 DEF Waits, Rank, Locks
  <2>4. CASE l = "mCamframeTimeoutLock"
    <3>1. pc[t] = "native_stop"
      BY <1>1, <2>1, <2>4 DEF Within
    <3> QED BY <2>4, <3>1 DEF Waits, Rank, Locks
  <2>5. CASE l \in {"mAfLock", "mAutoFocusThreadLock"}
    <3>1. pc[t] = "af_lock"
      BY <1>1, <2>1, <2>5 DEF Within, FocusPlaces
    <3> QED BY <2>5, <3>1 DEF Waits, Rank, Locks
  <2>6. CASE l = "mCallbackLock"
    BY <1>1, <2>1, <2>6 DEF Within, RawPlaces
  <2> QED BY <1>4, <2>3, <2>4, <2>5, <2>6 DEF Nested, Locks
<1> QED BY <1>2, <1>3, <1>4 DEF Nested

(* So no set of threads waits for itself.                                  *)
LEMMA OrderIsEnough ==
    ASSUME IInv, HeldWhere
    PROVE  NoCircle
<1> SUFFICES ASSUME NEW S \in (SUBSET Threads) \ {{}},
                    \A t \in S : \E l \in Locks : Waits(t, l) /\ held[l] \in S
             PROVE  FALSE
  BY DEF NoCircle
<1> DEFINE W == {l \in Locks : held[l] \in S}
<1>1. \A l \in W : \E m \in W : Rank[l] < Rank[m]
  <2> SUFFICES ASSUME NEW l \in W PROVE \E m \in W : Rank[l] < Rank[m]
    OBVIOUS
  <2>1. PICK m \in Locks : Waits(held[l], m) /\ held[m] \in S
    OBVIOUS
  <2>2. held[l] \in Threads /\ m \in W
    BY <2>1
  <2> QED BY <2>1, <2>2, Ordered
<1>2. PICK l \in Locks : l \in W
  OBVIOUS
<1>3. \A m \in W : Rank[m] \in 1..7
  BY DEF Rank, Locks
<1> HIDE DEF W
<1>4. \A m \in W : Rank[m] \in 1..6
  BY <1>1, <1>3
<1>5. \A m \in W : Rank[m] \in 1..5
  BY <1>1, <1>4
<1>6. \A m \in W : Rank[m] \in 1..4
  BY <1>1, <1>5
<1>7. \A m \in W : Rank[m] \in 1..3
  BY <1>1, <1>6
<1>8. \A m \in W : Rank[m] \in 1..2
  BY <1>1, <1>7
<1>9. \A m \in W : Rank[m] \in 1..1
  BY <1>1, <1>8
<1> QED BY <1>1, <1>2, <1>9

(* Each thread takes its locks in the order of Rank: the service and the   *)
(* preview callback through mLock, mSnapshotThreadWaitLock,                *)
(* mCamframeTimeoutLock and mCameraRunningLock, the focus thread through   *)
(* mAutoFocusThreadLock, mAfLock and mCameraRunningLock, and no thread     *)
(* waits for a lock while it has mCallbackLock or mCameraRunningLock.  So  *)
(* the locks alone never leave threads waiting for one another, whatever   *)
(* fails and whatever the callback calls.  (A wait for a flag while mLock  *)
(* is held is another matter: CallbackReturns.)                            *)
THEOREM LocksInOrder == Spec => []NoCircle
<1>1. Init => IInv /\ HeldWhere
  BY InitInv, InitHold
<1>2. IInv /\ HeldWhere /\ [Next]_vars => (IInv /\ HeldWhere)'
  BY NextInv, StutterInv, NextHold
<1>3. IInv /\ HeldWhere => NoCircle
  BY OrderIsEnough
<1> QED BY <1>1, <1>2, <1>3, PTL DEF Spec
=============================================================================
