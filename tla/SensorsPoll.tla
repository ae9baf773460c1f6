---------------------------- MODULE SensorsPoll ----------------------------
(***************************************************************************)
(* sensors_poll_context_t (libsensors/sensors.cpp) with its drivers        *)
(* (Smb380Sensor, CompassSensor, OrientationSensor), called by the two     *)
(* threads of the sensor service: one activates sensors, one call at a     *)
(* time, the other polls for events.  All drivers read the same input      *)
(* device, each through its own descriptor and its own ring of numEvents   *)
(* events, which is the queue EventQueue (see InputEventReader).           *)
(*                                                                         *)
(* The device sends reports: for each sensor an event with its axes, then  *)
(* a synchronisation, on which a driver hands out the values it has.       *)
(* Around it stand the kernel (descriptors, pipe, the flags of             *)
(* /dev/ecompass_ctrl) and init, which runs the daemon g5sensord.          *)
(***************************************************************************)
EXTENDS Integers, Sequences, FiniteSets

CONSTANTS
    numSensorDrivers,
    numEvents,       \* the capacity of a driver's ring
    Counts,          \* how many events callers of poll have room for
    MaxQueued,       \* bound: events that wait in a descriptor
    MaxActivations,  \* bound: calls of activate(), and closes
    MaxFailures,     \* bound: kernel calls that fail
    Errno            \* of a call that fails

ASSUME driversAssumption == numSensorDrivers \in Nat \ {0}
ASSUME countsAssumption == Counts \subseteq Nat \ {0}
ASSUME errnoAssumption == Errno \in Nat \ {0}

Drivers == 1..numSensorDrivers

VARIABLES
    fd,              \* what waits in each driver's descriptor
    pipe,            \* bytes in the wake pipe
    flags,           \* the kernel's flag of each sensor
    daemon,          \* g5sensord: "stopped", "running" or "dying"
    ring,            \* mInputReader of each driver
    mEnabled,        \* of each driver
    active,          \* mAccelActive, mMagnetActive, mOrientationActive
    revents,         \* mPollFds[i].revents has POLLIN
    pc, i, count, nbEvents,         \* pollEvents() and its locals
    room, nb,        \* count and numEventReceived in readEvents()
    given,           \* the drivers whose events this call has given out
    apc, handle,     \* activate() and its sensor
    failed,          \* drivers whose last read() failed
    refused,         \* sensors whose last activation failed
    startIgnored,    \* init was told to start the daemon while it was dying
    orphan,          \* the device was closed while sensors were active
    activations, failures

kernel == <<fd, pipe, flags, daemon>>
pollVars == <<revents, pc, i, count, nbEvents, room, nb, given, failed>>
switchVars == <<mEnabled, active, apc, handle, refused, startIgnored, orphan, activations>>
vars == <<kernel, ring, pollVars, switchVars, failures>>

None == [d \in Drivers |-> FALSE]
NoEvents == [d \in Drivers |-> <<>>]

Init ==
    /\ fd = NoEvents /\ ring = NoEvents
    /\ pipe = 0
    /\ daemon = "stopped"
    /\ flags = None /\ mEnabled = None /\ active = None /\ revents = None
    /\ pc = "idle" /\ i = 1 /\ count = 0 /\ nbEvents = 0
    /\ room = 0 /\ nb = 0
    /\ given = {}
    /\ apc = "idle" /\ handle = 1
    /\ failed = {} /\ refused = {}
    /\ startIgnored = FALSE /\ orphan = FALSE
    /\ activations = 0 /\ failures = 0

Fails == failures < MaxFailures /\ failures' = failures + 1
Works == UNCHANGED failures
-----------------------------------------------------------------------------
(* Environment.  A report reaches every descriptor that has room for it;   *)
(* the others lose it.                                                     *)
Report == <<"abs", "syn">>
HasRoom(d) == Len(fd[d]) + Len(Report) <= MaxQueued

report ==
    /\ daemon = "running"
    /\ \E d \in Drivers : HasRoom(d)
    /\ fd' = [d \in Drivers |-> IF HasRoom(d) THEN fd[d] \o Report ELSE fd[d]]
    /\ UNCHANGED <<pipe, flags, daemon, ring, pollVars, switchVars, failures>>

(* init hears that the killed daemon has ended.                            *)
reap ==
    /\ daemon = "dying"
    /\ daemon' = "stopped"
    /\ UNCHANGED <<fd, pipe, flags, ring, pollVars, switchVars, failures>>
-----------------------------------------------------------------------------
(* The poll thread.                                                        *)
pollEvents ==
    /\ pc = "idle"
    /\ count' \in Counts
    /\ pc' = "scan" /\ i' = 1 /\ nbEvents' = 0 /\ given' = {}
    /\ UNCHANGED <<kernel, ring, revents, room, nb, failed, switchVars, failures>>

(* The next driver whose descriptor had something: drivers never have      *)
(* pending events of their own (hasPendingEvents() is FALSE throughout).   *)
scan ==
    LET ready == {d \in i..numSensorDrivers : revents[d]}
    IN  /\ pc = "scan"
        /\ \/ /\ count # 0
              /\ \E d \in ready :
                     /\ \A o \in ready : d <= o
                     /\ i' = d
              /\ pc' = "fill" /\ room' = count /\ nb' = 0
           \/ count # 0 /\ ready = {} /\ pc' = "poll" /\ UNCHANGED <<i, room, nb>>
           \/ count = 0 /\ pc' = "idle" /\ UNCHANGED <<i, room, nb>>
        /\ UNCHANGED <<kernel, ring, revents, count, nbEvents, given, failed, switchVars, failures>>

(* Mutants.  An operator whose name ends in _X<n> is a changed form of the *)
(* definition after it, the way a bug would change it; nothing uses it.    *)
account_X1(n) ==                                 \* "no more" although the caller is full
    /\ revents' = [revents EXCEPT ![i] = IF n <= count THEN FALSE ELSE revents[i]]
    /\ count' = count - n
    /\ nbEvents' = nbEvents + n
    /\ i' = i + 1
    /\ pc' = "scan"

(* What pollEvents() does with readEvents()'s answer n.                    *)
account(n) ==
    /\ revents' = [revents EXCEPT ![i] = IF n < count THEN FALSE ELSE revents[i]]
    /\ count' = count - n
    /\ nbEvents' = nbEvents + n
    /\ i' = i + 1
    /\ pc' = "scan"

(* readEvents() begins with fill(), whose read() waits for an event unless *)
(* the ring has no room; a negative answer is taken for a count.           *)
fill ==
    /\ pc = "fill"
    /\ \/ /\ Len(ring[i]) = numEvents
          /\ pc' = "drain"
          /\ failed' = failed \ {i}
          /\ Works
          /\ UNCHANGED <<fd, ring, revents, count, nbEvents, i>>
       \/ /\ \E n \in 1..Len(fd[i]) :
                 /\ Len(ring[i]) + n <= numEvents
                 /\ ring' = [ring EXCEPT ![i] = @ \o SubSeq(fd[i], 1, n)]
                 /\ fd' = [fd EXCEPT ![i] = SubSeq(@, n + 1, Len(@))]
          /\ pc' = "drain"
          /\ failed' = failed \ {i}
          /\ Works
          /\ UNCHANGED <<revents, count, nbEvents, i>>
       \/ /\ Len(ring[i]) < numEvents
          /\ Fails
          /\ failed' = failed \cup {i}
          /\ account(-Errno)
          /\ UNCHANGED <<fd, ring>>
    /\ UNCHANGED <<pipe, flags, daemon, room, nb, given, switchVars>>

take_X1 ==                                       \* continue, before next()
    /\ pc = "drain" /\ room # 0 /\ ring[i] # <<>>
    /\ \/ /\ Head(ring[i]) = "syn" /\ mEnabled[i]
          /\ ring' = [ring EXCEPT ![i] = Tail(@)]
          /\ room' = room - 1 /\ nb' = nb + 1 /\ given' = given \cup {i}
       \/ /\ Head(ring[i]) = "abs"
          /\ ring' = [ring EXCEPT ![i] = Tail(@)]
          /\ UNCHANGED <<room, nb, given>>
    /\ UNCHANGED <<kernel, revents, pc, i, count, nbEvents, failed, switchVars, failures>>

(* One event of the ring; on a synchronisation of an enabled sensor the    *)
(* driver's values go into the caller's array.                             *)
take ==
    /\ pc = "drain" /\ room # 0 /\ ring[i] # <<>>
    /\ ring' = [ring EXCEPT ![i] = Tail(@)]
    /\ \/ /\ Head(ring[i]) = "syn" /\ mEnabled[i]
          /\ room' = room - 1 /\ nb' = nb + 1 /\ given' = given \cup {i}
       \/ /\ Head(ring[i]) = "abs" \/ ~mEnabled[i]
          /\ UNCHANGED <<room, nb, given>>
    /\ UNCHANGED <<kernel, revents, pc, i, count, nbEvents, failed, switchVars, failures>>

readEventsReturns ==
    /\ pc = "drain"
    /\ room = 0 \/ ring[i] = <<>>
    /\ account(nb)
    /\ UNCHANGED <<kernel, ring, room, nb, given, failed, switchVars, failures>>

(* poll() waits only when there is nothing to return yet.                  *)
poll ==
    LET ready == [d \in Drivers |-> fd[d] # <<>>]
    IN  /\ pc = "poll"
        /\ \/ /\ pipe > 0 \/ \E d \in Drivers : ready[d]
              /\ revents' = ready
              /\ pipe' = IF pipe > 0 THEN pipe - 1 ELSE 0
              /\ pc' = "scan" /\ i' = 1
              /\ Works
           \/ /\ nbEvents # 0 /\ pipe = 0 /\ \A d \in Drivers : ~ready[d]
              /\ revents' = ready
              /\ pc' = "idle"
              /\ Works
              /\ UNCHANGED <<pipe, i>>
           \/ /\ Fails
              /\ pc' = "idle"
              /\ UNCHANGED <<pipe, i, revents>>
        /\ UNCHANGED <<fd, flags, daemon, ring, count, nbEvents, room, nb, given, failed, switchVars>>
-----------------------------------------------------------------------------
(* The thread that switches.  system() has returned when enable() runs.    *)
Some(f) == \E d \in Drivers : f[d]

killall ==
    /\ daemon' = IF daemon = "running" THEN "dying" ELSE daemon
    /\ startIgnored' = FALSE

start ==
    /\ daemon' = IF daemon = "stopped" THEN "running" ELSE daemon
    /\ startIgnored' = (daemon = "dying")

activate_X1 ==                                   \* prev_state read after the assignment
    /\ apc = "idle" /\ activations < MaxActivations
    /\ \E d \in Drivers, enabled \in BOOLEAN :
           /\ active' = [active EXCEPT ![d] = enabled]
           /\ handle' = d
           /\ apc' = IF enabled THEN "enable" ELSE "disable"
    /\ UNCHANGED <<daemon, startIgnored>>
    /\ orphan' = (orphan /\ ~Some(active'))
    /\ activations' = activations + 1
    /\ UNCHANGED <<fd, pipe, flags, ring, pollVars, mEnabled, refused, failures>>

activate ==
    /\ apc = "idle" /\ activations < MaxActivations
    /\ \E d \in Drivers, enabled \in BOOLEAN :
           /\ active' = [active EXCEPT ![d] = enabled]
           /\ handle' = d
           /\ apc' = IF enabled THEN "enable" ELSE "disable"
    /\ \/ Some(active) /\ ~Some(active') /\ killall
       \/ ~Some(active) /\ Some(active') /\ start
       \/ Some(active) = Some(active') /\ UNCHANGED <<daemon, startIgnored>>
    /\ orphan' = (orphan /\ ~Some(active'))
    /\ activations' = activations + 1
    /\ UNCHANGED <<fd, pipe, flags, ring, pollVars, mEnabled, refused, failures>>

(* enable() of the sensor's driver: its own flag, then the kernel's.       *)
enable ==
    LET enabled == apc = "enable"
    IN  /\ apc \in {"enable", "disable"}
        /\ mEnabled' = [mEnabled EXCEPT ![handle] = enabled]
        /\ \/ /\ flags' = [flags EXCEPT ![handle] = enabled]
              /\ refused' = refused \ {handle}
              /\ apc' = IF enabled THEN "wake" ELSE "idle"
              /\ Works
           \/ /\ Fails
              /\ refused' = refused \cup {handle}
              /\ apc' = "idle"
              /\ UNCHANGED flags
        /\ UNCHANGED <<fd, pipe, daemon, ring, pollVars, active, handle, startIgnored, orphan, activations>>

wake ==
    /\ apc = "wake"
    /\ pipe' = pipe + 1
    /\ apc' = "idle"
    /\ UNCHANGED <<fd, flags, daemon, ring, pollVars, mEnabled, active, handle,
                   refused, startIgnored, orphan, activations, failures>>

(* poll__close() with no call under way, and a later open_sensors(): the   *)
(* drivers disable themselves, the daemon is not told.                     *)
reopen ==
    /\ pc = "idle" /\ apc = "idle" /\ activations < MaxActivations
    /\ activations' = activations + 1
    /\ flags' = [d \in Drivers |-> flags[d] /\ ~mEnabled[d]]
    /\ orphan' = (orphan \/ Some(active))
    /\ fd' = NoEvents /\ ring' = NoEvents /\ pipe' = 0
    /\ mEnabled' = None /\ active' = None /\ revents' = None
    /\ failed' = {}
    /\ UNCHANGED <<daemon, pc, i, count, nbEvents, room, nb, given, apc, handle,
                   refused, startIgnored, failures>>

pollThread == pollEvents \/ scan \/ fill \/ take \/ readEventsReturns \/ poll
switchThread == activate \/ enable \/ wake \/ reopen

Next == report \/ reap \/ pollThread \/ switchThread

(* The service polls again and again; its threads and the device go on.    *)
Spec ==
    /\ Init /\ [][Next]_vars
    /\ WF_vars(pollThread)
    /\ WF_vars(enable) /\ WF_vars(wake)
    /\ WF_vars(report) /\ WF_vars(reap)
-----------------------------------------------------------------------------
(* When poll() is called, and may wait for ever, no ring holds an event    *)
(* that was read before and not looked at: poll() would not be told of it. *)
(* Only a read() that failed leaves events behind (pollEvents, 245).       *)
NothingForgotten ==
    pc = "poll" => \A d \in Drivers \ failed : ring[d] = <<>>

(* What the rest of the system is left with between two activations: each  *)
(* driver and the kernel have the state asked for unless the last call for *)
(* it failed, and the daemon runs exactly while some sensor is active.     *)
(* Two cases are excepted: init ignores a start while the killed daemon is *)
(* not yet reaped (204), and closing the device leaves the daemon (183).   *)
SwitchAgrees ==
    apc = "idle" =>
        /\ mEnabled = active
        /\ \A d \in Drivers \ refused : flags[d] = active[d]
        /\ ~startIgnored /\ ~orphan => (daemon = "running" <=> Some(active))

(* A sensor that stays on while the daemon runs gives events again and     *)
(* again, whatever the other sensors do: no driver is passed over for ever *)
(* and no thread waits for what has already come.                          *)
SensorsReport ==
    \A d \in Drivers :
        <>[](mEnabled[d] /\ daemon = "running") => []<>(d \in given)
=============================================================================
