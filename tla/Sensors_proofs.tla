--------------------------- MODULE Sensors_proofs ---------------------------
(***************************************************************************)
(* The invariants of SensorsPoll.                                          *)
(*                                                                         *)
(* NothingForgotten speaks of the moment poll() is called.  It holds       *)
(* because in every earlier step of the loop a ring that holds events      *)
(* belongs to a driver that is marked ready (Remembered) and the drivers   *)
(* before the present one are not marked (Passed); a mark is taken away    *)
(* only with a short answer, and an answer is short only when the ring is  *)
(* empty or could not be filled.                                           *)
(*                                                                         *)
(* SwitchAgrees speaks of the moments between two calls.  Within one,      *)
(* only the sensor that is being switched may differ (FlagsAgree); the     *)
(* daemon follows at once (DaemonAgrees).                                  *)
(***************************************************************************)
EXTENDS SensorsPoll, TLAPS

Events == {"abs", "syn"}

ReadTypes ==
    /\ fd \in [Drivers -> Seq(Events)]
    /\ ring \in [Drivers -> Seq(Events)]
    /\ revents \in [Drivers -> BOOLEAN]
    /\ failed \subseteq Drivers

PollTypes ==
    /\ pc \in {"idle", "scan", "fill", "drain", "poll"}
    /\ i \in 1..(numSensorDrivers + 1)
    /\ count \in Nat /\ room \in Nat /\ nb \in Nat

SwitchTypes ==
    /\ flags \in [Drivers -> BOOLEAN]
    /\ mEnabled \in [Drivers -> BOOLEAN]
    /\ active \in [Drivers -> BOOLEAN]
    /\ daemon \in {"stopped", "running", "dying"}
    /\ apc \in {"idle", "enable", "disable", "wake"}
    /\ handle \in Drivers
    /\ refused \subseteq Drivers
    /\ startIgnored \in BOOLEAN /\ orphan \in BOOLEAN

TypesCorrect == ReadTypes /\ PollTypes /\ SwitchTypes

(* readEvents() is called for a driver that poll() said was ready, and the *)
(* room and what was given make up what the caller had room for.           *)
Reading == pc \in {"fill", "drain"} => /\ i \in Drivers /\ revents[i]
                                       /\ count > 0 /\ count = room + nb

(* Drivers that were passed have nothing more, unless the caller is full.  *)
Passed ==
    /\ pc \in {"scan", "fill", "drain"} /\ count # 0 => \A d \in 1..(i - 1) : ~revents[d]
    /\ pc = "poll" => \A d \in Drivers : ~revents[d]

(* A ring that holds events is one the poll thread will come back to.      *)
Remembered == \A d \in Drivers \ failed : ring[d] # <<>> => revents[d]

PollInv == Reading /\ Passed /\ Remembered

(* While a sensor is being switched, its driver and the kernel may differ. *)
Switching == apc \in {"enable", "disable"}
FlagsAgree ==
    /\ Switching => active[handle] = (apc = "enable")
    /\ \A d \in Drivers : ~Switching \/ d # handle =>
           /\ mEnabled[d] = active[d]
           /\ d \notin refused => flags[d] = active[d]

DaemonAgrees ==
    /\ ~startIgnored /\ ~orphan => (daemon = "running" <=> Some(active))
    /\ orphan => ~Some(active)

SwitchInv == FlagsAgree /\ DaemonAgrees

IInv == TypesCorrect /\ PollInv /\ SwitchInv
-----------------------------------------------------------------------------
(* Drivers are numbered from 1, as sSensorDrivers numbers them.            *)
LEMMA DriversAreNumbers == Drivers \subseteq Nat /\ numSensorDrivers \in Nat
BY driversAssumption DEF Drivers

(* At the start every sensor is off and nothing waits anywhere.            *)
LEMMA InitInv == Init => IInv
<1> SUFFICES ASSUME Init
             PROVE  IInv
  OBVIOUS
<1>1. 1 \in Drivers /\ 1 \in 1..(numSensorDrivers + 1)
  BY driversAssumption DEF Drivers
<1>2. <<>> \in Seq(Events)
  OBVIOUS
<1>3. TypesCorrect
  BY <1>1, <1>2 DEF Init, TypesCorrect, ReadTypes, PollTypes, SwitchTypes, NoEvents, None
<1>4. PollInv
  BY DEF Init, PollInv, Reading, Passed, Remembered, NoEvents
<1>5. SwitchInv
  BY DEF Init, SwitchInv, Switching, FlagsAgree, DaemonAgrees, Some, None
<1> QED BY <1>3, <1>4, <1>5 DEF IInv

(* Nothing of one thread's is the other's.                                 *)
LEMMA SwitchStays ==
    ASSUME SwitchTypes /\ SwitchInv,
           UNCHANGED <<flags, daemon, mEnabled, active, apc, handle, refused, startIgnored, orphan>>
    PROVE  SwitchTypes' /\ SwitchInv'
BY DEF SwitchTypes, SwitchInv, FlagsAgree, Switching, DaemonAgrees, Some

(* What the poll thread holds is not changed by what it does not write.    *)
LEMMA PollStays ==
    ASSUME PollTypes /\ PollInv, UNCHANGED <<ring, revents, failed, pc, i, count, room, nb>>
    PROVE  PollTypes' /\ PollInv'
BY DEF PollTypes, PollInv, Reading, Passed, Remembered

(* The same of what is read.                                               *)
LEMMA ReadStays ==
    ASSUME ReadTypes, UNCHANGED <<fd, ring, revents, failed>>
    PROVE  ReadTypes'
BY DEF ReadTypes

(* The kernel may report events at any time.                               *)
LEMMA ReportInv ==
    ASSUME IInv, report
    PROVE  IInv'
<1>1. fd' \in [Drivers -> Seq(Events)]
  <2>1. Report \in Seq(Events)
    BY DEF Report, Events
  <2>2. \A d \in Drivers : fd[d] \o Report \in Seq(Events) /\ fd[d] \in Seq(Events)
    BY <2>1 DEF IInv, TypesCorrect, ReadTypes
  <2> QED BY <2>2 DEF report
<1>2. ReadTypes'
  BY <1>1 DEF IInv, TypesCorrect, ReadTypes, report, pollVars
<1>3. PollTypes' /\ PollInv'
  BY PollStays DEF IInv, TypesCorrect, report, pollVars
<1>4. SwitchTypes' /\ SwitchInv'
  BY SwitchStays DEF IInv, TypesCorrect, report, switchVars
<1> QED BY <1>2, <1>3, <1>4 DEF IInv, TypesCorrect

(* The daemon that was killed ends.                                        *)
LEMMA ReapInv ==
    ASSUME IInv, reap
    PROVE  IInv'
<1>1. ReadTypes' /\ PollTypes' /\ PollInv'
  BY PollStays, ReadStays DEF IInv, TypesCorrect, reap, pollVars
<1>2. SwitchTypes' /\ SwitchInv'
  BY DEF IInv, TypesCorrect, reap, switchVars, SwitchTypes, SwitchInv, FlagsAgree, Switching,
         DaemonAgrees, Some
<1> QED BY <1>1, <1>2 DEF IInv, TypesCorrect
-----------------------------------------------------------------------------
(* The poll thread.                                                        *)

(* pollEvents() begins a call with room for some events.                   *)
LEMMA PollEventsInv ==
    ASSUME IInv, pollEvents
    PROVE  IInv'
<1>1. SwitchTypes' /\ SwitchInv'
  BY SwitchStays DEF IInv, TypesCorrect, pollEvents, kernel, switchVars
<1>2. ReadTypes'
  BY ReadStays DEF IInv, TypesCorrect, pollEvents, kernel
<1>3. PollTypes' /\ PollInv'
  BY driversAssumption, countsAssumption
  DEF IInv, TypesCorrect, pollEvents, PollTypes, PollInv, Reading, Passed, Remembered
<1> QED BY <1>1, <1>2, <1>3 DEF IInv, TypesCorrect

(* The loop stops at the first driver that was said to be ready; those     *)
(* before it had nothing more.                                             *)
LEMMA ScanInv ==
    ASSUME IInv, scan
    PROVE  IInv'
<1> DEFINE ready == {d \in i..numSensorDrivers : revents[d]}
<1>1. SwitchTypes' /\ SwitchInv'
  BY SwitchStays DEF IInv, TypesCorrect, scan, kernel, switchVars
<1>2. ReadTypes'
  BY ReadStays DEF IInv, TypesCorrect, scan, kernel
<1>3. UNCHANGED <<ring, revents, failed, count>> /\ pc = "scan"
  BY DEF scan
<1>4. CASE /\ count # 0 /\ pc' = "fill" /\ room' = count /\ nb' = 0
           /\ \E d \in ready : i' = d /\ \A o \in ready : d <= o
  <2>1. PICK d \in ready : i' = d /\ \A o \in ready : d <= o
    BY <1>4
  <2>2. d \in i..numSensorDrivers /\ i \in 1..(numSensorDrivers + 1) /\ revents[d]
    BY <2>1 DEF IInv, TypesCorrect, PollTypes
  <2>3. d \in Drivers
    BY <2>2, driversAssumption DEF Drivers
  <2>4. ASSUME NEW e \in 1..(d - 1)
        PROVE  ~revents[e]
    <3>1. e \in Nat /\ e < d /\ e \in 1..numSensorDrivers
      BY <2>2, driversAssumption
    <3>2. CASE e < i
      <4>1. e \in 1..(i - 1)
        BY <2>2, <3>1, <3>2, driversAssumption
      <4> QED BY <1>3, <1>4, <4>1 DEF IInv, PollInv, Passed
    <3>3. CASE e >= i
      <4>1. e \in i..numSensorDrivers /\ e \notin ready
        BY <2>1, <2>2, <3>1, <3>3, driversAssumption
      <4> QED BY <4>1
    <3> QED BY <3>1, <3>2, <3>3, <2>2, driversAssumption
  <2>5. PollTypes'
    BY <1>3, <1>4, <2>1, <2>2, driversAssumption DEF IInv, TypesCorrect, PollTypes
  <2>6. Reading'
    BY <1>3, <1>4, <2>1, <2>2, <2>3 DEF IInv, TypesCorrect, PollTypes, Reading
  <2>7. Passed'
    BY <1>3, <1>4, <2>1, <2>4 DEF Passed
  <2>8. Remembered'
    BY <1>3 DEF IInv, PollInv, Remembered
  <2> QED BY <2>5, <2>6, <2>7, <2>8, <1>1, <1>2 DEF IInv, TypesCorrect, PollInv
<1>5. CASE count # 0 /\ ready = {} /\ pc' = "poll" /\ UNCHANGED <<i, room, nb>>
  <2>1. ASSUME NEW d \in Drivers
        PROVE  ~revents[d]
    <3>1. d \in 1..(i - 1) \/ d \in i..numSensorDrivers
      BY driversAssumption DEF IInv, TypesCorrect, PollTypes, Drivers
    <3> QED BY <1>3, <1>5, <3>1 DEF IInv, PollInv, Passed
  <2>2. PollTypes' /\ Reading' /\ Remembered'
    BY <1>3, <1>5 DEF IInv, TypesCorrect, PollTypes, PollInv, Reading, Remembered
  <2>3. Passed'
    BY <1>3, <1>5, <2>1 DEF Passed
  <2> QED BY <2>2, <2>3, <1>1, <1>2 DEF IInv, TypesCorrect, PollInv
<1>6. CASE count = 0 /\ pc' = "idle" /\ UNCHANGED <<i, room, nb>>
  <2>1. PollTypes' /\ PollInv'
    BY <1>3, <1>6 DEF IInv, TypesCorrect, PollTypes, PollInv, Reading, Passed, Remembered
  <2> QED BY <2>1, <1>1, <1>2 DEF IInv, TypesCorrect
<1> QED BY <1>4, <1>5, <1>6 DEF scan

(* account() passes the driver i; what was left in its ring is remembered  *)
(* unless the answer was short.                                            *)
LEMMA Accounts ==
    ASSUME IInv, pc \in {"fill", "drain"}, NEW n \in Int, n <= count, account(n),
           failed' \subseteq Drivers, room' = room, nb' = nb,
           \A d \in Drivers \ {i} : ring'[d] = ring[d] /\ (d \in failed' <=> d \in failed),
           n < count => ring'[i] = <<>> \/ i \in failed'
    PROVE  PollTypes' /\ PollInv' /\ revents' \in [Drivers -> BOOLEAN]
<1>1. i \in Drivers /\ revents[i] /\ count \in Nat /\ count > 0
  BY DEF IInv, PollInv, Reading, TypesCorrect, PollTypes
<1>2. i' = i + 1 /\ count' = count - n /\ pc' = "scan"
      /\ revents' = [revents EXCEPT ![i] = IF n < count THEN FALSE ELSE revents[i]]
  BY DEF account
<1>3. revents \in [Drivers -> BOOLEAN]
  BY DEF IInv, TypesCorrect, ReadTypes
<1>4. revents' \in [Drivers -> BOOLEAN] /\ \A d \in Drivers \ {i} : revents'[d] = revents[d]
  BY <1>1, <1>2, <1>3
<1>5. revents'[i] = IF n < count THEN FALSE ELSE TRUE
  BY <1>1, <1>2, <1>3
<1>6. PollTypes'
  BY <1>1, <1>2, driversAssumption DEF IInv, TypesCorrect, PollTypes, Drivers
<1>7. Reading'
  BY <1>2 DEF Reading
<1>8. Passed'
  <2>1. ASSUME count' # 0, NEW d \in 1..(i' - 1)
        PROVE  ~revents'[d]
    <3>1. n < count
      BY <2>1, <1>1, <1>2
    <3>2. d \in 1..i /\ d \in Drivers
      BY <1>1, <1>2, driversAssumption DEF Drivers
    <3>3. CASE d = i
      BY <1>5, <3>1, <3>3
    <3>4. CASE d # i
      <4>1. d \in 1..(i - 1)
        BY <3>2, <3>4, <1>1, driversAssumption DEF Drivers
      <4> QED BY <1>1, <1>4, <3>2, <3>4, <4>1 DEF IInv, PollInv, Passed
    <3> QED BY <3>3, <3>4
  <2> QED BY <1>2, <2>1 DEF Passed
<1>9. Remembered'
  <2>1. ASSUME NEW d \in Drivers \ failed', ring'[d] # <<>>
        PROVE  revents'[d]
    <3>1. CASE d = i
      BY <1>1, <1>5, <2>1, <3>1
    <3>2. CASE d # i
      BY <1>4, <2>1, <3>2 DEF IInv, PollInv, Remembered
    <3> QED BY <3>1, <3>2
  <2> QED BY <2>1 DEF Remembered
<1> QED BY <1>4, <1>6, <1>7, <1>8, <1>9 DEF PollInv

(* fill() reads into the ring what the kernel has, or fails; if it fails,  *)
(* the driver is not asked again before the next poll().                   *)
LEMMA FillInv ==
    ASSUME IInv, fill
    PROVE  IInv'
<1>1. SwitchTypes' /\ SwitchInv'
  BY SwitchStays DEF IInv, TypesCorrect, fill, switchVars
<1>2. pc = "fill" /\ i \in Drivers /\ revents[i] /\ count \in Nat /\ count > 0
      /\ UNCHANGED <<room, nb>>
  BY DEF fill, IInv, PollInv, Reading, TypesCorrect, PollTypes
<1>3. ASSUME pc' = "drain", UNCHANGED <<revents, count, i>>, failed' = failed \ {i},
             \A d \in Drivers \ {i} : ring'[d] = ring[d],
             fd' \in [Drivers -> Seq(Events)], ring' \in [Drivers -> Seq(Events)]
      PROVE  ReadTypes' /\ PollTypes' /\ PollInv'
  <2>1. ReadTypes' /\ PollTypes'
    BY <1>2, <1>3 DEF IInv, TypesCorrect, ReadTypes, PollTypes
  <2>2. Reading' /\ Passed' /\ Remembered'
    BY <1>2, <1>3 DEF IInv, PollInv, Reading, Passed, Remembered
  <2> QED BY <2>1, <2>2 DEF PollInv
<1>4. CASE pc' = "drain" /\ UNCHANGED <<fd, ring, revents, count, i>> /\ failed' = failed \ {i}
  BY <1>1, <1>3, <1>4 DEF IInv, TypesCorrect, ReadTypes
<1>5. CASE /\ pc' = "drain" /\ UNCHANGED <<revents, count, i>> /\ failed' = failed \ {i}
           /\ \E n \in 1..Len(fd[i]) :
                 /\ ring' = [ring EXCEPT ![i] = @ \o SubSeq(fd[i], 1, n)]
                 /\ fd' = [fd EXCEPT ![i] = SubSeq(@, n + 1, Len(@))]
  <2>1. PICK n \in 1..Len(fd[i]) :
                 /\ ring' = [ring EXCEPT ![i] = @ \o SubSeq(fd[i], 1, n)]
                 /\ fd' = [fd EXCEPT ![i] = SubSeq(@, n + 1, Len(@))]
    BY <1>5
  <2>2. fd[i] \in Seq(Events) /\ ring[i] \in Seq(Events)
    BY <1>2 DEF IInv, TypesCorrect, ReadTypes
  <2>3. SubSeq(fd[i], 1, n) \in Seq(Events) /\ SubSeq(fd[i], n + 1, Len(fd[i])) \in Seq(Events)
    BY <2>2
  <2>4. ring[i] \o SubSeq(fd[i], 1, n) \in Seq(Events)
    BY <2>2, <2>3
  <2>5. fd' \in [Drivers -> Seq(Events)] /\ ring' \in [Drivers -> Seq(Events)]
        /\ \A d \in Drivers \ {i} : ring'[d] = ring[d]
    BY <1>2, <2>1, <2>3, <2>4 DEF IInv, TypesCorrect, ReadTypes
  <2> QED BY <1>1, <1>3, <1>5, <2>5 DEF IInv, TypesCorrect
<1>6. CASE failed' = failed \cup {i} /\ account(-Errno) /\ UNCHANGED <<fd, ring>>
  <2>1. -Errno \in Int /\ -Errno <= count
    BY <1>2, errnoAssumption
  <2>2. failed' \subseteq Drivers /\ i \in failed'
    BY <1>2, <1>6 DEF IInv, TypesCorrect, ReadTypes
  <2>3. \A d \in Drivers \ {i} : ring'[d] = ring[d] /\ (d \in failed' <=> d \in failed)
    BY <1>6
  <2>4. PollTypes' /\ PollInv' /\ revents' \in [Drivers -> BOOLEAN]
    BY <1>2, <1>6, <2>1, <2>2, <2>3, Accounts
  <2> QED BY <1>1, <1>6, <2>2, <2>4 DEF IInv, TypesCorrect, ReadTypes
<1> QED BY <1>4, <1>5, <1>6 DEF fill

(* readEvents() takes one event from the ring, and fills at most one       *)
(* place.                                                                  *)
LEMMA TakeInv ==
    ASSUME IInv, take
    PROVE  IInv'
<1>1. SwitchTypes' /\ SwitchInv'
  BY SwitchStays DEF IInv, TypesCorrect, take, kernel, switchVars
<1>2. pc = "drain" /\ i \in Drivers /\ revents[i] /\ room # 0 /\ ring[i] # <<>>
      /\ UNCHANGED <<fd, revents, failed, pc, i, count>>
  BY DEF take, IInv, PollInv, Reading, kernel
<1>3. ring' = [ring EXCEPT ![i] = Tail(@)]
  BY DEF take
<1>4. ring[i] \in Seq(Events)
  BY <1>2 DEF IInv, TypesCorrect, ReadTypes
<1>5. Tail(ring[i]) \in Seq(Events)
  BY <1>2, <1>4
<1>6. ring' \in [Drivers -> Seq(Events)] /\ \A d \in Drivers \ {i} : ring'[d] = ring[d]
  BY <1>2, <1>3, <1>5 DEF IInv, TypesCorrect, ReadTypes
<1>7. ReadTypes'
  BY <1>2, <1>6 DEF IInv, TypesCorrect, ReadTypes
<1>8. \/ room' = room - 1 /\ nb' = nb + 1
      \/ UNCHANGED <<room, nb>>
  BY DEF take
<1>9. PollTypes'
  BY <1>2, <1>8 DEF IInv, TypesCorrect, PollTypes
<1>10. Reading'
  BY <1>2, <1>8 DEF IInv, PollInv, Reading, TypesCorrect, PollTypes
<1>11. Passed' /\ Remembered'
  BY <1>2, <1>6 DEF IInv, PollInv, Passed, Remembered
<1> QED BY <1>1, <1>7, <1>9, <1>10, <1>11 DEF IInv, TypesCorrect, PollInv

(* readEvents() returns when the ring is empty or the caller is full: a    *)
(* driver whose answer is short has nothing left.                          *)
LEMMA ReadEventsReturnsInv ==
    ASSUME IInv, readEventsReturns
    PROVE  IInv'
<1>1. SwitchTypes' /\ SwitchInv'
  BY SwitchStays DEF IInv, TypesCorrect, readEventsReturns, kernel, switchVars
<1>2. pc = "drain" /\ nb \in Nat /\ room \in Nat /\ count = room + nb
  BY DEF IInv, PollInv, Reading, TypesCorrect, PollTypes, readEventsReturns
<1>3. nb \in Int /\ nb <= count /\ (nb < count => ring[i] = <<>>)
  BY <1>2 DEF readEventsReturns
<1>4. failed' = failed /\ ring' = ring /\ room' = room /\ nb' = nb /\ fd' = fd /\ account(nb)
  BY DEF readEventsReturns, kernel
<1>5. failed' \subseteq Drivers
  BY <1>4 DEF IInv, TypesCorrect, ReadTypes
<1>6. PollTypes' /\ PollInv' /\ revents' \in [Drivers -> BOOLEAN]
  BY <1>2, <1>3, <1>4, <1>5, Accounts
<1> QED BY <1>1, <1>4, <1>6 DEF IInv, TypesCorrect, ReadTypes

(* poll() is called with every ring empty, and says who is ready.          *)
LEMMA PollStepInv ==
    ASSUME IInv, poll
    PROVE  IInv'
<1>1. SwitchTypes' /\ SwitchInv'
  BY SwitchStays DEF IInv, TypesCorrect, poll, switchVars
<1>2. pc = "poll" /\ UNCHANGED <<fd, ring, failed, count, room, nb>>
  BY DEF poll
<1>3. \A d \in Drivers \ failed : ring[d] = <<>>
  BY <1>2 DEF IInv, PollInv, Passed, Remembered
<1>4. revents' \in [Drivers -> BOOLEAN]
  BY DEF IInv, TypesCorrect, ReadTypes, poll
<1>5. i' \in 1..(numSensorDrivers + 1) /\ pc' \in {"scan", "idle"} /\ (pc' = "scan" => i' = 1)
  BY driversAssumption DEF IInv, TypesCorrect, PollTypes, poll
<1>6. ReadTypes' /\ PollTypes'
  BY <1>2, <1>4, <1>5 DEF IInv, TypesCorrect, ReadTypes, PollTypes
<1>7. PollInv'
  BY <1>2, <1>3, <1>5 DEF PollInv, Reading, Passed, Remembered
<1> QED BY <1>1, <1>6, <1>7 DEF IInv, TypesCorrect
-----------------------------------------------------------------------------
(* The thread that switches.                                               *)

(* activate() counts the sensor first, and with the first or last one      *)
(* starts or kills the daemon.                                             *)
LEMMA ActivateInv ==
    ASSUME IInv, activate
    PROVE  IInv'
<1>1. ReadTypes' /\ PollTypes' /\ PollInv'
  BY PollStays, ReadStays DEF IInv, TypesCorrect, activate, pollVars
<1>2. PICK d \in Drivers, enabled \in BOOLEAN :
           /\ active' = [active EXCEPT ![d] = enabled]
           /\ handle' = d
           /\ apc' = IF enabled THEN "enable" ELSE "disable"
  BY DEF activate
<1>3. apc = "idle" /\ orphan' = (orphan /\ ~Some(active')) /\ UNCHANGED <<flags, mEnabled, refused>>
  BY DEF activate
<1>4. active' \in [Drivers -> BOOLEAN] /\ active'[d] = enabled
      /\ \A e \in Drivers \ {d} : active'[e] = active[e]
  BY <1>2 DEF IInv, TypesCorrect, SwitchTypes
<1>5. SwitchTypes'
  BY <1>2, <1>3, <1>4 DEF IInv, TypesCorrect, SwitchTypes, activate, killall, start
<1>6. FlagsAgree'
  BY <1>2, <1>3, <1>4 DEF IInv, SwitchInv, FlagsAgree, Switching
<1>7. DaemonAgrees'
  <2> DEFINE was == Some(active)
             is == Some(active')
  <2>1. Some(active)' = is
    BY DEF Some
  <2>2. was \in BOOLEAN /\ is \in BOOLEAN
    BY DEF Some
  <2>3. \/ was /\ ~is /\ killall
        \/ ~was /\ is /\ start
        \/ was = is /\ UNCHANGED <<daemon, startIgnored>>
    BY DEF activate
  <2>4. /\ ~startIgnored /\ ~orphan => (daemon = "running" <=> was)
        /\ orphan => ~was
    BY DEF IInv, SwitchInv, DaemonAgrees
  <2>5. orphan' = (orphan /\ ~is)
    BY <1>3
  <2> HIDE DEF was, is
  <2>6. /\ ~startIgnored' /\ ~orphan' => (daemon' = "running" <=> is)
        /\ orphan' => ~is
    BY <2>2, <2>3, <2>4, <2>5 DEF killall, start, IInv, TypesCorrect, SwitchTypes
  <2> QED BY <2>1, <2>6 DEF DaemonAgrees
<1> QED BY <1>1, <1>5, <1>6, <1>7 DEF IInv, TypesCorrect, SwitchInv

(* The driver is told, unless it refuses.                                  *)
LEMMA EnableInv ==
    ASSUME IInv, enable
    PROVE  IInv'
<1>1. ReadTypes' /\ PollTypes' /\ PollInv'
  BY PollStays, ReadStays DEF IInv, TypesCorrect, enable, pollVars
<1>2. SwitchTypes'
  BY DEF IInv, TypesCorrect, SwitchTypes, enable
<1>3. FlagsAgree'
  BY DEF IInv, TypesCorrect, SwitchTypes, SwitchInv, FlagsAgree, Switching, enable
<1>4. DaemonAgrees'
  BY DEF IInv, SwitchInv, DaemonAgrees, Some, enable
<1> QED BY <1>1, <1>2, <1>3, <1>4 DEF IInv, TypesCorrect, SwitchInv

(* The poll thread is woken.                                               *)
LEMMA WakeInv ==
    ASSUME IInv, wake
    PROVE  IInv'
<1>1. ReadTypes' /\ PollTypes' /\ PollInv'
  BY PollStays, ReadStays DEF IInv, TypesCorrect, wake, pollVars
<1>2. SwitchTypes' /\ SwitchInv'
  BY DEF IInv, TypesCorrect, wake, SwitchTypes, SwitchInv, FlagsAgree, Switching, DaemonAgrees, Some
<1> QED BY <1>1, <1>2 DEF IInv, TypesCorrect

(* The device is closed and opened again: nothing is on, nothing waits.    *)
LEMMA ReopenInv ==
    ASSUME IInv, reopen
    PROVE  IInv'
<1>1. pc' = "idle" /\ UNCHANGED <<i, count, room, nb>> /\ ring' = NoEvents /\ fd' = NoEvents
      /\ revents' = None /\ failed' = {}
  BY DEF reopen
<1>2. <<>> \in Seq(Events)
  OBVIOUS
<1>3. ReadTypes' /\ PollTypes'
  BY <1>1, <1>2 DEF IInv, TypesCorrect, ReadTypes, PollTypes, NoEvents, None
<1>4. PollInv'
  BY <1>1 DEF PollInv, Reading, Passed, Remembered, NoEvents
<1>5. SwitchTypes'
  BY DEF IInv, TypesCorrect, SwitchTypes, reopen, None, Some
<1>6. FlagsAgree'
  BY DEF IInv, TypesCorrect, SwitchTypes, SwitchInv, FlagsAgree, Switching, reopen, None
<1>7. DaemonAgrees'
  BY DEF IInv, SwitchInv, DaemonAgrees, reopen, None, Some
<1> QED BY <1>3, <1>4, <1>5, <1>6, <1>7 DEF IInv, TypesCorrect, SwitchInv

(* Every step keeps the invariant.                                         *)
LEMMA NextInv ==
    ASSUME IInv, [Next]_vars
    PROVE  IInv'
<1>1. CASE UNCHANGED vars
  BY <1>1, PollStays, ReadStays, SwitchStays DEF IInv, TypesCorrect, vars, kernel, pollVars,
     switchVars
<1> QED BY <1>1, ReportInv, ReapInv, PollEventsInv, ScanInv, FillInv, TakeInv,
        ReadEventsReturnsInv, PollStepInv, ActivateInv, EnableInv, WakeInv, ReopenInv
        DEF Next, pollThread, switchThread

(* The invariant of the poll loop holds in every reachable state.          *)
THEOREM InductiveInvariant == Spec => []IInv
BY InitInv, NextInv, PTL DEF Spec

(* When the poll loop waits in poll(), nothing waits in a ring, except     *)
(* with a driver that could not be read: for every number of drivers,      *)
(* capacity and size of answer.                                            *)
THEOREM NoEventIsForgotten == Spec => []NothingForgotten
<1>1. IInv => NothingForgotten
  BY DEF IInv, PollInv, Passed, Remembered, NothingForgotten
<1> QED BY <1>1, InductiveInvariant, PTL

(* Between two calls of activate(), the switches, the drivers and the      *)
(* daemon agree on what is on, except for a driver that refused.           *)
THEOREM SwitchesAgree == Spec => []SwitchAgrees
<1>1. ASSUME IInv
      PROVE  SwitchAgrees
  <2>1. ASSUME apc = "idle"
        PROVE  mEnabled = active /\ \A d \in Drivers \ refused : flags[d] = active[d]
    BY <1>1, <2>1 DEF IInv, TypesCorrect, SwitchTypes, SwitchInv, FlagsAgree, Switching
  <2> QED BY <1>1, <2>1 DEF IInv, SwitchInv, DaemonAgrees, SwitchAgrees
<1> QED BY <1>1, InductiveInvariant, PTL
=============================================================================
