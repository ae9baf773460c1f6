----------------------------- MODULE EventQueue -----------------------------
(***************************************************************************)
(* What a reader of an event device promises a sensor driver: events come  *)
(* out one at a time, in the order in which the device gave them, none     *)
(* lost, none twice, and never more than the reader has room for.          *)
(***************************************************************************)
EXTENDS Integers, Sequences

CONSTANTS
    Event,
    NoEvent,         \* what is not an event
    numEvents        \* how many events there is room for

VARIABLES
    queue,           \* the events that were read and not consumed
    event,           \* the event the driver looks at, or NoEvent
    ret,             \* what the last call returned
    given            \* the events it took from the device

vars == <<queue, event, ret, given>>

Room == numEvents - Len(queue)

Init ==
    /\ queue = <<>>
    /\ event = NoEvent
    /\ ret = 0
    /\ given = <<>>

(* The device gives at most what there is room for, and perhaps nothing.   *)
Fill ==
    /\ event = NoEvent
    /\ ret' \in 0..Room
    /\ given' \in [1..ret' -> Event]
    /\ queue' = queue \o given'
    /\ UNCHANGED event

FillFails ==
    /\ event = NoEvent
    /\ Room > 0
    /\ ret' = -1
    /\ given' = <<>>
    /\ UNCHANGED <<queue, event>>

ReadEvent ==
    /\ event = NoEvent
    /\ \/ queue # <<>> /\ event' = Head(queue) /\ ret' = 1
       \/ queue = <<>> /\ ret' = 0 /\ UNCHANGED event
    /\ given' = <<>>
    /\ UNCHANGED queue

NextEvent ==
    /\ event # NoEvent
    /\ queue' = Tail(queue)
    /\ event' = NoEvent
    /\ given' = <<>>
    /\ UNCHANGED ret

Next == Fill \/ FillFails \/ ReadEvent \/ NextEvent

Spec == Init /\ [][Next]_vars
=============================================================================
