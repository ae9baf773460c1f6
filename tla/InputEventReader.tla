-------------------------- MODULE InputEventReader --------------------------
(***************************************************************************)
(* InputEventCircularReader (libsensors/InputEventReader.cpp): the ring    *)
(* between the input device and a sensor driver.  The array has twice as   *)
(* many cells as the ring, so that one read() can run over the ring's end; *)
(* what ran over is copied back to the start.  mHead and mCurr are indices *)
(* into the array, for the pointers of the source; mBufferEnd is the index *)
(* numEvents.                                                              *)
(*                                                                         *)
(* A driver looks at an event with readEvent() and, if there was one, goes *)
(* on with next(), as the loops of the three readEvents() do.  The device  *)
(* gives whole events: a read that ends in the middle of one is an error   *)
(* the input layer never produces.                                         *)
(***************************************************************************)
EXTENDS Integers, Sequences

CONSTANTS
    Event,
    NoEvent,
    numEvents

ASSUME NoEventAssumption == NoEvent \notin Event
ASSUME numEventsAssumption == numEvents \in Nat \ {0}

VARIABLES
    mBuffer, mHead, mCurr, mFreeSpace,
    event,           \* *events after a readEvent() that returned 1
    readerRet,       \* what the last call returned
    given            \* the events it read from the device

readerVars == <<mBuffer, mHead, mCurr, mFreeSpace, event, readerRet, given>>

mBufferEnd == numEvents
Cells == 0..(2 * numEvents - 1)

(* new[] initialises nothing: the cells hold no event of the device.       *)
ReaderInit ==
    /\ mBuffer = [c \in Cells |-> NoEvent]
    /\ mHead = 0
    /\ mCurr = 0
    /\ mFreeSpace = numEvents
    /\ event = NoEvent
    /\ readerRet = 0
    /\ given = <<>>

(* The array after read() has put the events at mHead ...                  *)
Stored(events) ==
    [c \in Cells |-> IF c - mHead \in 0..(Len(events) - 1)
                     THEN events[c - mHead + 1] ELSE mBuffer[c]]

(* Mutants.  An operator whose name ends in _X<n> is a changed form of the *)
(* definition after it, the way a bug would change it; nothing uses it.    *)
CopiedBack_X1(cells, s) ==                       \* one event too few
    [c \in Cells |-> IF c < s - 1 THEN cells[mBufferEnd + c] ELSE cells[c]]

(* ... and after memcpy() has brought s events from behind the end.        *)
CopiedBack(cells, s) ==
    [c \in Cells |-> IF c < s THEN cells[mBufferEnd + c] ELSE cells[c]]

(* numEventsRead events, up to the end of the ring or over it.  The head   *)
(* may stand exactly at the end; the next events are then copied back.     *)
advance(events) ==
    LET head == mHead + Len(events)
    IN  \/ /\ head <= mBufferEnd
           /\ mBuffer' = Stored(events)
           /\ mHead' = head
        \/ /\ head > mBufferEnd
           /\ mBuffer' = CopiedBack(Stored(events), head - mBufferEnd)
           /\ mHead' = head - mBufferEnd

fill ==
    /\ event = NoEvent
    /\ \E n \in 0..mFreeSpace : \E events \in [1..n -> Event] :
           /\ advance(events)
           /\ mFreeSpace' = mFreeSpace - n
           /\ readerRet' = n
           /\ given' = events
    /\ UNCHANGED <<mCurr, event>>

fillFails ==
    /\ event = NoEvent
    /\ mFreeSpace > 0
    /\ readerRet' = -1
    /\ given' = <<>>
    /\ UNCHANGED <<mBuffer, mHead, mCurr, mFreeSpace, event>>

readEvent ==
    /\ event = NoEvent
    /\ \/ mBufferEnd - mFreeSpace > 0 /\ event' = mBuffer[mCurr] /\ readerRet' = 1
       \/ mBufferEnd - mFreeSpace = 0 /\ readerRet' = 0 /\ UNCHANGED event
    /\ given' = <<>>
    /\ UNCHANGED <<mBuffer, mHead, mCurr, mFreeSpace>>

next ==
    /\ event # NoEvent
    /\ mCurr' = IF mCurr + 1 >= mBufferEnd THEN 0 ELSE mCurr + 1
    /\ mFreeSpace' = mFreeSpace + 1
    /\ event' = NoEvent
    /\ given' = <<>>
    /\ UNCHANGED <<mBuffer, mHead, readerRet>>

ReaderNext == fill \/ fillFails \/ readEvent \/ next

ReaderSpec == ReaderInit /\ [][ReaderNext]_readerVars
-----------------------------------------------------------------------------
Wrap(i) == IF i >= numEvents THEN i - numEvents ELSE i
Available == numEvents - mFreeSpace

(* What the pointers and the count say of each other: the events that wait *)
(* begin at mCurr, end where mHead stands and are events the device gave.  *)
(* No read() runs over the array, and no copy back reaches an event that   *)
(* waits.                                                                  *)
RingSound ==
    /\ mBuffer \in [Cells -> Event \cup {NoEvent}]
    /\ mHead \in 0..numEvents
    /\ mCurr \in 0..(numEvents - 1)
    /\ mFreeSpace \in 0..numEvents
    /\ readerRet \in Int
    /\ Wrap(mCurr + Available) = Wrap(mHead)
    /\ \A i \in 0..(Available - 1) : mBuffer[Wrap(mCurr + i)] \in Event
    /\ event # NoEvent => Available > 0 /\ event = mBuffer[mCurr]

(* The events that wait, from the oldest on.                               *)
Waiting == [i \in 1..Available |-> mBuffer[Wrap(mCurr + i - 1)]]

EQ == INSTANCE EventQueue WITH queue <- Waiting, ret <- readerRet

(* The ring is a queue: whatever the sizes of the reads and wherever they  *)
(* run over the end, a driver sees the events in order, each once.         *)
ReaderIsQueue == EQ!Spec
=============================================================================
