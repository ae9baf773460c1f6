---------------------------- MODULE FbPost_proofs ----------------------------
(***************************************************************************)
(* LockBalance, ShownInOrder and QueueHeld hold in every behaviour of      *)
(* FbPost, for every number of slots, every mixture of swap intervals, and *)
(* whether or not waits return unsignalled and ioctl() fails.              *)
(*                                                                         *)
(* BalanceInv says which slots are locked at each place of fb_post(): the  *)
(* current one, then both, then the new one; or, when the frame is         *)
(* dropped, the current one, none, and the new one.  Numbered says that    *)
(* the queue holds the frames after the one shown last.  PacedInv says     *)
(* what is in flight at each place while the interval is 1 and no wait has *)
(* returned early, and that the record fb_post() waits for is not set      *)
(* while an earlier frame is left.                                         *)
(*                                                                         *)
(* NoWaitIsInVain is what PostReturns and EveryFrameShown need beside the  *)
(* scheduling of the two threads: no signal is lost.                       *)
(***************************************************************************)
EXTENDS FbPost, TLAPS

Before == {"idle", "lock", "reuse"}
Both == {"busy", "push", "previous", "waiting", "unlock"}

PostTypes ==
    /\ pc \in Before \cup Both \cup {"done", "reuse_lock"}
    /\ posting \in Slots
    /\ currentBuffer \in Slots \cup {None}
    /\ lockCount \in [Slots -> Int]

(* The slot that is posted is never the current one.                       *)
Distinct ==
    /\ pc = "idle" /\ currentBuffer # None => currentBuffer = posting
    /\ pc # "idle" => currentBuffer # posting
    /\ pc \in {"previous", "waiting", "unlock"} => currentBuffer # None

Counts ==
    /\ pc \in Before =>
           \A b \in Slots : lockCount[b] = IF b = currentBuffer THEN 1 ELSE 0
    /\ pc \in Both =>
           \A b \in Slots : lockCount[b] = IF b \in {currentBuffer, posting} THEN 1 ELSE 0
    /\ pc = "done" => \A b \in Slots : lockCount[b] = IF b = posting THEN 1 ELSE 0
    /\ pc = "reuse_lock" => \A b \in Slots : lockCount[b] = 0

BalanceInv == PostTypes /\ Distinct /\ Counts
-----------------------------------------------------------------------------
(* The slot after one is another slot.                                     *)
LEMMA NextSlot ==
    ASSUME NEW s \in Slots \cup {None}
    PROVE  (s + 1) % NumBuffers \in Slots /\ (s + 1) % NumBuffers # s
<1>1. CASE s + 1 < NumBuffers
    <2>1. (s + 1) % NumBuffers = s + 1
        BY <1>1, NumBuffersAssumption DEF Slots, None
    <2> QED
        BY <2>1, <1>1, NumBuffersAssumption DEF Slots, None
<1>2. CASE s + 1 = NumBuffers
    <2>1. (s + 1) % NumBuffers = 0
        BY <1>2, NumBuffersAssumption DEF Slots
    <2> QED
        BY <2>1, <1>2, NumBuffersAssumption DEF Slots
<1> QED
    BY <1>1, <1>2, NumBuffersAssumption DEF Slots, None

(* The slot after none is the one after the last.                          *)
LEMMA NextNone == (None + 1) % NumBuffers = (NumBuffers - 1 + 1) % NumBuffers
<1>1. NumBuffers - 1 + 1 = NumBuffers /\ None + 1 = 0
    BY NumBuffersAssumption DEF None
<1>2. 0 % NumBuffers = 0 /\ NumBuffers % NumBuffers = 0
    BY NumBuffersAssumption
<1> QED
    BY <1>1, <1>2

(* At the start no buffer is locked.                                       *)
LEMMA InitBalance == Init => BalanceInv
BY NumBuffersAssumption
   DEF Init, BalanceInv, PostTypes, Distinct, Counts, Slots, Before, Both, None

(* Each step of fb_post() moves the count of one slot.                     *)
LEMMA PostStep ==
    ASSUME BalanceInv, fb_post \/ InPost \/ earlyPoster
    PROVE  BalanceInv'
<1> USE DEF BalanceInv, PostTypes, Before, Both
<1>1. CASE fb_post
    <2>1. posting' \in Slots /\ posting' # posting
        BY <1>1, NextSlot DEF fb_post
    <2>2. pc = "idle" /\ pc' \in {"reuse", "lock"}
        BY <1>1 DEF fb_post
    <2>3. UNCHANGED <<currentBuffer, lockCount>>
        BY <1>1 DEF fb_post
    <2>4. Distinct'
        BY <2>1, <2>2, <2>3, NumBuffersAssumption DEF Distinct, Slots, None
    <2> QED
        BY <2>1, <2>2, <2>3, <2>4 DEF Counts
<1>2. CASE lockBuffer
    <2>1. PostTypes'
        BY <1>2 DEF lockBuffer, poster
    <2>2. Distinct'
        BY <1>2 DEF lockBuffer, poster, Distinct
    <2>3. Counts'
        BY <1>2 DEF lockBuffer, poster, Distinct, Counts
    <2> QED
        BY <2>1, <2>2, <2>3
<1>3. CASE markBusy \/ checkPrevious \/ leaveWait
    BY <1>3 DEF markBusy, checkPrevious, leaveWait, poster, Distinct, Counts
<1>4. CASE push
    <2>1. PostTypes'
        BY <1>4 DEF push
    <2>2. Distinct'
        BY <1>4 DEF push, Distinct
    <2>3. Counts'
        BY <1>4 DEF push, Distinct, Counts, Slots, None
    <2> QED
        BY <2>1, <2>2, <2>3
<1>5. CASE unlockPrevious
    BY <1>5 DEF unlockPrevious, poster, Distinct, Counts
<1>6. CASE setCurrent
    BY <1>6 DEF setCurrent, Distinct, Counts
<1>7. CASE reuseUnlock
    <2>1. PostTypes'
        BY <1>7 DEF reuseUnlock, poster
    <2>2. Distinct'
        BY <1>7 DEF reuseUnlock, poster, Distinct
    <2>3. Counts'
        BY <1>7 DEF reuseUnlock, poster, Distinct, Counts, Slots, None
    <2> QED
        BY <2>1, <2>2, <2>3
<1>8. CASE reuseLock
    BY <1>8 DEF reuseLock, Distinct, Counts
<1> QED
    BY <1>1, <1>2, <1>3, <1>4, <1>5, <1>6, <1>7, <1>8 DEF InPost, wakePoster, earlyPoster

(* The display loop and the swap interval touch no count.                  *)
LEMMA OtherStep ==
    ASSUME BalanceInv, fb_setSwapInterval \/ disp_loop \/ earlyDisplay \/ UNCHANGED vars
    PROVE  BalanceInv'
<1>1. UNCHANGED <<pc, posting, currentBuffer, lockCount>>
    BY DEF fb_setSwapInterval, disp_loop, dequeue, wakeDisplay, earlyDisplay, leaveQueueWait,
       putScreen, lockAvail, release, vars, poster
<1> QED
    BY <1>1 DEF BalanceInv, PostTypes, Distinct, Counts

(* Whatever frames were queued or dropped, between two posts the current   *)
(* slot is locked once and no other is: no slot can be drawn into while it *)
(* is current, and none is kept from the window for ever.                  *)
THEOREM LocksBalance == Spec => []LockBalance
<1>1. BalanceInv /\ [Next]_vars => BalanceInv'
    BY PostStep, OtherStep DEF Next
<1>2. BalanceInv => LockBalance
    <2> SUFFICES ASSUME BalanceInv, pc = "idle"
                 PROVE  lockCount = [b \in Slots |-> IF b = currentBuffer THEN 1 ELSE 0]
        BY DEF LockBalance
    <2>1. \A b \in Slots : lockCount[b] = IF b = currentBuffer THEN 1 ELSE 0
        BY DEF BalanceInv, Counts, Before
    <2> QED
        BY <2>1 DEF BalanceInv, PostTypes
<1> QED
    BY <1>1, <1>2, InitBalance, PTL DEF Spec
-----------------------------------------------------------------------------
(* The queue: what is in it, and how it is handed to the display loop.     *)
QBuf == [buf : Slots, idx : Slots \cup {None}, frame : Int]

QueueTypes ==
    /\ dpc \in {"top", "waiting", "post", "lock", "release"}
    /\ {currentIdx, nxtIdx, cur_buf} \subseteq Slots \cup {None}
    /\ is_avail \in [Slots -> BOOLEAN]
    /\ pushed \in Int
    /\ disp \in Seq(QBuf)
    /\ nxtBuf \in QBuf \cup {Garbage}
    /\ dpc \in {"top", "waiting"} => nxtBuf = Garbage
    /\ dpc \in {"lock", "release"} => nxtBuf # Garbage

Following(f) == (f + 1) % Frames

Taken == IF dpc = "post" /\ nxtBuf # Garbage THEN nxtBuf.frame ELSE shown

(* Frames are numbered without a gap, from the one shown last to the one   *)
(* queued last.                                                            *)
Numbered ==
    /\ dpc = "post" /\ nxtBuf # Garbage => nxtBuf.frame = Following(shown)
    /\ disp = <<>> => pushed = Taken
    /\ disp # <<>> => disp[1].frame = Following(Taken) /\ disp[Len(disp)].frame = pushed
    /\ \A i \in 1..(Len(disp) - 1) : disp[i + 1].frame = Following(disp[i].frame)

FramesInv == BalanceInv /\ QueueTypes /\ Numbered

(* An entry of the queue was written.                                      *)
LEMMA QBufIsNotGarbage == Garbage \notin QBuf
BY NumBuffersAssumption DEF Garbage, QBuf, Slots, None

(* What Append() and Tail() do to a queue.                                 *)
LEMMA QueueOps ==
    ASSUME NEW q \in Seq(QBuf)
    PROVE  /\ \A e \in QBuf :
                  /\ Append(q, e) \in Seq(QBuf) /\ Append(q, e) # <<>>
                  /\ Len(Append(q, e)) = Len(q) + 1
                  /\ Append(q, e)[Len(q) + 1] = e
                  /\ \A i \in 1..Len(q) : Append(q, e)[i] = q[i]
           /\ q # <<>> =>
                  /\ Len(q) \in Nat \ {0}
                  /\ Head(q) = q[1] /\ q[1] \in QBuf
                  /\ Tail(q) \in Seq(QBuf) /\ Len(Tail(q)) = Len(q) - 1
                  /\ \A i \in 1..(Len(q) - 1) : Tail(q)[i] = q[i + 1]
           /\ Len(q) = 0 <=> q = <<>>
<1>1. ASSUME NEW e \in QBuf
      PROVE  /\ Append(q, e) \in Seq(QBuf) /\ Append(q, e) # <<>>
             /\ Len(Append(q, e)) = Len(q) + 1
             /\ Append(q, e)[Len(q) + 1] = e
             /\ \A i \in 1..Len(q) : Append(q, e)[i] = q[i]
    OBVIOUS
<1>2. Len(q) = 0 <=> q = <<>>
    OBVIOUS
<1>3. ASSUME q # <<>>
      PROVE  /\ Len(q) \in Nat \ {0}
             /\ Head(q) = q[1] /\ q[1] \in QBuf
             /\ Tail(q) \in Seq(QBuf) /\ Len(Tail(q)) = Len(q) - 1
             /\ \A i \in 1..(Len(q) - 1) : Tail(q)[i] = q[i + 1]
    <2>1. Len(q) \in Nat \ {0}
        BY <1>2, <1>3
    <2> QED
        BY <1>3, <2>1
<1> QED
    BY <1>1, <1>2, <1>3

(* The queue is empty at the start, and frame 0 counts as shown.           *)
LEMMA InitFrames == Init => FramesInv
<1> SUFFICES ASSUME Init PROVE QueueTypes /\ Numbered
    BY InitBalance DEF FramesInv
<1>1. QueueTypes
    BY DEF Init, QueueTypes
<1>2. disp = <<>> /\ Len(disp) = 0 /\ nxtBuf = Garbage /\ pushed = shown
    BY DEF Init
<1> QED
    BY <1>1, <1>2 DEF Numbered, Taken

(* Taking the head makes it the frame to show next, and the rest follow it.*)
LEMMA TakeFrames ==
    ASSUME QueueTypes, Numbered, nxtBuf = Garbage, Take, shown' = shown, pushed' = pushed
    PROVE  /\ disp' \in Seq(QBuf) /\ nxtBuf' \in QBuf \cup {Garbage}
           /\ Numbered'
<1>1. CASE disp = <<>>
    <2>1. nxtBuf' = Garbage /\ disp' = <<>> /\ Len(disp') = 0
        BY <1>1 DEF Take
    <2>2. pushed' = shown'
        BY <1>1 DEF Numbered, Taken
    <2> QED
        BY <2>1, <2>2 DEF Numbered, Taken
<1>2. CASE disp # <<>>
    <2>1. /\ Len(disp) \in Nat \ {0}
          /\ nxtBuf' = disp[1] /\ disp[1] \in QBuf /\ nxtBuf' # Garbage
          /\ disp' \in Seq(QBuf) /\ Len(disp') = Len(disp) - 1
          /\ \A i \in 1..(Len(disp) - 1) : disp'[i] = disp[i + 1]
          /\ dpc' = "post"
        BY <1>2, QueueOps, QBufIsNotGarbage DEF Take, QueueTypes
    <2>2. Taken = shown /\ Taken' = disp[1].frame
        BY <2>1 DEF Taken
    <2>3. disp[1].frame = Following(shown) /\ disp[Len(disp)].frame = pushed
        BY <1>2, <2>2 DEF Numbered
    <2>4. disp' = <<>> <=> Len(disp) = 1
        BY <2>1, QueueOps
    <2>5. disp' = <<>> => pushed' = Taken'
        BY <2>1, <2>2, <2>3, <2>4
    <2>6. disp' # <<>> =>
              disp'[1].frame = Following(Taken') /\ disp'[Len(disp')].frame = pushed'
        BY <2>1, <2>2, <2>3, <2>4 DEF Numbered
    <2>7. \A i \in 1..(Len(disp') - 1) : disp'[i + 1].frame = Following(disp'[i].frame)
        BY <2>1 DEF Numbered
    <2> QED
        BY <2>1, <2>2, <2>3, <2>5, <2>6, <2>7 DEF Numbered, Following
<1> QED
    BY <1>1, <1>2

(* Only push, the two ways to take the head, and putScreen touch the queue *)
(* and its numbers.                                                        *)
LEMMA FramesStep ==
    ASSUME FramesInv, [Next]_vars
    PROVE  FramesInv'
<1> USE DEF FramesInv
<1>0. BalanceInv'
    BY PostStep, OtherStep DEF Next
<1>1. CASE push
    <2> DEFINE e == [buf |-> posting, idx |-> nxtIdx, frame |-> pushed']
    <2>1. pushed' = Following(pushed) /\ pushed' \in Int
        BY <1>1, FramesAssumption DEF push, Following, QueueTypes
    <2>2. e \in QBuf
        BY <2>1 DEF QBuf, QueueTypes, BalanceInv, PostTypes
    <2>3. disp' = Append(disp, e) /\ UNCHANGED display
        BY <1>1 DEF push
    <2> HIDE DEF e
    <2>4. /\ disp' \in Seq(QBuf) /\ disp' # <<>>
          /\ Len(disp) \in Nat /\ Len(disp') = Len(disp) + 1
          /\ disp'[Len(disp')] = e
          /\ \A i \in 1..Len(disp) : disp'[i] = disp[i]
          /\ Len(disp) = 0 <=> disp = <<>>
        BY <2>2, <2>3, QueueOps DEF QueueTypes
    <2>5. e.frame = Following(pushed) /\ e.frame = pushed'
        BY <2>1 DEF e
    <2>6. QueueTypes'
        BY <1>1, <2>1, <2>3, <2>4 DEF QueueTypes, push, display
    <2>7. Taken' = Taken /\ UNCHANGED <<dpc, nxtBuf, shown>>
        BY <2>3 DEF Taken, display
    <2>8. disp'[1].frame = Following(Taken')
        <3>1. CASE disp = <<>>
            <4>1. disp'[1] = e /\ pushed = Taken
                BY <2>4, <3>1 DEF Numbered
            <4> QED
                BY <2>5, <2>7, <4>1
        <3>2. CASE disp # <<>>
            <4>1. disp'[1] = disp[1] /\ disp[1].frame = Following(Taken)
                BY <2>4, <3>2 DEF Numbered
            <4> QED
                BY <2>7, <4>1
        <3> QED
            BY <3>1, <3>2
    <2>9. \A i \in 1..(Len(disp') - 1) : disp'[i + 1].frame = Following(disp'[i].frame)
        <3> TAKE i \in 1..(Len(disp') - 1)
        <3>1. CASE i = Len(disp)
            <4>1. disp # <<>> /\ disp'[i] = disp[Len(disp)] /\ disp'[i + 1] = e
                BY <2>4, <3>1
            <4> QED
                BY <2>5, <4>1 DEF Numbered
        <3>2. CASE i < Len(disp)
            BY <2>4, <3>2 DEF Numbered
        <3> QED
            BY <2>4, <3>1, <3>2
    <2> QED
        BY <1>0, <2>4, <2>5, <2>6, <2>7, <2>8, <2>9 DEF Numbered, Following
<1>2. CASE dequeue /\ disp # <<>>
    <2>1. Take /\ nxtBuf = Garbage /\ shown' = shown /\ pushed' = pushed
        BY <1>2 DEF dequeue, poster, QueueTypes
    <2>2. QueueTypes'
        BY <1>2, <2>1, TakeFrames DEF dequeue, QueueTypes, poster, Take
    <2> QED
        BY <1>0, <2>1, <2>2, TakeFrames
<1>3. CASE leaveQueueWait
    <2>1. Take /\ nxtBuf = Garbage /\ shown' = shown /\ pushed' = pushed
        BY <1>3 DEF leaveQueueWait, poster, QueueTypes
    <2>2. QueueTypes'
        BY <1>3, <2>1, TakeFrames DEF leaveQueueWait, QueueTypes, poster, Take
    <2> QED
        BY <1>0, <2>1, <2>2, TakeFrames
<1>4. CASE putScreen
    <2>1. QueueTypes'
        BY <1>4 DEF putScreen, QueueTypes, poster
    <2>2. Taken' = Taken /\ dpc' # "post" /\ UNCHANGED <<disp, pushed>>
        BY <1>4 DEF putScreen, Taken, poster
    <2> QED
        BY <1>0, <2>1, <2>2 DEF Numbered
<1>5. CASE \/ fb_setSwapInterval \/ fb_post \/ lockBuffer \/ markBusy \/ checkPrevious
           \/ leaveWait \/ unlockPrevious \/ setCurrent \/ reuseUnlock \/ reuseLock
           \/ UNCHANGED vars
    <2>1. UNCHANGED <<disp, pushed, dpc, nxtBuf, cur_buf, shown>>
        BY <1>5 DEF fb_setSwapInterval, fb_post, lockBuffer, markBusy, checkPrevious, leaveWait,
           unlockPrevious, setCurrent, reuseUnlock, reuseLock, vars, poster, display
    <2>2. /\ {currentIdx', nxtIdx'} \subseteq Slots \cup {None}
          /\ is_avail' \in [Slots -> BOOLEAN]
        BY <1>5, NextSlot
           DEF fb_setSwapInterval, fb_post, lockBuffer, markBusy, checkPrevious, leaveWait,
           unlockPrevious, setCurrent, reuseUnlock, reuseLock, vars, poster, display, QueueTypes
    <2> QED
        BY <1>0, <2>1, <2>2 DEF QueueTypes, Numbered, Taken
<1>6. CASE (dequeue /\ disp = <<>>) \/ lockAvail \/ release
    <2>1. UNCHANGED <<disp, pushed, shown>> /\ dpc # "post" /\ dpc' # "post"
        BY <1>6 DEF dequeue, lockAvail, release, poster
    <2>2. QueueTypes'
        BY <1>6 DEF dequeue, lockAvail, release, poster, QueueTypes, QBuf
    <2> QED
        BY <1>0, <2>1, <2>2 DEF Numbered, Taken
<1> QED
    BY <1>1, <1>2, <1>3, <1>4, <1>5, <1>6
       DEF Next, InPost, disp_loop, wakePoster, earlyPoster, wakeDisplay, earlyDisplay

(* Frames reach the screen in the order in which fb_post() queued them,    *)
(* none twice and none left out: for every number of slots, whatever       *)
(* intervals are set and even with waits that return unsignalled.          *)
THEOREM FramesInOrder == Spec => ShownInOrder
<1>1. FramesInv /\ [Next]_vars => FramesInv'
    BY FramesStep
<1>2. FramesInv /\ [Next]_vars => [shown' # shown => shown' = (shown + 1) % Frames]_vars
    <2> SUFFICES ASSUME FramesInv, Next, shown' # shown
                 PROVE  shown' = (shown + 1) % Frames
        OBVIOUS
    <2>1. putScreen
        BY DEF Next, fb_setSwapInterval, fb_post, InPost, lockBuffer, markBusy, push,
           checkPrevious, wakePoster, earlyPoster, leaveWait, unlockPrevious, setCurrent,
           reuseUnlock, reuseLock, disp_loop, dequeue, wakeDisplay, earlyDisplay,
           leaveQueueWait, lockAvail, release, display
    <2> QED
        BY <2>1 DEF putScreen, FramesInv, Numbered, Following
<1> QED
    BY <1>1, <1>2, InitFrames, PTL DEF Spec, ShownInOrder
-----------------------------------------------------------------------------
(* While the interval is 1, what the display loop still has to release is  *)
(* nothing, one frame, or two.  A frame in flight carries its own slot.    *)
Carries(e, slot) == e.buf = slot /\ e.idx = slot

Empty == nxtBuf = Garbage /\ disp = <<>>
One(x) ==
    \/ nxtBuf # Garbage /\ Carries(nxtBuf, x) /\ disp = <<>>
    \/ nxtBuf = Garbage /\ Len(disp) = 1 /\ Carries(disp[1], x)
Two(x, y) ==
    \/ nxtBuf # Garbage /\ Carries(nxtBuf, x) /\ Len(disp) = 1 /\ Carries(disp[1], y)
    \/ nxtBuf = Garbage /\ Len(disp) = 2 /\ Carries(disp[1], x) /\ Carries(disp[2], y)

Entering == {"idle", "lock", "busy", "push"}
Waiting == {"previous", "waiting"}
Leaving == {"unlock", "done"}

(* The slot released last is cur_buf.  The record of the current slot is   *)
(* not set while an earlier frame stands before it.                        *)
BeforePush ==
    \/ Empty /\ cur_buf = currentBuffer
       /\ (pc = "push" /\ is_avail[posting] => currentBuffer # None /\ ~is_avail[currentBuffer])
    \/ One(currentBuffer)
       /\ currentBuffer # None /\ cur_buf # currentBuffer /\ ~is_avail[currentBuffer]
       /\ (pc = "push" /\ is_avail[posting] => cur_buf # None)

AwaitsPrevious ==
    \/ Two(currentBuffer, posting)
       /\ cur_buf # currentBuffer /\ ~is_avail[currentBuffer]
       /\ (cur_buf = None => ~is_avail[posting])
    \/ One(posting)
       /\ cur_buf = currentBuffer /\ (is_avail[currentBuffer] => ~is_avail[posting])
    \/ Empty /\ cur_buf = posting

MayReturn ==
    \/ One(posting) /\ cur_buf = currentBuffer /\ ~is_avail[posting]
    \/ Empty /\ cur_buf = posting

InTurn ==
    /\ pc \notin {"reuse", "reuse_lock"}
    /\ currentIdx = currentBuffer
    /\ currentBuffer = None /\ pc = "idle" => posting = NumBuffers - 1
    /\ pc # "idle" => nxtIdx = posting
    /\ "poster" \in signalled => pc = "waiting" /\ is_avail[currentBuffer]

InStep == Paced /\ early = 0

PacedInv ==
    InStep => /\ InTurn
              /\ pc \in Entering => BeforePush
              /\ pc \in Waiting => AwaitsPrevious
              /\ pc \in Leaving => MayReturn

(* A signal that has reached the display loop finds a frame in the queue.  *)
Woken == "display" \in signalled => dpc = "waiting" /\ disp # <<>>

HeldInv == FramesInv /\ sets \in Nat /\ early \in Nat /\ Woken /\ PacedInv

(* A frame more in the queue.                                              *)
LEMMA PushFlight ==
    ASSUME QueueTypes, NEW x \in Slots, NEW y \in Slots, NEW e \in QBuf, Carries(e, y),
           disp' = Append(disp, e), nxtBuf' = nxtBuf
    PROVE  /\ Empty => One(y)'
           /\ One(x) => Two(x, y)'
<1>1. /\ Len(disp') = Len(disp) + 1 /\ disp'[Len(disp) + 1] = e
      /\ \A i \in 1..Len(disp) : disp'[i] = disp[i]
      /\ Len(disp) = 0 <=> disp = <<>>
    BY QueueOps DEF QueueTypes
<1> QED
    BY <1>1 DEF Empty, One, Two

(* Taking the head to the display leaves what is in flight as it is.       *)
LEMMA TakeFlight ==
    ASSUME QueueTypes, nxtBuf = Garbage, disp # <<>>, Take
    PROVE  /\ ~Empty
           /\ \A x \in Slots : One(x) => One(x)'
           /\ \A x, y \in Slots : Two(x, y) => Two(x, y)'
<1>1. /\ nxtBuf' = disp[1] /\ nxtBuf' # Garbage
      /\ Len(disp) \in Nat \ {0} /\ Len(disp') = Len(disp) - 1
      /\ \A i \in 1..(Len(disp) - 1) : disp'[i] = disp[i + 1]
      /\ disp' \in Seq(QBuf)
    BY QueueOps, QBufIsNotGarbage DEF QueueTypes, Take
<1>2. Len(disp') = 0 <=> disp' = <<>>
    BY <1>1, QueueOps
<1> QED
    BY <1>1, <1>2 DEF Empty, One, Two

(* The frame that was taken is done with.                                  *)
LEMMA ReleaseFlight ==
    ASSUME QueueTypes, nxtBuf # Garbage, nxtBuf' = Garbage, disp' = disp
    PROVE  /\ ~Empty
           /\ \A x \in Slots : One(x) => Carries(nxtBuf, x) /\ Empty'
           /\ \A x, y \in Slots : Two(x, y) => Carries(nxtBuf, x) /\ One(y)'
BY DEF Empty, One, Two

(* The first frame is in slot 0, and none is in flight before it.          *)
LEMMA InitHeld == Init => HeldInv
<1> SUFFICES ASSUME Init PROVE sets \in Nat /\ early \in Nat /\ Woken /\ PacedInv
    BY InitFrames DEF HeldInv
<1>1. Empty /\ cur_buf = currentBuffer /\ pc = "idle" /\ currentIdx = currentBuffer
    BY DEF Init, Empty
<1>2. InTurn /\ BeforePush
    BY <1>1 DEF Init, InTurn, BeforePush
<1> QED
    BY <1>1, <1>2 DEF Init, Woken, PacedInv, Entering, Waiting, Leaving

(* A signal is sent to the display after its frame was queued; it alone    *)
(* takes frames.                                                           *)
LEMMA WokenStep ==
    ASSUME HeldInv, Next
    PROVE  Woken'
<1> USE DEF HeldInv, Woken
<1>1. CASE push
    <2>1. disp' # <<>>
        <3>1. disp \in Seq(QBuf) /\ [buf |-> posting, idx |-> nxtIdx, frame |-> pushed'] \in QBuf
            BY <1>1, FramesAssumption
               DEF push, FramesInv, QueueTypes, BalanceInv, PostTypes, QBuf
        <3> QED
            BY <1>1, <3>1, QueueOps DEF push
    <2> QED
        BY <1>1, <2>1 DEF push, Signal, display
<1>2. CASE dequeue \/ leaveQueueWait
    BY <1>2 DEF dequeue, leaveQueueWait, wakeups
<1>3. CASE putScreen \/ lockAvail \/ release
    BY <1>3 DEF putScreen, lockAvail, release, Signal, wakeups
<1>4. CASE leaveWait
    BY <1>4 DEF leaveWait, display
<1>5. CASE \/ fb_setSwapInterval \/ fb_post \/ lockBuffer \/ markBusy \/ checkPrevious
           \/ unlockPrevious \/ setCurrent \/ reuseUnlock \/ reuseLock
    BY <1>5 DEF fb_setSwapInterval, fb_post, lockBuffer, markBusy, checkPrevious,
       unlockPrevious, setCurrent, reuseUnlock, reuseLock, display, wakeups
<1> QED
    BY <1>1, <1>2, <1>3, <1>4, <1>5
       DEF Next, InPost, disp_loop, wakePoster, earlyPoster, wakeDisplay, earlyDisplay

(* The interval was 1 before the step too, and no wait had returned early. *)
LEMMA PacedBefore ==
    ASSUME HeldInv, Next, InStep'
    PROVE  /\ InStep /\ ~fb_setSwapInterval
           /\ leaveWait => is_avail[currentIdx]
           /\ leaveQueueWait => disp # <<>>
BY DEF HeldInv, InStep, Paced, Next, fb_setSwapInterval, fb_post, InPost, lockBuffer, markBusy,
   push, checkPrevious, wakePoster, earlyPoster, leaveWait, unlockPrevious, setCurrent,
   reuseUnlock, reuseLock, disp_loop, dequeue, wakeDisplay, earlyDisplay, leaveQueueWait,
   putScreen, lockAvail, release, interval, wakeups

(* fb_post() queues a second frame only behind the current one, and goes   *)
(* on only when no more than its own is in flight.                         *)
LEMMA PacedPost ==
    ASSUME HeldInv, fb_post \/ InPost \/ earlyPoster
    PROVE  PacedInv'
<1> SUFFICES ASSUME InStep'
             PROVE  /\ InTurn'
                    /\ pc' \in Entering => BeforePush'
                    /\ pc' \in Waiting => AwaitsPrevious'
                    /\ pc' \in Leaving => MayReturn'
    BY DEF PacedInv
<1>1. /\ Paced /\ InTurn
      /\ pc \in Entering => BeforePush
      /\ pc \in Waiting => AwaitsPrevious
      /\ pc \in Leaving => MayReturn
      /\ leaveWait => is_avail[currentIdx]
      /\ leaveQueueWait => disp # <<>>
    BY PacedBefore DEF Next, HeldInv, PacedInv, InStep
<1>2. /\ posting \in Slots /\ currentBuffer \in Slots \cup {None}
      /\ is_avail \in [Slots -> BOOLEAN]
      /\ pc # "idle" => currentBuffer # posting
      /\ pc \in {"previous", "waiting", "unlock"} => currentBuffer # None
    BY DEF HeldInv, FramesInv, QueueTypes, BalanceInv, PostTypes, Distinct
<1>3. CASE fb_post
    <2>1. pc = "idle" /\ pc' = "lock"
        BY <1>1, <1>3 DEF fb_post, Paced
    <2>2. UNCHANGED <<is_avail, signalled, currentBuffer, currentIdx, disp, nxtBuf, cur_buf>>
        BY <1>3 DEF fb_post, display, wakeups
    <2>3. nxtIdx' = posting'
        <3>1. CASE currentBuffer = None
            BY <1>1, <1>3, <2>1, <3>1, NextNone DEF fb_post, InTurn
        <3>2. CASE currentBuffer # None
            BY <1>1, <1>3, <2>1, <3>2
               DEF fb_post, InTurn, HeldInv, FramesInv, BalanceInv, Distinct
        <3> QED
            BY <3>1, <3>2
    <2>4. InTurn'
        BY <1>1, <2>1, <2>2, <2>3 DEF InTurn
    <2>5. BeforePush'
        BY <1>1, <2>1, <2>2 DEF Entering, BeforePush, Empty, One
    <2> QED
        BY <2>1, <2>4, <2>5 DEF Waiting, Leaving
<1>4. CASE lockBuffer
    <2>1. pc = "lock" /\ pc' = "busy"
        BY <1>4 DEF lockBuffer
    <2>2. UNCHANGED <<is_avail, signalled, poster, display, disp>>
        BY <1>4 DEF lockBuffer, wakeups
    <2> QED
        BY <1>1, <2>1, <2>2
           DEF Entering, Waiting, Leaving, InTurn, BeforePush, Empty, One, poster, display
<1>5. CASE markBusy
    <2>1. pc = "busy" /\ pc' = "push" /\ ~is_avail'[posting]
        BY <1>1, <1>2, <1>5 DEF markBusy, InTurn
    <2>2. currentBuffer # None => is_avail'[currentBuffer] = is_avail[currentBuffer]
        BY <1>1, <1>2, <1>5, <2>1 DEF markBusy, InTurn
    <2>3. UNCHANGED <<signalled, poster, display, disp>>
        BY <1>5 DEF markBusy, wakeups
    <2> QED
        BY <1>1, <2>1, <2>2, <2>3
           DEF Entering, Waiting, Leaving, InTurn, BeforePush, Empty, One, poster, display
<1>6. CASE push
    <2> DEFINE e == [buf |-> posting, idx |-> nxtIdx, frame |-> pushed']
    <2>1. e \in QBuf
        BY <1>6, FramesAssumption
           DEF push, HeldInv, FramesInv, QueueTypes, BalanceInv, PostTypes, QBuf
    <2>2. disp' = Append(disp, e) /\ pc = "push"
        BY <1>6 DEF push
    <2>3. UNCHANGED <<is_avail, currentBuffer, currentIdx, posting, nxtIdx, nxtBuf, cur_buf>>
        BY <1>6 DEF push, display
    <2>4. nxtIdx = posting /\ BeforePush /\ "poster" \notin signalled'
        BY <1>1, <1>6, <2>2 DEF InTurn, Entering, push, Signal
    <2>5. Carries(e, posting)
        BY <2>4 DEF Carries
    <2> HIDE DEF e
    <2>6. CASE currentBuffer = None
        <3>1. Empty /\ cur_buf = currentBuffer /\ ~is_avail[posting] /\ pc' = "done"
            BY <1>6, <2>2, <2>4, <2>6 DEF BeforePush, push
        <3>2. One(posting)'
            <4> SUFFICES ASSUME NEW y, y = posting PROVE One(y)'
                BY <2>3 DEF One
            <4> QED
                BY <1>2, <2>1, <2>2, <2>3, <2>5, <3>1, PushFlight DEF HeldInv, FramesInv
        <3> QED
            BY <1>1, <2>3, <2>4, <3>1, <3>2
               DEF MayReturn, InTurn, Entering, Waiting, Leaving
    <2>7. CASE currentBuffer # None
        <3>1. pc' = "previous"
            BY <1>6, <2>7 DEF push
        <3>2. CASE /\ Empty /\ cur_buf = currentBuffer
                   /\ is_avail[posting] => ~is_avail[currentBuffer]
            <4>1. One(posting)'
                <5> SUFFICES ASSUME NEW y, y = posting PROVE One(y)'
                    BY <2>3 DEF One
                <5> QED
                    BY <1>2, <2>1, <2>2, <2>3, <2>5, <3>2, PushFlight DEF HeldInv, FramesInv
            <4> QED
                BY <1>1, <2>3, <2>4, <3>1, <3>2, <4>1
                   DEF AwaitsPrevious, InTurn, Entering, Waiting, Leaving
        <3>3. CASE /\ One(currentBuffer) /\ cur_buf # currentBuffer /\ ~is_avail[currentBuffer]
                   /\ is_avail[posting] => cur_buf # None
            <4>1. Two(currentBuffer, posting)'
                <5> SUFFICES ASSUME NEW x, x = currentBuffer, NEW y, y = posting
                             PROVE  Two(x, y)'
                    BY <2>3 DEF Two
                <5> QED
                    BY <1>2, <2>1, <2>2, <2>3, <2>5, <2>7, <3>3, PushFlight
                       DEF HeldInv, FramesInv
            <4> QED
                BY <1>1, <2>3, <2>4, <3>1, <3>3, <4>1
                   DEF AwaitsPrevious, InTurn, Entering, Waiting, Leaving
        <3> QED
            BY <2>2, <2>4, <3>2, <3>3 DEF BeforePush
    <2> QED
        BY <2>6, <2>7
<1>7. CASE checkPrevious
    <2>1. pc = "previous" /\ pc' = IF is_avail[currentBuffer] THEN "unlock" ELSE "waiting"
        BY <1>1, <1>7 DEF checkPrevious, Paced, InTurn
    <2>2. UNCHANGED <<is_avail, signalled, poster, display, disp>>
        BY <1>7 DEF checkPrevious, wakeups
    <2>3. AwaitsPrevious'
        BY <1>1, <2>1, <2>2
           DEF Waiting, AwaitsPrevious, Empty, One, Two, poster, display
    <2>4. is_avail[currentBuffer] => MayReturn'
        BY <1>1, <2>1, <2>2 DEF Waiting, AwaitsPrevious, MayReturn, Empty, One, poster, display
    <2> QED
        BY <1>1, <2>1, <2>2, <2>3, <2>4 DEF Entering, Waiting, Leaving, InTurn, poster, display
<1>8. CASE leaveWait
    <2>1. pc = "waiting" /\ pc' = "unlock" /\ is_avail[currentBuffer]
        BY <1>1, <1>8 DEF leaveWait, InTurn
    <2>2. is_avail' = is_avail /\ "poster" \notin signalled'
        BY <1>1, <1>2, <1>8, <2>1 DEF leaveWait, InTurn
    <2>3. UNCHANGED <<poster, display, disp>>
        BY <1>8 DEF leaveWait
    <2>4. MayReturn'
        BY <1>1, <2>1, <2>2, <2>3
           DEF Waiting, AwaitsPrevious, MayReturn, Empty, One, poster, display
    <2> QED
        BY <1>1, <2>1, <2>2, <2>3, <2>4 DEF Entering, Waiting, Leaving, InTurn, poster
<1>9. CASE unlockPrevious
    <2>1. pc = "unlock" /\ pc' = "done"
        BY <1>9 DEF unlockPrevious
    <2>2. UNCHANGED <<is_avail, signalled, poster, display, disp>>
        BY <1>9 DEF unlockPrevious, wakeups
    <2> QED
        BY <1>1, <2>1, <2>2
           DEF Entering, Waiting, Leaving, InTurn, MayReturn, Empty, One, poster, display
<1>10. CASE setCurrent
    <2>1. pc = "done" /\ pc' = "idle" /\ currentBuffer' = posting /\ currentIdx' = nxtIdx
        BY <1>10 DEF setCurrent
    <2>2. UNCHANGED <<is_avail, signalled, posting, nxtIdx, pushed, display, disp>>
        BY <1>10 DEF setCurrent, wakeups
    <2>3. posting # None
        BY <1>2, NumBuffersAssumption DEF Slots, None
    <2>4. InTurn'
        BY <1>1, <2>1, <2>2, <2>3 DEF InTurn
    <2>5. BeforePush'
        BY <1>1, <1>2, <2>1, <2>2, <2>3
           DEF Leaving, MayReturn, BeforePush, Empty, One, display
    <2> QED
        BY <2>1, <2>4, <2>5 DEF Waiting, Leaving
<1>11. CASE reuseUnlock \/ reuseLock
    BY <1>1, <1>11 DEF reuseUnlock, reuseLock, InTurn
<1> QED
    BY <1>3, <1>4, <1>5, <1>6, <1>7, <1>8, <1>9, <1>10, <1>11
       DEF InPost, wakePoster, earlyPoster

(* What is in flight leaves in order, and the record of the current slot   *)
(* is set only when no earlier frame is left.                              *)
LEMMA PacedDisplay ==
    ASSUME HeldInv, disp_loop \/ earlyDisplay
    PROVE  PacedInv'
<1> SUFFICES ASSUME InStep'
             PROVE  /\ InTurn'
                    /\ pc' \in Entering => BeforePush'
                    /\ pc' \in Waiting => AwaitsPrevious'
                    /\ pc' \in Leaving => MayReturn'
    BY DEF PacedInv
<1>1. /\ Paced /\ InTurn
      /\ pc \in Entering => BeforePush
      /\ pc \in Waiting => AwaitsPrevious
      /\ pc \in Leaving => MayReturn
      /\ leaveWait => is_avail[currentIdx]
      /\ leaveQueueWait => disp # <<>>
    BY PacedBefore DEF Next, HeldInv, PacedInv, InStep
<1>2. /\ posting \in Slots /\ currentBuffer \in Slots \cup {None}
      /\ is_avail \in [Slots -> BOOLEAN]
      /\ pc # "idle" => currentBuffer # posting
      /\ pc \in {"previous", "waiting", "unlock"} => currentBuffer # None
    BY DEF HeldInv, FramesInv, QueueTypes, BalanceInv, PostTypes, Distinct
<1>3. QueueTypes
    BY DEF HeldInv, FramesInv
<1>4. PICK x : x = currentBuffer
    OBVIOUS
<1>5. PICK y : y = posting
    OBVIOUS
<1>6. UNCHANGED <<pc, poster, interval>>
    BY DEF disp_loop, dequeue, wakeDisplay, earlyDisplay, leaveQueueWait, putScreen, lockAvail,
           release
<1>7. CASE /\ UNCHANGED <<is_avail, cur_buf>>
           /\ "poster" \in signalled' => "poster" \in signalled
           /\ \/ UNCHANGED <<disp, nxtBuf>>
              \/ nxtBuf = Garbage /\ disp # <<>> /\ Take
    <2>1. /\ Empty => Empty'
          /\ x \in Slots /\ One(x) => One(x)'
          /\ One(y) => One(y)'
          /\ x \in Slots /\ Two(x, y) => Two(x, y)'
        <3>1. CASE UNCHANGED <<disp, nxtBuf>>
            BY <3>1 DEF Empty, One, Two
        <3>2. CASE nxtBuf = Garbage /\ disp # <<>> /\ Take
            BY <1>2, <1>3, <1>5, <3>2, TakeFlight
        <3> QED
            BY <1>7, <3>1, <3>2
    <2>2. x = currentBuffer' /\ y = posting'
        BY <1>4, <1>5, <1>6 DEF poster
    <2>3. x \in Slots /\ One(x) => One(currentBuffer)'
        BY <2>1, <2>2 DEF One
    <2>4. One(y) => One(posting)'
        BY <2>1, <2>2 DEF One
    <2>5. x \in Slots /\ Two(x, y) => Two(currentBuffer, posting)'
        BY <2>1, <2>2 DEF Two
    <2>6. pc \in Entering => BeforePush'
        BY <1>1, <1>2, <1>4, <1>6, <1>7, <2>1, <2>3 DEF BeforePush, poster
    <2>7. pc \in Waiting => AwaitsPrevious'
        BY <1>1, <1>2, <1>4, <1>5, <1>6, <1>7, <2>1, <2>4, <2>5
           DEF AwaitsPrevious, Waiting, poster
    <2>8. pc \in Leaving => MayReturn'
        BY <1>1, <1>5, <1>6, <1>7, <2>1, <2>4 DEF MayReturn, poster
    <2>9. InTurn'
        BY <1>1, <1>6, <1>7 DEF InTurn, poster
    <2> QED
        BY <1>6, <2>6, <2>7, <2>8, <2>9
<1>8. CASE release
    <2>1. /\ nxtBuf # Garbage /\ nxtBuf' = Garbage /\ disp' = disp
          /\ cur_buf' = nxtBuf.idx
          /\ is_avail' = [is_avail EXCEPT ![Released] = TRUE]
          /\ Released = IF cur_buf = None THEN nxtBuf.idx ELSE cur_buf
        BY <1>3, <1>8 DEF release, QueueTypes, Released
    <2>2. /\ ~Empty
          /\ x \in Slots /\ One(x) => nxtBuf.idx = x /\ Empty'
          /\ One(y) => nxtBuf.idx = y /\ Empty'
          /\ x \in Slots /\ Two(x, y) => nxtBuf.idx = x /\ One(y)'
        BY <1>2, <1>3, <1>5, <2>1, ReleaseFlight DEF Carries
    <2>3. x \in Slots /\ Two(x, y) => One(posting)'
        BY <1>5, <1>6, <2>2 DEF One, poster
    <2>4. \A s \in Slots : is_avail'[s] = IF s = Released THEN TRUE ELSE is_avail[s]
        BY <1>2, <2>1
    <2>5. UNCHANGED <<posting, currentBuffer, currentIdx, nxtIdx>>
        BY <1>6 DEF poster
    <2> HIDE DEF Released
    <2>6. pc \in Entering => BeforePush'
        BY <1>1, <1>2, <1>4, <1>6, <2>1, <2>2, <2>4, <2>5 DEF BeforePush
    <2>7. pc \in Waiting => AwaitsPrevious'
        BY <1>1, <1>2, <1>4, <1>5, <1>6, <2>1, <2>2, <2>3, <2>4, <2>5
           DEF AwaitsPrevious, Waiting
    <2>8. pc \in Leaving => MayReturn'
        BY <1>1, <1>2, <1>5, <1>6, <2>1, <2>2, <2>5 DEF MayReturn
    <2>9. InTurn'
        <3>1. "poster" \in signalled' =>
                  "poster" \in signalled \/ (pc = "waiting" /\ currentIdx = Released)
            BY <1>8 DEF release, Signal
        <3>2. "poster" \in signalled' => pc = "waiting" /\ is_avail'[currentBuffer]
            BY <1>1, <1>2, <2>4, <3>1 DEF InTurn
        <3> QED
            BY <1>1, <1>6, <2>5, <3>2 DEF InTurn
    <2> QED
        BY <1>6, <2>6, <2>7, <2>8, <2>9
<1>9. CASE dequeue \/ leaveQueueWait \/ putScreen \/ lockAvail
    <2>1. /\ UNCHANGED <<is_avail, cur_buf>>
          /\ "poster" \in signalled' => "poster" \in signalled
        BY <1>9 DEF dequeue, leaveQueueWait, putScreen, lockAvail, wakeups
    <2>2. \/ UNCHANGED <<disp, nxtBuf>>
          \/ nxtBuf = Garbage /\ disp # <<>> /\ Take
        BY <1>1, <1>3, <1>9 DEF dequeue, leaveQueueWait, putScreen, lockAvail, QueueTypes
    <2> QED
        BY <1>7, <2>1, <2>2
<1> QED
    BY <1>8, <1>9 DEF disp_loop, wakeDisplay, earlyDisplay

(* Frames in flight while the interval is 1: two at most, both locked.     *)
LEMMA HeldIsQueueHeld == HeldInv => QueueHeld
<1> SUFFICES ASSUME HeldInv, InStep
             PROVE  /\ Len(disp) + (IF nxtBuf = Garbage THEN 0 ELSE 1) <= NumBuffers
                    /\ \A b \in {disp[i].buf : i \in 1..Len(disp)} : lockCount[b] > 0
    BY DEF QueueHeld, InStep
<1>1. /\ InTurn
      /\ pc \in Entering => BeforePush
      /\ pc \in Waiting => AwaitsPrevious
      /\ pc \in Leaving => MayReturn
      /\ posting \in Slots /\ currentBuffer \in Slots \cup {None}
      /\ pc \in Entering \cup Waiting \cup Leaving
    BY DEF HeldInv, PacedInv, FramesInv, BalanceInv, PostTypes, InTurn, Before, Both,
       Entering, Waiting, Leaving
<1>2. Len(disp) \in Nat /\ (disp = <<>> => Len(disp) = 0)
    BY DEF HeldInv, FramesInv, QueueTypes
<1>3. \/ Empty
      \/ One(currentBuffer) /\ currentBuffer # None /\ pc \in Entering
      \/ Two(currentBuffer, posting) /\ pc \in Waiting
      \/ One(posting) /\ pc \in Waiting \cup Leaving
    BY <1>1 DEF BeforePush, AwaitsPrevious, MayReturn
<1>4. /\ pc \in Entering /\ currentBuffer # None => lockCount[currentBuffer] = 1
      /\ pc \in Waiting => lockCount[currentBuffer] = 1
      /\ pc \in Waiting \cup Leaving => lockCount[posting] = 1
    BY <1>1 DEF HeldInv, FramesInv, BalanceInv, Counts, Distinct, Entering, Waiting, Leaving,
       Before, Both
<1>5. Len(disp) + (IF nxtBuf = Garbage THEN 0 ELSE 1) <= NumBuffers
    <2>1. \A n \in Nat : (n = 0 \/ n = 1 => n + 1 <= NumBuffers)
                         /\ (n = 0 \/ n = 1 \/ n = 2 => n + 0 <= NumBuffers)
        BY NumBuffersAssumption
    <2>2. CASE nxtBuf = Garbage
        <3>1. Len(disp) = 0 \/ Len(disp) = 1 \/ Len(disp) = 2
            BY <1>2, <1>3, <2>2 DEF Empty, One, Two
        <3> QED
            BY <1>2, <2>1, <2>2, <3>1
    <2>3. CASE nxtBuf # Garbage
        <3>1. Len(disp) = 0 \/ Len(disp) = 1
            BY <1>2, <1>3, <2>3 DEF Empty, One, Two
        <3> QED
            BY <1>2, <2>1, <2>3, <3>1
    <2> QED
        BY <2>2, <2>3
<1>6. ASSUME NEW i \in 1..Len(disp) PROVE lockCount[disp[i].buf] > 0
    BY <1>2, <1>3, <1>4, <1>6 DEF Empty, One, Two, Carries
<1> QED
    BY <1>5, <1>6

(* What is in flight, and who has been woken, after a step.                *)
LEMMA HeldStep ==
    ASSUME HeldInv, [Next]_vars
    PROVE  HeldInv'
<1>1. CASE UNCHANGED vars
    <2>1. FramesInv /\ UNCHANGED vars => FramesInv'
        BY FramesStep
    <2>2. /\ UNCHANGED vars
          /\ sets \in Nat /\ early \in Nat /\ Woken
          => (sets \in Nat /\ early \in Nat /\ Woken)'
        BY DEF Woken, vars, interval, wakeups, display
    <2>3. PacedInv /\ UNCHANGED vars => PacedInv'
        BY DEF PacedInv, InStep, Paced, InTurn, BeforePush, AwaitsPrevious, MayReturn,
           Empty, One, Two, vars, interval, wakeups, poster, display
    <2> QED
        BY <1>1, <2>1, <2>2, <2>3 DEF HeldInv
<1>2. ASSUME HeldInv, Next PROVE HeldInv'
    <2>1. FramesInv' /\ Woken'
        BY <1>2, FramesStep, WokenStep DEF HeldInv
    <2>2. sets' \in Nat /\ early' \in Nat
        BY <1>2 DEF HeldInv, Next, fb_setSwapInterval, fb_post, InPost, lockBuffer, markBusy,
           push, checkPrevious, wakePoster, earlyPoster, leaveWait, unlockPrevious, setCurrent,
           reuseUnlock, reuseLock, disp_loop, dequeue, wakeDisplay, earlyDisplay,
           leaveQueueWait, putScreen, lockAvail, release, interval, wakeups
    <2>3. PacedInv'
        BY <1>2, PacedBefore, PacedPost, PacedDisplay DEF Next, PacedInv
    <2> QED
        BY <2>1, <2>2, <2>3 DEF HeldInv
<1> QED
    BY <1>1, <1>2

(* While the interval is 1, and until a wait returns before what it waits  *)
(* for, no slot is in flight twice and none that waits for its turn may be *)
(* drawn into.                                                             *)
THEOREM QueueIsHeld == Spec => []QueueHeld
<1>1. HeldInv /\ [Next]_vars => HeldInv'
    BY HeldStep
<1> QED
    BY <1>1, InitHeld, HeldIsQueueHeld, PTL DEF Spec
-----------------------------------------------------------------------------
(***************************************************************************)
(* No thread waits in vain.  The display loop waits only while the queue   *)
(* is empty, or the signal has reached it; fb_post() only while a frame is *)
(* on its way to the screen, or the signal has reached it.  That frame is  *)
(* the one that makes the slot free which fb_post() looks at: LinkInv says *)
(* which slot each frame in flight releases, in the order of the queue.    *)
(***************************************************************************)

EachIsWoken ==
    /\ dpc = "waiting" /\ disp # <<>> => "display" \in signalled
    /\ ~Adrift /\ pc = "waiting" /\ "poster" \notin signalled =>
           disp # <<>> \/ nxtBuf # Garbage

(* A frame is queued or with the display loop.                             *)
InFlight == disp # <<>> \/ nxtBuf # Garbage

(* The slot whose frame was queued last, and the one before it, as far as  *)
(* they have not been released.                                            *)
LastInFlight ==
    IF disp # <<>> THEN disp[Len(disp)].idx
    ELSE IF nxtBuf # Garbage THEN nxtBuf.idx ELSE cur_buf

BeforeLast ==
    IF Len(disp) > 1 THEN disp[Len(disp) - 1].idx
    ELSE IF disp # <<>> /\ nxtBuf # Garbage THEN nxtBuf.idx ELSE cur_buf

(* The places of fb_post() after its frame was queued.                     *)
Queued == {"previous", "waiting", "unlock", "done"}

(* The last frame in flight is in the slot of the post: its own once it is *)
(* queued, else the one before; that before it is the one fb_post() waits  *)
(* for.                                                                    *)
Linked ==
    /\ pc \notin Queued => LastInFlight = currentIdx
    /\ pc \in Queued => LastInFlight = nxtIdx
    /\ pc \in Waiting /\ InFlight => BeforeLast = currentIdx

(* With nothing in flight the slot is free; while fb_post() waits without  *)
(* a signal it is not.                                                     *)
Answered ==
    /\ pc \in Waiting /\ ~InFlight => is_avail[currentIdx]
    /\ pc = "waiting" /\ "poster" \notin signalled => ~is_avail[currentIdx]

(* Before the first frame is queued no slot is taken, so that it is not    *)
(* dropped.                                                                *)
Fresh ==
    /\ currentBuffer = None <=> currentIdx = None
    /\ pc \in {"reuse", "reuse_lock"} => currentIdx # None
    /\ currentIdx = None /\ pc = "idle" =>
           ~InFlight /\ availLock = {} /\ \A i \in Slots : is_avail[i]
    /\ availLock = IF dpc = "release" THEN {Released} ELSE {}
    /\ pc # "idle" => nxtIdx \in Slots

LinkInv == HeldInv /\ Linked /\ Answered /\ Fresh /\ EachIsWoken

(* A frame that is queued becomes the last.                                *)
LEMMA PushLink ==
    ASSUME QueueTypes, NEW e \in QBuf, disp' = Append(disp, e), UNCHANGED <<nxtBuf, cur_buf>>
    PROVE  LastInFlight' = e.idx /\ BeforeLast' = LastInFlight /\ InFlight'
<1>1. /\ disp' # <<>> /\ Len(disp) \in Nat /\ Len(disp') = Len(disp) + 1
      /\ disp'[Len(disp) + 1] = e
      /\ \A i \in 1..Len(disp) : disp'[i] = disp[i]
      /\ Len(disp) = 0 <=> disp = <<>>
    BY QueueOps DEF QueueTypes
<1>2. LastInFlight' = e.idx /\ InFlight'
    BY <1>1 DEF LastInFlight, InFlight
<1>3. CASE disp = <<>>
    BY <1>1, <1>2, <1>3 DEF BeforeLast, LastInFlight
<1>4. CASE disp # <<>>
    <2>1. Len(disp') > 1 /\ Len(disp') - 1 = Len(disp) /\ disp'[Len(disp)] = disp[Len(disp)]
        BY <1>1, <1>4
    <2> QED
        BY <1>2, <1>4, <2>1 DEF BeforeLast, LastInFlight
<1> QED
    BY <1>1, <1>3, <1>4

(* Taking the head leaves the last two frames what they were.              *)
LEMMA TakeLink ==
    ASSUME QueueTypes, nxtBuf = Garbage, disp # <<>>, Take, cur_buf' = cur_buf
    PROVE  LastInFlight' = LastInFlight /\ BeforeLast' = BeforeLast /\ InFlight /\ InFlight'
<1>1. /\ nxtBuf' = disp[1] /\ nxtBuf' # Garbage
      /\ Len(disp) \in Nat \ {0} /\ Len(disp') = Len(disp) - 1
      /\ \A i \in 1..(Len(disp) - 1) : disp'[i] = disp[i + 1]
      /\ disp' \in Seq(QBuf)
    BY QueueOps, QBufIsNotGarbage DEF QueueTypes, Take
<1>2. disp' = <<>> <=> Len(disp) = 1
    BY <1>1, QueueOps
<1>3. InFlight /\ InFlight'
    BY <1>1 DEF InFlight
<1>4. CASE Len(disp) = 1
    BY <1>1, <1>2, <1>3, <1>4 DEF LastInFlight, BeforeLast
<1>5. CASE Len(disp) = 2
    BY <1>1, <1>2, <1>3, <1>5 DEF LastInFlight, BeforeLast
<1>6. CASE Len(disp) > 2
    <2>1. /\ disp'[Len(disp')] = disp[Len(disp)] /\ Len(disp') > 1
          /\ disp'[Len(disp') - 1] = disp[Len(disp) - 1]
        BY <1>1, <1>6
    <2> QED
        BY <1>1, <1>2, <1>3, <1>6, <2>1 DEF LastInFlight, BeforeLast
<1> QED
    BY <1>1, <1>4, <1>5, <1>6

(* So does releasing a slot, and then the frame shown takes its place.     *)
LEMMA ReleaseLink ==
    ASSUME QueueTypes, nxtBuf # Garbage, nxtBuf' = Garbage, disp' = disp, cur_buf' = nxtBuf.idx
    PROVE  /\ LastInFlight' = LastInFlight
           /\ InFlight' <=> disp # <<>>
           /\ disp # <<>> => BeforeLast' = BeforeLast
           /\ disp = <<>> => BeforeLast = cur_buf
<1>1. disp = <<>> <=> Len(disp) = 0
    BY QueueOps DEF QueueTypes
<1> QED
    BY <1>1 DEF LastInFlight, BeforeLast, InFlight

(* At first nothing is in flight and nobody waits.                         *)
LEMMA InitLinked == Init => LinkInv
<1> SUFFICES ASSUME Init PROVE Linked /\ Answered /\ Fresh /\ EachIsWoken
    BY InitHeld DEF LinkInv
<1>1. disp = <<>> /\ Len(disp) = 0 /\ nxtBuf = Garbage /\ cur_buf = None /\ pc = "idle"
    BY DEF Init
<1>2. currentBuffer = None /\ currentIdx = None /\ availLock = {} /\ dpc = "top"
      /\ \A i \in Slots : is_avail[i]
    BY DEF Init
<1> QED
    BY <1>1, <1>2 DEF Linked, Answered, Fresh, EachIsWoken, LastInFlight, InFlight, Queued, Waiting

(* What is known before a step.                                            *)
LEMMA Known ==
    ASSUME LinkInv
    PROVE  /\ QueueTypes /\ Woken
           /\ posting \in Slots /\ currentBuffer \in Slots \cup {None}
           /\ pc \in {"previous", "waiting", "unlock"} => currentIdx \in Slots
           /\ pc \in Before \cup Both \cup {"done", "reuse_lock"}
           /\ None \notin Slots
BY NumBuffersAssumption
   DEF LinkInv, HeldInv, FramesInv, BalanceInv, PostTypes, Distinct, QueueTypes, Fresh, Slots, None

(* fb_post() and its steps.                                                *)
LEMMA LinkedPost ==
    ASSUME LinkInv, fb_post \/ InPost \/ earlyPoster
    PROVE  Linked' /\ Answered' /\ Fresh' /\ EachIsWoken'
<1> USE DEF Queued, Waiting
<1>1. /\ QueueTypes /\ Woken
      /\ posting \in Slots /\ currentBuffer \in Slots \cup {None}
      /\ pc \in {"previous", "waiting", "unlock"} => currentIdx \in Slots
      /\ None \notin Slots
      /\ Linked /\ Answered /\ Fresh /\ EachIsWoken
    BY Known DEF LinkInv
<1>2. UNCHANGED display
    BY DEF fb_post, InPost, lockBuffer, markBusy, push, checkPrevious, wakePoster, earlyPoster,
           leaveWait, unlockPrevious, setCurrent, reuseUnlock, reuseLock
<1>3. /\ Released' = Released /\ Adrift' = Adrift
      /\ disp' = disp => /\ LastInFlight' = LastInFlight /\ BeforeLast' = BeforeLast
                         /\ InFlight' <=> InFlight
    BY <1>2 DEF display, LastInFlight, BeforeLast, InFlight, Released, Adrift
<1>4. CASE fb_post
    <2>1. /\ pc = "idle" /\ pc' \in {"reuse", "lock"}
          /\ UNCHANGED <<disp, is_avail, availLock, signalled, currentBuffer, currentIdx>>
        BY <1>4 DEF fb_post, wakeups
    <2>2. nxtIdx' \in Slots
        <3>1. currentIdx \in Slots \cup {None} /\ nxtIdx' = (currentIdx + 1) % NumBuffers
            BY <1>1, <1>4 DEF QueueTypes, fb_post
        <3> QED
            BY <3>1, NextSlot
    <2>3. pc' = "reuse" => currentIdx # None
        <3>1. pc' = "reuse" => nxtIdx' \in availLock \/ ~is_avail[nxtIdx']
            BY <1>4 DEF fb_post
        <3> QED
            BY <1>1, <2>1, <2>2, <3>1 DEF Fresh
    <2>4. Fresh'
        BY <1>1, <1>2, <1>3, <2>1, <2>2, <2>3 DEF Fresh, display
    <2> QED
        BY <1>1, <1>2, <1>3, <2>1, <2>4 DEF Linked, Answered, EachIsWoken, display
<1>5. CASE lockBuffer
    BY <1>1, <1>2, <1>3, <1>5
       DEF lockBuffer, wakeups, poster, Linked, Answered, Fresh, EachIsWoken, display
<1>6. CASE markBusy
    BY <1>1, <1>2, <1>3, <1>6
       DEF markBusy, wakeups, poster, Linked, Answered, Fresh, EachIsWoken, display
<1>7. CASE push
    <2> DEFINE e == [buf |-> posting, idx |-> nxtIdx, frame |-> pushed']
    <2>1. e \in QBuf /\ e.idx = nxtIdx
        BY <1>1, <1>7, FramesAssumption DEF push, QueueTypes, QBuf
    <2>2. disp' = Append(disp, e) /\ UNCHANGED <<nxtBuf, cur_buf>>
        BY <1>2, <1>7 DEF push, display
    <2> HIDE DEF e
    <2>3. LastInFlight' = nxtIdx /\ BeforeLast' = LastInFlight /\ InFlight'
        BY <1>1, <2>1, <2>2, PushLink
    <2>4. /\ pc = "push" /\ pc' \in {"previous", "done"}
          /\ UNCHANGED <<is_avail, availLock, currentBuffer, currentIdx, nxtIdx, dpc>>
        BY <1>2, <1>7 DEF push, display
    <2>5. Linked' /\ Answered'
        BY <1>1, <2>3, <2>4 DEF Linked, Answered
    <2>7. Fresh'
        BY <1>1, <1>3, <2>4 DEF Fresh
    <2>6. dpc' = "waiting" => "display" \in signalled'
        BY <1>7, <2>4 DEF push, Signal
    <2> QED
        BY <2>3, <2>4, <2>5, <2>6, <2>7 DEF EachIsWoken, InFlight
<1>8. CASE checkPrevious
    <2>1. /\ pc = "previous" /\ pc' \in {"unlock", "waiting"}
          /\ pc' = "waiting" => ~is_avail[currentIdx]
          /\ UNCHANGED <<disp, is_avail, availLock, signalled, poster>>
        BY <1>8 DEF checkPrevious, wakeups
    <2>2. pc' = "waiting" => InFlight
        BY <1>1, <2>1 DEF Answered
    <2> QED
        BY <1>1, <1>2, <1>3, <2>1, <2>2
           DEF Linked, Answered, Fresh, EachIsWoken, InFlight, poster, display
<1>9. CASE leaveWait
    <2>1. /\ pc = "waiting" /\ pc' = "unlock" /\ signalled' = signalled \ {"poster"}
          /\ UNCHANGED <<disp, availLock, poster>>
        BY <1>9 DEF leaveWait
    <2>2. currentIdx # None
        BY <1>1, <2>1
    <2> QED
        BY <1>1, <1>2, <1>3, <2>1, <2>2
           DEF Linked, Answered, Fresh, EachIsWoken, poster, display
<1>10. CASE unlockPrevious
    BY <1>1, <1>2, <1>3, <1>10
       DEF unlockPrevious, wakeups, poster, Linked, Answered, Fresh, EachIsWoken, display
<1>11. CASE setCurrent
    <2>1. /\ pc = "done" /\ pc' = "idle" /\ currentIdx' = nxtIdx /\ currentBuffer' = posting
          /\ nxtIdx \in Slots
          /\ UNCHANGED <<disp, is_avail, availLock, signalled, nxtIdx>>
        BY <1>1, <1>11 DEF setCurrent, wakeups, Fresh
    <2> QED
        BY <1>1, <1>2, <1>3, <2>1 DEF Linked, Answered, Fresh, EachIsWoken, display
<1>12. CASE reuseUnlock
    BY <1>1, <1>2, <1>3, <1>12
       DEF reuseUnlock, wakeups, poster, Linked, Answered, Fresh, EachIsWoken, display
<1>13. CASE reuseLock
    BY <1>1, <1>2, <1>3, <1>13
       DEF reuseLock, wakeups, Linked, Answered, Fresh, EachIsWoken, display
<1> QED
    BY <1>4, <1>5, <1>6, <1>7, <1>8, <1>9, <1>10, <1>11, <1>12, <1>13
       DEF InPost, wakePoster, earlyPoster

(* The display loop.  The release of the last frame but one is the one     *)
(* fb_post() waits for.                                                    *)
LEMMA LinkedDisplay ==
    ASSUME LinkInv, disp_loop \/ earlyDisplay
    PROVE  Linked' /\ Answered' /\ Fresh' /\ EachIsWoken'
<1> USE DEF Queued, Waiting
<1>1. /\ QueueTypes /\ Woken
      /\ pc \in {"previous", "waiting", "unlock"} => currentIdx \in Slots
      /\ None \notin Slots
      /\ Linked /\ Answered /\ Fresh /\ EachIsWoken
    BY Known DEF LinkInv
<1>2. UNCHANGED <<pc, poster>>
    BY DEF disp_loop, dequeue, wakeDisplay, earlyDisplay, leaveQueueWait, putScreen, lockAvail,
           release
<1>3. CASE (dequeue \/ leaveQueueWait) /\ Take /\ disp # <<>>
    <2>1. /\ disp # <<>> /\ nxtBuf = Garbage /\ dpc' = "post"
          /\ UNCHANGED <<is_avail, availLock, cur_buf>> /\ dpc # "release" /\ ~Adrift
          /\ "poster" \in signalled' <=> "poster" \in signalled
        BY <1>1, <1>3 DEF dequeue, leaveQueueWait, wakeups, QueueTypes, Take, Adrift
    <2>2. LastInFlight' = LastInFlight /\ BeforeLast' = BeforeLast /\ InFlight /\ InFlight'
        BY <1>1, <1>3, <2>1, TakeLink
    <2>3. Linked'
        BY <1>1, <1>2, <2>2 DEF Linked, poster
    <2>4. Answered'
        BY <1>1, <1>2, <2>1, <2>2 DEF Answered, poster
    <2>5. Fresh'
        BY <1>1, <1>2, <2>1, <2>2 DEF Fresh, poster
    <2> QED
        BY <2>1, <2>2, <2>3, <2>4, <2>5 DEF EachIsWoken, InFlight
<1>4. CASE \/ dequeue /\ disp = <<>> /\ dpc' = "waiting"
           \/ leaveQueueWait /\ disp = <<>>
           \/ putScreen
    <2>1. /\ UNCHANGED <<disp, nxtBuf, cur_buf, is_avail, availLock>>
          /\ "poster" \in signalled' <=> "poster" \in signalled
          /\ dpc # "release" /\ dpc' # "release" /\ (dpc' = "waiting" => disp = <<>>)
          /\ ~Adrift
        BY <1>1, <1>4 DEF dequeue, putScreen, leaveQueueWait, wakeups, Take, QueueTypes, Adrift
    <2>2. /\ LastInFlight' = LastInFlight /\ BeforeLast' = BeforeLast
          /\ InFlight' <=> InFlight
        BY <2>1 DEF LastInFlight, BeforeLast, InFlight
    <2>3. Linked' /\ Answered'
        BY <1>1, <1>2, <2>1, <2>2 DEF Linked, Answered, poster
    <2>4. Fresh'
        BY <1>1, <1>2, <2>1, <2>2 DEF Fresh, poster
    <2> QED
        BY <1>1, <1>2, <2>1, <2>3, <2>4 DEF EachIsWoken
<1>5. CASE lockAvail
    <2>1. /\ UNCHANGED <<disp, nxtBuf, cur_buf, is_avail, signalled>>
          /\ dpc = "lock" /\ dpc' = "release" /\ nxtBuf # Garbage
        BY <1>1, <1>5 DEF lockAvail, wakeups, QueueTypes
    <2>2. /\ LastInFlight' = LastInFlight /\ BeforeLast' = BeforeLast /\ InFlight' /\ InFlight
        BY <2>1 DEF LastInFlight, BeforeLast, InFlight
    <2>3. availLock' = {Released'}
        BY <1>1, <1>5, <2>1 DEF lockAvail, Fresh, Released
    <2> QED
        BY <1>1, <1>2, <2>1, <2>2, <2>3 DEF Linked, Answered, Fresh, EachIsWoken, poster
<1>6. CASE release
    <2>1. /\ dpc = "release" /\ dpc' = "top"
          /\ nxtBuf # Garbage /\ nxtBuf' = Garbage /\ disp' = disp /\ cur_buf' = nxtBuf.idx
          /\ is_avail' = [is_avail EXCEPT ![Released] = TRUE]
          /\ signalled' = Signal("poster", pc = "waiting" /\ currentIdx = Released)
          /\ availLock' = availLock \ {Released}
        BY <1>1, <1>6 DEF release, QueueTypes
    <2>2. /\ LastInFlight' = LastInFlight
          /\ InFlight' <=> disp # <<>>
          /\ disp # <<>> => BeforeLast' = BeforeLast
          /\ disp = <<>> => BeforeLast = cur_buf
          /\ InFlight
        BY <1>1, <2>1, ReleaseLink DEF InFlight
    <2>3. pc \in Waiting /\ disp = <<>> => Released = currentIdx
        BY <1>1, <2>2 DEF Linked, Released
    <2> HIDE DEF Released
    <2>4. /\ pc \in Waiting /\ Released = currentIdx => is_avail'[currentIdx]
          /\ pc \in Waiting /\ Released # currentIdx =>
                 is_avail'[currentIdx] = is_avail[currentIdx]
        BY <1>1, <2>1 DEF QueueTypes
    <2>5. Linked'
        BY <1>1, <1>2, <2>2 DEF Linked, poster
    <2>6. Answered'
        BY <1>1, <1>2, <2>1, <2>2, <2>3, <2>4 DEF Answered, Signal, poster
    <2>7. availLock' = {}
        BY <1>1, <2>1 DEF Fresh
    <2>8. Fresh'
        BY <1>1, <1>2, <2>1, <2>2, <2>7 DEF Fresh, poster
    <2>9. EachIsWoken'
        BY <1>1, <1>2, <2>1, <2>2, <2>3, <2>6 DEF EachIsWoken, InFlight, Signal
    <2> QED
        BY <2>5, <2>6, <2>8, <2>9
<1> QED
    BY <1>3, <1>4, <1>5, <1>6
       DEF disp_loop, dequeue, wakeDisplay, earlyDisplay, leaveQueueWait

(* The signals of the queue and of the slots are not lost: whoever waits   *)
(* has been signalled, or what it waits for is on its way (framebuffer.cpp *)
(* 139-144, 400-419); unless the display loop uses a buffer it took from   *)
(* the empty queue.  With that the threads' own steps end every wait.      *)
THEOREM NoWaitIsInVain == Spec => []EachIsWoken
<1>1. LinkInv /\ [Next]_vars => LinkInv'
    <2>1. HeldInv /\ [Next]_vars => HeldInv'
        BY HeldStep
    <2>2. ASSUME LinkInv, fb_setSwapInterval \/ UNCHANGED vars
          PROVE  Linked' /\ Answered' /\ Fresh' /\ EachIsWoken'
        BY <2>2 DEF fb_setSwapInterval, vars, poster, wakeups, display, Adrift, LinkInv, Linked,
           Answered, Fresh,
               EachIsWoken, LastInFlight, BeforeLast, InFlight, Released
    <2> QED
        BY <2>1, <2>2, LinkedPost, LinkedDisplay DEF LinkInv, Next
<1> QED
    BY <1>1, InitLinked, PTL DEF Spec, LinkInv
=============================================================================
