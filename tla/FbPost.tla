------------------------------- MODULE FbPost -------------------------------
(***************************************************************************)
(* Page flipping (libgralloc/framebuffer.cpp): fb_post(), called by the    *)
(* thread that composes frames, hands a slot of the framebuffer to         *)
(* disp_loop(), the thread that puts it on the screen.  The composing      *)
(* thread also calls setSwapInterval().  The module starts where           *)
(* mapFrameBufferLocked() has created the queue, the availability records  *)
(* and the thread.                                                         *)
(*                                                                         *)
(* One thread at a time posts, and it posts the slots in turn: the window  *)
(* that owns them dequeues them round robin (it is not in this             *)
(* repository).  A slot whose lock count is 0 may be drawn into.           *)
(***************************************************************************)
EXTENDS Integers, Sequences

CONSTANTS
    NumBuffers,      \* NUM_BUFFERS
    SwapIntervals,   \* those the program sets
    MaxSets,         \* bound: how many times it changes the interval
    MaxEarly,        \* bound: how many waits return before what they wait for
    IoctlFails,      \* whether FBIOPUT_VSCREENINFO may fail
    Frames           \* frames are numbered modulo this

ASSUME NumBuffersAssumption == NumBuffers \in Nat /\ NumBuffers > 1
ASSUME SwapIntervalsAssumption == SwapIntervals \subseteq 0..1 /\ SwapIntervals # {}
ASSUME MaxSetsAssumption == MaxSets \in Nat /\ MaxEarly \in Nat
ASSUME IoctlAssumption == IoctlFails \in BOOLEAN
ASSUME FramesAssumption == Frames \in Nat \ {0}

Slots == 0..(NumBuffers - 1)
None == -1

(* An entry of the queue (qbuf_t), with the number of its frame; what      *)
(* getHeadValue() returns of an empty queue was never written.             *)
Garbage == [buf |-> None, idx |-> None, frame |-> None]

VARIABLES
    swapInterval, sets,
    currentBuffer, currentIdx,
    is_avail,        \* avail[i].is_avail
    availLock,       \* the slots whose avail[i].lock disp_loop holds
    disp,            \* the queue
    lockCount,       \* the handles' lock counts (HandleLock)
    pc, posting, nxtIdx,
    dpc, nxtBuf, cur_buf,
    signalled,       \* threads a signal has reached in pthread_cond_wait()
    early,           \* how many waits have returned before what they wait for
    screen,          \* the slot the controller scans out
    pushed, shown    \* the last frame queued, and the last taken to display

interval == <<swapInterval, sets>>
wakeups == <<signalled, early>>
poster == <<currentBuffer, currentIdx, posting, nxtIdx, pushed>>
display == <<dpc, nxtBuf, cur_buf, screen, shown>>
vars == <<interval, is_avail, availLock, disp, lockCount, pc, wakeups,
          poster, display>>

Init ==
    /\ swapInterval \in SwapIntervals /\ sets = 0
    /\ currentBuffer = None /\ currentIdx = None
    /\ is_avail = [i \in Slots |-> TRUE]
    /\ availLock = {}
    /\ disp = <<>>
    /\ lockCount = [b \in Slots |-> 0]
    /\ pc = "idle" /\ posting = NumBuffers - 1 /\ nxtIdx = None
    /\ dpc = "top" /\ nxtBuf = Garbage /\ cur_buf = None
    /\ signalled = {} /\ early = 0
    /\ screen = None
    /\ pushed = 0 /\ shown = 0

fb_setSwapInterval ==
    /\ pc = "idle"
    /\ sets < MaxSets
    /\ sets' = sets + 1
    /\ swapInterval' \in SwapIntervals \ {swapInterval}
    /\ UNCHANGED <<is_avail, availLock, disp, lockCount, pc, wakeups, poster, display>>
-----------------------------------------------------------------------------
(* fb_post() is entered: with no swap interval the next slot is looked at, *)
(* and the frame is dropped when it is not available.                      *)
fb_post ==
    /\ pc = "idle"
    /\ posting' = (posting + 1) % NumBuffers
    /\ nxtIdx' = (currentIdx + 1) % NumBuffers
    /\ LET reuse == /\ swapInterval = 0
                    /\ nxtIdx' \in availLock \/ ~is_avail[nxtIdx']
       IN  pc' = IF reuse THEN "reuse" ELSE "lock"
    /\ UNCHANGED <<interval, is_avail, availLock, disp, lockCount, wakeups,
                   currentBuffer, currentIdx, pushed, display>>

lockBuffer ==
    /\ pc = "lock"
    /\ lockCount' = [lockCount EXCEPT ![posting] = @ + 1]
    /\ pc' = "busy"
    /\ UNCHANGED <<interval, is_avail, availLock, disp, wakeups, poster, display>>

markBusy ==
    /\ pc = "busy"
    /\ nxtIdx \notin availLock
    /\ is_avail' = [is_avail EXCEPT ![nxtIdx] = FALSE]
    /\ pc' = "push"
    /\ UNCHANGED <<interval, availLock, disp, lockCount, wakeups, poster, display>>

(* Mutants.  An operator whose name ends in _X<n> is a changed form of the *)
(* definition after it, the way a bug would change it; nothing uses it.    *)
Signal_X1(thread, waits) == signalled

(* pthread_cond_signal(): it reaches the thread only if that waits.        *)
Signal(thread, waits) == IF waits THEN signalled \cup {thread} ELSE signalled

push ==
    /\ pc = "push"
    /\ pushed' = (pushed + 1) % Frames
    /\ disp' = Append(disp, [buf |-> posting, idx |-> nxtIdx, frame |-> pushed'])
    /\ signalled' = Signal("display", dpc = "waiting")
    /\ pc' = IF currentBuffer = None THEN "done" ELSE "previous"
    /\ UNCHANGED <<interval, is_avail, availLock, lockCount, early,
                   currentBuffer, currentIdx, posting, nxtIdx, display>>

checkPrevious_X1 ==                        \* waits without looking
    /\ pc = "previous"
    /\ pc' = IF swapInterval = 0 THEN "unlock" ELSE "waiting"
    /\ UNCHANGED <<interval, is_avail, availLock, disp, lockCount, wakeups,
                   poster, display>>

checkPrevious ==
    /\ pc = "previous"
    /\ \/ swapInterval = 0 /\ pc' = "unlock"
       \/ /\ swapInterval # 0
          /\ currentIdx \notin availLock
          /\ pc' = IF is_avail[currentIdx] THEN "unlock" ELSE "waiting"
    /\ UNCHANGED <<interval, is_avail, availLock, disp, lockCount, wakeups,
                   poster, display>>

(* pthread_cond_wait() returns, and fb_post() does not look again.         *)
leaveWait ==
    /\ pc = "waiting"
    /\ currentIdx \notin availLock
    /\ early' = IF is_avail[currentIdx] THEN early ELSE early + 1
    /\ signalled' = signalled \ {"poster"}
    /\ is_avail' = [is_avail EXCEPT ![currentIdx] = TRUE]
    /\ pc' = "unlock"
    /\ UNCHANGED <<interval, availLock, disp, lockCount, poster, display>>

wakePoster == "poster" \in signalled /\ leaveWait

(* POSIX lets the wait return unsignalled as well.                         *)
earlyPoster == early < MaxEarly /\ "poster" \notin signalled /\ leaveWait

unlockPrevious_X1 ==                       \* the wrong buffer
    /\ pc = "unlock"
    /\ lockCount' = [lockCount EXCEPT ![posting] = @ - 1]
    /\ pc' = "done"
    /\ UNCHANGED <<interval, is_avail, availLock, disp, wakeups, poster, display>>

unlockPrevious ==
    /\ pc = "unlock"
    /\ lockCount' = [lockCount EXCEPT ![currentBuffer] = @ - 1]
    /\ pc' = "done"
    /\ UNCHANGED <<interval, is_avail, availLock, disp, wakeups, poster, display>>

setCurrent ==
    /\ pc = "done"
    /\ currentBuffer' = posting
    /\ currentIdx' = nxtIdx
    /\ pc' = "idle"
    /\ UNCHANGED <<interval, is_avail, availLock, disp, lockCount, wakeups,
                   posting, nxtIdx, pushed, display>>

reuseUnlock_X1 ==                          \* the current buffer is not unlocked
    /\ pc = "reuse"
    /\ pc' = "reuse_lock"
    /\ UNCHANGED <<interval, is_avail, availLock, disp, lockCount, wakeups, poster, display>>

(* The frame is dropped; its buffer becomes the current one, in the        *)
(* current slot.                                                           *)
reuseUnlock ==
    /\ pc = "reuse"
    /\ lockCount' = IF currentBuffer = None THEN lockCount
                    ELSE [lockCount EXCEPT ![currentBuffer] = @ - 1]
    /\ pc' = "reuse_lock"
    /\ UNCHANGED <<interval, is_avail, availLock, disp, wakeups, poster, display>>

reuseLock ==
    /\ pc = "reuse_lock"
    /\ lockCount' = [lockCount EXCEPT ![posting] = @ + 1]
    /\ currentBuffer' = posting
    /\ pc' = "idle"
    /\ UNCHANGED <<interval, is_avail, availLock, disp, wakeups,
                   currentIdx, posting, nxtIdx, pushed, display>>
-----------------------------------------------------------------------------
Take_X1 ==                                 \* the newest first
    /\ disp # <<>>
    /\ nxtBuf' = disp[Len(disp)]
    /\ disp' = SubSeq(disp, 1, Len(disp) - 1)
    /\ dpc' = "post"

(* The head is taken without a second look at the queue after the wait.    *)
Take ==
    /\ nxtBuf' = IF disp = <<>> THEN Garbage ELSE Head(disp)
    /\ disp' = IF disp = <<>> THEN disp ELSE Tail(disp)
    /\ dpc' = "post"

dequeue ==
    /\ dpc = "top"
    /\ \/ disp # <<>> /\ Take
       \/ disp = <<>> /\ dpc' = "waiting" /\ UNCHANGED <<disp, nxtBuf>>
    /\ UNCHANGED <<interval, is_avail, availLock, lockCount, pc, wakeups, poster,
                   cur_buf, screen, shown>>

leaveQueueWait ==
    /\ dpc = "waiting"
    /\ early' = IF disp # <<>> THEN early ELSE early + 1
    /\ signalled' = signalled \ {"display"}
    /\ Take
    /\ UNCHANGED <<interval, is_avail, availLock, lockCount, pc, poster,
                   cur_buf, screen, shown>>

wakeDisplay == "display" \in signalled /\ leaveQueueWait

earlyDisplay == early < MaxEarly /\ "display" \notin signalled /\ leaveQueueWait

(* FBIOPUT_VSCREENINFO; when it fails the screen keeps what it shows, and  *)
(* the loop goes on as if it had not.  A loop that took what was never     *)
(* queued uses a buffer's address that was never written, and is followed  *)
(* no further.                                                             *)
putScreen ==
    /\ dpc = "post"
    /\ nxtBuf # Garbage
    /\ screen' \in {nxtBuf.buf} \cup (IF IoctlFails THEN {screen} ELSE {})
    /\ shown' = nxtBuf.frame
    /\ dpc' = "lock"
    /\ UNCHANGED <<interval, is_avail, availLock, disp, lockCount, pc, wakeups,
                   poster, nxtBuf, cur_buf>>

(* The slot to release: the one shown before, or at first this one.        *)
Released == IF cur_buf = None THEN nxtBuf.idx ELSE cur_buf

lockAvail ==
    /\ dpc = "lock"
    /\ availLock' = availLock \cup {Released}
    /\ dpc' = "release"
    /\ UNCHANGED <<interval, is_avail, disp, lockCount, pc, wakeups, poster,
                   nxtBuf, cur_buf, screen, shown>>

release ==
    /\ dpc = "release"
    /\ is_avail' = [is_avail EXCEPT ![Released] = TRUE]
    /\ signalled' = Signal("poster", pc = "waiting" /\ currentIdx = Released)
    /\ availLock' = availLock \ {Released}
    /\ cur_buf' = nxtBuf.idx
    /\ nxtBuf' = Garbage
    /\ dpc' = "top"
    /\ UNCHANGED <<interval, disp, lockCount, pc, early, poster, screen, shown>>

InPost ==
    \/ lockBuffer \/ markBusy \/ push \/ checkPrevious \/ wakePoster
    \/ unlockPrevious \/ setCurrent \/ reuseUnlock \/ reuseLock

disp_loop == dequeue \/ wakeDisplay \/ putScreen \/ lockAvail \/ release

Next ==
    \/ fb_setSwapInterval \/ fb_post \/ InPost \/ disp_loop
    \/ earlyPoster \/ earlyDisplay

(* Both threads are scheduled; nothing makes the composer post again, or a *)
(* wait return unsignalled.                                                *)
Fairness == WF_vars(InPost) /\ WF_vars(disp_loop)

Spec == Init /\ [][Next]_vars /\ Fairness
-----------------------------------------------------------------------------
(* Frames reach the screen in the order they were posted, none twice and   *)
(* none left out.                                                          *)
ShownInOrder == [][shown' # shown => shown' = (shown + 1) % Frames]_vars

Paced == sets = 0 /\ swapInterval = 1

(* The queue has no limit of its own, but while the interval is 1 the      *)
(* composer is held back: no slot is in flight twice, and a frame that     *)
(* waits for its turn is not drawn over.  (An interval of 0 does not hold  *)
(* it back, and the next frame at 1 is queued without a look at its slot.) *)
(* It is held back by a wait that is not repeated, so only until a wait    *)
(* returns early.                                                          *)
QueueHeld ==
    Paced /\ early = 0 =>
        /\ Len(disp) + (IF nxtBuf = Garbage THEN 0 ELSE 1) <= NumBuffers
        /\ \A b \in {disp[i].buf : i \in 1..Len(disp)} : lockCount[b] > 0

(* Between two posts exactly the current buffer is locked, once, whatever  *)
(* mixture of queued and dropped frames went before.                       *)
LockBalance ==
    pc = "idle" => lockCount = [b \in Slots |-> IF b = currentBuffer THEN 1 ELSE 0]

(* The display loop has taken a buffer from the empty queue.               *)
Adrift == dpc = "post" /\ nxtBuf = Garbage

(* A post returns: the signal it waits for is neither lost nor sent to a   *)
(* slot that will not be displayed.                                        *)
PostReturns == pc # "idle" ~> pc = "idle" \/ Adrift

(* Every frame queued is taken to the display.                             *)
EveryFrameShown == \A f \in 0..(Frames - 1) : pushed = f ~> shown = f \/ Adrift

(* framebuffer.cpp:424: "after new buffer grabbed by MDP can unlock        *)
(* previous (current) buffer".  A buffer is unlocked only once another is  *)
(* on the screen.                                                          *)
GrabbedBeforeUnlock == [][pc = "unlock" /\ pc' = "done" => screen # currentBuffer]_vars
=============================================================================
