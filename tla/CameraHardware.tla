--------------------------- MODULE CameraHardware ---------------------------
(***************************************************************************)
(* QualcommCameraHardware (libcamera/QualcommCameraHardware.cpp) for       *)
(* TARGET_MSM7627: the calls of the camera service, which hold mLock from  *)
(* the first to the last statement, and the detached threads they start:   *)
(* one that receives preview frames, one that focuses, one that takes a    *)
(* picture.  The frame loop, the JPEG encoder and the driver live in       *)
(* liboemcamera.so and the kernel and are external.                        *)
(*                                                                         *)
(* A critical section of a few statements on one flag is a step; a lock    *)
(* that is held over a call into the driver, a callback or another lock is *)
(* in `held'.  The flags guarded by a condition variable are set and       *)
(* signalled under its lock, and each has one waiter: a wait is a guard.   *)
(***************************************************************************)
EXTENDS Integers, FiniteSets

CONSTANTS
    Calls,           \* the calls the service makes
    CallbackCalls,   \* the calls made from within the preview callback
    Masks,           \* the message types enabled at first
    Messages,        \* those that are enabled and disabled later
    Formats,         \* the picture formats in use
    Fail,            \* the calls into driver, kernel and encoder that may fail
    Timeouts,        \* whether the frame loop may report a timeout
    MaxOwed          \* how many frames the recorder may keep

ASSUME MasksAssumption == Masks \subseteq SUBSET
    {"FOCUS", "PREVIEW_FRAME", "VIDEO_FRAME", "SHUTTER", "RAW_IMAGE", "COMPRESSED_IMAGE"}
ASSUME BoundAssumption == MaxOwed \in Nat /\ Timeouts \in BOOLEAN

Frames == {"frame1", "frame2"}     \* a thread, and another should there be one
Threads == {"app", "af", "snapshot", "encoder"} \cup Frames
None == "none"
Locks == {"mLock", "mCallbackLock", "mCameraRunningLock", "mCamframeTimeoutLock",
          "mAfLock", "mAutoFocusThreadLock", "mSnapshotThreadWaitLock"}

VARIABLES
    pc, call,        \* where each thread is, and in which call
    held,            \* lock -> the thread that holds it
    released,        \* release() has been through
    mMsgEnabled,
    mCameraRunning, mPreviewInitialized, mFrameThreadRunning,
    mPreviewHeap,    \* the frame thread the heap was allocated for
    camframe_timeout_flag,
    driver,          \* whether the driver streams frames
    exits,           \* the frame threads LINK_camframe_terminate() has reached
    msgs,            \* frame thread -> msgEnabled of receivePreviewFrame
    mReleasedRecordingFrame,
    owed,            \* frames given to the recorder and not released by it
    mAutoFocusThreadRunning,
    mSnapshotThreadRunning, mInSnapshotMode, mSnapshotFormat, mShutterPending,
    mJpegThreadRunning,
    heaps,           \* the buffers of a picture that are allocated
    wanted,          \* history: COMPRESSED_IMAGE was enabled when they were
    parted           \* history: release() did not wait for the picture

preview == <<mCameraRunning, mPreviewInitialized, mFrameThreadRunning, mPreviewHeap,
             camframe_timeout_flag, driver, exits>>
record == <<mReleasedRecordingFrame, owed>>
mode == <<mSnapshotThreadRunning, mInSnapshotMode, mSnapshotFormat, mShutterPending>>
history == <<wanted, parted>>
picture == <<mode, mJpegThreadRunning, heaps, history>>
client == <<call, released, mMsgEnabled>>
vars == <<pc, held, client, preview, msgs, record, mAutoFocusThreadRunning, picture>>

Init ==
    /\ pc = [t \in Threads |-> IF t = "app" THEN "idle" ELSE None]
    /\ call = [t \in Threads |-> None]
    /\ held = [l \in Locks |-> None]
    /\ released = FALSE
    /\ mMsgEnabled \in Masks
    /\ mCameraRunning = FALSE /\ mPreviewInitialized = FALSE
    /\ mFrameThreadRunning = FALSE
    /\ mPreviewHeap = None
    /\ camframe_timeout_flag = FALSE
    /\ driver = FALSE
    /\ exits = {}
    /\ msgs = [f \in Frames |-> {}]
    /\ mReleasedRecordingFrame = FALSE
    /\ owed = 0
    /\ mAutoFocusThreadRunning = FALSE
    /\ mSnapshotThreadRunning = FALSE /\ mInSnapshotMode = FALSE /\ mShutterPending = FALSE
    /\ mSnapshotFormat = None
    /\ mJpegThreadRunning = FALSE
    /\ heaps = {}
    /\ wanted = FALSE /\ parted = FALSE

At(t, from) == pc[t] = from
Goto(t, from, to) == At(t, from) /\ pc' = [pc EXCEPT ![t] = to]
Fork(t, from, to, s, start) == At(t, from) /\ pc' = [pc EXCEPT ![t] = to, ![s] = start]
Acquire(t, l) == held[l] = None /\ held' = [held EXCEPT ![l] = t]
Drop(t, ls) == held' = [l \in Locks |-> IF l \in ls /\ held[l] = t THEN None ELSE held[l]]
Enabled(m) == m \in mMsgEnabled

(* mRecordWait.signal() wakes the frame thread that waits, if one does.    *)
Signal(p) == [t \in Threads |-> IF p[t] = "rec_wait" THEN "rec_woken" ELSE p[t]]
ReleaseFrame == mReleasedRecordingFrame' = TRUE
-----------------------------------------------------------------------------
(* Calls: each begins by taking mLock and ends at "leave".                 *)

First(c) ==
    CASE c = "startPreview"    -> "start"
      [] c = "startRecording"  -> "rec_start"
      [] c = "stopPreview"     -> "stop_check"
      [] c = "stopRecording"   -> "rec_stop"
      [] c = "autoFocus"       -> "auto_focus"
      [] c = "cancelAutoFocus" -> "cancel_check"
      [] c = "takePicture"     -> "take"
      [] c = "release"         -> "release"
      [] OTHER                 -> "messages"

(* Where stopPreviewInternal() returns to.                                 *)
AfterStop(t) ==
    CASE call[t] = "takePicture" -> "raw"
      [] call[t] = "release"     -> "join"
      [] OTHER                   -> "leave"

(* The service calls nothing once release() has returned.                  *)
enter(c) ==
    /\ ~released
    /\ Goto("app", "idle", "enter")
    /\ call' = [call EXCEPT !["app"] = c]
    /\ UNCHANGED <<held, released, mMsgEnabled, preview, msgs, record,
                   mAutoFocusThreadRunning, picture>>

lock(t) ==
    /\ Acquire(t, "mLock")
    /\ Goto(t, "enter", First(call[t]))
    /\ UNCHANGED <<client, preview, msgs, record, mAutoFocusThreadRunning, picture>>

leave(t) ==
    /\ Goto(t, "leave", IF t \in Frames THEN "rcb" ELSE "idle")
    /\ Drop(t, {"mLock"})
    /\ call' = [call EXCEPT ![t] = None]
    /\ UNCHANGED <<released, mMsgEnabled, preview, msgs, record,
                   mAutoFocusThreadRunning, picture>>

setMessages(t) ==
    /\ Goto(t, "messages", "leave")
    /\ \E m \in Messages :
        \/ call[t] = "enableMsgType" /\ mMsgEnabled' = mMsgEnabled \cup {m}
        \/ call[t] = "disableMsgType" /\ mMsgEnabled' = mMsgEnabled \ {m}
    /\ UNCHANGED <<call, released, held, preview, msgs, record,
                   mAutoFocusThreadRunning, picture>>
-----------------------------------------------------------------------------
(* startPreviewInternal and initPreview                                    *)

startRecording(t) ==
    /\ Goto(t, "rec_start", "start")
    /\ mReleasedRecordingFrame' = FALSE
    /\ UNCHANGED <<held, client, preview, msgs, owed, mAutoFocusThreadRunning, picture>>

startPreviewInternal(t) ==
    /\ \/ mCameraRunning /\ Goto(t, "start", "leave")
       \/ ~mCameraRunning /\ mPreviewInitialized /\ Goto(t, "start", "native_start")
       \/ ~mCameraRunning /\ ~mPreviewInitialized /\ Goto(t, "start", "wait_frame")
    /\ UNCHANGED <<held, client, preview, msgs, record, mAutoFocusThreadRunning, picture>>

(* Mutants.  An operator whose name ends in _X<n> is a changed form of the *)
(* definition after it, the way a bug would change it; nothing uses it.    *)
waitFrameThread_X1(t) ==                   \* the old frame thread is not awaited
    /\ Goto(t, "wait_frame", "wait_snapshot")
    /\ UNCHANGED <<held, client, preview, msgs, record, mAutoFocusThreadRunning, picture>>

waitFrameThread(t) ==
    /\ ~mFrameThreadRunning
    /\ Goto(t, "wait_frame", "wait_snapshot")
    /\ UNCHANGED <<held, client, preview, msgs, record, mAutoFocusThreadRunning, picture>>

waitSnapshotMode_X1(t) ==                  \* a picture being taken is not awaited
    /\ Goto(t, "wait_snapshot", "heap")
    /\ UNCHANGED <<held, client, preview, msgs, record, mAutoFocusThreadRunning, picture>>

waitSnapshotMode(t) ==
    /\ ~mInSnapshotMode
    /\ Goto(t, "wait_snapshot", "heap")
    /\ UNCHANGED <<held, client, preview, msgs, record, mAutoFocusThreadRunning, picture>>

FreeFrame == CHOOSE f \in Frames : pc[f] = None

allocPreviewHeap(t) ==
    /\ \E f \in Frames : pc[f] = None
    /\ \/ Goto(t, "heap", "create") /\ mPreviewHeap' = FreeFrame
       \/ "heap" \in Fail /\ Goto(t, "heap", "leave") /\ mPreviewHeap' = None
    /\ UNCHANGED <<held, client, mCameraRunning, mPreviewInitialized, mFrameThreadRunning,
                   camframe_timeout_flag, driver, exits, msgs, record,
                   mAutoFocusThreadRunning, picture>>

(* Set the dimensions and create the thread.  When one fails the heap      *)
(* stays; the next initPreview replaces it.                                *)
createFrameThread(t) ==
    /\ \/ /\ Fork(t, "create", "native_start", mPreviewHeap, "loop")
          /\ mFrameThreadRunning' = TRUE
          /\ mPreviewInitialized' = TRUE
       \/ /\ "thread" \in Fail
          /\ Goto(t, "create", "leave")
          /\ UNCHANGED <<mFrameThreadRunning, mPreviewInitialized>>
    /\ UNCHANGED <<held, client, mCameraRunning, mPreviewHeap, camframe_timeout_flag,
                   driver, exits, msgs, record, mAutoFocusThreadRunning, picture>>

nativeStart(t) ==
    /\ Acquire(t, "mCameraRunningLock")
    /\ \/ Goto(t, "native_start", "started") /\ driver' = TRUE
       \/ "start" \in Fail /\ Goto(t, "native_start", "not_started") /\ UNCHANGED driver
    /\ UNCHANGED <<client, mCameraRunning, mPreviewInitialized, mFrameThreadRunning,
                   mPreviewHeap, camframe_timeout_flag, exits, msgs, record,
                   mAutoFocusThreadRunning, picture>>

started(t) ==
    /\ \/ Goto(t, "started", "leave") /\ mCameraRunning' = TRUE
       \/ Goto(t, "not_started", "undo_start") /\ mCameraRunning' = FALSE
    /\ Drop(t, {"mCameraRunningLock"})
    /\ UNCHANGED <<client, mPreviewInitialized, mFrameThreadRunning, mPreviewHeap,
                   camframe_timeout_flag, driver, exits, msgs, record,
                   mAutoFocusThreadRunning, picture>>

(* LINK_camframe_terminate() makes sure that after the preview callback    *)
(* returns, the frame loop exits.                                          *)
deinitPreview_X1 == mPreviewInitialized' = FALSE /\ UNCHANGED exits

deinitPreview ==
    /\ exits' = exits \cup {f \in Frames : pc[f] # None}
    /\ mPreviewInitialized' = FALSE

undoStart(t) ==
    /\ Goto(t, "undo_start", "leave")
    /\ deinitPreview
    /\ UNCHANGED <<held, client, mCameraRunning, mFrameThreadRunning, mPreviewHeap,
                   camframe_timeout_flag, driver, msgs, record, mAutoFocusThreadRunning,
                   picture>>
-----------------------------------------------------------------------------
(* stopPreviewInternal and its callers                                     *)

stopPreview(t) ==
    /\ Goto(t, "stop_check", IF Enabled("VIDEO_FRAME") THEN "leave" ELSE "stop")
    /\ UNCHANGED <<held, client, preview, msgs, record, mAutoFocusThreadRunning, picture>>

stopRecording(t) ==
    /\ At(t, "rec_stop")
    /\ pc' = Signal([pc EXCEPT ![t] = IF Enabled("PREVIEW_FRAME") THEN "leave" ELSE "stop"])
    /\ ReleaseFrame
    /\ UNCHANGED <<held, client, preview, msgs, owed, mAutoFocusThreadRunning, picture>>

stopPreviewInternal(t) ==
    /\ \/ ~mCameraRunning /\ Goto(t, "stop", AfterStop(t))
       \/ /\ mCameraRunning
          /\ Goto(t, "stop", IF Enabled("FOCUS") THEN "cancel" ELSE "lock_timeout")
    /\ UNCHANGED <<held, client, preview, msgs, record, mAutoFocusThreadRunning, picture>>

lockTimeout(t) ==
    /\ Acquire(t, "mCamframeTimeoutLock")
    /\ Goto(t, "lock_timeout", "native_stop")
    /\ UNCHANGED <<client, preview, msgs, record, mAutoFocusThreadRunning, picture>>

(* After a timeout the driver is not told to stop.                         *)
nativeStop(t) ==
    /\ Acquire(t, "mCameraRunningLock")
    /\ \/ ~camframe_timeout_flag /\ Goto(t, "native_stop", "stopped") /\ driver' = FALSE
       \/ /\ ~camframe_timeout_flag /\ "stop" \in Fail
          /\ Goto(t, "native_stop", "not_stopped") /\ UNCHANGED driver
       \/ camframe_timeout_flag /\ Goto(t, "native_stop", "stopped") /\ UNCHANGED driver
    /\ UNCHANGED <<client, mCameraRunning, mPreviewInitialized, mFrameThreadRunning,
                   mPreviewHeap, camframe_timeout_flag, exits, msgs, record,
                   mAutoFocusThreadRunning, picture>>

stopped_X1(t) ==                           \* the driver's answer is not looked at
    /\ \/ Goto(t, "stopped", "deinit") \/ Goto(t, "not_stopped", "deinit")
    /\ mCameraRunning' = FALSE
    /\ Drop(t, {"mCameraRunningLock"})
    /\ UNCHANGED <<client, mPreviewInitialized, mFrameThreadRunning, mPreviewHeap,
                   camframe_timeout_flag, driver, exits, msgs, record,
                   mAutoFocusThreadRunning, picture>>

stopped(t) ==
    /\ \/ Goto(t, "stopped", "deinit") /\ mCameraRunning' = FALSE
       \/ Goto(t, "not_stopped", "deinit") /\ mCameraRunning' = TRUE
    /\ Drop(t, {"mCameraRunningLock"})
    /\ UNCHANGED <<client, mPreviewInitialized, mFrameThreadRunning, mPreviewHeap,
                   camframe_timeout_flag, driver, exits, msgs, record,
                   mAutoFocusThreadRunning, picture>>

stopEnd(t) ==
    /\ Goto(t, "deinit", AfterStop(t))
    /\ Drop(t, {"mCamframeTimeoutLock"})
    /\ IF ~mCameraRunning /\ mPreviewInitialized
       THEN deinitPreview
       ELSE UNCHANGED <<exits, mPreviewInitialized>>
    /\ UNCHANGED <<client, mCameraRunning, mFrameThreadRunning, mPreviewHeap,
                   camframe_timeout_flag, driver, msgs, record, mAutoFocusThreadRunning,
                   picture>>

(* A second release() finds the library unloaded.                          *)
release(t) ==
    /\ \/ released /\ Goto(t, "release", "leave") /\ UNCHANGED mReleasedRecordingFrame
       \/ /\ ~released /\ ~mCameraRunning
          /\ Goto(t, "release", "join") /\ UNCHANGED mReleasedRecordingFrame
       \/ /\ ~released /\ mCameraRunning /\ ~Enabled("VIDEO_FRAME")
          /\ Goto(t, "release", "stop") /\ UNCHANGED mReleasedRecordingFrame
       \/ /\ ~released /\ mCameraRunning /\ Enabled("VIDEO_FRAME")
          /\ At(t, "release")
          /\ pc' = Signal([pc EXCEPT ![t] = "stop"])
          /\ ReleaseFrame
    /\ UNCHANGED <<held, client, preview, msgs, owed, mAutoFocusThreadRunning, picture>>

PictureHeaps == {"raw", "jpeg", "thumbnail", "display"}
deinitRaw == heaps' = heaps \ PictureHeaps

(* Where a snapshot thread is that will use no buffer any more.            *)
Finishing == {None, "jpeg_wait", "snap_join", "snap_end"}

(* The encoder is waited for and the snapshot thread is not, which may     *)
(* still be taking the picture, and start the encoder, after this.         *)
joinEncoder(t) ==
    /\ pc["encoder"] = None
    /\ Goto(t, "join", "deinit_raw")
    /\ parted' = (parted \/ pc["snapshot"] \notin Finishing)
    /\ UNCHANGED <<held, client, preview, msgs, record, mAutoFocusThreadRunning, mode,
                   mJpegThreadRunning, heaps, wanted>>

releaseRaw(t) ==
    /\ Goto(t, "deinit_raw", "exit")
    /\ deinitRaw
    /\ UNCHANGED <<held, client, preview, msgs, record, mAutoFocusThreadRunning, mode,
                   mJpegThreadRunning, history>>

exitCamera(t) ==
    /\ Goto(t, "exit", "leave")
    /\ mJpegThreadRunning' = FALSE
    /\ heaps' = heaps \ {"rawSnapshot"}
    /\ driver' = FALSE
    /\ released' = TRUE
    /\ UNCHANGED <<call, mMsgEnabled, held, mCameraRunning, mPreviewInitialized,
                   mFrameThreadRunning, mPreviewHeap, camframe_timeout_flag, exits, msgs,
                   record, mAutoFocusThreadRunning, mode, history>>
-----------------------------------------------------------------------------
(* The frame thread, and the recorder that consumes its frames             *)

frameArrives(f) ==
    /\ driver /\ f \notin exits
    /\ Goto(f, "loop", "received")
    /\ UNCHANGED <<held, client, preview, msgs, record, mAutoFocusThreadRunning, picture>>

receivePreviewFrame(f) ==
    /\ Goto(f, "received", IF mCameraRunning THEN "mask" ELSE "loop")
    /\ UNCHANGED <<held, client, preview, msgs, record, mAutoFocusThreadRunning, picture>>

copyMask(f) ==
    /\ held["mCallbackLock"] = None
    /\ Goto(f, "mask", "pcb")
    /\ msgs' = [msgs EXCEPT ![f] = mMsgEnabled]
    /\ UNCHANGED <<held, client, preview, record, mAutoFocusThreadRunning, picture>>

previewCallback(f) ==
    /\ \/ Goto(f, "pcb", "rcb") /\ UNCHANGED call
       \/ \E c \in CallbackCalls :
            /\ "PREVIEW_FRAME" \in msgs[f]
            /\ Goto(f, "pcb", "enter")
            /\ call' = [call EXCEPT ![f] = c]
    /\ UNCHANGED <<held, released, mMsgEnabled, preview, msgs, record,
                   mAutoFocusThreadRunning, picture>>

recordCallback(f) ==
    /\ \/ "VIDEO_FRAME" \notin msgs[f] /\ Goto(f, "rcb", "loop") /\ UNCHANGED owed
       \/ /\ "VIDEO_FRAME" \in msgs[f] /\ owed < MaxOwed
          /\ Goto(f, "rcb", "rec_check")
          /\ owed' = owed + 1
    /\ msgs' = [msgs EXCEPT ![f] = {}]
    /\ UNCHANGED <<held, client, preview, mReleasedRecordingFrame,
                   mAutoFocusThreadRunning, picture>>

waitRecorder(f) ==
    /\ \/ /\ mReleasedRecordingFrame /\ Goto(f, "rec_check", "loop")
          /\ mReleasedRecordingFrame' = FALSE
       \/ /\ ~mReleasedRecordingFrame /\ Goto(f, "rec_check", "rec_wait")
          /\ UNCHANGED mReleasedRecordingFrame
       \/ /\ Goto(f, "rec_woken", "loop")
          /\ mReleasedRecordingFrame' = FALSE
    /\ UNCHANGED <<held, client, preview, msgs, owed, mAutoFocusThreadRunning, picture>>

releaseRecordingFrame ==
    /\ owed > 0
    /\ owed' = owed - 1
    /\ ReleaseFrame
    /\ pc' = Signal(pc)
    /\ UNCHANGED <<held, client, preview, msgs, mAutoFocusThreadRunning, picture>>

receive_camframetimeout(f) ==
    /\ Timeouts
    /\ At(f, "loop") /\ held["mCamframeTimeoutLock"] = None
    /\ camframe_timeout_flag' = TRUE
    /\ UNCHANGED <<pc, held, client, mCameraRunning, mPreviewInitialized, mFrameThreadRunning,
                   mPreviewHeap, driver, exits, msgs, record, mAutoFocusThreadRunning, picture>>

(* cam_frame() returns.                                                    *)
frameLoopEnds(f) ==
    /\ f \in exits
    /\ Goto(f, "loop", "ended")
    /\ UNCHANGED <<held, client, preview, msgs, record, mAutoFocusThreadRunning, picture>>

endFrameThread_X1(f) ==                    \* reports, and then drops the heap
    /\ \/ /\ Goto(f, "ended", "cleared")
          /\ mFrameThreadRunning' = FALSE
          /\ UNCHANGED <<mPreviewHeap, exits>>
       \/ /\ Goto(f, "cleared", None)
          /\ mPreviewHeap' = None
          /\ exits' = exits \ {f}
          /\ UNCHANGED mFrameThreadRunning
    /\ UNCHANGED <<held, client, mCameraRunning, mPreviewInitialized, camframe_timeout_flag,
                   driver, msgs, record, mAutoFocusThreadRunning, picture>>

(* The preview heap goes, and then the thread reports.                     *)
endFrameThread(f) ==
    /\ \/ /\ Goto(f, "ended", "cleared")
          /\ mPreviewHeap' = None
          /\ UNCHANGED <<mFrameThreadRunning, exits>>
       \/ /\ Goto(f, "cleared", None)
          /\ mFrameThreadRunning' = FALSE
          /\ exits' = exits \ {f}
          /\ UNCHANGED mPreviewHeap
    /\ UNCHANGED <<held, client, mCameraRunning, mPreviewInitialized, camframe_timeout_flag,
                   driver, msgs, record, mAutoFocusThreadRunning, picture>>
-----------------------------------------------------------------------------
(* Auto focus                                                              *)

autoFocus(t) ==
    /\ held["mAutoFocusThreadLock"] = None
    /\ \/ mAutoFocusThreadRunning /\ Goto(t, "auto_focus", "leave")
          /\ UNCHANGED mAutoFocusThreadRunning
       \/ ~mAutoFocusThreadRunning /\ "focus" \in Fail /\ Goto(t, "auto_focus", "leave")
          /\ UNCHANGED mAutoFocusThreadRunning
       \/ /\ ~mAutoFocusThreadRunning
          /\ Fork(t, "auto_focus", "leave", "af", "af_start")
          /\ mAutoFocusThreadRunning' = TRUE
    /\ UNCHANGED <<held, client, preview, msgs, record, picture>>

cancelAutoFocus(t) ==
    /\ Goto(t, "cancel_check",
            IF mCameraRunning /\ Enabled("FOCUS") THEN "cancel" ELSE "leave")
    /\ UNCHANGED <<held, client, preview, msgs, record, mAutoFocusThreadRunning, picture>>

(* When the lock is busy the driver is told to cancel, which may come too  *)
(* early for it to have an effect: the focusing takes its time all the     *)
(* same.  An auto focus that starts while the lock is held here is dropped.*)
cancelAutoFocusInternal(t) ==
    LET next == IF call[t] = "cancelAutoFocus" THEN "leave" ELSE "lock_timeout"
    IN  /\ \/ Acquire(t, "mAfLock") /\ Goto(t, "cancel", "cancel_unlock")
           \/ held["mAfLock"] # None /\ Goto(t, "cancel", next) /\ UNCHANGED held
           \/ Drop(t, {"mAfLock"}) /\ Goto(t, "cancel_unlock", next)
        /\ UNCHANGED <<client, preview, msgs, record, mAutoFocusThreadRunning, picture>>

(* A failed open() ends the thread here; at a focus mode of infinity there *)
(* is nothing to do.                                                       *)
runAutoFocus ==
    /\ held["mAutoFocusThreadLock"] = None
    /\ \/ /\ \E p \in {"af_try", "af_done"} : Goto("af", "af_start", p)
          /\ Acquire("af", "mAutoFocusThreadLock")
          /\ UNCHANGED mAutoFocusThreadRunning
       \/ /\ "focus" \in Fail
          /\ Goto("af", "af_start", None)
          /\ mAutoFocusThreadRunning' = FALSE
          /\ UNCHANGED held
    /\ UNCHANGED <<client, preview, msgs, record, picture>>

tryAutoFocus ==
    /\ \/ Acquire("af", "mAfLock") /\ Goto("af", "af_try", "af_lock")
       \/ held["mAfLock"] # None /\ Goto("af", "af_try", "af_done") /\ UNCHANGED held
    /\ UNCHANGED <<client, preview, msgs, record, mAutoFocusThreadRunning, picture>>

startAutoFocus ==
    /\ Acquire("af", "mCameraRunningLock")
    /\ Goto("af", "af_lock", IF mCameraRunning THEN "focusing" ELSE "af_unlock")
    /\ UNCHANGED <<client, preview, msgs, record, mAutoFocusThreadRunning, picture>>

(* native_set_afmode() returns, if it was called.                          *)
unlockAutoFocus ==
    /\ \E from \in {"focusing", "af_unlock"} : Goto("af", from, "af_done")
    /\ Drop("af", {"mCameraRunningLock", "mAfLock"})
    /\ UNCHANGED <<client, preview, msgs, record, mAutoFocusThreadRunning, picture>>

autoFocusDone ==
    /\ Goto("af", "af_done", None)
    /\ mAutoFocusThreadRunning' = FALSE
    /\ Drop("af", {"mAutoFocusThreadLock"})
    /\ UNCHANGED <<client, preview, msgs, record, picture>>
-----------------------------------------------------------------------------
(* Taking a picture                                                        *)

takePicture_X1(t) ==                       \* the old snapshot thread is not awaited
    /\ Acquire(t, "mSnapshotThreadWaitLock")
    /\ mSnapshotFormat' \in Formats
    /\ Goto(t, "take", "stop")
    /\ UNCHANGED <<client, preview, msgs, record, mAutoFocusThreadRunning,
                   mSnapshotThreadRunning, mInSnapshotMode, mShutterPending,
                   mJpegThreadRunning, heaps, history>>

takePicture(t) ==
    /\ ~mSnapshotThreadRunning
    /\ Acquire(t, "mSnapshotThreadWaitLock")
    /\ mSnapshotFormat' \in Formats
    /\ \/ Goto(t, "take", "stop")
       \/ /\ "prepare" \in Fail /\ mSnapshotFormat' = "JPEG"
          /\ Goto(t, "take", "give_up")
    /\ UNCHANGED <<client, preview, msgs, record, mAutoFocusThreadRunning,
                   mSnapshotThreadRunning, mInSnapshotMode, mShutterPending,
                   mJpegThreadRunning, heaps, history>>

giveUp(t) ==
    /\ Goto(t, "give_up", "leave")
    /\ Drop(t, {"mSnapshotThreadWaitLock"})
    /\ UNCHANGED <<client, preview, msgs, record, mAutoFocusThreadRunning, picture>>

(* mJpegHeap goes in any case; that and the thumbnail are allocated when   *)
(* the service wants the compressed image.  A failure undoes the others.   *)
initRaw ==
    heaps' = (heaps \ {"jpeg"}) \cup {"raw"} \cup
            (IF Enabled("COMPRESSED_IMAGE") THEN {"jpeg", "thumbnail"} ELSE {})

initRawFails ==
    \/ heaps' = heaps                                      \* no dimension
    \/ heaps' = heaps \ {"jpeg", "raw"}
    \/ Enabled("COMPRESSED_IMAGE") /\ heaps' = heaps \ {"jpeg", "raw", "thumbnail"}

initRawSnapshot == heaps' = heaps \cup {"rawSnapshot"}
initRawSnapshotFails == heaps' \in {heaps, heaps \ {"rawSnapshot"}}

initPicture(t) ==
    /\ \/ /\ Goto(t, "raw", "create_snapshot")
          /\ \/ mSnapshotFormat = "JPEG" /\ initRaw /\ wanted' = Enabled("COMPRESSED_IMAGE")
             \/ mSnapshotFormat = "RAW" /\ initRawSnapshot /\ UNCHANGED wanted
       \/ /\ "heap" \in Fail
          /\ Goto(t, "raw", "give_up")
          /\ \/ mSnapshotFormat = "JPEG" /\ initRawFails
             \/ mSnapshotFormat = "RAW" /\ initRawSnapshotFails
          /\ UNCHANGED wanted
    /\ UNCHANGED <<held, client, preview, msgs, record, mAutoFocusThreadRunning, mode,
                   mJpegThreadRunning, parted>>

createSnapshotThread(t) ==
    /\ mShutterPending' = TRUE
    /\ \/ /\ Fork(t, "create_snapshot", "set_mode", "snapshot", "snap_start")
          /\ mSnapshotThreadRunning' = TRUE
       \/ /\ "thread" \in Fail
          /\ Goto(t, "create_snapshot", "set_mode")
          /\ mSnapshotThreadRunning' = FALSE
    /\ Drop(t, {"mSnapshotThreadWaitLock"})
    /\ UNCHANGED <<client, preview, msgs, record, mAutoFocusThreadRunning,
                   mInSnapshotMode, mSnapshotFormat, mJpegThreadRunning, heaps, history>>

setSnapshotMode(t) ==
    /\ Goto(t, "set_mode", "leave")
    /\ mInSnapshotMode' = TRUE
    /\ UNCHANGED <<held, client, preview, msgs, record, mAutoFocusThreadRunning,
                   mSnapshotThreadRunning, mSnapshotFormat, mShutterPending,
                   mJpegThreadRunning, heaps, history>>
-----------------------------------------------------------------------------
(* The snapshot thread, and the encoder                                    *)

startSnapshot ==
    /\ \/ mSnapshotFormat = "JPEG" /\ Goto("snapshot", "snap_start", "raw_picture")
       \/ mSnapshotFormat = "RAW" /\ Goto("snapshot", "snap_start", "raw_snapshot")
       \/ "snapshot" \in Fail /\ Goto("snapshot", "snap_start", "snap_mode")
    /\ UNCHANGED <<held, client, preview, msgs, record, mAutoFocusThreadRunning, picture>>

(* What a step of the thread reads or writes: buffers, by way of pointers  *)
(* that are null without them, and the code of the library, which release()*)
(* unloads unless a frame thread or the focusing thread loaded it as well. *)
(* Without one of them the step is not taken: the process ends there.      *)
Loaded == ~released \/ \E t \in Frames \cup {"af"} : pc[t] # None
Present == heaps \cup (IF Loaded THEN {"library"} ELSE {})
Uses(t) ==
    CASE pc[t] = "crop"              -> {"raw", "thumbnail"}
      [] pc[t] = "raw_callback"      -> IF Enabled("RAW_IMAGE") THEN {"display"} ELSE {}
      [] pc[t] = "snapshot_callback" -> IF Enabled("COMPRESSED_IMAGE") THEN {"rawSnapshot"}
                                                                       ELSE {}
      [] pc[t] = "encode"            -> IF Enabled("COMPRESSED_IMAGE") THEN {"library"} ELSE {}
      [] pc[t] = "native_encode"     -> {"raw", "thumbnail", "library"}
      [] pc[t] \in {"encoding", "jpeg_done"} -> {"raw", "thumbnail", "jpeg"}
      [] pc[t] = "snap_join"         -> {"library"}
      [] OTHER                       -> {}
InPlace(t) == Uses(t) \subseteq Present

Shutter == mShutterPending /\ Enabled("SHUTTER")

(* mDisplayHeap = mRawHeap, or mThumbnailHeap when the picture is large;   *)
(* it is null when that heap is.                                           *)
Displayed(h) == (heaps \ {"display"}) \cup (IF h \in heaps THEN {"display"} ELSE {})

notifyShutter ==
    \/ /\ Shutter
       /\ \E h \in {"raw", "thumbnail"} : heaps' = Displayed(h)
       /\ mShutterPending' = FALSE
    \/ ~Shutter /\ UNCHANGED <<heaps, mShutterPending>>

(* receiveRawPicture() holds mCallbackLock until it returns.  A picture    *)
(* that was zoomed is cropped in place, and its thumbnail with it.         *)
receiveRawPicture ==
    /\ Acquire("snapshot", "mCallbackLock")
    /\ \/ /\ Enabled("RAW_IMAGE")
          /\ \E p \in {"crop", "raw_callback"} : Goto("snapshot", "raw_picture", p)
          /\ notifyShutter
       \/ /\ Enabled("RAW_IMAGE") /\ "get_picture" \in Fail
          /\ Goto("snapshot", "raw_picture", "raw_return")
          /\ UNCHANGED <<mShutterPending, heaps>>
       \/ /\ ~Enabled("RAW_IMAGE")
          /\ Goto("snapshot", "raw_picture", "encode")
          /\ UNCHANGED <<mShutterPending, heaps>>
    /\ UNCHANGED <<client, preview, msgs, record, mAutoFocusThreadRunning,
                   mSnapshotThreadRunning, mInSnapshotMode, mSnapshotFormat,
                   mJpegThreadRunning, history>>

cropPicture ==
    /\ InPlace("snapshot")
    /\ Goto("snapshot", "crop", "raw_callback")
    /\ UNCHANGED <<held, client, preview, msgs, record, mAutoFocusThreadRunning, picture>>

(* RAW_IMAGE is looked at again, and mDisplayHeap is what is shown.        *)
rawCallback ==
    /\ InPlace("snapshot")
    /\ Goto("snapshot", "raw_callback", "encode")
    /\ UNCHANGED <<held, client, preview, msgs, record, mAutoFocusThreadRunning, picture>>

(* LINK_jpeg_encoder_init()                                                *)
encode ==
    /\ InPlace("snapshot")
    /\ \/ /\ Enabled("COMPRESSED_IMAGE")
          /\ Goto("snapshot", "encode", "native_encode")
          /\ mJpegThreadRunning' = TRUE
       \/ /\ Enabled("COMPRESSED_IMAGE") => "encoder" \in Fail
          /\ Goto("snapshot", "encode", "raw_deinit")
          /\ UNCHANGED mJpegThreadRunning
    /\ UNCHANGED <<held, client, preview, msgs, record, mAutoFocusThreadRunning, mode, heaps,
                   history>>

(* When it fails mJpegThreadRunning stays true.                            *)
native_jpeg_encode ==
    /\ InPlace("snapshot")
    /\ \/ Fork("snapshot", "native_encode", "raw_return", "encoder", "encoding")
       \/ "encoder" \in Fail /\ Goto("snapshot", "native_encode", "raw_deinit")
    /\ UNCHANGED <<held, client, preview, msgs, record, mAutoFocusThreadRunning, picture>>

rawDeinit ==
    /\ Goto("snapshot", "raw_deinit", "raw_return")
    /\ deinitRaw
    /\ UNCHANGED <<held, client, preview, msgs, record, mAutoFocusThreadRunning, mode,
                   mJpegThreadRunning, history>>

rawReturn_X1 ==                            \* mCallbackLock stays locked
    /\ Goto("snapshot", "raw_return", "snap_mode")
    /\ UNCHANGED <<held, client, preview, msgs, record, mAutoFocusThreadRunning, picture>>

rawReturn ==
    /\ Goto("snapshot", "raw_return", "snap_mode")
    /\ Drop("snapshot", {"mCallbackLock"})
    /\ UNCHANGED <<client, preview, msgs, record, mAutoFocusThreadRunning, picture>>

(* When the picture is not to be had the heap stays.                       *)
receiveRawSnapshot ==
    /\ \/ /\ Enabled("COMPRESSED_IMAGE")
          /\ Acquire("snapshot", "mCallbackLock")
          /\ Goto("snapshot", "raw_snapshot", "snapshot_callback")
          /\ notifyShutter
       \/ /\ Enabled("COMPRESSED_IMAGE") /\ "get_picture" \in Fail
          /\ held["mCallbackLock"] = None
          /\ Goto("snapshot", "raw_snapshot", "snap_mode")
          /\ UNCHANGED <<held, heaps, mShutterPending>>
       \/ /\ ~Enabled("COMPRESSED_IMAGE")
          /\ held["mCallbackLock"] = None
          /\ Goto("snapshot", "raw_snapshot", "snap_mode")
          /\ heaps' = heaps \ {"rawSnapshot"}
          /\ UNCHANGED <<held, mShutterPending>>
    /\ UNCHANGED <<client, preview, msgs, record, mAutoFocusThreadRunning,
                   mSnapshotThreadRunning, mInSnapshotMode, mSnapshotFormat,
                   mJpegThreadRunning, history>>

snapshotCallback ==
    /\ InPlace("snapshot")
    /\ Goto("snapshot", "snapshot_callback", "snap_mode")
    /\ Drop("snapshot", {"mCallbackLock"})
    /\ heaps' = heaps \ {"rawSnapshot"}
    /\ UNCHANGED <<client, preview, msgs, record, mAutoFocusThreadRunning, mode,
                   mJpegThreadRunning, history>>

leaveSnapshotMode ==
    /\ Goto("snapshot", "snap_mode", "jpeg_wait")
    /\ mInSnapshotMode' = FALSE
    /\ UNCHANGED <<held, client, preview, msgs, record, mAutoFocusThreadRunning,
                   mSnapshotThreadRunning, mSnapshotFormat, mShutterPending,
                   mJpegThreadRunning, heaps, history>>

waitEncoder ==
    /\ ~mJpegThreadRunning
    /\ Goto("snapshot", "jpeg_wait", "snap_join")
    /\ mSnapshotFormat' = None
    /\ UNCHANGED <<held, client, preview, msgs, record, mAutoFocusThreadRunning,
                   mSnapshotThreadRunning, mInSnapshotMode, mShutterPending,
                   mJpegThreadRunning, heaps, history>>

joinSnapshot ==
    /\ InPlace("snapshot")
    /\ pc["encoder"] = None
    /\ Goto("snapshot", "snap_join", "snap_end")
    /\ deinitRaw
    /\ UNCHANGED <<held, client, preview, msgs, record, mAutoFocusThreadRunning, mode,
                   mJpegThreadRunning, history>>

endSnapshotThread ==
    /\ Goto("snapshot", "snap_end", None)
    /\ mSnapshotThreadRunning' = FALSE
    /\ UNCHANGED <<held, client, preview, msgs, record, mAutoFocusThreadRunning,
                   mInSnapshotMode, mSnapshotFormat, mShutterPending,
                   mJpegThreadRunning, heaps, history>>

(* receive_jpeg_callback() looks at no event but JPEG_EVENT_DONE.          *)
encoderEvent ==
    /\ InPlace("encoder")
    /\ \/ Goto("encoder", "encoding", "jpeg_done")
       \/ "encoder" \in Fail /\ Goto("encoder", "encoding", None)
    /\ UNCHANGED <<held, client, preview, msgs, record, mAutoFocusThreadRunning, picture>>

receiveJpegPicture ==
    /\ InPlace("encoder")
    /\ held["mCallbackLock"] = None
    /\ Goto("encoder", "jpeg_done", None)
    /\ mJpegThreadRunning' = FALSE
    /\ UNCHANGED <<held, client, preview, msgs, record, mAutoFocusThreadRunning, mode, heaps,
                   history>>
-----------------------------------------------------------------------------
InCall(t) == call[t] # None /\ (
    \/ lock(t) \/ leave(t) \/ setMessages(t)
    \/ startRecording(t) \/ startPreviewInternal(t) \/ waitFrameThread(t)
    \/ waitSnapshotMode(t) \/ allocPreviewHeap(t) \/ createFrameThread(t)
    \/ nativeStart(t) \/ started(t) \/ undoStart(t)
    \/ stopPreview(t) \/ stopRecording(t) \/ stopPreviewInternal(t) \/ lockTimeout(t)
    \/ nativeStop(t) \/ stopped(t) \/ stopEnd(t)
    \/ release(t) \/ joinEncoder(t) \/ releaseRaw(t) \/ exitCamera(t)
    \/ autoFocus(t) \/ cancelAutoFocus(t) \/ cancelAutoFocusInternal(t)
    \/ takePicture(t) \/ giveUp(t) \/ initPicture(t) \/ createSnapshotThread(t)
    \/ setSnapshotMode(t))

InFrame(f) == pc[f] # None /\ (
    \/ receivePreviewFrame(f) \/ copyMask(f) \/ previewCallback(f) \/ recordCallback(f)
    \/ waitRecorder(f) \/ frameLoopEnds(f) \/ endFrameThread(f))

InAutoFocus ==
    runAutoFocus \/ tryAutoFocus \/ startAutoFocus \/ unlockAutoFocus \/ autoFocusDone

InSnapshot ==
    \/ startSnapshot \/ receiveRawPicture \/ cropPicture \/ rawCallback \/ encode
    \/ native_jpeg_encode \/ rawDeinit \/ rawReturn \/ receiveRawSnapshot
    \/ snapshotCallback \/ leaveSnapshotMode \/ waitEncoder \/ joinSnapshot
    \/ endSnapshotThread

InEncoder == encoderEvent \/ receiveJpegPicture

Next ==
    \/ \E c \in Calls : enter(c)
    \/ \E t \in {"app"} \cup Frames : InCall(t)
    \/ \E f \in Frames : frameArrives(f) \/ InFrame(f) \/ receive_camframetimeout(f)
    \/ releaseRecordingFrame
    \/ InAutoFocus \/ InSnapshot \/ InEncoder

(* Every thread is scheduled, the driver ends a focusing, the encoder ends *)
(* an encoding and the recorder releases its frames.  No frame need come.  *)
Fairness ==
    /\ WF_vars(InCall("app"))
    /\ \A f \in Frames : WF_vars(InCall(f) \/ InFrame(f))
    /\ WF_vars(releaseRecordingFrame)
    /\ WF_vars(InAutoFocus) /\ WF_vars(InSnapshot) /\ WF_vars(InEncoder)

Spec == Init /\ [][Next]_vars /\ Fairness
-----------------------------------------------------------------------------
(* There is one frame thread at a time, although deinitPreview() does not  *)
(* wait for the one it tells to exit ("we have to make the frame thread    *)
(* detached, and use a separate mechanism to wait for it to complete").    *)
OneFrameThread == \A f, g \in Frames : pc[f] # None /\ pc[g] # None => f = g

(* A frame is delivered from the heap its thread was started with: no stop *)
(* and no next preview takes the heap away under receivePreviewFrame().    *)
HeapInUse ==
    \A f \in Frames : pc[f] \notin {None, "ended", "cleared"} => mPreviewHeap = f

(* mCameraRunning says what the driver does, but for the steps between the *)
(* call and the assignment, and but for a timeout, after which the driver  *)
(* is never told to stop again.  It focuses only while the preview runs:   *)
(* stopping waits for the focusing to end, and none begins after it.       *)
(* Excepted is a release() that the driver did not let stop the preview.   *)
DriverFollows ==
    /\ held["mCameraRunningLock"] \in {None, "af"} /\ ~released =>
           (driver = mCameraRunning) \/ camframe_timeout_flag
    /\ pc["af"] = "focusing" => mCameraRunning /\ (driver \/ camframe_timeout_flag \/ released)

(* The memory of a picture is there for the threads that use it, however   *)
(* the messages change meanwhile and whatever other calls come: what the   *)
(* encoder reads and receive_jpeg_fragment_callback() writes, what is      *)
(* cropped, and what the callbacks show.  No thumbnail and no JPEG heap is *)
(* there when COMPRESSED_IMAGE was off as the heaps were allocated, and    *)
(* release() does not wait for a picture that has yet to be encoded        *)
(* (`parted'): those are excepted.                                         *)
PictureInUse ==
    ~parted =>
        /\ pc["encoder"] # None => {"raw", "thumbnail"} \subseteq heaps
        /\ pc["encoder"] # None /\ wanted => "jpeg" \in heaps
        /\ pc["snapshot"] \in {"crop", "native_encode"} =>
               "raw" \in heaps /\ (wanted => "thumbnail" \in heaps)
        /\ pc["snapshot"] = "raw_callback" /\ ~mShutterPending /\ wanted =>
               "display" \in heaps
        /\ pc["snapshot"] = "snapshot_callback" => "rawSnapshot" \in heaps

(* A preview is not set up while a picture is on its way out of the sensor:*)
(* mInSnapshotMode is set after the thread is created, but no call comes   *)
(* between.                                                                *)
NoPreviewInSnapshot ==
    pc["snapshot"] \in {"snap_start", "raw_picture", "crop", "raw_callback", "encode",
                        "native_encode", "raw_deinit", "raw_return", "raw_snapshot",
                        "snapshot_callback"} =>
        pc["app"] \notin {"heap", "create", "native_start", "started", "not_started"}

(* Every call returns, startPreview() among them, which waits for threads. *)
(* Two cases are excepted, in which it may not: the frame thread waits for *)
(* a frame that was released before startRecording() forgot it, and it is  *)
(* itself in a call that waits for the lock held here (CallbackReturns).   *)
FrameForgotten == owed = 0 /\ \E f \in Frames : pc[f] = "rec_wait"
CallbackWaits == held["mLock"] = "app" /\ \E f \in Frames : pc[f] = "enter"

CallsReturn == pc["app"] = "enter" ~> pc["app"] = "idle" \/ FrameForgotten \/ CallbackWaits

EncoderFailed == mJpegThreadRunning /\ pc["encoder"] = None /\ pc["snapshot"] = "jpeg_wait"

(* A picture is finished: the snapshot thread ends, its encoder failed, or *)
(* what one of the two uses is gone, which ends the process.               *)
PictureEnds ==
    pc["snapshot"] = "snap_start" ~>
        \/ pc["snapshot"] = None
        \/ EncoderFailed
        \/ ~InPlace("snapshot") \/ ~InPlace("encoder")

(* initPreview() logs "waiting for snapshot mode to complete" and then     *)
(* "snapshot mode completed": the wait ends.                               *)
SnapshotModeCompletes == pc["app"] = "wait_snapshot" ~> pc["app"] # "wait_snapshot"

(* release() may be called from the frame thread's callback, and the       *)
(* thread is detached so that nothing deadlocks: the call returns.         *)
CallbackReturns ==
    \A f \in Frames : call[f] # None ~> call[f] = None
=============================================================================
