---------------------------- MODULE AudioRouting ----------------------------
(***************************************************************************)
(* AudioHardware (libaudio/AudioHardware.cpp): the routing of sound, the   *)
(* playback stream and the record stream, called by three threads of the   *)
(* media server: a binder thread (main) and the threads that write to and  *)
(* read from the streams.                                                  *)
(*                                                                         *)
(* doRouting() holds mLock; setMode(), the streams and setParameters()     *)
(* change what it reads without the lock, so each of its steps is an       *)
(* action.  The volumes, the preprocessing of recorded sound, the formats  *)
(* of the streams and the kernel are left out, the driver's view of the    *)
(* route apart.  The output is opened before anything else is called, the  *)
(* driver knows every device the constructor looks for, which the car kit  *)
(* is not among, and AudioFilter.csv was read without error.               *)
(***************************************************************************)
EXTENDS Integers

CONSTANTS
    Modes,           \* "normal", "in_call", "in_communication"
    OutputRoutes,    \* the sets of devices the policy routes the output to
    InputRoutes,     \* the devices it routes an input to
    Requests,        \* the parameters main sets
    OutputRequests,  \* those that come with a routing of the output
    Filters,         \* device class -> the filters AudioFilter.csv has for it
    NoThread,
    Uninitialised,   \* what memory may hold where the constructor sets nothing
    MaxRequests,     \* bound: calls that set something
    MaxFailures      \* bound: calls into the driver that fail

Threads == {"main", "playback", "record"}
None == "none"
Features == {"adrc", "eq", "iir", "mbadrc"}
Classes == {"speaker", "handset", "headset"}

ASSUME NoThreadAssumption == NoThread \notin Threads
ASSUME ModesAssumption == "normal" \in Modes
ASSUME FiltersAssumption == Filters \in [Classes -> SUBSET Features]
ASSUME BoundsAssumption == MaxRequests \in Nat /\ MaxFailures \in Nat

Outputs == {"speaker", "wired_headset", "wired_headphone", "sco", "sco_headset", "sco_carkit"}
Inputs == {None, "builtin_mic", "sco", "wired_headset", "voice_call"}
TtyModes == {"off", "vco", "hco", "full"}
Request == [bt : {None, "known", "unknown"}, dualmic : {None, "true", "false"},
            tty : {None} \cup TtyModes, fm : {None, "on", "off"}]

ASSUME RoutesAssumption == OutputRoutes \subseteq SUBSET Outputs /\ InputRoutes \subseteq Inputs
ASSUME UninitialisedAssumption == Uninitialised \subseteq TtyModes \cup {"garbage"}
ASSUME RequestsAssumption == Requests \cup OutputRequests \subseteq Request

VARIABLES
    pc, call,        \* where each thread is, and its locals
    mLock,
    mMode, mMicMute, mTtyMode, mDualMicEnabled, mBuiltinMicSelected,
    mFmRadioEnabled, mFmPrev,
    mCurSndDevice,
    playback_in_progress, post_proc_feature_mask,
    out,             \* the playback stream: mDevices, mStandby, mStartCount
    in,              \* the record stream, if there is one: mDevices, mState
    driver,          \* the last SND_SET_DEVICE: device and mutes
    audpp,           \* the postprocessing that is on
    requests, failures,
    misrouted,       \* the last route was refused, or none was asked for
    unrouted,        \* the last doRouting() had no device for the route
    modeLost,        \* setMode() cleared what doRouting() then stored again
    unfiltered       \* postprocessing failed, or two threads set it at once

settings == <<mMode, mMicMute, mTtyMode, mDualMicEnabled, mFmRadioEnabled>>
routed == <<driver, mFmPrev, misrouted, unrouted, modeLost>>
post == <<playback_in_progress, post_proc_feature_mask, audpp, unfiltered>>
bounds == <<requests, failures>>
vars == <<pc, call, mLock, settings, mBuiltinMicSelected, mCurSndDevice, routed, post,
          out, in, bounds>>

NoRequest == [bt |-> None, dualmic |-> None, tty |-> None, fm |-> None]
NoCall == [request |-> NoRequest, input |-> FALSE, device |-> None, mask |-> {},
           next |-> "idle", apply |-> {}, after |-> "idle"]

(* The constructor sets no mTtyMode: it is whatever the memory held.       *)
Init ==
    /\ pc = [t \in Threads |-> "idle"]
    /\ call = [t \in Threads |-> NoCall]
    /\ mLock = NoThread
    /\ mMode = "normal" /\ mMicMute = TRUE
    /\ mTtyMode \in Uninitialised
    /\ mDualMicEnabled = FALSE /\ mBuiltinMicSelected = FALSE
    /\ mFmRadioEnabled = FALSE /\ mFmPrev = FALSE
    /\ mCurSndDevice = None
    /\ playback_in_progress = FALSE
    /\ post_proc_feature_mask = Features
    /\ out \in [devices : OutputRoutes, standby : {TRUE}, startCount : {0}]
    /\ in = [exists |-> FALSE, devices |-> None, state |-> "closed"]
    /\ driver = [device |-> None, earMute |-> TRUE, micMute |-> TRUE]
    /\ audpp = {}
    /\ requests = 0 /\ failures = 0
    /\ misrouted = TRUE /\ unrouted = FALSE /\ modeLost = FALSE /\ unfiltered = FALSE

(* Returning to "idle" drops the locals.                                   *)
Goto(t, to, locals) ==
    /\ pc' = [pc EXCEPT ![t] = to]
    /\ call' = [call EXCEPT ![t] = IF to = "idle" THEN NoCall ELSE locals]
Route(t, input, next) == Goto(t, "route", [call[t] EXCEPT !.input = input, !.next = next])
Idle(t) == pc[t] = "idle"
Set == requests < MaxRequests /\ requests' = requests + 1 /\ UNCHANGED failures
Failed == failures < MaxFailures /\ failures' = failures + 1 /\ UNCHANGED requests
-----------------------------------------------------------------------------
(* doRouting(): which device, and which postprocessing goes with it.       *)

Sound(device, mask) == [device |-> device, mask |-> mask]
FmMask == {"eq", "iir"}
Fm(device, fmDevice) ==
    IF mFmRadioEnabled THEN Sound(fmDevice, FmMask) ELSE Sound(device, Features)

InputSound(device) ==
    IF device = "sco" THEN Sound("bt", {})
    ELSE IF device = "wired_headset" THEN Sound("headset", {})
    ELSE IF "speaker" \in out.devices THEN Sound("speaker", Features)
    ELSE Sound("handset", {})

Tty == [full |-> "tty_headset", vco |-> "tty_vco", hco |-> "tty_hco", garbage |-> None]

(* SND_DEVICE_CARKIT is never looked up and stays -1, as the device is     *)
(* with a TTY mode that was never set.                                     *)
OutputSound ==
    LET To(devices) == out.devices \cap devices # {}
    IN  IF mTtyMode # "off" /\ mMode = "in_call" /\ To({"wired_headset"})
            THEN Sound(Tty[mTtyMode], {})
        ELSE IF To({"sco", "sco_headset"}) THEN Sound("bt", {})
        ELSE IF To({"sco_carkit"}) THEN Sound(None, {})
        ELSE IF To({"wired_headset"}) /\ To({"speaker"})
            THEN Sound("headset_and_speaker", Features)
        ELSE IF To({"wired_headphone"}) /\ To({"speaker"})
            THEN Fm("headset_and_speaker", "fm_speaker")
        ELSE IF To({"wired_headphone"})
            THEN [Fm("no_mic_headset", "fm_headset")
                      EXCEPT !.mask = IF mFmRadioEnabled THEN @ ELSE {}]
        ELSE IF To({"wired_headset"}) THEN Fm("headset", "fm_headset")
        ELSE IF To({"speaker"}) THEN Fm("media_speaker", "fm_speaker")
        ELSE Sound("handset", Features)

DualMic(sound) ==
    IF mDualMicEnabled /\ mMode = "in_call" /\ sound.device \in {"handset", "speaker"}
    THEN [sound EXCEPT !.device = [handset |-> "dual_handset", speaker |-> "dual_speaker"][@]]
    ELSE sound

Selected(input) ==
    DualMic(IF input /\ in.devices # None THEN InputSound(in.devices) ELSE OutputSound)

(* AudioHardwareBase::isInCall().                                          *)
InCall == mMode \in {"in_call", "in_communication"}
Mute(device) ==
    /\ ~InCall
    /\ device = "handset" => ~mBuiltinMicSelected
    /\ ~mFmRadioEnabled

(* doRouting() up to the decision.  The input of a voice call is recorded  *)
(* from whatever the call uses.                                            *)
route(t) ==
    /\ pc[t] = "route" /\ mLock = NoThread
    /\ mBuiltinMicSelected' =
           IF call[t].input THEN in.devices = "builtin_mic" ELSE mBuiltinMicSelected
    /\ LET input == call[t].input
           new == Selected(input)
           keep == \/ input /\ in.devices = "voice_call"
                   \/ new.device = None
                   \/ new.device = mCurSndDevice /\ mFmRadioEnabled = mFmPrev
       IN  IF keep
           THEN /\ Goto(t, call[t].next, [call[t] EXCEPT !.input = FALSE])
                /\ unrouted' = IF input /\ in.devices = "voice_call" THEN unrouted
                               ELSE new.device = None
                /\ UNCHANGED mLock
           ELSE /\ mLock' = t
                /\ Goto(t, "switch", [call[t] EXCEPT !.device = new.device, !.mask = new.mask])
                /\ UNCHANGED unrouted
    /\ UNCHANGED <<settings, mCurSndDevice, driver, mFmPrev, misrouted, modeLost, post, out, in,
                   bounds>>

(* doAudioRouteOrMute(): with the microphone open, two SND_SET_DEVICE, the *)
(* first of which mutes it.  Whatever the driver says, doRouting() goes on *)
(* as if it had obeyed.                                                    *)
switchDevice(t) ==
    /\ pc[t] = "switch"
    /\ Goto(t, "disable", call[t])
    /\ mFmPrev' = mFmRadioEnabled
    /\ unrouted' = FALSE
    /\ LET device == call[t].device
           Told(mic) == [device |-> device, earMute |-> Mute(device), micMute |-> mic]
       IN  \/ /\ driver' = Told(mMicMute)
              /\ misrouted' = FALSE /\ modeLost' = FALSE
              /\ UNCHANGED bounds
           \/ /\ Failed
              /\ driver' \in IF mMicMute THEN {driver} ELSE {driver, Told(TRUE)}
              /\ misrouted' = TRUE
              /\ UNCHANGED modeLost
    /\ UNCHANGED <<mLock, settings, mBuiltinMicSelected, mCurSndDevice, post, out, in>>
-----------------------------------------------------------------------------
(* msm72xx_enable_postproc().                                              *)

Class(device) ==
    CASE device \in {"speaker", "media_speaker"}  -> "speaker"
      [] device = "handset"                        -> "handset"
      [] device \in {"headset", "no_mic_headset"} -> "headset"
      [] OTHER                                     -> None

(* Of the two compressors the multiband one wins.                          *)
EnableMask(device, mask) ==
    LET wanted == mask \cap Filters[Class(device)]
    IN  IF "mbadrc" \in wanted THEN wanted \ {"adrc"} ELSE wanted

(* The device and the mask are read first, and the driver is told later;   *)
(* without a device, or with one that has no filters, nothing is done.     *)
beginPostproc(t, enable, mask, next) ==
    IF Class(mCurSndDevice) = None
    THEN Goto(t, next, call[t])
    ELSE Goto(t, "postproc",
              [call[t] EXCEPT !.after = next,
                              !.apply = IF enable THEN EnableMask(mCurSndDevice, mask) ELSE {}])

setPostproc(t) ==
    /\ pc[t] = "postproc"
    /\ Goto(t, call[t].after, call[t])
    /\ \/ audpp' = call[t].apply /\ UNCHANGED <<unfiltered, bounds>>
       \/ Failed /\ unfiltered' = TRUE /\ UNCHANGED audpp
    /\ UNCHANGED <<mLock, settings, mBuiltinMicSelected, mCurSndDevice, routed,
                   playback_in_progress, post_proc_feature_mask, out, in>>

(* The playback stream is between reading the device and telling the       *)
(* driver: what it tells may be about another device.                      *)
Overlap(t) == t # "playback" /\ pc["playback"] = "postproc"

disableOld(t) ==
    /\ pc[t] = "disable"
    /\ IF playback_in_progress
       THEN beginPostproc(t, FALSE, post_proc_feature_mask, "save")
       ELSE Goto(t, "save", call[t])
    /\ UNCHANGED <<mLock, settings, mBuiltinMicSelected, mCurSndDevice, routed, post, out, in,
                   bounds>>

save(t) ==
    /\ pc[t] = "save"
    /\ mCurSndDevice' = call[t].device
    /\ unfiltered' = (unfiltered \/ Overlap(t))
    /\ Goto(t, "enable", call[t])
    /\ UNCHANGED <<mLock, settings, mBuiltinMicSelected, routed, playback_in_progress,
                   post_proc_feature_mask, audpp, out, in, bounds>>

(* Mutants.  An operator whose name ends in _X<n> is a changed form of the *)
(* definition after it, the way a bug would change it; nothing uses it.    *)
enableNew_X1(t) ==                         \* the old device's mask is applied
    /\ pc[t] = "enable"
    /\ post_proc_feature_mask' = call[t].mask
    /\ unfiltered' = (unfiltered \/ Overlap(t))
    /\ IF playback_in_progress
       THEN beginPostproc(t, TRUE, post_proc_feature_mask, "unlock")
       ELSE Goto(t, "unlock", call[t])
    /\ UNCHANGED <<mLock, settings, mBuiltinMicSelected, mCurSndDevice, routed,
                   playback_in_progress, audpp, out, in, bounds>>

enableNew(t) ==
    /\ pc[t] = "enable"
    /\ post_proc_feature_mask' = call[t].mask
    /\ unfiltered' = (unfiltered \/ Overlap(t))
    /\ IF playback_in_progress
       THEN beginPostproc(t, TRUE, call[t].mask, "unlock")
       ELSE Goto(t, "unlock", call[t])
    /\ UNCHANGED <<mLock, settings, mBuiltinMicSelected, mCurSndDevice, routed,
                   playback_in_progress, audpp, out, in, bounds>>

unlock(t) ==
    /\ pc[t] = "unlock"
    /\ mLock' = NoThread
    /\ Goto(t, call[t].next,
            [call[t] EXCEPT !.input = FALSE, !.device = None, !.mask = {}, !.apply = {},
                            !.after = "idle"])
    /\ UNCHANGED <<settings, mBuiltinMicSelected, mCurSndDevice, routed, post, out, in, bounds>>
-----------------------------------------------------------------------------
(* The calls of main.                                                      *)

setMode(m) ==
    /\ Idle("main") /\ Set
    /\ m # mMode
    /\ mMode' = m
    /\ Goto("main", "clear", NoCall)
    /\ UNCHANGED <<mLock, mMicMute, mTtyMode, mDualMicEnabled, mFmRadioEnabled,
                   mBuiltinMicSelected, mCurSndDevice, routed, post, out, in>>

(* Some doRouting() has asked for the old mode's route and will store it.  *)
Storing(t) ==
    mLock = t /\ (pc[t] \in {"disable", "save"} \/ (pc[t] = "postproc" /\ call[t].after = "save"))

clearCurDevice_X1 ==                       \* setMode() leaves the device
    /\ pc["main"] = "clear"
    /\ modeLost' = (modeLost \/ \E t \in Threads : Storing(t))
    /\ Goto("main", "idle", NoCall)
    /\ UNCHANGED <<mCurSndDevice, mLock, settings, mBuiltinMicSelected, driver, mFmPrev,
                   misrouted, unrouted, post, out, in, bounds>>

clearCurDevice ==
    /\ pc["main"] = "clear"
    /\ mCurSndDevice' = None
    /\ modeLost' = (modeLost \/ \E t \in Threads : Storing(t))
    /\ Goto("main", "idle", NoCall)
    /\ UNCHANGED <<mLock, settings, mBuiltinMicSelected, driver, mFmPrev, misrouted, unrouted,
                   post, out, in, bounds>>

(* setMicMute_nosync() calls doAudioRouteOrMute() for the current device,  *)
(* which is not the handset to Mute().                                     *)
setMicMute ==
    /\ Idle("main") /\ mLock = NoThread
    /\ requests < MaxRequests /\ requests' = requests + 1
    /\ mMicMute' = ~mMicMute
    /\ mFmPrev' = mFmRadioEnabled
    /\ \/ /\ driver' = [driver EXCEPT !.earMute = Mute("current"), !.micMute = mMicMute']
          /\ UNCHANGED <<misrouted, failures>>
       \/ /\ failures < MaxFailures /\ failures' = failures + 1
          /\ misrouted' = TRUE
          /\ UNCHANGED driver
    /\ UNCHANGED <<pc, call, mLock, mMode, mTtyMode, mDualMicEnabled, mFmRadioEnabled,
                   mBuiltinMicSelected, mCurSndDevice, unrouted, modeLost, post, out, in>>

(* AudioHardware::setParameters(), also called by the playback stream.     *)
Parameters(t, r) ==
    IF r.bt = "unknown"
    THEN Goto(t, "route", [NoCall EXCEPT !.request = r, !.next = "dualmic"])
    ELSE Goto(t, "dualmic", [NoCall EXCEPT !.request = r])
ParametersDone(t) == IF t = "playback" THEN "again" ELSE "idle"

setParameters(r) ==
    /\ Idle("main") /\ Set
    /\ Parameters("main", r)
    /\ UNCHANGED <<mLock, settings, mBuiltinMicSelected, mCurSndDevice, routed, post, out, in>>

setDualMic(t) ==
    /\ pc[t] = "dualmic"
    /\ LET v == call[t].request.dualmic
       IN  IF v = None
           THEN Goto(t, "tty", call[t]) /\ UNCHANGED mDualMicEnabled
           ELSE mDualMicEnabled' = (v = "true") /\ Route(t, FALSE, "tty")
    /\ UNCHANGED <<mLock, mMode, mMicMute, mTtyMode, mFmRadioEnabled, mBuiltinMicSelected,
                   mCurSndDevice, routed, post, out, in, bounds>>

(* Parameters that do not name a TTY mode turn it off.                     *)
setTty(t) ==
    /\ pc[t] = "tty"
    /\ LET v == call[t].request.tty
       IN  /\ mTtyMode' = IF v = None THEN "off" ELSE v
           /\ Goto(t, IF v # None /\ mMode # "in_call" THEN ParametersDone(t) ELSE "fm", call[t])
    /\ UNCHANGED <<mLock, mMode, mMicMute, mDualMicEnabled, mFmRadioEnabled, mBuiltinMicSelected,
                   mCurSndDevice, routed, post, out, in, bounds>>

setFmOnOff(t) ==
    /\ pc[t] = "fm"
    /\ mFmRadioEnabled' = IF call[t].request.fm = None THEN mFmRadioEnabled
                          ELSE call[t].request.fm = "on"
    /\ Route(t, FALSE, ParametersDone(t))
    /\ UNCHANGED <<mLock, mMode, mMicMute, mTtyMode, mDualMicEnabled, mBuiltinMicSelected,
                   mCurSndDevice, routed, post, out, in, bounds>>

(* openInputStream() opens the device in set(); if that fails the stream   *)
(* is deleted again, with or without the device it asked for.  A format    *)
(* set() does not even try, before it knows the hardware, changes nothing. *)
openInputStream(d) ==
    /\ Idle("main") /\ ~in.exists /\ mLock = NoThread
    /\ requests < MaxRequests /\ requests' = requests + 1
    /\ \/ /\ in' = [exists |-> TRUE, devices |-> d, state |-> "opened"]
          /\ UNCHANGED <<pc, call, failures>>
       \/ /\ failures < MaxFailures /\ failures' = failures + 1
          /\ \E kept \in {None, d} : in' = [in EXCEPT !.devices = kept]
          /\ Goto("main", "delete", [NoCall EXCEPT !.input = TRUE])
    /\ UNCHANGED <<mLock, settings, mBuiltinMicSelected, mCurSndDevice, routed, post, out>>

closeInputStream_X1 ==                     \* the stream is deleted under mLock
    /\ Idle("main") /\ Idle("record") /\ in.exists /\ mLock = NoThread
    /\ mLock' = "main"
    /\ Goto("main", "delete", [NoCall EXCEPT !.input = TRUE, !.next = "remove"])
    /\ UNCHANGED <<settings, mBuiltinMicSelected, mCurSndDevice, routed, post, out, in,
                   bounds>>

(* closeInputStream() gives mLock back before it deletes the stream.  The  *)
(* thread that reads from it has ended by then.                            *)
closeInputStream ==
    /\ Idle("main") /\ Idle("record") /\ in.exists /\ mLock = NoThread
    /\ Goto("main", "delete", [NoCall EXCEPT !.input = TRUE, !.next = "remove"])
    /\ UNCHANGED <<mLock, settings, mBuiltinMicSelected, mCurSndDevice, routed, post, out, in,
                   bounds>>

deleteInput ==
    /\ pc["main"] = "delete"
    /\ in' = [in EXCEPT !.state = "closed"]
    /\ mCurSndDevice' = None
    /\ Route("main", TRUE, call["main"].next)
    /\ UNCHANGED <<mLock, settings, mBuiltinMicSelected, routed, post, out, bounds>>

removeInput ==
    /\ pc["main"] = "remove" /\ mLock = NoThread
    /\ in' = [exists |-> FALSE, devices |-> None, state |-> "closed"]
    /\ Goto("main", "idle", NoCall)
    /\ UNCHANGED <<mLock, settings, mBuiltinMicSelected, mCurSndDevice, routed, post, out, bounds>>
-----------------------------------------------------------------------------
(* The playback stream.                                                    *)

AUDIO_HW_NUM_OUT_BUF == 2

(* write() opens the driver after a standby and starts it when two buffers *)
(* are full.  If the driver cannot be opened nothing changes; if it does   *)
(* not take the data it stays open.                                        *)
write ==
    /\ Idle("playback")
    /\ LET count == IF out.standby THEN AUDIO_HW_NUM_OUT_BUF ELSE out.startCount
       IN  \/ /\ out' = [out EXCEPT !.standby = FALSE, !.startCount = count]
              /\ UNCHANGED <<pc, call, playback_in_progress>>
           \/ /\ count > 1
              /\ out' = [out EXCEPT !.standby = FALSE, !.startCount = count - 1]
              /\ UNCHANGED <<pc, call, playback_in_progress>>
           \/ /\ count = 1
              /\ out' = [out EXCEPT !.startCount = 0]
              /\ playback_in_progress' = TRUE
              /\ Goto("playback", "start", NoCall)
    /\ UNCHANGED <<mLock, settings, mBuiltinMicSelected, mCurSndDevice, routed,
                   post_proc_feature_mask, audpp, unfiltered, in, bounds>>

startPostproc ==
    /\ pc["playback"] = "start"
    /\ beginPostproc("playback", TRUE, post_proc_feature_mask, "idle")
    /\ UNCHANGED <<mLock, settings, mBuiltinMicSelected, mCurSndDevice, routed, post, out, in,
                   bounds>>

standbyOut ==
    /\ Idle("playback") /\ ~out.standby
    /\ beginPostproc("playback", FALSE, post_proc_feature_mask, "stop")
    /\ UNCHANGED <<mLock, settings, mBuiltinMicSelected, mCurSndDevice, routed, post, out, in,
                   bounds>>

stopOut ==
    /\ pc["playback"] = "stop"
    /\ playback_in_progress' = FALSE
    /\ out' = [out EXCEPT !.standby = TRUE, !.startCount = 0]
    /\ unfiltered' = FALSE
    /\ Goto("playback", "idle", NoCall)
    /\ UNCHANGED <<mLock, settings, mBuiltinMicSelected, mCurSndDevice, routed,
                   post_proc_feature_mask, audpp, in, bounds>>

(* The stream's setParameters() sets the hardware's parameters, which      *)
(* routes, and then routes once more.                                      *)
setOutputRouting(devices, r) ==
    /\ Idle("playback") /\ Set
    /\ out' = [out EXCEPT !.devices = devices]
    /\ Parameters("playback", r)
    /\ UNCHANGED <<mLock, settings, mBuiltinMicSelected, mCurSndDevice, routed, post, in>>

routeAgain ==
    /\ pc["playback"] = "again"
    /\ Goto("playback", "route", NoCall)
    /\ UNCHANGED <<mLock, settings, mBuiltinMicSelected, mCurSndDevice, routed, post, out, in,
                   bounds>>
-----------------------------------------------------------------------------
(* The record stream.                                                      *)

Recording == Idle("record") /\ in.exists /\ ~call["main"].input

(* read() after a standby: set(), under mLock.                             *)
reopenInput ==
    /\ Recording /\ in.state = "closed" /\ mLock = NoThread
    /\ in' = [in EXCEPT !.state = "opened"]
    /\ Goto("record", "read", NoCall)
    /\ UNCHANGED <<mLock, settings, mBuiltinMicSelected, mCurSndDevice, routed, post, out, bounds>>

startInput ==
    /\ pc["record"] = "read" \/ Recording
    /\ in.state = "opened"
    /\ in' = [in EXCEPT !.state = "started"]
    /\ mCurSndDevice' = None
    /\ Route("record", TRUE, "audio_start")
    /\ UNCHANGED <<mLock, settings, mBuiltinMicSelected, routed, post, out, bounds>>

(* AUDIO_START; if it fails, standby().                                    *)
audioStart ==
    /\ pc["record"] = "audio_start"
    /\ \/ /\ Goto("record", "idle", NoCall)
          /\ UNCHANGED <<in, mCurSndDevice, bounds>>
       \/ /\ Failed
          /\ in' = [in EXCEPT !.state = "closed"]
          /\ mCurSndDevice' = None
          /\ Route("record", TRUE, "idle")
    /\ UNCHANGED <<mLock, settings, mBuiltinMicSelected, routed, post, out>>

standbyIn ==
    /\ Recording
    /\ in' = [in EXCEPT !.state = "closed"]
    /\ mCurSndDevice' = None
    /\ Route("record", TRUE, "idle")
    /\ UNCHANGED <<mLock, settings, mBuiltinMicSelected, routed, post, out, bounds>>

setInputRouting(d) ==
    /\ Recording /\ Set
    /\ in' = [in EXCEPT !.devices = d]
    /\ Route("record", TRUE, "idle")
    /\ UNCHANGED <<mLock, settings, mBuiltinMicSelected, mCurSndDevice, routed, post, out>>
-----------------------------------------------------------------------------
Continue(t) ==
    \/ route(t) \/ switchDevice(t) \/ disableOld(t) \/ save(t) \/ enableNew(t) \/ unlock(t)
    \/ setPostproc(t)
    \/ setDualMic(t) \/ setTty(t) \/ setFmOnOff(t)
    \/ t = "main" /\ (clearCurDevice \/ deleteInput \/ removeInput)
    \/ t = "playback" /\ (startPostproc \/ stopOut \/ routeAgain)
    \/ t = "record" /\ ~Idle("record") /\ (startInput \/ audioStart)

Call ==
    \/ \E m \in Modes : setMode(m)
    \/ setMicMute
    \/ \E r \in Requests : setParameters(r)
    \/ \E d \in InputRoutes : openInputStream(d) \/ setInputRouting(d)
    \/ closeInputStream
    \/ write \/ standbyOut
    \/ \E devices \in OutputRoutes, r \in OutputRequests : setOutputRouting(devices, r)
    \/ reopenInput \/ standbyIn
    \/ Idle("record") /\ startInput

Next == Call \/ \E t \in Threads : Continue(t)

(* A call that was made goes on; whether a thread that waits for mLock     *)
(* gets it in time is up to the scheduler.                                 *)
Spec == Init /\ [][Next]_vars /\ \A t \in Threads : WF_vars(Continue(t))
-----------------------------------------------------------------------------
ChangingFm == \E t \in Threads : ~Idle(t) /\ call[t].request.fm # None

(* When no routing is under way the driver has the device mCurSndDevice    *)
(* names and the microphone as setMicMute() left it; and when a device is  *)
(* named, the earpiece circuit is as the mode and the radio ask, although  *)
(* both change without mLock (doAudioRouteOrMute(), 1506-1523).  Not       *)
(* claimed: after the driver refused; of the circuit, when setMode() met a *)
(* doRouting() about to store (modeLost), when the last route has no       *)
(* device to tell the driver of (unrouted), and for the handset, whose     *)
(* muting also depends on the last input routed.                           *)
RouteAgrees ==
    mLock = NoThread /\ ~misrouted =>
        /\ mCurSndDevice \in {None, driver.device}
        /\ driver.micMute = mMicMute
        /\ mCurSndDevice \notin {None, "handset"} /\ ~modeLost /\ ~unrouted
               /\ pc["main"] # "clear" /\ ~ChangingFm
           => driver.earMute = (~InCall /\ ~mFmRadioEnabled)

(* "enable post proc for new device" (1687): while sound plays and nobody  *)
(* is at it, the postprocessing that is on is that of the current device   *)
(* and its mask, whichever of write() and doRouting() came first.  Not     *)
(* claimed: for devices without filters, and while the driver failed or    *)
(* the stream and doRouting() set it at the same time.                     *)
MaskFits ==
    /\ playback_in_progress /\ pc["playback"] \notin {"start", "postproc", "stop"}
    /\ mLock = NoThread /\ ~unfiltered
    /\ Class(mCurSndDevice) # None
    => audpp = EnableMask(mCurSndDevice, post_proc_feature_mask)

(* No thread keeps mLock for ever: nobody who has it waits for it.  The    *)
(* streams call doRouting() from read(), standby() and their destructor.   *)
LockReleased == []<>(mLock = NoThread)
=============================================================================
