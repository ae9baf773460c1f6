------------------------ MODULE AudioHardware_proofs ------------------------
(***************************************************************************)
(* The invariants of AudioRouting and, below, of AudioFilter: two parts    *)
(* of AudioHardware that share the table of filters only.                  *)
(*                                                                         *)
(* RouteAgrees and MaskFits speak of the moments when nobody is inside     *)
(* doRouting().  Inside it, the driver knows the new device before         *)
(* mCurSndDevice does, and the old filters go before the new ones come:    *)
(* the invariant IInv says at each of its steps which of them is so, for   *)
(* the one thread that has mLock (LockHeld).  The other threads work on    *)
(* the same settings without the lock; what they may do then is in the     *)
(* parts of IInv about the microphone, the earpiece and the radio          *)
(* (MicAgrees, EarAgrees, FmAgrees), which is why these also name the      *)
(* steps of threads that are not inside.                                   *)
(*                                                                         *)
(* FmAgrees says who will tell the driver of a change of the radio; if     *)
(* nobody will, the last doRouting() passed it over, having no device.     *)
(***************************************************************************)
EXTENDS AudioRouting, AudioFilter, TLAPS

(* Where a thread has mLock, and where it has not; at "postproc" it may.   *)
LockPlaces == {"switch", "disable", "save", "enable", "unlock"}
FreePlaces == {"idle", "route", "dualmic", "tty", "fm", "clear", "delete", "remove", "start",
               "stop", "again", "read", "audio_start"}
PCs == LockPlaces \cup FreePlaces \cup {"postproc"}

(* Where a thread goes on after doRouting(), and after the postprocessing. *)
NextPlaces == {"idle", "dualmic", "tty", "again", "remove", "audio_start"}
AfterPlaces == {"idle", "stop", "save", "unlock"}

(* The devices doRouting() may tell the driver of.                         *)
Devices == {None, "bt", "headset", "speaker", "handset", "dual_speaker", "dual_handset",
            "headset_and_speaker", "fm_speaker", "fm_headset", "no_mic_headset",
            "media_speaker", "tty_headset", "tty_vco", "tty_hco"}
Sounds == [device : Devices, mask : SUBSET Features]

Calls == [request : Request, input : BOOLEAN, device : Devices, mask : SUBSET Features,
          next : NextPlaces, apply : SUBSET Features, after : AfterPlaces]

PlacesCorrect ==
    /\ pc \in [Threads -> PCs]
    /\ call \in [Threads -> Calls]

SettingsCorrect ==
    /\ mMicMute \in BOOLEAN /\ mFmRadioEnabled \in BOOLEAN /\ mFmPrev \in BOOLEAN
    /\ mTtyMode \in TtyModes \cup {"garbage"}
    /\ driver \in [device : Devices, earMute : BOOLEAN, micMute : BOOLEAN]

TypesCorrect == PlacesCorrect /\ SettingsCorrect

(* The places doRouting() reaches with mLock, and nobody else does.        *)
Inside(t) ==
    \/ pc[t] \in LockPlaces
    \/ pc[t] = "postproc" /\ call[t].after \in {"save", "unlock"}

LockHeld == \A t \in Threads : Inside(t) <=> mLock = t

(* The thread that has told the driver of a device and has yet to name it. *)
Telling(t) == pc[t] \in {"disable", "save"} \/ (pc[t] = "postproc" /\ call[t].after = "save")

MicAgrees == ~misrouted => driver.micMute = mMicMute

DeviceAgrees ==
    ~misrouted =>
        /\ \A t \in Threads : Telling(t) => driver.device = call[t].device
        /\ (\A t \in Threads : ~Telling(t)) => mCurSndDevice \in {None, driver.device}

EarAgrees ==
    ~misrouted /\ ~modeLost /\ pc["main"] # "clear" =>
        \/ driver.earMute = (~InCall /\ ~mFmPrev)
        \/ \E t \in Threads : Telling(t) /\ call[t].device = "handset"
        \/ (\A t \in Threads : ~Telling(t)) /\ mCurSndDevice \in {None, "handset"}

(* A thread that has switched the radio and will route for it.             *)
RoutesFm(t) ==
    /\ call[t].request.fm # None
    /\ pc[t] \in {"route", "switch"}
    /\ ~call[t].input
    /\ call[t].next \in {"idle", "again"}

(* A change of the radio is passed over only without a device.             *)
FmAgrees ==
    mFmRadioEnabled # mFmPrev => unrouted \/ \E t \in Threads : RoutesFm(t)

(* What a thread is about to tell the driver fits the current device.      *)
ApplyFits(t) == Class(mCurSndDevice) # None =>
                    call[t].apply = EnableMask(mCurSndDevice, post_proc_feature_mask)

Fits ==
    /\ playback_in_progress /\ pc["playback"] \notin {"start", "postproc", "stop"}
    /\ ~unfiltered
    /\ Class(mCurSndDevice) # None
    => audpp = EnableMask(mCurSndDevice, post_proc_feature_mask)

FiltersFit ==
    /\ \A t \in Threads \ {"playback"} : pc[t] = "postproc" => call[t].after \in {"save", "unlock"}
    /\ \A t \in Threads : pc[t] = "postproc" /\ call[t].after = "unlock" => ApplyFits(t)
    /\ pc["playback"] = "postproc" /\ call["playback"].after = "idle" /\ ~unfiltered =>
           ApplyFits("playback")
    /\ (mLock = NoThread \/ \E t \in Threads : pc[t] = "unlock") => Fits

RouteInv == MicAgrees /\ DeviceAgrees /\ EarAgrees
IInv == TypesCorrect /\ LockHeld /\ RouteInv /\ FmAgrees /\ FiltersFit
-----------------------------------------------------------------------------
(* The steps of an action on the thread t leave every other thread alone.  *)
Moved(t) ==
    /\ PlacesCorrect'
    /\ \A u \in Threads \ {t} : pc'[u] = pc[u] /\ call'[u] = call[u]

(* No locals are locals.                                                   *)
LEMMA NoCallTyped == NoCall \in Calls
<1>1. NoRequest \in Request
  BY DEF NoRequest, Request, None, TtyModes
<1>2. "idle" \in NextPlaces /\ "idle" \in AfterPlaces /\ None \in Devices
  BY DEF NextPlaces, AfterPlaces, Devices
<1>3. {} \in SUBSET Features /\ FALSE \in BOOLEAN
  OBVIOUS
<1> QED BY <1>1, <1>2, <1>3 DEF NoCall, Calls

(* Goto() moves one thread, and gives it the locals it names.              *)
LEMMA GotoMoves ==
    ASSUME PlacesCorrect, NEW t \in Threads, NEW to \in PCs, NEW locals \in Calls,
           Goto(t, to, locals)
    PROVE  /\ Moved(t)
           /\ pc'[t] = to
           /\ call'[t] = IF to = "idle" THEN NoCall ELSE locals
BY NoCallTyped DEF Goto, Moved, PlacesCorrect

(* A device has filters of one class, or none.                             *)
LEMMA ClassTyped == \A device : Class(device) \in Classes \cup {None}
BY DEF Class, Classes, None

(* No device has no filters.                                               *)
LEMMA NoClass == Class(None) = None
BY DEF Class, None

(* Only filters of the device are enabled.                                 *)
LEMMA EnableMaskTyped ==
    ASSUME NEW device, NEW mask, Class(device) # None
    PROVE  EnableMask(device, mask) \subseteq Features
BY ClassTyped, FiltersAssumption DEF EnableMask

(* What a sound is made of.                                                *)
LEMMA SoundTyped == \A d \in Devices, m \in SUBSET Features : Sound(d, m) \in Sounds
BY DEF Sound, Sounds

(* A sound is for the device it was made with.                             *)
LEMMA SoundDevice == \A d, m : Sound(d, m).device = d
BY DEF Sound

(* An input is never without a sound.                                      *)
LEMMA InputSoundTyped ==
    ASSUME NEW d
    PROVE  InputSound(d) \in Sounds
<1>1. {} \in SUBSET Features /\ Features \in SUBSET Features
  OBVIOUS
<1>2. {"bt", "headset", "speaker", "handset"} \subseteq Devices
  BY DEF Devices
<1> QED BY <1>1, <1>2, SoundTyped DEF InputSound

(* With the radio, the output still has a sound.                           *)
LEMMA FmTyped ==
    ASSUME NEW d \in Devices, NEW e \in Devices
    PROVE  Fm(d, e) \in Sounds
<1>1. FmMask \in SUBSET Features /\ Features \in SUBSET Features
  BY DEF FmMask, Features
<1> QED BY <1>1, SoundTyped DEF Fm

(* The output has a sound, if not always a device.                         *)
LEMMA OutputSoundTyped ==
    ASSUME SettingsCorrect
    PROVE  OutputSound \in Sounds
<1> DEFINE tty == Sound(Tty[mTtyMode], {})
           jack == [Fm("no_mic_headset", "fm_headset")
                        EXCEPT !.mask = IF mFmRadioEnabled THEN @ ELSE {}]
<1>1. {} \in SUBSET Features /\ Features \in SUBSET Features
  OBVIOUS
<1>2. {None, "bt", "headset", "media_speaker", "handset", "headset_and_speaker", "fm_speaker",
       "fm_headset", "no_mic_headset"} \subseteq Devices
  BY DEF Devices
<1>3. ASSUME mTtyMode # "off"
      PROVE  tty \in Sounds
  <2>1. mTtyMode \in {"vco", "hco", "full", "garbage"}
    BY <1>3 DEF SettingsCorrect, TtyModes
  <2>2. Tty[mTtyMode] \in Devices
    BY <2>1 DEF Tty, Devices
  <2> QED BY <2>2, <1>1, SoundTyped
<1>4. jack \in Sounds
  <2>1. PICK f \in Sounds : f = Fm("no_mic_headset", "fm_headset")
    BY <1>2, FmTyped
  <2> QED BY <2>1, <1>1 DEF Sounds
<1> HIDE DEF tty, jack
<1>5. \/ mTtyMode # "off" /\ OutputSound = tty
      \/ OutputSound \in {Sound("bt", {}), Sound(None, {}),
             Sound("headset_and_speaker", Features), Fm("headset_and_speaker", "fm_speaker"), jack,
             Fm("headset", "fm_headset"), Fm("media_speaker", "fm_speaker"),
             Sound("handset", Features)}
  BY DEF OutputSound, tty, jack
<1> QED BY <1>1, <1>2, <1>3, <1>4, <1>5, SoundTyped, FmTyped

(* A second microphone changes the device.                                 *)
LEMMA DualMicTyped ==
    ASSUME NEW sound \in Sounds
    PROVE  DualMic(sound) \in Sounds
<1> DEFINE dual == mDualMicEnabled /\ mMode = "in_call" /\ sound.device \in {"handset", "speaker"}
<1>1. CASE ~dual
  BY <1>1 DEF DualMic
<1>2. CASE dual
  <2>1. PICK d : d = [handset |-> "dual_handset", speaker |-> "dual_speaker"][sound.device]
    OBVIOUS
  <2>2. d \in {"dual_handset", "dual_speaker"}
    BY <2>1, <1>2
  <2>3. DualMic(sound) = [sound EXCEPT !.device = d]
    BY <2>1, <1>2 DEF DualMic
  <2> QED BY <2>2, <2>3 DEF Sounds, Devices
<1> QED BY <1>1, <1>2

(* doRouting() selects a sound.                                            *)
LEMMA SelectedTyped ==
    ASSUME SettingsCorrect, NEW input \in BOOLEAN
    PROVE  Selected(input) \in Sounds
BY DualMicTyped, InputSoundTyped, OutputSoundTyped DEF Selected
-----------------------------------------------------------------------------
(* The steps that are not doRouting()'s: the thread has not mLock before,  *)
(* nor after.                                                              *)

Outside(t) ==
    /\ Moved(t)
    /\ mLock' = mLock
    /\ pc[t] \in FreePlaces \ {"route"}
    /\ pc'[t] \in FreePlaces \/ (pc'[t] = "postproc" /\ call'[t].after \in {"idle", "stop"})

(* The thread that has mLock is the only one inside doRouting().           *)
LEMMA OneInside ==
    ASSUME LockHeld, NEW t \in Threads, Inside(t)
    PROVE  /\ mLock = t /\ mLock # NoThread
           /\ \A u \in Threads \ {t} : ~Inside(u)
BY NoThreadAssumption DEF LockHeld

(* Who tells the driver of a device is inside.                             *)
LEMMA TellingIsInside == \A t : Telling(t) => Inside(t)
BY DEF Telling, Inside, LockPlaces

(* Nobody at "unlock", and nobody inside, when the lock is another's.      *)
LEMMA UnlockIsInside == \A t : pc[t] = "unlock" => Inside(t)
BY DEF Inside, LockPlaces

(* Whoever is neither inside nor at it leaves the others inside or not.    *)
LEMMA OutsideStays ==
    ASSUME NEW t \in Threads, Outside(t)
    PROVE  /\ \A u \in Threads : Inside(u)' <=> Inside(u)
           /\ \A u \in Threads : Telling(u)' <=> Telling(u)
           /\ \A u \in Threads : Telling(u) => call'[u] = call[u]
           /\ \A u \in Threads : pc'[u] = "unlock" <=> pc[u] = "unlock"
<1>1. ~Inside(t) /\ ~Inside(t)' /\ ~Telling(t) /\ ~Telling(t)'
      /\ pc[t] # "unlock" /\ pc'[t] # "unlock"
  BY DEF Outside, Inside, Telling, LockPlaces, FreePlaces
<1>2. ASSUME NEW u \in Threads \ {t}
      PROVE  pc'[u] = pc[u] /\ call'[u] = call[u]
  BY DEF Outside, Moved
<1> QED BY <1>1, <1>2 DEF Inside, Telling

(* Such a step leaves the lock with the thread that is inside.             *)
LEMMA OutsideLock ==
    ASSUME LockHeld, NEW t \in Threads, Outside(t)
    PROVE  LockHeld'
BY OutsideStays DEF LockHeld, Outside

(* A step that leaves the driver, the mode and what was told of the radio. *)
LEMMA OutsideRoute ==
    ASSUME RouteInv, NEW t \in Threads, Outside(t),
           UNCHANGED <<driver, misrouted, mFmPrev, modeLost, mMicMute, mMode>>,
           mCurSndDevice' \in {None, mCurSndDevice},
           pc["main"] = "clear" => pc'["main"] = "clear"
    PROVE  RouteInv'
<1>1. MicAgrees'
  BY DEF RouteInv, MicAgrees
<1>2. DeviceAgrees'
  BY OutsideStays DEF RouteInv, DeviceAgrees
<1>3. EarAgrees'
  BY OutsideStays DEF RouteInv, EarAgrees, InCall
<1> QED BY <1>1, <1>2, <1>3 DEF RouteInv

(* A step that leaves the radio, and does not route for it.                *)
LEMMA OutsideFm ==
    ASSUME FmAgrees, NEW t \in Threads, Outside(t),
           UNCHANGED <<mFmRadioEnabled, mFmPrev, unrouted>>,
           ~RoutesFm(t)'
    PROVE  FmAgrees'
<1>1. ~RoutesFm(t)
  BY DEF RoutesFm, Outside, FreePlaces
<1>2. \A u \in Threads \ {t} : /\ RoutesFm(u)' <=> RoutesFm(u)
                               /\ pc'[u] = pc[u]
  BY DEF Outside, Moved, RoutesFm
<1> QED BY <1>1, <1>2 DEF FmAgrees

(* A step that leaves the postprocessing, and tells it nothing.            *)
LEMMA OutsideFilters ==
    ASSUME FiltersFit, NEW t \in Threads, Outside(t), UNCHANGED post,
           mCurSndDevice' \in {None, mCurSndDevice},
           pc'[t] # "postproc",
           t = "playback" => /\ pc'[t] \notin {"start", "stop"}
                             /\ pc[t] \notin {"postproc", "start", "stop"}
    PROVE  FiltersFit'
<1>1. \A u \in Threads \ {t} : pc'[u] = pc[u] /\ call'[u] = call[u]
  BY DEF Outside, Moved
<1>2. \A u \in Threads : ApplyFits(u) /\ call'[u] = call[u] => ApplyFits(u)'
  BY NoClass DEF ApplyFits, post
<1>3. Fits => Fits'
  BY <1>1, NoClass DEF Fits, post, Threads
<1>4. (mLock = NoThread \/ \E u \in Threads : pc[u] = "unlock")'
      => (mLock = NoThread \/ \E u \in Threads : pc[u] = "unlock")
  BY OutsideStays DEF Outside
<1>5. ~(pc'[t] = "postproc" /\ call'[t].after = "unlock")
  BY DEF Outside, FreePlaces
<1>6. ASSUME NEW u \in Threads, (pc[u] = "postproc" /\ call[u].after = "unlock")'
      PROVE  ApplyFits(u)'
  BY <1>1, <1>2, <1>5, <1>6 DEF FiltersFit
<1>7. ASSUME (pc["playback"] = "postproc" /\ call["playback"].after = "idle" /\ ~unfiltered)'
      PROVE  ApplyFits("playback")'
  <2>1. t # "playback" /\ "playback" \in Threads
    BY <1>7 DEF Threads
  <2> QED BY <1>1, <1>2, <1>7, <2>1 DEF FiltersFit, post
<1>8. \A u \in Threads \ {"playback"} :
          (pc[u] = "postproc" => call[u].after \in {"save", "unlock"})'
  BY <1>1 DEF FiltersFit
<1> QED BY <1>3, <1>4, <1>6, <1>7, <1>8 DEF FiltersFit

(* A step outside doRouting() that changes neither what the driver was     *)
(* told nor the radio, and at most clears the device or sets a TTY mode.   *)
LEMMA PlainStep ==
    ASSUME IInv, NEW t \in Threads, Outside(t),
           UNCHANGED <<driver, misrouted, unrouted, mFmPrev, modeLost, mMicMute, mMode,
                       mFmRadioEnabled, post>>,
           mCurSndDevice' \in {None, mCurSndDevice},
           mTtyMode' = mTtyMode \/ mTtyMode' \in TtyModes,
           pc[t] \notin {"clear", "start", "stop"},
           pc'[t] \notin {"postproc", "start", "stop"},
           ~RoutesFm(t)'
    PROVE  IInv'
<1>1. TypesCorrect'
  BY DEF IInv, TypesCorrect, Outside, Moved, SettingsCorrect
<1>2. pc["main"] = "clear" => pc'["main"] = "clear"
  BY DEF Outside, Moved, Threads
<1>3. pc[t] # "postproc"
  BY DEF Outside, FreePlaces
<1> QED BY <1>1, <1>2, <1>3, OutsideLock, OutsideRoute, OutsideFm, OutsideFilters DEF IInv

(* Goto() from a place without the lock to another.                        *)
LEMMA GotoOutside ==
    ASSUME IInv, NEW t \in Threads, NEW to \in FreePlaces, NEW locals \in Calls,
           pc[t] \in FreePlaces \ {"route"}, mLock' = mLock, Goto(t, to, locals)
    PROVE  /\ Outside(t)
           /\ pc'[t] = to
           /\ call'[t] = IF to = "idle" THEN NoCall ELSE locals
BY GotoMoves DEF IInv, TypesCorrect, Outside, PCs

(* A thread that does not move.                                            *)
LEMMA StandOutside ==
    ASSUME IInv, NEW t \in Threads, pc[t] = "idle", UNCHANGED <<pc, call, mLock>>
    PROVE  Outside(t)
BY DEF IInv, TypesCorrect, PlacesCorrect, Outside, Moved, FreePlaces

(* Route() from a place without the lock.  It is for the radio only when   *)
(* an output is routed for a call that switched it.                        *)
LEMMA RouteOutside ==
    ASSUME IInv, NEW t \in Threads, NEW input \in BOOLEAN, NEW next \in NextPlaces,
           pc[t] \in FreePlaces \ {"route"}, mLock' = mLock, Route(t, input, next)
    PROVE  /\ Outside(t)
           /\ pc'[t] = "route"
           /\ call'[t].request = call[t].request
           /\ input \/ next \notin {"idle", "again"} => ~RoutesFm(t)'
<1> DEFINE locals == [call[t] EXCEPT !.input = input, !.next = next]
<1>1. call[t] \in Calls
  BY DEF IInv, TypesCorrect, PlacesCorrect
<1>2. /\ locals \in Calls
      /\ locals.request = call[t].request
      /\ locals.input = input
      /\ locals.next = next
  BY <1>1 DEF Calls
<1>3. "route" \in FreePlaces /\ Goto(t, "route", locals)
  BY DEF Route, FreePlaces
<1> HIDE DEF locals
<1>4. Outside(t) /\ pc'[t] = "route" /\ call'[t] = locals
  BY <1>2, <1>3, GotoOutside
<1> QED BY <1>2, <1>4 DEF RoutesFm

(* A thread that is idle is outside; there are three threads.              *)
LEMMA IdleIsFree == "idle" \in FreePlaces \ {"route"} /\ Threads = {"main", "playback", "record"}
BY DEF FreePlaces, Threads

(* Parameter "dualmic_enabled": a change is routed before the TTY mode.    *)
LEMMA SetDualMic ==
    ASSUME IInv, NEW t \in Threads, setDualMic(t)
    PROVE  IInv'
<1>1. call[t] \in Calls
  BY DEF IInv, TypesCorrect, PlacesCorrect
<1>2. pc[t] = "dualmic" /\ "dualmic" \in FreePlaces \ {"route"} /\ "tty" \in NextPlaces
      /\ "tty" \in FreePlaces
  BY DEF setDualMic, FreePlaces, NextPlaces
<1>3. Outside(t) /\ pc'[t] \in {"tty", "route"} /\ ~RoutesFm(t)'
  <2>1. CASE Goto(t, "tty", call[t])
    BY <1>1, <1>2, <2>1, GotoOutside DEF setDualMic, RoutesFm
  <2>2. CASE Route(t, FALSE, "tty")
    BY <1>1, <1>2, <2>2, RouteOutside DEF setDualMic
  <2> QED BY <2>1, <2>2 DEF setDualMic
<1> QED BY <1>2, <1>3, PlainStep DEF setDualMic, routed, post

(* Parameter "tty_mode": whatever is asked for, the mode is one from now   *)
(* on.                                                                     *)
LEMMA SetTty ==
    ASSUME IInv, NEW t \in Threads, setTty(t)
    PROVE  IInv'
<1>1. call[t] \in Calls
  BY DEF IInv, TypesCorrect, PlacesCorrect
<1>2. call[t].request.tty \in {None} \cup TtyModes
  BY <1>1 DEF Calls, Request
<1>3. mTtyMode' \in TtyModes
  BY <1>2 DEF setTty, TtyModes
<1>4. PICK to \in {"again", "idle", "fm"} : Goto(t, to, call[t])
  BY DEF setTty, ParametersDone
<1>5. pc[t] = "tty" /\ "tty" \in FreePlaces \ {"route"} /\ {"again", "idle",
                                                            "fm"} \subseteq FreePlaces
  BY DEF setTty, FreePlaces
<1>6. Outside(t) /\ pc'[t] \in {"again", "idle", "fm"}
  BY <1>1, <1>4, <1>5, GotoOutside DEF setTty
<1>7. ~RoutesFm(t)'
  BY <1>6 DEF RoutesFm
<1> QED BY <1>3, <1>5, <1>6, <1>7, PlainStep DEF setTty, routed, post

(* The requests of both streams are requests.                              *)
LEMMA ParametersOutside ==
    ASSUME IInv, NEW t \in Threads, NEW r \in Requests \cup OutputRequests, pc[t] = "idle",
           mLock' = mLock, Parameters(t, r)
    PROVE  Outside(t) /\ pc'[t] \in {"dualmic", "route"} /\ ~RoutesFm(t)'
<1>1. r \in Request
  BY RequestsAssumption
<1>2. "dualmic" \in NextPlaces /\ "dualmic" \in FreePlaces /\ "route" \in FreePlaces
  BY DEF NextPlaces, FreePlaces
<1>3. CASE r.bt = "unknown"
  <2> DEFINE locals == [NoCall EXCEPT !.request = r, !.next = "dualmic"]
  <2>1. locals \in Calls /\ locals.next = "dualmic"
    BY <1>1, <1>2, NoCallTyped DEF Calls
  <2>2. Goto(t, "route", locals)
    BY <1>3 DEF Parameters
  <2> HIDE DEF locals
  <2> QED BY <1>2, <2>1, <2>2, IdleIsFree, GotoOutside DEF RoutesFm
<1>4. CASE r.bt # "unknown"
  <2> DEFINE locals == [NoCall EXCEPT !.request = r]
  <2>1. locals \in Calls
    BY <1>1, NoCallTyped DEF Calls
  <2>2. Goto(t, "dualmic", locals)
    BY <1>4 DEF Parameters
  <2> HIDE DEF locals
  <2> QED BY <1>2, <2>1, <2>2, IdleIsFree, GotoOutside DEF RoutesFm
<1> QED BY <1>3, <1>4

(* A call of setParameters() begins with the headset's name.               *)
LEMMA SetParameters ==
    ASSUME IInv, NEW r \in Requests, setParameters(r)
    PROVE  IInv'
<1>1. Outside("main") /\ pc'["main"] \in {"dualmic", "route"} /\ ~RoutesFm("main")'
  BY IdleIsFree, ParametersOutside DEF setParameters, Idle
<1> QED BY <1>1, IdleIsFree, PlainStep DEF setParameters, Idle, settings, routed, post

(* The same of an output stream, whose devices it also names.              *)
LEMMA SetOutputRouting ==
    ASSUME IInv, NEW devices \in OutputRoutes, NEW r \in OutputRequests, setOutputRouting(devices,
                                                                                          r)
    PROVE  IInv'
<1>1. Outside("playback") /\ pc'["playback"] \in {"dualmic", "route"} /\ ~RoutesFm("playback")'
  BY IdleIsFree, ParametersOutside DEF setOutputRouting, Idle
<1> QED BY <1>1, IdleIsFree, PlainStep DEF setOutputRouting, Idle, settings, routed, post

(* An output stream routes a second time, for no parameter.                *)
LEMMA RouteAgain ==
    ASSUME IInv, routeAgain
    PROVE  IInv'
<1>1. pc["playback"] = "again" /\ "again" \in FreePlaces \ {"route"} /\ "route" \in FreePlaces
  BY DEF routeAgain, FreePlaces
<1>2. Outside("playback") /\ pc'["playback"] = "route" /\ call'["playback"] = NoCall
  BY <1>1, NoCallTyped, IdleIsFree, GotoOutside DEF routeAgain
<1>3. ~RoutesFm("playback")'
  BY <1>2 DEF RoutesFm, NoCall, NoRequest
<1> QED BY <1>1, <1>2, <1>3, IdleIsFree, PlainStep DEF routeAgain, settings, routed, post

(* A stream that is opened for a device stops the one there was.           *)
LEMMA OpenInputStream ==
    ASSUME IInv, NEW d \in InputRoutes, openInputStream(d)
    PROVE  IInv'
<1>1. pc["main"] = "idle"
  BY DEF openInputStream, Idle
<1>2. Outside("main") /\ pc'["main"] \in {"idle", "delete"}
  <2>1. CASE UNCHANGED <<pc, call>>
    BY <1>1, <2>1, IdleIsFree, StandOutside DEF openInputStream
  <2>2. CASE Goto("main", "delete", [NoCall EXCEPT !.input = TRUE])
    <3>1. [NoCall EXCEPT !.input = TRUE] \in Calls /\ "delete" \in FreePlaces
      BY NoCallTyped DEF Calls, FreePlaces
    <3> QED BY <1>1, <2>2, <3>1, IdleIsFree, GotoOutside DEF openInputStream
  <2> QED BY <2>1, <2>2 DEF openInputStream
<1>3. ~RoutesFm("main")'
  BY <1>2 DEF RoutesFm
<1> QED BY <1>1, <1>2, <1>3, IdleIsFree, PlainStep DEF openInputStream, settings, routed, post

(* A stream that is closed is deleted, then forgotten.                     *)
LEMMA CloseInputStream ==
    ASSUME IInv, closeInputStream
    PROVE  IInv'
<1>1. pc["main"] = "idle"
  BY DEF closeInputStream, Idle
<1>2. [NoCall EXCEPT !.input = TRUE, !.next = "remove"] \in Calls /\ "delete" \in FreePlaces
  BY NoCallTyped DEF Calls, FreePlaces, NextPlaces
<1>3. Outside("main") /\ pc'["main"] = "delete"
  BY <1>1, <1>2, IdleIsFree, GotoOutside DEF closeInputStream
<1>4. ~RoutesFm("main")'
  BY <1>3 DEF RoutesFm
<1> QED BY <1>1, <1>3, <1>4, IdleIsFree, PlainStep DEF closeInputStream, settings, routed, post

(* The destructor of an input routes once more.                            *)
LEMMA DeleteInput ==
    ASSUME IInv, deleteInput
    PROVE  IInv'
<1>1. pc["main"] = "delete" /\ "delete" \in FreePlaces \ {"route"}
  BY DEF deleteInput, FreePlaces
<1>2. call["main"].next \in NextPlaces
  BY IdleIsFree DEF IInv, TypesCorrect, PlacesCorrect, Calls
<1>3. Outside("main") /\ pc'["main"] = "route" /\ ~RoutesFm("main")'
  BY <1>1, <1>2, IdleIsFree, RouteOutside DEF deleteInput
<1> QED BY <1>1, <1>3, IdleIsFree, PlainStep DEF deleteInput, settings, routed, post

(* The input is taken from the list.                                       *)
LEMMA RemoveInput ==
    ASSUME IInv, removeInput
    PROVE  IInv'
<1>1. pc["main"] = "remove" /\ "remove" \in FreePlaces \ {"route"}
  BY DEF removeInput, FreePlaces
<1>2. Outside("main") /\ pc'["main"] = "idle"
  BY <1>1, NoCallTyped, IdleIsFree, GotoOutside DEF removeInput
<1>3. ~RoutesFm("main")'
  BY <1>2 DEF RoutesFm
<1> QED BY <1>1, <1>2, <1>3, IdleIsFree, PlainStep DEF removeInput, settings, routed, post

(* read() opens the driver of an input in standby.                         *)
LEMMA ReopenInput ==
    ASSUME IInv, reopenInput
    PROVE  IInv'
<1>1. pc["record"] = "idle" /\ "read" \in FreePlaces
  BY DEF reopenInput, Recording, Idle, FreePlaces
<1>2. Outside("record") /\ pc'["record"] = "read"
  BY <1>1, NoCallTyped, IdleIsFree, GotoOutside DEF reopenInput
<1>3. ~RoutesFm("record")'
  BY <1>2 DEF RoutesFm
<1> QED BY <1>1, <1>2, <1>3, IdleIsFree, PlainStep DEF reopenInput, settings, routed, post

(* A read that starts the input routes first.                              *)
LEMMA StartInput ==
    ASSUME IInv, startInput
    PROVE  IInv'
<1>1. pc["record"] \in {"idle", "read"} /\ {"idle", "read"} \subseteq FreePlaces \ {"route"}
      /\ "audio_start" \in NextPlaces
  BY DEF startInput, Recording, Idle, FreePlaces, NextPlaces
<1>2. Outside("record") /\ pc'["record"] = "route" /\ ~RoutesFm("record")'
  BY <1>1, IdleIsFree, RouteOutside DEF startInput
<1> QED BY <1>1, <1>2, IdleIsFree, PlainStep DEF startInput, settings, routed, post

(* The driver of the input is started, or the route is undone.             *)
LEMMA AudioStart ==
    ASSUME IInv, audioStart
    PROVE  IInv'
<1>1. pc["record"] = "audio_start" /\ {"idle", "audio_start"} \subseteq FreePlaces \ {"route"}
      /\ "idle" \in NextPlaces
  BY DEF audioStart, FreePlaces, NextPlaces
<1>2. Outside("record") /\ pc'["record"] \in {"idle", "route"} /\ ~RoutesFm("record")'
  <2>1. CASE Goto("record", "idle", NoCall)
    BY <1>1, <2>1, NoCallTyped, IdleIsFree, GotoOutside DEF audioStart, RoutesFm
  <2>2. CASE Route("record", TRUE, "idle")
    BY <1>1, <2>2, IdleIsFree, RouteOutside DEF audioStart
  <2> QED BY <2>1, <2>2 DEF audioStart
<1> QED BY <1>1, <1>2, IdleIsFree, PlainStep DEF audioStart, settings, routed, post

(* Standby of an input routes.                                             *)
LEMMA StandbyIn ==
    ASSUME IInv, standbyIn
    PROVE  IInv'
<1>1. pc["record"] = "idle" /\ "idle" \in NextPlaces
  BY DEF standbyIn, Recording, Idle, NextPlaces
<1>2. Outside("record") /\ pc'["record"] = "route" /\ ~RoutesFm("record")'
  BY <1>1, IdleIsFree, RouteOutside DEF standbyIn
<1> QED BY <1>1, <1>2, IdleIsFree, PlainStep DEF standbyIn, settings, routed, post

(* An input that is given other devices routes.                            *)
LEMMA SetInputRouting ==
    ASSUME IInv, NEW d \in InputRoutes, setInputRouting(d)
    PROVE  IInv'
<1>1. pc["record"] = "idle" /\ "idle" \in NextPlaces
  BY DEF setInputRouting, Recording, Idle, NextPlaces
<1>2. Outside("record") /\ pc'["record"] = "route" /\ ~RoutesFm("record")'
  BY <1>1, IdleIsFree, RouteOutside DEF setInputRouting
<1> QED BY <1>1, <1>2, IdleIsFree, PlainStep DEF setInputRouting, settings, routed, post
-----------------------------------------------------------------------------
(* The steps without the lock that change what the route is made of.       *)

(* Parameter "fm_on" or "fm_off": the change is routed by the same call.   *)
LEMMA SetFmOnOff ==
    ASSUME IInv, NEW t \in Threads, setFmOnOff(t)
    PROVE  IInv'
<1>1. call[t] \in Calls
  BY DEF IInv, TypesCorrect, PlacesCorrect
<1>2. pc[t] = "fm" /\ "fm" \in FreePlaces \ {"route"} /\ ParametersDone(t) \in {"idle", "again"}
      /\ {"idle", "again"} \subseteq NextPlaces
  BY DEF setFmOnOff, FreePlaces, NextPlaces, ParametersDone
<1>3. Outside(t) /\ pc'[t] = "route"
  BY <1>2, RouteOutside DEF setFmOnOff
<1>4. call'[t] = [call[t] EXCEPT !.input = FALSE, !.next = ParametersDone(t)]
  BY <1>1, <1>2 DEF setFmOnOff, Route, Goto, IInv, TypesCorrect, PlacesCorrect
<1>5. call[t].request.fm # None => RoutesFm(t)'
  BY <1>1, <1>2, <1>3, <1>4 DEF RoutesFm, Calls
<1>6. \A u \in Threads \ {t} : RoutesFm(u)' <=> RoutesFm(u)
  BY <1>3 DEF Outside, Moved, RoutesFm
<1>7. ~RoutesFm(t)
  BY <1>2 DEF RoutesFm
<1>8. FmAgrees'
  <2>1. CASE call[t].request.fm = None
    <3>1. UNCHANGED <<mFmRadioEnabled, mFmPrev, unrouted>>
      BY <2>1 DEF setFmOnOff, routed
    <3> QED BY <3>1, <1>6, <1>7 DEF IInv, FmAgrees
  <2>2. CASE call[t].request.fm # None
    BY <2>2, <1>5 DEF FmAgrees
  <2> QED BY <2>1, <2>2
<1>9. TypesCorrect'
  BY <1>3 DEF IInv, TypesCorrect, SettingsCorrect, Outside, Moved, setFmOnOff, routed
<1>10. RouteInv'
  BY <1>2, <1>3, IdleIsFree, OutsideRoute DEF IInv, setFmOnOff, routed, Outside, Moved
<1>11. FiltersFit'
  BY <1>2, <1>3, OutsideFilters DEF IInv, setFmOnOff
<1> QED BY <1>3, <1>8, <1>9, <1>10, <1>11, OutsideLock DEF IInv

(* setMode() only names the mode; the device is cleared after.             *)
LEMMA SetMode ==
    ASSUME IInv, NEW m \in Modes, setMode(m)
    PROVE  IInv'
<1>1. pc["main"] = "idle" /\ "clear" \in FreePlaces
  BY DEF setMode, Idle, FreePlaces
<1>2. Outside("main") /\ pc'["main"] = "clear"
  BY <1>1, NoCallTyped, IdleIsFree, GotoOutside DEF setMode
<1>3. ~RoutesFm("main")'
  BY <1>2 DEF RoutesFm
<1>4. TypesCorrect'
  BY <1>2 DEF IInv, TypesCorrect, SettingsCorrect, Outside, Moved, setMode, routed
<1>5. MicAgrees' /\ EarAgrees'
  BY <1>2 DEF IInv, RouteInv, MicAgrees, EarAgrees, setMode, routed
<1>6. DeviceAgrees'
  BY <1>2, IdleIsFree, OutsideStays DEF IInv, RouteInv, DeviceAgrees, setMode, routed
<1>7. FmAgrees'
  BY <1>2, <1>3, IdleIsFree, OutsideFm DEF IInv, setMode, routed
<1>8. FiltersFit'
  BY <1>2, IdleIsFree, OutsideFilters DEF IInv, setMode
<1> QED BY <1>2, <1>4, <1>5, <1>6, <1>7, <1>8, IdleIsFree, OutsideLock DEF IInv, RouteInv

(* If somebody is telling the driver when the device is cleared, the mode  *)
(* is lost; if nobody is, there is no device to be wrong about.            *)
LEMMA ClearCurDevice ==
    ASSUME IInv, clearCurDevice
    PROVE  IInv'
<1>1. pc["main"] = "clear" /\ "clear" \in FreePlaces \ {"route"}
  BY DEF clearCurDevice, FreePlaces
<1>2. Outside("main") /\ pc'["main"] = "idle"
  BY <1>1, NoCallTyped, IdleIsFree, GotoOutside DEF clearCurDevice
<1>3. ~RoutesFm("main")'
  BY <1>2 DEF RoutesFm
<1>4. TypesCorrect'
  BY <1>2 DEF IInv, TypesCorrect, SettingsCorrect, Outside, Moved, clearCurDevice, settings
<1>5. ~modeLost' => \A t \in Threads : ~Telling(t)
  <2>1. ASSUME NEW t \in Threads, Telling(t)
        PROVE  Storing(t)
    BY <2>1, TellingIsInside, OneInside DEF IInv, Storing, Telling
  <2> QED BY <2>1 DEF clearCurDevice
<1>6. MicAgrees' /\ DeviceAgrees' /\ EarAgrees'
  BY <1>2, <1>5, IdleIsFree, OutsideStays
  DEF IInv, RouteInv, MicAgrees, DeviceAgrees, EarAgrees, clearCurDevice, settings
<1>7. FmAgrees'
  BY <1>2, <1>3, IdleIsFree, OutsideFm DEF IInv, clearCurDevice, settings
<1>8. FiltersFit'
  BY <1>2, IdleIsFree, OutsideFilters DEF IInv, clearCurDevice
<1> QED BY <1>2, <1>4, <1>6, <1>7, <1>8, IdleIsFree, OutsideLock DEF IInv, RouteInv

(* setMicMute() tells the driver of the radio, too: nobody is inside then. *)
LEMMA SetMicMute ==
    ASSUME IInv, setMicMute
    PROVE  IInv'
<1>1. pc["main"] = "idle" /\ UNCHANGED <<pc, call, mLock>>
  BY DEF setMicMute, Idle
<1>2. Outside("main")
  BY <1>1, IdleIsFree, StandOutside
<1>3. driver' \in [device : Devices, earMute : BOOLEAN, micMute : BOOLEAN]
      /\ driver'.device = driver.device
  <2>1. driver \in [device : Devices, earMute : BOOLEAN, micMute : BOOLEAN]
    BY DEF IInv, TypesCorrect, SettingsCorrect
  <2>2. mMicMute' \in BOOLEAN /\ Mute("current") \in BOOLEAN
    BY DEF setMicMute, Mute
  <2> QED BY <2>1, <2>2 DEF setMicMute
<1>4. TypesCorrect'
  BY <1>2, <1>3 DEF IInv, TypesCorrect, SettingsCorrect, Outside, Moved, setMicMute
<1>5. ~misrouted' => driver'.micMute = mMicMute'
                     /\ driver'.earMute = (~InCall /\ ~mFmRadioEnabled)
  BY DEF setMicMute, Mute, IInv, TypesCorrect, SettingsCorrect
<1>6. ~misrouted' => ~misrouted
  BY DEF setMicMute
<1>7. MicAgrees' /\ EarAgrees'
  BY <1>5 DEF MicAgrees, EarAgrees, InCall, setMicMute
<1>8. DeviceAgrees'
  BY <1>1, <1>3, <1>6 DEF IInv, RouteInv, DeviceAgrees, Telling, setMicMute
<1>9. FmAgrees'
  BY <1>1 DEF IInv, FmAgrees, RoutesFm, setMicMute
<1>10. FiltersFit'
  BY <1>1, <1>2, IdleIsFree, OutsideFilters DEF IInv, setMicMute
<1> QED BY <1>2, <1>4, <1>7, <1>8, <1>9, <1>10, IdleIsFree, OutsideLock DEF IInv, RouteInv
-----------------------------------------------------------------------------
(* The steps of the playback stream that reach the postprocessing.         *)

(* What such a step leaves alone.                                          *)
LEMMA PlaybackStep ==
    ASSUME IInv, Outside("playback"), UNCHANGED <<settings, routed, mCurSndDevice>>,
           pc'["playback"] # "fm", ~RoutesFm("playback")'
    PROVE  TypesCorrect' /\ LockHeld' /\ RouteInv' /\ FmAgrees'
<1>1. TypesCorrect'
  BY DEF IInv, TypesCorrect, SettingsCorrect, Outside, Moved, settings, routed
<1>2. RouteInv'
  BY IdleIsFree, OutsideRoute DEF IInv, settings, routed, Outside, Moved
<1>3. FmAgrees'
  BY IdleIsFree, OutsideFm DEF IInv, settings, routed
<1> QED BY <1>1, <1>2, <1>3, IdleIsFree, OutsideLock DEF IInv

(* beginPostproc() by the stream: to the driver, or past it.               *)
LEMMA PlaybackBegins ==
    ASSUME IInv, NEW enable \in BOOLEAN, NEW next \in {"idle", "stop"},
           pc["playback"] \in FreePlaces \ {"route"}, mLock' = mLock,
           UNCHANGED <<mCurSndDevice, post>>,
           beginPostproc("playback", enable, post_proc_feature_mask, next)
    PROVE  /\ Outside("playback")
           /\ pc'["playback"] \in {next, "postproc"}
           /\ pc'["playback"] = next => Class(mCurSndDevice) = None
           /\ pc'["playback"] = "postproc" =>
                  /\ call'["playback"].after = next
                  /\ enable => ApplyFits("playback")'
<1>1. call["playback"] \in Calls /\ PlacesCorrect
  BY IdleIsFree DEF IInv, TypesCorrect, PlacesCorrect
<1>2. {"idle", "stop"} \subseteq FreePlaces /\ {"idle", "stop"} \subseteq AfterPlaces
      /\ "postproc" \notin {"idle", "stop"} /\ "postproc" \in PCs
  BY DEF FreePlaces, AfterPlaces, PCs
<1>3. CASE Class(mCurSndDevice) = None
  BY <1>1, <1>2, <1>3, IdleIsFree, GotoOutside DEF beginPostproc
<1>4. CASE Class(mCurSndDevice) # None
  <2> DEFINE apply == IF enable THEN EnableMask(mCurSndDevice, post_proc_feature_mask) ELSE {}
             locals == [call["playback"] EXCEPT !.after = next, !.apply = apply]
  <2>1. apply \in SUBSET Features
    BY <1>4, EnableMaskTyped
  <2>2. Goto("playback", "postproc", locals)
    BY <1>4 DEF beginPostproc
  <2> HIDE DEF apply
  <2>3. locals \in Calls /\ locals.after = next /\ locals.apply = apply
    BY <1>1, <1>2, <2>1 DEF Calls
  <2> HIDE DEF locals
  <2>4. Moved("playback") /\ pc'["playback"] = "postproc" /\ call'["playback"] = locals
    BY <1>1, <1>2, <2>2, <2>3, IdleIsFree, GotoMoves
  <2>5. Outside("playback")
    BY <2>3, <2>4 DEF Outside
  <2> QED BY <1>2, <2>3, <2>4, <2>5 DEF ApplyFits, apply, post
<1> QED BY <1>3, <1>4

(* The claims about doRouting()'s threads survive a step of the stream.    *)
LEMMA PlaybackFilters ==
    ASSUME IInv, Outside("playback"), UNCHANGED <<mCurSndDevice, post_proc_feature_mask>>,
           (pc["playback"] = "postproc" /\ call["playback"].after = "idle" /\ ~unfiltered)'
               => ApplyFits("playback")',
           Fits'
    PROVE  FiltersFit'
<1>1. \A u \in Threads \ {"playback"} : pc'[u] = pc[u] /\ call'[u] = call[u]
  BY DEF Outside, Moved
<1>2. ~(pc'["playback"] = "postproc" /\ call'["playback"].after = "unlock")
  BY DEF Outside, FreePlaces
<1>3. ASSUME NEW u \in Threads, (pc[u] = "postproc" /\ call[u].after = "unlock")'
      PROVE  ApplyFits(u)'
  BY <1>1, <1>2, <1>3 DEF IInv, FiltersFit, ApplyFits
<1>4. \A u \in Threads \ {"playback"} :
          (pc[u] = "postproc" => call[u].after \in {"save", "unlock"})'
  BY <1>1 DEF IInv, FiltersFit
<1> QED BY <1>3, <1>4 DEF FiltersFit

(* write() starts the driver with the filters of the current device.       *)
LEMMA StartPostproc ==
    ASSUME IInv, startPostproc
    PROVE  IInv'
<1>1. pc["playback"] = "start" /\ "start" \in FreePlaces \ {"route"}
  BY DEF startPostproc, FreePlaces
<1>2. /\ Outside("playback")
      /\ pc'["playback"] \in {"idle", "postproc"}
      /\ pc'["playback"] = "idle" => Class(mCurSndDevice) = None
      /\ pc'["playback"] = "postproc" => ApplyFits("playback")'
  BY <1>1, PlaybackBegins DEF startPostproc
<1>3. ~RoutesFm("playback")'
  BY <1>2 DEF RoutesFm
<1>4. FiltersFit'
  BY <1>2, PlaybackFilters DEF startPostproc, post, Fits
<1> QED BY <1>2, <1>3, <1>4, PlaybackStep DEF IInv, startPostproc

(* Standby of the output turns the filters off before it stops.            *)
LEMMA StandbyOut ==
    ASSUME IInv, standbyOut
    PROVE  IInv'
<1>1. pc["playback"] = "idle"
  BY DEF standbyOut, Idle
<1>2. /\ Outside("playback")
      /\ pc'["playback"] \in {"stop", "postproc"}
      /\ pc'["playback"] = "postproc" => call'["playback"].after = "stop"
  BY <1>1, IdleIsFree, PlaybackBegins DEF standbyOut
<1>3. ~RoutesFm("playback")'
  BY <1>2 DEF RoutesFm
<1>4. FiltersFit'
  BY <1>2, PlaybackFilters DEF standbyOut, post, Fits
<1> QED BY <1>2, <1>3, <1>4, PlaybackStep DEF IInv, standbyOut

(* The output has stopped.                                                 *)
LEMMA StopOut ==
    ASSUME IInv, stopOut
    PROVE  IInv'
<1>1. pc["playback"] = "stop" /\ {"stop", "idle"} \subseteq FreePlaces \ {"route"}
  BY DEF stopOut, FreePlaces
<1>2. Outside("playback") /\ pc'["playback"] = "idle"
  BY <1>1, NoCallTyped, IdleIsFree, GotoOutside DEF stopOut
<1>3. ~RoutesFm("playback")'
  BY <1>2 DEF RoutesFm
<1>4. FiltersFit'
  BY <1>2, PlaybackFilters DEF stopOut, Fits
<1> QED BY <1>2, <1>3, <1>4, PlaybackStep DEF IInv, stopOut

(* write() of a stream in standby takes the filters of the device as it    *)
(* is.                                                                     *)
LEMMA Write ==
    ASSUME IInv, write
    PROVE  IInv'
<1>1. pc["playback"] = "idle" /\ "start" \in FreePlaces
  BY DEF write, Idle, FreePlaces
<1>2. CASE UNCHANGED <<pc, call, playback_in_progress>>
  <2>1. Outside("playback")
    BY <1>1, <1>2, IdleIsFree, StandOutside DEF write
  <2>2. ~RoutesFm("playback")'
    BY <1>1, <1>2 DEF RoutesFm
  <2>3. FiltersFit'
    BY <1>1, <1>2, <2>1, IdleIsFree, OutsideFilters DEF IInv, write, post
  <2> QED BY <1>1, <1>2, <2>1, <2>2, <2>3, PlaybackStep DEF IInv, write
<1>3. CASE Goto("playback", "start", NoCall)
  <2>1. Outside("playback") /\ pc'["playback"] = "start"
    BY <1>1, <1>3, NoCallTyped, IdleIsFree, GotoOutside DEF write
  <2>2. ~RoutesFm("playback")'
    BY <2>1 DEF RoutesFm
  <2>3. FiltersFit'
    BY <2>1, PlaybackFilters DEF write, Fits
  <2> QED BY <2>1, <2>2, <2>3, PlaybackStep DEF IInv, write
<1> QED BY <1>2, <1>3 DEF write
-----------------------------------------------------------------------------
(* doRouting(), step by step.                                              *)

(* A step of the thread that has mLock, and keeps it, moves no other.      *)
LEMMA InsideStep ==
    ASSUME IInv, NEW t \in Threads, Inside(t), Moved(t), mLock' = mLock, Inside(t)'
    PROVE  /\ LockHeld'
           /\ mLock = t /\ mLock' # NoThread
           /\ \A u \in Threads \ {t} : ~Inside(u) /\ ~Inside(u)' /\ ~Telling(u) /\ ~Telling(u)'
           /\ \A u \in Threads \ {t} : pc'[u] # "unlock"
<1>1. mLock = t /\ mLock' # NoThread /\ \A u \in Threads \ {t} : ~Inside(u)
  BY OneInside DEF IInv
<1>2. \A u \in Threads \ {t} : ~Inside(u)'
  BY <1>1 DEF Moved, Inside
<1>3. \A u \in Threads \ {t} : ~Telling(u) /\ ~Telling(u)' /\ pc'[u] # "unlock"
  BY <1>1, <1>2 DEF Telling, Inside, LockPlaces
<1> QED BY <1>1, <1>2, <1>3 DEF LockHeld

(* Inside, before and after, nobody routes for the radio but at "switch".  *)
LEMMA InsideFm ==
    ASSUME IInv, NEW t \in Threads, Moved(t), UNCHANGED <<mFmRadioEnabled, mFmPrev, unrouted>>,
           pc[t] \notin {"route", "switch"},
           pc'[t] \notin {"route", "switch"}
    PROVE  FmAgrees'
<1>1. ~RoutesFm(t) /\ ~RoutesFm(t)'
  BY DEF RoutesFm
<1>2. \A u \in Threads \ {t} : (RoutesFm(u)' <=> RoutesFm(u)) /\ pc'[u] = pc[u]
  BY DEF Moved, RoutesFm
<1> QED BY <1>1, <1>2 DEF IInv, FmAgrees

(* While another has mLock, only its own claim is about what it is to tell *)
(* the driver.                                                             *)
LEMMA InsideFilters ==
    ASSUME IInv, NEW t \in Threads, Inside(t), Moved(t), mLock' = mLock, Inside(t)',
           (pc[t] = "postproc" /\ call[t].after = "unlock")' => ApplyFits(t)',
           \/ UNCHANGED <<mCurSndDevice, post_proc_feature_mask, unfiltered>>
           \/ unfiltered' = (unfiltered \/ Overlap(t)),
           pc'[t] = "unlock" => Fits'
    PROVE  FiltersFit'
<1>1. LockHeld' /\ mLock' # NoThread /\ \A u \in Threads \ {t} : ~Inside(u)' /\ pc'[u] # "unlock"
  BY InsideStep
<1>2. ASSUME NEW u \in Threads, (pc[u] = "postproc" /\ call[u].after = "unlock")'
      PROVE  ApplyFits(u)'
  BY <1>1, <1>2 DEF Inside
<1>3. ASSUME (pc["playback"] = "postproc" /\ call["playback"].after = "idle" /\ ~unfiltered)'
      PROVE  ApplyFits("playback")'
  <2>1. t # "playback"
    BY <1>3 DEF Inside, LockPlaces
  <2>2. pc'["playback"] = pc["playback"] /\ call'["playback"] = call["playback"]
    BY <2>1, IdleIsFree DEF Moved
  <2>3. UNCHANGED <<mCurSndDevice, post_proc_feature_mask, unfiltered>>
    BY <1>3, <2>1, <2>2 DEF Overlap
  <2> QED BY <1>3, <2>2, <2>3 DEF IInv, FiltersFit, ApplyFits
<1>4. \A u \in Threads \ {"playback"} :
          (pc[u] = "postproc" => call[u].after \in {"save", "unlock"})'
  BY DEF IInv, FiltersFit, Moved, Inside, LockPlaces
<1> QED BY <1>1, <1>2, <1>3, <1>4 DEF FiltersFit

(* doRouting() decides: no device, or the current one without a change of  *)
(* the radio, is passed over; otherwise the thread is inside.              *)
LEMMA RouteStep ==
    ASSUME IInv, NEW t \in Threads, route(t)
    PROVE  IInv'
<1> DEFINE new == Selected(call[t].input)
           keep == \/ call[t].input /\ in.devices = "voice_call"
                   \/ new.device = None
                   \/ new.device = mCurSndDevice /\ mFmRadioEnabled = mFmPrev
           kept == [call[t] EXCEPT !.input = FALSE]
           told == [call[t] EXCEPT !.device = new.device, !.mask = new.mask]
<1>1. call[t] \in Calls /\ PlacesCorrect
  BY DEF IInv, TypesCorrect, PlacesCorrect
<1>2. pc[t] = "route" /\ mLock = NoThread /\ t # NoThread /\ ~Inside(t)
  BY NoThreadAssumption DEF route, Inside, LockPlaces
<1>3. new \in Sounds
  BY <1>1, SelectedTyped DEF IInv, TypesCorrect, Calls
<1>4. /\ kept \in Calls
      /\ kept.next = call[t].next
  BY <1>1 DEF Calls
<1>5. /\ told \in Calls
      /\ told.request = call[t].request
      /\ told.input = call[t].input
      /\ told.next = call[t].next
      /\ told.after = call[t].after
  BY <1>1, <1>3 DEF Calls, Sounds
<1>6. \/ keep /\ Goto(t, call[t].next, kept) /\ mLock' = mLock
      \/ ~keep /\ mLock' = t /\ Goto(t, "switch", told)
  BY DEF route
<1>7. \/ mFmRadioEnabled = mFmPrev
      \/ unrouted'
      \/ unrouted' = unrouted /\ (RoutesFm(t) => ~keep)
  BY DEF route, RoutesFm
<1> HIDE DEF new, keep, kept, told
<1>8. \A u \in Threads : ~Inside(u) /\ pc[u] # "unlock" /\ ~Telling(u)
  BY <1>2, NoThreadAssumption, UnlockIsInside, TellingIsInside DEF IInv, LockHeld
<1>9. UNCHANGED <<settings, mCurSndDevice, driver, mFmPrev, misrouted, modeLost, post>>
  BY DEF route
<1>10. Fits
  BY <1>2 DEF IInv, FiltersFit
<1>11. pc'[t] # "clear" /\ pc'[t] \notin {"postproc", "start", "stop"} /\ Moved(t)
       /\ ~Telling(t)'
  <2>1. CASE keep
    <3>1. call[t].next \in NextPlaces /\ call[t].next \in PCs
      BY <1>1 DEF Calls, NextPlaces, PCs, FreePlaces
    <3>2. Moved(t) /\ pc'[t] = call[t].next
      BY <1>1, <1>4, <1>6, <2>1, <3>1, GotoMoves
    <3> QED BY <3>1, <3>2 DEF NextPlaces, Telling
  <2>2. CASE ~keep
    <3>1. Moved(t) /\ pc'[t] = "switch"
      BY <1>1, <1>5, <1>6, <2>2, GotoMoves DEF PCs, LockPlaces
    <3> QED BY <3>1 DEF Telling
  <2> QED BY <2>1, <2>2
<1>12. \A u \in Threads \ {t} : pc'[u] = pc[u] /\ call'[u] = call[u]
  BY <1>11 DEF Moved
<1>13. TypesCorrect'
  BY <1>9, <1>11 DEF IInv, TypesCorrect, SettingsCorrect, Moved, settings
<1>14. LockHeld'
  <2>1. CASE keep
    <3>1. call[t].next \in NextPlaces /\ call[t].next \in PCs
      BY <1>1 DEF Calls, NextPlaces, PCs, FreePlaces
    <3>2. pc'[t] = call[t].next /\ mLock' = NoThread
      BY <1>1, <1>2, <1>4, <1>6, <2>1, <3>1, GotoMoves
    <3>3. ~Inside(t)'
      BY <3>1, <3>2 DEF NextPlaces, Inside, LockPlaces
    <3> QED BY <1>8, <1>12, <3>2, <3>3, NoThreadAssumption DEF LockHeld, Inside
  <2>2. CASE ~keep
    <3>1. pc'[t] = "switch" /\ mLock' = t
      BY <1>1, <1>5, <1>6, <2>2, GotoMoves DEF PCs, LockPlaces
    <3> QED BY <1>8, <1>12, <3>1 DEF LockHeld, Inside, LockPlaces
  <2> QED BY <2>1, <2>2
<1>15. \A u \in Threads : ~Telling(u)'
  BY <1>8, <1>11, <1>12 DEF Telling
<1>16. RouteInv'
  <2>1. pc["main"] = "clear" => pc'["main"] = "clear"
    BY <1>2, <1>12, IdleIsFree
  <2> QED BY <1>8, <1>9, <1>15, <2>1
      DEF IInv, RouteInv, MicAgrees, DeviceAgrees, EarAgrees, InCall, settings
<1>17. FmAgrees'
  <2>1. \A u \in Threads \ {t} : RoutesFm(u)' <=> RoutesFm(u)
    BY <1>12 DEF RoutesFm
  <2>2. CASE keep
    <3>1. call[t].next \in NextPlaces /\ call[t].next \in PCs
      BY <1>1 DEF Calls, NextPlaces, PCs, FreePlaces
    <3>2. pc'[t] = call[t].next
      BY <1>1, <1>4, <1>6, <2>2, <3>1, GotoMoves
    <3>3. ~RoutesFm(t)'
      BY <3>1, <3>2 DEF NextPlaces, RoutesFm
    <3> QED BY <1>7, <1>9, <2>1, <2>2, <3>3 DEF IInv, FmAgrees, settings
  <2>3. CASE ~keep
    <3>1. pc'[t] = "switch" /\ call'[t] = told
      BY <1>1, <1>5, <1>6, <2>3, GotoMoves DEF PCs, LockPlaces
    <3>2. RoutesFm(t)' <=> RoutesFm(t)
      BY <1>2, <1>5, <3>1 DEF RoutesFm
    <3> QED BY <1>7, <1>9, <2>1, <3>2 DEF IInv, FmAgrees, settings
  <2> QED BY <2>2, <2>3
<1>18. FiltersFit'
  <2>1. Fits'
    BY <1>2, <1>9, <1>10, <1>12, IdleIsFree DEF Fits, post
  <2> QED BY <1>9, <1>11, <1>12, <2>1, IdleIsFree DEF IInv, FiltersFit, ApplyFits, post
<1> QED BY <1>13, <1>14, <1>16, <1>17, <1>18 DEF IInv

(* The driver is told of the mode and the radio as they are; the earpiece  *)
(* of the handset alone also depends on the last input.                    *)
LEMMA SwitchDevice ==
    ASSUME IInv, NEW t \in Threads, switchDevice(t)
    PROVE  IInv'
<1>1. call[t] \in Calls /\ pc[t] = "switch" /\ PlacesCorrect
  BY DEF IInv, TypesCorrect, PlacesCorrect, switchDevice
<1>2. Moved(t) /\ pc'[t] = "disable" /\ call'[t] = call[t] /\ mLock' = mLock
  BY <1>1, GotoMoves DEF switchDevice, PCs, LockPlaces
<1>3. Inside(t) /\ Inside(t)' /\ Telling(t)' /\ ~RoutesFm(t)'
  BY <1>1, <1>2 DEF Inside, LockPlaces, Telling, RoutesFm
<1>4. /\ LockHeld'
      /\ \A u \in Threads \ {t} : ~Telling(u)'
  BY <1>2, <1>3, InsideStep
<1> DEFINE Told(mic) == [device |-> call[t].device, earMute |-> Mute(call[t].device),
                         micMute |-> mic]
<1>5. \/ driver' = Told(mMicMute) /\ ~misrouted'
      \/ driver' \in {driver, Told(TRUE)} /\ misrouted'
  BY DEF switchDevice
<1>6. \A mic \in BOOLEAN : /\ Told(mic) \in [device : Devices, earMute : BOOLEAN, micMute : BOOLEAN]
                           /\ Told(mic).device = call[t].device
                           /\ Told(mic).earMute = Mute(call[t].device)
                           /\ Told(mic).micMute = mic
  <2>1. Mute(call[t].device) \in BOOLEAN
    BY DEF Mute
  <2> QED BY <1>1, <2>1 DEF Calls
<1> HIDE DEF Told
<1>7. driver' \in [device : Devices, earMute : BOOLEAN, micMute : BOOLEAN] /\ mMicMute \in BOOLEAN
      /\ mFmRadioEnabled \in BOOLEAN
  BY <1>5, <1>6 DEF IInv, TypesCorrect, SettingsCorrect
<1>8. UNCHANGED <<settings, mCurSndDevice, post>> /\ mFmPrev' = mFmRadioEnabled
  BY DEF switchDevice
<1>9. TypesCorrect'
  BY <1>2, <1>7, <1>8 DEF IInv, TypesCorrect, SettingsCorrect, Moved, settings
<1>10. ASSUME ~misrouted'
       PROVE  MicAgrees' /\ DeviceAgrees' /\ EarAgrees'
  <2>1. driver' = Told(mMicMute)
    BY <1>5, <1>10
  <2>2. driver'.micMute = mMicMute /\ driver'.device = call[t].device
        /\ driver'.earMute = Mute(call[t].device)
    BY <1>6, <1>7, <2>1
  <2>3. MicAgrees'
    BY <1>8, <2>2 DEF MicAgrees, settings
  <2>4. DeviceAgrees'
    BY <1>2, <1>3, <1>4, <2>2 DEF DeviceAgrees
  <2>5. call[t].device # "handset" => Mute(call[t].device) = (~InCall /\ ~mFmRadioEnabled)
    BY DEF Mute
  <2>6. InCall' = InCall /\ mFmPrev' = mFmRadioEnabled
    BY <1>8 DEF InCall, settings
  <2>7. EarAgrees'
    BY <1>2, <1>3, <2>2, <2>5, <2>6 DEF EarAgrees
  <2> QED BY <2>3, <2>4, <2>7
<1>11. RouteInv'
  BY <1>10 DEF RouteInv, MicAgrees, DeviceAgrees, EarAgrees
<1>12. FmAgrees'
  BY <1>8 DEF FmAgrees, settings
<1>13. FiltersFit'
  BY <1>2, <1>3, <1>8, InsideFilters DEF post
<1> QED BY <1>4, <1>9, <1>11, <1>12, <1>13 DEF IInv

(* The route is left alone by a step inside that tells nothing new.        *)
LEMMA InsideRoute ==
    ASSUME IInv, NEW t \in Threads, Inside(t), Moved(t), mLock' = mLock, Inside(t)',
           UNCHANGED <<settings, routed, mCurSndDevice>>,
           Telling(t)' <=> Telling(t), call'[t].device = call[t].device,
           pc[t] # "clear"
    PROVE  RouteInv'
<1>1. \A u \in Threads : Telling(u)' <=> Telling(u)
  BY InsideStep
<1>2. pc'["main"] = pc["main"] \/ pc["main"] # "clear"
  BY IdleIsFree DEF Moved
<1>3. \A u \in Threads : Telling(u) => call'[u].device = call[u].device
  BY InsideStep
<1> QED BY <1>1, <1>2, <1>3
    DEF IInv, RouteInv, MicAgrees, DeviceAgrees, EarAgrees, InCall, settings, routed

(* beginPostproc() by doRouting().                                         *)
LEMMA InsideBegins ==
    ASSUME IInv, NEW t \in Threads, NEW enable \in BOOLEAN, NEW mask \in SUBSET Features,
           NEW next \in {"save", "unlock"},
           IF playback_in_progress THEN beginPostproc(t, enable, mask, next)
           ELSE Goto(t, next, call[t])
    PROVE  /\ Moved(t)
           /\ pc'[t] \in {next, "postproc"}
           /\ pc'[t] = next => ~playback_in_progress \/ Class(mCurSndDevice) = None
           /\ pc'[t] = "postproc" =>
                  /\ call'[t].after = next
                  /\ Class(mCurSndDevice) # None
                  /\ enable => call'[t].apply = EnableMask(mCurSndDevice, mask)
           /\ call'[t].device = call[t].device
<1>1. call[t] \in Calls /\ PlacesCorrect
  BY DEF IInv, TypesCorrect, PlacesCorrect
<1>2. {"save", "unlock"} \subseteq PCs /\ {"save", "unlock"} \subseteq AfterPlaces
      /\ "postproc" \in PCs /\ next # "postproc" /\ next # "idle"
  BY DEF PCs, LockPlaces, AfterPlaces
<1>3. CASE Goto(t, next, call[t]) /\ (~playback_in_progress \/ Class(mCurSndDevice) = None)
  BY <1>1, <1>2, <1>3, GotoMoves
<1>4. CASE playback_in_progress /\ Class(mCurSndDevice) # None
  <2> DEFINE apply == IF enable THEN EnableMask(mCurSndDevice, mask) ELSE {}
             locals == [call[t] EXCEPT !.after = next, !.apply = apply]
  <2>1. apply \in SUBSET Features
    BY <1>4, EnableMaskTyped
  <2>2. Goto(t, "postproc", locals)
    BY <1>4 DEF beginPostproc
  <2> HIDE DEF apply
  <2>3. locals \in Calls /\ locals.after = next /\ locals.apply = apply
        /\ locals.device = call[t].device
    BY <1>1, <1>2, <2>1 DEF Calls
  <2> HIDE DEF locals
  <2>4. Moved(t) /\ pc'[t] = "postproc" /\ call'[t] = locals
    BY <1>1, <1>2, <2>2, <2>3, GotoMoves
  <2> QED BY <1>2, <1>4, <2>3, <2>4 DEF apply
<1> QED BY <1>3, <1>4 DEF beginPostproc

(* The filters of the device that is left are turned off.                  *)
LEMMA DisableOld ==
    ASSUME IInv, NEW t \in Threads, disableOld(t)
    PROVE  IInv'
<1>1. pc[t] = "disable" /\ UNCHANGED <<mLock, settings, routed, mCurSndDevice, post>>
  BY DEF disableOld
<1>2. /\ Moved(t)
      /\ pc'[t] \in {"save", "postproc"}
      /\ pc'[t] = "postproc" => call'[t].after = "save"
      /\ call'[t].device = call[t].device
  <2>1. CASE playback_in_progress
    <3> DEFINE apply == {}
               locals == [call[t] EXCEPT !.after = "save", !.apply = apply]
    <3>1. call[t] \in Calls /\ PlacesCorrect
      BY DEF IInv, TypesCorrect, PlacesCorrect
    <3>2. {"save", "postproc"} \subseteq PCs /\ "save" \in AfterPlaces
      BY DEF PCs, LockPlaces, AfterPlaces
    <3>3. locals \in Calls /\ locals.after = "save" /\ locals.device = call[t].device
      BY <3>1, <3>2 DEF Calls
    <3>4. Goto(t, "save", call[t]) \/ Goto(t, "postproc", locals)
      BY <2>1 DEF disableOld, beginPostproc
    <3> HIDE DEF locals
    <3> QED BY <3>1, <3>2, <3>3, <3>4, GotoMoves
  <2>2. CASE ~playback_in_progress
    <3>1. {} \in SUBSET Features /\ (IF playback_in_progress THEN beginPostproc(t, FALSE, {},
                                                                                "save")
                                     ELSE Goto(t, "save", call[t]))
      BY <2>2 DEF disableOld
    <3> QED BY <3>1, InsideBegins
  <2> QED BY <2>1, <2>2
<1>3. Inside(t) /\ Inside(t)' /\ Telling(t) /\ Telling(t)'
  BY <1>1, <1>2 DEF Inside, Telling, LockPlaces
<1>4. TypesCorrect'
  BY <1>1, <1>2 DEF IInv, TypesCorrect, SettingsCorrect, Moved, settings, routed
<1>5. LockHeld'
  BY <1>1, <1>2, <1>3, InsideStep
<1>6. RouteInv'
  BY <1>1, <1>2, <1>3, InsideRoute
<1>7. FmAgrees'
  BY <1>1, <1>2, InsideFm DEF settings, routed
<1>8. FiltersFit'
  BY <1>1, <1>2, <1>3, InsideFilters DEF post
<1> QED BY <1>4, <1>5, <1>6, <1>7, <1>8 DEF IInv

(* The device the driver was told of is named.                             *)
LEMMA Save ==
    ASSUME IInv, NEW t \in Threads, save(t)
    PROVE  IInv'
<1>1. call[t] \in Calls /\ pc[t] = "save" /\ PlacesCorrect
  BY DEF IInv, TypesCorrect, PlacesCorrect, save
<1>2. Moved(t) /\ pc'[t] = "enable" /\ call'[t] = call[t] /\ mLock' = mLock
  BY <1>1, GotoMoves DEF save, PCs, LockPlaces
<1>3. Inside(t) /\ Inside(t)' /\ Telling(t) /\ ~Telling(t)'
  BY <1>1, <1>2 DEF Inside, LockPlaces, Telling
<1>4. LockHeld' /\ \A u \in Threads \ {t} : ~Telling(u) /\ ~Telling(u)'
  BY <1>2, <1>3, InsideStep
<1>5. UNCHANGED <<settings, routed>> /\ mCurSndDevice' = call[t].device
  BY DEF save
<1>6. TypesCorrect'
  BY <1>2, <1>5 DEF IInv, TypesCorrect, SettingsCorrect, Moved, settings, routed
<1>7. MicAgrees' /\ DeviceAgrees'
  BY <1>3, <1>4, <1>5 DEF IInv, RouteInv, MicAgrees, DeviceAgrees, settings, routed
<1>8. EarAgrees'
  <2>1. pc["main"] = "clear" => pc'["main"] = "clear"
    BY <1>1, <1>2, IdleIsFree DEF Moved
  <2> QED BY <1>3, <1>4, <1>5, <2>1 DEF IInv, RouteInv, EarAgrees, InCall, settings, routed
<1>9. FmAgrees'
  BY <1>1, <1>2, <1>5, InsideFm DEF settings, routed
<1>10. FiltersFit'
  BY <1>2, <1>3, InsideFilters DEF save
<1> QED BY <1>4, <1>6, <1>7, <1>8, <1>9, <1>10 DEF IInv, RouteInv

(* The device's filters are enabled with its own mask.                     *)
LEMMA EnableNew ==
    ASSUME IInv, NEW t \in Threads, enableNew(t)
    PROVE  IInv'
<1>1. pc[t] = "enable" /\ UNCHANGED <<mLock, settings, routed, mCurSndDevice, playback_in_progress>>
      /\ post_proc_feature_mask' = call[t].mask
  BY DEF enableNew
<1>2. call[t].mask \in SUBSET Features
  BY DEF IInv, TypesCorrect, PlacesCorrect, Calls
<1>3. /\ Moved(t)
      /\ pc'[t] \in {"unlock", "postproc"}
      /\ pc'[t] = "unlock" => ~playback_in_progress \/ Class(mCurSndDevice) = None
      /\ pc'[t] = "postproc" => /\ call'[t].after = "unlock"
                                /\ call'[t].apply = EnableMask(mCurSndDevice, call[t].mask)
      /\ call'[t].device = call[t].device
  <2> DEFINE mask == call[t].mask
  <2>1. IF playback_in_progress THEN beginPostproc(t, TRUE, mask, "unlock")
        ELSE Goto(t, "unlock", call[t])
    BY DEF enableNew
  <2>2. mask \in SUBSET Features
    BY <1>2
  <2> HIDE DEF mask
  <2>3. /\ Moved(t)
        /\ pc'[t] \in {"unlock", "postproc"}
        /\ pc'[t] = "unlock" => ~playback_in_progress \/ Class(mCurSndDevice) = None
        /\ pc'[t] = "postproc" => /\ call'[t].after = "unlock"
                                  /\ call'[t].apply = EnableMask(mCurSndDevice, mask)
        /\ call'[t].device = call[t].device
    BY <2>1, <2>2, InsideBegins
  <2> QED BY <2>3 DEF mask
<1>4. Inside(t) /\ Inside(t)' /\ ~Telling(t) /\ ~Telling(t)'
  BY <1>1, <1>3 DEF Inside, LockPlaces, Telling
<1>5. TypesCorrect'
  BY <1>1, <1>3 DEF IInv, TypesCorrect, SettingsCorrect, Moved, settings, routed
<1>6. LockHeld'
  BY <1>1, <1>3, <1>4, InsideStep
<1>7. RouteInv'
  BY <1>1, <1>3, <1>4, InsideRoute
<1>8. FmAgrees'
  BY <1>1, <1>3, InsideFm DEF settings, routed
<1>9. ApplyFits(t)' \/ pc'[t] # "postproc"
  BY <1>1, <1>3 DEF ApplyFits
<1>10. pc'[t] = "unlock" => Fits'
  BY <1>1, <1>3 DEF Fits
<1>11. FiltersFit'
  BY <1>1, <1>3, <1>4, <1>9, <1>10, InsideFilters DEF enableNew
<1> QED BY <1>5, <1>6, <1>7, <1>8, <1>11 DEF IInv

(* doRouting() returns to where its caller goes on.                        *)
LEMMA Unlock ==
    ASSUME IInv, NEW t \in Threads, unlock(t)
    PROVE  IInv'
<1> DEFINE locals == [call[t] EXCEPT !.input = FALSE, !.device = None, !.mask = {}, !.apply = {},
                            !.after = "idle"]
<1>1. call[t] \in Calls /\ pc[t] = "unlock" /\ PlacesCorrect /\ mLock' = NoThread
  BY DEF IInv, TypesCorrect, PlacesCorrect, unlock
<1>2. locals \in Calls
  BY <1>1 DEF Calls, AfterPlaces, Devices
<1>3. call[t].next \in NextPlaces /\ call[t].next \in PCs
  BY <1>1 DEF Calls, NextPlaces, PCs, FreePlaces
<1>4. Goto(t, call[t].next, locals)
  BY DEF unlock
<1> HIDE DEF locals
<1>5. Moved(t) /\ pc'[t] = call[t].next
  BY <1>1, <1>2, <1>3, <1>4, GotoMoves
<1>6. Inside(t) /\ ~Inside(t)' /\ ~Telling(t) /\ ~Telling(t)'
  BY <1>1, <1>3, <1>5 DEF Inside, LockPlaces, Telling, NextPlaces
<1>7. mLock # NoThread /\ \A u \in Threads \ {t} : ~Inside(u) /\ ~Telling(u)
  BY <1>6, OneInside, TellingIsInside DEF IInv
<1>8. \A u \in Threads \ {t} : pc'[u] = pc[u] /\ call'[u] = call[u]
  BY <1>5 DEF Moved
<1>9. \A u \in Threads \ {t} : ~Inside(u)' /\ ~Telling(u)'
  BY <1>7, <1>8 DEF Inside, Telling
<1>10. UNCHANGED <<settings, mCurSndDevice, routed, post>>
  BY DEF unlock
<1>11. LockHeld'
  BY <1>1, <1>6, <1>9, NoThreadAssumption DEF LockHeld
<1>12. TypesCorrect'
  BY <1>5, <1>10 DEF IInv, TypesCorrect, SettingsCorrect, Moved, settings, routed
<1>13. RouteInv'
  <2>1. pc["main"] = "clear" => pc'["main"] = "clear"
    BY <1>1, <1>8, IdleIsFree
  <2> QED BY <1>6, <1>7, <1>9, <1>10, <2>1
      DEF IInv, RouteInv, MicAgrees, DeviceAgrees, EarAgrees, InCall, settings, routed
<1>14. FmAgrees'
  <2>1. pc'[t] \notin {"route", "switch", "fm"}
    BY <1>3, <1>5 DEF NextPlaces
  <2> QED BY <1>1, <1>5, <1>10, <2>1, InsideFm DEF settings, routed
<1>15. pc'[t] \notin {"start", "postproc", "stop"}
  BY <1>3, <1>5 DEF NextPlaces
<1>16. Fits'
  <2>1. Fits
    BY <1>1 DEF IInv, FiltersFit
  <2> QED BY <1>1, <1>8, <1>10, <2>1, IdleIsFree DEF Fits, post
<1>17. FiltersFit'
  BY <1>8, <1>10, <1>15, <1>16, IdleIsFree DEF IInv, FiltersFit, ApplyFits, post
<1> QED BY <1>11, <1>12, <1>13, <1>14, <1>17 DEF IInv

(* Whoever tells the driver: what it tells fits, when it matters.          *)
LEMMA SetPostproc ==
    ASSUME IInv, NEW t \in Threads, setPostproc(t)
    PROVE  IInv'
<1>1. call[t] \in Calls /\ pc[t] = "postproc" /\ PlacesCorrect
  BY DEF IInv, TypesCorrect, PlacesCorrect, setPostproc
<1>2. call[t].after \in AfterPlaces /\ call[t].after \in PCs
  BY <1>1 DEF Calls, AfterPlaces, PCs, FreePlaces, LockPlaces
<1>3. /\ Moved(t)
      /\ pc'[t] = call[t].after
      /\ pc'[t] # "idle" => call'[t] = call[t]
  BY <1>1, <1>2, GotoMoves DEF setPostproc
<1>4. UNCHANGED <<mLock, settings, mCurSndDevice, routed, playback_in_progress,
                  post_proc_feature_mask>>
  BY DEF setPostproc
<1>5. \A u \in Threads \ {t} : pc'[u] = pc[u] /\ call'[u] = call[u]
  BY <1>3 DEF Moved
<1>6. \A u \in Threads : (Inside(u)' <=> Inside(u)) /\ (Telling(u)' <=> Telling(u))
  BY <1>1, <1>2, <1>3, <1>5 DEF Inside, Telling, LockPlaces, AfterPlaces
<1>7. LockHeld'
  BY <1>4, <1>6 DEF IInv, LockHeld
<1>8. TypesCorrect'
  BY <1>3, <1>4 DEF IInv, TypesCorrect, SettingsCorrect, Moved, settings, routed
<1>9. RouteInv'
  <2>1. pc["main"] = "clear" => pc'["main"] = "clear"
    BY <1>1, <1>5, IdleIsFree
  <2>2. \A u \in Threads : Telling(u)' => call'[u] = call[u]
    BY <1>3, <1>5 DEF Telling
  <2> QED BY <1>4, <1>6, <2>1, <2>2
      DEF IInv, RouteInv, MicAgrees, DeviceAgrees, EarAgrees, InCall, settings, routed
<1>10. FmAgrees'
  <2>1. pc'[t] \notin {"route", "switch", "fm"}
    BY <1>2, <1>3 DEF AfterPlaces
  <2> QED BY <1>1, <1>3, <1>4, <2>1, InsideFm DEF settings, routed
<1>11. ASSUME NEW u \in Threads, (pc[u] = "postproc" /\ call[u].after = "unlock")'
       PROVE  ApplyFits(u)'
  <2>1. u # t
    BY <1>2, <1>3, <1>11 DEF AfterPlaces
  <2> QED BY <1>4, <1>5, <1>11, <2>1 DEF IInv, FiltersFit, ApplyFits
<1>12. unfiltered => unfiltered'
  BY DEF setPostproc, post
<1>13. ASSUME (pc["playback"] = "postproc" /\ call["playback"].after = "idle" /\ ~unfiltered)'
       PROVE  ApplyFits("playback")'
  <2>1. t # "playback"
    BY <1>2, <1>3, <1>13 DEF AfterPlaces
  <2> QED BY <1>4, <1>5, <1>12, <1>13, <2>1, IdleIsFree DEF IInv, FiltersFit, ApplyFits
<1>14. ASSUME (mLock = NoThread \/ \E u \in Threads : pc[u] = "unlock")', ~unfiltered'
       PROVE  Fits'
  <2>1. audpp' = call[t].apply /\ ~unfiltered
    BY <1>12, <1>14 DEF setPostproc
  <2>2. CASE call[t].after = "unlock"
    BY <1>1, <1>4, <2>1, <2>2 DEF IInv, FiltersFit, ApplyFits, Fits
  <2>3. CASE call[t].after = "idle"
    <3>1. t = "playback"
      BY <1>1, <2>3 DEF IInv, FiltersFit
    <3> QED BY <1>1, <1>4, <2>1, <2>3, <3>1 DEF IInv, FiltersFit, ApplyFits, Fits
  <2>4. CASE call[t].after = "stop"
    <3>1. t = "playback"
      BY <1>1, <2>4 DEF IInv, FiltersFit
    <3> QED BY <1>3, <2>4, <3>1 DEF Fits
  <2>5. CASE call[t].after = "save"
    <3>1. Inside(t) /\ Inside(t)'
      BY <1>1, <1>6, <2>5 DEF Inside
    <3>2. mLock = t /\ mLock # NoThread /\ \A u \in Threads \ {t} : ~Inside(u)
      BY <3>1, OneInside DEF IInv
    <3>3. \A u \in Threads : pc'[u] # "unlock"
      BY <1>3, <1>5, <2>5, <3>2 DEF Inside, LockPlaces
    <3> QED BY <1>4, <1>14, <3>2, <3>3
  <2> QED BY <1>2, <2>2, <2>3, <2>4, <2>5 DEF AfterPlaces
<1>15. \A u \in Threads \ {"playback"} :
           (pc[u] = "postproc" => call[u].after \in {"save", "unlock"})'
  BY <1>2, <1>3, <1>5 DEF IInv, FiltersFit, AfterPlaces
<1>16. FiltersFit'
  BY <1>11, <1>13, <1>14, <1>15 DEF FiltersFit, Fits
<1> QED BY <1>7, <1>8, <1>9, <1>10, <1>16 DEF IInv
-----------------------------------------------------------------------------
(* The invariant, and what it is for.                                      *)

(* At the start nobody is inside, and nobody has told the driver           *)
(* anything.                                                               *)
LEMMA InitInv == Init => IInv
<1> SUFFICES ASSUME Init
             PROVE  IInv
  OBVIOUS
<1>1. TypesCorrect
  <2>1. pc \in [Threads -> PCs] /\ call \in [Threads -> Calls]
    BY NoCallTyped DEF Init, PCs, FreePlaces
  <2>2. mTtyMode \in TtyModes \cup {"garbage"}
    BY UninitialisedAssumption DEF Init
  <2>3. driver \in [device : Devices, earMute : BOOLEAN, micMute : BOOLEAN]
    BY DEF Init, Devices
  <2> QED BY <2>1, <2>2, <2>3 DEF Init, TypesCorrect, PlacesCorrect, SettingsCorrect
<1>2. \A t \in Threads : pc[t] = "idle"
  BY DEF Init
<1>3. LockHeld
  BY <1>2, NoThreadAssumption DEF Init, LockHeld, Inside, LockPlaces
<1>4. RouteInv
  BY DEF Init, RouteInv, MicAgrees, DeviceAgrees, EarAgrees
<1>5. FmAgrees
  BY <1>2 DEF Init, FmAgrees, RoutesFm
<1>6. FiltersFit
  BY <1>2, IdleIsFree DEF Init, FiltersFit, Fits
<1> QED BY <1>1, <1>3, <1>4, <1>5, <1>6 DEF IInv

(* A step of nothing keeps the invariant.                                  *)
LEMMA StutterInv ==
    ASSUME IInv, UNCHANGED vars
    PROVE  IInv'
<1>1. TypesCorrect' /\ LockHeld'
  BY DEF IInv, TypesCorrect, PlacesCorrect, SettingsCorrect, LockHeld, Inside, vars, settings,
     routed
<1>2. RouteInv'
  BY DEF IInv, RouteInv, MicAgrees, DeviceAgrees, EarAgrees, Telling, InCall, vars, settings, routed
<1>3. FmAgrees'
  BY DEF IInv, FmAgrees, RoutesFm, vars, settings, routed
<1>4. FiltersFit'
  BY DEF IInv, FiltersFit, Fits, ApplyFits, vars, post
<1> QED BY <1>1, <1>2, <1>3, <1>4 DEF IInv

(* Every step keeps the invariant: the calls that begin, and their parts.  *)
LEMMA NextInv ==
    ASSUME IInv, [Next]_vars
    PROVE  IInv'
<1>1. CASE UNCHANGED vars
  BY <1>1, StutterInv
<1>2. CASE Call
  BY <1>2, SetMode, SetMicMute, SetParameters, OpenInputStream, SetInputRouting, CloseInputStream,
     Write, StandbyOut, SetOutputRouting, ReopenInput, StandbyIn, StartInput DEF Call
<1>3. ASSUME NEW t \in Threads, Continue(t)
      PROVE  IInv'
  BY <1>3, RouteStep, SwitchDevice, DisableOld, Save, EnableNew, Unlock, SetPostproc, SetDualMic,
     SetTty, SetFmOnOff, ClearCurDevice, DeleteInput, RemoveInput, StartPostproc, StopOut,
     RouteAgain, StartInput, AudioStart DEF Continue
<1> QED BY <1>1, <1>2, <1>3 DEF Next

(* The invariant of the route holds in every reachable state.              *)
THEOREM InductiveInvariant == Spec => []IInv
BY InitInv, NextInv, PTL DEF Spec

(* While nobody is inside doRouting(), the driver has the device that      *)
(* mCurSndDevice names, the microphone is muted as setMicMute() asked,     *)
(* and the earpiece is as the mode and the radio ask, but for a car kit:   *)
(* for every set of requests, devices and filters.                         *)
THEOREM RouteFollows == Spec => []RouteAgrees
<1>1. ASSUME IInv
      PROVE  RouteAgrees
  <2> SUFFICES ASSUME mLock = NoThread, ~misrouted
               PROVE  /\ mCurSndDevice \in {None, driver.device}
                      /\ driver.micMute = mMicMute
                      /\ mCurSndDevice \notin {None, "handset"} /\ ~modeLost /\ ~unrouted
                             /\ pc["main"] # "clear" /\ ~ChangingFm
                         => driver.earMute = (~InCall /\ ~mFmRadioEnabled)
    BY DEF RouteAgrees
  <2>1. \A t \in Threads : ~Telling(t)
    BY <1>1, NoThreadAssumption, TellingIsInside DEF IInv, LockHeld
  <2>2. mCurSndDevice \in {None, driver.device} /\ driver.micMute = mMicMute
    BY <1>1, <2>1 DEF IInv, RouteInv, DeviceAgrees, MicAgrees
  <2>3. ~unrouted /\ ~ChangingFm => mFmRadioEnabled = mFmPrev
    BY <1>1 DEF IInv, FmAgrees, RoutesFm, ChangingFm, Idle
  <2>4. mCurSndDevice \notin {None, "handset"} /\ ~modeLost /\ pc["main"] # "clear"
        => driver.earMute = (~InCall /\ ~mFmPrev)
    BY <1>1, <2>1 DEF IInv, RouteInv, EarAgrees
  <2> QED BY <2>2, <2>3, <2>4
<1> QED BY <1>1, InductiveInvariant, PTL

(* While sound plays, nobody is inside doRouting() and the driver has      *)
(* refused nothing, the filters that are on are those of the current       *)
(* device.                                                                 *)
THEOREM FiltersFollow == Spec => []MaskFits
<1>1. IInv => MaskFits
  BY DEF IInv, FiltersFit, Fits, MaskFits
<1> QED BY <1>1, InductiveInvariant, PTL
-----------------------------------------------------------------------------
(***************************************************************************)
(* FiltersWhole holds in every state of AudioFilter, whatever lines the    *)
(* file is made of and however long it is.                                 *)
(*                                                                         *)
(* The reading stops at the first line that is not stored in full, and     *)
(* then audpp_filter_inited stays FALSE.  So while the file is read, and   *)
(* after a reading that reached its end, every table that can be switched  *)
(* on is whole or one that another record went over, which for recorded    *)
(* sound there is none of; after any other reading no table is switched    *)
(* on.                                                                     *)
(***************************************************************************)
PartNames == {"params", "flag", "bands"}

FilterTypes ==
    /\ DOMAIN table = RecordKinds
    /\ table = [k \in RecordKinds |-> table[k]]
    /\ \A k \in RecordKinds : table[k] \in [Slots(k) -> SUBSET PartNames]
    /\ flag \in [RecordKinds -> [DeviceIds -> BOOLEAN]]
    /\ enable_preproc_mask \in [SampleIndices -> SUBSET PreKinds]
    /\ left \in Int

(* No line has been refused so far.                                        *)
Unrefused == parsing = "file" \/ audpp_filter_inited

Untouched == parsing = "file" => ~audpp_filter_inited /\ preproc = {}

FlagWhole ==
    Unrefused => \A k \in PostKinds : \A d \in DeviceIds :
                     flag[k][d] => Whole(k, d) \/ <<k, d>> \in overrun

MaskWhole ==
    Unrefused => \A i \in SampleIndices : \A k \in enable_preproc_mask[i] : Whole(k, i)

AppliedWhole ==
    \A applied \in preproc : Whole(applied[1], applied[2])

FInv ==
    /\ FilterTypes
    /\ Untouched
    /\ FlagWhole
    /\ MaskWhole
    /\ AppliedWhole
-----------------------------------------------------------------------------
(* The parts of a record are named.                                        *)
LEMMA PartsNamed ==
    ASSUME NEW k \in RecordKinds
    PROVE  Parts(k) \subseteq PartNames
BY DEF Parts, PartNames, Fields, RecordKinds, PostKinds, PreKinds, RxIirFields, AdrcFields,
   EqFields, MbAdrcFields, TxIirFields, AgcFields, NsFields

(* The fields of a record are numbered from 1.                             *)
LEMMA FieldNumbers ==
    ASSUME NEW k \in RecordKinds
    PROVE  DOMAIN Fields[k] = 1..Len(Fields[k]) /\ Len(Fields[k]) \in Nat
BY DEF Fields, RecordKinds, PostKinds, PreKinds, RxIirFields, AdrcFields, EqFields,
   MbAdrcFields, TxIirFields, AgcFields, NsFields

(* What a line leaves in a table are parts of its record.                  *)
LEMMA KeptIsPart ==
    ASSUME FilterTypes, NEW line \in Lines, line.kind \in RecordKinds
    PROVE  Kept(line) \subseteq Parts(line.kind) /\ FieldsRead(line) \in Int
<1>1. line.fields \in Int /\ left \in Int
    BY LinesAssumption DEF FilterTypes
<1>2. FieldsRead(line) \in Int /\ FieldsRead(line) <= Len(Fields[line.kind])
    <2>1. 1 <= Len(Fields[line.kind])
        BY DEF Fields, RecordKinds, PostKinds, PreKinds, RxIirFields, AdrcFields, EqFields,
           MbAdrcFields, TxIirFields, AgcFields, NsFields
    <2> QED
        BY <1>1, <2>1, FieldNumbers DEF FieldsRead
<1> QED
    BY <1>2, FieldNumbers DEF Kept, Parts

(* A line that has all its fields stores all parts of its table.           *)
LEMMA CompleteKeepsAll ==
    ASSUME NEW line \in Lines, line.kind \in RecordKinds, Complete(line)
    PROVE  Kept(line) = Parts(line.kind) /\ Broken(line) = {}
<1>1. Kept(line) = Parts(line.kind)
    BY FieldNumbers DEF Kept, Parts, Complete
<1> QED
    BY <1>1 DEF Broken

(* The tables a record may go over are others, for sound that is played.   *)
LEMMA RunOverOthers ==
    ASSUME NEW line \in Lines, ~Ignored(line), NEW k, NEW i, <<k, i>> \in RunOver(line)
    PROVE  k \in PostKinds /\ ~(k = line.kind /\ i = Slot(line))
<1>1. line.kind = "mbadrc" /\ line.code \in DeviceIds
    BY DEF RunOver, Ignored, PostKinds
<1>2. PICK j \in 1..6 : line.code + 1 < j /\ <<k, i>> = After[j]
    BY <1>1 DEF RunOver
<1>3. k = After[j][1] /\ i = After[j][2]
    BY <1>2
<1>4. k \in {"mbadrc", "eq"} /\ (k = "mbadrc" => i = j - 1)
    BY <1>3 DEF After
<1> QED
    BY <1>1, <1>2, <1>4 DEF PostKinds, PreKinds, Slot, DeviceIds

(* What a complete line stores: its own table is whole, and every other    *)
(* but those it goes over is as it was.                                    *)
LEMMA StoreWhole ==
    ASSUME FilterTypes, NEW line \in Lines, ~Ignored(line), ~malformed(line), store(line)
    PROVE  /\ line.kind \in RecordKinds
           /\ Slot(line) \in Slots(line.kind)
           /\ Whole(line.kind, Slot(line))'
           /\ \A k \in RecordKinds : \A i \in Slots(k) :
                  <<k, i>> \notin RunOver(line) => table[k][i] \subseteq table'[k][i]
<1>1. line.kind \in RecordKinds
    BY LinesAssumption DEF Ignored
<1>2. Slot(line) \in Slots(line.kind)
    BY <1>1, LinesAssumption
       DEF Slot, Slots, Ignored, malformed, samp_index, DeviceIds, SampleIndices, RecordKinds,
           Unknown
<1>3. Kept(line) = Parts(line.kind) /\ Broken(line) = {}
    BY <1>1, CompleteKeepsAll DEF malformed
<1>4. \A k \in RecordKinds : \A i \in Slots(k) : table'[k][i] = TableAfter(line, k, i)
    BY DEF store
<1>5. Whole(line.kind, Slot(line))'
    <2>1. <<line.kind, Slot(line)>> \notin RunOver(line)
        BY RunOverOthers
    <2>2. table'[line.kind][Slot(line)] = table[line.kind][Slot(line)] \cup Parts(line.kind)
        BY <1>1, <1>2, <1>3, <1>4, <2>1 DEF TableAfter
    <2> QED
        BY <2>2 DEF Whole
<1>6. ASSUME NEW k \in RecordKinds, NEW i \in Slots(k), <<k, i>> \notin RunOver(line)
      PROVE  table[k][i] \subseteq table'[k][i]
    BY <1>3, <1>4, <1>6 DEF TableAfter
<1> QED
    BY <1>1, <1>2, <1>5, <1>6

(* A record that is stored is one of its table.                            *)
LEMMA StoreTypes ==
    ASSUME FilterTypes, NEW line \in Lines, ~Ignored(line), Slot(line) # Unknown, store(line)
    PROVE  FilterTypes'
<1>1. line.kind \in RecordKinds /\ Slot(line) \in Slots(line.kind)
    BY LinesAssumption
       DEF Ignored, Slot, Slots, samp_index, DeviceIds, SampleIndices, RecordKinds, Unknown
<1>2. Kept(line) \subseteq PartNames /\ FieldsRead(line) \in Int
    BY <1>1, KeptIsPart, PartsNamed
<1>3. /\ DOMAIN table' = RecordKinds
      /\ table' = [k \in RecordKinds |-> table'[k]]
      /\ \A k \in RecordKinds : table'[k] \in [Slots(k) -> SUBSET PartNames]
    <2>1. ASSUME NEW k \in RecordKinds, NEW i \in Slots(k)
          PROVE  TableAfter(line, k, i) \subseteq PartNames
        <3>1. table[k][i] \subseteq PartNames
            BY DEF FilterTypes
        <3> QED
            BY <1>2, <3>1 DEF TableAfter
    <2> QED
        BY <2>1 DEF store
<1>4. flag' \in [RecordKinds -> [DeviceIds -> BOOLEAN]]
    <2>1. line.flag \in BOOLEAN
        BY LinesAssumption
    <2>2. line.kind \notin PreKinds => line.code \in DeviceIds
        BY <1>1 DEF Slot, Slots, RecordKinds
    <2> QED
        BY <1>1, <2>1, <2>2 DEF store, FilterTypes, DeviceIds
<1>5. enable_preproc_mask' \in [SampleIndices -> SUBSET PreKinds]
    BY <1>1 DEF store, FilterTypes
<1>6. left' \in Int
    BY <1>2, LinesAssumption DEF store, FilterTypes
<1> QED
    BY <1>3, <1>4, <1>5, <1>6 DEF FilterTypes
-----------------------------------------------------------------------------
(* Nothing has been read: every table is untouched.                        *)
LEMMA InitFInv == FilterInit => FInv
<1> SUFFICES ASSUME FilterInit PROVE FInv
    OBVIOUS
<1>1. FilterTypes
    BY DEF FilterInit, FilterTypes
<1>2. Untouched /\ FlagWhole /\ MaskWhole /\ AppliedWhole
    BY DEF FilterInit, Untouched, FlagWhole, MaskWhole, AppliedWhole, RecordKinds
<1> QED
    BY <1>1, <1>2 DEF FInv

(* A line is stored, ignored or refused.                                   *)
LEMMA readLineStep ==
    ASSUME FInv, NEW line \in Lines, readLine(line)
    PROVE  FInv'
<1> USE DEF FInv
<1>1. CASE Ignored(line) \/ Slot(line) = Unknown
    <2>1. UNCHANGED <<tables, left, audpp_filter_inited, preproc>> /\ parsing = "file"
        BY <1>1 DEF readLine, check_and_set_audpp_parameters
    <2>2. FilterTypes' /\ Untouched'
        BY <2>1 DEF tables, FilterTypes, Untouched
    <2> QED
        BY <2>1, <2>2 DEF tables, FlagWhole, MaskWhole, AppliedWhole, Unrefused, Whole
<1>2. CASE ~Ignored(line) /\ Slot(line) # Unknown
    <2>1. /\ store(line)
          /\ parsing = "file"
          /\ ~audpp_filter_inited /\ preproc = {}
          /\ audpp_filter_inited' = audpp_filter_inited /\ preproc' = preproc
          /\ parsing' = IF malformed(line) THEN "volume" ELSE "file"
        BY <1>2 DEF readLine, check_and_set_audpp_parameters, Untouched
    <2>2. FilterTypes'
        BY <1>2, <2>1, StoreTypes
    <2>3. Untouched' /\ AppliedWhole'
        BY <2>1 DEF Untouched, AppliedWhole
    <2>4. CASE malformed(line)
        BY <2>1, <2>2, <2>3, <2>4 DEF FlagWhole, MaskWhole, Unrefused
    <2>5. CASE ~malformed(line)
        <3>1. /\ line.kind \in RecordKinds
              /\ Slot(line) \in Slots(line.kind)
              /\ Whole(line.kind, Slot(line))'
              /\ \A k \in RecordKinds : \A i \in Slots(k) :
                     <<k, i>> \notin RunOver(line) /\ Whole(k, i) => Whole(k, i)'
            BY <1>2, <2>1, <2>5, StoreWhole DEF Whole
        <3>2. FlagWhole'
            <4> SUFFICES ASSUME NEW k \in PostKinds, NEW d \in DeviceIds, flag'[k][d]
                         PROVE  Whole(k, d)' \/ <<k, d>> \in overrun'
                BY DEF FlagWhole
            <4>1. CASE k = line.kind /\ d = Slot(line)
                BY <3>1, <4>1
            <4>2. CASE ~(k = line.kind /\ d = Slot(line))
                <5>1. flag[k][d]
                    BY <2>1, <4>2
                       DEF store, FilterTypes, Slot, RecordKinds, PostKinds, PreKinds
                <5>2. Whole(k, d) \/ <<k, d>> \in overrun
                    BY <2>1, <5>1 DEF FlagWhole, Unrefused
                <5>3. <<k, d>> # <<line.kind, Slot(line)>>
                    BY <4>2
                <5>4. <<k, d>> \in overrun \cup RunOver(line) => <<k, d>> \in overrun'
                    BY <2>1, <5>3 DEF store
                <5>5. k \in RecordKinds /\ d \in Slots(k)
                    BY DEF RecordKinds, Slots
                <5> QED
                    BY <3>1, <5>2, <5>4, <5>5
            <4> QED
                BY <4>1, <4>2
        <3>3. MaskWhole'
            <4> SUFFICES ASSUME NEW i \in SampleIndices, NEW k \in enable_preproc_mask'[i]
                         PROVE  Whole(k, i)'
                BY DEF MaskWhole
            <4>1. k \in enable_preproc_mask[i] \/ (k = line.kind /\ i = Slot(line))
                BY <2>1 DEF store, FilterTypes
            <4>2. CASE k \in enable_preproc_mask[i]
                <5>1. k \in RecordKinds /\ i \in Slots(k) /\ k \notin PostKinds
                    BY <4>2 DEF FilterTypes, RecordKinds, Slots, PreKinds, PostKinds
                <5>2. <<k, i>> \notin RunOver(line)
                    BY <1>2, <5>1, RunOverOthers
                <5>3. Whole(k, i)
                    BY <2>1, <4>2 DEF MaskWhole, Unrefused
                <5> QED
                    BY <3>1, <5>1, <5>2, <5>3
            <4> QED
                BY <3>1, <4>1, <4>2
        <3> QED
            BY <2>2, <2>3, <3>2, <3>3
    <2> QED
        BY <2>4, <2>5
<1> QED
    BY <1>1, <1>2

(* The end of the files leaves the tables as they are.                     *)
LEMMA EndsStep ==
    ASSUME FInv,
           endOfFile \/ noFile \/ \E first \in {"none", "0", "1"} : get_auto_volume_config(first)
    PROVE  FInv'
<1> USE DEF FInv
<1>1. UNCHANGED <<tables, left, preproc>> /\ parsing' # "file" /\ (Unrefused' => Unrefused)
    BY DEF endOfFile, noFile, get_auto_volume_config, Untouched, Unrefused
<1>2. FilterTypes' /\ Untouched'
    BY <1>1 DEF tables, FilterTypes, Untouched
<1> QED
    BY <1>1, <1>2 DEF tables, FlagWhole, MaskWhole, AppliedWhole, Whole

(* A record stream applies the tables its mask names.                      *)
LEMMA PreprocStep ==
    ASSUME FInv, standby \/ \E i \in SampleIndices : read(i)
    PROVE  FInv'
<1> USE DEF FInv
<1>1. PICK applied : /\ msm72xx_enable_preproc(applied)
                     /\ \A a \in applied : \E i \in SampleIndices :
                            \E k \in enable_preproc_mask[i] : a = <<k, i>>
    <2>1. CASE standby
        BY <2>1 DEF standby
    <2>2. CASE \E i \in SampleIndices : read(i)
        <3>1. PICK i \in SampleIndices : read(i)
            BY <2>2
        <3> DEFINE named == {<<k, i>> : k \in enable_preproc_mask[i]}
        <3>2. msm72xx_enable_preproc(named)
            BY <3>1 DEF read
        <3>3. \A a \in named : \E k \in enable_preproc_mask[i] : a = <<k, i>>
            OBVIOUS
        <3> HIDE DEF named
        <3> QED
            BY <3>2, <3>3
    <2> QED
        BY <2>1, <2>2
<1>2. FilterTypes' /\ Untouched' /\ FlagWhole' /\ MaskWhole'
    BY <1>1 DEF msm72xx_enable_preproc, tables, FilterTypes, Untouched, FlagWhole, MaskWhole,
       Unrefused, Whole
<1>3. AppliedWhole'
    <2>1. CASE audpp_filter_inited /\ preproc' = applied
        <3>1. \A a \in applied : Whole(a[1], a[2])
            BY <1>1, <2>1 DEF MaskWhole, Unrefused
        <3> QED
            BY <1>1, <2>1, <3>1 DEF AppliedWhole, Whole, msm72xx_enable_preproc, tables
    <2>2. CASE UNCHANGED preproc
        BY <1>1, <2>2 DEF AppliedWhole, Whole, msm72xx_enable_preproc, tables
    <2> QED
        BY <1>1, <2>1, <2>2 DEF msm72xx_enable_preproc
<1> QED
    BY <1>2, <1>3

(* Whatever AudioFilter.csv holds, a filter that the playback or recording *)
(* mask may switch on has the whole of its table, or a record before its   *)
(* own announced more numbers than its table holds and they went over it.  *)
THEOREM FiltersAreWhole == FilterSpec => []FiltersWhole
<1>1. FInv /\ [FilterNext]_filterVars => FInv'
    <2> SUFFICES ASSUME FInv, [FilterNext]_filterVars PROVE FInv'
        OBVIOUS
    <2>1. CASE UNCHANGED filterVars
        BY <2>1 DEF filterVars, tables, FInv, FilterTypes, Untouched, FlagWhole, MaskWhole,
           AppliedWhole, Unrefused, Whole
    <2> QED
        BY <2>1, readLineStep, EndsStep, PreprocStep DEF FilterNext
<1>2. FInv => FiltersWhole
    BY DEF FInv, FiltersWhole, FlagWhole, AppliedWhole, Unrefused
<1> QED
    BY <1>1, <1>2, InitFInv, PTL DEF FilterSpec
=============================================================================
