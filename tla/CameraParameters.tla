-------------------------- MODULE CameraParameters --------------------------
(***************************************************************************)
(* The settings of the camera (libcamera/QualcommCameraHardware.cpp):      *)
(* initDefaultParameters(), setParameters() with a setter per setting, and *)
(* what getParameters() gives back.  The setters run in a fixed order with *)
(* mLock held; each looks at what is asked for, sometimes at another       *)
(* setting, remembers the value in mParameters and then tells the driver,  *)
(* which may refuse.  setParameters() succeeds whatever they return.       *)
(*                                                                         *)
(* Of each setting two values that are supported are told apart, and one   *)
(* that is not.  The position, the date and the thumbnail quality, which   *)
(* are only remembered, are left out.                                      *)
(***************************************************************************)
EXTENDS Integers, Sequences

CONSTANTS
    Settings,        \* the settings in use
    MaxChanges,      \* bound: settings an application changes in a call
    MaxRefusals      \* bound: commands the driver refuses

VARIABLES
    sensorType,
    mMaxZoom,
    mParameters,
    mBrightness, mHJR,
    driver,          \* what the driver works with, setting by setting
    refusals,        \* the settings whose last command was refused
    refused          \* how many were

parametersVars == <<sensorType, mMaxZoom, mParameters, mBrightness, mHJR, driver, refusals,
                    refused>>

ColourEffects == {"mono"}            \* and negative, aqua, sepia

Supported(k) ==
    CASE k = "whitebalance" -> {"auto", "daylight"}
      [] k = "effect" -> {"none"} \cup ColourEffects
      [] k = "iso" -> {"auto", "deblur"}
      [] k = "zoom" -> 0..mMaxZoom
      [] OTHER -> {0, 1}

Default(k) ==
    CASE k = "whitebalance" -> "auto"
      [] k = "effect" -> "none"
      [] k = "iso" -> "auto"
      [] OTHER -> 0

(* Not supported.                                                          *)
Bad(k) == IF k \in {"whitebalance", "effect", "iso"} THEN "bad" ELSE -1

Order == <<"preview-size", "preview-frame-rate", "picture-size", "jpeg-quality", "antibanding",
           "auto-exposure", "whitebalance", "effect", "rotation", "zoom", "focus-mode",
           "orientation", "luma-adaptation", "exposure-compensation", "lensshade", "iso",
           "picture-format", "sharpness", "contrast", "saturation">>

ASSUME SettingsAssumption == Settings \subseteq {Order[n] : n \in 1..Len(Order)}
ASSUME BoundsAssumption == MaxChanges \in Nat /\ MaxRefusals \in Nat

(* What the sensor with the small raw picture cannot do.                   *)
Lacking ==
    IF sensorType = "2mp"
    THEN {"preview-frame-rate", "auto-exposure", "sharpness", "contrast", "saturation", "lensshade"}
    ELSE {}
-----------------------------------------------------------------------------
(* What a setter may do, from `kept', the parameters as the setters before *)
(* it have left them, and `params', those asked for: nothing, remember the *)
(* value, or remember it and tell the driver.                              *)
Ignore(kept, k) == [value |-> kept[k], command |-> << >>]
Remember(params, k) == [value |-> params[k], command |-> << >>]
Tell(params, k) == [value |-> params[k], command |-> <<params[k]>>]

(* Some settings are only remembered, and used when a preview or a picture *)
(* starts; most are also sent.                                             *)
Remembered(kept, params, k) ==
    IF params[k] \in Supported(k) THEN Remember(params, k) ELSE Ignore(kept, k)

setPreviewSize(kept, params, k) == Remembered(kept, params, k)
setPictureSize(kept, params, k) == Remembered(kept, params, k)
setJpegQuality(kept, params, k) == Remembered(kept, params, k)
setRotation(kept, params, k) == Remembered(kept, params, k)
setFocusMode(kept, params, k) == Remembered(kept, params, k)
setOrientation(kept, params, k) == Remembered(kept, params, k)
setPictureFormat(kept, params, k) == Remembered(kept, params, k)

OnlyRemembered == {"preview-size", "picture-size", "jpeg-quality", "rotation", "focus-mode",
                   "orientation", "picture-format"}

Sent(kept, params, k) ==
    IF k \notin Lacking /\ params[k] \in Supported(k) THEN Tell(params, k) ELSE Ignore(kept, k)

setAutoExposure(kept, params, k) == Sent(kept, params, k)
setLensshadeValue(kept, params, k) == Sent(kept, params, k)
setSharpness(kept, params, k) == Sent(kept, params, k)
setContrast(kept, params, k) == Sent(kept, params, k)
setZoom(kept, params, k) == Sent(kept, params, k)         \* as far as mMaxZoom
setISOValue(kept, params, k) == Sent(kept, params, k)

(* Returns before it does anything.                                        *)
setAntibanding(kept, params, k) == Ignore(kept, k)

(* The rate that is set already is not sent again.                         *)
setPreviewFrameRate(kept, params, k) ==
    IF k \notin Lacking /\ params[k] # kept[k] /\ params[k] \in Supported(k)
    THEN Tell(params, k) ELSE Ignore(kept, k)

setWhiteBalance(kept, params, k) ==
    IF kept["effect"] \notin ColourEffects /\ params[k] \in Supported(k)
    THEN Tell(params, k) ELSE Ignore(kept, k)

(* Mutants.  An operator whose name ends in _X<n> is a changed form of the *)
(* definition after it, the way a bug would change it; nothing uses it.    *)
setEffect_X1(kept, params, k) ==                 \* remembered before the white balance is seen
    IF params[k] \in Supported(k)
    THEN IF params[k] \in ColourEffects /\ kept["whitebalance"] # "auto"
         THEN Remember(params, k) ELSE Tell(params, k)
    ELSE Ignore(kept, k)

setEffect(kept, params, k) ==
    IF params[k] \in Supported(k) /\ (params[k] \in ColourEffects => kept["whitebalance"] = "auto")
    THEN Tell(params, k) ELSE Ignore(kept, k)

(* Looks at the effect that is asked for, not at the one that is set.      *)
setSaturation(kept, params, k) ==
    IF k \notin Lacking /\ params["effect"] \notin ColourEffects /\ params[k] \in Supported(k)
    THEN Tell(params, k) ELSE Ignore(kept, k)

(* Remembered in mBrightness: the parameters keep their first value.       *)
setBrightness(kept, params, k) ==
    [value |-> kept[k], command |-> IF params[k] = mBrightness THEN << >> ELSE <<params[k]>>]

setExposureCompensation_X1(kept, params, k) ==   \* remembers what it sends
    [value |-> params[k] + 2, command |-> <<params[k] + 2>>]

(* Not checked; the driver counts from 2 below.                            *)
setExposureCompensation(kept, params, k) ==
    [value |-> params[k], command |-> <<params[k] + 2>>]

Setter(kept, params, k) ==
    CASE k = "preview-size" -> setPreviewSize(kept, params, k)
      [] k = "preview-frame-rate" -> setPreviewFrameRate(kept, params, k)
      [] k = "picture-size" -> setPictureSize(kept, params, k)
      [] k = "jpeg-quality" -> setJpegQuality(kept, params, k)
      [] k = "antibanding" -> setAntibanding(kept, params, k)
      [] k = "auto-exposure" -> setAutoExposure(kept, params, k)
      [] k = "whitebalance" -> setWhiteBalance(kept, params, k)
      [] k = "effect" -> setEffect(kept, params, k)
      [] k = "rotation" -> setRotation(kept, params, k)
      [] k = "zoom" -> setZoom(kept, params, k)
      [] k = "focus-mode" -> setFocusMode(kept, params, k)
      [] k = "orientation" -> setOrientation(kept, params, k)
      [] k = "luma-adaptation" -> setBrightness(kept, params, k)
      [] k = "exposure-compensation" -> setExposureCompensation(kept, params, k)
      [] k = "lensshade" -> setLensshadeValue(kept, params, k)
      [] k = "iso" -> setISOValue(kept, params, k)
      [] k = "picture-format" -> setPictureFormat(kept, params, k)
      [] k = "sharpness" -> setSharpness(kept, params, k)
      [] k = "contrast" -> setContrast(kept, params, k)
      [] k = "saturation" -> setSaturation(kept, params, k)

(* Hand jitter reduction goes with the deblurring ISO mode: setISOValue()  *)
(* switches it on with it, and off when it was on.                         *)
HandJitterReduction(params) ==
    LET value == params["iso"]
    IN  IF "iso" \notin Settings \/ value \notin Supported("iso")
           \/ (value # "deblur" /\ mHJR # "deblur")
        THEN UNCHANGED mHJR ELSE mHJR' = value

(* One setter after the other.                                             *)
Ran(params) ==
    LET ran[n \in 0..Len(Order)] ==              \* after the setters up to that of Order[n]
            IF n = 0 THEN [kept |-> mParameters, commands |-> [k \in Settings |-> << >>]]
            ELSE LET r == ran[n - 1]
                     k == Order[n]
                     s == Setter(r.kept, params, k)
                 IN  IF k \in Settings
                     THEN [kept |-> [r.kept EXCEPT ![k] = s.value],
                           commands |-> [r.commands EXCEPT ![k] = s.command]]
                     ELSE r
    IN  ran[Len(Order)]

(* native_set_parm(): those in `fails' are refused.                        *)
native_set_parm(commands, fails) ==
    /\ fails \subseteq {k \in Settings : commands[k] # << >>}
    /\ driver' = [k \in Settings |-> IF commands[k] = << >> \/ k \in fails THEN driver[k]
                                     ELSE Head(commands[k])]
    /\ refusals' = {k \in Settings : IF commands[k] = << >> THEN k \in refusals ELSE k \in fails}
    /\ refused' = refused + (IF fails = {} THEN 0 ELSE 1)

AtMostOne(S) == {{}} \cup {{k} : k \in S}

setParameters(params) ==
    /\ LET ran == Ran(params)
           sent == {k \in Settings : ran.commands[k] # << >>}
       IN  /\ \E fails \in AtMostOne(IF refused < MaxRefusals THEN sent ELSE {}) :
                  native_set_parm(ran.commands, fails)
           /\ mParameters' = ran.kept
    /\ mBrightness' = IF "luma-adaptation" \in Settings THEN params["luma-adaptation"]
                      ELSE mBrightness
    /\ HandJitterReduction(params)
    /\ UNCHANGED <<sensorType, mMaxZoom>>

(* An application changes some of what getParameters() gave it.            *)
getParameters == mParameters

Changed(params, n) ==
    LET ValuesOf(k) == IF k \in {"luma-adaptation", "exposure-compensation"} THEN Supported(k)
                       ELSE Supported(k) \cup {Bad(k)}
        Change(p) == UNION {{[p EXCEPT ![k] = v] : v \in ValuesOf(k)} : k \in Settings}
        after[i \in 0..n] == IF i = 0 THEN {params} ELSE UNION {Change(p) : p \in after[i - 1]}
    IN  after[n]

applicationSets == \E params \in Changed(getParameters, MaxChanges) : setParameters(params)

(* Starting the preview asks the driver how far it can zoom, which depends *)
(* on the sizes; no answer counts as 0.                                    *)
native_get_maxzoom ==
    /\ mMaxZoom' \in {0, 1}
    /\ UNCHANGED <<sensorType, mParameters, mBrightness, mHJR, driver, refusals, refused>>

(* initDefaultParameters(), once per object, after findSensorType(): the   *)
(* defaults are set like any parameters, except that the frame rate and    *)
(* the brightness are sent although nothing was set before.                *)
ParametersInit ==
    /\ sensorType \in {"2mp", "3mp"}
    /\ mMaxZoom = 0
    /\ mParameters = [k \in Settings |-> Default(k)]
    /\ mBrightness = 0 /\ mHJR = "auto"
    /\ refusals \in AtMostOne(Settings \ (Lacking \cup OnlyRemembered)) /\ refused = 0
    /\ driver = [k \in Settings |-> IF k \in refusals THEN Bad(k)
                                   ELSE IF k = "exposure-compensation" THEN 2 ELSE Default(k)]

ParametersNext == applicationSets \/ native_get_maxzoom

ParametersSpec == ParametersInit /\ [][ParametersNext]_parametersVars
-----------------------------------------------------------------------------
(* What getParameters() says of a setting.                                 *)
Told(k) ==
    CASE k = "exposure-compensation" -> mParameters[k] + 2
      [] k = "luma-adaptation" -> mBrightness
      [] OTHER -> mParameters[k]

(* The driver works with what the application is told it does, unless it   *)
(* has refused the last command for the setting; jitter reduction is on    *)
(* exactly with its ISO mode; and the driver is never made to combine a    *)
(* white balance with a colour effect, in whatever order they are asked    *)
(* for, except after it has refused one of them.                           *)
SettingsAgree ==
    /\ \A k \in Settings \ (refusals \cup OnlyRemembered) : driver[k] = Told(k)
    /\ "iso" \in Settings => (mHJR = "deblur" <=> mParameters["iso"] = "deblur")
    /\ {"whitebalance", "effect"} \subseteq Settings \ refusals =>
           ~(driver["whitebalance"] # "auto" /\ driver["effect"] \in ColourEffects)

(* Setting what getParameters() returned changes nothing of the picture.   *)
(* The brightness is excepted: it is never put into the parameters, so     *)
(* that it falls back to its first value.                                  *)
RoundTrip ==
    [][\/ getParameters' # getParameters
       \/ \E k \in Settings \ (refusals \cup refusals' \cup {"luma-adaptation"}) :
              driver'[k] # driver[k]
       => ~setParameters(getParameters)]_parametersVars
=============================================================================
