-------------------------- MODULE DeviceForStrategy --------------------------
(***************************************************************************)
(* AudioPolicyManager::getDeviceForStrategy() (libaudio/                   *)
(* AudioPolicyManager.cpp): which output devices a kind of sound goes to.  *)
(* The class around it, AudioPolicyManagerBase, is not part of the source: *)
(* its state is in its header, and after every change of it, it computes   *)
(* the device of each strategy anew (updateDeviceForStrategy), in the      *)
(* order of the header's enumeration.  Bit fields of devices are sets; the *)
(* speaker and the earpiece are built in and always available.             *)
(***************************************************************************)
EXTENDS Integers, Sequences

CONSTANTS
    Pluggable        \* the devices that come and go

VARIABLES
    mAvailableOutputDevices,
    mPhoneState,
    mForceUse,       \* for "COMMUNICATION" and for "MEDIA"
    mDeviceForStrategy,
    phoneMoved       \* the last update has changed the device of PHONE

policyVars == <<mAvailableOutputDevices, mPhoneState, mForceUse, mDeviceForStrategy, phoneMoved>>

A2dp == {"BLUETOOTH_A2DP", "BLUETOOTH_A2DP_HEADPHONES", "BLUETOOTH_A2DP_SPEAKER"}
BuiltIn == {"SPEAKER", "EARPIECE"}
DevicesOut == A2dp \cup BuiltIn \cup
    {"BLUETOOTH_SCO_CARKIT", "BLUETOOTH_SCO_HEADSET", "BLUETOOTH_SCO",
     "WIRED_HEADPHONE", "WIRED_HEADSET", "AUX_DIGITAL", "FM_ALL"}

ASSUME PluggableAssumption == Pluggable \subseteq DevicesOut \ BuiltIn

Strategies == {"MEDIA", "PHONE", "SONIFICATION", "DTMF", "MEDIA_SONIFICATION"}

(* Exactly one device, and that an A2DP one (AudioSystem).                 *)
isA2dpDevice(device) == \E d \in A2dp : device = {d}

InCall == mPhoneState = "IN_CALL"

(* The first device of a list that is available, as a bit field.           *)
FirstOf(list) ==
    LET there == {n \in DOMAIN list : list[n] \in mAvailableOutputDevices}
    IN  {list[n] : n \in {m \in there : \A o \in there : m <= o}}

If(condition, list) == IF condition THEN list ELSE << >>

(* The lists of case STRATEGY_PHONE, and of STRATEGY_DTMF in a call, which *)
(* leaves the car kit out.  A2DP is for voice only outside a call.         *)
carkit(strategy) == If(~InCall \/ strategy # "DTMF", <<"BLUETOOTH_SCO_CARKIT">>)

forcedNone ==
    <<"WIRED_HEADPHONE", "WIRED_HEADSET">>
    \o If(~InCall, <<"BLUETOOTH_A2DP", "BLUETOOTH_A2DP_HEADPHONES">>)
    \o If(mPhoneState = "RINGTONE", <<"SPEAKER">>)
    \o <<"EARPIECE">>

phoneDevice(strategy) ==
    CASE mForceUse["COMMUNICATION"] = "BT_SCO" ->
             FirstOf(carkit(strategy) \o <<"BLUETOOTH_SCO_HEADSET", "BLUETOOTH_SCO">> \o forcedNone)
      [] mForceUse["COMMUNICATION"] = "SPEAKER" ->
             FirstOf(carkit(strategy) \o If(~InCall, <<"BLUETOOTH_A2DP_SPEAKER">>) \o <<"SPEAKER">>)
      [] OTHER -> FirstOf(forcedNone)

(* Mutants.  An operator whose name ends in _X<n> is a changed form of the *)
(* definition after it, the way a bug would change it; nothing uses it.    *)
mediaDevice_X1(strategy, cachedPhone) ==         \* the second device forgets a call
    FirstOf(If(mForceUse["MEDIA"] = "SPEAKER", <<"SPEAKER">>)
            \o <<"AUX_DIGITAL">>
            \o If(mAvailableOutputDevices \cap A2dp # {},
                  <<"BLUETOOTH_A2DP", "BLUETOOTH_A2DP_HEADPHONES", "BLUETOOTH_A2DP_SPEAKER">>)
            \o <<"WIRED_HEADPHONE", "WIRED_HEADSET", "SPEAKER", "EARPIECE">>)

(* Case STRATEGY_MEDIA, where the strategies of a sonification end as well *)
(* outside a call.  An A2DP output is open while such a device is there.   *)
mediaDevice(strategy, cachedPhone) ==
    LET device2 ==
            FirstOf(If(mForceUse["MEDIA"] = "SPEAKER", <<"SPEAKER">>)
                    \o <<"AUX_DIGITAL">>
                    \o If(mAvailableOutputDevices \cap A2dp # {},
                          <<"BLUETOOTH_A2DP", "BLUETOOTH_A2DP_HEADPHONES", "BLUETOOTH_A2DP_SPEAKER">>)
                    \o <<"WIRED_HEADPHONE", "WIRED_HEADSET", "SPEAKER", "EARPIECE">>)
        device == device2 \cup (mAvailableOutputDevices \cap {"FM_ALL"})
                  \cup (IF strategy = "SONIFICATION" THEN {"SPEAKER"} ELSE {})
    IN  IF InCall /\ ~isA2dpDevice(device) /\ device # cachedPhone THEN {} ELSE device

(* getDeviceForStrategy(strategy, false); the device of PHONE that a media *)
(* device is compared with comes from the cache all the same.              *)
getDeviceForStrategy(strategy, cachedPhone) ==
    CASE strategy = "PHONE" -> phoneDevice(strategy)
      [] strategy = "DTMF" /\ InCall -> phoneDevice(strategy)
      [] strategy = "DTMF" /\ ~InCall -> mediaDevice("MEDIA", cachedPhone)
      [] strategy \in {"SONIFICATION", "MEDIA_SONIFICATION"} /\ InCall -> phoneDevice("PHONE")
      [] OTHER -> mediaDevice(strategy, cachedPhone)

(* MEDIA is the first strategy of the enumeration: it is compared with the *)
(* device PHONE had until now; nothing else looks into the cache in a call.*)
updateDeviceForStrategy ==
    \E phone \in {mDeviceForStrategy["PHONE"]} :
        /\ mDeviceForStrategy' = [s \in Strategies |-> getDeviceForStrategy(s, phone)']
        /\ phoneMoved' = (mDeviceForStrategy'["PHONE"] # phone)

PolicyInit ==
    /\ mAvailableOutputDevices = BuiltIn
    /\ mPhoneState = "NORMAL"
    /\ mForceUse = [COMMUNICATION |-> "NONE", MEDIA |-> "NONE"]
    /\ mDeviceForStrategy = [s \in Strategies |-> getDeviceForStrategy(s, {})]
    /\ phoneMoved = FALSE

setDeviceConnectionState ==
    /\ \E d \in Pluggable :
           \/ mAvailableOutputDevices' = mAvailableOutputDevices \cup {d}
           \/ mAvailableOutputDevices' = mAvailableOutputDevices \ {d}
    /\ UNCHANGED <<mPhoneState, mForceUse>>
    /\ updateDeviceForStrategy

setPhoneState ==
    /\ mPhoneState' \in {"NORMAL", "RINGTONE", "IN_CALL"}
    /\ UNCHANGED <<mAvailableOutputDevices, mForceUse>>
    /\ updateDeviceForStrategy

setForceUse ==
    /\ \/ \E config \in {"NONE", "SPEAKER", "BT_SCO"} :
              mForceUse' = [mForceUse EXCEPT !["COMMUNICATION"] = config]
       \/ \E config \in {"NONE", "SPEAKER"} :
              mForceUse' = [mForceUse EXCEPT !["MEDIA"] = config]
    /\ UNCHANGED <<mAvailableOutputDevices, mPhoneState>>
    /\ updateDeviceForStrategy

PolicyNext == setDeviceConnectionState \/ setPhoneState \/ setForceUse

PolicySpec == PolicyInit /\ [][PolicyNext]_policyVars
-----------------------------------------------------------------------------
(* What one hears in a call: every strategy has a device that is there,    *)
(* except media; media is silent or goes where the call goes, or to A2DP,  *)
(* and so never changes the hardware's route (183).  The first update that *)
(* moves the call is excepted: media was compared with its old device.     *)
CallKeepsItsRoute ==
    InCall =>
        /\ \A s \in Strategies \ {"MEDIA"} :
               mDeviceForStrategy[s] # {} /\ mDeviceForStrategy[s] \subseteq mAvailableOutputDevices
        /\ \/ phoneMoved
           \/ mDeviceForStrategy["MEDIA"] \in {{}, mDeviceForStrategy["PHONE"]}
           \/ isA2dpDevice(mDeviceForStrategy["MEDIA"])
=============================================================================
