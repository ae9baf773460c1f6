--------------------------- MODULE MCAudioRouting ---------------------------
(***************************************************************************)
(* Sound moves between the headset and a car kit while the microphone,     *)
(* with which it goes to the handset, is recorded and the radio, the dual  *)
(* microphone, TTY and Bluetooth are set; the filters of the headset and   *)
(* the handset differ.                                                     *)
(***************************************************************************)
EXTENDS AudioRouting

MCOutputRoutes == {{"wired_headset"}, {"sco_carkit"}}
MCInputRoutes == {"builtin_mic"}
MCRequests ==
    {[NoRequest EXCEPT !.bt = "unknown", !.fm = "on"],
     [NoRequest EXCEPT !.bt = "unknown", !.dualmic = "true", !.fm = "off"],
     [NoRequest EXCEPT !.tty = "full"]}
MCOutputRequests == {NoRequest}
MCFilters == [speaker |-> Features, handset |-> {"eq"}, headset |-> {"adrc", "iir"}]
=============================================================================
