------------------------------ MODULE MCFbPost ------------------------------
(***************************************************************************)
(* The two slots of the device (NUM_BUFFERS).  Posting is not bounded: two *)
(* changes of the interval leave fewer frames in flight than numbers       *)
(* modulo 8 tell apart; with an interval of 1, modulo 4 is enough.         *)
(***************************************************************************)
EXTENDS FbPost

MCPaced == {1}
MCAnyInterval == {0, 1}
=============================================================================
