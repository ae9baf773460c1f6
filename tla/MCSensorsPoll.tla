--------------------------- MODULE MCSensorsPoll ---------------------------
(***************************************************************************)
(* SensorsPoll with two of the three drivers, rings of three events, as    *)
(* many waiting in a descriptor, and callers with room for two events, who *)
(* leave some in a ring.                                                   *)
(***************************************************************************)
EXTENDS SensorsPoll
=============================================================================
