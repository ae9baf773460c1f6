---------------------------- MODULE MCG5Sensord ----------------------------
(***************************************************************************)
(* The daemon with a phone that may also be turned about its long axis     *)
(* while it lies on its face; bins as in MCComponents.                     *)
(***************************************************************************)
EXTENDS G5Sensord

AnyAttitude ==
    {<<0, 0, 1>>, <<1, 0, 0>>, <<-1, 0, 0>>, <<0, 1, 0>>, <<0, -1, 1>>, <<1, 0, 1>>,
     <<0, 0, -1>>, <<1, 0, -1>>, <<-1, 0, -1>>}
=============================================================================
