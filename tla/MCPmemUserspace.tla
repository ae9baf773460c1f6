-------------------------- MODULE MCPmemUserspace --------------------------
(***************************************************************************)
(* Two threads, an area of three pages and descriptors for the master, two *)
(* buffers and one allocation in progress: the heap and the descriptors    *)
(* both run out.                                                           *)
(***************************************************************************)
EXTENDS PmemUserspace

MCSizes == {1, 2}
MCDescriptors == 3..6
MCErrnos == {13}
MCSizeErrors == {-13}
=============================================================================
