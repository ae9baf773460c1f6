---------------------------- MODULE MCGpuContext ----------------------------
(***************************************************************************)
(* Callers that ask for slots, or for regular buffers when there is one    *)
(* screen: two threads and three handles, and one screen or two, so that   *)
(* slots run out.  Or callers that ask for memory of their own, two at a   *)
(* time, beside other code: buffers of one page and of three, which the    *)
(* kernel's allocator rounds up to four, of five pages.  The two share no  *)
(* state but the count of descriptors, so a behaviour has one of them.     *)
(***************************************************************************)
EXTENDS GpuContext, TLC

VARIABLE callers

Callers == {[kinds |-> {"fb", "pmem"}, inUse |-> 3, foreign |-> 0],
            [kinds |-> {"adsp", "ashmem"}, inUse |-> 2, foreign |-> 1]}

Busy == {t \in Threads : pc[t] # "idle"}

(* A call is begun only for what these callers ask for, and within what    *)
(* they have in use.                                                       *)
Within ==
    /\ \A t \in Busy' : call'[t].kind \in callers.kinds
    /\ \A t \in Busy' \ Busy :
           handles' = handles =>
               Cardinality(handles) + Cardinality(Busy) < callers.inUse
    /\ Cardinality(foreign') <= callers.foreign

MCInit == Init /\ callers \in Callers
MCNext == Next /\ UNCHANGED callers /\ Within
MCSpec == MCInit /\ [][MCNext]_<<vars, callers>>

MCSizes == {1, 3}
MCScreens == 1..2
Symmetry == Permutations(Threads) \cup Permutations(Ids)
=============================================================================
