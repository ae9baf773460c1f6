----------------------------- MODULE RegionHeap -----------------------------
(***************************************************************************)
(* What an allocator of page aligned regions of one heap promises its      *)
(* callers: the regions it hands out lie in the heap, start on a page and  *)
(* do not overlap; it refuses a request only when no page of the heap has  *)
(* room for it; what is given back can be handed out again.  Nothing is    *)
(* said about lists, splitting or coalescing.                              *)
(***************************************************************************)
EXTENDS Integers, FiniteSets

CONSTANTS
    PageUnits,       \* units in a page
    Sizes,           \* the sizes callers may ask for
    HeapSizes        \* the sizes the heap may be given

VARIABLES
    heapSize,        \* 0 until the heap has its size
    live,            \* the regions handed out: records [off, size]
    ret              \* what the last call returned

ENOENT == 2
ENOMEM == 12
EINVAL == 22

vars == <<heapSize, live, ret>>

Overlap(a, b) == a.off < b.off + b.size /\ b.off < a.off + a.size

(* The places a request of this size can be given.                         *)
Places(size) ==
    {off \in 0..heapSize :
        /\ off % PageUnits = 0
        /\ off + size <= heapSize
        /\ \A r \in live : ~Overlap([off |-> off, size |-> size], r)}

Init == heapSize = 0 /\ live = {} /\ ret = 0

SetSize ==
    \/ /\ heapSize = 0
       /\ ret' \in HeapSizes
       /\ heapSize' \in ret'..(ret' + PageUnits - 1)
       /\ heapSize' % PageUnits = 0
       /\ UNCHANGED live
    \/ /\ heapSize # 0
       /\ ret' = -EINVAL
       /\ UNCHANGED <<heapSize, live>>

(* An empty request is granted and is no region.                           *)
AllocateNothing ==
    /\ heapSize # 0
    /\ ret' = 0
    /\ UNCHANGED <<heapSize, live>>

Allocate(size) ==
    \/ \E off \in Places(size) :
        /\ live' = live \cup {[off |-> off, size |-> size]}
        /\ ret' = off
        /\ UNCHANGED heapSize
    \/ /\ heapSize # 0 /\ Places(size) = {}
       /\ ret' = -ENOMEM
       /\ UNCHANGED <<heapSize, live>>
    \/ /\ heapSize = 0
       /\ ret' = -EINVAL
       /\ UNCHANGED <<heapSize, live>>

Deallocate(r) ==
    /\ live' = live \ {r}
    /\ ret' = 0
    /\ UNCHANGED heapSize

RefuseDeallocate ==
    /\ ret' = IF heapSize = 0 THEN -EINVAL ELSE -ENOENT
    /\ UNCHANGED <<heapSize, live>>

Next ==
    \/ SetSize
    \/ AllocateNothing
    \/ \E size \in Sizes : Allocate(size)
    \/ \E r \in live : Deallocate(r)
    \/ RefuseDeallocate

Spec == Init /\ [][Next]_vars
=============================================================================
