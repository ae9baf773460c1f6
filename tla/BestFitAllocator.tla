-------------------------- MODULE BestFitAllocator --------------------------
(***************************************************************************)
(* SimpleBestFitAllocator (libgralloc/allocator.cpp): the suballocator of  *)
(* the mapped pmem area.  Every public method holds mLock from its first   *)
(* to its last statement, so each is one action.                           *)
(*                                                                         *)
(* live is what the callers have been given and not given back: a caller   *)
(* deallocates what it allocated, as gpu_context_t::free_impl does through *)
(* the private_handle_t, or passes an offset at which no chunk starts.     *)
(***************************************************************************)
EXTENDS ChunkList

CONSTANTS
    Sizes,           \* the sizes (in units) callers ask for; 0 is one of them
    HeapSizes        \* the sizes setSize() is called with

ASSUME SizesAssumption == Sizes \subseteq Nat
ASSUME HeapSizesAssumption == HeapSizes \subseteq Nat \ {0}

VARIABLES
    mHeapSize,
    mList,
    live,            \* regions handed out: records [off, size]
    ret              \* what the last call returned

vars == <<mHeapSize, mList, live, ret>>

ENOENT == 2
ENOMEM == 12
EINVAL == 22

Init ==
    /\ mHeapSize = 0
    /\ mList = <<>>
    /\ live = {}
    /\ ret = 0

setSize(size) ==
    \/ /\ mHeapSize = 0
       /\ mHeapSize' = RoundUpToPage(size)
       /\ mList' = <<NewChunk(0, mHeapSize')>> \o mList
       /\ ret' = size
       /\ UNCHANGED live
    \/ /\ mHeapSize # 0
       /\ ret' = -EINVAL
       /\ UNCHANGED <<mHeapSize, mList, live>>

(* An empty request is granted at offset 0 and takes nothing.              *)
allocateNothing ==
    /\ mHeapSize # 0
    /\ ret' = 0
    /\ UNCHANGED <<mHeapSize, mList, live>>

allocateChunk(size) ==
    /\ mHeapSize # 0
    /\ size # 0
    /\ Fitting(mList, size) # {}
    /\ LET c == mList[BestFit(mList, size)]
           offset == c.start + Extra(c.start)
       IN  /\ ret' = offset
           /\ live' = live \cup {[off |-> offset, size |-> size]}
    /\ mList' = Carve(mList, BestFit(mList, size), size)
    /\ UNCHANGED mHeapSize

allocateFails(size) ==
    /\ \/ mHeapSize = 0 /\ ret' = -EINVAL
       \/ /\ mHeapSize # 0 /\ size # 0
          /\ Fitting(mList, size) = {}
          /\ ret' = -ENOMEM
    /\ UNCHANGED <<mHeapSize, mList, live>>

allocate(size) ==
    \/ size = 0 /\ allocateNothing
    \/ allocateChunk(size)
    \/ allocateFails(size)

deallocate(r) ==
    /\ mHeapSize # 0
    /\ ChunkAt(mList, r.off) # 0
    /\ mList' = Release(mList, ChunkAt(mList, r.off))
    /\ live' = live \ {r}
    /\ ret' = 0
    /\ UNCHANGED mHeapSize

deallocateUnknown(offset) ==
    /\ \/ mHeapSize = 0 /\ ret' = -EINVAL
       \/ mHeapSize # 0 /\ ChunkAt(mList, offset) = 0 /\ ret' = -ENOENT
    /\ UNCHANGED <<mHeapSize, mList, live>>

Next ==
    \/ \E size \in HeapSizes : setSize(size)
    \/ \E size \in Sizes : allocate(size)
    \/ \E r \in live : deallocate(r)
    \/ \E offset \in 0..mHeapSize : deallocateUnknown(offset)

Spec == Init /\ [][Next]_vars
-----------------------------------------------------------------------------
(* mHeapSize, mList, the regions and the result have their types; no chunk *)
(* is empty.                                                               *)
TypeOK ==
    /\ mHeapSize \in Nat
    /\ mList \in Seq(Chunk)
    /\ \A i \in 1..Len(mList) : mList[i].size > 0
    /\ live \subseteq [off : Nat, size : Nat \ {0}]
    /\ ret \in Int

(* The chunks, in list order, cover the heap without gap or overlap, so    *)
(* splitting and merging lose no unit and hand none out twice.             *)
Tiled ==
    /\ mHeapSize = 0 <=> mList = <<>>
    /\ mList # <<>> =>
        /\ mList[1].start = 0
        /\ mList[Len(mList)].start + mList[Len(mList)].size = mHeapSize
        /\ \A i \in 1..(Len(mList) - 1) :
               mList[i].start + mList[i].size = mList[i + 1].start

(* dealloc() coalesces completely: two free chunks are never neighbours,   *)
(* which is also what lets its loop stop at the first chunk in use.        *)
NoAdjacentFree ==
    \A i \in 1..(Len(mList) - 1) : ~(mList[i].free /\ mList[i + 1].free)

(* The chunks in use are exactly the regions the callers hold, so a legal  *)
(* deallocate() never meets the "already freed" assertion.                 *)
LiveIsUsed == Used(mList) = live

(* "page is not aligned!!!" is never logged: every chunk in use starts on  *)
(* a page boundary.                                                        *)
PageAligned ==
    \A i \in 1..Len(mList) : ~mList[i].free => mList[i].start % PageUnits = 0

(* No two regions held by callers share a unit, and all lie in the heap.   *)
LiveDisjoint ==
    /\ \A r \in live : r.off + r.size <= mHeapSize
    /\ \A r, s \in live :
           r # s => r.off + r.size <= s.off \/ s.off + s.size <= r.off

(* Seen from its callers the allocator is a RegionHeap; in particular      *)
(* -ENOMEM is returned only when no page aligned place is left, whatever   *)
(* the order of the calls before.                                          *)
Heap == INSTANCE RegionHeap WITH heapSize <- mHeapSize, Sizes <- Sizes \ {0}

HeapSpec == Heap!Spec
=============================================================================
