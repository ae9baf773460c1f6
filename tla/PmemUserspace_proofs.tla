------------------------- MODULE PmemUserspace_proofs -------------------------
(***************************************************************************)
(* WindowsDisjoint, HeapAccounted and DescriptorsAccounted hold in every   *)
(* state of PmemUserspace, for every finite set of threads, every set of   *)
(* descriptors, every size of the area and of the pages, and whichever     *)
(* calls into the kernel fail.                                             *)
(*                                                                         *)
(* The argument: a region that a client has mapped, or may still have, is  *)
(* in use in the suballocator's list (Backed); no two owners have the same *)
(* one (Apart); and the list keeps regions in use apart (ChunkList_proofs).*)
(* A descriptor belongs to one buffer or one call (FdsApart), so that what *)
(* is unmapped through it is the region that is given back (WindowsAre).   *)
(* The other way round no region in use lacks an owner (Owned); since the  *)
(* regions differ, there are as many of them as owners.  The master is     *)
(* initialised by the holder of the mutex alone (InitialisesOnce), which   *)
(* is why no more than one descriptor can lose its owner (OneLost).        *)
(***************************************************************************)
EXTENDS PmemUserspace, ChunkList_proofs, FiniteSetTheorems

Initialising ==
    {"init_lock", "init_check", "init_open", "init_map", "init_store", "init_unlock"}
HasFd == {"connect", "map", "unmap"}
PCs == {"idle", "allocate", "close"} \cup Initialising \cup HasRegion

CallType == [size : Nat, off : Nat, fd : Nat \cup {NoFd}, err : Int]
Extents == [off : Nat, size : Nat]
Extent(r) == [off |-> r.off, size |-> r.size]

PmemTypes ==
    /\ mHeapSize \in Nat
    /\ pc \in [Threads -> PCs]
    /\ call \in [Threads -> CallType]
    /\ buffers \subseteq [fd : Nat, off : Nat, size : Nat]
    /\ stranded \subseteq Extents
    /\ windows = [f \in DOMAIN windows |-> windows[f]]

ListShape ==
    \/ mHeapSize = 0 /\ mList = <<>>
    \/ mHeapSize # 0 /\ Segment(mList)

Asking == \A t \in Threads : pc[t] \in Initialising \cup {"allocate"} => call[t].size > 0

InRegion(t) == pc[t] \in HasRegion

Backed ==
    /\ \A b \in buffers : Extent(b) \in Used(mList)
    /\ \A t \in Threads : InRegion(t) => Extent(call[t]) \in Used(mList)
    /\ \A s \in stranded : s \in Used(mList)

Apart ==
    /\ \A b, c \in buffers : b # c => b.off # c.off
    /\ \A t, u \in Threads : InRegion(t) /\ InRegion(u) /\ t # u => call[t].off # call[u].off
    /\ \A t \in Threads : InRegion(t) =>
           /\ \A b \in buffers : b.off # call[t].off
           /\ \A s \in stranded : s.off # call[t].off
    /\ \A b \in buffers : \A s \in stranded : b.off # s.off

FdsApart ==
    /\ \A b \in buffers : b.fd \in open
    /\ \A b, c \in buffers : b # c => b.fd # c.fd
    /\ \A t \in Threads :
           /\ call[t].fd = NoFd \/ call[t].fd \in open
           /\ pc[t] \in HasFd => call[t].fd # NoFd
           /\ \A u \in Threads : t # u => call[t].fd # call[u].fd \/ call[t].fd = NoFd
           /\ \A b \in buffers : b.fd # call[t].fd

WindowsAre ==
    /\ \A b \in buffers : b.fd \in DOMAIN windows /\ windows[b.fd] = Extent(b)
    /\ \A t \in Threads : pc[t] = "unmap" =>
           call[t].fd \in DOMAIN windows /\ windows[call[t].fd] = Extent(call[t])
    /\ \A f \in DOMAIN windows :
           \/ \E b \in buffers : b.fd = f
           \/ \E t \in Threads : pc[t] = "unmap" /\ call[t].fd = f

(* The reverse of Backed: no region in use is without an owner.            *)
Owned ==
    \A r \in Used(mList) :
        \/ \E b \in buffers : r = Extent(b)
        \/ \E t \in Threads : InRegion(t) /\ r = Extent(call[t])
        \/ r \in stranded

FewOwners == IsFiniteSet(buffers) /\ IsFiniteSet(stranded)

PInv ==
    /\ PmemTypes
    /\ ListShape
    /\ Asking
    /\ Backed
    /\ Apart
    /\ FdsApart
    /\ WindowsAre
    /\ Owned
    /\ FewOwners
-----------------------------------------------------------------------------
(* open() returns a descriptor that was not open.                          *)
LEMMA LowestIsFree ==
    ASSUME NEW fd, OpenFd(fd)
    PROVE  fd \in Nat /\ fd \notin open /\ open' = open \cup {fd}
<1>1. Free \subseteq Nat /\ Free # {}
    BY DescriptorsAssumption DEF OpenFd, Free
<1>2. \E x \in Free : \A y \in Free : x <= y
    BY <1>1, LeastNat
<1>3. Min(Free) \in Free
    BY <1>2 DEF Min
<1> QED
    BY <1>1, <1>3 DEF OpenFd, Free

(* Regions in use that start at different places share no unit.            *)
LEMMA UsedDisjoint ==
    ASSUME NEW list, Segment(list), NEW r \in Used(list), NEW s \in Used(list), r.off # s.off
    PROVE  Disjoint(r, s)
<1>1. PICK i \in 1..Len(list) : r = Region(list[i])
    BY DEF Used
<1>2. PICK j \in 1..Len(list) : s = Region(list[j])
    BY DEF Used
<1>3. /\ r.off = list[i].start /\ r.size = list[i].size
      /\ s.off = list[j].start /\ s.size = list[j].size
    BY <1>1, <1>2 DEF Region
<1>4. i < j \/ j < i
    BY <1>3, ChunkFields DEF Segment
<1> QED
    BY <1>3, <1>4 DEF Segment, Ordered, End, Disjoint

(* What the suballocator gives out was not in use, nor was any region that *)
(* starts where it does.                                                   *)
LEMMA CarveIsNew ==
    ASSUME NEW list, Segment(list), NEW size \in Nat \ {0}, Fitting(list, size) # {},
           NEW i, i = BestFit(list, size),
           NEW off, off = list[i].start + Extra(list[i].start)
    PROVE  /\ off \in Nat
           /\ Segment(Carve(list, i, size))
           /\ Used(Carve(list, i, size)) = Used(list) \cup {[off |-> off, size |-> size]}
           /\ \A r \in Used(list) : r.off # off
<1>1. i \in 1..Len(list) /\ Fits(list[i], size) /\ list \in Seq(Chunk)
    BY BestFitFits DEF Segment, Fitting
<1>2. list[i].start \in Nat /\ list[i].size \in Nat
    BY <1>1, ChunkFields
<1>3. Extra(list[i].start) \in Nat
    BY <1>2, ExtraBound
<1>4. list[i].free /\ list[i].start <= off /\ off < End(list[i]) /\ off \in Nat
    BY <1>1, <1>2, <1>3 DEF Fits, End
<1>5. ASSUME NEW r \in Used(list), r.off = off PROVE FALSE
    <2>1. PICK j \in 1..Len(list) : ~list[j].free /\ r = Region(list[j])
        BY DEF Used
    <2>2. /\ list[j].start = off /\ j # i
          /\ list[j].start \in Nat /\ list[j].size \in Nat /\ list[j].size > 0
        BY <1>1, <1>4, <1>5, <2>1, ChunkFields DEF Region, Segment, NoneEmpty
    <2>3. /\ i < j => End(list[i]) <= list[j].start
          /\ j < i => End(list[j]) <= list[i].start
        BY <1>1 DEF Segment, Ordered
    <2>4. i < j \/ j < i
        BY <1>1, <2>2, ChunkFields
    <2> QED
        BY <1>2, <1>4, <2>2, <2>3, <2>4 DEF End
<1> QED
    BY <1>1, <1>4, <1>5, CarveSegment

(* A region in use belongs to one chunk, the one dealloc() finds.          *)
LEMMA ReleaseOfRegion ==
    ASSUME NEW list, Segment(list), NEW r \in Used(list), NEW i, i = ChunkAt(list, r.off)
    PROVE  /\ Segment(Release(list, i))
           /\ Used(Release(list, i)) = Used(list) \ {r}
<1>1. PICK j \in 1..Len(list) : ~list[j].free /\ r = Region(list[j])
    BY DEF Used
<1>2. list \in Seq(Chunk) /\ r.off = list[j].start /\ list[j].start \in Nat
    BY <1>1, ChunkFields DEF Region, Segment
<1> DEFINE at == {k \in 1..Len(list) : list[k].start = r.off}
<1>3. j \in at
    BY <1>2
<1>4. i \in at
    BY <1>2, <1>3, ChunkAtUnique
<1>5. i = j
    BY <1>2, <1>4, DistinctRegions
<1> QED
    BY <1>1, <1>5, ReleaseSegment
-----------------------------------------------------------------------------
(* The step of thread t takes it to `to' with locals `c', and moves nobody *)
(* else.                                                                   *)
Goes(t, to, c) ==
    /\ to \in PCs /\ c \in CallType
    /\ pc' \in [Threads -> PCs] /\ call' \in [Threads -> CallType]
    /\ \A u \in Threads : pc'[u] = IF u = t THEN to ELSE pc[u]
    /\ \A u \in Threads : call'[u] = IF u = t THEN c ELSE call[u]

SameHeap == mHeapSize' = mHeapSize /\ mList' = mList
SameOwners == windows' = windows /\ stranded' = stranded /\ buffers' = buffers

(* Steps that take up no region and no descriptor, but may close one.      *)
TakesNothing(t, to, c) ==
    /\ SameHeap /\ SameOwners
    /\ pc[t] # "unmap"
    /\ to \in HasFd => pc[t] = "connect" /\ to = "map" /\ c = call[t]
    /\ \/ open' = open /\ c.fd \in {call[t].fd, NoFd}
       \/ open' = open \ {call[t].fd} /\ c.fd = NoFd
    /\ to \in HasRegion => InRegion(t) /\ Extent(c) = Extent(call[t])
    /\ InRegion(t) => to \in HasRegion
    /\ to \in Initialising \cup {"allocate"} => c.size > 0

(* Whatever such a step does, the invariant survives it.                   *)
LEMMA Onward ==
    ASSUME PInv, NEW t \in Threads, NEW to, NEW c, Goes(t, to, c), TakesNothing(t, to, c)
    PROVE  PInv'
<1> USE DEF PInv, TakesNothing
<1>1. PmemTypes'
    BY DEF Goes, SameHeap, SameOwners, PmemTypes
<1>2. ListShape'
    BY DEF ListShape, SameHeap
<1>3. Asking'
    BY DEF Asking, Goes
<1>4. \A u \in Threads : InRegion(u)' => InRegion(u) /\ Extent(call'[u]) = Extent(call[u])
    BY DEF Goes, InRegion
<1>5. Backed'
    BY <1>4 DEF Backed, SameHeap, SameOwners
<1>6. \A u \in Threads : InRegion(u)' => InRegion(u) /\ call'[u].off = call[u].off
    BY <1>4 DEF Extent
<1>7. Apart'
    BY <1>6 DEF Apart, SameOwners
<1>8. \A u \in Threads : /\ call'[u].fd = call[u].fd \/ call'[u].fd = NoFd
                         /\ pc'[u] \in HasFd => pc[u] \in HasFd /\ call'[u].fd = call[u].fd
                         /\ call'[u].fd # NoFd => call'[u].fd \in open'
    BY DEF Goes, HasFd, FdsApart
<1>9. \A b \in buffers : b.fd \in open'
    BY DEF FdsApart
<1>10. FdsApart'
    <2>1. \A b \in buffers : b.fd # NoFd
        BY DEF PmemTypes, NoFd
    <2> QED
        BY <1>8, <1>9, <2>1 DEF FdsApart, SameOwners
<1>11. \A u \in Threads : /\ pc'[u] = "unmap" => pc[u] = "unmap" /\ call'[u] = call[u]
                          /\ pc[u] = "unmap" => pc'[u] = "unmap" /\ call'[u] = call[u]
    BY DEF Goes, HasFd
<1>12. WindowsAre'
    BY <1>11 DEF WindowsAre, SameOwners
<1>13. \A u \in Threads : InRegion(u) => InRegion(u)' /\ Extent(call'[u]) = Extent(call[u])
    BY DEF Goes, InRegion
<1>14. Owned' /\ FewOwners'
    BY <1>13 DEF Owned, FewOwners, SameHeap, SameOwners
<1> QED
    BY <1>1, <1>2, <1>3, <1>5, <1>7, <1>10, <1>12, <1>14

(* open() succeeds.                                                        *)
LEMMA Opens ==
    ASSUME PInv, NEW t \in Threads, NEW to, NEW c, Goes(t, to, c), NEW fd, OpenFd(fd),
           SameOwners, ListShape', mHeapSize' \in Nat, Used(mList') = Used(mList),
           c.fd = fd, Extent(c) = Extent(call[t]), pc[t] # "unmap", to # "unmap",
           to \in HasRegion <=> InRegion(t),
           to \in Initialising \cup {"allocate"} => c.size > 0
    PROVE  PInv'
<1> USE DEF PInv
<1>0. fd \in Nat /\ fd \notin open /\ open' = open \cup {fd}
    BY LowestIsFree
<1>1. PmemTypes'
    BY DEF Goes, SameOwners, PmemTypes
<1>3. Asking'
    BY DEF Asking, Goes
<1>4. \A u \in Threads : InRegion(u)' => InRegion(u) /\ Extent(call'[u]) = Extent(call[u])
    BY DEF Goes, InRegion
<1>5. Backed'
    BY <1>4 DEF Backed, SameOwners
<1>6. \A u \in Threads : InRegion(u)' => InRegion(u) /\ call'[u].off = call[u].off
    BY <1>4 DEF Extent
<1>7. Apart'
    BY <1>6 DEF Apart, SameOwners
<1>8. \A u \in Threads : IF u = t THEN call'[u].fd = fd
                                   ELSE pc'[u] = pc[u] /\ call'[u].fd = call[u].fd
    BY DEF Goes
<1>9. fd # NoFd
    BY <1>0 DEF NoFd
<1>10. FdsApart'
    BY <1>0, <1>8, <1>9 DEF FdsApart, SameOwners
<1>11. \A u \in Threads : /\ pc'[u] = "unmap" => pc[u] = "unmap" /\ call'[u] = call[u]
                          /\ pc[u] = "unmap" => pc'[u] = "unmap" /\ call'[u] = call[u]
    BY DEF Goes
<1>12. WindowsAre'
    BY <1>11 DEF WindowsAre, SameOwners
<1>13. \A u \in Threads : InRegion(u) => InRegion(u)' /\ Extent(call'[u]) = Extent(call[u])
    BY DEF Goes, InRegion
<1>14. Owned' /\ FewOwners'
    BY <1>13 DEF Owned, FewOwners, SameOwners
<1> QED
    BY <1>1, <1>3, <1>5, <1>7, <1>10, <1>12, <1>14

(* A region that allocate() gives out is nobody else's; it may find none.  *)
LEMMA AllocateStep ==
    ASSUME PInv, NEW t \in Threads, allocate(t) PROVE PInv'
<1> USE DEF PInv
<1> DEFINE size == call[t].size
           i == BestFit(mList, size)
           off == mList[i].start + Extra(mList[i].start)
           c == [call[t] EXCEPT !.off = off]
<1>1. CASE Return(t, "allocate") /\ UNCHANGED mList
    <2>1. Goes(t, "idle", NoCall)
        BY <1>1 DEF Return, Goto, Goes, PmemTypes, PCs, CallType, NoCall, NoFd
    <2>2. /\ SameHeap /\ SameOwners /\ open' = open /\ NoCall.fd = NoFd
          /\ pc[t] # "unmap" /\ ~InRegion(t)
        BY <1>1 DEF allocate, SameHeap, SameOwners, NoCall, Return, Goto, InRegion, HasRegion
    <2>3. "idle" \notin HasFd \cup HasRegion \cup Initialising \cup {"allocate"}
        BY DEF HasFd, HasRegion, Initialising
    <2>4. TakesNothing(t, "idle", NoCall)
        BY <2>1, <2>2, <2>3 DEF TakesNothing
    <2> QED
        BY <2>1, <2>4, Onward
<1>2. CASE /\ Goto(t, "allocate", "open")
           /\ Fitting(mList, size) # {}
           /\ mList' = Carve(mList, i, size)
           /\ call' = [call EXCEPT ![t].off = off]
    <2>1. pc[t] = "allocate" /\ size \in Nat \ {0}
        BY <1>2 DEF Goto, Asking, PmemTypes, CallType
    <2>2. Segment(mList) /\ mHeapSize # 0
        BY <1>2 DEF ListShape, Fitting
    <2>3. /\ off \in Nat
          /\ Segment(mList')
          /\ Used(mList') = Used(mList) \cup {[off |-> off, size |-> size]}
          /\ \A r \in Used(mList) : r.off # off
        BY <1>2, <2>1, <2>2, CarveIsNew
    <2>4. /\ mHeapSize' = mHeapSize /\ SameOwners /\ open' = open
        BY DEF allocate, SameOwners
    <2> HIDE DEF off, i
    <2>5. Goes(t, "open", c)
        BY <1>2, <2>3 DEF Goto, Goes, PmemTypes, PCs, HasRegion, CallType
    <2>6. /\ c.off = off /\ c.size = size /\ c.fd = call[t].fd
          /\ Extent(c) = [off |-> off, size |-> size]
        BY DEF PmemTypes, CallType, Extent
    <2> HIDE DEF c, size
    <2>7. PmemTypes'
        BY <2>4, <2>5 DEF Goes, SameOwners, PmemTypes
    <2>8. ListShape'
        BY <2>2, <2>3, <2>4 DEF ListShape
    <2>9. Asking'
        BY <2>5 DEF Asking, Goes, Initialising
    <2>10. \A u \in Threads :
              IF u = t THEN InRegion(u)' /\ ~InRegion(u) /\ call'[u].off = off
                            /\ Extent(call'[u]) = [off |-> off, size |-> size]
                       ELSE (InRegion(u)' <=> InRegion(u)) /\ call'[u] = call[u]
        BY <2>1, <2>5, <2>6 DEF Goes, InRegion, HasRegion
    <2>11. Backed'
        BY <2>3, <2>4, <2>10 DEF Backed, SameOwners
    <2>12. /\ \A b \in buffers : b.off # off
           /\ \A u \in Threads : InRegion(u) => call[u].off # off
           /\ \A s \in stranded : s.off # off
        BY <2>3 DEF Backed, Extent
    <2>13. Apart'
        BY <2>4, <2>10, <2>12 DEF Apart, SameOwners
    <2>14. \A u \in Threads : /\ call'[u].fd = call[u].fd
                              /\ pc'[u] \in HasFd => pc[u] \in HasFd
                              /\ pc'[u] = "unmap" <=> pc[u] = "unmap"
                              /\ pc[u] = "unmap" => call'[u] = call[u]
        BY <2>1, <2>5, <2>6 DEF Goes, HasFd
    <2>15. FdsApart'
        BY <2>4, <2>14 DEF FdsApart, SameOwners
    <2>16. WindowsAre'
        BY <2>4, <2>14 DEF WindowsAre, SameOwners
    <2>17. Owned' /\ FewOwners'
        BY <2>3, <2>4, <2>10 DEF Owned, FewOwners, SameOwners
    <2> QED
        BY <2>7, <2>8, <2>9, <2>11, <2>13, <2>15, <2>16, <2>17
<1> QED
    BY <1>1, <1>2 DEF allocate

(* A call begins with a size to allocate.                                  *)
LEMMA AllocPmemBufferStep ==
    ASSUME PInv, NEW t \in Threads, alloc_pmem_buffer(t) PROVE PInv'
<1> USE DEF PInv
<1>1. PICK size \in Sizes : call' = [call EXCEPT ![t].size = size]
    BY DEF alloc_pmem_buffer
<1> DEFINE c == [call[t] EXCEPT !.size = size]
<1>2. Goes(t, "init_lock", c)
    BY <1>1, SizesAssumption
    DEF alloc_pmem_buffer, Goto, Goes, PmemTypes, PCs, CallType, Initialising
<1>3. c.fd = call[t].fd /\ c.size > 0
    BY SizesAssumption DEF PmemTypes, CallType
<1>4. SameHeap /\ SameOwners /\ open' = open /\ pc[t] # "unmap" /\ ~InRegion(t)
    BY DEF alloc_pmem_buffer, Goto, SameHeap, SameOwners, heap, InRegion, HasRegion
<1>5. "init_lock" \notin HasFd \cup HasRegion
    BY DEF HasFd, HasRegion
<1>6. TakesNothing(t, "init_lock", c)
    BY <1>2, <1>3, <1>4, <1>5 DEF TakesNothing
<1> QED
    BY <1>2, <1>6, Onward

(* The mutex of the initialisation is taken.                               *)
LEMMA InitLockStep ==
    ASSUME PInv, NEW t \in Threads, initLock(t) PROVE PInv'
<1> USE DEF PInv
<1>1. Goes(t, "init_check", call[t])
    BY DEF initLock, Goto, Goes, PmemTypes, PCs, Initialising
<1>2. SameHeap /\ SameOwners /\ open' = open /\ pc[t] # "unmap" /\ ~InRegion(t) /\ call[t].size > 0
    BY DEF initLock, Goto, SameHeap, SameOwners, heap, Asking, Initialising, InRegion, HasRegion
<1>3. "init_check" \notin HasFd \cup HasRegion
    BY DEF HasFd, HasRegion
<1>4. TakesNothing(t, "init_check", call[t])
    BY <1>1, <1>2, <1>3 DEF TakesNothing
<1> QED
    BY <1>1, <1>4, Onward

(* The master is looked at.                                                *)
LEMMA InitCheckStep ==
    ASSUME PInv, NEW t \in Threads, initCheck(t), master_fd \in Int PROVE PInv'
<1> USE DEF PInv
<1>1. SameHeap /\ SameOwners /\ open' = open /\ pc[t] # "unmap" /\ ~InRegion(t) /\ call[t].size > 0
    BY DEF initCheck, Goto, SameHeap, SameOwners, heap, Asking, Initialising, InRegion, HasRegion
<1>2. CASE Goto(t, "init_check", "init_open") /\ UNCHANGED call
    <2>1. Goes(t, "init_open", call[t])
        BY <1>2 DEF Goto, Goes, PmemTypes, PCs, Initialising
    <2>2. "init_open" \notin HasFd \cup HasRegion
        BY DEF HasFd, HasRegion
    <2>3. TakesNothing(t, "init_open", call[t])
        BY <1>1, <2>1, <2>2 DEF TakesNothing
    <2> QED
        BY <2>1, <2>3, Onward
<1>3. CASE /\ Goto(t, "init_check", "init_unlock")
           /\ call' = [call EXCEPT ![t].err = IF master_fd < 0 THEN master_fd ELSE 0]
    <2> DEFINE c == [call[t] EXCEPT !.err = IF master_fd < 0 THEN master_fd ELSE 0]
    <2>1. Goes(t, "init_unlock", c)
        BY <1>3 DEF Goto, Goes, PmemTypes, PCs, CallType, Initialising
    <2>2. c.fd = call[t].fd /\ c.size = call[t].size
        BY DEF PmemTypes, CallType
    <2>3. "init_unlock" \notin HasFd \cup HasRegion
        BY DEF HasFd, HasRegion
    <2>4. TakesNothing(t, "init_unlock", c)
        BY <1>1, <2>1, <2>2, <2>3 DEF TakesNothing
    <2> QED
        BY <2>1, <2>4, Onward
<1> QED
    BY <1>2, <1>3 DEF initCheck

(* A heap that is not sized yet becomes one free chunk.                    *)
LEMMA SetHeapSizeKeeps ==
    ASSUME ListShape, mHeapSize \in Nat, NEW size \in Nat \ {0}, SetHeapSize(size)
    PROVE  ListShape' /\ mHeapSize' \in Nat /\ Used(mList') = Used(mList)
<1>1. CASE mHeapSize = 0
    <2>1. mList = <<>>
        BY <1>1 DEF ListShape
    <2>2. Extra(size) \in Nat /\ RoundUpToPage(size) \in Nat \ {0}
        BY ExtraBound DEF RoundUpToPage
    <2> DEFINE chunk == NewChunk(0, mHeapSize')
    <2>3. mHeapSize' \in Nat \ {0} /\ mList' = <<chunk>>
        BY <1>1, <2>1, <2>2 DEF SetHeapSize
    <2>4. chunk \in Chunk /\ chunk.free /\ chunk.size > 0
        BY <2>3 DEF NewChunk, Chunk
    <2>5. Segment(<<chunk>>) /\ Used(<<chunk>>) = {}
        BY <2>4, SingletonSegment, SingletonUsed
    <2> QED
        BY <2>1, <2>3, <2>5, EmptyUsed DEF ListShape
<1>2. CASE mHeapSize # 0
    BY <1>2 DEF SetHeapSize, ListShape, heap
<1> QED
    BY <1>1, <1>2

(* The master is opened and the heap gets its size, or open() fails.       *)
LEMMA InitOpenStep ==
    ASSUME PInv, NEW t \in Threads, initOpen(t) PROVE PInv'
<1> USE DEF PInv
<1>1. SameOwners /\ pc[t] # "unmap" /\ ~InRegion(t) /\ call[t].size > 0
    BY DEF initOpen, Goto, SameOwners, Asking, Initialising, InRegion, HasRegion
<1>2. ASSUME NEW fd \in Descriptors, NEW err \in {0} \cup SizeErrors,
             OpenFd(fd), SetHeapSize(IF err < 0 THEN LimpSize ELSE PmemSize),
             Goto(t, "init_open", "init_map"),
             call' = [call EXCEPT ![t].fd = fd, ![t].err = err]
      PROVE  PInv'
    <2> DEFINE c == [call[t] EXCEPT !.fd = fd, !.err = err]
    <2>1. fd \in Nat /\ err \in Int
        BY DescriptorsAssumption, ErrorsAssumption
    <2>2. Goes(t, "init_map", c)
        BY <1>2, <2>1 DEF Goto, Goes, PmemTypes, PCs, CallType, Initialising
    <2>3. c.fd = fd /\ c.size > 0 /\ Extent(c) = Extent(call[t])
        BY <1>1 DEF PmemTypes, CallType, Extent
    <2>4. ListShape' /\ mHeapSize' \in Nat /\ Used(mList') = Used(mList)
        BY <1>2, PmemAssumption, SetHeapSizeKeeps DEF PmemTypes
    <2>5. "init_map" \notin HasRegion /\ "init_map" # "unmap"
        BY DEF HasRegion
    <2> HIDE DEF c
    <2> QED
        BY <1>1, <1>2, <2>2, <2>3, <2>4, <2>5, Opens
<1>3. ASSUME NEW errno \in OpenErrnos, Goto(t, "init_open", "init_store"),
             call' = [call EXCEPT ![t].err = -errno],
             UNCHANGED <<heap, open>>
      PROVE  PInv'
    <2> DEFINE c == [call[t] EXCEPT !.err = -errno]
    <2>1. Goes(t, "init_store", c)
        BY <1>3, ErrorsAssumption DEF Goto, Goes, PmemTypes, PCs, CallType, Initialising
    <2>2. c.fd = call[t].fd /\ c.size > 0
        BY <1>1 DEF PmemTypes, CallType
    <2>3. SameHeap /\ open' = open
        BY <1>3 DEF SameHeap, heap
    <2>4. "init_store" \notin HasFd \cup HasRegion
        BY DEF HasFd, HasRegion
    <2>5. TakesNothing(t, "init_store", c)
        BY <1>1, <2>1, <2>2, <2>3, <2>4 DEF TakesNothing
    <2> QED
        BY <2>1, <2>5, Onward
<1> QED
    BY <1>2, <1>3 DEF initOpen

(* The device is mapped, or its descriptor is closed again.                *)
LEMMA InitMapStep ==
    ASSUME PInv, NEW t \in Threads, initMap(t) PROVE PInv'
<1> USE DEF PInv
<1>1. SameHeap /\ SameOwners /\ pc[t] # "unmap" /\ ~InRegion(t) /\ call[t].size > 0
    BY DEF initMap, Goto, SameHeap, SameOwners, heap, Asking, Initialising, InRegion, HasRegion
<1>2. {"init_store", "init_unlock"} \cap (HasFd \cup HasRegion) = {}
    BY DEF HasFd, HasRegion
<1>3. CASE /\ Goto(t, "init_map", IF call[t].err # 0 THEN "init_store" ELSE "init_unlock")
           /\ call' = [call EXCEPT ![t].fd = NoFd]
           /\ UNCHANGED open
    <2> DEFINE c == [call[t] EXCEPT !.fd = NoFd]
               to == IF call[t].err # 0 THEN "init_store" ELSE "init_unlock"
    <2>1. Goes(t, to, c)
        BY <1>3 DEF Goto, Goes, PmemTypes, PCs, CallType, Initialising, NoFd
    <2>2. c.fd = NoFd /\ c.size > 0 /\ to \notin HasFd \cup HasRegion
        BY <1>1, <1>2 DEF PmemTypes, CallType
    <2> HIDE DEF c, to
    <2>3. TakesNothing(t, to, c)
        BY <1>1, <1>3, <2>1, <2>2 DEF TakesNothing
    <2> QED
        BY <2>1, <2>3, Onward
<1>4. CASE /\ Goto(t, "init_map", "init_store")
           /\ open' = open \ {call[t].fd}
           /\ call' = [call EXCEPT ![t].fd = NoFd, ![t].err = -ENOMEM]
    <2> DEFINE c == [call[t] EXCEPT !.fd = NoFd, !.err = -ENOMEM]
    <2>0. -ENOMEM \in Int /\ NoFd \in Nat \cup {NoFd}
        BY DEF ENOMEM
    <2>1. Goes(t, "init_store", c)
        BY <1>4, <2>0 DEF Goto, Goes, PmemTypes, PCs, CallType, Initialising
    <2>2. c.fd = NoFd /\ c.size > 0
        BY <1>1 DEF PmemTypes, CallType
    <2> HIDE DEF c
    <2>3. TakesNothing(t, "init_store", c)
        BY <1>1, <1>2, <1>4, <2>1, <2>2 DEF TakesNothing
    <2> QED
        BY <2>1, <2>3, Onward
<1> QED
    BY <1>3, <1>4 DEF initMap

(* The error is kept in master_fd.                                         *)
LEMMA InitStoreStep ==
    ASSUME PInv, NEW t \in Threads, initStore(t) PROVE PInv'
<1> USE DEF PInv
<1>1. Goes(t, "init_unlock", call[t])
    BY DEF initStore, Goto, Goes, PmemTypes, PCs, Initialising
<1>2. SameHeap /\ SameOwners /\ open' = open /\ pc[t] # "unmap" /\ ~InRegion(t) /\ call[t].size > 0
    BY DEF initStore, Goto, SameHeap, SameOwners, heap, Asking, Initialising, InRegion, HasRegion
<1>3. "init_unlock" \notin HasFd \cup HasRegion
    BY DEF HasFd, HasRegion
<1>4. TakesNothing(t, "init_unlock", call[t])
    BY <1>1, <1>2, <1>3 DEF TakesNothing
<1> QED
    BY <1>1, <1>4, Onward

(* The mutex is given back and the call goes on, or returns.               *)
LEMMA InitUnlockStep ==
    ASSUME PInv, NEW t \in Threads, initUnlock(t) PROVE PInv'
<1> USE DEF PInv
<1>1. SameHeap /\ SameOwners /\ open' = open /\ pc[t] # "unmap" /\ ~InRegion(t) /\ call[t].size > 0
    BY DEF initUnlock, Return, Goto, SameHeap, SameOwners, heap, Asking, Initialising, InRegion,
        HasRegion
<1>2. CASE Goto(t, "init_unlock", "allocate") /\ UNCHANGED call
    <2>1. Goes(t, "allocate", call[t])
        BY <1>2 DEF Goto, Goes, PmemTypes, PCs
    <2>2. "allocate" \notin HasFd \cup HasRegion
        BY DEF HasFd, HasRegion
    <2>3. TakesNothing(t, "allocate", call[t])
        BY <1>1, <2>1, <2>2 DEF TakesNothing
    <2> QED
        BY <2>1, <2>3, Onward
<1>3. CASE Return(t, "init_unlock")
    <2>1. Goes(t, "idle", NoCall) /\ NoCall.fd = NoFd
        BY <1>3 DEF Return, Goto, Goes, PmemTypes, PCs, CallType, NoCall, NoFd
    <2>2. "idle" \notin HasFd \cup HasRegion \cup Initialising \cup {"allocate"}
        BY DEF HasFd, HasRegion, Initialising
    <2>3. TakesNothing(t, "idle", NoCall)
        BY <1>1, <2>1, <2>2 DEF TakesNothing
    <2> QED
        BY <2>1, <2>3, Onward
<1> QED
    BY <1>2, <1>3 DEF initUnlock

(* The descriptor of the sub-heap is opened, or open() fails.              *)
LEMMA OpenSubStep ==
    ASSUME PInv, NEW t \in Threads, openSub(t) PROVE PInv'
<1> USE DEF PInv
<1>1. SameHeap /\ SameOwners /\ pc[t] # "unmap" /\ InRegion(t)
    BY DEF openSub, Goto, SameHeap, SameOwners, heap, InRegion, HasRegion
<1>2. ASSUME NEW fd \in Descriptors, OpenFd(fd), Goto(t, "open", "connect"),
             call' = [call EXCEPT ![t].fd = fd]
      PROVE  PInv'
    <2> DEFINE c == [call[t] EXCEPT !.fd = fd]
    <2>1. Goes(t, "connect", c)
        BY <1>2, DescriptorsAssumption DEF Goto, Goes, PmemTypes, PCs, CallType, HasRegion
    <2>2. c.fd = fd /\ Extent(c) = Extent(call[t])
        BY DEF PmemTypes, CallType, Extent
    <2>3. /\ "connect" \notin Initialising \cup {"allocate"} /\ "connect" # "unmap"
          /\ "connect" \in HasRegion
        BY DEF Initialising, HasRegion
    <2>4. ListShape' /\ mHeapSize' \in Nat /\ Used(mList') = Used(mList)
        BY <1>1 DEF SameHeap, ListShape, PmemTypes
    <2> HIDE DEF c
    <2> QED
        BY <1>1, <1>2, <2>1, <2>2, <2>3, <2>4, Opens
<1>3. CASE Goto(t, "open", "undo_close") /\ UNCHANGED <<open, call>>
    <2>1. Goes(t, "undo_close", call[t])
        BY <1>3 DEF Goto, Goes, PmemTypes, PCs, HasRegion
    <2>2. "undo_close" \in HasRegion \ (HasFd \cup Initialising \cup {"allocate"})
        BY DEF HasFd, Initialising, HasRegion
    <2>3. TakesNothing(t, "undo_close", call[t])
        BY <1>1, <1>3, <2>1, <2>2 DEF TakesNothing
    <2> QED
        BY <2>1, <2>3, Onward
<1> QED
    BY <1>2, <1>3 DEF openSub

(* PMEM_CONNECT changes nothing this is about.                             *)
LEMMA ConnectPmemStep ==
    ASSUME PInv, NEW t \in Threads, connectPmem(t) PROVE PInv'
<1> USE DEF PInv
<1>1. /\ SameHeap /\ SameOwners /\ open' = open /\ InRegion(t) /\ pc[t] = "connect"
    BY DEF connectPmem, Goto, SameHeap, SameOwners, heap, InRegion, HasRegion
<1>2. PICK to \in {"map", "undo_close"} : Goes(t, to, call[t])
    BY DEF connectPmem, Goto, Goes, PmemTypes, PCs, HasRegion
<1>3. to \in HasRegion \ (Initialising \cup {"allocate"}) /\ (to \notin HasFd \/ to = "map")
    BY DEF Initialising, HasFd, HasRegion
<1>4. TakesNothing(t, to, call[t])
    BY <1>1, <1>2, <1>3 DEF TakesNothing
<1> QED
    BY <1>2, <1>4, Onward

(* The failed call closes its descriptor.                                  *)
LEMMA UndoCloseStep ==
    ASSUME PInv, NEW t \in Threads, undoClose(t) PROVE PInv'
<1> USE DEF PInv
<1> DEFINE c == [call[t] EXCEPT !.fd = NoFd]
<1>1. SameHeap /\ SameOwners /\ pc[t] # "unmap" /\ InRegion(t) /\ open' = open \ {call[t].fd}
    BY DEF undoClose, Goto, SameHeap, SameOwners, heap, InRegion, HasRegion
<1>2. Goes(t, "undo", c)
    BY DEF undoClose, Goto, Goes, PmemTypes, PCs, CallType, HasRegion, NoFd
<1>3. c.fd = NoFd /\ Extent(c) = Extent(call[t])
    BY DEF PmemTypes, CallType, Extent
<1>4. "undo" \in HasRegion \ (HasFd \cup Initialising \cup {"allocate"})
    BY DEF HasFd, Initialising, HasRegion
<1> HIDE DEF c
<1>5. TakesNothing(t, "undo", c)
    BY <1>1, <1>2, <1>3, <1>4 DEF TakesNothing
<1> QED
    BY <1>2, <1>5, Onward

(* The descriptor of a buffer given back is closed.                        *)
LEMMA CloseBufferStep ==
    ASSUME PInv, NEW t \in Threads, closeBuffer(t) PROVE PInv'
<1> USE DEF PInv
<1>1. SameHeap /\ SameOwners /\ pc[t] # "unmap" /\ ~InRegion(t) /\ open' = open \ {call[t].fd}
    BY DEF closeBuffer, Return, Goto, SameHeap, SameOwners, heap, InRegion, HasRegion
<1>2. Goes(t, "idle", NoCall) /\ NoCall.fd = NoFd
    BY DEF closeBuffer, Return, Goto, Goes, PmemTypes, PCs, CallType, NoCall, NoFd
<1>3. "idle" \notin HasFd \cup HasRegion \cup Initialising \cup {"allocate"}
    BY DEF HasFd, HasRegion, Initialising
<1>4. TakesNothing(t, "idle", NoCall)
    BY <1>1, <1>2, <1>3 DEF TakesNothing
<1> QED
    BY <1>2, <1>4, Onward

(* The call that gives a region back is its only owner.                    *)
LEMMA GivesBack ==
    ASSUME PInv, NEW t \in Threads, NEW to, NEW c, Goes(t, to, c), deallocate(t), SameOwners,
           open' = open, pc[t] \in {"undo", "dealloc"}, to \in {"idle", "close"},
           c.fd \in {call[t].fd, NoFd}
    PROVE  PInv'
<1> USE DEF PInv
<1> DEFINE r == Extent(call[t])
<1>1. r \in Used(mList) /\ r.off = call[t].off /\ r.size = call[t].size
    BY DEF Backed, InRegion, HasRegion, Extent
<1>2. mHeapSize # 0 /\ Segment(mList)
    BY <1>1, EmptyUsed DEF ListShape
<1>3. Segment(mList') /\ Used(mList') = Used(mList) \ {r} /\ mHeapSize' = mHeapSize
    BY <1>1, <1>2, ReleaseOfRegion DEF deallocate
<1> HIDE DEF r
<1>4. to \notin HasFd \cup HasRegion \cup Initialising \cup {"allocate", "unmap"}
    BY DEF HasFd, HasRegion, Initialising
<1>5. PmemTypes'
    BY <1>3 DEF Goes, SameOwners, PmemTypes
<1>6. ListShape'
    BY <1>2, <1>3 DEF ListShape
<1>7. Asking'
    BY <1>4 DEF Asking, Goes
<1>8. \A u \in Threads : InRegion(u)' => u # t /\ InRegion(u) /\ call'[u] = call[u]
    BY <1>4 DEF Goes, InRegion
<1>9. InRegion(t)
    BY DEF InRegion, HasRegion
<1>10. /\ \A b \in buffers : Extent(b) # r
       /\ \A u \in Threads : u # t /\ InRegion(u) => Extent(call[u]) # r
       /\ \A s \in stranded : s # r
    BY <1>1, <1>9 DEF Apart, Extent
<1>11. Backed'
    BY <1>3, <1>8, <1>10 DEF Backed, SameOwners
<1>12. Apart'
    BY <1>8 DEF Apart, SameOwners
<1>13. \A u \in Threads : /\ call'[u].fd = call[u].fd \/ call'[u].fd = NoFd
                          /\ pc'[u] \in HasFd => pc[u] \in HasFd /\ call'[u].fd = call[u].fd
    BY <1>4 DEF Goes
<1>14. \A b \in buffers : b.fd # NoFd
    BY DEF PmemTypes, NoFd
<1>15. FdsApart'
    BY <1>13, <1>14 DEF FdsApart, SameOwners
<1>16. \A u \in Threads : /\ pc'[u] = "unmap" => pc[u] = "unmap" /\ call'[u] = call[u]
                          /\ pc[u] = "unmap" => pc'[u] = "unmap" /\ call'[u] = call[u]
    BY <1>4 DEF Goes
<1>17. WindowsAre'
    BY <1>16 DEF WindowsAre, SameOwners
<1>18. \A u \in Threads : u # t /\ InRegion(u) => InRegion(u)' /\ call'[u] = call[u]
    BY DEF Goes, InRegion
<1>19. Owned' /\ FewOwners'
    BY <1>3, <1>18 DEF Owned, FewOwners, SameOwners, r
<1> QED
    BY <1>5, <1>6, <1>7, <1>11, <1>12, <1>15, <1>17, <1>19

(* The failed call gives its region back.                                  *)
LEMMA UndoStep ==
    ASSUME PInv, NEW t \in Threads, undo(t) PROVE PInv'
<1> USE DEF PInv
<1>1. Goes(t, "idle", NoCall) /\ NoCall.fd = NoFd
    BY DEF undo, Return, Goto, Goes, PmemTypes, PCs, CallType, NoCall, NoFd
<1>2. /\ deallocate(t) /\ SameOwners /\ open' = open
      /\ pc[t] \in {"undo", "dealloc"}
    BY DEF undo, Return, Goto, SameOwners
<1> QED
    BY <1>1, <1>2, GivesBack

(* The region of an unmapped buffer is given back.                         *)
LEMMA FreeRegionStep ==
    ASSUME PInv, NEW t \in Threads, freeRegion(t) PROVE PInv'
<1> USE DEF PInv
<1>1. Goes(t, "close", call[t])
    BY DEF freeRegion, Goto, Goes, PmemTypes, PCs
<1>2. /\ deallocate(t) /\ SameOwners /\ open' = open
      /\ pc[t] \in {"undo", "dealloc"}
    BY DEF freeRegion, Goto, SameOwners
<1> QED
    BY <1>1, <1>2, GivesBack

(* The call hands its region and its descriptor over to a buffer.          *)
LEMMA MapPmemStep ==
    ASSUME PInv, NEW t \in Threads, mapPmem(t) PROVE PInv'
<1> USE DEF PInv
<1> DEFINE c == call[t]
           b0 == [fd |-> c.fd, off |-> c.off, size |-> c.size]
<1>1. SameHeap /\ stranded' = stranded /\ open' = open /\ pc[t] = "map"
    BY DEF mapPmem, Return, Goto, SameHeap, heap
<1>2. CASE Goto(t, "map", "undo_close") /\ UNCHANGED <<windows, buffers, call>>
    <2>1. Goes(t, "undo_close", call[t])
        BY <1>2 DEF Goto, Goes, PmemTypes, PCs, HasRegion
    <2>2. "undo_close" \in HasRegion \ (HasFd \cup Initialising \cup {"allocate"}) /\ InRegion(t)
        BY <1>1 DEF HasFd, Initialising, InRegion, HasRegion
    <2>3. TakesNothing(t, "undo_close", call[t])
        BY <1>1, <1>2, <2>2 DEF TakesNothing, SameOwners
    <2> QED
        BY <2>1, <2>3, Onward
<1>3. CASE /\ Return(t, "map")
           /\ windows' = [fd \in DOMAIN windows \cup {c.fd} |->
                             IF fd = c.fd THEN [off |-> c.off, size |-> c.size]
                                          ELSE windows[fd]]
           /\ buffers' = buffers \cup {b0}
    <2>1. Goes(t, "idle", NoCall) /\ NoCall.fd = NoFd
        BY <1>3 DEF Return, Goto, Goes, PmemTypes, PCs, CallType, NoCall, NoFd
    <2>2. "idle" \notin HasFd \cup HasRegion \cup Initialising \cup {"allocate", "unmap"}
        BY DEF HasFd, HasRegion, Initialising
    <2>3. /\ InRegion(t) /\ c.fd # NoFd /\ c.fd \in Nat /\ c.off \in Nat /\ c.size \in Nat
          /\ c.fd \in open
        BY <1>1 DEF InRegion, HasRegion, HasFd, FdsApart, PmemTypes, CallType
    <2>4. b0.fd = c.fd /\ b0.off = c.off /\ Extent(b0) = Extent(c)
          /\ Extent(c) = [off |-> c.off, size |-> c.size]
        BY DEF Extent
    <2>5. b0 \in [fd : Nat, off : Nat, size : Nat]
        BY <2>3
    <2> HIDE DEF b0, c
    <2>6. PmemTypes'
        <3>1. buffers' \subseteq [fd : Nat, off : Nat, size : Nat]
            BY <1>3, <2>5 DEF PmemTypes
        <3>2. windows' = [f \in DOMAIN windows' |-> windows'[f]]
            BY <1>3
        <3> QED
            BY <1>1, <2>1, <3>1, <3>2 DEF Goes, SameHeap, PmemTypes
    <2>7. ListShape'
        BY <1>1 DEF ListShape, SameHeap
    <2>8. Asking'
        BY <2>1, <2>2 DEF Asking, Goes
    <2>9. \A u \in Threads : /\ InRegion(u)' => u # t /\ InRegion(u) /\ call'[u] = call[u]
                             /\ u # t => pc'[u] = pc[u] /\ call'[u] = call[u]
                             /\ u = t => pc'[u] = "idle" /\ call'[u].fd = NoFd
        BY <2>1, <2>2 DEF Goes, InRegion
    <2>10. Extent(b0) \in Used(mList)
        BY <2>3, <2>4 DEF Backed, c
    <2>11. Backed'
        BY <1>1, <1>3, <2>9, <2>10 DEF Backed, SameHeap
    <2>12. /\ \A b \in buffers : b.off # b0.off
           /\ \A s \in stranded : s.off # b0.off
           /\ \A u \in Threads : u # t /\ InRegion(u) => call[u].off # b0.off
        BY <2>3, <2>4 DEF Apart, c
    <2>13. Apart'
        BY <1>1, <1>3, <2>9, <2>12 DEF Apart
    <2>14. /\ \A b \in buffers : b.fd # c.fd /\ b.fd # NoFd
           /\ \A u \in Threads : u # t => call[u].fd # c.fd
        BY <2>3 DEF FdsApart, PmemTypes, NoFd, c
    <2>15. FdsApart'
        BY <1>1, <1>3, <2>2, <2>3, <2>4, <2>9, <2>14 DEF FdsApart
    <2>16. \A f \in DOMAIN windows' : f \in DOMAIN windows \/ f = c.fd
        BY <1>3
    <2>17. /\ windows'[c.fd] = Extent(c) /\ c.fd \in DOMAIN windows'
           /\ \A f \in DOMAIN windows : /\ f \in DOMAIN windows'
                                        /\ f # c.fd => windows'[f] = windows[f]
        BY <1>3, <2>4
    <2>18. \A b \in buffers' : b.fd \in DOMAIN windows' /\ windows'[b.fd] = Extent(b)
        BY <1>3, <2>4, <2>14, <2>17 DEF WindowsAre
    <2>19. \A u \in Threads : /\ pc'[u] = "unmap" => /\ pc[u] = "unmap" /\ u # t
                                                     /\ call'[u] = call[u]
                              /\ pc[u] = "unmap" => pc'[u] = "unmap" /\ call'[u] = call[u]
        BY <1>1, <2>9
    <2>20. \A u \in Threads : pc'[u] = "unmap" =>
              call'[u].fd \in DOMAIN windows' /\ windows'[call'[u].fd] = Extent(call'[u])
        BY <2>14, <2>17, <2>19 DEF WindowsAre
    <2>21. \A f \in DOMAIN windows' : \/ \E b \in buffers' : b.fd = f
                                      \/ \E u \in Threads : pc'[u] = "unmap" /\ call'[u].fd = f
        BY <1>3, <2>4, <2>16, <2>19 DEF WindowsAre
    <2>22. WindowsAre'
        BY <2>18, <2>20, <2>21 DEF WindowsAre
    <2>23. \A u \in Threads : u # t /\ InRegion(u) => InRegion(u)' /\ call'[u] = call[u]
        BY <2>1 DEF Goes, InRegion
    <2>24. Owned'
        BY <1>1, <1>3, <2>4, <2>23 DEF Owned, SameHeap, c
    <2>25. FewOwners'
        BY <1>1, <1>3, FS_AddElement DEF FewOwners
    <2> QED
        BY <2>6, <2>7, <2>8, <2>11, <2>13, <2>15, <2>22, <2>24, <2>25
<1> QED
    BY <1>2, <1>3 DEF mapPmem

(* A buffer hands its region and its descriptor over to the call.          *)
LEMMA FreePmemBufferStep ==
    ASSUME PInv, NEW t \in Threads, free_pmem_buffer(t) PROVE PInv'
<1> USE DEF PInv
<1>1. PICK b0 \in buffers :
        /\ buffers' = buffers \ {b0}
        /\ call' = [call EXCEPT ![t] = [fd |-> b0.fd, off |-> b0.off, size |-> b0.size, err |-> 0]]
    BY DEF free_pmem_buffer
<1> DEFINE c == [fd |-> b0.fd, off |-> b0.off, size |-> b0.size, err |-> 0]
<1>2. /\ SameHeap /\ windows' = windows /\ stranded' = stranded /\ open' = open
      /\ pc[t] = "idle"
    BY DEF free_pmem_buffer, Goto, SameHeap, heap
<1>3. b0.fd \in Nat /\ b0.off \in Nat /\ b0.size \in Nat
    BY DEF PmemTypes
<1>4. c \in CallType /\ c.fd = b0.fd /\ c.off = b0.off /\ Extent(c) = Extent(b0)
    BY <1>3 DEF CallType, Extent
<1>5. call' = [call EXCEPT ![t] = c]
    BY <1>1
<1> HIDE DEF c
<1>6. Goes(t, "unmap", c)
    BY <1>4, <1>5 DEF free_pmem_buffer, Goto, Goes, PmemTypes, PCs, HasRegion
<1>7. PmemTypes'
    BY <1>1, <1>2, <1>6 DEF Goes, SameHeap, PmemTypes
<1>8. ListShape'
    BY <1>2 DEF ListShape, SameHeap
<1>9. Asking'
    BY <1>6 DEF Asking, Goes, Initialising
<1>10. \A u \in Threads :
          IF u = t THEN /\ InRegion(u)' /\ ~InRegion(u) /\ pc'[u] = "unmap" /\ pc[u] = "idle"
                        /\ call'[u] = c
                   ELSE (InRegion(u)' <=> InRegion(u)) /\ pc'[u] = pc[u] /\ call'[u] = call[u]
    BY <1>2, <1>6 DEF Goes, InRegion, HasRegion
<1>11. Backed'
    BY <1>1, <1>2, <1>4, <1>10 DEF Backed, SameHeap
<1>12. /\ \A b \in buffers' : b.off # b0.off
       /\ \A u \in Threads : InRegion(u) => call[u].off # b0.off
       /\ \A s \in stranded : s.off # b0.off
    BY <1>1 DEF Apart
<1>13. Apart'
    BY <1>1, <1>2, <1>4, <1>10, <1>12 DEF Apart
<1>14. /\ b0.fd \in open /\ b0.fd # NoFd
       /\ \A b \in buffers' : b.fd # b0.fd
       /\ \A u \in Threads : call[u].fd # b0.fd
    BY <1>1, <1>3 DEF FdsApart, NoFd
<1>15. FdsApart'
    BY <1>1, <1>2, <1>4, <1>10, <1>14 DEF FdsApart, HasFd
<1>16. b0.fd \in DOMAIN windows /\ windows[b0.fd] = Extent(b0)
    BY DEF WindowsAre
<1>17. \A f \in DOMAIN windows' : \/ \E b \in buffers' : b.fd = f
                                  \/ \E u \in Threads : pc'[u] = "unmap" /\ call'[u].fd = f
    BY <1>1, <1>2, <1>4, <1>10 DEF WindowsAre
<1>18. WindowsAre'
    BY <1>1, <1>2, <1>4, <1>10, <1>16, <1>17 DEF WindowsAre
<1>19. Owned'
    BY <1>1, <1>2, <1>4, <1>10 DEF Owned, SameHeap
<1>20. FewOwners'
    BY <1>1, <1>2, FS_RemoveElement DEF FewOwners
<1> QED
    BY <1>7, <1>8, <1>9, <1>11, <1>13, <1>15, <1>18, <1>19, <1>20

(* Only the window of the call's own descriptor goes, which is its region. *)
LEMMA UnmapPmemStep ==
    ASSUME PInv, NEW t \in Threads, unmapPmem(t) PROVE PInv'
<1> USE DEF PInv
<1> DEFINE c == call[t]
<1>1. /\ SameHeap /\ open' = open /\ buffers' = buffers /\ call' = call /\ pc[t] = "unmap"
      /\ windows' = [f \in DOMAIN windows \ {c.fd} |-> windows[f]]
    BY DEF unmapPmem, Goto, SameHeap, heap
<1>2. PICK to \in {"dealloc", "close"} :
        /\ Goes(t, to, c)
        /\ to = "dealloc" => stranded' = stranded
        /\ to = "close" => stranded' = stranded \cup {windows[c.fd]}
    BY DEF unmapPmem, Goto, Goes, PmemTypes, PCs, HasRegion
<1>3. windows[c.fd] = Extent(c) /\ c.fd \in DOMAIN windows /\ InRegion(t)
    BY <1>1 DEF WindowsAre, InRegion, HasRegion
<1>4. Extent(c) \in Extents /\ Extent(c).off = c.off
    BY DEF PmemTypes, CallType, Extents, Extent
<1>5. stranded' \subseteq stranded \cup {Extent(c)}
    BY <1>2, <1>3
<1> HIDE DEF c
<1>6. PmemTypes'
    <2>1. windows' = [f \in DOMAIN windows' |-> windows'[f]]
        BY <1>1
    <2> QED
        BY <1>1, <1>2, <1>4, <1>5, <2>1 DEF Goes, SameHeap, PmemTypes
<1>7. ListShape'
    BY <1>1 DEF ListShape, SameHeap
<1>8. to \notin Initialising \cup {"allocate", "unmap"} \cup HasFd
    BY DEF Initialising, HasFd
<1>9. Asking'
    BY <1>2, <1>8 DEF Asking, Goes
<1>10. \A u \in Threads : /\ InRegion(u)' => InRegion(u) /\ (u = t => to = "dealloc")
                          /\ call'[u] = call[u]
    BY <1>1, <1>2, <1>3 DEF Goes, InRegion, HasRegion
<1>11. Extent(c) \in Used(mList)
    BY <1>3 DEF Backed, c
<1>12. Backed'
    BY <1>1, <1>5, <1>10, <1>11 DEF Backed, SameHeap
<1>13. /\ \A b \in buffers : b.off # c.off
       /\ \A u \in Threads : u # t /\ InRegion(u) => call[u].off # c.off
    BY <1>3 DEF Apart, c
<1>14. \A u \in Threads : InRegion(u)' => \A s \in stranded' : s.off # call[u].off
    BY <1>2, <1>3, <1>4, <1>5, <1>10, <1>13 DEF Apart
<1>15. \A b \in buffers : \A s \in stranded' : b.off # s.off
    BY <1>4, <1>5, <1>13 DEF Apart
<1>16. Apart'
    BY <1>1, <1>10, <1>14, <1>15 DEF Apart
<1>17. \A u \in Threads : /\ pc'[u] \in HasFd => pc[u] \in HasFd
                          /\ pc'[u] = "unmap" => pc[u] = "unmap" /\ u # t
                          /\ pc[u] = "unmap" /\ u # t => pc'[u] = "unmap"
    BY <1>2, <1>8 DEF Goes
<1>18. FdsApart'
    BY <1>1, <1>17 DEF FdsApart
<1>19. /\ \A b \in buffers : b.fd # c.fd
       /\ \A u \in Threads : u # t /\ pc[u] = "unmap" => call[u].fd # c.fd
    BY <1>1 DEF FdsApart, HasFd, c
<1>20. /\ \A b \in buffers' : b.fd \in DOMAIN windows' /\ windows'[b.fd] = Extent(b)
       /\ \A u \in Threads : pc'[u] = "unmap" =>
             call'[u].fd \in DOMAIN windows' /\ windows'[call'[u].fd] = Extent(call'[u])
    BY <1>1, <1>17, <1>19 DEF WindowsAre
<1>21. \A f \in DOMAIN windows' : f \in DOMAIN windows /\ f # c.fd
    BY <1>1
<1>22. \A f \in DOMAIN windows' : \/ \E b \in buffers' : b.fd = f
                                  \/ \E u \in Threads : pc'[u] = "unmap" /\ call'[u].fd = f
    BY <1>1, <1>17, <1>21 DEF WindowsAre, c
<1>23. WindowsAre'
    BY <1>20, <1>22 DEF WindowsAre
<1>24. \A u \in Threads : InRegion(u) => \/ InRegion(u)' /\ call'[u] = call[u]
                                         \/ u = t /\ to = "close"
    BY <1>1, <1>2 DEF Goes, InRegion, HasRegion
<1>25. to = "close" => Extent(c) \in stranded'
    BY <1>2, <1>3
<1>26. Owned'
    BY <1>1, <1>2, <1>24, <1>25 DEF Owned, SameHeap, c
<1>27. FewOwners'
    BY <1>1, <1>2, FS_AddElement DEF FewOwners
<1> QED
    BY <1>6, <1>7, <1>9, <1>12, <1>16, <1>18, <1>23, <1>26, <1>27
-----------------------------------------------------------------------------
IInv == PInv /\ master_fd \in Int

(* master_fd is a number in every state.                                   *)
LEMMA MasterIsInt ==
    ASSUME IInv, NEW t \in Threads,
           alloc_pmem_buffer(t) \/ free_pmem_buffer(t) \/ InCall(t)
    PROVE  master_fd' \in Int
<1>1. master_fd \in Int /\ \A u \in Threads : call[u].fd \in Int /\ call[u].err \in Int
    BY DEF IInv, PInv, PmemTypes, CallType, NoFd
<1> QED
    BY <1>1 DEF alloc_pmem_buffer, free_pmem_buffer, InCall, initLock, initCheck, initOpen,
        initMap, initStore, initUnlock, allocate, openSub, connectPmem, mapPmem, undoClose,
        undo, unmapPmem, freeRegion, closeBuffer, master

(* At the start there is no heap and nobody is in a call.                  *)
LEMMA InitIInv == Init => IInv
<1> SUFFICES ASSUME Init PROVE IInv
    OBVIOUS
<1> USE DEF Init
<1>1. master_fd \in Int
    BY DEF MASTER_FD_INIT
<1>2. NoCall \in CallType /\ NoCall.fd = NoFd
    BY DEF NoCall, CallType, NoFd
<1>3. pc \in [Threads -> PCs]
    BY DEF PCs
<1>4. call \in [Threads -> CallType] /\ \A t \in Threads : call[t].fd = NoFd
    BY <1>2
<1>5. windows = [f \in DOMAIN windows |-> windows[f]] /\ DOMAIN windows = {}
    OBVIOUS
<1>6. PmemTypes
    BY <1>3, <1>4, <1>5 DEF PmemTypes
<1>7. ListShape
    BY DEF ListShape
<1>8. "idle" \notin HasFd \cup HasRegion \cup Initialising \cup {"allocate", "unmap"}
    BY DEF HasFd, HasRegion, Initialising
<1>9. Asking /\ Backed /\ Apart
    BY <1>8 DEF Asking, Backed, Apart, InRegion
<1>10. FdsApart
    BY <1>4, <1>8 DEF FdsApart
<1>11. WindowsAre
    BY <1>5, <1>8 DEF WindowsAre
<1>12. Owned /\ FewOwners
    BY EmptyUsed, FS_EmptySet DEF Owned, FewOwners
<1> QED
    BY <1>1, <1>6, <1>7, <1>9, <1>10, <1>11, <1>12 DEF IInv, PInv

(* The state is changed by the steps of the calls only.                    *)
LEMMA StutterIInv ==
    ASSUME IInv, UNCHANGED vars PROVE IInv'
<1>1. /\ SameHeap /\ SameOwners /\ open' = open /\ pc' = pc /\ call' = call
      /\ master_fd' = master_fd
    BY DEF vars, master, heap, SameHeap, SameOwners
<1>2. (PmemTypes /\ ListShape /\ Asking)'
    BY <1>1 DEF IInv, PInv, PmemTypes, ListShape, Asking, SameHeap, SameOwners
<1>3. (Backed /\ Apart)'
    BY <1>1 DEF IInv, PInv, Backed, Apart, InRegion, SameHeap, SameOwners
<1>4. (FdsApart /\ WindowsAre)'
    BY <1>1 DEF IInv, PInv, FdsApart, WindowsAre, SameHeap, SameOwners
<1>5. (Owned /\ FewOwners)'
    BY <1>1 DEF IInv, PInv, Owned, FewOwners, InRegion, SameHeap, SameOwners
<1> QED
    BY <1>1, <1>2, <1>3, <1>4, <1>5 DEF IInv, PInv

(* Every step keeps the invariant.                                         *)
LEMMA NextIInv == IInv /\ [Next]_vars => IInv'
<1> SUFFICES ASSUME IInv, [Next]_vars PROVE IInv'
    OBVIOUS
<1>1. CASE UNCHANGED vars
    BY <1>1, StutterIInv
<1>2. ASSUME NEW t \in Threads, alloc_pmem_buffer(t) \/ free_pmem_buffer(t) \/ InCall(t)
      PROVE  IInv'
    <2>1. master_fd' \in Int
        BY <1>2, MasterIsInt
    <2>2. PInv /\ master_fd \in Int
        BY DEF IInv
    <2>3. PInv'
        BY <1>2, <2>2, AllocPmemBufferStep, FreePmemBufferStep, InitLockStep, InitCheckStep,
           InitOpenStep, InitMapStep, InitStoreStep, InitUnlockStep, AllocateStep,
           OpenSubStep, ConnectPmemStep, MapPmemStep, UndoCloseStep, UndoStep,
           UnmapPmemStep, FreeRegionStep, CloseBufferStep
        DEF InCall
    <2> QED
        BY <2>1, <2>3 DEF IInv
<1> QED
    BY <1>1, <1>2 DEF Next

(* Two windows belong to two owners, whose regions are in use and apart.   *)
LEMMA IInvApart == IInv => WindowsDisjoint
<1> SUFFICES ASSUME IInv PROVE WindowsDisjoint
    OBVIOUS
<1>0. Backed /\ Apart /\ WindowsAre /\ ListShape
    BY DEF IInv, PInv
<1> DEFINE Owner(f, off) ==
        \/ \E b \in buffers : b.fd = f /\ windows[f] = Extent(b) /\ b.off = off
        \/ \E t \in Threads : /\ pc[t] = "unmap" /\ InRegion(t) /\ call[t].fd = f
                              /\ windows[f] = Extent(call[t]) /\ call[t].off = off
<1>1. ASSUME NEW f \in DOMAIN windows PROVE Owner(f, windows[f].off)
    <2>1. CASE \E b \in buffers : b.fd = f
        <3>1. PICK b \in buffers : b.fd = f
            BY <2>1
        <3>2. windows[f] = Extent(b)
            BY <1>0, <3>1 DEF WindowsAre
        <3>3. windows[f].off = b.off
            BY <3>2 DEF Extent
        <3> QED
            BY <3>1, <3>2, <3>3
    <2>2. CASE \E t \in Threads : pc[t] = "unmap" /\ call[t].fd = f
        <3>1. PICK t \in Threads : pc[t] = "unmap" /\ call[t].fd = f
            BY <2>2
        <3>2. windows[f] = Extent(call[t]) /\ InRegion(t)
            BY <1>0, <3>1 DEF WindowsAre, InRegion, HasRegion
        <3>3. windows[f].off = call[t].off
            BY <3>2 DEF Extent
        <3> QED
            BY <3>1, <3>2, <3>3
    <2> QED
        BY <1>0, <2>1, <2>2 DEF WindowsAre
<1>2. \A f \in DOMAIN windows : windows[f] \in Used(mList)
    BY <1>0, <1>1 DEF Backed
<1>3. \A f, g \in DOMAIN windows : f # g => windows[f].off # windows[g].off
    BY <1>0, <1>1 DEF Apart
<1>4. \A f \in DOMAIN windows : \A s \in stranded : windows[f].off # s.off
    BY <1>0, <1>1 DEF Apart
<1>5. \A s \in stranded : s \in Used(mList)
    BY <1>0 DEF Backed
<1>6. Used(mList) # {} => Segment(mList)
    BY <1>0, EmptyUsed DEF ListShape
<1>7. \A f, g \in DOMAIN windows : f # g => Disjoint(windows[f], windows[g])
    BY <1>2, <1>3, <1>6, UsedDisjoint
<1>8. \A f \in DOMAIN windows : \A s \in stranded : Disjoint(windows[f], s)
    BY <1>2, <1>4, <1>5, <1>6, UsedDisjoint
<1> QED
    BY <1>7, <1>8 DEF WindowsDisjoint

(* Things that differ are as many as the regions they differ in.           *)
LEMMA AsManyRegions ==
    ASSUME NEW S, IsFiniteSet(S), NEW f, f = [x \in S |-> f[x]],
           \A x, y \in S : x # y => f[x] # f[y],
           NEW T, T = {f[x] : x \in S}
    PROVE  IsFiniteSet(T) /\ Cardinality(T) = Cardinality(S)
<1>1. f \in [S -> T]
    OBVIOUS
<1>2. \A y \in T : \E x \in S : f[x] = y
    OBVIOUS
<1>3. f \in Bijection(S, T)
    BY <1>1, <1>2 DEF Bijection, Injection, Surjection, IsInjective
<1> QED
    BY <1>3, FS_Bijection DEF ExistsBijection

(* Two finite sets with nothing in common.                                 *)
LEMMA UnionOfDisjoint ==
    ASSUME NEW S, IsFiniteSet(S), NEW T, IsFiniteSet(T), S \cap T = {}
    PROVE  IsFiniteSet(S \cup T) /\ Cardinality(S \cup T) = Cardinality(S) + Cardinality(T)
<1>1. Cardinality(S) \in Nat /\ Cardinality(T) \in Nat /\ Cardinality(S \cap T) = 0
    BY FS_CardinalityType, FS_EmptySet
<1>2. /\ IsFiniteSet(S \cup T)
      /\ Cardinality(S \cup T) = Cardinality(S) + Cardinality(T) - Cardinality(S \cap T)
    BY FS_Union
<1> QED
    BY <1>1, <1>2

(* Every region has one owner, so the owners are as many as the regions.   *)
LEMMA IInvAccounts == IInv => HeapAccounted
<1> SUFFICES ASSUME IInv PROVE HeapAccounted
    OBVIOUS
<1>1. PmemTypes /\ Backed /\ Apart /\ Owned /\ FewOwners
    BY DEF IInv, PInv
<1> DEFINE inCalls == {t \in Threads : pc[t] \in HasRegion}
           B == {Extent(b) : b \in buffers}
           C == {Extent(call[t]) : t \in inCalls}
<1>2. Used(mList) = B \cup C \cup stranded
    BY <1>1 DEF Backed, Owned, InRegion
<1>3. IsFiniteSet(B) /\ Cardinality(B) = Cardinality(buffers)
    <2> DEFINE f == [b \in buffers |-> Extent(b)]
    <2>1. \A b, c \in buffers : b # c => f[b] # f[c]
        BY <1>1 DEF Apart, Extent
    <2>2. f = [b \in buffers |-> f[b]] /\ B = {f[b] : b \in buffers}
        OBVIOUS
    <2> HIDE DEF f, B
    <2> QED
        BY <1>1, <2>1, <2>2, AsManyRegions DEF FewOwners
<1>4. IsFiniteSet(C) /\ Cardinality(C) = Cardinality(inCalls)
    <2> DEFINE f == [t \in inCalls |-> Extent(call[t])]
    <2>1. \A t, u \in inCalls : t # u => f[t] # f[u]
        BY <1>1 DEF Apart, Extent, InRegion
    <2>2. f = [t \in inCalls |-> f[t]] /\ C = {f[t] : t \in inCalls}
        OBVIOUS
    <2>3. IsFiniteSet(inCalls)
        BY ThreadsAssumption, FS_Subset
    <2> HIDE DEF f, C, inCalls
    <2> QED
        BY <2>1, <2>2, <2>3, AsManyRegions
<1>5. B \cap C = {} /\ (B \cup C) \cap stranded = {}
    <2>1. \A b \in buffers : \A t \in inCalls : Extent(b) # Extent(call[t])
        BY <1>1 DEF Apart, Extent, InRegion
    <2>2. \A b \in buffers : \A s \in stranded : Extent(b) # s
        BY <1>1 DEF Apart, Extent
    <2>3. \A t \in inCalls : \A s \in stranded : Extent(call[t]) # s
        BY <1>1 DEF Apart, Extent, InRegion
    <2> QED
        BY <2>1, <2>2, <2>3
<1>6. /\ IsFiniteSet(B \cup C)
      /\ Cardinality(B \cup C) = Cardinality(buffers) + Cardinality(inCalls)
    <2> HIDE DEF B, C, inCalls
    <2> QED
        BY <1>3, <1>4, <1>5, UnionOfDisjoint
<1>7. Cardinality(Used(mList)) =
          Cardinality(buffers) + Cardinality(inCalls) + Cardinality(stranded)
    <2> HIDE DEF B, C, inCalls
    <2> QED
        BY <1>1, <1>2, <1>5, <1>6, UnionOfDisjoint DEF FewOwners
<1> QED
    BY <1>2, <1>7 DEF HeapAccounted, Extent

(* The inductive invariant holds in every state.                           *)
THEOREM InvariantHolds == Spec => []IInv
BY InitIInv, NextIInv, PTL DEF Spec

(* No process can reach another's surface, whatever the threads do and     *)
(* whichever calls into the kernel fail: alloc_pmem_buffer() and           *)
(* free_pmem_buffer() of PmemUserspaceAllocator.                           *)
THEOREM SurfacesApart == Spec => []WindowsDisjoint
BY InvariantHolds, IInvApart, PTL

(* Every chunk in use has exactly one owner, whatever the threads do and   *)
(* whichever calls into the kernel fail: no error path of                  *)
(* alloc_pmem_buffer() loses a region, none gives one back twice.          *)
THEOREM HeapIsAccounted == Spec => []HeapAccounted
BY InvariantHolds, IInvAccounts, PTL
-----------------------------------------------------------------------------
(* The descriptors.  A number in master_fd other than the initial one says *)
(* that nobody will map the device again; so does an initialisation that   *)
(* got as far as mapping it and has an error to store.                     *)
Locked == Initialising \ {"init_lock"}
WithoutFd ==
    {"idle", "init_lock", "init_check", "init_open", "init_store", "init_unlock",
     "allocate", "open", "undo"}

MasterKnown ==
    /\ areas \in {0, 1}
    /\ areas = 0 => master_fd < 0
    /\ areas = 1 => master_fd # MASTER_FD_INIT
    /\ master_fd >= 0 =>
           /\ master_fd \in open
           /\ \A b \in buffers : b.fd # master_fd
           /\ \A t \in Threads : call[t].fd # master_fd

InitialisesOnce ==
    \A t \in Threads :
        /\ pc[t] \in Locked => lock = t
        /\ pc[t] \in {"init_open", "init_map"} => areas = 0
        /\ pc[t] = "init_map" => call[t].err \in {0} \cup SizeErrors /\ call[t].fd # NoFd
        /\ pc[t] = "init_store" =>
               /\ call[t].err < 0
               /\ areas = 1 => call[t].err # MASTER_FD_INIT /\ master_fd >= 0
        /\ pc[t] \in WithoutFd => call[t].fd = NoFd

HasOwner(fd) ==
    \/ fd = master_fd
    \/ \E b \in buffers : fd = b.fd
    \/ \E t \in Threads : fd = call[t].fd

OneLost ==
    IF areas = 1 /\ master_fd < 0
    THEN \E lost \in open : ~HasOwner(lost) /\ \A fd \in open : fd = lost \/ HasOwner(fd)
    ELSE \A fd \in open : HasOwner(fd)

DInv == IInv /\ open \subseteq Nat /\ MasterKnown /\ InitialisesOnce /\ OneLost

(* The mutex is kept, taken by t, or given back by t.                      *)
LockStep(t) ==
    \/ lock' = lock
    \/ lock = NoThread /\ lock' = t
    \/ lock = t /\ lock' = NoThread

(* What InitialisesOnce says of t after the step.                          *)
Proceeds(t, to, c) ==
    /\ to \in Locked => lock' = t
    /\ to \in {"init_open", "init_map"} => areas' = 0
    /\ to = "init_map" => c.err \in {0} \cup SizeErrors /\ c.fd # NoFd
    /\ to = "init_store" =>
           c.err < 0 /\ (areas' = 1 => c.err # MASTER_FD_INIT /\ master_fd' >= 0)
    /\ to \in WithoutFd => c.fd = NoFd

(* Only the holder of the mutex changes the master, so no other thread     *)
(* that initialises it can be misled.                                      *)
LEMMA OnceStep ==
    ASSUME InitialisesOnce, NEW t \in Threads, NEW to, NEW c, Goes(t, to, c), LockStep(t),
           Proceeds(t, to, c), UNCHANGED master \/ pc[t] \in Locked
    PROVE  InitialisesOnce'
<1> SUFFICES ASSUME NEW u \in Threads, u # t
             PROVE  /\ pc'[u] \in Locked => lock' = u
                    /\ pc'[u] \in {"init_open", "init_map"} => areas' = 0
                    /\ pc'[u] = "init_map" =>
                           call'[u].err \in {0} \cup SizeErrors /\ call'[u].fd # NoFd
                    /\ pc'[u] = "init_store" =>
                           /\ call'[u].err < 0
                           /\ areas' = 1 => call'[u].err # MASTER_FD_INIT /\ master_fd' >= 0
                    /\ pc'[u] \in WithoutFd => call'[u].fd = NoFd
    BY DEF Goes, Proceeds, InitialisesOnce
<1>1. pc'[u] = pc[u] /\ call'[u] = call[u]
    BY DEF Goes
<1>2. pc[u] \in Locked => lock = u /\ lock' = u /\ UNCHANGED master
    BY NoThreadAssumption DEF InitialisesOnce, LockStep
<1>3. {"init_open", "init_map", "init_store"} \subseteq Locked
    BY DEF Locked, Initialising
<1> QED
    BY <1>1, <1>2, <1>3 DEF InitialisesOnce, master

(* The call keeps its descriptor, closes it, or opens one.                 *)
FdStep(t, c) ==
    \/ open' = open /\ c.fd = call[t].fd
    \/ open' = open \ {call[t].fd} /\ c.fd = NoFd
    \/ call[t].fd = NoFd /\ c.fd \in Nat \ open /\ open' = open \cup {c.fd}

(* Such a step neither loses a descriptor nor touches the master's.        *)
LEMMA FdStepKeeps ==
    ASSUME DInv, NEW t \in Threads, NEW to, NEW c, Goes(t, to, c), FdStep(t, c),
           UNCHANGED <<master, buffers>>
    PROVE  (open \subseteq Nat /\ MasterKnown /\ OneLost)'
<1> USE DEF DInv
<1>1. /\ \A u \in Threads : call'[u].fd = IF u = t THEN c.fd ELSE call[u].fd
      /\ UNCHANGED <<master_fd, areas, buffers>>
    BY DEF Goes, master
<1>2. /\ \A b \in buffers : b.fd \in Nat /\ b.fd \in open /\ b.fd # call[t].fd
      /\ \A u \in Threads : u # t => call[u].fd # call[t].fd \/ call[t].fd = NoFd
      /\ \A u \in Threads : call[u].fd \in open \/ call[u].fd = NoFd
      /\ NoFd \notin Nat
    BY DEF IInv, PInv, PmemTypes, FdsApart, NoFd
<1>3. open' \subseteq Nat
    BY DEF FdStep
<1>4. master_fd \in Int /\ (master_fd >= 0 => master_fd # call[t].fd /\ master_fd # NoFd)
    BY DEF IInv, MasterKnown, NoFd
<1>5. MasterKnown'
    BY <1>1, <1>2, <1>4 DEF MasterKnown, FdStep
<1>6. ASSUME NEW fd \in open, fd \in open', HasOwner(fd) PROVE HasOwner(fd)'
    <2>1. CASE fd = master_fd \/ \E b \in buffers : fd = b.fd
        BY <1>1, <2>1 DEF HasOwner
    <2>2. CASE \E u \in Threads : fd = call[u].fd
        <3>1. PICK u \in Threads : fd = call[u].fd
            BY <2>2
        <3>2. fd = call'[u].fd
            BY <1>1, <1>2, <1>6, <3>1 DEF FdStep
        <3> QED
            BY <3>2 DEF HasOwner
    <2> QED
        BY <1>6, <2>1, <2>2 DEF HasOwner
<1>7. ASSUME NEW fd \in open', fd \notin open PROVE HasOwner(fd)'
    BY <1>1, <1>7 DEF FdStep, HasOwner
<1>8. ASSUME NEW fd \in open, ~HasOwner(fd) PROVE ~HasOwner(fd)' /\ fd \in open'
    BY <1>1, <1>2, <1>8 DEF FdStep, HasOwner
<1>9. OneLost'
    <2>1. CASE areas = 1 /\ master_fd < 0
        <3>1. PICK lost \in open : /\ ~HasOwner(lost)
                                   /\ \A fd \in open : fd = lost \/ HasOwner(fd)
            BY <2>1 DEF OneLost
        <3>2. lost \in open' /\ ~HasOwner(lost)'
            BY <1>8, <3>1
        <3>3. \A fd \in open' : fd = lost \/ HasOwner(fd)'
            BY <1>6, <1>7, <3>1
        <3> QED
            BY <1>1, <2>1, <3>2, <3>3 DEF OneLost
    <2>2. CASE ~(areas = 1 /\ master_fd < 0)
        BY <1>1, <1>6, <1>7, <2>2 DEF OneLost
    <2> QED
        BY <2>1, <2>2
<1> QED
    BY <1>3, <1>5, <1>9

(* A step of this kind, whatever it is for.                                *)
LEMMA PlainStep ==
    ASSUME DInv, IInv', NEW t \in Threads, NEW to, NEW c, Goes(t, to, c), FdStep(t, c),
           UNCHANGED <<master, buffers>>, LockStep(t), Proceeds(t, to, c)
    PROVE  DInv'
BY FdStepKeeps, OnceStep DEF DInv

(* The steps that do no more than that.                                    *)
LEMMA PlainSteps ==
    ASSUME DInv, IInv', NEW t \in Threads,
           \/ alloc_pmem_buffer(t) \/ initLock(t) \/ initCheck(t) \/ initUnlock(t)
           \/ allocate(t) \/ openSub(t) \/ connectPmem(t) \/ undoClose(t) \/ undo(t)
           \/ unmapPmem(t) \/ freeRegion(t) \/ closeBuffer(t)
    PROVE  DInv'
<1> DEFINE c == call'[t]
           to == pc'[t]
<1>1. /\ pc \in [Threads -> PCs] /\ call \in [Threads -> CallType]
      /\ pc' \in [Threads -> PCs] /\ call' \in [Threads -> CallType]
      /\ \A u \in Threads : call[u].fd \in open \/ call[u].fd = NoFd
    BY DEF DInv, IInv, PInv, PmemTypes, FdsApart
<1>2. \A u \in Threads \ {t} : pc'[u] = pc[u] /\ call'[u] = call[u]
    BY <1>1 DEF alloc_pmem_buffer, initLock, initCheck, initUnlock, allocate, openSub,
       connectPmem, undoClose, undo, unmapPmem, freeRegion, closeBuffer, Goto, Return
<1>3. Goes(t, to, c)
    BY <1>1, <1>2 DEF Goes
<1>4. pc[t] \in WithoutFd => call[t].fd = NoFd
    BY DEF DInv, InitialisesOnce
<1>5. pc[t] \in Locked => lock = t
    BY DEF DInv, InitialisesOnce
<1>6. NoCall.fd = NoFd
    BY DEF NoCall
<1> USE DEF WithoutFd, Locked, Initialising, FdStep, LockStep, Proceeds
<1>7. CASE alloc_pmem_buffer(t)
    <2>1. c.fd = call[t].fd /\ pc[t] = "idle" /\ to = "init_lock"
        BY <1>1, <1>7 DEF alloc_pmem_buffer, Goto, CallType
    <2>2. UNCHANGED <<master, buffers, lock, open>>
        BY <1>7 DEF alloc_pmem_buffer
    <2> HIDE DEF c, to
    <2> QED
        BY <1>3, <1>4, <2>1, <2>2, PlainStep
<1>8. CASE initLock(t)
    <2>1. c = call[t] /\ pc[t] = "init_lock" /\ to = "init_check" /\ lock = NoThread /\ lock' = t
        BY <1>1, <1>8 DEF initLock, Goto
    <2>2. UNCHANGED <<master, buffers, open>>
        BY <1>8 DEF initLock
    <2> HIDE DEF c, to
    <2> QED
        BY <1>3, <1>4, <2>1, <2>2, PlainStep
<1>9. CASE initCheck(t)
    <2>1. c.fd = call[t].fd /\ pc[t] = "init_check"
        BY <1>1, <1>9 DEF initCheck, Goto, CallType
    <2>2. UNCHANGED <<master, buffers, open, lock>>
        BY <1>9 DEF initCheck
    <2>3. to \in {"init_open", "init_unlock"} /\ (to = "init_open" => areas' = 0)
        BY <1>1, <1>9, <2>2 DEF initCheck, Goto, master, DInv, MasterKnown
    <2> HIDE DEF c, to
    <2> QED
        BY <1>3, <1>4, <1>5, <2>1, <2>2, <2>3, PlainStep
<1>10. CASE initUnlock(t)
    <2>1. pc[t] = "init_unlock"
        BY <1>10 DEF initUnlock, Goto, Return
    <2>2. c.fd = call[t].fd /\ to \in {"allocate", "idle"} /\ lock' = NoThread
        BY <1>1, <1>4, <1>6, <1>10, <2>1 DEF initUnlock, Goto, Return
    <2>3. UNCHANGED <<master, buffers, open>>
        BY <1>10 DEF initUnlock
    <2> HIDE DEF c, to
    <2> QED
        BY <1>3, <1>4, <1>5, <2>1, <2>2, <2>3, PlainStep
<1>11. CASE allocate(t) \/ undo(t)
    <2>1. pc[t] \in {"allocate", "undo"}
        BY <1>11 DEF allocate, undo, Goto, Return
    <2>2. c.fd = call[t].fd /\ to \in {"open", "idle"}
        BY <1>1, <1>4, <1>6, <1>11, <2>1 DEF allocate, undo, Goto, Return, CallType
    <2>3. UNCHANGED <<master, buffers, open, lock>>
        BY <1>11 DEF allocate, undo
    <2> HIDE DEF c, to
    <2> QED
        BY <1>3, <1>4, <2>1, <2>2, <2>3, PlainStep
<1>12. CASE openSub(t)
    <2>1. pc[t] = "open" /\ to \in {"connect", "undo_close"}
        BY <1>1, <1>12 DEF openSub, Goto
    <2>2. \/ open' = open /\ c.fd = call[t].fd
          \/ c.fd \in Nat \ open /\ open' = open \cup {c.fd}
        BY <1>1, <1>12, LowestIsFree DEF openSub, CallType
    <2>3. UNCHANGED <<master, buffers, lock>>
        BY <1>12 DEF openSub
    <2> HIDE DEF c, to
    <2> QED
        BY <1>3, <1>4, <2>1, <2>2, <2>3, PlainStep
<1>13. CASE connectPmem(t) \/ unmapPmem(t) \/ freeRegion(t)
    <2>1. c.fd = call[t].fd /\ to \in {"map", "undo_close", "dealloc", "close"}
        BY <1>1, <1>13 DEF connectPmem, unmapPmem, freeRegion, Goto
    <2>2. UNCHANGED <<master, buffers, open, lock>>
        BY <1>13 DEF connectPmem, unmapPmem, freeRegion
    <2> HIDE DEF c, to
    <2> QED
        BY <1>3, <2>1, <2>2, PlainStep
<1>14. CASE undoClose(t) \/ closeBuffer(t)
    <2>1. c.fd = NoFd /\ to \in {"undo", "idle"} /\ open' = open \ {call[t].fd}
        BY <1>1, <1>6, <1>14 DEF undoClose, closeBuffer, Goto, Return, CallType
    <2>2. UNCHANGED <<master, buffers, lock>>
        BY <1>14 DEF undoClose, closeBuffer
    <2> HIDE DEF c, to
    <2> QED
        BY <1>3, <2>1, <2>2, PlainStep
<1> QED
    BY <1>7, <1>8, <1>9, <1>10, <1>11, <1>12, <1>13, <1>14

(* open() of the master happens while nothing is mapped.                   *)
LEMMA InitOpenKeeps ==
    ASSUME DInv, IInv', NEW t \in Threads, initOpen(t) PROVE DInv'
<1> DEFINE c == call'[t]
           to == pc'[t]
<1>1. /\ pc \in [Threads -> PCs] /\ call \in [Threads -> CallType]
      /\ pc' \in [Threads -> PCs] /\ call' \in [Threads -> CallType]
    BY DEF DInv, IInv, PInv, PmemTypes
<1>2. Goes(t, to, c)
    BY <1>1 DEF initOpen, Goto, Goes
<1>3. pc[t] = "init_open" /\ UNCHANGED <<master, buffers, lock>>
    BY DEF initOpen, Goto
<1>4. lock = t /\ areas = 0 /\ areas' = 0 /\ call[t].fd = NoFd
    BY <1>3 DEF DInv, InitialisesOnce, Locked, Initialising, WithoutFd, master
<1>5. \/ /\ c.fd \in Nat \ open /\ open' = open \cup {c.fd} /\ to = "init_map"
         /\ c.err \in {0} \cup SizeErrors
      \/ c.fd = call[t].fd /\ open' = open /\ to = "init_store" /\ c.err < 0
    <2>1. CASE \E fd \in Descriptors, err \in {0} \cup SizeErrors :
                  /\ OpenFd(fd)
                  /\ Goto(t, "init_open", "init_map")
                  /\ call' = [call EXCEPT ![t].fd = fd, ![t].err = err]
        BY <1>1, <2>1, LowestIsFree DEF Goto, CallType
    <2>2. CASE \E errno \in OpenErrnos :
                  /\ Goto(t, "init_open", "init_store")
                  /\ call' = [call EXCEPT ![t].err = -errno]
                  /\ UNCHANGED open
        BY <1>1, <2>2, ErrorsAssumption DEF Goto, CallType
    <2> QED
        BY <2>1, <2>2 DEF initOpen
<1>6. NoFd \notin Nat
    BY DEF NoFd
<1> HIDE DEF c, to
<1>7. FdStep(t, c) /\ LockStep(t)
    BY <1>3, <1>4, <1>5 DEF FdStep, LockStep
<1>8. Proceeds(t, to, c)
    BY <1>3, <1>4, <1>5, <1>6 DEF Proceeds, WithoutFd
<1> QED
    BY <1>2, <1>3, <1>7, <1>8, PlainStep

(* The device is mapped at most once; a descriptor that is not mapped is   *)
(* closed.                                                                 *)
LEMMA InitMapKeeps ==
    ASSUME MASTER_FD_INIT \notin SizeErrors, DInv, IInv', NEW t \in Threads, initMap(t)
    PROVE  DInv'
<1> DEFINE c == call'[t]
           to == pc'[t]
<1>1. /\ pc \in [Threads -> PCs] /\ call \in [Threads -> CallType]
      /\ pc' \in [Threads -> PCs] /\ call' \in [Threads -> CallType]
    BY DEF DInv, IInv, PInv, PmemTypes
<1>2. Goes(t, to, c)
    BY <1>1 DEF initMap, Goto, Goes
<1>3. pc[t] = "init_map" /\ UNCHANGED <<buffers, lock>>
    BY DEF initMap, Goto
<1>4. /\ lock = t /\ areas = 0 /\ call[t].err \in {0} \cup SizeErrors
      /\ call[t].fd \in Nat /\ call[t].fd \in open /\ call[t].fd # NoFd
      /\ pc[t] \in Locked
    BY <1>1, <1>3
       DEF DInv, InitialisesOnce, Locked, Initialising, IInv, PInv, FdsApart, CallType
<1>5. CASE /\ Goto(t, "init_map", IF call[t].err # 0 THEN "init_store" ELSE "init_unlock")
           /\ master_fd' = call[t].fd
           /\ areas' = areas + 1
           /\ call' = [call EXCEPT ![t].fd = NoFd]
           /\ UNCHANGED open
    <2>1. /\ to = IF call[t].err # 0 THEN "init_store" ELSE "init_unlock"
          /\ c.fd = NoFd /\ c.err = call[t].err
        BY <1>1, <1>5 DEF Goto, CallType
    <2>2. areas' = 1 /\ master_fd' = call[t].fd /\ master_fd' \in Nat /\ open' = open
        BY <1>4, <1>5
    <2> HIDE DEF c, to
    <2>3. call[t].err # 0 => call[t].err < 0 /\ call[t].err # MASTER_FD_INIT
        <3>1. call[t].err \in Int
            BY <1>1 DEF CallType
        <3>2. call[t].err # 0 => call[t].err \in SizeErrors
            BY <1>4
        <3>3. \A e \in Int : e \in SizeErrors => e < 0
            BY ErrorsAssumption
        <3> QED
            BY <3>1, <3>2, <3>3
    <2>4. InitialisesOnce'
        <3>1. Proceeds(t, to, c)
            BY <1>3, <1>4, <2>1, <2>2, <2>3 DEF Proceeds
        <3> QED
            BY <1>2, <1>3, <1>4, <3>1, OnceStep DEF DInv, LockStep
    <2>5. \A u \in Threads : call'[u].fd = IF u = t THEN NoFd ELSE call[u].fd
        BY <1>2, <2>1 DEF Goes
    <2>6. MasterKnown'
        <3>1. /\ \A b \in buffers : b.fd # call[t].fd
              /\ \A u \in Threads : u # t => call[u].fd # call[t].fd
            BY <1>4 DEF DInv, IInv, PInv, FdsApart
        <3> QED
            BY <1>3, <1>4, <2>2, <2>5, <3>1 DEF MasterKnown, MASTER_FD_INIT
    <2>7. \A fd \in open : HasOwner(fd)
        BY <1>4 DEF DInv, OneLost
    <2>8. \A fd \in open : fd \in Nat /\ fd # master_fd
        BY <1>4 DEF DInv, MasterKnown
    <2>9. \A fd \in open' : HasOwner(fd)'
        BY <1>3, <2>2, <2>5, <2>7, <2>8 DEF HasOwner
    <2>10. OneLost'
        BY <2>2, <2>9 DEF OneLost
    <2> QED
        BY <2>2, <2>4, <2>6, <2>10 DEF DInv
<1>6. CASE /\ Goto(t, "init_map", "init_store")
           /\ open' = open \ {call[t].fd}
           /\ call' = [call EXCEPT ![t].fd = NoFd, ![t].err = -ENOMEM]
           /\ UNCHANGED <<master_fd, areas>>
    <2>1. to = "init_store" /\ c.fd = NoFd /\ c.err < 0
        BY <1>1, <1>6 DEF Goto, CallType, ENOMEM
    <2>2. areas' = 0 /\ UNCHANGED master
        BY <1>4, <1>6 DEF master
    <2> HIDE DEF c, to
    <2>3. FdStep(t, c) /\ LockStep(t) /\ Proceeds(t, to, c)
        BY <1>3, <1>4, <1>6, <2>1, <2>2 DEF FdStep, LockStep, Proceeds
    <2> QED
        BY <1>2, <1>3, <2>2, <2>3, PlainStep
<1> QED
    BY <1>5, <1>6 DEF initMap

(* An error takes the place of the descriptor of a device that is mapped:  *)
(* that one is lost, and the initialisation is never tried again.          *)
LEMMA InitStoreKeeps ==
    ASSUME DInv, IInv', NEW t \in Threads, initStore(t) PROVE DInv'
<1> USE DEF DInv
<1>1. Goes(t, "init_unlock", call[t])
    BY DEF initStore, Goto, Goes, IInv, PInv, PmemTypes, PCs, Initialising
<1>2. /\ pc[t] = "init_store" /\ master_fd' = call[t].err
      /\ UNCHANGED <<areas, buffers, lock, open, call>>
    BY DEF initStore, Goto
<1>3. /\ call[t].err < 0 /\ call[t].fd = NoFd /\ lock = t /\ pc[t] \in Locked
      /\ areas = 1 => call[t].err # MASTER_FD_INIT /\ master_fd >= 0
      /\ call[t].err \in Int /\ master_fd \in Int
    BY <1>2 DEF InitialisesOnce, Locked, Initialising, WithoutFd, IInv, PInv, PmemTypes, CallType
<1>4. InitialisesOnce'
    <2>1. Proceeds(t, "init_unlock", call[t])
        BY <1>2, <1>3 DEF Proceeds
    <2> QED
        BY <1>1, <1>2, <1>3, <2>1, OnceStep DEF LockStep
<1>5. MasterKnown'
    BY <1>2, <1>3 DEF MasterKnown
<1>6. \A fd \in open : fd \in Nat /\ fd # master_fd'
    BY <1>2, <1>3
<1>7. \A fd \in open : fd # master_fd => (HasOwner(fd)' <=> HasOwner(fd))
    BY <1>2, <1>6 DEF HasOwner
<1>8. CASE areas = 1
    <2>1. PICK lost : lost = master_fd
        OBVIOUS
    <2>2. lost \in open /\ ~HasOwner(lost)'
        BY <1>2, <1>3, <1>6, <1>8, <2>1 DEF MasterKnown, HasOwner
    <2>3. \A fd \in open : fd = lost \/ HasOwner(fd)'
        <3>1. \A fd \in open : HasOwner(fd)
            BY <1>3, <1>8 DEF OneLost
        <3> QED
            BY <1>7, <2>1, <3>1
    <2>4. OneLost'
        BY <1>2, <1>3, <1>8, <2>2, <2>3 DEF OneLost
    <2> QED
        BY <1>2, <1>4, <1>5, <2>4
<1>9. CASE areas = 0
    <2>1. \A fd \in open : HasOwner(fd) /\ fd # master_fd
        BY <1>6, <1>9 DEF OneLost, MasterKnown
    <2>2. \A fd \in open' : HasOwner(fd)'
        BY <1>2, <1>7, <2>1
    <2>3. OneLost'
        BY <1>2, <1>9, <2>2 DEF OneLost
    <2> QED
        BY <1>2, <1>4, <1>5, <2>3
<1> QED
    BY <1>8, <1>9 DEF MasterKnown

(* A descriptor passes from the call to the buffer it belongs to.          *)
LEMMA MapPmemKeeps ==
    ASSUME DInv, IInv', NEW t \in Threads, mapPmem(t) PROVE DInv'
<1> USE DEF DInv
<1>1. pc[t] = "map" /\ UNCHANGED <<master, lock, open>>
    BY DEF mapPmem, Goto, Return
<1>2. CASE Goto(t, "map", "undo_close") /\ UNCHANGED <<windows, buffers, call>>
    <2>1. Goes(t, "undo_close", call[t])
        BY <1>2 DEF Goto, Goes, IInv, PInv, PmemTypes, PCs, HasRegion
    <2>2. FdStep(t, call[t]) /\ LockStep(t) /\ Proceeds(t, "undo_close", call[t])
        BY <1>1 DEF FdStep, LockStep, Proceeds, Locked, Initialising, WithoutFd
    <2> QED
        BY <1>1, <1>2, <2>1, <2>2, PlainStep
<1>3. CASE /\ Return(t, "map")
           /\ buffers' = buffers \cup
                  {[fd |-> call[t].fd, off |-> call[t].off, size |-> call[t].size]}
    <2>1. NoCall.fd = NoFd /\ Goes(t, "idle", NoCall)
        BY <1>3 DEF Return, Goto, Goes, IInv, PInv, PmemTypes, PCs, CallType, NoCall, NoFd
    <2>2. \A u \in Threads : call'[u].fd = IF u = t THEN NoFd ELSE call[u].fd
        BY <2>1 DEF Goes
    <2>3. \A fd : (\E b \in buffers' : fd = b.fd)
                      <=> (\E b \in buffers : fd = b.fd) \/ fd = call[t].fd
        <3>1. PICK b0 : b0 = [fd |-> call[t].fd, off |-> call[t].off, size |-> call[t].size]
            OBVIOUS
        <3>2. b0.fd = call[t].fd /\ buffers' = buffers \cup {b0}
            BY <1>3, <3>1
        <3> QED
            BY <3>2
    <2>4. InitialisesOnce'
        <3>1. LockStep(t) /\ Proceeds(t, "idle", NoCall)
            BY <1>1, <2>1 DEF LockStep, Proceeds, Locked, Initialising, WithoutFd
        <3> QED
            BY <1>1, <2>1, <3>1, OnceStep
    <2>5. MasterKnown'
        <3>1. master_fd >= 0 => \A b \in buffers' : b.fd # master_fd
            BY <2>3 DEF MasterKnown
        <3> QED
            BY <1>1, <2>2, <3>1 DEF MasterKnown, master, NoFd
    <2>6. \A fd \in Nat : HasOwner(fd)' <=> HasOwner(fd)
        BY <1>1, <2>2, <2>3 DEF HasOwner, master, NoFd
    <2>7. OneLost'
        BY <1>1, <2>6 DEF OneLost, master
    <2> QED
        BY <1>1, <2>4, <2>5, <2>7
<1> QED
    BY <1>2, <1>3 DEF mapPmem

(* And back from a buffer to the call that frees it.                       *)
LEMMA FreePmemBufferKeeps ==
    ASSUME DInv, IInv', NEW t \in Threads, free_pmem_buffer(t) PROVE DInv'
<1> USE DEF DInv
<1>1. PICK b0 \in buffers :
        /\ buffers' = buffers \ {b0}
        /\ call' = [call EXCEPT ![t] = [fd |-> b0.fd, off |-> b0.off, size |-> b0.size, err |-> 0]]
    BY DEF free_pmem_buffer
<1>2. PICK c : c = [fd |-> b0.fd, off |-> b0.off, size |-> b0.size, err |-> 0]
    OBVIOUS
<1>3. pc[t] = "idle" /\ UNCHANGED <<master, lock, open>>
    BY DEF free_pmem_buffer, Goto
<1>4. b0.fd \in Nat /\ c \in CallType /\ c.fd = b0.fd
    BY <1>2 DEF IInv, PInv, PmemTypes, CallType
<1>5. Goes(t, "unmap", c)
    BY <1>1, <1>2, <1>4
       DEF free_pmem_buffer, Goto, Goes, IInv, PInv, PmemTypes, PCs, HasRegion
<1>6. call[t].fd = NoFd
    BY <1>3 DEF InitialisesOnce, WithoutFd
<1>7. \A u \in Threads : call'[u].fd = IF u = t THEN b0.fd ELSE call[u].fd
    BY <1>4, <1>5 DEF Goes
<1>8. InitialisesOnce'
    <2>1. LockStep(t) /\ Proceeds(t, "unmap", c)
        BY <1>3 DEF LockStep, Proceeds, Locked, Initialising, WithoutFd
    <2> QED
        BY <1>3, <1>5, <2>1, OnceStep
<1>9. MasterKnown'
    BY <1>1, <1>3, <1>7 DEF MasterKnown, master
<1>10. \A fd \in Nat : HasOwner(fd)' <=> HasOwner(fd)
    <2> SUFFICES ASSUME NEW fd \in Nat PROVE HasOwner(fd)' <=> HasOwner(fd)
        OBVIOUS
    <2>1. (\E b \in buffers' : fd = b.fd) \/ fd = b0.fd <=> (\E b \in buffers : fd = b.fd)
        BY <1>1
    <2>2. (\E u \in Threads : fd = call'[u].fd)
              <=> (\E u \in Threads : fd = call[u].fd) \/ fd = b0.fd
        BY <1>6, <1>7 DEF NoFd
    <2> QED
        BY <1>3, <2>1, <2>2 DEF HasOwner, master
<1>11. OneLost'
    BY <1>3, <1>10 DEF OneLost, master
<1> QED
    BY <1>3, <1>8, <1>9, <1>11

(* At the start no descriptor is open.                                     *)
LEMMA InitDInv == Init => DInv
<1> SUFFICES ASSUME Init PROVE open \subseteq Nat /\ MasterKnown /\ InitialisesOnce /\ OneLost
    BY InitIInv DEF DInv
<1> USE DEF Init
<1>1. open = {} /\ areas = 0 /\ master_fd < 0
    BY DEF MASTER_FD_INIT
<1>2. MasterKnown
    BY <1>1 DEF MasterKnown, MASTER_FD_INIT
<1>3. InitialisesOnce
    BY DEF InitialisesOnce, Locked, Initialising, NoCall
<1> QED
    BY <1>1, <1>2, <1>3 DEF OneLost

(* Every step keeps the invariant.                                         *)
LEMMA NextDInv ==
    ASSUME MASTER_FD_INIT \notin SizeErrors
    PROVE  DInv /\ [Next]_vars => DInv'
<1> SUFFICES ASSUME DInv, [Next]_vars PROVE DInv'
    OBVIOUS
<1>1. IInv'
    BY NextIInv DEF DInv
<1>2. CASE UNCHANGED vars
    <2>1. UNCHANGED <<master_fd, areas, lock, open, buffers, pc, call>>
        BY <1>2 DEF vars, master
    <2>2. (open \subseteq Nat /\ MasterKnown)'
        BY <2>1 DEF DInv, MasterKnown
    <2>3. InitialisesOnce'
        BY <2>1 DEF DInv, InitialisesOnce
    <2>4. \A fd : HasOwner(fd)' <=> HasOwner(fd)
        BY <2>1 DEF HasOwner
    <2>5. OneLost'
        BY <2>1, <2>4 DEF DInv, OneLost
    <2> QED
        BY <1>1, <2>2, <2>3, <2>5 DEF DInv
<1>3. ASSUME NEW t \in Threads, alloc_pmem_buffer(t) \/ free_pmem_buffer(t) \/ InCall(t)
      PROVE  DInv'
    BY <1>1, <1>3, PlainSteps, InitOpenKeeps, InitMapKeeps, InitStoreKeeps, MapPmemKeeps,
       FreePmemBufferKeeps DEF InCall
<1> QED
    BY <1>2, <1>3 DEF Next

(* The lost descriptor is the only one without an owner.                   *)
LEMMA DInvAccounts == DInv => DescriptorsAccounted
<1> SUFFICES ASSUME DInv PROVE DescriptorsAccounted
    OBVIOUS
<1> DEFINE owned == {master_fd} \cup {b.fd : b \in buffers} \cup {call[t].fd : t \in Threads}
<1>1. areas <= 1
    BY DEF DInv, MasterKnown
<1>2. \A b \in buffers : b.fd \in open /\ b.fd # master_fd
    BY DEF DInv, MasterKnown, IInv, PInv, FdsApart, PmemTypes
<1>3. \A fd : fd \in owned <=> HasOwner(fd)
    BY DEF HasOwner
<1> HIDE DEF owned
<1>4. CASE areas = 1 /\ master_fd < 0
    <2>1. PICK lost \in open : ~HasOwner(lost) /\ \A fd \in open : fd = lost \/ HasOwner(fd)
        BY <1>4 DEF DInv, OneLost
    <2>2. open \ owned = {lost}
        BY <1>3, <2>1
    <2>3. Cardinality(open \ owned) = 1
        BY <2>2, FS_Singleton
    <2> QED
        BY <1>1, <1>2, <1>4, <2>3 DEF DescriptorsAccounted, owned
<1>5. CASE ~(areas = 1 /\ master_fd < 0)
    <2>1. open \ owned = {}
        BY <1>3, <1>5 DEF DInv, OneLost
    <2>2. Cardinality(open \ owned) = 0
        BY <2>1, FS_EmptySet
    <2> QED
        BY <1>1, <1>2, <1>5, <2>2 DEF DescriptorsAccounted, owned
<1> QED
    BY <1>4, <1>5

(* Every open descriptor is the master, a buffer's or a call's, but for    *)
(* the one that is lost when init_pmem_area() fails after mmap(); and the  *)
(* device is mapped at most once.  This supposes that a failure of         *)
(* getPmemTotalSize() is never reported by the value of MASTER_FD_INIT, as *)
(* in this build, where there is none, and in the tests, where it is       *)
(* -EACCES.  In a build for another target it is the -1 of ioctl(): then   *)
(* the next call takes the area for not initialised and maps it again.     *)
THEOREM DescriptorsAreAccounted ==
    ASSUME MASTER_FD_INIT \notin SizeErrors
    PROVE  Spec => []DescriptorsAccounted
BY InitDInv, NextDInv, DInvAccounts, PTL DEF Spec
=============================================================================
