------------------------- MODULE Components_proofs --------------------------
(***************************************************************************)
(* The invariants and refinements of the components that share no state    *)
(* with another: BestFitAllocator, HandleLock, CameraInstance,             *)
(* DeviceForStrategy, InputEventReader, G5Sensord and CameraParameters.    *)
(* Each has its own specification, its own section below, and an argument  *)
(* of its own at the head of it.                                           *)
(***************************************************************************)
EXTENDS BestFitAllocator, HandleLock, CameraInstance, DeviceForStrategy, InputEventReader,
        G5Sensord, CameraParameters, ChunkList_proofs, FiniteSetTheorems, SequenceTheorems, TLAPS
-----------------------------------------------------------------------------
(***************************************************************************)
(* The invariants of BestFitAllocator, for every page size, every set of   *)
(* requests and every heap size.  None of them is inductive by itself: an  *)
(* allocation keeps the callers' regions apart because the list is tiled,  *)
(* a release keeps the list coalesced because it was, and both find the    *)
(* right chunk because regions in use and regions held are the same.       *)
(* HeapInv is their conjunction, with Segment for the list.                *)
(***************************************************************************)

Covers(list, heap) ==
    /\ Segment(list)
    /\ list[1].start = 0
    /\ End(list[Len(list)]) = heap

Shape ==
    \/ mHeapSize = 0 /\ mList = <<>>
    \/ mHeapSize # 0 /\ Covers(mList, mHeapSize)

HeapInv ==
    /\ mHeapSize \in Nat
    /\ mList \in Seq(Chunk)
    /\ ret \in Int
    /\ Shape
    /\ LiveIsUsed

(* A region that is held belongs to one chunk, the one dealloc() finds.    *)
LEMMA ChunkOfRegion ==
    ASSUME NEW list, Segment(list), NEW r \in Used(list), NEW i, i = ChunkAt(list, r.off)
    PROVE  /\ i \in 1..Len(list)
           /\ ~list[i].free
           /\ r = Region(list[i])
<1>1. PICK j \in 1..Len(list) : ~list[j].free /\ r = Region(list[j])
  BY DEF Used
<1>2. /\ list \in Seq(Chunk)
      /\ r.off = list[j].start
      /\ list[j].start \in Nat
  BY <1>1, ChunkFields DEF Region, Segment
<1> DEFINE there == {k \in 1..Len(list) : list[k].start = r.off}
<1>3. j \in there
  BY <1>2
<1>4. i \in there
  BY <1>2, <1>3, ChunkAtUnique
<1>5. i = j
  BY <1>2, <1>4, DistinctRegions
<1> QED
  BY <1>1, <1>5

(* The constructor establishes the inductive invariant.                    *)
LEMMA InitHeapInv == Init => HeapInv
<1> SUFFICES ASSUME Init
             PROVE  HeapInv
  OBVIOUS
<1>1. mList = <<>> /\ mHeapSize = 0 /\ live = {} /\ ret = 0
  BY DEF Init
<1>2. LiveIsUsed
  BY <1>1, EmptyUsed DEF LiveIsUsed
<1> QED
  BY <1>1, <1>2 DEF HeapInv, Shape

(* The list setSize() makes: one free chunk of whole pages.                *)
LEMMA SetSizeInv ==
    ASSUME HeapInv, NEW size \in HeapSizes, setSize(size)
    PROVE  HeapInv'
<1>1. CASE mHeapSize # 0
  <2>1. UNCHANGED <<mHeapSize, mList, live>> /\ ret' = -EINVAL
    BY <1>1 DEF setSize
  <2> QED
    BY <2>1 DEF HeapInv, Shape, LiveIsUsed, EINVAL
<1>2. CASE mHeapSize = 0
  <2> DEFINE c == NewChunk(0, mHeapSize')
  <2>1. /\ size \in Nat /\ size > 0 /\ mList = <<>> /\ live = Used(<<>>)
        /\ mHeapSize' = size + Extra(size)
        /\ mList' = <<c>> \o <<>>
        /\ ret' = size /\ live' = live
    BY <1>2, HeapSizesAssumption DEF setSize, HeapInv, Shape, LiveIsUsed, RoundUpToPage
  <2>2. mHeapSize' \in Nat /\ mHeapSize' > 0
    <3>1. Extra(size) \in Nat
      BY <2>1, ExtraBound
    <3> QED
      BY <2>1, <3>1
  <2>3. c \in Chunk /\ c.start = 0 /\ c.size = mHeapSize' /\ c.free
    BY <2>2 DEF NewChunk, Chunk
  <2> HIDE DEF c
  <2>4. mList' = <<c>>
    <3>1. <<c>> \in Seq(Chunk)
      BY <2>3
    <3> QED
      BY <2>1, <3>1, ConcatEmptySeq
  <2>5. Segment(<<c>>) /\ Len(<<c>>) = 1 /\ <<c>>[1] = c
    BY <2>2, <2>3, SingletonSegment
  <2>6. Covers(mList', mHeapSize')
    BY <2>2, <2>3, <2>4, <2>5 DEF Covers, End
  <2>7. Used(mList') = {}
    BY <2>3, <2>4, SingletonUsed
  <2>8. live' = Used(mList')
    BY <2>1, <2>7, EmptyUsed
  <2>9. mList' \in Seq(Chunk)
    BY <2>6 DEF Covers, Segment
  <2> QED
    BY <2>1, <2>2, <2>6, <2>8, <2>9 DEF HeapInv, Shape, LiveIsUsed
<1> QED
  BY <1>1, <1>2

(* allocate() preserves the inductive invariant: for the one chunk         *)
(* alloc() picks, for the chunk it cannot find, and for a request it       *)
(* refuses.                                                                *)
LEMMA AllocateInv ==
    ASSUME HeapInv, NEW size \in Sizes, allocateChunk(size)
    PROVE  HeapInv'
<1> DEFINE i == BestFit(mList, size)
           off == mList[i].start + Extra(mList[i].start)
<1>1. /\ size \in Nat \ {0}
      /\ Covers(mList, mHeapSize) /\ Segment(mList) /\ mList \in Seq(Chunk)
      /\ mHeapSize \in Nat /\ mHeapSize' = mHeapSize /\ mHeapSize # 0
      /\ live = Used(mList)
  BY SizesAssumption DEF HeapInv, Shape, allocateChunk, Covers, LiveIsUsed
<1>2. /\ Fitting(mList, size) # {}
      /\ mList' = Carve(mList, i, size)
      /\ live' = live \cup {[off |-> off, size |-> size]}
      /\ ret' = off
  BY DEF allocateChunk
<1>3. i \in 1..Len(mList) /\ Fits(mList[i], size)
  <2>1. i \in Fitting(mList, size)
    BY <1>1, <1>2, BestFitFits
  <2> QED
    BY <2>1 DEF Fitting
<1>4. off \in Nat
  <2>1. mList[i].start \in Nat
    BY <1>1, <1>3, ChunkFields
  <2>2. Extra(mList[i].start) \in Nat
    BY <2>1, ExtraBound
  <2> QED
    BY <2>1, <2>2
<1> HIDE DEF i
<1>5. /\ Segment(mList')
      /\ mList'[1].start = mList[1].start
      /\ End(mList'[Len(mList')]) = End(mList[Len(mList)])
      /\ Used(mList') = Used(mList) \cup {[off |-> off, size |-> size]}
  BY <1>1, <1>2, <1>3, CarveSegment
<1> HIDE DEF off
<1>6. Covers(mList', mHeapSize') /\ mList' \in Seq(Chunk)
  BY <1>1, <1>5 DEF Covers, Segment
<1>7. live' = Used(mList')
  BY <1>1, <1>2, <1>5
<1> QED
  BY <1>1, <1>2, <1>4, <1>6, <1>7 DEF HeapInv, Shape, LiveIsUsed

(* deallocate() preserves the inductive invariant, whatever is coalesced.  *)
LEMMA DeallocateInv ==
    ASSUME HeapInv, NEW r \in live, deallocate(r)
    PROVE  HeapInv'
<1> DEFINE i == ChunkAt(mList, r.off)
<1>1. /\ Covers(mList, mHeapSize) /\ Segment(mList)
      /\ mHeapSize \in Nat /\ mHeapSize' = mHeapSize /\ mHeapSize # 0
      /\ live = Used(mList)
      /\ mList' = Release(mList, i)
      /\ live' = live \ {r}
      /\ ret' = 0
  BY DEF HeapInv, Shape, deallocate, Covers, LiveIsUsed
<1>2. i \in 1..Len(mList) /\ ~mList[i].free /\ r = Region(mList[i])
  BY <1>1, ChunkOfRegion
<1> HIDE DEF i
<1>3. /\ Segment(mList')
      /\ mList'[1].start = mList[1].start
      /\ End(mList'[Len(mList')]) = End(mList[Len(mList)])
      /\ Used(mList') = Used(mList) \ {Region(mList[i])}
  BY <1>1, <1>2, ReleaseSegment
<1>4. Covers(mList', mHeapSize') /\ mList' \in Seq(Chunk)
  BY <1>1, <1>3 DEF Covers, Segment
<1>5. live' = Used(mList')
  BY <1>1, <1>2, <1>3
<1> QED
  BY <1>1, <1>4, <1>5 DEF HeapInv, Shape, LiveIsUsed

(* Every step of the allocator, and every stutter, preserves the           *)
(* invariant.                                                              *)
LEMMA NextHeapInv == HeapInv /\ [Next]_vars => HeapInv'
<1> SUFFICES ASSUME HeapInv, [Next]_vars
             PROVE  HeapInv'
  OBVIOUS
<1>1. ASSUME NEW size \in HeapSizes, setSize(size)
      PROVE  HeapInv'
  BY <1>1, SetSizeInv
<1>2. ASSUME NEW size \in Sizes, allocate(size)
      PROVE  HeapInv'
  <2>1. CASE allocateNothing
    BY <2>1 DEF allocateNothing, HeapInv, Shape, LiveIsUsed
  <2>2. CASE allocateChunk(size)
    BY <2>2, AllocateInv
  <2>3. CASE allocateFails(size)
    BY <2>3 DEF allocateFails, HeapInv, Shape, LiveIsUsed, EINVAL, ENOMEM
  <2> QED
    BY <1>2, <2>1, <2>2, <2>3 DEF allocate
<1>3. ASSUME NEW r \in live, deallocate(r)
      PROVE  HeapInv'
  BY <1>3, DeallocateInv
<1>4. ASSUME NEW offset \in 0..mHeapSize, deallocateUnknown(offset)
      PROVE  HeapInv'
  BY <1>4 DEF deallocateUnknown, HeapInv, Shape, LiveIsUsed, EINVAL, ENOENT
<1>5. CASE UNCHANGED vars
  BY <1>5 DEF vars, HeapInv, Shape, LiveIsUsed
<1> QED
  BY <1>1, <1>2, <1>3, <1>4, <1>5 DEF Next

(* In every reachable state of the allocator its list tiles the heap, is   *)
(* fully coalesced, agrees with what callers hold, and starts used chunks  *)
(* on pages.                                                               *)
THEOREM HeapInvariance == Spec => []HeapInv
<1>1. Init => HeapInv
  BY InitHeapInv
<1>2. HeapInv /\ [Next]_vars => HeapInv'
  BY NextHeapInv
<1> QED
  BY <1>1, <1>2, PTL DEF Spec
-----------------------------------------------------------------------------
(* mHeapSize, mList, the regions and the result keep their types, and no   *)
(* chunk is ever empty: dealloc()'s loop never meets cur->size = 0.        *)
THEOREM HeapTypeCorrect == Spec => []TypeOK
<1>1. HeapInv => TypeOK
  <2> SUFFICES ASSUME HeapInv
               PROVE  TypeOK
    OBVIOUS
  <2>1. \A i \in 1..Len(mList) : mList[i].size > 0
    <3>1. CASE mList = <<>>
      BY <3>1
    <3>2. CASE Segment(mList)
      BY <3>2 DEF Segment, NoneEmpty
    <3> QED
      BY <3>1, <3>2 DEF HeapInv, Shape, Covers
  <2>2. ASSUME NEW r \in live
        PROVE  r \in [off : Nat, size : Nat \ {0}]
    <3>1. PICK i \in 1..Len(mList) : r = Region(mList[i])
      BY DEF HeapInv, LiveIsUsed, Used
    <3>2. mList[i].start \in Nat /\ mList[i].size \in Nat
      BY ChunkFields DEF HeapInv
    <3>3. mList[i].size \in Nat \ {0}
      BY <2>1, <3>2
    <3> QED
      BY <3>1, <3>2, <3>3 DEF Region
  <2> QED
    BY <2>1, <2>2 DEF HeapInv, TypeOK
<1> QED
  BY <1>1, HeapInvariance, PTL

(* Whatever is split and merged, the chunks cover the heap without gap or  *)
(* overlap.                                                                *)
THEOREM HeapTiled == Spec => []Tiled
<1>1. HeapInv => Tiled
  <2> SUFFICES ASSUME HeapInv
               PROVE  Tiled
    OBVIOUS
  <2>1. CASE mHeapSize = 0 /\ mList = <<>>
    BY <2>1 DEF Tiled
  <2>2. CASE mHeapSize # 0 /\ Covers(mList, mHeapSize)
    <3>1. mList # <<>>
      BY <2>2 DEF Covers, Segment
    <3> QED
      BY <2>2, <3>1 DEF Tiled, Covers, Segment, Adjoining, End
  <2> QED
    BY <2>1, <2>2 DEF HeapInv, Shape
<1> QED
  BY <1>1, HeapInvariance, PTL

(* dealloc() always coalesces completely.                                  *)
THEOREM FullyCoalesced == Spec => []NoAdjacentFree
<1>1. HeapInv => NoAdjacentFree
  <2>1. mList = <<>> => NoAdjacentFree
    BY DEF NoAdjacentFree
  <2> QED
    BY <2>1 DEF HeapInv, Shape, Covers, Segment, Coalesced, NoAdjacentFree
<1> QED
  BY <1>1, HeapInvariance, PTL

(* What is handed out starts on a page boundary.                           *)
THEOREM HandsOutPages == Spec => []PageAligned
<1>1. HeapInv => PageAligned
  <2>1. mList = <<>> => PageAligned
    BY DEF PageAligned
  <2> QED
    BY <2>1 DEF HeapInv, Shape, Covers, Segment, Aligned, PageAligned
<1> QED
  BY <1>1, HeapInvariance, PTL

(* The list never forgets a region a caller holds, and never keeps one     *)
(* that was given back.                                                    *)
THEOREM ListKnowsRegions == Spec => []LiveIsUsed
<1>1. HeapInv => LiveIsUsed
  BY DEF HeapInv
<1> QED
  BY <1>1, HeapInvariance, PTL

(* Two callers never hold the same unit of the heap.                       *)
THEOREM RegionsDisjoint == Spec => []LiveDisjoint
<1>1. HeapInv => LiveDisjoint
  <2> SUFFICES ASSUME HeapInv
               PROVE  LiveDisjoint
    OBVIOUS
  <2>1. CASE mList = <<>>
    <3>1. live = {}
      BY <2>1, EmptyUsed DEF HeapInv, LiveIsUsed
    <3> QED
      BY <3>1 DEF LiveDisjoint
  <2>2. CASE Covers(mList, mHeapSize)
    <3>1. /\ Segment(mList) /\ mList \in Seq(Chunk) /\ live = Used(mList)
          /\ Len(mList) \in Nat /\ Len(mList) > 0
          /\ End(mList[Len(mList)]) = mHeapSize
      BY <2>2, ChunkFields DEF Covers, Segment, HeapInv, LiveIsUsed
    <3>2. \A i \in 1..Len(mList) : /\ mList[i].start \in Nat /\ mList[i].size \in Nat
                                  /\ End(mList[i]) \in Nat
      BY <3>1, ChunkFields DEF End
    <3>3. \A i, j \in 1..Len(mList) : i < j => End(mList[i]) <= mList[j].start
      BY <3>1 DEF Segment, Ordered
    <3>4. ASSUME NEW r \in live
          PROVE  r.off + r.size <= mHeapSize
      <4>1. PICK i \in 1..Len(mList) : r.off + r.size = End(mList[i])
        BY <3>1 DEF Used, Region, End
      <4>2. i = Len(mList) \/ i < Len(mList)
        BY <3>1
      <4>3. CASE i < Len(mList)
        <5>1. Len(mList) \in 1..Len(mList)
          BY <3>1
        <5>2. End(mList[i]) <= mList[Len(mList)].start
          BY <3>3, <4>3, <5>1
        <5>3. mList[Len(mList)].start <= mHeapSize
          BY <3>1, <3>2, <5>1 DEF End
        <5> QED
          BY <3>1, <3>2, <4>1, <5>1, <5>2, <5>3
      <4>4. CASE i = Len(mList)
        BY <3>1, <3>2, <4>1, <4>4
      <4> QED
        BY <4>2, <4>3, <4>4
    <3>5. ASSUME NEW r \in live, NEW s \in live, r # s
          PROVE  r.off + r.size <= s.off \/ s.off + s.size <= r.off
      <4>1. PICK i \in 1..Len(mList) : r = Region(mList[i])
        BY <3>1 DEF Used
      <4>2. PICK j \in 1..Len(mList) : s = Region(mList[j])
        BY <3>1 DEF Used
      <4>3. i < j \/ j < i
        BY <3>1, <3>5, <4>1, <4>2
      <4>4. /\ r.off = mList[i].start /\ r.off + r.size = End(mList[i])
            /\ s.off = mList[j].start /\ s.off + s.size = End(mList[j])
        BY <4>1, <4>2 DEF Region, End
      <4> QED
        BY <3>3, <4>3, <4>4
    <3> QED
      BY <3>4, <3>5 DEF LiveDisjoint
  <2> QED
    BY <2>1, <2>2 DEF HeapInv, Shape
<1> QED
  BY <1>1, HeapInvariance, PTL
-----------------------------------------------------------------------------
(* Every unit of the heap is in some chunk: the first chunk that ends      *)
(* after it.                                                               *)
LEMMA ChunkOfUnit ==
    ASSUME NEW list, NEW heap \in Nat, Covers(list, heap), NEW u \in Nat, u < heap
    PROVE  \E i \in 1..Len(list) : list[i].start <= u /\ u < End(list[i])
<1> DEFINE n == Len(list)
           T == {i \in 1..n : u < End(list[i])}
<1>1. /\ list \in Seq(Chunk) /\ n \in Nat /\ n > 0
      /\ End(list[n]) = heap /\ list[1].start = 0
      /\ \A i \in 1..(n - 1) : End(list[i]) = list[i + 1].start
  BY ChunkFields DEF Covers, Segment, Adjoining
<1>2. \A i \in 1..n : list[i].start \in Nat /\ End(list[i]) \in Nat
  BY <1>1, ChunkFields DEF End
<1>3. n \in T /\ T \subseteq Nat
  BY <1>1
<1>4. PICK i \in T : \A j \in T : i <= j
  BY <1>3, LeastNat
<1> HIDE DEF n
<1>5. list[i].start <= u
  <2>1. CASE i = 1
    BY <1>1, <2>1
  <2>2. CASE i > 1
    <3>1. i - 1 \in 1..(n - 1) /\ i - 1 \in 1..n /\ (i - 1) + 1 = i /\ ~(i <= i - 1)
      BY <1>1, <2>2
    <3>2. ~(u < End(list[i - 1]))
      BY <1>4, <3>1
    <3>3. End(list[i - 1]) = list[i].start
      BY <1>1, <3>1
    <3> QED
      BY <1>2, <3>1, <3>2, <3>3
  <2> QED
    BY <1>1, <1>4, <2>1, <2>2
<1> QED
  BY <1>4, <1>5 DEF n

(* A multiple of the page size at or after n is at or after n's boundary.  *)
LEMMA ExtraLeast ==
    ASSUME NEW n \in Nat, NEW off \in Nat, n <= off, off % PageUnits = 0
    PROVE  n + Extra(n) <= off
<1>1. PICK p \in Int : off = PageUnits * p
  <2>1. off \div PageUnits \in Int /\ off = PageUnits * (off \div PageUnits) + (off % PageUnits)
    BY PageAssumption
  <2>2. PageUnits * (off \div PageUnits) \in Int
    BY <2>1, PageAssumption
  <2>3. off = PageUnits * (off \div PageUnits)
    BY <2>1, <2>2
  <2> QED
    BY <2>1, <2>3
<1>2. /\ (-n) % PageUnits \in 0..(PageUnits - 1)
      /\ (-n) \div PageUnits \in Int
      /\ -n = PageUnits * ((-n) \div PageUnits) + ((-n) % PageUnits)
  BY PageAssumption
<1>3. PICK q \in Int, x \in 0..(PageUnits - 1) : x = Extra(n) /\ -n = PageUnits * q + x
  BY <1>2 DEF Extra
<1>4. n + x = PageUnits * (-q)
  BY <1>3, PageAssumption
<1>5. ASSUME off < n + x
      PROVE  FALSE
  <2>1. PageUnits * p < PageUnits * (-q)
    BY <1>1, <1>4, <1>5
  <2>2. p < -q
    BY <2>1, PageAssumption
  <2>3. PageUnits * p <= PageUnits * (-q) - PageUnits
    <3>1. p <= (-q) - 1
      BY <2>2
    <3> QED
      BY <3>1, PageAssumption, SMTT(60)
  <2> QED
    BY <1>1, <1>4, <2>3, PageAssumption
<1> QED
  BY <1>3, <1>5, PageAssumption

(* A place for a request lies in one free chunk, and that chunk fits.      *)
LEMMA PlaceFits ==
    ASSUME HeapInv, mHeapSize # 0, NEW size \in Nat \ {0}, NEW off \in Heap!Places(size)
    PROVE  Fitting(mList, size) # {}
<1>1. /\ Covers(mList, mHeapSize) /\ mHeapSize \in Nat
      /\ Segment(mList) /\ mList \in Seq(Chunk) /\ Len(mList) \in Nat
      /\ live = Used(mList)
  BY ChunkFields DEF HeapInv, Shape, Covers, LiveIsUsed
<1>2. /\ off \in Nat /\ off % PageUnits = 0 /\ off + size <= mHeapSize
      /\ \A r \in live : ~(off < r.off + r.size /\ r.off < off + size)
  BY <1>1 DEF Heap!Places, Heap!Overlap
<1>0. off < mHeapSize
  BY <1>1, <1>2
<1>3. PICK i \in 1..Len(mList) : mList[i].start <= off /\ off < End(mList[i])
  <2> HIDE DEF Heap!Places
  <2> QED BY <1>0, <1>1, <1>2, ChunkOfUnit
<1>4. /\ \A k \in 1..Len(mList) : /\ mList[k].start \in Nat /\ mList[k].size \in Nat
                                  /\ mList[k].free \in BOOLEAN /\ mList[k].size > 0
  BY <1>1, ChunkFields DEF Segment, NoneEmpty
<1>5. ASSUME NEW k \in 1..Len(mList), ~mList[k].free
      PROVE  ~(off < End(mList[k]) /\ mList[k].start < off + size)
  <2>1. Region(mList[k]) \in live
    BY <1>1, <1>5 DEF Used
  <2>2. /\ Region(mList[k]).off = mList[k].start
        /\ Region(mList[k]).off + Region(mList[k]).size = End(mList[k])
    BY DEF Region, End
  <2> QED
    BY <1>2, <2>1, <2>2
<1>6. mList[i].free
  BY <1>2, <1>3, <1>4, <1>5
<1>7. off + size <= End(mList[i])
  <2> SUFFICES ASSUME off + size > End(mList[i])
               PROVE  FALSE
    BY <1>2, <1>4 DEF End
  <2>1. i < Len(mList)
    <3>1. End(mList[Len(mList)]) = mHeapSize
      BY <1>1 DEF Covers
    <3> QED
      BY <1>1, <1>2, <3>1
  <2>2. i \in 1..(Len(mList) - 1) /\ i + 1 \in 1..Len(mList)
    BY <1>1, <2>1
  <2>3. End(mList[i]) = mList[i + 1].start /\ ~mList[i + 1].free
    BY <1>1, <1>6, <2>2 DEF Segment, Adjoining, Coalesced
  <2>4. mList[i + 1].start < End(mList[i + 1])
    BY <1>4, <2>2 DEF End
  <2>5. ~(off < End(mList[i + 1]) /\ mList[i + 1].start < off + size)
    BY <1>5, <2>2, <2>3
  <2>6. /\ mList[i + 1].start \in Nat /\ End(mList[i + 1]) \in Nat
        /\ off < mList[i + 1].start /\ mList[i + 1].start < off + size
    BY <1>2, <1>3, <1>4, <2>2, <2>3 DEF End
  <2> QED
    BY <1>2, <2>4, <2>5, <2>6
<1>8. mList[i].start + Extra(mList[i].start) <= off /\ Extra(mList[i].start) \in Nat
  BY <1>2, <1>3, <1>4, ExtraLeast, ExtraBound
<1>9. mList[i].size >= size + Extra(mList[i].start)
  BY <1>2, <1>4, <1>7, <1>8 DEF End
<1> QED
  BY <1>6, <1>9 DEF Fitting, Fits

(* What allocate() returns is a place.                                     *)
LEMMA ChosenPlace ==
    ASSUME HeapInv, mHeapSize # 0, NEW size \in Nat \ {0}, NEW i \in Fitting(mList, size)
    PROVE  mList[i].start + Extra(mList[i].start) \in Heap!Places(size)
<1> DEFINE off == mList[i].start + Extra(mList[i].start)
<1>1. /\ Covers(mList, mHeapSize) /\ mHeapSize \in Nat
      /\ Segment(mList) /\ mList \in Seq(Chunk) /\ Len(mList) \in Nat
      /\ live = Used(mList)
  BY ChunkFields DEF HeapInv, Shape, Covers, LiveIsUsed
<1>2. /\ i \in 1..Len(mList) /\ mList[i].free
      /\ mList[i].size >= size + Extra(mList[i].start)
  BY DEF Fitting, Fits
<1>3. \A k \in 1..Len(mList) : /\ mList[k].start \in Nat /\ mList[k].size \in Nat
                              /\ End(mList[k]) \in Nat
  BY <1>1, ChunkFields DEF End
<1>4. \A j, k \in 1..Len(mList) : j < k => End(mList[j]) <= mList[k].start
  BY <1>1 DEF Segment, Ordered
<1>5. /\ off \in Nat /\ off % PageUnits = 0
      /\ mList[i].start <= off /\ off + size <= End(mList[i])
  <2>1. Extra(mList[i].start) \in Nat /\ off % PageUnits = 0
    BY <1>2, <1>3, ExtraBound
  <2> QED
    BY <1>2, <1>3, <2>1 DEF End
<1> HIDE DEF off
<1>6. End(mList[i]) <= mHeapSize
  <2>1. End(mList[Len(mList)]) = mHeapSize /\ Len(mList) \in 1..Len(mList)
    BY <1>1, <1>2 DEF Covers
  <2>2. i = Len(mList) \/ End(mList[i]) <= mList[Len(mList)].start
    BY <1>1, <1>2, <1>4, <2>1
  <2>3. mList[Len(mList)].start <= mHeapSize
    BY <1>3, <2>1 DEF End
  <2> QED
    BY <1>1, <1>2, <1>3, <2>1, <2>2, <2>3
<1>7. ASSUME NEW r \in live
      PROVE  ~Heap!Overlap([off |-> off, size |-> size], r)
  <2>1. PICK k \in 1..Len(mList) : ~mList[k].free /\ r = Region(mList[k])
    BY <1>1 DEF Used
  <2>2. r.off = mList[k].start /\ r.off + r.size = End(mList[k])
    BY <2>1 DEF Region, End
  <2>3. k < i \/ i < k
    BY <1>1, <1>2, <2>1
  <2>4. End(mList[k]) <= mList[i].start \/ End(mList[i]) <= mList[k].start
    BY <1>2, <1>4, <2>3
  <2>5. ~(off < r.off + r.size /\ r.off < off + size)
    BY <1>2, <1>3, <1>5, <2>2, <2>4
  <2> QED
    BY <2>5 DEF Heap!Overlap
<1>8. off \in 0..mHeapSize /\ off + size <= mHeapSize
  BY <1>1, <1>2, <1>3, <1>5, <1>6
<1> QED
  BY <1>5, <1>7, <1>8 DEF Heap!Places, off

(* A call of SimpleBestFitAllocator is a step of RegionHeap, or changes    *)
(* nothing RegionHeap can see.                                             *)
LEMMA RefinesStep == HeapInv /\ [Next]_vars => [Heap!Next]_(Heap!vars)
<1> SUFFICES ASSUME HeapInv, [Next]_vars
             PROVE  Heap!Next \/ UNCHANGED Heap!vars
  OBVIOUS
<1>1. ASSUME NEW size \in HeapSizes, setSize(size)
      PROVE  Heap!SetSize
  <2>1. CASE mHeapSize = 0
    <3>1. /\ size \in Nat
          /\ mHeapSize' = size + Extra(size) /\ ret' = size /\ UNCHANGED live
      BY <1>1, <2>1, HeapSizesAssumption DEF setSize, RoundUpToPage
    <3>2. Extra(size) \in 0..(PageUnits - 1) /\ (size + Extra(size)) % PageUnits = 0
      BY <3>1, ExtraBound
    <3>3. size + Extra(size) \in size..(size + PageUnits - 1)
      BY <3>1, <3>2, PageAssumption
    <3> QED
      BY <2>1, <3>1, <3>2, <3>3 DEF Heap!SetSize
  <2>2. CASE mHeapSize # 0
    BY <1>1, <2>2 DEF setSize, Heap!SetSize, EINVAL, Heap!EINVAL
  <2> QED
    BY <2>1, <2>2
<1>2. ASSUME NEW size \in Sizes, allocate(size)
      PROVE  \/ Heap!AllocateNothing
             \/ \E s \in Sizes \ {0} : Heap!Allocate(s)
             \/ Heap!RefuseDeallocate
  <2>1. CASE allocateNothing
    BY <2>1 DEF allocateNothing, Heap!AllocateNothing
  <2>2. CASE allocateChunk(size)
    <3>1. /\ size \in Nat \ {0} /\ mHeapSize # 0
          /\ Fitting(mList, size) # {} /\ mList \in Seq(Chunk)
      BY <2>2, SizesAssumption DEF allocateChunk, HeapInv
    <3> DEFINE i == BestFit(mList, size)
               off == mList[i].start + Extra(mList[i].start)
    <3>2. off \in Heap!Places(size)
      BY <3>1, BestFitFits, ChosenPlace
    <3>3. /\ live' = live \cup {[off |-> off, size |-> size]}
          /\ ret' = off /\ UNCHANGED mHeapSize
      BY <2>2 DEF allocateChunk
    <3> QED
      BY <3>1, <3>2, <3>3 DEF Heap!Allocate
  <2>3. CASE allocateFails(size)
    <3>1. CASE mHeapSize = 0
      <4>1. ret' = -EINVAL /\ UNCHANGED <<mHeapSize, live>>
        BY <2>3, <3>1 DEF allocateFails
      <4> QED
        BY <3>1, <4>1 DEF Heap!RefuseDeallocate, EINVAL, Heap!EINVAL
    <3>2. CASE mHeapSize # 0
      <4>1. /\ size # 0 /\ Fitting(mList, size) = {} /\ ret' = -ENOMEM
            /\ UNCHANGED <<mHeapSize, live>>
        BY <2>3, <3>2 DEF allocateFails
      <4>2. Heap!Places(size) = {}
        BY <3>2, <4>1, SizesAssumption, PlaceFits
      <4> QED
        BY <3>2, <4>1, <4>2 DEF Heap!Allocate, ENOMEM, Heap!ENOMEM
    <3> QED
      BY <3>1, <3>2
  <2> QED
    BY <1>2, <2>1, <2>2, <2>3 DEF allocate
<1>3. ASSUME NEW r \in live, deallocate(r)
      PROVE  Heap!Deallocate(r)
  BY <1>3 DEF deallocate, Heap!Deallocate
<1>4. ASSUME NEW offset \in 0..mHeapSize, deallocateUnknown(offset)
      PROVE  Heap!RefuseDeallocate
  BY <1>4 DEF deallocateUnknown, Heap!RefuseDeallocate,
              EINVAL, ENOENT, Heap!EINVAL, Heap!ENOENT
<1>5. CASE UNCHANGED vars
  BY <1>5 DEF vars, Heap!vars
<1> QED
  BY <1>1, <1>2, <1>3, <1>4, <1>5 DEF Next, Heap!Next

(* The allocator is a RegionHeap: best fit, splitting and coalescing never *)
(* refuse a request some page of the heap has room for.                    *)
THEOREM ImplementsRegionHeap == Spec => HeapSpec
<1>1. Init => Heap!Init
  BY DEF Init, Heap!Init
<1>2. HeapInv /\ [Next]_vars => [Heap!Next]_(Heap!vars)
  BY RefinesStep
<1> QED
  BY <1>1, <1>2, HeapInvariance, PTL DEF Spec, HeapSpec, Heap!Spec
-----------------------------------------------------------------------------
(***************************************************************************)
(* ExclusiveWriter, CountAccounted and HolderMapped hold in every state of *)
(* HandleLock, for every finite set of threads and every set of addresses. *)
(*                                                                         *)
(* None of them is inductive.  LockInv adds to them what the two           *)
(* compare-and-swap loops know of the word they have read (LockSwap,       *)
(* UnlockSwap), that a call that locked for writing is alone (Alone) and   *)
(* finds its tid in writeOwner (Owned), that what it wrote will be flushed *)
(* (FlushPending), and how the mapping goes with sMapLock and with         *)
(* LOCK_STATE_MAPPED (MapLocked, MappedOnce, Given).                       *)
(***************************************************************************)

PCs == {"idle", "lock_load", "lock_cas", "map_failed"} \cup Inside

Call == [usage : Usages, current : LockState, new : LockState,
         vaddr : Addresses \cup {0}]

Calling(t) == pc[t] \in Inside

Writer(t) == Writes(call[t].usage)

LockTypes ==
    /\ kind \in Kinds
    /\ registered \in BOOLEAN
    /\ lockState \in LockState
    /\ base \in Addresses \cup {0}
    /\ pc \in [Threads -> PCs]
    /\ call \in [Threads -> Call]
    /\ abandoned \in Nat

Unregistered ==
    ~registered =>
        /\ kind = "imported"
        /\ abandoned = 0
        /\ mappings = {}
        /\ \A t \in Threads : pc[t] = "idle"

LockSwap ==
    \A t \in Threads : pc[t] = "lock_cas" =>
        /\ ~call[t].current.write
        /\ Writer(t) => call[t].current.count = 0
        /\ call[t].new.write = Writer(t)
        /\ call[t].new.mapped = call[t].current.mapped
        /\ call[t].new.count = call[t].current.count + 1

UnlockSwap ==
    \A t \in Threads : pc[t] = "unlock_cas" =>
        /\ call[t].current.count > 0
        /\ call[t].new.count = call[t].current.count - 1
        /\ call[t].new.mapped = call[t].current.mapped
        /\ call[t].new.write => call[t].current.write
        /\ Writer(t) => lockState = call[t].current /\ ~call[t].new.write

Alone ==
    /\ \A t \in Threads : Calling(t) /\ Writer(t) =>
           /\ lockState.write
           /\ \A u \in Threads : Calling(u) => u = t
    /\ lockState.write => \A t \in Threads : Calling(t) => Writer(t)

Owned ==
    \A t \in Threads :
        /\ pc[t] = "lock_owner" => call[t].new.write = Writer(t)
        /\ Calling(t) /\ Writer(t) /\ pc[t] \notin {"lock_owner", "unlock_cas"} =>
               writeOwner = t

Flagged ==
    {"map_lock", "map", "map_or", "map_unlock", "lock_base", "holding", "unlock_flush"}

FlushPending ==
    /\ \A t \in Threads : pc[t] \in Flagged /\ CachedWrite(call[t].usage) => needsFlush
    /\ cache = "written" =>
            /\ needsFlush
            /\ \E t \in Threads : pc[t] \in {"holding", "unlock_flush"} /\ Writer(t)

Mapping == {"map", "map_or", "map_unlock", "map_failed"}

MapLocked == \A t \in Threads : pc[t] \in Mapping <=> mapLock = t

MappedOnce ==
    registered =>
        IF kind = "framebuffer" \/ lockState.mapped \/ (\E t \in Threads : pc[t] = "map_or")
        THEN mappings = {base}
        ELSE mappings = {}

Given ==
    \A t \in Threads :
        /\ pc[t] \in {"map_unlock", "lock_base"} => lockState.mapped
        /\ pc[t] \in {"lock_owner", "lock_flag"} /\ call[t].current.mapped =>
               lockState.mapped
        /\ pc[t] = "holding" /\ Sw(call[t].usage) =>
               lockState.mapped /\ call[t].vaddr = base

LockInv ==
    /\ LockTypes
    /\ Unregistered
    /\ CountAccounted
    /\ LockSwap
    /\ UnlockSwap
    /\ Alone
    /\ Owned
    /\ FlushPending
    /\ MapLocked
    /\ MappedOnce
    /\ Given
-----------------------------------------------------------------------------
(* The number of threads that are inside a call, when one enters or leaves *)
(* it.                                                                     *)
Calls(f) == {t \in Threads : f[t] \in Inside}

(* The calls in progress can be counted: there are finitely many threads.  *)
LEMMA CallsFinite ==
    ASSUME NEW f
    PROVE  IsFiniteSet(Calls(f)) /\ Cardinality(Calls(f)) \in Nat
BY ThreadsAssumption, FS_Subset, FS_CardinalityType DEF Calls

(* One more thread inside makes one more call.                             *)
LEMMA CallsEnter ==
    ASSUME NEW f, NEW g, NEW t \in Threads, f[t] \notin Inside, g[t] \in Inside,
           \A u \in Threads \ {t} : g[u] = f[u]
    PROVE  Cardinality(Calls(g)) = Cardinality(Calls(f)) + 1
<1>1. Calls(g) = Calls(f) \cup {t} /\ t \notin Calls(f)
    BY DEF Calls
<1> QED
    BY <1>1, CallsFinite, FS_AddElement

(* One thread fewer inside makes one call fewer.                           *)
LEMMA CallsLeave ==
    ASSUME NEW f, NEW g, NEW t \in Threads, f[t] \in Inside, g[t] \notin Inside,
           \A u \in Threads \ {t} : g[u] = f[u]
    PROVE  Cardinality(Calls(g)) = Cardinality(Calls(f)) - 1
<1>1. Cardinality(Calls(f)) = Cardinality(Calls(g)) + 1
    BY CallsEnter
<1> QED
    BY <1>1, CallsFinite

(* Steps within a call do not change the number of calls.                  *)
LEMMA CallsStay ==
    ASSUME NEW f, NEW g, \A u \in Threads : g[u] \in Inside <=> f[u] \in Inside
    PROVE  Cardinality(Calls(g)) = Cardinality(Calls(f))
BY DEF Calls

(* With every thread outside there are no calls.                           *)
LEMMA CallsNone ==
    ASSUME NEW f, \A u \in Threads : f[u] \notin Inside
    PROVE  Cardinality(Calls(f)) = 0
<1>1. Calls(f) = {}
    BY DEF Calls
<1> QED
    BY <1>1, FS_EmptySet

(* CountAccounted in terms of the threads that are inside.                 *)
LEMMA CountIs ==
    CountAccounted <=> (registered => lockState.count = Cardinality(Calls(pc)) + abandoned)
BY Zenon DEF CountAccounted, Calls

(* The same of the next state.                                             *)
LEMMA CountIsNext ==
    CountAccounted' <=>
        (registered' => lockState'.count = Cardinality(Calls(pc')) + abandoned')
BY Zenon DEF CountAccounted, Calls

(* A count of 0 is the count of a buffer that nobody holds.                *)
LEMMA NobodyInside ==
    ASSUME LockTypes, CountAccounted, registered, lockState.count = 0
    PROVE  \A t \in Threads : ~Calling(t)
<1>1. Cardinality(Calls(pc)) = 0
    BY CountIs, CallsFinite DEF LockTypes, LockState
<1> QED
    BY <1>1, CallsFinite, FS_EmptySet DEF Calls, Calling
-----------------------------------------------------------------------------
(* The invariant holds of a created buffer and of one that is not          *)
(* registered.                                                             *)
LEMMA InitLockInv == LockInit => LockInv
<1> SUFFICES ASSUME LockInit PROVE LockInv
    OBVIOUS
<1> USE DEF LockInit
<1>1. LockTypes
    <2>1. NoCall \in Call
        BY DEF NoCall, Call, Usages, LockState, Unlocked
    <2>2. lockState \in LockState
        <3>1. CASE kind = "imported"
            <4>1. Unlocked \in LockState
                BY DEF LockState, Unlocked
            <4>2. [write |-> TRUE, mapped |-> TRUE, count |-> 1] \in LockState
                BY DEF LockState
            <4> QED
                BY <3>1, <4>1, <4>2, Zenon
        <3>2. CASE kind = "own"
            <4>1. lockState = [Unlocked EXCEPT !.mapped = TRUE]
                BY <3>2
            <4> QED
                BY <4>1 DEF LockState, Unlocked
        <3>3. CASE kind = "framebuffer"
            <4>1. lockState = [Unlocked EXCEPT !.mapped = FALSE]
                BY <3>3
            <4> QED
                BY <4>1 DEF LockState, Unlocked
        <3> QED
            BY <3>1, <3>2, <3>3 DEF Kinds
    <2> QED
        BY <2>1, <2>2 DEF LockTypes, PCs
<1>2. CountAccounted
    <2>1. Cardinality(Calls(pc)) = 0
        BY CallsNone DEF Inside
    <2>2. registered => lockState.count = 0 /\ abandoned = 0
        BY DEF Kinds, Unlocked
    <2> QED
        BY <2>1, <2>2, CountIs
<1>3. Unregistered /\ MapLocked /\ MappedOnce
    BY NoThreadAssumption DEF Unregistered, MapLocked, Mapping, MappedOnce, Kinds, Unlocked
<1>4. LockSwap /\ UnlockSwap /\ Alone /\ Owned /\ FlushPending /\ Given
    BY DEF LockSwap, UnlockSwap, Alone, Owned, FlushPending, Flagged, Given, Calling, Inside
<1> QED
    BY <1>1, <1>2, <1>3, <1>4 DEF LockInv

(* A step that moves no thread into or out of a call leaves the count.     *)
LEMMA CountStays ==
    ASSUME CountAccounted, registered' => registered, abandoned' = abandoned,
           lockState'.count = lockState.count,
           \A t \in Threads : pc'[t] \in Inside <=> pc[t] \in Inside
    PROVE  CountAccounted'
<1>1. Cardinality(Calls(pc')) = Cardinality(Calls(pc))
    BY CallsStay
<1> QED
    BY <1>1, CountIs, CountIsNext

(* The words that gralloc_lock() and gralloc_unlock() try to store.        *)
LEMMA LockedIs ==
    ASSUME LockTypes, NEW u \in Usages
    PROVE  /\ Locked(u) \in LockState
           /\ Locked(u).write = (lockState.write \/ Writes(u))
           /\ Locked(u).mapped = lockState.mapped
           /\ Locked(u).count = lockState.count + 1
<1>1. PICK b \in BOOLEAN : b = (lockState.write \/ Writes(u))
    OBVIOUS
<1>2. lockState.count + 1 \in Nat /\ lockState \in LockState
    BY DEF LockTypes, LockState
<1>3. Locked(u) = [lockState EXCEPT !.write = b, !.count = lockState.count + 1]
    BY <1>1 DEF Locked
<1>4. Locked(u) \in LockState /\ Locked(u).write = b
      /\ Locked(u).mapped = lockState.mapped /\ Locked(u).count = lockState.count + 1
    BY <1>2, <1>3 DEF LockState
<1> QED
    BY <1>1, <1>4

(* The word that unlock() swaps in, for one holder less.                   *)
LEMMA ReleasedIs ==
    ASSUME LockTypes, lockState.count > 0, NEW o \in BOOLEAN
    PROVE  /\ Released(o) \in LockState
           /\ Released(o).write = (lockState.write /\ ~o)
           /\ Released(o).mapped = lockState.mapped
           /\ Released(o).count = lockState.count - 1
<1>1. PICK b \in BOOLEAN : b = (lockState.write /\ ~o)
    OBVIOUS
<1>2. lockState.count - 1 \in Nat /\ lockState \in LockState
    BY DEF LockTypes, LockState
<1>3. Released(o) = [lockState EXCEPT !.write = b, !.count = lockState.count - 1]
    BY <1>1 DEF Released
<1>4. Released(o) \in LockState /\ Released(o).write = b
      /\ Released(o).mapped = lockState.mapped /\ Released(o).count = lockState.count - 1
    BY <1>2, <1>3 DEF LockState
<1> QED
    BY <1>1, <1>4
-----------------------------------------------------------------------------
(* Registering makes a fresh, unlocked and unmapped handle.                *)
LEMMA register_bufferStep ==
    ASSUME LockInv, register_buffer
    PROVE  LockInv'
<1> USE DEF LockInv, register_buffer, Goto, handle
<1>1. LockTypes'
    <2>1. lockState' \in LockState
        BY DEF LockState, Unlocked
    <2> QED
        BY <2>1 DEF LockTypes
<1>2. CountAccounted'
    <2>1. Cardinality(Calls(pc')) = 0
        BY CallsNone DEF Unregistered, Inside
    <2>2. lockState'.count = 0 /\ abandoned' = 0
        BY DEF Unregistered, Unlocked
    <2> QED
        BY <2>1, <2>2, CountIsNext
<1>3. UnlockSwap'
    BY DEF Unregistered, UnlockSwap
<1>4. Alone'
    BY DEF Unregistered, Alone, Calling, Inside, Unlocked
<1>5. Owned'
    BY DEF Unregistered, Owned, Calling, Inside
<1>6. MappedOnce'
    BY DEF Unregistered, MappedOnce, Unlocked
<1>7. Unregistered' /\ LockSwap' /\ FlushPending' /\ MapLocked' /\ Given'
    BY DEF LockTypes, Unregistered, Inside, Call, LockSwap, Writer,
       FlushPending, Flagged, CachedWrite, Alone, Calling, Writes, MapLocked, Mapping,
       LockState, Given, MappedOnce
<1> QED
    BY <1>1, <1>2, <1>3, <1>4, <1>5, <1>6, <1>7

(* Unregistering happens outside every call and unmaps what is mapped.     *)
LEMMA unregister_bufferStep ==
    ASSUME LockInv, unregister_buffer
    PROVE  LockInv'
<1> USE DEF LockInv, unregister_buffer, Goto, handle
<1>1. LockTypes'
    <2>1. lockState' \in LockState
        BY DEF LockState, Unlocked
    <2> QED
        BY <2>1 DEF LockTypes
<1>2. Unregistered'
    BY DEF LockTypes, Unregistered, MappedOnce
<1>3. CountAccounted'
    BY CountIsNext
<1>4. Alone'
    BY DEF Alone, Calling, Inside, Unlocked
<1>5. LockSwap' /\ UnlockSwap' /\ Owned' /\ FlushPending' /\ MapLocked'
      /\ MappedOnce' /\ Given'
    BY DEF LockTypes, Call, LockSwap, Writer, LockState, UnlockSwap, Alone,
       Calling, Inside, Owned, FlushPending, Flagged, CachedWrite, Writes, MapLocked,
       Mapping, MappedOnce, Unregistered, Given
<1> QED
    BY <1>1, <1>2, <1>3, <1>4, <1>5

(* The call begins; nothing shared is touched.                             *)
LEMMA lockStep ==
    ASSUME LockInv, NEW t \in Threads, lock(t)
    PROVE  LockInv'
<1> USE DEF LockInv, lock, Goto, handle
<1>1. CountAccounted'
    BY CountStays DEF LockTypes, Inside
<1>2. LockTypes' /\ Unregistered' /\ LockSwap' /\ UnlockSwap' /\ Alone'
      /\ Owned' /\ FlushPending' /\ MapLocked' /\ MappedOnce' /\ Given'
    BY DEF LockTypes, PCs, Inside, Call, LockState, Unregistered, LockSwap,
       Writer, UnlockSwap, Alone, Calling, Owned, FlushPending, Flagged, CachedWrite,
       Writes, MapLocked, Mapping, MappedOnce, Given
<1> QED
    BY <1>1, <1>2

(* The word is read, or the call is refused.                               *)
LEMMA lockLoadStep ==
    ASSUME LockInv, NEW t \in Threads, lockLoad(t)
    PROVE  LockInv'
<1> USE DEF LockInv, lockLoad, Return, Goto, handle
<1>1. LockTypes'
    <2>1. NoCall \in Call
        BY DEF NoCall, Call, Usages, LockState, Unlocked
    <2>2. Locked(call[t].usage) \in LockState
        BY LockedIs DEF LockTypes, Call
    <2>3. call' \in [Threads -> Call]
        BY <2>1, <2>2 DEF LockTypes, Call
    <2>4. pc' \in [Threads -> PCs]
        BY DEF LockTypes, PCs, Inside
    <2> QED
        BY <2>3, <2>4 DEF LockTypes
<1>2. CountAccounted'
    BY CountStays DEF LockTypes, Inside
<1>3. LockSwap'
    BY LockedIs DEF LockTypes, LockSwap, Busy, Writes, Writer, LockState, Call
<1>4. Alone'
    BY DEF LockTypes, Call, Alone, Calling, Inside, Writer
<1>5. Owned'
    BY DEF LockTypes, Call, Owned, Alone, Calling, Inside, Writer
<1>6. FlushPending'
    BY DEF LockTypes, Call, FlushPending, Flagged, CachedWrite, Writer, Alone,
       Calling, Inside, Writes
<1>7. MappedOnce'
    BY DEF LockTypes, LockState, MappedOnce, MapLocked, Mapping, Unregistered
<1>8. Given'
    BY DEF LockTypes, Call, LockState, Given, MapLocked, Mapping, MappedOnce,
       Unregistered
<1>9. Unregistered' /\ UnlockSwap' /\ MapLocked'
    BY DEF LockTypes, Unregistered, Inside, Call, LockState, UnlockSwap,
       Writer, Alone, Calling, MapLocked, Mapping
<1> QED
    BY <1>1, <1>2, <1>3, <1>4, <1>5, <1>6, <1>7, <1>8, <1>9

(* The word a locker stores is computed from the word it still finds.  A   *)
(* writer read a count of 0, so it finds nobody inside.                    *)
LEMMA lockSwapStep ==
    ASSUME LockInv, NEW t \in Threads, lockSwap(t)
    PROVE  LockInv'
<1> USE DEF LockInv, lockSwap, Swap, Goto, handle
<1>1. LockTypes'
    <2>1. lockState' \in LockState
        BY DEF LockTypes, Call
    <2>2. pc' \in [Threads -> PCs]
        BY DEF LockTypes, PCs, Inside
    <2> QED
        BY <2>1, <2>2 DEF LockTypes
<1>2. CountAccounted'
    <2>1. CASE lockState = call[t].current
        <3>1. Cardinality(Calls(pc')) = Cardinality(Calls(pc)) + 1
            BY <2>1, CallsEnter DEF LockTypes, Inside
        <3>2. lockState'.count = lockState.count + 1 /\ abandoned' = abandoned
            BY <2>1 DEF LockSwap
        <3> QED
            BY <3>1, <3>2, CountIs, CountIsNext, CallsFinite DEF LockTypes, LockState
    <2>2. CASE lockState # call[t].current
        BY <2>2, CountStays DEF LockTypes, Inside
    <2> QED
        BY <2>1, <2>2
<1>3. UnlockSwap'
    BY DEF LockTypes, LockSwap, UnlockSwap, Inside, Calling, Writer, Alone
<1>4. Alone'
    <2>1. CASE lockState # call[t].current
        BY <2>1 DEF LockTypes, Alone, Calling, Inside, Writer
    <2>2. CASE lockState = call[t].current /\ Writer(t)
        <3>1. \A u \in Threads : ~Calling(u)
            BY <2>2, NobodyInside DEF LockSwap, Unregistered
        <3> QED
            BY <2>2, <3>1 DEF LockTypes, LockSwap, Alone, Calling, Inside, Writer
    <2>3. CASE lockState = call[t].current /\ ~Writer(t)
        BY <2>3 DEF LockTypes, LockSwap, Alone, Calling, Inside, Writer
    <2> QED
        BY <2>1, <2>2, <2>3
<1>5. Owned'
    BY DEF LockTypes, LockSwap, Owned, Inside, Calling, Writer
<1>6. FlushPending'
    BY DEF LockTypes, Call, FlushPending, Flagged, CachedWrite, Writer, Alone,
       Calling, Inside, Writes
<1>7. MappedOnce'
    BY DEF LockTypes, LockSwap, MappedOnce
<1>8. Given'
    BY DEF LockTypes, LockSwap, Given
<1>9. Unregistered' /\ LockSwap' /\ MapLocked'
    BY DEF LockTypes, Unregistered, Inside, Call, LockSwap, Writer, MapLocked,
       Mapping
<1> QED
    BY <1>1, <1>2, <1>3, <1>4, <1>5, <1>6, <1>7, <1>8, <1>9

(* Only the writer, who is alone, stores its tid.                          *)
LEMMA storeOwnerStep ==
    ASSUME LockInv, NEW t \in Threads, storeOwner(t)
    PROVE  LockInv'
<1> USE DEF LockInv, storeOwner, Goto, handle
<1>1. LockTypes'
    <2>1. call' \in [Threads -> Call]
        BY DEF LockTypes, Call, LockState, Unlocked
    <2>2. pc' \in [Threads -> PCs]
        BY DEF LockTypes, PCs, Inside
    <2> QED
        BY <2>1, <2>2 DEF LockTypes
<1>2. CountAccounted'
    BY CountStays DEF LockTypes, Inside
<1>3. Unregistered' /\ LockSwap' /\ UnlockSwap' /\ Alone' /\ Owned'
      /\ FlushPending' /\ MapLocked' /\ MappedOnce' /\ Given'
    BY DEF LockTypes, Unregistered, Inside, Call, LockSwap, Writer, LockState,
       UnlockSwap, Alone, Calling, Owned, FlushPending, Flagged, CachedWrite, Writes,
       MapLocked, Mapping, MappedOnce, Given
<1> QED
    BY <1>1, <1>2, <1>3

(* The buffer of a writer is marked for flushing.                          *)
LEMMA flagFlushStep ==
    ASSUME LockInv, NEW t \in Threads, flagFlush(t)
    PROVE  LockInv'
<1> USE DEF LockInv, flagFlush, Goto, handle
<1>1. LockTypes'
    <2>1. call' \in [Threads -> Call]
        <3>1. Unlocked \in LockState
            BY DEF LockState, Unlocked
        <3>2. call' = [call EXCEPT ![t].current = Unlocked] /\ call \in [Threads -> Call]
            BY DEF LockTypes
        <3> HIDE DEF LockInv, flagFlush
        <3>3. [call[t] EXCEPT !.current = Unlocked] \in Call
            BY <3>1, <3>2 DEF Call
        <3> QED
            BY <3>2, <3>3
    <2>2. pc' \in [Threads -> PCs]
        BY DEF LockTypes, PCs, Inside
    <2> QED
        BY <2>1, <2>2 DEF LockTypes
<1>2. CountAccounted'
    BY CountStays DEF LockTypes, Inside
<1>3. FlushPending'
    BY DEF LockTypes, FlushPending, Flagged, CachedWrite, Writes, Writer, Sw,
       Call, Usages
<1>4. Unregistered' /\ LockSwap' /\ UnlockSwap' /\ Alone' /\ Owned' /\ MapLocked'
      /\ MappedOnce' /\ Given'
    BY DEF LockTypes, Unregistered, Inside, Call, LockSwap, Writer, LockState,
       UnlockSwap, Alone, Calling, Owned, MapLocked, Mapping, MappedOnce, Given
<1> QED
    BY <1>1, <1>2, <1>3, <1>4

(* sMapLock is taken by one caller at most.                                *)
LEMMA lockMapStep ==
    ASSUME LockInv, NEW t \in Threads, lockMap(t)
    PROVE  LockInv'
<1> USE DEF LockInv, lockMap, Goto, handle
<1>1. CountAccounted'
    BY CountStays DEF LockTypes, Inside
<1>2. LockTypes' /\ Unregistered' /\ LockSwap' /\ UnlockSwap' /\ Alone'
      /\ Owned' /\ FlushPending' /\ MapLocked' /\ MappedOnce' /\ Given'
    BY NoThreadAssumption DEF LockTypes, PCs, Inside, Call, LockState,
       Unregistered, LockSwap, Writer, UnlockSwap, Alone, Calling, Owned,
       FlushPending, Flagged, CachedWrite, Writes, MapLocked, Mapping, MappedOnce,
       Given
<1> QED
    BY <1>1, <1>2

(* sMapLock admits one thread, which finds the buffer mapped or maps it; a *)
(* failure takes the call out of Inside and counts it as abandoned.        *)
LEMMA mapStep ==
    ASSUME LockInv, NEW t \in Threads, map(t)
    PROVE  LockInv'
<1> USE DEF LockInv, map, Goto, handle
<1>1. LockTypes'
    <2>1. pc' \in [Threads -> PCs]
        BY DEF LockTypes, PCs, Inside
    <2>2. base' \in Addresses \cup {0} /\ abandoned' \in Nat
        BY DEF LockTypes
    <2> QED
        BY <2>1, <2>2 DEF LockTypes
<1>2. CountAccounted'
    <2>1. CASE pc'[t] = "map_failed"
        <3>1. Cardinality(Calls(pc')) = Cardinality(Calls(pc)) - 1
            BY <2>1, CallsLeave DEF LockTypes, Inside
        <3>2. lockState' = lockState /\ abandoned' = abandoned + 1
            BY <2>1 DEF LockTypes
        <3> QED
            BY <3>1, <3>2, CountIs, CountIsNext, CallsFinite DEF LockTypes, LockState
    <2>2. CASE pc'[t] # "map_failed"
        BY <2>2, CountStays DEF LockTypes, Inside
    <2> QED
        BY <2>1, <2>2
<1>3. Alone'
    BY DEF LockTypes, Call, Alone, Calling, Inside, Writer
<1>4. Owned'
    BY DEF LockTypes, Call, Owned, Alone, Calling, Inside, Writer
<1>5. FlushPending'
    BY DEF LockTypes, Call, FlushPending, Flagged, CachedWrite, Writer, Alone,
       Calling, Inside, Writes
<1>6. MapLocked'
    BY SMTT(30) DEF LockTypes, MapLocked, Mapping
<1>7. MappedOnce'
    BY DEF LockTypes, LockState, MappedOnce, MapLocked, Mapping, Unregistered
<1>8. Given'
    BY DEF LockTypes, Call, LockState, Given, MapLocked, Mapping, MappedOnce,
       Unregistered
<1>9. Unregistered' /\ LockSwap' /\ UnlockSwap'
    BY DEF LockTypes, Unregistered, Inside, Call, LockSwap, Writer, LockState,
       UnlockSwap, Alone, Calling
<1> QED
    BY <1>1, <1>2, <1>3, <1>4, <1>5, <1>6, <1>7, <1>8, <1>9

(* LOCK_STATE_MAPPED is set after the mapping exists.                      *)
LEMMA setMappedStep ==
    ASSUME LockInv, NEW t \in Threads, setMapped(t)
    PROVE  LockInv'
<1> USE DEF LockInv, setMapped, Goto, handle
<1>1. LockTypes'
    <2>1. lockState' \in LockState
        BY DEF LockTypes, LockState
    <2>2. pc' \in [Threads -> PCs]
        BY DEF LockTypes, PCs, Inside
    <2> QED
        BY <2>1, <2>2 DEF LockTypes
<1>2. CountAccounted'
    <2>1. lockState'.count = lockState.count
        BY DEF LockTypes, LockState
    <2> QED
        BY <2>1, CountStays DEF LockTypes, Inside
<1>3. Unregistered' /\ LockSwap' /\ UnlockSwap' /\ Alone' /\ Owned'
      /\ FlushPending' /\ MapLocked' /\ MappedOnce' /\ Given'
    BY DEF LockTypes, Unregistered, Inside, Call, LockSwap, Writer, LockState,
       UnlockSwap, Alone, Calling, Owned, FlushPending, Flagged, CachedWrite, Writes,
       MapLocked, Mapping, MappedOnce, Given
<1> QED
    BY <1>1, <1>2, <1>3

(* sMapLock is given back, mapped or not.                                  *)
LEMMA unlockMapStep ==
    ASSUME LockInv, NEW t \in Threads, unlockMap(t)
    PROVE  LockInv'
<1> USE DEF LockInv, unlockMap, Return, Goto, handle
<1>1. LockTypes'
    <2>1. NoCall \in Call
        BY DEF NoCall, Call, Usages, LockState, Unlocked
    <2>2. call' \in [Threads -> Call]
        BY <2>1 DEF LockTypes
    <2>3. pc' \in [Threads -> PCs]
        BY DEF LockTypes, PCs, Inside
    <2> QED
        BY <2>2, <2>3 DEF LockTypes
<1>2. CountAccounted'
    BY CountStays DEF LockTypes, Inside
<1>3. Unregistered' /\ LockSwap' /\ UnlockSwap' /\ Alone' /\ Owned'
      /\ FlushPending' /\ MapLocked' /\ MappedOnce' /\ Given'
    BY NoThreadAssumption DEF LockTypes, Unregistered, Inside, Call, LockSwap,
       Writer, LockState, UnlockSwap, Alone, Calling, Owned, FlushPending, Flagged,
       CachedWrite, Writes, MapLocked, Mapping, MappedOnce, Given
<1> QED
    BY <1>1, <1>2, <1>3

(* The address given out is the one that is mapped.                        *)
LEMMA returnBaseStep ==
    ASSUME LockInv, NEW t \in Threads, returnBase(t)
    PROVE  LockInv'
<1> USE DEF LockInv, returnBase, Goto, handle
<1>1. CountAccounted'
    BY CountStays DEF LockTypes, Inside
<1>2. FlushPending'
    BY DEF LockTypes, Call, FlushPending, Flagged, CachedWrite, Writes, Writer
<1>3. LockTypes' /\ Unregistered' /\ LockSwap' /\ UnlockSwap' /\ Alone'
      /\ Owned' /\ MapLocked' /\ MappedOnce' /\ Given'
    BY DEF LockTypes, PCs, Inside, Call, LockState, Unregistered, LockSwap,
       Writer, UnlockSwap, Alone, Calling, Owned, MapLocked, Mapping, MappedOnce,
       Given
<1> QED
    BY <1>1, <1>2, <1>3

(* unlock() begins, by a thread that holds the buffer.                     *)
LEMMA unlockStep ==
    ASSUME LockInv, NEW t \in Threads, unlock(t)
    PROVE  LockInv'
<1> USE DEF LockInv, unlock, Goto, handle
<1>1. CountAccounted'
    BY CountStays DEF LockTypes, Inside
<1>2. LockTypes' /\ Unregistered' /\ LockSwap' /\ UnlockSwap' /\ Alone'
      /\ Owned' /\ FlushPending' /\ MapLocked' /\ MappedOnce' /\ Given'
    BY DEF LockTypes, PCs, Inside, Call, LockState, Unregistered, LockSwap,
       Writer, UnlockSwap, Alone, Calling, Owned, FlushPending, Flagged, CachedWrite,
       Writes, MapLocked, Mapping, MappedOnce, Given
<1> QED
    BY <1>1, <1>2

(* The cache is flushed before the lock is given up.                       *)
LEMMA flushStep ==
    ASSUME LockInv, NEW t \in Threads, flush(t)
    PROVE  LockInv'
<1> USE DEF LockInv, flush, Goto, handle
<1>1. CountAccounted'
    BY CountStays DEF LockTypes, Inside
<1>2. LockTypes' /\ Unregistered' /\ LockSwap' /\ UnlockSwap' /\ Alone'
      /\ Owned' /\ FlushPending' /\ MapLocked' /\ MappedOnce' /\ Given'
    BY DEF LockTypes, PCs, Inside, Call, LockState, Unregistered, LockSwap,
       Writer, UnlockSwap, Alone, Calling, Owned, FlushPending, Flagged, CachedWrite,
       Writes, MapLocked, Mapping, MappedOnce, Given
<1> QED
    BY <1>1, <1>2

(* The flag may be cleared: who would need it is a writer, and a writer is *)
(* alone, and past its flush.                                              *)
LEMMA clearFlushStep ==
    ASSUME LockInv, NEW t \in Threads, clearFlush(t)
    PROVE  LockInv'
<1> USE DEF LockInv, clearFlush, Goto, handle
<1>1. CountAccounted'
    BY CountStays DEF LockTypes, Inside
<1>2. LockTypes' /\ Unregistered' /\ LockSwap' /\ UnlockSwap' /\ Alone'
      /\ Owned' /\ FlushPending' /\ MapLocked' /\ MappedOnce' /\ Given'
    BY DEF LockTypes, PCs, Inside, Call, LockState, Unregistered, LockSwap,
       Writer, UnlockSwap, Alone, Calling, Owned, FlushPending, Flagged, CachedWrite,
       Writes, MapLocked, Mapping, MappedOnce, Given
<1> QED
    BY <1>1, <1>2

(* A writer that unlocks is alone, so it still finds its own tid.          *)
LEMMA unlockLoadStep ==
    ASSUME LockInv, NEW t \in Threads, unlockLoad(t)
    PROVE  LockInv'
<1> USE DEF LockInv, unlockLoad, Goto, handle
<1>1. LockTypes'
    <2>1. Released(lockState.write /\ writeOwner = t) \in LockState
        BY ReleasedIs DEF LockTypes
    <2>2. call' \in [Threads -> Call]
        BY <2>1 DEF LockTypes, Call
    <2>3. pc' \in [Threads -> PCs]
        BY DEF LockTypes, PCs, Inside
    <2> QED
        BY <2>2, <2>3 DEF LockTypes
<1>2. CountAccounted'
    BY CountStays DEF LockTypes, Inside
<1>3. UnlockSwap'
    <2>1. PICK o \in BOOLEAN : o = (lockState.write /\ writeOwner = t)
        OBVIOUS
    <2>2. call'[t].new.write = (lockState.write /\ ~o) /\ call'[t].new.mapped = lockState.mapped
          /\ call'[t].new.count = lockState.count - 1 /\ call'[t].current = lockState
        BY <2>1, ReleasedIs DEF LockTypes, Call
    <2>3. Writer(t) => o
        BY <2>1 DEF Alone, Owned, Calling, Inside
    <2> QED
        BY <2>2, <2>3 DEF LockTypes, Call, UnlockSwap, Alone, Calling, Inside, Writer
<1>4. Unregistered' /\ LockSwap' /\ Alone' /\ Owned' /\ FlushPending'
      /\ MapLocked' /\ MappedOnce' /\ Given'
    BY DEF LockTypes, Unregistered, Inside, Call, LockSwap, Writer, Alone,
       Calling, Owned, FlushPending, Flagged, CachedWrite, Writes, MapLocked, Mapping,
       LockState, MappedOnce, Given
<1> QED
    BY <1>1, <1>2, <1>3, <1>4

(* Nothing has changed the word since a writer read it.                    *)
LEMMA unlockSwapStep ==
    ASSUME LockInv, NEW t \in Threads, unlockSwap(t)
    PROVE  LockInv'
<1> USE DEF LockInv, unlockSwap, Swap, Return, Goto, handle
<1>1. LockTypes'
    <2>1. NoCall \in Call
        BY DEF NoCall, Call, Usages, LockState, Unlocked
    <2>2. call' \in [Threads -> Call]
        BY <2>1 DEF LockTypes
    <2>3. lockState' \in LockState
        BY DEF LockTypes, Call
    <2>4. pc' \in [Threads -> PCs]
        BY DEF LockTypes, PCs, Inside
    <2> QED
        BY <2>2, <2>3, <2>4 DEF LockTypes
<1>2. Unregistered'
    BY DEF LockTypes, Unregistered, Inside
<1>3. CountAccounted'
    <2>1. CASE lockState = call[t].current
        <3>1. /\ pc[t] \in Inside /\ pc'[t] \notin Inside
              /\ \A u \in Threads \ {t} : pc'[u] = pc[u]
            BY <2>1 DEF LockTypes, Inside
        <3>2. Cardinality(Calls(pc')) = Cardinality(Calls(pc)) - 1
            BY <3>1, CallsLeave
        <3>3. lockState'.count = lockState.count - 1 /\ abandoned' = abandoned
            BY <2>1 DEF UnlockSwap
        <3> QED
            BY <3>2, <3>3, CountIs, CountIsNext, CallsFinite DEF LockTypes, LockState
    <2>2. CASE lockState # call[t].current
        BY <2>2, CountStays DEF LockTypes, Inside
    <2> QED
        BY <2>1, <2>2
<1>4. Alone'
    BY DEF LockTypes, UnlockSwap, Alone, Inside, Calling, Writer, NoCall
<1>5. Owned'
    BY DEF LockTypes, Owned, UnlockSwap, Alone, Inside, Calling, Writer, NoCall,
       Writes
<1>6. FlushPending'
    BY DEF LockTypes, Call, FlushPending, Flagged, CachedWrite, Writer, Alone,
       Calling, Inside, Writes
<1>7. MapLocked'
    BY SMTT(30) DEF LockTypes, MapLocked, Mapping
<1>8. MappedOnce'
    BY DEF LockTypes, UnlockSwap, MappedOnce
<1>9. Given'
    BY DEF LockTypes, UnlockSwap, Given
<1>10. LockSwap' /\ UnlockSwap'
    BY DEF LockTypes, Call, LockSwap, Writer, LockState, UnlockSwap, Alone,
       Calling, Inside
<1> QED
    BY <1>1, <1>2, <1>3, <1>4, <1>5, <1>6, <1>7, <1>8, <1>9, <1>10
-----------------------------------------------------------------------------
(* LockInv holds of every reachable state.                                 *)
THEOREM LockInvariance == LockSpec => []LockInv
<1>1. LockInit => LockInv
    BY InitLockInv
<1>2. LockInv /\ [LockNext]_lockVars => LockInv'
    <2> SUFFICES ASSUME LockInv, [LockNext]_lockVars PROVE LockInv'
        OBVIOUS
    <2>1. CASE register_buffer \/ unregister_buffer
        BY <2>1, register_bufferStep, unregister_bufferStep
    <2>2. CASE \E t \in Threads : lock(t) \/ unlock(t)
        BY <2>2, lockStep, unlockStep
    <2>3. CASE \E t \in Threads : InLock(t)
        BY <2>3, lockLoadStep, lockSwapStep, storeOwnerStep, flagFlushStep,
           lockMapStep, mapStep, setMappedStep, unlockMapStep, returnBaseStep
           DEF InLock
    <2>4. CASE \E t \in Threads : InUnlock(t)
        BY <2>4, flushStep, clearFlushStep, unlockLoadStep, unlockSwapStep DEF InUnlock
    <2>5. CASE UNCHANGED lockVars
        BY <2>5 DEF lockVars, handle, LockInv, LockTypes, Unregistered, CountAccounted,
           LockSwap, UnlockSwap, Alone, Owned, FlushPending, MapLocked, MappedOnce, Given,
           Calling, Writer, CachedWrite
    <2> QED
        BY <2>1, <2>2, <2>3, <2>4, <2>5 DEF LockNext
<1> QED
    BY <1>1, <1>2, PTL DEF LockSpec

(* A thread that holds the buffer for writing holds it alone, the swap of  *)
(* its gralloc_unlock() succeeds at the first try and clears the write     *)
(* bit, and the bit stays until the cache has been flushed.                *)
THEOREM WriterIsExclusive == LockSpec => []ExclusiveWriter
<1>1. LockInv => ExclusiveWriter
    BY DEF LockInv, ExclusiveWriter, Alone, UnlockSwap, FlushPending, Holding, Calling, Inside,
       Writer
<1> QED
    BY <1>1, LockInvariance, PTL

(* No swap of gralloc_lock() or gralloc_unlock() loses another's: the      *)
(* count in the lock word is the number of calls between the two.          *)
THEOREM CountIsAccounted == LockSpec => []CountAccounted
<1>1. LockInv => CountAccounted
    BY DEF LockInv
<1> QED
    BY <1>1, LockInvariance, PTL

(* Whatever readers race to map the buffer, it is mapped once, at the      *)
(* address every holder was given, and not at all when unregistered.       *)
THEOREM HolderIsMapped == LockSpec => []HolderMapped
<1>1. LockInv => HolderMapped
    <2> SUFFICES ASSUME LockInv PROVE HolderMapped
        OBVIOUS
    <2>1. mappings = {} \/ mappings = {base}
        BY DEF LockInv, Unregistered, MappedOnce
    <2>2. Cardinality(mappings) <= 1
        <3>1. CASE mappings = {}
            BY <3>1, FS_EmptySet
        <3>2. CASE mappings = {base}
            <4>1. Cardinality({base}) = 1
                BY FS_Singleton
            <4> QED
                BY <3>2, <4>1
        <3> QED
            BY <2>1, <3>1, <3>2
    <2>3. ASSUME NEW t \in Threads, Holding(t), Sw(call[t].usage)
          PROVE  call[t].vaddr = base /\ base \in mappings
        BY <2>3 DEF LockInv, Unregistered, MappedOnce, Given, Holding
    <2> QED
        BY <2>2, <2>3 DEF HolderMapped, LockInv, Unregistered
<1> QED
    BY <1>1, LockInvariance, PTL
-----------------------------------------------------------------------------
(***************************************************************************)
(* OneInstance holds in every state of CameraInstance, for every number of *)
(* threads and of places for objects.                                      *)
(*                                                                         *)
(* The invariant, while no thread has strayed: the object `singleton'      *)
(* points to is the only one there is, every strong reference is to it, at *)
(* most one holder runs its destructor, after the last reference has gone; *)
(* when the service has let an object go that others still hold,           *)
(* singleton_releasing is set; and a thread that has not begun is late     *)
(* once its object has gone.                                               *)
(***************************************************************************)

Served == {"using", "create_again"}
ServiceHolds == Served \cup {"start", "start_failed", "released", "drop"}
ServicePlaces == ServiceHolds \cup {"idle", "create", "destructor"}
WorkerPlaces == {"idle", "begin", "run", "destructor"}
Lives == {"none", "new", "started", "released"}

Places == ServicePlaces \cup WorkerPlaces
Holds == ServiceHolds \cup {"run"}

HoldsObject(h) == at[h] \in Holds

InstanceTypes ==
    /\ singleton \in Objects \cup {Nothing}
    /\ singleton_releasing \in BOOLEAN
    /\ life \in [Objects -> Lives]
    /\ refs \in [Objects -> SUBSET Holders]
    /\ at \in [Holders -> Places]
    /\ at[Service] \in ServicePlaces
    /\ \A w \in Workers : at[w] \in WorkerPlaces
    /\ obj \in [Holders -> Objects \cup {Nothing}]
    /\ late \subseteq Workers
    /\ strayed \in BOOLEAN

OnlySingleton == \A o \in Objects : life[o] # "none" <=> o = singleton

References ==
    /\ \A o \in Objects : \A h \in Holders : h \in refs[o] <=> HoldsObject(h) /\ obj[h] = o
    /\ \A h \in Holders : HoldsObject(h) => obj[h] = singleton /\ singleton # Nothing

OneDestructor ==
    \A h \in Holders : at[h] = "destructor" =>
        /\ obj[h] = singleton /\ singleton # Nothing
        /\ \A g \in Holders : ~HoldsObject(g) /\ (at[g] = "destructor" => g = h)

ReleaseSaid ==
    /\ at[Service] \in {"idle", "create"} /\ singleton # Nothing => singleton_releasing
    /\ at[Service] = "drop" => singleton_releasing
    /\ at[Service] \in Served => life[singleton] = "started"

Begun ==
    /\ \A w \in Workers : at[w] = "begin" /\ w \notin late => singleton # Nothing
    /\ \A w \in late : at[w] = "begin"
    /\ at[Service] \in {"start", "start_failed"} =>
           \A w \in Workers : at[w] = "idle" \/ w \in late

InstanceInv ==
    /\ InstanceTypes
    /\ OnlySingleton
    /\ References
    /\ OneDestructor
    /\ ReleaseSaid
    /\ Begun
-----------------------------------------------------------------------------
(* At the start there is no instance and nobody refers to one.             *)
LEMMA InitInstance == InstanceInit => InstanceInv
<1> SUFFICES ASSUME InstanceInit PROVE InstanceInv
    OBVIOUS
<1> USE ObjectsAssumption DEF InstanceInit, Holders, Holds, ServiceHolds, Served
<1>1. InstanceTypes
    BY DEF InstanceTypes, Places, ServicePlaces, WorkerPlaces, Lives
<1>2. OnlySingleton /\ References /\ OneDestructor /\ ReleaseSaid /\ Begun
    BY DEF OnlySingleton, References, HoldsObject, OneDestructor, ReleaseSaid, Begun
<1> QED
    BY <1>1, <1>2 DEF InstanceInv

(* A holder moves, and goes on holding its object or holding none.         *)
LEMMA MoveKeeps ==
    ASSUME InstanceInv, NEW h \in Holders, NEW to \in Places, at' = [at EXCEPT ![h] = to],
           to \in Holds <=> at[h] \in Holds, at[h] # "destructor", to # "destructor",
           UNCHANGED <<singleton, refs, obj>>
    PROVE  at' \in [Holders -> Places] /\ References' /\ OneDestructor'
<1>1. \A g \in Holders : /\ HoldsObject(g)' <=> HoldsObject(g)
                         /\ at'[g] = "destructor" <=> at[g] = "destructor"
    BY DEF InstanceInv, InstanceTypes, HoldsObject
<1>2. at' \in [Holders -> Places]
    BY DEF InstanceInv, InstanceTypes
<1>3. References'
    BY <1>1 DEF InstanceInv, References
<1>4. OneDestructor'
    BY <1>1 DEF InstanceInv, OneDestructor
<1> QED
    BY <1>2, <1>3, <1>4

(* A holder takes the object `singleton' points to, or will point to.      *)
LEMMA HoldKeeps ==
    ASSUME InstanceInv, NEW h \in Holders, NEW o \in Objects, Hold(h, o), singleton' = o,
           NEW to \in Holds \cap Places, at' = [at EXCEPT ![h] = to],
           \A g \in Holders : at[g] # "destructor",
           \A g \in Holders : HoldsObject(g) => o = singleton
    PROVE  /\ at' \in [Holders -> Places]
           /\ refs' \in [Objects -> SUBSET Holders]
           /\ obj' \in [Holders -> Objects \cup {Nothing}]
           /\ obj'[h] = o
           /\ References' /\ OneDestructor'
<1>1. /\ at' \in [Holders -> Places] /\ at'[h] = to
      /\ \A g \in Holders \ {h} : at'[g] = at[g]
    BY DEF InstanceInv, InstanceTypes
<1>2. /\ obj' \in [Holders -> Objects \cup {Nothing}] /\ obj'[h] = o
      /\ \A g \in Holders \ {h} : obj'[g] = obj[g]
    BY DEF InstanceInv, InstanceTypes, Hold
<1>3. /\ refs' \in [Objects -> SUBSET Holders] /\ refs'[o] = refs[o] \cup {h}
      /\ \A p \in Objects \ {o} : refs'[p] = refs[p]
    BY DEF InstanceInv, InstanceTypes, Hold
<1>4. \A g \in Holders : HoldsObject(g)' => obj'[g] = o /\ o # Nothing
    BY <1>1, <1>2, ObjectsAssumption DEF InstanceInv, References, HoldsObject
<1>5. \A p \in Objects : \A g \in Holders : g \in refs'[p] <=> HoldsObject(g)' /\ obj'[g] = p
    <2>1. \A g \in Holders \ {h} : HoldsObject(g)' <=> HoldsObject(g)
        BY <1>1 DEF HoldsObject
    <2>2. HoldsObject(h)'
        BY <1>1 DEF HoldsObject
    <2>3. \A p \in Objects \ {o} : h \notin refs[p]
        BY DEF InstanceInv, References
    <2> QED
        BY <1>2, <1>3, <2>1, <2>2, <2>3 DEF InstanceInv, References
<1>6. \A g \in Holders : at'[g] # "destructor"
    BY <1>1 DEF Holds, ServiceHolds, Served
<1> QED
    BY <1>1, <1>2, <1>3, <1>4, <1>5, <1>6 DEF References, OneDestructor

(* A holder lets its object go, and runs the destructor if it was the last.*)
LEMMA LetGoKeeps ==
    ASSUME InstanceInv, NEW h \in Holders, HoldsObject(h), LetGo(h, at[h]), UNCHANGED singleton
    PROVE  /\ at' \in [Holders -> Places]
           /\ at'[h] = "destructor" \/ (at'[h] = "idle" /\ \E g \in Holders : HoldsObject(g)')
           /\ \A g \in Holders \ {h} : at'[g] = at[g]
           /\ refs' \in [Objects -> SUBSET Holders]
           /\ obj' \in [Holders -> Objects \cup {Nothing}]
           /\ References' /\ OneDestructor'
<1>1. obj[h] = singleton /\ singleton # Nothing /\ singleton \in Objects
    BY DEF InstanceInv, InstanceTypes, References
<1>2. /\ at' \in [Holders -> Places]
      /\ at'[h] = IF refs[singleton] = {h} THEN "destructor" ELSE "idle"
      /\ \A g \in Holders \ {h} : at'[g] = at[g]
    BY <1>1 DEF InstanceInv, InstanceTypes, LetGo, Places, ServicePlaces
<1>3. /\ refs' \in [Objects -> SUBSET Holders]
      /\ refs'[singleton] = refs[singleton] \ {h}
      /\ \A p \in Objects \ {singleton} : refs'[p] = refs[p]
    BY <1>1 DEF InstanceInv, InstanceTypes, LetGo
<1>4. /\ obj' \in [Holders -> Objects \cup {Nothing}]
      /\ obj'[h] = IF refs[singleton] = {h} THEN singleton ELSE Nothing
      /\ \A g \in Holders \ {h} : obj'[g] = obj[g]
    BY <1>1 DEF InstanceInv, InstanceTypes, LetGo
<1>5. ~HoldsObject(h)' /\ \A g \in Holders \ {h} : HoldsObject(g)' <=> HoldsObject(g)
    BY <1>2 DEF HoldsObject, Holds, ServiceHolds, Served
<1>6. References'
    <2>1. \A p \in Objects : h \notin refs'[p]
        BY <1>1, <1>3 DEF InstanceInv, References
    <2>2. \A p \in Objects : \A g \in Holders \ {h} : g \in refs'[p] <=> g \in refs[p]
        BY <1>1, <1>3
    <2>3. \A p \in Objects : \A g \in Holders : g \in refs'[p] <=> HoldsObject(g)' /\ obj'[g] = p
        BY <1>4, <1>5, <2>1, <2>2 DEF InstanceInv, References
    <2>4. \A g \in Holders : HoldsObject(g)' => obj'[g] = singleton' /\ singleton' # Nothing
        BY <1>1, <1>4, <1>5 DEF InstanceInv, References
    <2> QED
        BY <2>3, <2>4 DEF References
<1>7. \A g \in Holders : at[g] # "destructor"
    BY DEF InstanceInv, OneDestructor
<1>8. refs[singleton] = {h} <=> \A g \in Holders : HoldsObject(g) => g = h
    BY <1>1 DEF InstanceInv, InstanceTypes, References
<1>9. OneDestructor'
    BY <1>1, <1>2, <1>4, <1>5, <1>7, <1>8 DEF OneDestructor
<1> QED
    BY <1>2, <1>3, <1>4, <1>5, <1>6, <1>8, <1>9
-----------------------------------------------------------------------------
(* Steps that leave the references and `singleton' alone.                  *)
LEMMA createInstanceStep ==
    ASSUME InstanceInv, createInstance
    PROVE  InstanceInv'
<1>1. at' \in [Holders -> Places] /\ References' /\ OneDestructor'
    BY MoveKeeps
       DEF createInstance, Step, statics, astray, Holders, Holds, ServiceHolds, Served, Places,
           ServicePlaces, WorkerPlaces
<1>2. InstanceTypes'
    BY <1>1, ObjectsAssumption
       DEF createInstance, Step, statics, astray, InstanceInv, InstanceTypes, Holders,
           ServiceHolds, Served, ServicePlaces, WorkerPlaces, Lives
<1>3. OnlySingleton' /\ ReleaseSaid' /\ Begun'
    BY ObjectsAssumption
       DEF createInstance, Step, statics, astray, InstanceInv, InstanceTypes, OnlySingleton,
           References, HoldsObject, Holds, ServiceHolds, ReleaseSaid, Begun, Holders, Served,
           Lives
<1> QED
    BY <1>1, <1>2, <1>3 DEF InstanceInv

(* The wait for a releasing instance ends without it.                      *)
LEMMA timedOutStep ==
    ASSUME InstanceInv, timedOut
    PROVE  InstanceInv'
<1>1. at' \in [Holders -> Places] /\ References' /\ OneDestructor'
    BY MoveKeeps
       DEF timedOut, Refused, Step, statics, astray, Holders, Holds, ServiceHolds, Served,
           Places, ServicePlaces, WorkerPlaces
<1>2. InstanceTypes'
    BY <1>1, ObjectsAssumption
       DEF timedOut, Refused, Step, statics, astray, InstanceInv, InstanceTypes, Holders,
           ServiceHolds, Served, ServicePlaces, WorkerPlaces, Lives
<1>3. OnlySingleton' /\ ReleaseSaid' /\ Begun'
    BY ObjectsAssumption
       DEF timedOut, Refused, Step, statics, astray, InstanceInv, InstanceTypes, OnlySingleton,
           References, HoldsObject, Holds, ServiceHolds, ReleaseSaid, Begun, Holders, Served,
           Lives
<1> QED
    BY <1>1, <1>2, <1>3 DEF InstanceInv

(* The service gives up before it creates anything.                        *)
LEMMA noRpcStep ==
    ASSUME InstanceInv, noRpc
    PROVE  InstanceInv'
<1>1. at' \in [Holders -> Places] /\ References' /\ OneDestructor'
    BY MoveKeeps
       DEF noRpc, Refused, Step, statics, astray, Holders, Holds, ServiceHolds, Served, Places,
           ServicePlaces, WorkerPlaces
<1>2. InstanceTypes'
    BY <1>1, ObjectsAssumption
       DEF noRpc, Refused, Step, statics, astray, InstanceInv, InstanceTypes, Holders,
           ServiceHolds, Served, ServicePlaces, WorkerPlaces, Lives
<1>3. OnlySingleton' /\ ReleaseSaid' /\ Begun'
    BY ObjectsAssumption
       DEF noRpc, Refused, Step, statics, astray, InstanceInv, InstanceTypes, OnlySingleton,
           References, HoldsObject, Holds, ServiceHolds, ReleaseSaid, Begun, Holders, Served,
           Lives
<1> QED
    BY <1>1, <1>2, <1>3 DEF InstanceInv

(* The camera of the new instance starts.                                  *)
LEMMA startCameraStep ==
    ASSUME InstanceInv, startCamera
    PROVE  InstanceInv'
<1>1. at' \in [Holders -> Places] /\ References' /\ OneDestructor'
    BY MoveKeeps
       DEF startCamera, Step, statics, astray, Holders, Holds, ServiceHolds, Served, Places,
           ServicePlaces, WorkerPlaces
<1>2. InstanceTypes'
    BY <1>1, ObjectsAssumption
       DEF startCamera, Step, statics, astray, InstanceInv, InstanceTypes, Holders, ServiceHolds,
           Served, ServicePlaces, WorkerPlaces, Lives
<1>3. OnlySingleton' /\ ReleaseSaid' /\ Begun'
    BY ObjectsAssumption
       DEF startCamera, Step, statics, astray, InstanceInv, InstanceTypes, OnlySingleton,
           References, HoldsObject, Holds, ServiceHolds, ReleaseSaid, Begun, Holders, Served,
           Lives
<1> QED
    BY <1>1, <1>2, <1>3 DEF InstanceInv

(* It does not start: the service will drop the instance.                  *)
LEMMA startFailsStep ==
    ASSUME InstanceInv, startFails
    PROVE  InstanceInv'
<1>1. at' \in [Holders -> Places] /\ References' /\ OneDestructor'
    BY MoveKeeps
       DEF startFails, Step, statics, astray, Holders, Holds, ServiceHolds, Served, Places,
           ServicePlaces, WorkerPlaces
<1>2. InstanceTypes'
    BY <1>1, ObjectsAssumption
       DEF startFails, Step, statics, astray, InstanceInv, InstanceTypes, Holders, ServiceHolds,
           Served, ServicePlaces, WorkerPlaces, Lives
<1>3. OnlySingleton' /\ ReleaseSaid' /\ Begun'
    BY ObjectsAssumption
       DEF startFails, Step, statics, astray, InstanceInv, InstanceTypes, OnlySingleton,
           References, HoldsObject, Holds, ServiceHolds, ReleaseSaid, Begun, Holders, Served,
           Lives
<1> QED
    BY <1>1, <1>2, <1>3 DEF InstanceInv

(* release() begins on the instance that is served.                        *)
LEMMA releaseStep ==
    ASSUME InstanceInv, release
    PROVE  InstanceInv'
<1>1. at' \in [Holders -> Places] /\ References' /\ OneDestructor'
    BY MoveKeeps
       DEF release, Step, statics, astray, Holders, Holds, ServiceHolds, Served, Places,
           ServicePlaces, WorkerPlaces
<1>2. InstanceTypes'
    BY <1>1, ObjectsAssumption
       DEF release, Step, statics, astray, InstanceInv, InstanceTypes, Holders, ServiceHolds,
           Served, ServicePlaces, WorkerPlaces, Lives
<1>3. OnlySingleton' /\ ReleaseSaid' /\ Begun'
    BY ObjectsAssumption
       DEF release, Step, statics, astray, InstanceInv, InstanceTypes, OnlySingleton, References,
           HoldsObject, Holds, ServiceHolds, ReleaseSaid, Begun, Holders, Served, Lives
<1> QED
    BY <1>1, <1>2, <1>3 DEF InstanceInv

(* release() marks the instance as releasing.                              *)
LEMMA setReleasingStep ==
    ASSUME InstanceInv, setReleasing
    PROVE  InstanceInv'
<1>1. at' \in [Holders -> Places] /\ References' /\ OneDestructor'
    BY MoveKeeps
       DEF setReleasing, Step, statics, astray, Holders, Holds, ServiceHolds, Served, Places,
           ServicePlaces, WorkerPlaces
<1>2. InstanceTypes'
    BY <1>1, ObjectsAssumption
       DEF setReleasing, Step, statics, astray, InstanceInv, InstanceTypes, Holders,
           ServiceHolds, Served, ServicePlaces, WorkerPlaces, Lives
<1>3. OnlySingleton' /\ ReleaseSaid' /\ Begun'
    BY ObjectsAssumption
       DEF setReleasing, Step, statics, astray, InstanceInv, InstanceTypes, OnlySingleton,
           References, HoldsObject, Holds, ServiceHolds, ReleaseSaid, Begun, Holders, Served,
           Lives
<1> QED
    BY <1>1, <1>2, <1>3 DEF InstanceInv

(* A thread is created; it has not promoted the reference yet.             *)
LEMMA createThreadStep ==
    ASSUME InstanceInv, NEW w \in Workers, createThread(w)
    PROVE  InstanceInv'
<1>1. at' \in [Holders -> Places] /\ References' /\ OneDestructor'
    BY MoveKeeps
       DEF createThread, Step, statics, astray, Holders, Holds, ServiceHolds, Served, Places,
           ServicePlaces, WorkerPlaces
<1>2. InstanceTypes'
    BY <1>1, ObjectsAssumption
       DEF createThread, Step, statics, astray, InstanceInv, InstanceTypes, Holders,
           ServiceHolds, Served, ServicePlaces, WorkerPlaces, Lives
<1>3. OnlySingleton' /\ ReleaseSaid' /\ Begun'
    BY ObjectsAssumption
       DEF createThread, Step, statics, astray, InstanceInv, InstanceTypes, OnlySingleton,
           References, HoldsObject, Holds, ServiceHolds, ReleaseSaid, Begun, Holders, Served,
           Lives
<1> QED
    BY <1>1, <1>2, <1>3 DEF InstanceInv
-----------------------------------------------------------------------------
(* Who holds an object keeps anyone from destroying it.                    *)
LEMMA PromoteLives ==
    ASSUME InstanceInv, promote # Nothing
    PROVE  /\ promote = singleton /\ singleton \in Objects
           /\ \A g \in Holders : at[g] # "destructor"
BY ObjectsAssumption
   DEF promote, InstanceInv, InstanceTypes, References, OneDestructor

(* The service already had the object: when it does not, it finds the      *)
(* object being released, or none.                                         *)
LEMMA existingStep ==
    ASSUME InstanceInv, existing
    PROVE  InstanceInv'
<1>1. promote = singleton /\ singleton \in Objects /\ \A g \in Holders : at[g] # "destructor"
    BY PromoteLives DEF existing
<1>2. at[Service] = "create_again" /\ at' = [at EXCEPT ![Service] = "using"]
    BY <1>1, ObjectsAssumption DEF existing, Step, InstanceInv, ReleaseSaid
<1>3. /\ at' \in [Holders -> Places]
      /\ refs' \in [Objects -> SUBSET Holders]
      /\ obj' \in [Holders -> Objects \cup {Nothing}]
      /\ References' /\ OneDestructor'
    BY <1>1, <1>2, HoldKeeps
       DEF existing, statics, astray, Holders, Holds, ServiceHolds, Served, Places, ServicePlaces
<1>4. InstanceTypes'
    BY <1>1, <1>2, <1>3, ObjectsAssumption
       DEF existing, statics, astray, InstanceInv, InstanceTypes, Holders, ServicePlaces,
           ServiceHolds, Served
<1>5. OnlySingleton' /\ ReleaseSaid' /\ Begun'
    BY <1>1, <1>2, ObjectsAssumption
       DEF existing, statics, astray, InstanceInv, InstanceTypes, OnlySingleton, ReleaseSaid,
           Begun, Holders, Served
<1> QED
    BY <1>3, <1>4, <1>5 DEF InstanceInv

(* A new object is made when no other is left: it was not being released,  *)
(* and nobody holds one.                                                   *)
LEMMA newHardwareStep ==
    ASSUME InstanceInv, newHardware
    PROVE  InstanceInv'
<1>1. PICK o \in Objects : /\ life[o] = "none" /\ singleton' = o
                          /\ life' = [life EXCEPT ![o] = "new"] /\ Hold(Service, o)
    BY DEF newHardware
<1>2. singleton = Nothing /\ \A g \in Holders : ~HoldsObject(g) /\ at[g] # "destructor"
    BY DEF newHardware, Step, InstanceInv, ReleaseSaid, References, OneDestructor
<1>3. at[Service] = "create" /\ at' = [at EXCEPT ![Service] = "start"]
    BY DEF newHardware, Step
<1>4. \A w \in Workers : at[w] = "idle" \/ w \in late
    BY <1>2, <1>3
       DEF InstanceInv, InstanceTypes, Begun, HoldsObject, Holds, Holders, WorkerPlaces, Served
<1>5. /\ at' \in [Holders -> Places]
      /\ refs' \in [Objects -> SUBSET Holders]
      /\ obj' \in [Holders -> Objects \cup {Nothing}]
      /\ References' /\ OneDestructor'
    BY <1>1, <1>2, <1>3, HoldKeeps DEF Holders, Holds, ServiceHolds, Places, ServicePlaces
<1>6. InstanceTypes'
    BY <1>1, <1>3, <1>5, ObjectsAssumption
       DEF newHardware, statics, astray, InstanceInv, InstanceTypes, Holders, ServicePlaces,
           ServiceHolds, Lives
<1>7. OnlySingleton'
    BY <1>1, <1>2, ObjectsAssumption DEF InstanceInv, InstanceTypes, OnlySingleton
<1>8. ReleaseSaid' /\ Begun'
    BY <1>1, <1>3, <1>4, ObjectsAssumption
       DEF newHardware, astray, InstanceInv, InstanceTypes, ReleaseSaid, Begun, Holders, Served
<1> QED
    BY <1>5, <1>6, <1>7, <1>8 DEF InstanceInv

(* The thread promotes the reference to the instance, or finds none.       *)
LEMMA getInstanceStep ==
    ASSUME InstanceInv, NEW w \in Workers, getInstance(w), ~strayed'
    PROVE  InstanceInv'
<1>1. CASE promote = Nothing
    <2>1. at' = [at EXCEPT ![w] = "idle"] /\ at[w] = "begin" /\ UNCHANGED <<refs, obj>>
        BY <1>1 DEF getInstance, Step
    <2>2. at' \in [Holders -> Places] /\ References' /\ OneDestructor'
        BY <2>1, MoveKeeps
           DEF getInstance, statics, astray, Holders, Holds, ServiceHolds, Served, Places,
               ServicePlaces
    <2>3. InstanceTypes' /\ OnlySingleton' /\ ReleaseSaid' /\ Begun'
        BY <2>1, <2>2, ObjectsAssumption
           DEF getInstance, statics, astray, InstanceInv, InstanceTypes, OnlySingleton,
               ReleaseSaid, Begun, Holders, WorkerPlaces
    <2> QED
        BY <2>2, <2>3 DEF InstanceInv
<1>2. CASE promote # Nothing
    <2>1. promote = singleton /\ singleton \in Objects /\ \A g \in Holders : at[g] # "destructor"
        BY <1>2, PromoteLives
    <2>2. at' = [at EXCEPT ![w] = "run"] /\ at[w] = "begin" /\ Hold(w, singleton)
        BY <1>2, <2>1 DEF getInstance, Step
    <2>3. /\ at' \in [Holders -> Places]
          /\ refs' \in [Objects -> SUBSET Holders]
          /\ obj' \in [Holders -> Objects \cup {Nothing}]
          /\ References' /\ OneDestructor'
        BY <2>1, <2>2, HoldKeeps DEF getInstance, statics, astray, Holders, Holds, Places,
           WorkerPlaces
    <2>4. InstanceTypes'
        BY <2>2, <2>3, ObjectsAssumption
           DEF getInstance, statics, astray, InstanceInv, InstanceTypes, Holders, WorkerPlaces
    <2>5. w \notin late /\ late' = late
        BY <1>2 DEF getInstance
    <2>6. at[Service] \notin {"start", "start_failed"}
        BY <2>2, <2>5 DEF InstanceInv, Begun
    <2>7. OnlySingleton' /\ ReleaseSaid' /\ Begun'
        BY <2>2, <2>5, <2>6, ObjectsAssumption
           DEF getInstance, statics, InstanceInv, InstanceTypes, OnlySingleton, ReleaseSaid,
               Begun, Holders
    <2> QED
        BY <2>3, <2>4, <2>7 DEF InstanceInv
<1> QED
    BY <1>1, <1>2
-----------------------------------------------------------------------------
(* The service alone holds an object that could not be started.            *)
LEMMA dropFailedStep ==
    ASSUME InstanceInv, dropFailed
    PROVE  InstanceInv'
<1>1. at[Service] = "start_failed" /\ HoldsObject(Service) /\ Service \in Holders
    BY DEF dropFailed, LetGo, HoldsObject, Holds, ServiceHolds, Holders
<1>2. \A w \in Workers : at[w] \in {"idle", "begin"}
    BY <1>1 DEF InstanceInv, Begun
<1>3. /\ at' \in [Holders -> Places]
      /\ at'[Service] = "destructor" \/ (at'[Service] = "idle"
                                         /\ \E g \in Holders : HoldsObject(g)')
      /\ \A g \in Holders \ {Service} : at'[g] = at[g]
      /\ refs' \in [Objects -> SUBSET Holders]
      /\ obj' \in [Holders -> Objects \cup {Nothing}]
      /\ References' /\ OneDestructor'
    BY <1>1, LetGoKeeps DEF dropFailed, statics
<1>4. \A w \in Workers : at'[w] = at[w] /\ at[w] \in {"idle", "begin"}
    BY <1>2, <1>3, ObjectsAssumption DEF Holders
<1>5. at'[Service] = "destructor"
    BY <1>3, <1>4 DEF HoldsObject, Holds, ServiceHolds, Served, Holders
<1>6. InstanceTypes' /\ OnlySingleton' /\ ReleaseSaid' /\ Begun'
    BY <1>3, <1>4, <1>5
       DEF dropFailed, statics, astray, InstanceInv, InstanceTypes, OnlySingleton, ReleaseSaid,
           Begun, ServicePlaces, WorkerPlaces, Served
<1> QED
    BY <1>3, <1>6 DEF InstanceInv

(* singleton_releasing is set until the last of those who still hold the   *)
(* object has destroyed it.                                                *)
LEMMA dropStep ==
    ASSUME InstanceInv, drop
    PROVE  InstanceInv'
<1>1. at[Service] = "drop" /\ HoldsObject(Service) /\ Service \in Holders
    BY DEF drop, LetGo, HoldsObject, Holds, ServiceHolds, Holders
<1>2. /\ at' \in [Holders -> Places]
      /\ at'[Service] \in {"destructor", "idle"}
      /\ \A g \in Holders \ {Service} : at'[g] = at[g]
      /\ refs' \in [Objects -> SUBSET Holders]
      /\ obj' \in [Holders -> Objects \cup {Nothing}]
      /\ References' /\ OneDestructor'
    BY <1>1, LetGoKeeps DEF drop, statics
<1>3. \A w \in Workers : at'[w] = at[w]
    BY <1>2, ObjectsAssumption DEF Holders
<1>4. InstanceTypes' /\ OnlySingleton' /\ ReleaseSaid' /\ Begun'
    BY <1>1, <1>2, <1>3
       DEF drop, statics, astray, InstanceInv, InstanceTypes, OnlySingleton, ReleaseSaid, Begun,
           ServicePlaces, WorkerPlaces, Served
<1> QED
    BY <1>2, <1>4 DEF InstanceInv

(* The thread drops its reference, and may be the last to.                 *)
LEMMA endThreadStep ==
    ASSUME InstanceInv, NEW w \in Workers, endThread(w)
    PROVE  InstanceInv'
<1>1. at[w] = "run" /\ HoldsObject(w) /\ w \in Holders
    BY DEF endThread, LetGo, HoldsObject, Holds, Holders
<1>2. /\ at' \in [Holders -> Places]
      /\ at'[w] \in {"destructor", "idle"}
      /\ \A g \in Holders \ {w} : at'[g] = at[g]
      /\ refs' \in [Objects -> SUBSET Holders]
      /\ obj' \in [Holders -> Objects \cup {Nothing}]
      /\ References' /\ OneDestructor'
    BY <1>1, LetGoKeeps DEF endThread, statics
<1>3. at'[Service] = at[Service]
    BY <1>2, ObjectsAssumption DEF Holders
<1>4. InstanceTypes' /\ OnlySingleton' /\ ReleaseSaid' /\ Begun'
    BY <1>1, <1>2, <1>3
       DEF endThread, statics, astray, InstanceInv, InstanceTypes, OnlySingleton, ReleaseSaid,
           Begun, Holders, WorkerPlaces, Served
<1> QED
    BY <1>2, <1>4 DEF InstanceInv

(* After the destructor there is no object, and who looks for it is late.  *)
LEMMA destructorStep ==
    ASSUME InstanceInv, NEW h \in Holders, destructor(h)
    PROVE  InstanceInv'
<1>1. /\ at[h] = "destructor" /\ obj[h] = singleton /\ singleton \in Objects
      /\ \A g \in Holders : ~HoldsObject(g) /\ (at[g] = "destructor" => g = h)
    BY DEF destructor, Step, InstanceInv, InstanceTypes, OneDestructor
<1>2. /\ at' \in [Holders -> Places] /\ at'[h] = "idle"
      /\ \A g \in Holders \ {h} : at'[g] = at[g]
    BY DEF destructor, Step, InstanceInv, InstanceTypes, Places, WorkerPlaces
<1>3. InstanceTypes'
    BY <1>1, <1>2, ObjectsAssumption
       DEF destructor, Unbegun, InstanceInv, InstanceTypes, Holders, ServicePlaces,
           WorkerPlaces, Lives
<1>4. OnlySingleton'
    BY <1>1, ObjectsAssumption DEF destructor, statics, astray, InstanceInv, InstanceTypes,
       OnlySingleton
<1>5. \A g \in Holders : ~HoldsObject(g)' /\ at'[g] # "destructor"
    BY <1>1, <1>2 DEF HoldsObject, Holds, ServiceHolds, Served
<1>6. References' /\ OneDestructor'
    BY <1>1, <1>5 DEF destructor, statics, astray, InstanceInv, References, OneDestructor
<1>7. ReleaseSaid' /\ Begun'
    <2>1. Service \in Holders /\ at'[Service] \notin ServiceHolds
        BY <1>5 DEF HoldsObject, Holds, Holders
    <2>2. \A w \in Workers : at'[w] = "begin" <=> at[w] = "begin"
        BY <1>1, <1>2 DEF Holders
    <2> QED
        BY <2>1, <2>2 DEF destructor, Unbegun, ReleaseSaid, Begun, ServiceHolds, Served
<1> QED
    BY <1>3, <1>4, <1>6, <1>7 DEF InstanceInv
-----------------------------------------------------------------------------
(* No step but that of a thread that strays breaks the invariant.          *)
LEMMA InstanceStep ==
    ASSUME InstanceInv, [InstanceNext]_instanceVars, ~strayed'
    PROVE  InstanceInv'
<1>1. CASE creating \/ createInstance
    BY <1>1, createInstanceStep, timedOutStep, existingStep, newHardwareStep, noRpcStep,
       startCameraStep, startFailsStep, dropFailedStep DEF creating
<1>2. CASE release \/ releasing
    BY <1>2, releaseStep, setReleasingStep, dropStep, destructorStep DEF releasing, Holders
<1>3. CASE \E w \in Workers : createThread(w) \/ working(w)
    BY <1>3, createThreadStep, getInstanceStep, endThreadStep, destructorStep
       DEF working, Holders
<1>4. CASE UNCHANGED instanceVars
    BY <1>4 DEF instanceVars, statics, astray, InstanceInv, InstanceTypes, OnlySingleton,
       References, HoldsObject, OneDestructor, ReleaseSaid, Begun
<1> QED
    BY <1>1, <1>2, <1>3, <1>4 DEF InstanceNext

(* A thread that has strayed stays so.                                     *)
LEMMA StrayedStays ==
    ASSUME strayed, [InstanceNext]_instanceVars
    PROVE  strayed'
BY DEF InstanceNext, instanceVars, statics, astray, createInstance, creating, timedOut, existing,
   newHardware, noRpc, startCamera, startFails, dropFailed, release, releasing, setReleasing,
   drop, destructor, working, createThread, getInstance, endThread

(* While an object has the device no other exists, the service is never    *)
(* given a released one, and a callback finds the object whose thread it   *)
(* came from: until a thread finds another object than its own.            *)
THEOREM InstanceIsOne == InstanceSpec => []OneInstance
<1>1. InstanceInv => OneInstance
    <2> SUFFICES ASSUME InstanceInv PROVE OneInstance
        OBVIOUS
    <2>1. \A o, p \in Objects : o # p /\ life[o] \in {"new", "started"} => life[p] = "none"
        BY DEF InstanceInv, OnlySingleton
    <2>2. at[Service] = "using" => life[obj[Service]] = "started" /\ singleton = obj[Service]
        BY DEF InstanceInv, ReleaseSaid, References, HoldsObject, Holds, ServiceHolds, Served,
           Holders
    <2>3. ASSUME NEW w \in Workers, at[w] = "run" PROVE CallbackObject = obj[w]
        <3>1. w \in refs[singleton] /\ obj[w] = singleton /\ singleton # Nothing
            BY <2>3 DEF InstanceInv, InstanceTypes, References, HoldsObject, Holds, Holders
        <3> QED
            BY <3>1 DEF CallbackObject, promote
    <2> QED
        BY <2>1, <2>2, <2>3 DEF OneInstance
<1>2. strayed => OneInstance
    BY DEF OneInstance
<1>3. (strayed \/ InstanceInv) /\ [InstanceNext]_instanceVars => (strayed \/ InstanceInv)'
    BY InstanceStep, StrayedStays
<1> QED
    BY <1>1, <1>2, <1>3, InitInstance, PTL DEF InstanceSpec

(* While createInstance() waits for a release, a thread that still has an  *)
(* object, or destroys one, is there to end the wait.                      *)
ReleaserRuns ==
    at[Service] = "create" /\ singleton_releasing =>
        \E w \in Workers : at[w] \in {"run", "destructor"}

(* Who holds an object is known to it, and holds or destroys one of them.  *)
Known ==
    /\ \A h \in Holders : HoldsObject(h) \/ at[h] = "destructor" => obj[h] \in Objects
    /\ \A o \in Objects : \A h \in Holders : h \in refs[o] <=> HoldsObject(h) /\ obj[h] = o

(* Whatever thread may have strayed, the service's object is the one       *)
(* `singleton' points to, if any, and somebody holds or destroys an object *)
(* while singleton_releasing is set.                                       *)
OwnIsSingleton == HoldsObject(Service) => singleton \in {obj[Service], Nothing}

Kept ==
    /\ InstanceTypes
    /\ Known
    /\ OwnIsSingleton
    /\ singleton_releasing => \E h \in Holders : HoldsObject(h) \/ at[h] = "destructor"

(* A holder moves, and goes on holding its object or holding none.         *)
LEMMA KeptMove ==
    ASSUME Kept, NEW h \in Holders, NEW to, at' = [at EXCEPT ![h] = to],
           to \in Holds <=> at[h] \in Holds, at[h] # "destructor", to # "destructor",
           UNCHANGED <<refs, obj>>, singleton_releasing' => singleton_releasing \/ to = "drop"
    PROVE  /\ Known'
           /\ singleton_releasing' => \E g \in Holders : HoldsObject(g)' \/ at'[g] = "destructor"
<1>1. \A g \in Holders : /\ HoldsObject(g)' <=> HoldsObject(g)
                         /\ at'[g] = "destructor" <=> at[g] = "destructor"
    BY DEF Kept, InstanceTypes, HoldsObject
<1>2. to = "drop" => HoldsObject(h)'
    BY DEF Kept, InstanceTypes, HoldsObject, Holds, ServiceHolds
<1> QED
    BY <1>1, <1>2 DEF Kept, Known

(* A holder takes an object.                                               *)
LEMMA KeptHold ==
    ASSUME Kept, NEW h \in Holders, NEW o \in Objects, Hold(h, o), ~HoldsObject(h),
           NEW to \in Holds, at' = [at EXCEPT ![h] = to]
    PROVE  /\ Known' /\ HoldsObject(h)'
           /\ refs' \in [Objects -> SUBSET Holders] /\ obj' \in [Holders -> Objects \cup {Nothing}]
<1>1. /\ at'[h] = to /\ \A g \in Holders \ {h} : at'[g] = at[g]
      /\ obj' \in [Holders -> Objects \cup {Nothing}] /\ obj'[h] = o
      /\ \A g \in Holders \ {h} : obj'[g] = obj[g]
      /\ refs' \in [Objects -> SUBSET Holders] /\ refs'[o] = refs[o] \cup {h}
      /\ \A p \in Objects \ {o} : refs'[p] = refs[p]
    BY DEF Kept, InstanceTypes, Hold
<1>2. HoldsObject(h)' /\ \A g \in Holders \ {h} : HoldsObject(g)' <=> HoldsObject(g)
    BY <1>1 DEF HoldsObject
<1>3. \A g \in Holders : HoldsObject(g)' \/ at'[g] = "destructor" => obj'[g] \in Objects
    BY <1>1, <1>2 DEF Kept, Known
<1>4. \A p \in Objects : h \notin refs[p]
    BY DEF Kept, Known
<1>5. \A p \in Objects : \A g \in Holders : g \in refs'[p] <=> HoldsObject(g)' /\ obj'[g] = p
    BY <1>1, <1>2, <1>4 DEF Kept, Known
<1> QED
    BY <1>1, <1>2, <1>3, <1>5 DEF Known

(* A holder lets its object go: it destroys it, or another still holds it. *)
LEMMA KeptLetGo ==
    ASSUME Kept, NEW h \in Holders, HoldsObject(h), LetGo(h, at[h])
    PROVE  /\ Known' /\ \E g \in Holders : HoldsObject(g)' \/ at'[g] = "destructor"
           /\ at' \in [Holders -> Places] /\ at'[h] \in {"destructor", "idle"}
           /\ \A g \in Holders \ {h} : at'[g] = at[g]
           /\ refs' \in [Objects -> SUBSET Holders] /\ obj' \in [Holders -> Objects \cup {Nothing}]
<1> DEFINE o == obj[h]
           Sole == refs[o] = {h}
<1>1. o \in Objects
    BY DEF Kept, Known
<1> HIDE DEF o
<1>2. /\ at' \in [Holders -> Places] /\ at'[h] = IF Sole THEN "destructor" ELSE "idle"
      /\ \A g \in Holders \ {h} : at'[g] = at[g]
      /\ obj' \in [Holders -> Objects \cup {Nothing}]
      /\ obj'[h] = IF Sole THEN o ELSE Nothing
      /\ \A g \in Holders \ {h} : obj'[g] = obj[g]
      /\ refs' \in [Objects -> SUBSET Holders] /\ refs'[o] = refs[o] \ {h}
      /\ \A p \in Objects \ {o} : refs'[p] = refs[p]
    BY <1>1 DEF Kept, InstanceTypes, LetGo, Places, ServicePlaces, o
<1>3. ~HoldsObject(h)' /\ \A g \in Holders \ {h} : HoldsObject(g)' <=> HoldsObject(g)
    BY <1>2 DEF HoldsObject, Holds, ServiceHolds, Served
<1>4. \A g \in Holders : HoldsObject(g)' \/ at'[g] = "destructor" => obj'[g] \in Objects
    BY <1>1, <1>2, <1>3 DEF Kept, Known
<1>5. \A p \in Objects \ {o} : h \notin refs[p]
    BY DEF Kept, Known, o
<1>6. \A p \in Objects : \A g \in Holders : g \in refs'[p] <=> HoldsObject(g)' /\ obj'[g] = p
    <2>1. \A p \in Objects : h \notin refs'[p]
        BY <1>1, <1>2, <1>5
    <2>2. \A p \in Objects : \A g \in Holders \ {h} : g \in refs'[p] <=> g \in refs[p]
        BY <1>1, <1>2
    <2> QED
        BY <1>2, <1>3, <2>1, <2>2 DEF Kept, Known
<1>7. \E g \in Holders : HoldsObject(g)' \/ at'[g] = "destructor"
    <2>1. CASE Sole
        BY <1>2, <2>1
    <2>2. CASE ~Sole
        <3>1. h \in refs[o]
            BY <1>1 DEF Kept, Known, o
        <3>2. PICK g \in refs[o] : g # h
            BY <2>2, <3>1
        <3>3. g \in Holders /\ HoldsObject(g)
            BY <1>1, <3>2 DEF Kept, Known, InstanceTypes
        <3> QED
            BY <1>3, <3>2, <3>3
    <2> QED
        BY <2>1, <2>2
<1> QED
    BY <1>2, <1>4, <1>6, <1>7 DEF Known

(* Every step, a thread's that strays too.                                 *)
LEMMA KeptStep ==
    ASSUME Kept, [InstanceNext]_instanceVars
    PROVE  Kept'
<1> USE ObjectsAssumption
<1>1. Service \in Holders /\ Workers \subseteq Holders /\ Service \notin Workers
    BY DEF Holders
<1> DEFINE Moves == \/ createInstance \/ timedOut \/ noRpc \/ startCamera \/ startFails
                    \/ release \/ setReleasing
<1>2. CASE Moves
    <2>1. PICK to \in ServicePlaces \ {"destructor"} :
              /\ at' = [at EXCEPT ![Service] = to] /\ at[Service] # "destructor"
              /\ to \in Holds <=> at[Service] \in Holds
              /\ singleton_releasing' => singleton_releasing \/ to = "drop"
        BY <1>2 DEF createInstance, timedOut, noRpc, Refused, startCamera, startFails, release,
           setReleasing, Step, statics, Holds, ServiceHolds, Served, ServicePlaces
    <2>2. UNCHANGED <<refs, obj, late, strayed, singleton>> /\ singleton_releasing' \in BOOLEAN
        BY <1>2 DEF createInstance, timedOut, noRpc, startCamera, startFails, release,
           setReleasing, statics, astray, Kept, InstanceTypes
    <2>3. life' \in [Objects -> Lives]
        BY <1>2 DEF createInstance, timedOut, noRpc, startCamera, startFails, release,
           setReleasing, Kept, InstanceTypes, Lives
    <2>4. InstanceTypes'
        BY <1>1, <2>1, <2>2, <2>3 DEF Kept, InstanceTypes, Places
    <2>5. OwnIsSingleton'
        BY <1>1, <2>1, <2>2 DEF Kept, InstanceTypes, OwnIsSingleton, HoldsObject
    <2> QED
        BY <1>1, <2>1, <2>2, <2>4, <2>5, KeptMove DEF Kept
<1>3. CASE existing /\ at[Service] = "create_again"
    <2>1. HoldsObject(Service) /\ obj[Service] \in Objects
        BY <1>1, <1>3 DEF Kept, Known, HoldsObject, Holds, ServiceHolds, Served
    <2>2. promote = obj[Service]
        BY <1>3, <2>1 DEF existing, promote, Kept, OwnIsSingleton
    <2>3. Service \in refs[obj[Service]]
        BY <1>1, <2>1 DEF Kept, Known
    <2>4. UNCHANGED <<singleton, singleton_releasing, life, refs, obj, late, strayed>>
        BY <1>1, <1>3, <2>1, <2>2, <2>3 DEF existing, Hold, statics, astray, Kept, InstanceTypes
    <2>5. at' = [at EXCEPT ![Service] = "using"]
        BY <1>3 DEF existing, Step
    <2>6. InstanceTypes'
        BY <1>1, <2>4, <2>5 DEF Kept, InstanceTypes, Places, ServicePlaces, ServiceHolds, Served
    <2>7. /\ Known'
          /\ singleton_releasing' => \E g \in Holders : HoldsObject(g)' \/ at'[g] = "destructor"
        BY <1>1, <1>3, <2>4, <2>5, KeptMove DEF Holds, ServiceHolds, Served
    <2>8. OwnIsSingleton'
        BY <2>1, <2>4 DEF Kept, OwnIsSingleton
    <2> QED
        BY <2>6, <2>7, <2>8 DEF Kept
<1>4. CASE newHardware \/ (existing /\ at[Service] = "create")
    <2>1. PICK o \in Objects, to \in {"using", "start"} :
              /\ at' = [at EXCEPT ![Service] = to] /\ at[Service] = "create"
              /\ Hold(Service, o) /\ singleton' = o
        BY <1>4 DEF existing, newHardware, promote, Step, statics, Kept, InstanceTypes
    <2>2. ~HoldsObject(Service)
        BY <2>1 DEF HoldsObject, Holds, ServiceHolds, Served
    <2>3. /\ Known' /\ HoldsObject(Service)'
          /\ refs' \in [Objects -> SUBSET Holders] /\ obj' \in [Holders -> Objects \cup {Nothing}]
        BY <1>1, <2>1, <2>2, KeptHold DEF Holds, ServiceHolds, Served
    <2>4. /\ life' \in [Objects -> Lives] /\ UNCHANGED <<singleton_releasing, late, strayed>>
        BY <1>4 DEF existing, newHardware, statics, astray, Kept, InstanceTypes, Lives
    <2>5. InstanceTypes'
        BY <1>1, <2>1, <2>3, <2>4
           DEF Kept, InstanceTypes, Places, ServicePlaces, ServiceHolds, Served
    <2>6. OwnIsSingleton'
        BY <1>1, <2>1 DEF Hold, Kept, InstanceTypes, OwnIsSingleton
    <2> QED
        BY <1>1, <2>3, <2>5, <2>6 DEF Kept
<1>5. ASSUME NEW h \in Holders, HoldsObject(h), LetGo(h, at[h]), UNCHANGED <<statics, life, astray>>
      PROVE  Kept'
    <2>1. /\ Known' /\ \E g \in Holders : HoldsObject(g)' \/ at'[g] = "destructor"
          /\ at' \in [Holders -> Places] /\ at'[h] \in {"destructor", "idle"}
          /\ \A g \in Holders \ {h} : at'[g] = at[g]
          /\ refs' \in [Objects -> SUBSET Holders] /\ obj' \in [Holders -> Objects \cup {Nothing}]
        BY <1>5, KeptLetGo
    <2>2. InstanceTypes'
        BY <1>1, <1>5, <2>1
           DEF Kept, InstanceTypes, statics, astray, ServicePlaces, WorkerPlaces
    <2>3. OwnIsSingleton'
        <3>1. CASE h = Service
            BY <2>1, <3>1 DEF OwnIsSingleton, HoldsObject, Holds, ServiceHolds, Served
        <3>2. CASE h # Service
            BY <1>1, <1>5, <2>1, <3>2
               DEF LetGo, Kept, InstanceTypes, OwnIsSingleton, HoldsObject, statics
        <3> QED
            BY <3>1, <3>2
    <2> QED
        BY <2>1, <2>2, <2>3 DEF Kept
<1>6. CASE dropFailed \/ drop
    BY <1>1, <1>5, <1>6 DEF dropFailed, drop, LetGo, HoldsObject, Holds, ServiceHolds
<1>7. ASSUME NEW h \in Holders, destructor(h) PROVE Kept'
    <2>1. /\ at[h] = "destructor" /\ at' = [at EXCEPT ![h] = "idle"] /\ obj[h] \in Objects
          /\ singleton' = Nothing /\ ~singleton_releasing' /\ UNCHANGED <<refs, strayed>>
          /\ life' = [life EXCEPT ![obj[h]] = "none"] /\ obj' = [obj EXCEPT ![h] = Nothing]
          /\ singleton_releasing' = FALSE /\ late' \subseteq Workers
        BY <1>7 DEF destructor, Unbegun, Step, Kept, Known
    <2>2. ~HoldsObject(h) /\ ~HoldsObject(h)' /\ \A g \in Holders \ {h} :
              /\ at'[g] = at[g] /\ obj'[g] = obj[g] /\ (HoldsObject(g)' <=> HoldsObject(g))
        BY <2>1 DEF HoldsObject, Holds, ServiceHolds, Served, Kept, InstanceTypes
    <2>3. Known'
        BY <2>1, <2>2 DEF Kept, InstanceTypes, Known
    <2>4. InstanceTypes'
        BY <1>1, <2>1
           DEF Kept, InstanceTypes, Places, ServicePlaces, WorkerPlaces, Lives
    <2>5. OwnIsSingleton'
        BY <2>1 DEF OwnIsSingleton
    <2> QED
        BY <2>1, <2>3, <2>4, <2>5 DEF Kept
<1>8. ASSUME NEW w \in Workers, createThread(w) \/ (getInstance(w) /\ promote = Nothing)
      PROVE  Kept'
    <2>1. PICK to \in {"begin", "idle"} :
              /\ at' = [at EXCEPT ![w] = to] /\ at[w] \in {"begin", "idle"}
        BY <1>8 DEF createThread, getInstance, Step
    <2>2. /\ UNCHANGED <<singleton, singleton_releasing, life, refs, obj>>
          /\ late' \subseteq Workers /\ strayed' \in BOOLEAN
        BY <1>8 DEF createThread, getInstance, statics, astray, Kept, InstanceTypes
    <2>3. InstanceTypes'
        BY <1>1, <2>1, <2>2 DEF Kept, InstanceTypes, Places, WorkerPlaces
    <2>4. /\ Known'
          /\ singleton_releasing' => \E g \in Holders : HoldsObject(g)' \/ at'[g] = "destructor"
        BY <1>1, <2>1, <2>2, KeptMove DEF Holds, ServiceHolds, Served
    <2>5. OwnIsSingleton'
        BY <1>1, <2>1, <2>2 DEF Kept, InstanceTypes, OwnIsSingleton, HoldsObject
    <2> QED
        BY <2>3, <2>4, <2>5 DEF Kept
<1>9. ASSUME NEW w \in Workers, getInstance(w), promote # Nothing PROVE Kept'
    <2>1. PICK o \in Objects : at' = [at EXCEPT ![w] = "run"] /\ at[w] = "begin" /\ Hold(w, o)
        BY <1>9 DEF getInstance, promote, Step, Kept, InstanceTypes
    <2>2. ~HoldsObject(w)
        BY <2>1 DEF HoldsObject, Holds, ServiceHolds, Served
    <2>3. /\ Known' /\ HoldsObject(w)'
          /\ refs' \in [Objects -> SUBSET Holders] /\ obj' \in [Holders -> Objects \cup {Nothing}]
        BY <1>1, <2>1, <2>2, KeptHold DEF Holds
    <2>4. /\ UNCHANGED <<singleton, singleton_releasing, life>>
          /\ late' \subseteq Workers /\ strayed' \in BOOLEAN
        BY <1>9 DEF getInstance, statics, Kept, InstanceTypes
    <2>5. InstanceTypes'
        BY <1>1, <2>1, <2>3, <2>4 DEF Kept, InstanceTypes, Places, WorkerPlaces
    <2>6. OwnIsSingleton'
        BY <1>1, <2>1, <2>4 DEF Hold, Kept, InstanceTypes, OwnIsSingleton, HoldsObject
    <2> QED
        BY <1>1, <2>3, <2>5, <2>6 DEF Kept
<1>10. ASSUME NEW w \in Workers, endThread(w) PROVE Kept'
    BY <1>1, <1>5, <1>10 DEF endThread, LetGo, HoldsObject, Holds
<1>11. CASE UNCHANGED instanceVars
    BY <1>11
       DEF instanceVars, statics, astray, Kept, InstanceTypes, Known, OwnIsSingleton, HoldsObject
<1>12. existing => at[Service] \in {"create", "create_again"}
    BY DEF existing, Step
<1> QED
    BY <1>1, <1>2, <1>3, <1>4, <1>6, <1>7, <1>8, <1>9, <1>10, <1>11, <1>12
       DEF InstanceNext, creating, releasing, working

(* Nobody waits in createInstance() for a release that nobody is left to   *)
(* say is over: the wait ends with a thread, and before its limit.         *)
THEOREM ReleaseIsDue == InstanceSpec => []ReleaserRuns
<1>1. InstanceInit => Kept
    BY InitInstance DEF InstanceInit, InstanceInv, Kept, Known, OwnIsSingleton, HoldsObject, Holds,
                        ServiceHolds, Served
<1>2. Kept => ReleaserRuns
    <2> SUFFICES ASSUME Kept, at[Service] = "create", singleton_releasing
                 PROVE  \E w \in Workers : at[w] \in {"run", "destructor"}
        BY DEF ReleaserRuns
    <2>1. PICK h \in Holders : HoldsObject(h) \/ at[h] = "destructor"
        BY DEF Kept
    <2>2. h # Service
        BY <2>1 DEF HoldsObject, Holds, ServiceHolds, Served
    <2>3. h \in Workers /\ at[h] \in WorkerPlaces
        BY <2>2 DEF Holders, Kept, InstanceTypes
    <2> QED
        BY <2>1, <2>3 DEF HoldsObject, Holds, ServiceHolds, Served, WorkerPlaces
<1> QED
    BY <1>1, <1>2, KeptStep, PTL DEF InstanceSpec
-----------------------------------------------------------------------------
(***************************************************************************)
(* CallKeepsItsRoute holds in every state of DeviceForStrategy, whatever   *)
(* devices come and go.                                                    *)
(*                                                                         *)
(* The speaker and the earpiece are always available, and every list of    *)
(* case STRATEGY_PHONE ends in one of them.  The media device of a call is *)
(* another matter: it was compared with the device PHONE had before the    *)
(* last update, so the invariant remembers that device (CacheAgrees).      *)
(***************************************************************************)

(* All strategies were computed by the same update.                        *)
CacheAgrees ==
    InCall => \E phone :
        /\ mDeviceForStrategy = [s \in Strategies |-> getDeviceForStrategy(s, phone)]
        /\ phoneMoved \/ mDeviceForStrategy["PHONE"] = phone

PolicyInv == BuiltIn \subseteq mAvailableOutputDevices /\ CacheAgrees

(* Some device of a list is there.                                         *)
Reaches(list) == \E n \in 1..Len(list) : list[n] \in mAvailableOutputDevices

(* Putting other devices first does not change that.                       *)
LEMMA StillReaches ==
    ASSUME NEW front \in Seq(DevicesOut), NEW back \in Seq(DevicesOut), Reaches(back)
    PROVE  front \o back \in Seq(DevicesOut) /\ Reaches(front \o back)
<1>1. PICK n \in 1..Len(back) : back[n] \in mAvailableOutputDevices
  BY DEF Reaches
<1>2. Len(front) + n \in 1..Len(front \o back) /\ (front \o back)[Len(front) + n] = back[n]
  OBVIOUS
<1> QED BY <1>1, <1>2 DEF Reaches

(* Then the first of those that are there is one.                          *)
LEMMA FirstIsThere ==
    ASSUME NEW list \in Seq(DevicesOut), Reaches(list)
    PROVE  FirstOf(list) # {} /\ FirstOf(list) \subseteq mAvailableOutputDevices
<1> DEFINE there == {n \in DOMAIN list : list[n] \in mAvailableOutputDevices}
<1>1. there \subseteq Nat /\ there # {}
  BY DEF Reaches
<1>2. PICK m \in there : \A o \in there : m <= o
  BY <1>1, LeastNat
<1>3. FirstOf(list) = {list[n] : n \in {k \in there : \A o \in there : k <= o}}
  BY DEF FirstOf
<1> QED BY <1>2, <1>3

(* A list that is conditional is one of two.                               *)
LEMMA IfTyped ==
    ASSUME NEW condition, NEW list \in Seq(DevicesOut)
    PROVE  If(condition, list) \in Seq(DevicesOut)
BY DEF If

(* A call is heard on a device that is there.                              *)
LEMMA PhoneIsThere ==
    ASSUME BuiltIn \subseteq mAvailableOutputDevices, NEW strategy
    PROVE  /\ phoneDevice(strategy) # {}
           /\ phoneDevice(strategy) \subseteq mAvailableOutputDevices
<1>1. <<"EARPIECE">> \in Seq(DevicesOut) /\ Reaches(<<"EARPIECE">>)
  BY DEF DevicesOut, BuiltIn, Reaches
<1>2. <<"SPEAKER">> \in Seq(DevicesOut) /\ Reaches(<<"SPEAKER">>)
  BY DEF DevicesOut, BuiltIn, Reaches
<1>3. carkit(strategy) \in Seq(DevicesOut)
  <2>1. <<"BLUETOOTH_SCO_CARKIT">> \in Seq(DevicesOut)
    BY DEF DevicesOut
  <2> QED BY <2>1, IfTyped DEF carkit
<1>4. forcedNone \in Seq(DevicesOut) /\ Reaches(forcedNone)
  <2>1. <<"WIRED_HEADPHONE", "WIRED_HEADSET">> \in Seq(DevicesOut)
    BY DEF DevicesOut
  <2>2. If(~InCall, <<"BLUETOOTH_A2DP", "BLUETOOTH_A2DP_HEADPHONES">>) \in Seq(DevicesOut)
    <3>1. <<"BLUETOOTH_A2DP", "BLUETOOTH_A2DP_HEADPHONES">> \in Seq(DevicesOut)
      BY DEF DevicesOut, A2dp
    <3> QED BY <3>1, IfTyped
  <2>3. If(mPhoneState = "RINGTONE", <<"SPEAKER">>) \in Seq(DevicesOut)
    BY <1>2, IfTyped
  <2> DEFINE front == <<"WIRED_HEADPHONE", "WIRED_HEADSET">>
                      \o If(~InCall, <<"BLUETOOTH_A2DP", "BLUETOOTH_A2DP_HEADPHONES">>)
                      \o If(mPhoneState = "RINGTONE", <<"SPEAKER">>)
  <2>4. front \in Seq(DevicesOut)
    BY <2>1, <2>2, <2>3, ConcatProperties
  <2>5. forcedNone = front \o <<"EARPIECE">>
    BY DEF forcedNone
  <2> HIDE DEF front
  <2> QED BY <2>4, <2>5, <1>1, StillReaches
<1>5. CASE mForceUse["COMMUNICATION"] = "BT_SCO"
  <2>1. <<"BLUETOOTH_SCO_HEADSET", "BLUETOOTH_SCO">> \in Seq(DevicesOut)
    BY DEF DevicesOut
  <2> DEFINE front == carkit(strategy) \o <<"BLUETOOTH_SCO_HEADSET", "BLUETOOTH_SCO">>
  <2>2. front \in Seq(DevicesOut)
    BY <1>3, <2>1, ConcatProperties
  <2>3. phoneDevice(strategy) = FirstOf(front \o forcedNone)
    BY <1>5 DEF phoneDevice
  <2> HIDE DEF front
  <2> QED BY <2>2, <2>3, <1>4, StillReaches, FirstIsThere
<1>6. CASE mForceUse["COMMUNICATION"] = "SPEAKER"
  <2> DEFINE front == carkit(strategy) \o If(~InCall, <<"BLUETOOTH_A2DP_SPEAKER">>)
  <2>1. <<"BLUETOOTH_A2DP_SPEAKER">> \in Seq(DevicesOut)
    BY DEF DevicesOut, A2dp
  <2>2. If(~InCall, <<"BLUETOOTH_A2DP_SPEAKER">>) \in Seq(DevicesOut)
    BY <2>1, IfTyped
  <2>3. front \in Seq(DevicesOut)
    BY <1>3, <2>2, ConcatProperties
  <2>4. phoneDevice(strategy) = FirstOf(front \o <<"SPEAKER">>)
    BY <1>6 DEF phoneDevice
  <2> HIDE DEF front
  <2> QED BY <2>3, <2>4, <1>2, StillReaches, FirstIsThere
<1>7. CASE mForceUse["COMMUNICATION"] \notin {"BT_SCO", "SPEAKER"}
  BY <1>4, <1>7, FirstIsThere DEF phoneDevice
<1> QED BY <1>5, <1>6, <1>7

(* Every update computes all strategies, with the device PHONE had.        *)
LEMMA UpdateAgrees ==
    ASSUME updateDeviceForStrategy
    PROVE  CacheAgrees'
<1>1. PICK phone :
          /\ mDeviceForStrategy' = [s \in Strategies |-> getDeviceForStrategy(s, phone)']
          /\ phoneMoved' = (mDeviceForStrategy'["PHONE"] # phone)
  BY DEF updateDeviceForStrategy
<1> QED BY <1>1 DEF CacheAgrees

(* In a call everything but media is heard on a device that is there, and  *)
(* media is silent, goes with the call, or to A2DP, unless the last update *)
(* has just moved the call: for every set of devices that come and go.     *)
THEOREM CallIsRouted == PolicySpec => []CallKeepsItsRoute
<1>1. PolicyInit => PolicyInv
  BY DEF PolicyInit, PolicyInv, CacheAgrees, InCall
<1>2. PolicyInv /\ [PolicyNext]_policyVars => PolicyInv'
  <2> SUFFICES ASSUME PolicyInv, [PolicyNext]_policyVars
               PROVE  PolicyInv'
    OBVIOUS
  <2>1. CASE setDeviceConnectionState
    <3>1. BuiltIn \subseteq mAvailableOutputDevices'
      BY <2>1, PluggableAssumption DEF setDeviceConnectionState, PolicyInv
    <3> QED BY <2>1, <3>1, UpdateAgrees DEF setDeviceConnectionState, PolicyInv
  <2>2. CASE setPhoneState
    BY <2>2, UpdateAgrees DEF setPhoneState, PolicyInv
  <2>3. CASE setForceUse
    BY <2>3, UpdateAgrees DEF setForceUse, PolicyInv
  <2>4. CASE UNCHANGED policyVars
    <3>1. \A s, phone : getDeviceForStrategy(s, phone)' = getDeviceForStrategy(s, phone)
      <4>1. InCall' = InCall /\ \A list : FirstOf(list)' = FirstOf(list)
        BY <2>4 DEF policyVars, InCall, FirstOf
      <4>2. forcedNone' = forcedNone /\ \A strategy : carkit(strategy)' = carkit(strategy)
        BY <2>4, <4>1 DEF policyVars, forcedNone, carkit
      <4>3. \A strategy : phoneDevice(strategy)' = phoneDevice(strategy)
        BY <2>4, <4>1, <4>2 DEF policyVars, phoneDevice
      <4>4. \A strategy, phone : mediaDevice(strategy, phone)' = mediaDevice(strategy, phone)
        BY <2>4, <4>1 DEF policyVars, mediaDevice
      <4> QED BY <4>1, <4>3, <4>4 DEF getDeviceForStrategy
    <3> QED BY <2>4, <3>1 DEF policyVars, PolicyInv, CacheAgrees, InCall
  <2> QED BY <2>1, <2>2, <2>3, <2>4 DEF PolicyNext
<1>3. PolicyInv => CallKeepsItsRoute
  <2> SUFFICES ASSUME PolicyInv, InCall
               PROVE  CallKeepsItsRoute
    BY DEF CallKeepsItsRoute
  <2>1. PICK phone :
            /\ mDeviceForStrategy = [s \in Strategies |-> getDeviceForStrategy(s, phone)]
            /\ phoneMoved \/ mDeviceForStrategy["PHONE"] = phone
    BY DEF PolicyInv, CacheAgrees
  <2>2. ASSUME NEW s \in Strategies \ {"MEDIA"}
        PROVE  mDeviceForStrategy[s] # {} /\ mDeviceForStrategy[s] \subseteq mAvailableOutputDevices
    <3>1. \E strategy : mDeviceForStrategy[s] = phoneDevice(strategy)
      BY <2>1 DEF Strategies, getDeviceForStrategy
    <3> QED BY <3>1, PhoneIsThere DEF PolicyInv
  <2>3. mDeviceForStrategy["MEDIA"] \in {{}, phone} \/ isA2dpDevice(mDeviceForStrategy["MEDIA"])
    <3>1. mDeviceForStrategy["MEDIA"] = mediaDevice("MEDIA", phone)
      BY <2>1 DEF Strategies, getDeviceForStrategy
    <3>2. PICK device :
              mediaDevice("MEDIA", phone)
              = IF InCall /\ ~isA2dpDevice(device) /\ device # phone THEN {} ELSE device
      BY DEF mediaDevice
    <3> QED BY <3>1, <3>2
  <2> QED BY <2>1, <2>2, <2>3 DEF CallKeepsItsRoute
<1> QED BY <1>1, <1>2, <1>3, PTL DEF PolicySpec
-----------------------------------------------------------------------------
(***************************************************************************)
(* The ring of InputEventReader is sound and implements EventQueue, for    *)
(* every capacity and every set of events.                                 *)
(*                                                                         *)
(* Both rest on what a read leaves in the cells of the ring (AfterRead):   *)
(* it changes no cell that waits, because the free cells between mHead and *)
(* mCurr, taken around the end, are as many as mFreeSpace says; and the    *)
(* events it brings follow those that wait, because what ran over the end  *)
(* is copied to where the ring goes on.                                    *)
(***************************************************************************)

USE NoEventAssumption, numEventsAssumption

(* advance() keeps what waits and appends what was read.                   *)
LEMMA AfterRead ==
    ASSUME RingSound,
           NEW n \in 0..mFreeSpace, NEW events \in [1..n -> Event],
           advance(events)
    PROVE  /\ mBuffer' \in [Cells -> Event \cup {NoEvent}]
           /\ mHead' \in 0..numEvents
           /\ Wrap(mHead') = Wrap(mCurr + Available + n)
           /\ \A i \in 0..(Available - 1) :
                  mBuffer'[Wrap(mCurr + i)] = mBuffer[Wrap(mCurr + i)]
           /\ \A i \in Available..(Available + n - 1) :
                  mBuffer'[Wrap(mCurr + i)] = events[i - Available + 1]
<1> DEFINE head == mHead + n
<1> DEFINE s == head - numEvents
<1>1. /\ Len(events) = n
      /\ n \in Nat
      /\ numEvents \in Nat \ {0}
      /\ mHead \in 0..numEvents
      /\ mCurr \in 0..(numEvents - 1)
      /\ mFreeSpace \in 0..numEvents
      /\ Available \in 0..numEvents
      /\ Available + mFreeSpace = numEvents
      /\ Wrap(mCurr + Available) = Wrap(mHead)
  BY DEF RingSound, Available
<1>2. mBuffer \in [Cells -> Event \cup {NoEvent}]
  BY DEF RingSound
<1>3. Stored(events) \in [Cells -> Event \cup {NoEvent}]
  <2>1. ASSUME NEW c \in Cells, c - mHead \in 0..(n - 1)
        PROVE  events[c - mHead + 1] \in Event
    BY <2>1, <1>1 DEF Cells
  <2> QED
    BY <2>1, <1>1, <1>2 DEF Stored
<1>4. CASE head <= numEvents
  <2>1. mBuffer' = Stored(events) /\ mHead' = head
    BY <1>1, <1>4 DEF advance, mBufferEnd
  <2>2. ASSUME NEW i \in 0..(Available - 1)
        PROVE  mBuffer'[Wrap(mCurr + i)] = mBuffer[Wrap(mCurr + i)]
    <3>1. Wrap(mCurr + i) \in Cells /\ ~(Wrap(mCurr + i) - mHead \in 0..(n - 1))
      BY <1>1, <1>4 DEF Wrap, Cells
    <3> QED
      BY <3>1, <2>1, <1>1 DEF Stored
  <2>3. ASSUME NEW i \in Available..(Available + n - 1)
        PROVE  mBuffer'[Wrap(mCurr + i)] = events[i - Available + 1]
    <3>1. /\ Wrap(mCurr + i) \in Cells
          /\ mHead < numEvents
          /\ Wrap(mCurr + i) = mHead + (i - Available)
      BY <1>1, <1>4 DEF Wrap, Cells
    <3>2. Wrap(mCurr + i) - mHead \in 0..(n - 1)
      BY <3>1, <1>1
    <3>3. Wrap(mCurr + i) - mHead + 1 = i - Available + 1
      BY <3>1, <1>1
    <3> QED
      BY <3>1, <3>2, <3>3, <2>1, <1>1 DEF Stored
  <2>4. Wrap(head) = Wrap(mCurr + Available + n)
    BY <1>1, <1>4 DEF Wrap
  <2>5. mHead' \in 0..numEvents /\ mBuffer' \in [Cells -> Event \cup {NoEvent}]
    BY <2>1, <1>1, <1>3, <1>4
  <2> QED
    BY <2>1, <2>2, <2>3, <2>4, <2>5
<1>5. CASE head > numEvents
  <2>1. mBuffer' = CopiedBack(Stored(events), s) /\ mHead' = s
    BY <1>1, <1>5 DEF advance, mBufferEnd
  <2>2. s \in 1..mFreeSpace
    BY <1>1, <1>5
  <2>3. \A c \in Cells : c < s => numEvents + c \in Cells
    BY <1>1, <2>2 DEF Cells
  <2>4. mBuffer' \in [Cells -> Event \cup {NoEvent}]
    BY <2>1, <2>3, <1>3 DEF CopiedBack, mBufferEnd
  <2>5. ASSUME NEW i \in 0..(Available - 1)
        PROVE  mBuffer'[Wrap(mCurr + i)] = mBuffer[Wrap(mCurr + i)]
    <3> DEFINE c == Wrap(mCurr + i)
    <3>1. c \in 0..(numEvents - 1) /\ c \in Cells
      BY <1>1 DEF Wrap, Cells
    <3>2. ~(c < s)
      BY <1>1, <1>5 DEF Wrap
    <3>3. ~(c - mHead \in 0..(n - 1))
      BY <1>1, <1>5 DEF Wrap
    <3> QED
      BY <3>1, <3>2, <3>3, <2>1, <1>1 DEF CopiedBack, Stored
  <2>6. ASSUME NEW i \in Available..(Available + n - 1)
        PROVE  mBuffer'[Wrap(mCurr + i)] = events[i - Available + 1]
    <3> DEFINE c == Wrap(mCurr + i)
    <3>1. CASE mHead + (i - Available) < numEvents
      <4>1. /\ c \in Cells
            /\ c = mHead + (i - Available)
            /\ ~(c < s)
        BY <3>1, <1>1, <1>5, <2>2 DEF Wrap, Cells
      <4>2. c - mHead \in 0..(n - 1) /\ c - mHead + 1 = i - Available + 1
        BY <4>1, <1>1
      <4> QED
        BY <4>1, <4>2, <2>1, <1>1 DEF CopiedBack, Stored
    <3>2. CASE mHead + (i - Available) >= numEvents
      <4>1. /\ c \in Cells
            /\ c < s
            /\ numEvents + c \in Cells
            /\ numEvents + c = mHead + (i - Available)
        BY <3>2, <1>1, <1>5, <2>2 DEF Wrap, Cells
      <4>2. /\ (numEvents + c) - mHead \in 0..(n - 1)
            /\ (numEvents + c) - mHead + 1 = i - Available + 1
        BY <4>1, <1>1
      <4>3. mBuffer'[c] = Stored(events)[numEvents + c]
        BY <4>1, <2>1 DEF CopiedBack, mBufferEnd
      <4> QED
        BY <4>1, <4>2, <4>3, <1>1 DEF Stored
    <3> QED
      BY <3>1, <3>2, <1>1
  <2>7. Wrap(s) = Wrap(mCurr + Available + n)
    BY <1>1, <1>5, <2>2 DEF Wrap
  <2> QED
    BY <2>1, <2>2, <2>4, <2>5, <2>6, <2>7, <1>1
<1>6. head <= numEvents \/ head > numEvents
  BY <1>1
<1> QED
  BY <1>4, <1>5, <1>6
-----------------------------------------------------------------------------
(* An empty ring is sound.                                                 *)
LEMMA InitSound == ReaderInit => RingSound
  BY DEF ReaderInit, RingSound, Available, Wrap, Cells

(* A read() fills the free cells from the head on; what runs over the end  *)
(* is copied to cells that are free too.                                   *)
LEMMA FillSound == RingSound /\ fill => RingSound'
<1> SUFFICES ASSUME RingSound, fill PROVE RingSound'
  OBVIOUS
<1> PICK n \in 0..mFreeSpace : \E events \in [1..n -> Event] :
        advance(events) /\ mFreeSpace' = mFreeSpace - n /\ readerRet' = n
  BY DEF fill
<1>1. PICK events \in [1..n -> Event] :
        advance(events) /\ mFreeSpace' = mFreeSpace - n /\ readerRet' = n
  OBVIOUS
<1>2. event = NoEvent /\ mCurr' = mCurr /\ event' = NoEvent
  BY DEF fill
<1>3. /\ numEvents \in Nat \ {0}
      /\ n \in Nat
      /\ mCurr \in 0..(numEvents - 1)
      /\ mFreeSpace \in 0..numEvents
      /\ mFreeSpace' \in 0..numEvents
      /\ Available \in 0..numEvents
      /\ Available' = Available + n
  BY <1>1 DEF RingSound, Available
<1>4. /\ mBuffer' \in [Cells -> Event \cup {NoEvent}]
      /\ mHead' \in 0..numEvents
      /\ Wrap(mHead') = Wrap(mCurr + Available + n)
      /\ \A i \in 0..(Available - 1) :
             mBuffer'[Wrap(mCurr + i)] = mBuffer[Wrap(mCurr + i)]
      /\ \A i \in Available..(Available + n - 1) :
             mBuffer'[Wrap(mCurr + i)] = events[i - Available + 1]
  BY <1>1, AfterRead
<1>5. ASSUME NEW i \in 0..(Available' - 1)
      PROVE  mBuffer'[Wrap(mCurr + i)] \in Event
  <2>1. CASE i \in 0..(Available - 1)
    BY <2>1, <1>4 DEF RingSound
  <2>2. CASE i \in Available..(Available + n - 1)
    <3>1. i - Available + 1 \in 1..n
      BY <2>2, <1>3
    <3> QED
      BY <3>1, <2>2, <1>4
  <2> QED
    BY <2>1, <2>2, <1>3
<1>6. Wrap(mCurr' + Available') = Wrap(mHead')
  BY <1>2, <1>3, <1>4
<1> QED
  <2>1. mBuffer' \in [Cells -> Event \cup {NoEvent}] /\ readerRet' \in Int
    BY <1>1, <1>3, <1>4
  <2>2. \A i \in 0..(Available' - 1) : mBuffer'[Wrap(mCurr' + i)] \in Event
    BY <1>2, <1>5
  <2> QED
    BY <1>2, <1>3, <1>4, <1>6, <2>1, <2>2 DEF RingSound

(* The driver frees the oldest cell, and the events behind it stay where   *)
(* they are.                                                               *)
LEMMA NextSound == RingSound /\ next => RingSound'
<1> SUFFICES ASSUME RingSound, next PROVE RingSound'
  OBVIOUS
<1>1. /\ mBuffer' = mBuffer
      /\ mHead' = mHead
      /\ mFreeSpace' = mFreeSpace + 1
      /\ mCurr' = Wrap(mCurr + 1)
      /\ event' = NoEvent
      /\ readerRet' = readerRet
      /\ Available > 0
  BY DEF next, RingSound, mBufferEnd, Wrap
<1>2. /\ numEvents \in Nat \ {0}
      /\ mHead \in 0..numEvents
      /\ mCurr \in 0..(numEvents - 1)
      /\ mCurr' \in 0..(numEvents - 1)
      /\ mFreeSpace \in 0..numEvents
      /\ mFreeSpace' \in 0..numEvents
      /\ Available \in 1..numEvents
      /\ Available' = Available - 1
      /\ Wrap(mCurr + Available) = Wrap(mHead)
  BY <1>1 DEF RingSound, Available, Wrap
<1>3. ASSUME NEW i \in 0..(Available' - 1)
      PROVE  mBuffer'[Wrap(mCurr' + i)] \in Event
  <2>1. Wrap(mCurr' + i) = Wrap(mCurr + (i + 1)) /\ i + 1 \in 0..(Available - 1)
    BY <1>1, <1>2 DEF Wrap
  <2> QED
    BY <2>1, <1>1 DEF RingSound
<1>4. Wrap(mCurr' + Available') = Wrap(mHead')
  BY <1>1, <1>2 DEF Wrap
<1> QED
  BY <1>1, <1>2, <1>3, <1>4 DEF RingSound, Wrap

(* Looking at an event, or a read() that fails, moves nothing.             *)
LEMMA LookSound == RingSound /\ (readEvent \/ fillFails \/ UNCHANGED readerVars) => RingSound'
<1>1. RingSound /\ readEvent => RingSound'
  BY DEF RingSound, readEvent, mBufferEnd, Available, Wrap
<1>2. RingSound /\ fillFails => RingSound'
  BY DEF RingSound, fillFails, Available, Wrap
<1>3. RingSound /\ UNCHANGED readerVars => RingSound'
  BY DEF RingSound, readerVars, Available, Wrap
<1> QED
  BY <1>1, <1>2, <1>3

(* The pointers and the count of the ring agree and what waits is what the *)
(* device gave (fill, next).                                               *)
THEOREM RingStaysSound == ReaderSpec => []RingSound
<1>1. RingSound /\ [ReaderNext]_readerVars => RingSound'
  BY FillSound, NextSound, LookSound DEF ReaderNext
<1> QED
  BY <1>1, InitSound, PTL DEF ReaderSpec
-----------------------------------------------------------------------------
(* What waits in a sound ring is a sequence of events, and the oldest is   *)
(* the one the driver looks at.                                            *)
LEMMA WaitingFacts ==
    ASSUME RingSound
    PROVE  /\ Waiting \in Seq(Event)
           /\ Len(Waiting) = Available
           /\ Available \in 0..numEvents
           /\ Available > 0 => Head(Waiting) = mBuffer[mCurr]
<1>1. /\ Available \in 0..numEvents
      /\ numEvents \in Nat
      /\ mCurr \in 0..(numEvents - 1)
  BY DEF RingSound, Available
<1>2. ASSUME NEW i \in 1..Available
      PROVE  mBuffer[Wrap(mCurr + i - 1)] \in Event
  <2>1. i - 1 \in 0..(Available - 1) /\ mCurr + i - 1 = mCurr + (i - 1)
    BY <1>1
  <2> QED
    BY <2>1 DEF RingSound
<1>3. Waiting \in [1..Available -> Event]
  BY <1>2 DEF Waiting
<1>4. Waiting \in Seq(Event) /\ Len(Waiting) = Available
  BY <1>1, <1>3
<1>5. Available > 0 => Waiting[1] = mBuffer[mCurr]
  BY <1>1 DEF Waiting, Wrap
<1> QED
  BY <1>1, <1>4, <1>5

(* A read() puts its events behind those that wait, in order.              *)
LEMMA FillIsFill == RingSound /\ RingSound' /\ fill => EQ!Fill
<1> SUFFICES ASSUME RingSound, RingSound', fill PROVE EQ!Fill
  OBVIOUS
<1> PICK n \in 0..mFreeSpace : \E events \in [1..n -> Event] :
        advance(events) /\ mFreeSpace' = mFreeSpace - n /\ readerRet' = n /\ given' = events
  BY DEF fill
<1>1. PICK events \in [1..n -> Event] :
        advance(events) /\ mFreeSpace' = mFreeSpace - n /\ readerRet' = n /\ given' = events
  OBVIOUS
<1>2. event = NoEvent /\ mCurr' = mCurr /\ event' = NoEvent
  BY DEF fill
<1>3. /\ Waiting \in Seq(Event)
      /\ Len(Waiting) = Available
      /\ Available \in 0..numEvents
  BY WaitingFacts
<1>4. /\ numEvents \in Nat
      /\ n \in Nat
      /\ mFreeSpace \in 0..numEvents
      /\ mCurr \in 0..(numEvents - 1)
      /\ Available' = Available + n
      /\ n <= numEvents - Available
  BY <1>1 DEF RingSound, Available
<1>5. /\ \A i \in 0..(Available - 1) :
             mBuffer'[Wrap(mCurr + i)] = mBuffer[Wrap(mCurr + i)]
      /\ \A i \in Available..(Available + n - 1) :
             mBuffer'[Wrap(mCurr + i)] = events[i - Available + 1]
  BY <1>1, AfterRead
<1>6. events \in Seq(Event) /\ Len(events) = n
  BY <1>1, <1>4
<1>7. Waiting' = [i \in 1..(Available + n) |-> mBuffer'[Wrap(mCurr + i - 1)]]
  BY <1>2, <1>4 DEF Waiting
<1>8. Waiting \o events = [i \in 1..(Available + n) |->
                            IF i <= Available THEN Waiting[i] ELSE events[i - Available]]
  <2>1. /\ Waiting \o events \in [1..(Available + n) -> Event]
        /\ \A i \in 1..(Available + n) :
               (Waiting \o events)[i] = IF i <= Available THEN Waiting[i]
                                        ELSE events[i - Available]
    <3> HIDE DEF Waiting
    <3>1. /\ Waiting \o events \in Seq(Event)
          /\ Len(Waiting \o events) = Available + n
          /\ \A i \in 1..(Available + n) :
                 (Waiting \o events)[i] = IF i <= Available THEN Waiting[i]
                                          ELSE events[i - Available]
      <4>1. /\ Waiting \o events \in Seq(Event)
            /\ Len(Waiting \o events) = Len(Waiting) + Len(events)
            /\ \A i \in 1..(Len(Waiting) + Len(events)) :
                   (Waiting \o events)[i] = IF i <= Len(Waiting) THEN Waiting[i]
                                            ELSE events[i - Len(Waiting)]
        BY <1>3, <1>6, ConcatProperties, Zenon
      <4> QED
        BY <4>1, <1>3, <1>6, Zenon
    <3> QED
      BY <3>1, LenProperties, Zenon
  <2> QED
    BY <2>1
<1>9. ASSUME NEW i \in 1..(Available + n)
      PROVE  mBuffer'[Wrap(mCurr + i - 1)] =
                 IF i <= Available THEN Waiting[i] ELSE events[i - Available]
  <2>1. mCurr + i - 1 = mCurr + (i - 1)
    BY <1>4
  <2>2. CASE i <= Available
    <3>1. i - 1 \in 0..(Available - 1) /\ i \in 1..Available
      BY <2>2, <1>3, <1>4
    <3>2. mBuffer'[Wrap(mCurr + i - 1)] = mBuffer[Wrap(mCurr + i - 1)]
      BY <3>1, <2>1, <1>5
    <3> QED
      BY <3>1, <3>2, <2>2 DEF Waiting
  <2>3. CASE i > Available
    <3>1. i - 1 \in Available..(Available + n - 1) /\ (i - 1) - Available + 1 = i - Available
      BY <2>3, <1>3, <1>4
    <3>2. mBuffer'[Wrap(mCurr + i - 1)] = events[i - Available]
      BY <3>1, <2>1, <1>5
    <3> QED
      BY <3>2, <2>3, <1>3, <1>4
  <2> QED
    BY <2>2, <2>3, <1>3, <1>4
<1>10. Waiting' = Waiting \o events
  BY <1>7, <1>8, <1>9
<1>11. readerRet' = n /\ n \in 0..EQ!Room
  BY <1>1, <1>3, <1>4 DEF EQ!Room
<1>12. given' \in [1..readerRet' -> Event] /\ Waiting' = Waiting \o given'
  BY <1>1, <1>10
<1> QED
  BY <1>2, <1>11, <1>12 DEF EQ!Fill

(* next() takes the oldest event away.                                     *)
LEMMA NextIsNext == RingSound /\ RingSound' /\ next => EQ!NextEvent
<1> SUFFICES ASSUME RingSound, RingSound', next PROVE EQ!NextEvent
  OBVIOUS
<1>1. /\ event # NoEvent /\ event' = NoEvent /\ readerRet' = readerRet
      /\ given' = <<>>
      /\ mBuffer' = mBuffer
      /\ mCurr' = Wrap(mCurr + 1)
      /\ Available > 0
      /\ Available' = Available - 1
  BY DEF next, RingSound, mBufferEnd, Wrap, Available
<1>2. /\ Waiting \in Seq(Event)
      /\ Len(Waiting) = Available
      /\ Available \in 1..numEvents
      /\ numEvents \in Nat
      /\ mCurr \in 0..(numEvents - 1)
  BY <1>1, WaitingFacts DEF RingSound
<1>3. Tail(Waiting) = [i \in 1..(Available - 1) |-> Waiting[i + 1]]
  <2>1. Waiting # <<>>
    BY <1>2
  <2>2. /\ Tail(Waiting) \in Seq(Event)
        /\ Len(Tail(Waiting)) = Available - 1
        /\ \A i \in 1..(Available - 1) : Tail(Waiting)[i] = Waiting[i + 1]
    BY <2>1, <1>2, HeadTailProperties
  <2>3. Tail(Waiting) \in [1..(Available - 1) -> Event]
    BY <2>2, LenProperties
  <2> QED
    BY <2>2, <2>3
<1>4. ASSUME NEW i \in 1..(Available - 1)
      PROVE  mBuffer'[Wrap(mCurr' + i - 1)] = Waiting[i + 1]
  <2>1. i + 1 \in 1..Available /\ Wrap(mCurr' + i - 1) = Wrap(mCurr + (i + 1) - 1)
    BY <1>1, <1>2 DEF Wrap
  <2> QED
    BY <2>1, <1>1 DEF Waiting
<1>5. Waiting' = [i \in 1..(Available - 1) |-> mBuffer'[Wrap(mCurr' + i - 1)]]
  BY <1>1 DEF Waiting
<1>6. Waiting' = Tail(Waiting)
  BY <1>3, <1>4, <1>5
<1> QED
  BY <1>1, <1>6 DEF EQ!NextEvent

(* readEvent() returns the oldest event, or that there is none; a read()   *)
(* that fails changes nothing.                                             *)
LEMMA LookIsLook ==
    ASSUME RingSound, RingSound', readEvent \/ fillFails \/ UNCHANGED readerVars
    PROVE  EQ!ReadEvent \/ EQ!FillFails \/ UNCHANGED EQ!vars
<1>1. /\ Len(Waiting) = Available
      /\ Waiting \in Seq(Event)
      /\ Available \in 0..numEvents
      /\ Available > 0 => Head(Waiting) = mBuffer[mCurr]
      /\ numEvents \in Nat
      /\ mFreeSpace \in 0..numEvents
  BY WaitingFacts DEF RingSound
<1>2. Waiting = <<>> <=> Available = 0
  BY <1>1
<1>3. CASE readEvent
  <2>1. Waiting' = Waiting
    BY <1>3 DEF readEvent, Waiting, Available
  <2> QED
    BY <1>1, <1>2, <1>3, <2>1 DEF readEvent, EQ!ReadEvent, mBufferEnd, Available
<1>4. CASE fillFails
  <2>1. Waiting' = Waiting
    BY <1>4 DEF fillFails, Waiting, Available
  <2>2. EQ!Room > 0
    BY <1>1, <1>4 DEF EQ!Room, Available, fillFails
  <2> QED
    BY <1>4, <2>1, <2>2 DEF fillFails, EQ!FillFails
<1>5. CASE UNCHANGED readerVars
  BY <1>5 DEF readerVars, EQ!vars, Waiting, Available
<1> QED
  BY <1>3, <1>4, <1>5

(* The ring buffer (fill, readEvent, next) is the queue EventQueue.        *)
THEOREM ReaderImplementsQueue == ReaderSpec => ReaderIsQueue
<1>1. ReaderInit => EQ!Init
  BY DEF ReaderInit, EQ!Init, Waiting, Available
<1>2. RingSound /\ RingSound' /\ [ReaderNext]_readerVars => [EQ!Next]_(EQ!vars)
  <2> SUFFICES ASSUME RingSound, RingSound', [ReaderNext]_readerVars
               PROVE  EQ!Next \/ UNCHANGED EQ!vars
    OBVIOUS
  <2>1. CASE fill
    BY <2>1, FillIsFill DEF EQ!Next
  <2>2. CASE next
    BY <2>2, NextIsNext DEF EQ!Next
  <2>3. CASE readEvent \/ fillFails \/ UNCHANGED readerVars
    BY <2>3, LookIsLook DEF EQ!Next
  <2> QED
    BY <2>1, <2>2, <2>3 DEF ReaderNext
<1> QED
  BY <1>1, <1>2, RingStaysSound, PTL DEF ReaderSpec, ReaderIsQueue, EQ!Spec
-----------------------------------------------------------------------------
(***************************************************************************)
(* Recursive functions. Number by number, what holds for 0 and goes on     *)
(* from each number to the next holds for all: a least exception would     *)
(* have one before it. Hence a function that is defined by what it is at 0 *)
(* and by a step from one number to the next exists, and so the CHOOSE     *)
(* that a recursive definition stands for is that function. The step is    *)
(* given as a function, not as an operator.                                *)
(***************************************************************************)

(* A set that has 0, and with a number the next, has all numbers.          *)
LEMMA Induction ==
    ASSUME NEW S, 0 \in S, \A n \in Nat : n \in S => n + 1 \in S
    PROVE  \A n \in Nat : n \in S
<1> DEFINE Less == OpToRel(<, Nat)
           T == Nat \ S
<1>1. \A y \in Nat : <<y, y + 1>> \in Less
  <2>1. \A y \in Nat : <<y, y + 1>> \in Nat \X Nat /\ <<y, y + 1>>[1] < <<y, y + 1>>[2]
    OBVIOUS
  <2> QED BY <2>1 DEF OpToRel
<1>2. IsWellFoundedOn(Less, Nat)
  BY NatLessThanWellFounded
<1> HIDE DEF Less
<1> SUFFICES ASSUME T # {} PROVE FALSE
  OBVIOUS
<1>3. PICK x \in T : \A y \in T : ~(<<y, x>> \in Less)
  <2>1. T \subseteq Nat
    OBVIOUS
  <2> HIDE DEF T
  <2> QED BY <1>2, <2>1, WFMin
<1>4. x \in Nat /\ x # 0 /\ x - 1 \in Nat
  OBVIOUS
<1>5. x - 1 \in T
  BY <1>4
<1>6. <<x - 1, x>> \in Less
  BY <1>1, <1>4
<1> QED BY <1>3, <1>5, <1>6

(* f starts with `first' and each value is what `step' makes of the one    *)
(* before.                                                                 *)
Iterates(f, V, first, N, step) ==
    /\ f \in [0..N -> V]
    /\ f[0] = first
    /\ \A n \in 1..N : f[n] = step[<<n, f[n - 1]>>]

(* A function that is applied over and over is a function of the number.   *)
LEMMA Iteration ==
    ASSUME NEW V, NEW first \in V, NEW N \in Nat,
           NEW step \in [(1..N) \X V -> V]
    PROVE  \E f : Iterates(f, V, first, N, step)
<1> DEFINE Upto(n) == \E f \in [0..n -> V] :
                          f[0] = first /\ \A i \in 1..n : f[i] = step[<<i, f[i - 1]>>]
           S == {n \in Nat : n <= N => Upto(n)}
<1>1. 0 \in S
  <2> DEFINE f == [i \in 0..0 |-> first]
  <2>1. f \in [0..0 -> V] /\ f[0] = first /\ \A i \in 1..0 : f[i] = step[<<i, f[i - 1]>>]
    OBVIOUS
  <2> QED BY <2>1
<1>2. ASSUME NEW n \in Nat, n \in S
      PROVE  n + 1 \in S
  <2> SUFFICES ASSUME n + 1 <= N PROVE Upto(n + 1)
    OBVIOUS
  <2>1. PICK f \in [0..n -> V] : f[0] = first /\ \A i \in 1..n : f[i] = step[<<i, f[i - 1]>>]
    BY <1>2
  <2> DEFINE g == [i \in 0..(n + 1) |-> IF i = n + 1 THEN step[<<n + 1, f[n]>>] ELSE f[i]]
  <2>2. step[<<n + 1, f[n]>>] \in V
    BY <2>1
  <2>3. g \in [0..(n + 1) -> V]
    BY <2>1, <2>2
  <2>4. g[0] = first
    BY <2>1
  <2>5. ASSUME NEW i \in 1..(n + 1) PROVE g[i] = step[<<i, g[i - 1]>>]
    <3>1. i - 1 \in 0..n /\ g[i - 1] = f[i - 1]
      OBVIOUS
    <3>2. i # n + 1 => i \in 1..n /\ g[i] = f[i]
      OBVIOUS
    <3>3. i = n + 1 => g[i] = step[<<n + 1, f[n]>>] /\ i - 1 = n
      OBVIOUS
    <3> HIDE DEF g
    <3> QED BY <2>1, <3>1, <3>2, <3>3
  <2> QED BY <2>3, <2>4, <2>5
<1>3. N \in S
  <2> HIDE DEF S
  <2> QED BY <1>1, <1>2, Induction
<1> QED BY <1>3 DEF Iterates

Follows(g, V, first, N, step) ==
    g[0] = first /\ \A n \in 1..N : g[n - 1] \in V => g[n] = step[<<n, g[n - 1]>>]

(* Whatever obeys the recursion as far as its values are of the right kind *)
(* is that function.                                                       *)
LEMMA IterationUnique ==
    ASSUME NEW N, N \in Nat, NEW V, NEW first, NEW step, NEW f, Iterates(f, V, first, N, step),
           NEW g, Follows(g, V, first, N, step)
    PROVE  \A n \in 0..N : g[n] = f[n]
<1> DEFINE S == {n \in Nat : n <= N => g[n] = f[n]}
<1>1. 0 \in S
  BY DEF Iterates, Follows
<1>2. ASSUME NEW n \in Nat, n \in S PROVE n + 1 \in S
  <2>1. n + 1 <= N => n + 1 \in 1..N /\ (n + 1) - 1 = n /\ n <= N /\ n \in 0..N
    OBVIOUS
  <2>2. n + 1 <= N => f[n] \in V /\ f[n + 1] = step[<<n + 1, f[n]>>]
    BY <2>1 DEF Iterates
  <2>3. n + 1 <= N => g[n + 1] = step[<<n + 1, f[n]>>]
    BY <1>2, <2>1, <2>2 DEF Follows
  <2> QED BY <2>2, <2>3
<1>3. \A n \in Nat : n \in S
  <2> HIDE DEF S
  <2> QED BY <1>1, <1>2, Induction
<1> QED BY <1>3

Descends(f, V, first, N, step) ==
    /\ f \in [0..N -> V]
    /\ f[N] = first
    /\ \A n \in 0..(N - 1) : f[n] = step[<<n, f[n + 1]>>]

(* The same, counting down.                                                *)
LEMMA Descent ==
    ASSUME NEW V, NEW first \in V, NEW N \in Nat,
           NEW step \in [(0..(N - 1)) \X V -> V]
    PROVE  \E f : Descends(f, V, first, N, step)
<1> DEFINE up == [x \in (1..N) \X V |-> step[<<N - x[1], x[2]>>]]
<1>1. up \in [(1..N) \X V -> V]
  <2>1. \A n \in 1..N : N - n \in 0..(N - 1)
    OBVIOUS
  <2> QED BY <2>1
<1>2. \A n \in 1..N, v \in V : up[<<n, v>>] = step[<<N - n, v>>]
  OBVIOUS
<1> HIDE DEF up
<1>3. PICK h : Iterates(h, V, first, N, up)
  BY <1>1, Iteration
<1> DEFINE f == [n \in 0..N |-> h[N - n]]
<1>4. \A n \in 0..N : N - n \in 0..N /\ f[n] = h[N - n]
  OBVIOUS
<1>5. f \in [0..N -> V]
  BY <1>3, <1>4 DEF Iterates
<1>6. f[N] = first
  BY <1>3, <1>4 DEF Iterates
<1>7. ASSUME NEW n \in 0..(N - 1) PROVE f[n] = step[<<n, f[n + 1]>>]
  <2>1. /\ N - n \in 1..N /\ N - (n + 1) = (N - n) - 1 /\ N - (N - n) = n /\ n \in 0..N
        /\ n + 1 \in 0..N
    OBVIOUS
  <2>2. f[n] = h[N - n] /\ f[n + 1] = h[(N - n) - 1]
    BY <2>1
  <2> HIDE DEF f
  <2>3. h[N - n] = up[<<N - n, h[(N - n) - 1]>>] /\ h[(N - n) - 1] \in V
    <3>1. (N - n) - 1 \in 0..N
      OBVIOUS
    <3> QED BY <1>3, <2>1, <3>1 DEF Iterates
  <2> QED BY <1>2, <2>1, <2>2, <2>3
<1> QED BY <1>5, <1>6, <1>7 DEF Descends

FollowsDown(g, V, first, N, step) ==
    g[N] = first /\ \A n \in 0..(N - 1) : g[n + 1] \in V => g[n] = step[<<n, g[n + 1]>>]

(* Whatever obeys the recursion downwards is that function.                *)
LEMMA DescentUnique ==
    ASSUME NEW N, N \in Nat, NEW V, NEW first, NEW step, NEW f, Descends(f, V, first, N, step),
           NEW g, FollowsDown(g, V, first, N, step)
    PROVE  \A n \in 0..N : g[n] = f[n]
<1> DEFINE S == {n \in Nat : n <= N => g[N - n] = f[N - n]}
<1>1. 0 \in S
  BY DEF Descends, FollowsDown
<1>2. ASSUME NEW n \in Nat, n \in S PROVE n + 1 \in S
  <2> DEFINE k == N - (n + 1)
  <2>1. n + 1 <= N => k \in 0..(N - 1) /\ k + 1 = N - n /\ n <= N /\ k + 1 \in 0..N
    OBVIOUS
  <2>2. n + 1 <= N => f[k + 1] \in V /\ f[k] = step[<<k, f[k + 1]>>]
    BY <2>1 DEF Descends
  <2>3. n + 1 <= N => g[k] = step[<<k, f[k + 1]>>]
    BY <1>2, <2>1, <2>2 DEF FollowsDown
  <2> QED BY <2>2, <2>3
<1>3. \A n \in Nat : n \in S
  <2> HIDE DEF S
  <2> QED BY <1>1, <1>2, Induction
<1>4. ASSUME NEW n \in 0..N PROVE g[n] = f[n]
  <2>1. N - n \in Nat /\ N - n <= N /\ N - (N - n) = n
    OBVIOUS
  <2> QED BY <1>3, <2>1
<1> QED BY <1>4
-----------------------------------------------------------------------------
(***************************************************************************)
(* The order of the scratch array. heapSort() first makes a heap, sifting  *)
(* down the places from the middle to the first, and then takes the        *)
(* largest value out again and again. Sifting is right because only the    *)
(* edges below the moving value can be out of order, and what is above it  *)
(* is no smaller than what is below (Sifting). The result has the values   *)
(* of the array, each as often: every step is a reordering.                *)
(***************************************************************************)

(* A state of siftDown().                                                  *)
Indices == 0..(NumBins - 1)
Arrays == [Indices -> Int]
Sifts == [s : Arrays, root : Indices, done : BOOLEAN]

SiftStep(r, bottom) ==
    LET m == maxChild(r.s, r.root, bottom)
    IN  IF r.done \/ 2 * r.root > bottom THEN r
        ELSE IF r.s[r.root] < r.s[m]
        THEN [s |-> Swapped(r.s, r.root, m), root |-> m, done |-> FALSE]
        ELSE [r EXCEPT !.done = TRUE]

(* There is a bin, so that the scratch array has a place 0.                *)
LEMMA SizeIsPositive == NumBins \in Nat \ {0} /\ 0 \in Indices
BY binsAssumption DEF NumBins, Indices

(* A round of siftDown() leaves an array and a place in it.                *)
LEMMA SiftStepTyped ==
    ASSUME NEW r \in Sifts, NEW bottom \in Indices
    PROVE  SiftStep(r, bottom) \in Sifts
<1>1. NumBins \in Nat
  BY SizeIsPositive
<1> DEFINE m == maxChild(r.s, r.root, bottom)
<1>2. r.s \in Arrays /\ r.root \in Indices /\ r.done \in BOOLEAN
  BY DEF Sifts
<1>3. 2 * r.root <= bottom => m \in Indices
  BY <1>1, <1>2 DEF maxChild, Indices
<1> HIDE DEF m
<1>4. m \in Indices => Swapped(r.s, r.root, m) \in Arrays
  BY <1>2 DEF Swapped, Arrays
<1>5. CASE r.done \/ 2 * r.root > bottom
  BY <1>5 DEF SiftStep
<1>6. CASE ~(r.done \/ 2 * r.root > bottom) /\ r.s[r.root] < r.s[m]
  <2>1. m \in Indices
    BY <1>1, <1>2, <1>3, <1>6 DEF Indices
  <2>2. SiftStep(r, bottom) = [s |-> Swapped(r.s, r.root, m), root |-> m, done |-> FALSE]
    BY <1>6 DEF SiftStep, m
  <2> QED BY <1>4, <2>1, <2>2 DEF Sifts
<1>7. CASE ~(r.done \/ 2 * r.root > bottom) /\ ~(r.s[r.root] < r.s[m])
  <2>1. SiftStep(r, bottom) = [r EXCEPT !.done = TRUE]
    BY <1>7 DEF SiftStep, m
  <2> QED BY <2>1 DEF Sifts
<1> QED BY <1>5, <1>6, <1>7

(* siftDown() is as many rounds as there are places, one after the other.  *)
LEMMA SiftRounds ==
    ASSUME NEW s0 \in Arrays, NEW root0 \in Indices, NEW bottom \in Indices
    PROVE  \E f \in [0..NumBins -> Sifts] :
               /\ f[0] = [s |-> s0, root |-> root0, done |-> FALSE]
               /\ \A t \in 1..NumBins : f[t] = SiftStep(f[t - 1], bottom)
               /\ siftDown(s0, root0, bottom) = f[NumBins].s
<1> DEFINE start == [s |-> s0, root |-> root0, done |-> FALSE]
           step == [x \in (1..NumBins) \X Sifts |-> SiftStep(x[2], bottom)]
<1>1. start \in Sifts
  BY DEF Sifts
<1>2. \A t \in 1..NumBins, v \in Sifts : step[<<t, v>>] = SiftStep(v, bottom)
  OBVIOUS
<1>3. step \in [(1..NumBins) \X Sifts -> Sifts]
  BY SiftStepTyped
<1>0. NumBins \in Nat
  BY SizeIsPositive
<1>4. PICK f : Iterates(f, Sifts, start, NumBins, step)
  <2> HIDE DEF start, step
  <2> QED BY <1>0, <1>1, <1>3, Iteration
<1>10. /\ f \in [0..NumBins -> Sifts] /\ f[0] = start
       /\ \A t \in 1..NumBins : f[t] = step[<<t, f[t - 1]>>]
  BY <1>4 DEF Iterates
<1>5. \A t \in 1..NumBins : f[t] = SiftStep(f[t - 1], bottom)
  <2> HIDE DEF start, step
  <2>1. \A t \in 1..NumBins : f[t - 1] \in Sifts
    BY <1>0, <1>10
  <2> QED BY <1>2, <1>10, <2>1
<1> DEFINE Sifted(g) == g = [t \in 0..NumBins |->
              IF t = 0 THEN [s |-> s0, root |-> root0, done |-> FALSE]
            ELSE LET r == g[t - 1]
                     m == maxChild(r.s, r.root, bottom)
                 IN  IF r.done \/ 2 * r.root > bottom THEN r
                     ELSE IF r.s[r.root] < r.s[m]
                     THEN [s |-> Swapped(r.s, r.root, m), root |-> m, done |-> FALSE]
                     ELSE [r EXCEPT !.done = TRUE]]
<1>6. Sifted(f)
  <2>1. f = [t \in 0..NumBins |-> IF t = 0 THEN start ELSE SiftStep(f[t - 1], bottom)]
    BY <1>5, <1>10, SizeIsPositive
  <2> QED BY <2>1 DEF SiftStep
<1>7. ASSUME NEW g, Sifted(g) PROVE g = f
  <2>1. /\ g = [t \in 0..NumBins |-> g[t]]
        /\ g[0] = start
        /\ \A t \in 1..NumBins : g[t] = SiftStep(g[t - 1], bottom)
    <3> DEFINE h == [t \in 0..NumBins |-> IF t = 0 THEN start ELSE SiftStep(g[t - 1], bottom)]
    <3>1. g = h
      BY <1>7 DEF SiftStep
    <3>2. 0 \in 0..NumBins /\ 1..NumBins \subseteq 0..NumBins /\ \A t \in 1..NumBins : t # 0
      BY SizeIsPositive
    <3>3. /\ h = [t \in 0..NumBins |-> h[t]] /\ h[0] = start
          /\ \A t \in 1..NumBins : h[t] = SiftStep(g[t - 1], bottom)
      <4> HIDE DEF start
      <4> QED BY <3>2
    <3> HIDE DEF h
    <3> QED BY <3>1, <3>3
  <2>2. \A t \in 1..NumBins : g[t - 1] \in Sifts => g[t] = step[<<t, g[t - 1]>>]
    BY <1>2, <2>1
  <2> HIDE DEF start, step, Sifted
  <2>3. Follows(g, Sifts, start, NumBins, step)
    BY <2>1, <2>2 DEF Follows
  <2>4. \A n \in 0..NumBins : g[n] = f[n]
    BY <1>0, <1>4, <2>3, IterationUnique
  <2>5. f = [t \in 0..NumBins |-> f[t]]
    BY <1>10
  <2>6. [t \in 0..NumBins |-> g[t]] = [t \in 0..NumBins |-> f[t]]
    BY <2>4
  <2> QED BY <2>1, <2>5, <2>6
<1>8. siftDown(s0, root0, bottom) = (CHOOSE g : Sifted(g))[NumBins].s
  BY DEF siftDown
<1>9. (CHOOSE g : Sifted(g)) = f
  <2> HIDE DEF Sifted
  <2>1. Sifted(CHOOSE g : Sifted(g))
    BY <1>6
  <2> QED BY <1>7, <2>1
<1> HIDE DEF Sifted
<1> QED BY <1>5, <1>8, <1>9, <1>10
Perms ==
    {p \in [Indices -> Indices] :
        /\ \A i, j \in Indices : p[i] = p[j] => i = j
        /\ \A j \in Indices : \E i \in Indices : p[i] = j}

(* t is s with the places up to bottom in another order.                   *)
Reordered(t, s, bottom) ==
    \E p \in Perms :
        /\ \A i \in Indices : t[i] = s[p[i]]
        /\ \A i \in Indices : i > bottom => p[i] = i

(* Each place from 1 to bottom whose parent is r or more is no larger than *)
(* its parent.                                                             *)
HeapFrom(s, r, bottom) == \A c \in 1..bottom : c \div 2 >= r => s[c \div 2] >= s[c]

(* The parent of a place, and the two places it may be the parent of.      *)
LEMMA Halves ==
    ASSUME NEW c \in Nat
    PROVE  c \div 2 \in Nat /\ (c = 2 * (c \div 2) \/ c = 2 * (c \div 2) + 1)
OBVIOUS

(* An array is itself in another order.                                    *)
LEMMA ReorderedSame ==
    ASSUME NEW s \in Arrays, NEW bottom \in Indices
    PROVE  Reordered(s, s, bottom)
<1> DEFINE p == [i \in Indices |-> i]
<1>1. p \in Perms
  BY DEF Perms
<1>2. \A i \in Indices : p[i] = i
  OBVIOUS
<1> HIDE DEF p
<1> QED BY <1>1, <1>2 DEF Reordered

(* What stands where after a swap.                                         *)
LEMMA SwappedPlaces ==
    ASSUME NEW s \in Arrays, NEW a \in Indices, NEW b \in Indices
    PROVE  /\ Swapped(s, a, b) \in Arrays
           /\ Swapped(s, a, b)[b] = s[a]
           /\ a # b => Swapped(s, a, b)[a] = s[b]
           /\ \A i \in Indices : i # a /\ i # b => Swapped(s, a, b)[i] = s[i]
BY DEF Swapped, Arrays

(* Swapping two places up to bottom is one more reordering.                *)
LEMMA ReorderedSwap ==
    ASSUME NEW s \in Arrays, NEW t \in Arrays, NEW bottom \in Indices, Reordered(t, s, bottom),
           NEW a \in 0..bottom, NEW b \in 0..bottom
    PROVE  Reordered(Swapped(t, a, b), s, bottom)
<1>1. PICK p \in Perms : /\ \A i \in Indices : t[i] = s[p[i]]
                         /\ \A i \in Indices : i > bottom => p[i] = i
  BY DEF Reordered
<1>2. a \in Indices /\ b \in Indices /\ \A i \in Indices : i > bottom => i # a /\ i # b
  BY SizeIsPositive DEF Indices
<1> DEFINE other(i) == IF i = b THEN a ELSE IF i = a THEN b ELSE i
           q == [i \in Indices |-> p[other(i)]]
<1>3. \A i \in Indices : other(i) \in Indices /\ other(other(i)) = i
  BY <1>2
<1>4. p \in [Indices -> Indices]
  BY DEF Perms
<1>5. q \in [Indices -> Indices]
  BY <1>3, <1>4
<1>6. \A i \in Indices : Swapped(t, a, b)[i] = t[other(i)]
  <2>1. /\ Swapped(t, a, b)[b] = t[a] /\ (a # b => Swapped(t, a, b)[a] = t[b])
        /\ \A i \in Indices : i # a /\ i # b => Swapped(t, a, b)[i] = t[i]
    BY <1>2, SwappedPlaces
  <2> QED BY <2>1
<1>7. \A i \in Indices : i > bottom => other(i) = i
  BY <1>2
<1>8. \A i \in Indices : q[i] = p[other(i)]
  OBVIOUS
<1> HIDE DEF q, other
<1>9. \A i, j \in Indices : q[i] = q[j] => i = j
  <2> SUFFICES ASSUME NEW i \in Indices, NEW j \in Indices, q[i] = q[j] PROVE i = j
    OBVIOUS
  <2>1. other(i) = other(j)
    BY <1>3, <1>8 DEF Perms
  <2> QED BY <1>3, <2>1
<1>10. ASSUME NEW j \in Indices PROVE \E i \in Indices : q[i] = j
  <2>1. PICK i \in Indices : p[i] = j
    BY DEF Perms
  <2>2. other(i) \in Indices /\ q[other(i)] = j
    BY <1>3, <1>8, <2>1
  <2> QED BY <2>2
<1>11. q \in Perms
  BY <1>5, <1>9, <1>10 DEF Perms
<1>12. \A i \in Indices : Swapped(t, a, b)[i] = s[q[i]]
  BY <1>1, <1>3, <1>6, <1>8
<1>13. \A i \in Indices : i > bottom => q[i] = i
  BY <1>1, <1>7, <1>8
<1> QED BY <1>11, <1>12, <1>13 DEF Reordered

(* maxChild() finds the larger child.                                      *)
LEMMA MaxChild ==
    ASSUME NEW s \in Arrays, NEW bottom \in Indices, NEW root \in 0..bottom, 2 * root <= bottom,
           NEW m, m = maxChild(s, root, bottom)
    PROVE  /\ m \in 0..bottom
           /\ m = 2 * root \/ m = 2 * root + 1
           /\ \A c \in 1..bottom : c \div 2 = root => s[c] <= s[m]
<1>1. bottom \in Nat /\ bottom < NumBins /\ NumBins \in Nat /\ \A i \in 0..bottom : s[i] \in Int
  BY SizeIsPositive DEF Arrays, Indices
<1>2. m \in 0..bottom /\ (m = 2 * root \/ m = 2 * root + 1)
  BY <1>1 DEF maxChild
<1>3. ASSUME NEW c \in 1..bottom, c \div 2 = root PROVE s[c] <= s[m]
  <2>1. c = 2 * root \/ c = 2 * root + 1
    BY <1>3, <1>1, Halves
  <2>2. CASE 2 * root = bottom
    BY <1>1, <2>1, <2>2 DEF maxChild
  <2>3. CASE 2 * root < bottom
    <3>1. 2 * root \in 0..bottom /\ 2 * root + 1 \in 0..bottom
      BY <1>1, <2>3
    <3>2. s[2 * root] \in Int /\ s[2 * root + 1] \in Int
      BY <1>1, <3>1
    <3> QED BY <2>1, <2>3, <3>2, <1>1 DEF maxChild
  <2> QED BY <1>1, <2>2, <2>3
<1> QED BY <1>2, <1>3

(* While a value is sifted down from root0, only the edges below it can be *)
(* out of order, and its parent is no smaller than its children.           *)
Sifting(r, s0, root0, bottom) ==
    /\ r \in Sifts /\ r.root \in root0..bottom
    /\ Reordered(r.s, s0, bottom)
    /\ \A c \in 1..bottom : c \div 2 >= root0 /\ c \div 2 # r.root => r.s[c \div 2] >= r.s[c]
    /\ \A c \in 1..bottom : c \div 2 = r.root /\ r.root # root0 => r.s[r.root \div 2] >= r.s[c]
    /\ r.done => \A c \in 1..bottom : c \div 2 = r.root => r.s[r.root] >= r.s[c]

Settled(r, bottom) == r.done \/ 2 * r.root > bottom

(* A round that moves the value down: what comes up is no smaller than the *)
(* other child, and no larger than the parent it gets.                     *)
LEMMA SiftSwaps ==
    ASSUME NEW s0 \in Arrays, NEW bottom \in Indices, NEW root0 \in 0..bottom,
           NEW r, Sifting(r, s0, root0, bottom), ~Settled(r, bottom),
           NEW m, m = maxChild(r.s, r.root, bottom), r.s[r.root] < r.s[m],
           NEW u, u = [s |-> Swapped(r.s, r.root, m), root |-> m, done |-> FALSE]
    PROVE  Sifting(u, s0, root0, bottom) /\ m > r.root
<1> DEFINE x == r.root
           s == r.s
           v == Swapped(s, x, m)
<1>1. bottom \in Nat /\ bottom < NumBins /\ NumBins \in Nat /\ root0 \in Nat
  BY SizeIsPositive DEF Indices
<1>2. s \in Arrays /\ x \in root0..bottom /\ x \in 0..bottom /\ 2 * x <= bottom /\ x \in Nat
  BY <1>1 DEF Sifting, Sifts, Settled, Indices
<1>3. \A i \in 0..bottom : i \in Indices /\ s[i] \in Int
  BY <1>1, <1>2 DEF Arrays, Indices
<1>4. /\ m \in 0..bottom
      /\ m = 2 * x \/ m = 2 * x + 1
      /\ \A c \in 1..bottom : c \div 2 = x => s[c] <= s[m]
  BY <1>2, MaxChild
<1>5. m # x
  BY <1>3, <1>4
<1>6. m > x /\ m \in 1..bottom /\ m \div 2 = x /\ m \in Nat
  <2> HIDE DEF x
  <2>1. m \in Nat /\ m > x
    BY <1>1, <1>2, <1>4, <1>5
  <2>2. m \div 2 = x
    BY <1>2, <1>4, <2>1
  <2> QED BY <1>1, <1>2, <1>4, <2>1, <2>2
<1>7. /\ v \in Arrays /\ v[m] = s[x] /\ v[x] = s[m]
      /\ \A i \in Indices : i # x /\ i # m => v[i] = s[i]
  <2>1. s \in Arrays /\ x \in Indices /\ m \in Indices
    BY <1>2, <1>3, <1>4
  <2> HIDE DEF x, s
  <2>2. /\ Swapped(s, x, m) \in Arrays
        /\ Swapped(s, x, m)[m] = s[x]
        /\ x # m => Swapped(s, x, m)[x] = s[m]
        /\ \A i \in Indices : i # x /\ i # m => Swapped(s, x, m)[i] = s[i]
    BY <2>1 DEF Swapped, Arrays
  <2> QED BY <1>5, <2>2
<1>8. /\ \A c \in 1..bottom : c \div 2 >= root0 /\ c \div 2 # x => s[c \div 2] >= s[c]
      /\ \A c \in 1..bottom : c \div 2 = x /\ x # root0 => s[x \div 2] >= s[c]
      /\ Reordered(s, s0, bottom)
  BY DEF Sifting
<1>9. u.s = v /\ u.root = m /\ u.done = FALSE /\ u \in Sifts
  BY <1>3, <1>4, <1>7 DEF Sifts
<1> HIDE DEF v, s, x
<1>10. Reordered(v, s0, bottom)
  BY <1>2, <1>4, <1>8, ReorderedSwap DEF v
<1>11. ASSUME NEW c \in 1..bottom, c \div 2 >= root0, c \div 2 # m PROVE v[c \div 2] >= v[c]
  <2> DEFINE p == c \div 2
  <2>1. /\ c \in Nat /\ c # 0 /\ p \in Nat /\ (c = 2 * p \/ c = 2 * p + 1) /\ p < c
        /\ p \in 0..bottom /\ c \in 0..bottom
    BY <1>1, Halves
  <2>2. /\ p \in Indices /\ c \in Indices /\ s[p] \in Int /\ s[c] \in Int /\ s[m] \in Int
        /\ s[x] \in Int
    BY <1>2, <1>3, <1>4, <2>1
  <2> HIDE DEF p
  <2>3. CASE p = x
    <3>1. v[p] = s[m] /\ (c = m => v[c] = s[x]) /\ (c # m => v[c] = s[c])
      BY <1>5, <1>7, <2>1, <2>2, <2>3
    <3>2. s[c] <= s[m] /\ s[x] < s[m]
      BY <1>4, <2>3 DEF p, s, x
    <3> QED BY <2>2, <3>1, <3>2 DEF p
  <2>4. CASE p # x /\ c = x
    <3>1. v[p] = s[p] /\ v[c] = s[m]
      BY <1>5, <1>7, <1>11, <2>2, <2>4 DEF p
    <3>2. x # root0 /\ x \div 2 = p
      BY <1>11, <2>1, <2>4, <1>1 DEF p
    <3>3. s[p] >= s[m]
      BY <1>6, <1>8, <3>2
    <3> QED BY <3>1, <3>3 DEF p
  <2>5. CASE p # x /\ c # x
    <3>1. c # m
      BY <1>6, <2>5 DEF p
    <3>2. v[p] = s[p] /\ v[c] = s[c]
      BY <1>7, <1>11, <2>2, <2>5, <3>1 DEF p
    <3>3. s[p] >= s[c]
      BY <1>8, <1>11, <2>5 DEF p
    <3> QED BY <3>2, <3>3 DEF p
  <2> QED BY <2>3, <2>4, <2>5
<1>12. ASSUME NEW c \in 1..bottom, c \div 2 = m PROVE v[m \div 2] >= v[c]
  <2>1. c \in Nat /\ c > m /\ c \in 0..bottom
    BY <1>1, <1>6, <1>12, Halves
  <2>2. c \in Indices /\ m \in Indices /\ x \in Indices
    BY <1>2, <1>3, <1>4, <2>1
  <2>3. v[c] = s[c] /\ v[x] = s[m]
    BY <1>5, <1>6, <1>7, <1>2, <2>1, <2>2
  <2>4. m >= root0
    BY <1>1, <1>2, <1>6
  <2>5. s[m] >= s[c]
    BY <1>5, <1>8, <1>12, <2>4
  <2> QED BY <1>6, <2>3, <2>5
<1>13. m \in root0..bottom
  BY <1>1, <1>2, <1>6
<1> QED BY <1>6, <1>9, <1>10, <1>11, <1>12, <1>13 DEF Sifting, x

(* A round keeps this, and either is the last or goes down a place.        *)
LEMMA SiftKeeps ==
    ASSUME NEW s0 \in Arrays, NEW bottom \in Indices, NEW root0 \in 0..bottom,
           NEW r, Sifting(r, s0, root0, bottom),
           NEW t \in Nat, Settled(r, bottom) \/ r.root >= t
    PROVE  LET u == SiftStep(r, bottom)
           IN  Sifting(u, s0, root0, bottom) /\ (Settled(u, bottom) \/ u.root >= t + 1)
<1> DEFINE u == SiftStep(r, bottom)
           m == maxChild(r.s, r.root, bottom)
<1>1. CASE Settled(r, bottom)
  <2>1. u = r
    BY <1>1 DEF SiftStep, Settled
  <2> QED BY <1>1, <2>1
<1>2. CASE ~Settled(r, bottom) /\ r.s[r.root] < r.s[m]
  <2>1. u = [s |-> Swapped(r.s, r.root, m), root |-> m, done |-> FALSE]
    BY <1>2 DEF SiftStep, Settled
  <2>2. u.root = m /\ r.root \in Nat /\ m \in Nat
    <3>1. r.root \in 0..bottom /\ 2 * r.root <= bottom
      BY <1>2, SizeIsPositive DEF Sifting, Settled, Sifts, Indices
    <3>2. bottom \in Nat /\ r.s \in Arrays
      BY SizeIsPositive DEF Indices, Sifting, Sifts
    <3>3. m \in 0..bottom
      BY <3>1, <3>2, MaxChild
    <3> QED BY <2>1, <3>1, <3>2, <3>3
  <2> HIDE DEF u, m
  <2>3. Sifting(u, s0, root0, bottom) /\ m > r.root
    BY <1>2, <2>1, SiftSwaps DEF m
  <2> QED BY <1>2, <2>2, <2>3 DEF u
<1>3. CASE ~Settled(r, bottom) /\ ~(r.s[r.root] < r.s[m])
  <2>1. u = [r EXCEPT !.done = TRUE]
    BY <1>3 DEF SiftStep, Settled
  <2>2. r \in Sifts /\ u.s = r.s /\ u.root = r.root /\ u.done = TRUE /\ u \in Sifts
    BY <2>1 DEF Sifting, Sifts
  <2>3. ASSUME NEW c \in 1..bottom, c \div 2 = r.root PROVE r.s[r.root] >= r.s[c]
    <3>1. /\ r.root \in 0..bottom /\ 2 * r.root <= bottom /\ r.s \in Arrays
          /\ bottom \in Nat /\ bottom < NumBins
      BY <1>3, SizeIsPositive DEF Sifting, Settled, Sifts, Indices
    <3>2. m \in 0..bottom /\ r.s[c] <= r.s[m]
      BY <2>3, <3>1, MaxChild
    <3>3. \A i \in 0..bottom : r.s[i] \in Int
      <4>1. 0..bottom \subseteq Indices
        BY <3>1, SizeIsPositive DEF Indices
      <4> QED BY <3>1, <4>1 DEF Arrays
    <3> QED BY <1>3, <3>1, <3>2, <3>3
  <2> HIDE DEF u, m
  <2>4. Sifting(u, s0, root0, bottom)
    BY <2>2, <2>3 DEF Sifting
  <2> QED BY <2>2, <2>4 DEF Settled, u
<1> QED BY <1>1, <1>2, <1>3

(* siftDown() makes a heap of the places from root0 on when those after    *)
(* root0 are one.                                                          *)
LEMMA SiftDown ==
    ASSUME NEW s0 \in Arrays, NEW bottom \in Indices, NEW root0 \in 0..bottom,
           HeapFrom(s0, root0 + 1, bottom)
    PROVE  LET s == siftDown(s0, root0, bottom)
           IN  s \in Arrays /\ HeapFrom(s, root0, bottom) /\ Reordered(s, s0, bottom)
<1>1. bottom \in Nat /\ bottom < NumBins /\ NumBins \in Nat /\ root0 \in Nat /\ root0 \in Indices
  BY SizeIsPositive DEF Indices
<1> DEFINE start == [s |-> s0, root |-> root0, done |-> FALSE]
<1>2. PICK f \in [0..NumBins -> Sifts] :
          /\ f[0] = start
          /\ \A t \in 1..NumBins : f[t] = SiftStep(f[t - 1], bottom)
          /\ siftDown(s0, root0, bottom) = f[NumBins].s
  BY <1>1, SiftRounds
<1>3. Sifting(start, s0, root0, bottom)
  <2>1. start.s = s0 /\ start.root = root0 /\ start.done = FALSE /\ start \in Sifts
    BY <1>1 DEF Sifts
  <2>2. ASSUME NEW c \in 1..bottom, c \div 2 >= root0, c \div 2 # root0
        PROVE  s0[c \div 2] >= s0[c]
    <3>1. c \div 2 >= root0 + 1
      BY <1>1, <2>2, Halves
    <3> QED BY <3>1 DEF HeapFrom
  <2> HIDE DEF start
  <2> QED BY <1>1, <2>1, <2>2, ReorderedSame DEF Sifting
<1> DEFINE S == {t \in Nat : t <= NumBins => /\ Sifting(f[t], s0, root0, bottom)
                                             /\ Settled(f[t], bottom) \/ f[t].root >= t}
<1>4. 0 \in S
  <2>1. f[0].root >= 0
    BY <1>1, <1>2
  <2> QED BY <1>2, <1>3, <2>1
<1>5. ASSUME NEW t \in Nat, t \in S PROVE t + 1 \in S
  <2> SUFFICES ASSUME t + 1 <= NumBins
               PROVE  /\ Sifting(f[t + 1], s0, root0, bottom)
                      /\ Settled(f[t + 1], bottom) \/ f[t + 1].root >= t + 1
    OBVIOUS
  <2>1. t + 1 \in 1..NumBins /\ (t + 1) - 1 = t /\ t <= NumBins
    BY <1>1
  <2>2. f[t + 1] = SiftStep(f[t], bottom)
    BY <1>2, <2>1
  <2>3. Sifting(f[t], s0, root0, bottom) /\ (Settled(f[t], bottom) \/ f[t].root >= t)
    BY <1>5, <2>1
  <2> QED BY <2>2, <2>3, SiftKeeps
<1>6. NumBins \in S
  <2>1. \A t \in Nat : t \in S
    <3> HIDE DEF S
    <3> QED BY <1>4, <1>5, Induction
  <2> QED BY <1>1, <2>1
<1> DEFINE r == f[NumBins]
<1>7. Sifting(r, s0, root0, bottom) /\ (Settled(r, bottom) \/ r.root >= NumBins)
  BY <1>1, <1>6
<1> HIDE DEF r
<1>8. Settled(r, bottom) /\ r.root \in Nat
  BY <1>1, <1>7 DEF Sifting
<1>9. ASSUME NEW c \in 1..bottom, c \div 2 >= root0 PROVE r.s[c \div 2] >= r.s[c]
  <2>1. CASE c \div 2 # r.root
    BY <1>7, <1>9, <2>1 DEF Sifting
  <2>2. CASE c \div 2 = r.root
    <3>1. 2 * r.root <= bottom
      BY <1>1, <2>2, Halves
    <3>2. r.done
      BY <1>1, <1>8, <3>1 DEF Settled
    <3> QED BY <1>7, <2>2, <3>2 DEF Sifting
  <2> QED BY <2>1, <2>2
<1> QED BY <1>2, <1>7, <1>9 DEF HeapFrom, Sifting, Sifts, r

(* The same argument, counting down.                                       *)
LEMMA InductionDown ==
    ASSUME NEW N \in Nat, NEW S, N \in S, \A n \in 0..(N - 1) : n + 1 \in S => n \in S
    PROVE  \A n \in 0..N : n \in S
<1> DEFINE T == {k \in Nat : k <= N => N - k \in S}
<1>1. 0 \in T
  OBVIOUS
<1>2. ASSUME NEW k \in Nat, k \in T PROVE k + 1 \in T
  <2>1. k + 1 <= N => N - (k + 1) \in 0..(N - 1) /\ (N - (k + 1)) + 1 = N - k /\ k <= N
    OBVIOUS
  <2> QED BY <1>2, <2>1
<1>3. \A k \in Nat : k \in T
  <2> HIDE DEF T
  <2> QED BY <1>1, <1>2, Induction
<1>4. ASSUME NEW n \in 0..N PROVE n \in S
  <2>1. N - n \in Nat /\ N - n <= N /\ N - (N - n) = n
    OBVIOUS
  <2> QED BY <1>3, <2>1
<1> QED BY <1>4

(* siftDown() leaves an array, whatever it was given.                      *)
LEMMA SiftTyped ==
    ASSUME NEW s0 \in Arrays, NEW root0 \in Indices, NEW bottom \in Indices
    PROVE  siftDown(s0, root0, bottom) \in Arrays
<1>1. PICK f \in [0..NumBins -> Sifts] : siftDown(s0, root0, bottom) = f[NumBins].s
  BY SiftRounds
<1>2. f[NumBins] \in Sifts
  BY SizeIsPositive
<1> QED BY <1>1, <1>2 DEF Sifts

(* One reordering after another is a reordering.                           *)
LEMMA ReorderedTwice ==
    ASSUME NEW s \in Arrays, NEW t \in Arrays, NEW u \in Arrays,
           NEW bottom \in Indices, NEW b \in 0..bottom,
           Reordered(t, s, bottom), Reordered(u, t, b)
    PROVE  Reordered(u, s, bottom)
<1>1. PICK p \in Perms : /\ \A i \in Indices : t[i] = s[p[i]]
                         /\ \A i \in Indices : i > bottom => p[i] = i
  BY DEF Reordered
<1>2. PICK q \in Perms : /\ \A i \in Indices : u[i] = t[q[i]]
                         /\ \A i \in Indices : i > b => q[i] = i
  BY DEF Reordered
<1> DEFINE c == [i \in Indices |-> p[q[i]]]
<1>3. p \in [Indices -> Indices] /\ q \in [Indices -> Indices]
  BY DEF Perms
<1>4. c \in [Indices -> Indices] /\ \A i \in Indices : c[i] = p[q[i]] /\ q[i] \in Indices
  BY <1>3
<1> HIDE DEF c
<1>5. \A i, j \in Indices : c[i] = c[j] => i = j
  BY <1>4 DEF Perms
<1>6. ASSUME NEW j \in Indices PROVE \E i \in Indices : c[i] = j
  <2>1. PICK k \in Indices : p[k] = j
    BY DEF Perms
  <2>2. PICK i \in Indices : q[i] = k
    BY DEF Perms
  <2> QED BY <1>4, <2>1, <2>2
<1>7. c \in Perms
  BY <1>4, <1>5, <1>6 DEF Perms
<1>8. \A i \in Indices : u[i] = s[c[i]]
  BY <1>1, <1>2, <1>4
<1>9. \A i \in Indices : i > bottom => c[i] = i
  <2>1. \A i \in Indices : i > bottom => i > b
    BY SizeIsPositive DEF Indices
  <2> QED BY <1>1, <1>2, <1>4, <2>1
<1> QED BY <1>7, <1>8, <1>9 DEF Reordered

(* The first place of a heap holds a largest value.                        *)
LEMMA RootIsLargest ==
    ASSUME NEW a \in Arrays, NEW bottom \in Indices, HeapFrom(a, 0, bottom)
    PROVE  \A c \in 0..bottom : a[c] <= a[0]
<1>1. bottom \in Nat /\ \A i \in 0..bottom : a[i] \in Int
  <2>1. bottom \in Nat /\ 0..bottom \subseteq Indices
    BY SizeIsPositive DEF Indices
  <2> QED BY <2>1 DEF Arrays
<1> DEFINE S == {n \in Nat : \A c \in 0..n : c <= bottom => a[c] <= a[0]}
<1>2. 0 \in S
  <2>1. a[0] <= a[0]
    BY <1>1
  <2> QED BY <2>1
<1>3. ASSUME NEW n \in Nat, n \in S PROVE n + 1 \in S
  <2> SUFFICES ASSUME n + 1 <= bottom PROVE a[n + 1] <= a[0]
    <3>1. \A c \in 0..(n + 1) : c = n + 1 \/ c \in 0..n
      OBVIOUS
    <3> QED BY <1>3, <3>1
  <2> DEFINE p == (n + 1) \div 2
  <2>1. p \in Nat /\ p <= n /\ n + 1 \in 1..bottom
    BY <1>1, Halves
  <2>2. p \in 0..n /\ p <= bottom /\ p >= 0
    BY <1>1, <2>1
  <2>3. a[p] <= a[0]
    BY <1>3, <2>2
  <2>4. a[p] >= a[n + 1]
    BY <2>1, <2>2 DEF HeapFrom
  <2>5. a[p] \in Int /\ a[n + 1] \in Int /\ a[0] \in Int
    BY <1>1, <2>1, <2>2
  <2> HIDE DEF p
  <2> QED BY <2>3, <2>4, <2>5
<1>4. bottom \in S
  <2>1. \A n \in Nat : n \in S
    <3> HIDE DEF S
    <3> QED BY <1>2, <1>3, Induction
  <2> QED BY <1>1, <2>1
<1> QED BY <1>1, <1>4

(* The places after i hold the largest values in order.                    *)
SortedAfter(a, i) == \A j, k \in Indices : j > i /\ k < j => a[k] <= a[j]

(* The largest value of the heap goes behind it, and what is left is       *)
(* sifted into a heap again.                                               *)
LEMMA TakeLargest ==
    ASSUME NEW a \in Arrays, NEW i \in Nat, i + 1 \in Indices,
           HeapFrom(a, 0, i + 1), SortedAfter(a, i + 1)
    PROVE  LET d == siftDown(Swapped(a, 0, i + 1), 0, i)
           IN  /\ d \in Arrays /\ HeapFrom(d, 0, i) /\ SortedAfter(d, i)
               /\ Reordered(d, a, i + 1)
<1> DEFINE b == Swapped(a, 0, i + 1)
           d == siftDown(b, 0, i)
<1>1. /\ NumBins \in Nat /\ i \in Indices /\ 0 \in Indices /\ i + 1 \in 0..(i + 1)
      /\ 0 \in 0..(i + 1)
      /\ \A k \in Indices : k \in Nat
  BY SizeIsPositive DEF Indices
<1>2. /\ b \in Arrays /\ b[i + 1] = a[0] /\ b[0] = a[i + 1]
      /\ \A k \in Indices : k # 0 /\ k # i + 1 => b[k] = a[k]
  BY <1>1 DEF Swapped, Arrays
<1>3. Reordered(b, a, i + 1)
  BY <1>1, ReorderedSame, ReorderedSwap
<1> HIDE DEF b
<1>4. \A k \in Indices : a[k] \in Int /\ b[k] \in Int
  BY <1>2 DEF Arrays
<1>5. HeapFrom(b, 1, i)
  <2> SUFFICES ASSUME NEW c \in 1..i, c \div 2 >= 1 PROVE b[c \div 2] >= b[c]
    BY DEF HeapFrom
  <2>1. c \in Nat /\ c \div 2 \in Nat /\ c \div 2 <= c
    BY Halves
  <2>2. /\ c \in Indices /\ c \div 2 \in Indices /\ c # 0 /\ c # i + 1 /\ c \div 2 # 0
        /\ c \div 2 # i + 1
    BY <2>1, <1>1 DEF Indices
  <2>3. a[c \div 2] >= a[c]
    BY <2>1 DEF HeapFrom
  <2> QED BY <1>2, <2>2, <2>3
<1>6. d \in Arrays /\ HeapFrom(d, 0, i) /\ Reordered(d, b, i)
  <2>1. 0 \in 0..i /\ HeapFrom(b, 0 + 1, i)
    BY <1>5
  <2> QED BY <1>1, <1>2, <2>1, SiftDown
<1> HIDE DEF d
<1>7. Reordered(d, a, i + 1)
  BY <1>1, <1>2, <1>3, <1>6, ReorderedTwice
<1>8. SortedAfter(d, i)
  <2>1. PICK p \in Perms : /\ \A k \in Indices : d[k] = b[p[k]]
                           /\ \A k \in Indices : k > i => p[k] = k
    BY <1>6 DEF Reordered
  <2>2. p \in [Indices -> Indices]
    BY DEF Perms
  <2>3. ASSUME NEW k \in Indices, k <= i PROVE p[k] <= i
    <3>1. p[k] \in Indices
      BY <2>2
    <3>2. p[k] > i => p[p[k]] = p[k]
      BY <2>1, <3>1
    <3>3. p[p[k]] = p[k] => p[k] = k
      BY <3>1 DEF Perms
    <3>4. p[k] \in Nat /\ k \in Nat
      BY <1>1, <3>1
    <3> QED BY <2>3, <3>2, <3>3, <3>4
  <2>4. ASSUME NEW k \in Indices, k <= i PROVE b[k] <= a[0]
    <3>1. k \in 0..(i + 1) /\ k # i + 1
      BY <1>1, <2>4
    <3>2. a[k] <= a[0] /\ a[i + 1] <= a[0]
      BY <1>1, <3>1, RootIsLargest
    <3> QED BY <1>2, <3>1, <3>2
  <2>5. ASSUME NEW j \in Indices, NEW k \in Indices, j > i, k < j PROVE d[k] <= d[j]
    <3>1. d[j] = b[j] /\ d[k] = b[p[k]] /\ p[k] \in Indices
      BY <2>1, <2>2, <2>5
    <3>2. CASE j = i + 1
      <4>1. k <= i
        BY <1>1, <2>5, <3>2
      <4> QED BY <1>2, <2>3, <2>4, <3>1, <3>2, <4>1
    <3>3. CASE j > i + 1
      <4>1. b[j] = a[j]
        BY <1>1, <1>2, <3>3
      <4>2. \A q \in Indices : q < j => a[q] <= a[j]
        BY <3>3 DEF SortedAfter
      <4>3. \A q \in Indices : q < j => b[q] <= a[j]
        BY <1>1, <1>2, <3>3, <4>2
      <4>4. p[k] < j
        <5>1. CASE k <= i
          <6>1. p[k] <= i /\ p[k] \in Nat /\ j \in Nat
            BY <1>1, <2>3, <3>1, <5>1
          <6> QED BY <3>3, <6>1
        <5>2. CASE k > i
          BY <2>1, <2>5, <5>2
        <5> QED BY <1>1, <5>1, <5>2
      <4> QED BY <3>1, <4>1, <4>3, <4>4
    <3> QED BY <1>1, <2>5, <3>2, <3>3
  <2> QED BY <2>5 DEF SortedAfter
<1> QED BY <1>6, <1>7, <1>8 DEF b, d

(* heapSort() sorts: its result is the array in another order, and no      *)
(* value is smaller than one before it.                                    *)
THEOREM HeapSorts ==
    ASSUME NEW s0 \in Arrays
    PROVE  LET s == heapSort(s0, NumBins)
           IN  /\ s \in Arrays /\ Reordered(s, s0, NumBins - 1)
               /\ \A i, j \in Indices : i < j => s[i] <= s[j]
<1> DEFINE last == NumBins - 1
           H == NumBins \div 2 + 1
           build == [x \in (0..(H - 1)) \X Arrays |-> siftDown(x[2], x[1], last)]
           take == [x \in (0..(last - 1)) \X Arrays |->
                       siftDown(Swapped(x[2], 0, x[1] + 1), 0, x[1])]
<1>1. /\ NumBins \in Nat \ {0} /\ last \in Nat /\ last \in Indices /\ H \in Nat /\ 0 \in Indices
      /\ \A i \in 0..(H - 1) : i \in Indices /\ i \in 0..last /\ i \in Nat
      /\ \A i \in 0..(last - 1) : i \in Indices /\ i + 1 \in Indices /\ i \in Nat
      /\ Indices = 0..last
  <2>1. NumBins \in Nat \ {0}
    BY SizeIsPositive
  <2>2. NumBins \div 2 \in Nat /\ NumBins \div 2 <= NumBins - 1
    BY <2>1, Halves
  <2> HIDE DEF NumBins
  <2> QED BY <2>1, <2>2 DEF Indices
<1>2. /\ \A i \in 0..(H - 1), a \in Arrays : build[<<i, a>>] = siftDown(a, i, last)
      /\ \A i \in 0..(last - 1), a \in Arrays :
             take[<<i, a>>] = siftDown(Swapped(a, 0, i + 1), 0, i)
  OBVIOUS
<1>3. build \in [(0..(H - 1)) \X Arrays -> Arrays]
  <2>1. \A i \in 0..(H - 1), a \in Arrays : siftDown(a, i, last) \in Arrays
    BY <1>1, SiftTyped
  <2> QED BY <2>1
<1>4. take \in [(0..(last - 1)) \X Arrays -> Arrays]
  <2>1. ASSUME NEW i \in 0..(last - 1), NEW a \in Arrays
        PROVE  siftDown(Swapped(a, 0, i + 1), 0, i) \in Arrays
    <3>1. Swapped(a, 0, i + 1) \in Arrays
      BY <1>1 DEF Swapped, Arrays
    <3> QED BY <1>1, <3>1, SiftTyped
  <2> QED BY <2>1
<1> DEFINE IsHeap(g) == g = [i \in 0..(NumBins \div 2 + 1) |->
              IF i = NumBins \div 2 + 1 THEN s0 ELSE siftDown(g[i + 1], i, NumBins - 1)]
           heap == CHOOSE g : IsHeap(g)
           Sorting(g) == g = [i \in 0..(NumBins - 1) |->
              IF i = NumBins - 1 THEN heap[0]
              ELSE siftDown(Swapped(g[i + 1], 0, i + 1), 0, i)]
           sorted == CHOOSE g : Sorting(g)
<1>5. heapSort(s0, NumBins) = sorted[0]
  BY DEF heapSort
<1> HIDE DEF build, take
(* Places are sifted down from the middle to the root.                     *)
<1>6. PICK f : Descends(f, Arrays, s0, H, build)
  <2> HIDE DEF H
  <2> QED BY <1>1, <1>3, Descent
<1>7. /\ f \in [0..H -> Arrays] /\ f[H] = s0
      /\ \A i \in 0..(H - 1) : f[i + 1] \in Arrays /\ f[i] = siftDown(f[i + 1], i, last)
  <2>1. \A i \in 0..(H - 1) : i + 1 \in 0..H
    BY <1>1
  <2> QED BY <1>2, <1>6, <2>1 DEF Descends
<1> DEFINE Built == {i \in 0..H : HeapFrom(f[i], i, last) /\ Reordered(f[i], s0, last)}
<1>8. H \in Built
  <2>1. HeapFrom(s0, H, last)
    <3>1. ASSUME NEW c \in 1..last PROVE ~(c \div 2 >= H)
      BY <1>1, Halves
    <3> QED BY <3>1 DEF HeapFrom
  <2> QED BY <1>1, <1>7, <2>1, ReorderedSame
<1>9. ASSUME NEW i \in 0..(H - 1), i + 1 \in Built PROVE i \in Built
  <2>1. f[i + 1] \in Arrays /\ f[i] = siftDown(f[i + 1], i, last) /\ i \in 0..last /\ i \in 0..H
    BY <1>1, <1>7
  <2>2. HeapFrom(f[i + 1], i + 1, last) /\ Reordered(f[i + 1], s0, last)
    BY <1>9
  <2>3. f[i] \in Arrays /\ HeapFrom(f[i], i, last) /\ Reordered(f[i], f[i + 1], last)
    <3> HIDE DEF last
    <3> QED BY <1>1, <2>1, <2>2, SiftDown
  <2>4. Reordered(f[i], s0, last)
    <3> HIDE DEF last
    <3>1. last \in 0..last
      BY <1>1
    <3> QED BY <1>1, <2>1, <2>2, <2>3, <3>1, ReorderedTwice
  <2> QED BY <2>1, <2>3, <2>4
<1>10. /\ f[0] \in Arrays /\ HeapFrom(f[0], 0, last) /\ Reordered(f[0], s0, last)
  <2>1. \A i \in 0..H : i \in Built
    <3> HIDE DEF Built, H
    <3> QED BY <1>1, <1>8, <1>9, InductionDown
  <2> QED BY <1>1, <1>7, <2>1
(* The root goes behind the heap and the heap shrinks.                     *)
<1>11. PICK h : Descends(h, Arrays, f[0], last, take)
  <2> HIDE DEF last
  <2> QED BY <1>1, <1>4, <1>10, Descent
<1>12. /\ h \in [0..last -> Arrays] /\ h[last] = f[0]
       /\ \A i \in 0..(last - 1) :
              h[i + 1] \in Arrays /\ h[i] = siftDown(Swapped(h[i + 1], 0, i + 1), 0, i)
  <2>1. \A i \in 0..(last - 1) : i + 1 \in 0..last
    BY <1>1
  <2> QED BY <1>2, <1>11, <2>1 DEF Descends
<1> DEFINE Done == {i \in 0..last : /\ HeapFrom(h[i], 0, i) /\ SortedAfter(h[i], i)
                                    /\ Reordered(h[i], s0, last)}
<1>13. last \in Done
  <2>1. SortedAfter(h[last], last)
    BY <1>1 DEF SortedAfter
  <2> QED BY <1>1, <1>10, <1>12, <2>1
<1>14. ASSUME NEW i \in 0..(last - 1), i + 1 \in Done PROVE i \in Done
  <2>1. /\ h[i + 1] \in Arrays /\ h[i] = siftDown(Swapped(h[i + 1], 0, i + 1), 0, i)
        /\ i \in Nat /\ i + 1 \in Indices /\ i \in 0..last /\ i + 1 \in 0..last
    BY <1>1, <1>12
  <2>2. /\ HeapFrom(h[i + 1], 0, i + 1) /\ SortedAfter(h[i + 1], i + 1)
        /\ Reordered(h[i + 1], s0, last)
    BY <1>14
  <2>3. /\ h[i] \in Arrays /\ HeapFrom(h[i], 0, i) /\ SortedAfter(h[i], i)
        /\ Reordered(h[i], h[i + 1], i + 1)
    BY <2>1, <2>2, TakeLargest
  <2>4. Reordered(h[i], s0, last)
    <3> HIDE DEF last
    <3> QED BY <1>1, <2>1, <2>2, <2>3, ReorderedTwice
  <2> QED BY <2>1, <2>3, <2>4
<1>15. h[0] \in Arrays /\ SortedAfter(h[0], 0) /\ Reordered(h[0], s0, last)
  <2>1. \A i \in 0..last : i \in Done
    <3> HIDE DEF Done, last
    <3> QED BY <1>1, <1>13, <1>14, InductionDown
  <2> QED BY <1>1, <1>12, <2>1
(* These are the arrays of heapSort().                                     *)
<1>16. \A n \in 0..H : heap[n] = f[n]
  <2>1. IsHeap(f)
    <3>1. f = [i \in 0..H |-> IF i = H THEN s0 ELSE siftDown(f[i + 1], i, last)]
      BY <1>1, <1>7
    <3> QED BY <3>1
  <2>2. IsHeap(heap)
    <3> HIDE DEF IsHeap
    <3> QED BY <2>1
  <2> HIDE DEF heap
  <2>3. /\ heap[H] = s0
        /\ \A n \in 0..(H - 1) : heap[n] = siftDown(heap[n + 1], n, last)
    <3>1. H \in 0..H /\ \A n \in 0..(H - 1) : n \in 0..H /\ n # H
      BY <1>1
    <3> QED BY <2>2, <3>1
  <2> HIDE DEF IsHeap
  <2>4. FollowsDown(heap, Arrays, s0, H, build)
    BY <1>2, <2>3 DEF FollowsDown
  <2> HIDE DEF H
  <2> QED BY <1>1, <1>6, <2>4, DescentUnique
<1>17. heap[0] = f[0]
  BY <1>1, <1>16
<1> HIDE DEF heap
<1>18. \A n \in 0..last : sorted[n] = h[n]
  <2>1. Sorting(h)
    <3>1. h = [i \in 0..last |-> IF i = last THEN heap[0]
                                ELSE siftDown(Swapped(h[i + 1], 0, i + 1), 0, i)]
      BY <1>1, <1>12, <1>17
    <3> QED BY <3>1
  <2>2. Sorting(sorted)
    <3> HIDE DEF Sorting
    <3> QED BY <2>1
  <2> HIDE DEF sorted
  <2>3. /\ sorted[last] = f[0]
        /\ \A n \in 0..(last - 1) : sorted[n] = siftDown(Swapped(sorted[n + 1], 0, n + 1), 0, n)
    <3>1. last \in 0..last /\ \A n \in 0..(last - 1) : n \in 0..last /\ n # last
      BY <1>1
    <3> QED BY <1>17, <2>2, <3>1
  <2> HIDE DEF Sorting
  <2>4. FollowsDown(sorted, Arrays, f[0], last, take)
    BY <1>2, <2>3 DEF FollowsDown
  <2>5. last \in Nat
    BY <1>1
  <2> HIDE DEF last
  <2> QED BY <1>11, <2>4, <2>5, DescentUnique
<1> HIDE DEF sorted
<1>19. heapSort(s0, NumBins) = h[0]
  BY <1>1, <1>5, <1>18
<1>20. ASSUME NEW i \in Indices, NEW j \in Indices, i < j PROVE h[0][i] <= h[0][j]
  <2>1. j > 0
    BY <1>1, <1>20
  <2> QED BY <1>15, <1>20, <2>1 DEF SortedAfter
<1> QED BY <1>15, <1>19, <1>20
-----------------------------------------------------------------------------
(***************************************************************************)
(* The places of the scratch array are the bins, each once: the loops      *)
(* count through pitch, roll and yaw.                                      *)
(***************************************************************************)

(* A division with its remainder.                                          *)
LEMMA DivMod ==
    ASSUME NEW n \in Nat, NEW d \in Nat \ {0}
    PROVE  /\ n \div d \in Nat /\ n % d \in 0..(d - 1) /\ n % d \in Nat
           /\ n = d * (n \div d) + (n % d)
OBVIOUS

(* Multiples of different numbers are apart by one multiple.               *)
LEMMA MultipleApart ==
    ASSUME NEW d \in Nat \ {0}, NEW p \in Nat, NEW q \in Nat, p < q
    PROVE  d * p + d <= d * q
<1>1. d * (p + 1) <= d * q
  OBVIOUS
<1>2. d * (p + 1) = d * p + d
  OBVIOUS
<1> QED BY <1>1, <1>2

(* A quotient and a remainder are those of the number they make up.        *)
LEMMA DivModUnique ==
    ASSUME NEW d \in Nat \ {0}, NEW p \in Nat, NEW r \in 0..(d - 1)
    PROVE  (d * p + r) \div d = p /\ (d * p + r) % d = r
<1> DEFINE n == d * p + r
           q == n \div d
           t == n % d
<1>1. n \in Nat /\ d * p \in Nat
  OBVIOUS
<1>2. q \in Nat /\ t \in 0..(d - 1) /\ n = d * q + t /\ d * q \in Nat
  <2> HIDE DEF n
  <2>1. q \in Nat /\ t \in 0..(d - 1) /\ n = d * q + t
    BY <1>1, DivMod
  <2> QED BY <2>1
<1> HIDE DEF q, t
<1>3. ~(q < p)
  <2>1. q < p => d * q + d <= d * p
    BY <1>2, MultipleApart
  <2> QED BY <1>1, <1>2, <2>1
<1>4. ~(p < q)
  <2>1. p < q => d * p + d <= d * q
    BY <1>2, MultipleApart
  <2> QED BY <1>1, <1>2, <2>1
<1>5. q = p
  BY <1>2, <1>3, <1>4
<1>6. t = r
  BY <1>1, <1>2, <1>5
<1> QED BY <1>5, <1>6 DEF q, t

PlaceOf(b) == CURRENTMAXYAW * (CURRENTMAXROLL * b[1] + b[2]) + b[3]

(* The scratch array holds every bin in a place of its own.                *)
LEMMA BinsArePlaces ==
    /\ \A i \in Indices : BinAt(i) \in Bins /\ PlaceOf(BinAt(i)) = i
    /\ \A b \in Bins : PlaceOf(b) \in Indices /\ BinAt(PlaceOf(b)) = b
<1> DEFINE P == CURRENTMAXPITCH
           R == CURRENTMAXROLL
           Y == CURRENTMAXYAW
<1>1. P \in Nat \ {0} /\ R \in Nat \ {0} /\ Y \in Nat \ {0}
  BY binsAssumption
<1> HIDE DEF P, R, Y
<1>2. P * R * Y \in Nat /\ R * Y \in Nat \ {0} /\ P * R * Y = P * (R * Y)
  BY <1>1
<1>3. NumBins = P * (R * Y)
  BY <1>2 DEF NumBins, P, R, Y
<1>4. ASSUME NEW a \in Nat, NEW b \in 0..(R - 1), NEW c \in 0..(Y - 1)
      PROVE  LET n == Y * (R * a + b) + c
             IN  /\ n \in Nat /\ n \div (R * Y) = a /\ (n \div Y) % R = b /\ n % Y = c
                 /\ n < NumBins <=> a < P
  <2> DEFINE m == R * a + b
             n == Y * m + c
             r == Y * b + c
  <2>1. m \in Nat /\ R * a \in Nat
    BY <1>1
  <2>2. m % R = b
    BY <1>1, DivModUnique
  <2>3. n \div Y = m /\ n % Y = c /\ n \in Nat
    <3> HIDE DEF m
    <3> QED BY <1>1, <2>1, DivModUnique
  <2>4. Y * b + Y <= Y * R
    BY <1>1, MultipleApart
  <2>5. r \in 0..(R * Y - 1)
    <3>1. Y * b \in Nat /\ Y * R = R * Y
      BY <1>1
    <3> QED BY <1>1, <2>4, <3>1
  <2>6. n = (R * Y) * a + r
    <3>1. Y * (R * a + b) = Y * (R * a) + Y * b
      BY <1>1
    <3>2. Y * (R * a) = (R * Y) * a
      BY <1>1
    <3>3. Y * b \in Nat /\ (R * Y) * a \in Nat
      BY <1>1, <1>2
    <3> QED BY <3>1, <3>2, <3>3
  <2>7. n \div (R * Y) = a
    <3>1. ((R * Y) * a + r) \div (R * Y) = a
      <4> DEFINE d == R * Y
      <4>1. d \in Nat \ {0}
        BY <1>2
      <4>2. r \in 0..(d - 1)
        BY <2>5
      <4> HIDE DEF d, r
      <4>3. (d * a + r) \div d = a
        BY <4>1, <4>2, DivModUnique
      <4> QED BY <4>3 DEF d
    <3> HIDE DEF n, r
    <3> QED BY <2>6, <3>1
  <2>8. n < NumBins <=> a < P
    <3> DEFINE d == R * Y
    <3>1. d \in Nat \ {0} /\ r \in 0..(d - 1) /\ n = d * a + r /\ NumBins = P * d /\ P * d = d * P
      BY <1>1, <1>2, <1>3, <2>5, <2>6
    <3> HIDE DEF d, n, r
    <3>2. a < P => d * a + d <= d * P
      BY <1>1, <3>1, MultipleApart
    <3>3. P < a => d * P + d <= d * a
      BY <1>1, <3>1, MultipleApart
    <3>4. d * a \in Nat /\ d * P \in Nat
      BY <1>1, <3>1
    <3>5. a = P => d * a = d * P
      OBVIOUS
    <3> QED BY <1>1, <3>1, <3>2, <3>3, <3>4, <3>5
  <2> QED BY <2>2, <2>3, <2>7, <2>8
<1>5. ASSUME NEW i \in Indices PROVE BinAt(i) \in Bins /\ PlaceOf(BinAt(i)) = i
  <2> DEFINE m == i \div Y
             a == m \div R
             b == m % R
             c == i % Y
  <2>1. i \in Nat /\ i < NumBins
    BY SizeIsPositive DEF Indices
  <2>2. m \in Nat /\ c \in 0..(Y - 1) /\ i = Y * m + c
    BY <1>1, <2>1, DivMod
  <2>3. a \in Nat /\ b \in 0..(R - 1) /\ m = R * a + b
    <3> HIDE DEF m
    <3> QED BY <1>1, <2>2, DivMod
  <2>4. i = Y * (R * a + b) + c
    BY <2>2, <2>3
  <2> HIDE DEF m, a, b, c
  <2>5. i \div (R * Y) = a /\ a < P
    BY <1>4, <2>1, <2>2, <2>3, <2>4
  <2>6. BinAt(i) = <<a, b, c>>
    BY <2>5 DEF BinAt, m, b, c, P, R, Y
  <2>7. a \in 0..(P - 1)
    BY <1>1, <2>3, <2>5
  <2> QED BY <2>2, <2>3, <2>4, <2>6, <2>7 DEF Bins, PlaceOf, P, R, Y
<1>6. ASSUME NEW x \in Bins PROVE PlaceOf(x) \in Indices /\ BinAt(PlaceOf(x)) = x
  <2>1. PICK a \in 0..(P - 1), b \in 0..(R - 1), c \in 0..(Y - 1) : x = <<a, b, c>>
    BY DEF Bins, P, R, Y
  <2>2. a \in Nat /\ a < P
    BY <1>1
  <2> DEFINE n == Y * (R * a + b) + c
  <2>3. /\ n \in Nat /\ n \div (R * Y) = a /\ (n \div Y) % R = b /\ n % Y = c
        /\ n < NumBins
    BY <1>4, <2>2
  <2>4. PlaceOf(x) = n
    BY <2>1 DEF PlaceOf, R, Y
  <2> HIDE DEF n
  <2>5. BinAt(n) = <<a, b, c>>
    BY <2>3 DEF BinAt, R, Y
  <2> QED BY <2>1, <2>3, <2>4, <2>5, SizeIsPositive DEF Indices
<1> QED BY <1>5, <1>6
-----------------------------------------------------------------------------
(***************************************************************************)
(* CalibrationKept is inductive: a start reads the file before anything    *)
(* else, only an absent file is created, a fit writes both the file and    *)
(* the running calibration, and nothing else writes either.                *)
(***************************************************************************)

(* A start reads what the file holds.                                      *)
LEMMA mainKeeps ==
    ASSUME CalibrationKept, main
    PROVE  CalibrationKept'
<1>1. everFitted' = everFitted
  BY DEF main
<1>2. file = "fitted" => file' = "fitted" /\ cal' = "fitted"
  BY DEF main, ResetCalibration
<1> QED BY <1>1, <1>2 DEF CalibrationKept

(* A turn of the loop leaves the calibration, or makes and saves a new one.*)
LEMMA iterateKeeps ==
    ASSUME CalibrationKept, iterate
    PROVE  CalibrationKept'
<1>1. CASE fUpdateCalibration7SVD(ConIndex')
  <2>1. file' = "fitted" /\ cal' = "fitted"
    BY <1>1 DEF fUpdateCalibration7SVD
  <2> QED BY <2>1 DEF CalibrationKept
<1>2. CASE UNCHANGED <<file, cal, everFitted>>
  BY <1>2 DEF CalibrationKept, iterate
<1> QED BY <1>1, <1>2 DEF iterate

(* A daemon that is killed leaves the file.                                *)
LEMMA killedKeeps ==
    ASSUME CalibrationKept, killed
    PROVE  CalibrationKept'
BY DEF CalibrationKept, killed

(* A calibration that was once saved is in the file and, while the daemon  *)
(* runs, in use: for every size of the constellation, every set of         *)
(* attitudes, and however often the daemon is killed and started again.    *)
THEOREM CalibrationIsKept == DaemonSpec => []CalibrationKept
<1>1. DaemonInit => CalibrationKept
  BY DEF DaemonInit, CalibrationKept
<1>2. CalibrationKept /\ [DaemonNext]_daemonVars => CalibrationKept'
  <2> SUFFICES ASSUME CalibrationKept, [DaemonNext]_daemonVars
               PROVE  CalibrationKept'
    OBVIOUS
  <2>1. CASE UNCHANGED daemonVars
    BY <2>1 DEF daemonVars, CalibrationKept
  <2> QED BY <2>1, mainKeeps, iterateKeeps, killedKeeps DEF DaemonNext
<1> QED BY <1>1, <1>2, PTL DEF DaemonSpec
-----------------------------------------------------------------------------
(***************************************************************************)
(* NewestEquations. A new sample is newer than all before, so that no two  *)
(* bins hold the same (Distinct), and the number of filled bins only       *)
(* grows. A fit picks the sample MAXEQUATIONS places from the end of the   *)
(* sorted scratch array: with as many samples or more, those from there on *)
(* are the newest; with fewer the place is still empty, and all samples    *)
(* count. A later sample makes calAt differ from loopcounter again.        *)
(***************************************************************************)

(* A bijection from a finite set keeps its size.                           *)
LEMMA SameSize ==
    ASSUME NEW S, IsFiniteSet(S), NEW T, NEW f, f \in [S -> T],
           \A x, y \in S : f[x] = f[y] => x = y,
           \A t \in T : \E x \in S : f[x] = t
    PROVE  IsFiniteSet(T) /\ Cardinality(T) = Cardinality(S)
<1>1. f \in Bijection(S, T)
  BY DEF Bijection, Injection, Surjection, IsInjective
<1> QED BY <1>1, FS_Bijection DEF ExistsBijection

(* The smaller of two.                                                     *)
LEMMA MinOfTwo ==
    ASSUME NEW a \in Int, NEW b \in Int
    PROVE  Min({a, b}) = IF a <= b THEN a ELSE b
<1> DEFINE m == IF a <= b THEN a ELSE b
<1>1. m \in {a, b} /\ \A y \in {a, b} : m <= y
  OBVIOUS
<1>2. \A x \in {a, b} : (\A y \in {a, b} : x <= y) => x = m
  OBVIOUS
<1> HIDE DEF m
<1>3. (CHOOSE x \in {a, b} : \A y \in {a, b} : x <= y) = m
  BY <1>1, <1>2
<1> QED BY <1>3 DEF Min, m

EquationsFit == MAXEQUATIONS \in 1..NumBins /\ MINEQUATIONS \in 1..MAXEQUATIONS

(* The numbers of equations go with the bins.                              *)
LEMMA EquationsFitHold == EquationsFit
BY equationsAssumption DEF EquationsFit, NumBins

Newest(con, e) == {b \in Filled(con) : con[b] >= e}

Distinct(con) == \A a, b \in Filled(con) : con[a] = con[b] => a = b

(* The sample heapSort() leaves MAXEQUATIONS places from the end separates *)
(* as many of the newest samples as there are rows or, of fewer, all.      *)
LEMMA NewestCounted ==
    ASSUME NEW con, con \in [Bins -> Int], \A b \in Bins : con[b] >= -1, Distinct(con),
           NEW e, e = heapSort([i \in 0..(NumBins - 1) |-> con[BinAt(i)]], NumBins)
                              [NumBins - MAXEQUATIONS]
    PROVE  /\ IsFiniteSet(Filled(con))
           /\ Cardinality(Newest(con, e)) = Min({MAXEQUATIONS, Cardinality(Filled(con))})
<1> DEFINE s0 == [i \in 0..(NumBins - 1) |-> con[BinAt(i)]]
           arr == heapSort(s0, NumBins)
           N == NumBins
           M == MAXEQUATIONS
           lo == N - M
           F == Filled(con)
<1>1. N \in Nat \ {0} /\ M \in 1..N /\ lo \in Indices /\ lo \in Nat /\ Indices = 0..(N - 1)
  BY SizeIsPositive, EquationsFitHold DEF EquationsFit, Indices
<1>2. s0 \in Arrays
  BY BinsArePlaces DEF Arrays, Indices
<1>3. /\ arr \in Arrays /\ Reordered(arr, s0, NumBins - 1)
      /\ \A i, j \in Indices : i < j => arr[i] <= arr[j]
  <2> HIDE DEF s0
  <2> QED BY <1>2, HeapSorts
<1>4. PICK p \in Perms : \A i \in Indices : arr[i] = s0[p[i]]
  BY <1>3 DEF Reordered
<1> DEFINE q == [i \in Indices |-> BinAt(p[i])]
<1>5. p \in [Indices -> Indices]
  BY DEF Perms
<1>6. q \in [Indices -> Bins]
  BY <1>5, BinsArePlaces
<1>7. \A i \in Indices : arr[i] = con[q[i]]
  <2>1. \A i \in Indices : s0[p[i]] = con[BinAt(p[i])]
    BY <1>5 DEF Indices
  <2> HIDE DEF arr, s0
  <2> QED BY <1>4, <2>1
<1>8. \A i, j \in Indices : q[i] = q[j] => i = j
  <2>1. \A i \in Indices : PlaceOf(q[i]) = p[i]
    BY <1>5, BinsArePlaces
  <2> HIDE DEF q
  <2> QED BY <2>1 DEF Perms
<1>9. \A b \in Bins : \E i \in Indices : q[i] = b
  <2> TAKE b \in Bins
  <2>1. PlaceOf(b) \in Indices /\ BinAt(PlaceOf(b)) = b
    BY BinsArePlaces
  <2>2. PICK i \in Indices : p[i] = PlaceOf(b)
    BY <2>1 DEF Perms
  <2>3. q[i] = b
    BY <2>1, <2>2
  <2> QED BY <2>3
<1>10. e = arr[lo]
  OBVIOUS
<1> HIDE DEF arr, s0, q
<1>11. IsFiniteSet(Bins)
  <2>1. IsFiniteSet(Indices)
    BY <1>1, FS_Interval
  <2> QED BY <2>1, <1>6, <1>8, <1>9, SameSize
<1>12. IsFiniteSet(F) /\ Cardinality(F) \in Nat
  <2>1. F \subseteq Bins
    BY DEF Filled
  <2>2. IsFiniteSet(F)
    BY <1>11, <2>1, FS_Subset
  <2> QED BY <2>2, FS_CardinalityType
<1>13. ASSUME NEW first \in 0..N
       PROVE  LET D == {q[i] : i \in first..(N - 1)}
              IN  IsFiniteSet(D) /\ Cardinality(D) = N - first
  <2> DEFINE I == first..(N - 1)
             D == {q[i] : i \in I}
             f == [i \in I |-> q[i]]
  <2>1. I \subseteq Indices /\ IsFiniteSet(I) /\ Cardinality(I) = N - first
    <3>1. /\ first \in Int /\ N - 1 \in Int /\ (first > N - 1 => N - first = 0)
          /\ (N - 1) - first + 1 = N - first
      BY <1>1
    <3>2. IsFiniteSet(I) /\ Cardinality(I) = IF first > N - 1 THEN 0 ELSE (N - 1) - first + 1
      BY <3>1, FS_Interval
    <3>3. I \subseteq Indices
      BY <1>1
    <3> QED BY <3>1, <3>2, <3>3
  <2>2. f \in [I -> D] /\ \A t \in D : \E i \in I : f[i] = t
    OBVIOUS
  <2>3. \A i, j \in I : f[i] = f[j] => i = j
    BY <1>8, <2>1
  <2> HIDE DEF I, D, f
  <2>4. IsFiniteSet(D) /\ Cardinality(D) = Cardinality(I)
    BY <2>1, <2>2, <2>3, SameSize
  <2> QED BY <2>1, <2>4 DEF D, I
<1>14. \A i \in Indices : con[q[i]] \in Int /\ con[q[i]] >= -1 /\ (q[i] \in F <=> con[q[i]] # -1)
  BY <1>6 DEF Filled
<1>15. e \in Int /\ e >= -1
  BY <1>1, <1>7, <1>10, <1>14
<1>16. CASE e # -1
  <2> DEFINE D == {q[i] : i \in lo..(N - 1)}
  <2>1. ASSUME NEW i \in lo..(N - 1) PROVE q[i] \in Newest(con, e)
    <3>1. i \in Indices /\ (lo < i \/ lo = i)
      BY <1>1
    <3>2. con[q[i]] >= e
      BY <1>1, <1>3, <1>7, <1>10, <1>14, <1>15, <3>1
    <3>3. q[i] \in F
      BY <1>14, <1>15, <1>16, <3>1, <3>2
    <3> QED BY <3>2, <3>3 DEF Newest
  <2>2. ASSUME NEW b \in Newest(con, e) PROVE b \in D
    <3>1. b \in F /\ b \in Bins /\ con[b] >= e
      BY DEF Newest, Filled
    <3>2. PICK i \in Indices : q[i] = b
      BY <1>9, <3>1
    <3>3. CASE i < lo
      <4>1. con[b] <= e
        BY <1>1, <1>3, <1>7, <1>10, <3>2, <3>3
      <4>2. con[b] = e /\ con[q[lo]] = e
        BY <1>1, <1>7, <1>10, <1>14, <1>15, <3>1, <3>2, <4>1
      <4>3. q[lo] \in F
        BY <1>1, <1>14, <1>16, <4>2
      <4>4. b = q[lo]
        BY <3>1, <4>2, <4>3 DEF Distinct
      <4> QED BY <1>1, <1>8, <3>2, <3>3, <4>4
    <3>4. CASE i >= lo
      <4>1. i \in lo..(N - 1)
        BY <1>1, <3>4
      <4> QED BY <3>2, <4>1
    <3> QED BY <1>1, <3>3, <3>4
  <2>3. Newest(con, e) = D
    BY <2>1, <2>2
  <2>4. Cardinality(D) = N - lo
    <3>1. lo \in 0..N
      BY <1>1
    <3> HIDE DEF lo
    <3> QED BY <1>13, <3>1
  <2>5. N - lo = M
    BY <1>1
  <2>6. D \subseteq F
    BY <2>3 DEF Newest
  <2> HIDE DEF D
  <2>7. M <= Cardinality(F)
    BY <1>12, <2>4, <2>5, <2>6, FS_Subset
  <2>8. Min({M, Cardinality(F)}) = M
    BY <1>1, <1>12, <2>7, MinOfTwo
  <2> QED BY <1>12, <2>3, <2>4, <2>5, <2>8
<1>17. CASE e = -1
  <2> DEFINE D == {q[i] : i \in (lo + 1)..(N - 1)}
  <2>1. Newest(con, e) = F
    BY <1>17 DEF Newest, Filled
  <2>2. ASSUME NEW b \in F PROVE b \in D
    <3>1. b \in Bins /\ con[b] # -1
      BY DEF Filled
    <3>2. PICK i \in Indices : q[i] = b
      BY <1>9, <3>1
    <3>3. ~(i <= lo)
      <4>1. i < lo => con[q[i]] <= -1
        BY <1>1, <1>3, <1>7, <1>10, <1>17
      <4>2. i = lo => con[q[i]] = -1
        BY <1>7, <1>10, <1>17
      <4> QED BY <1>1, <1>14, <3>1, <3>2, <4>1, <4>2
    <3>4. i \in (lo + 1)..(N - 1)
      BY <1>1, <3>3
    <3> QED BY <3>2, <3>4
  <2>3. IsFiniteSet(D) /\ Cardinality(D) = N - (lo + 1)
    <3>1. lo + 1 \in 0..N
      BY <1>1
    <3> HIDE DEF lo
    <3> QED BY <1>13, <3>1
  <2>4. F \in SUBSET D
    BY <2>2
  <2> HIDE DEF D
  <2>5. Cardinality(F) <= M - 1
    <3>1. Cardinality(F) <= Cardinality(D)
      BY <2>3, <2>4, FS_Subset
    <3>2. N - (lo + 1) = M - 1
      BY <1>1
    <3> QED BY <2>3, <3>1, <3>2
  <2>6. Min({M, Cardinality(F)}) = Cardinality(F)
    BY <1>1, <1>12, <2>5, MinOfTwo
  <2> QED BY <1>12, <2>1, <2>6
<1> QED BY <1>12, <1>16, <1>17

(* The constellation with what the last fit took from it.                  *)
FitIsNewest(con) ==
    calAt = loopcounter =>
        /\ nequations = Min({MAXEQUATIONS, Cardinality(Filled(con))})
        /\ nequations >= MINEQUATIONS
        /\ Cardinality(Newest(con, earliestsample)) = nequations

Constellation ==
    /\ ConIndex \in [Bins -> Int] /\ loopcounter \in Nat /\ calAt \in Int
    /\ \A b \in Bins : ConIndex[b] \in -1..(loopcounter - 1)
    /\ Distinct(ConIndex)
    /\ IsFiniteSet(Filled(ConIndex)) /\ ConstCount = Cardinality(Filled(ConIndex))
    /\ validcal \in {0, 1}
    /\ validcal = 1 <=> ConstCount >= MINEQUATIONS
    /\ calAt <= loopcounter
    /\ FitIsNewest(ConIndex)

(* There are finitely many samples.                                        *)
LEMMA FilledFinite ==
    ASSUME NEW con
    PROVE  IsFiniteSet(Filled(con)) /\ Cardinality(Filled(con)) \in Nat
<1> DEFINE I == 0..(NumBins - 1)
           f == [i \in I |-> BinAt(i)]
<1>1. f \in [I -> Bins] /\ \A x, y \in I : f[x] = f[y] => x = y
  BY BinsArePlaces DEF Indices
<1>2. \A b \in Bins : \E x \in I : f[x] = b
  BY BinsArePlaces DEF Indices
<1>3. IsFiniteSet(I)
  BY SizeIsPositive, FS_Interval
<1> HIDE DEF I, f
<1>4. IsFiniteSet(Bins)
  BY <1>1, <1>2, <1>3, SameSize
<1>5. Filled(con) \subseteq Bins
  BY DEF Filled
<1> QED BY <1>4, <1>5, FS_Subset, FS_CardinalityType

(* An empty constellation has no samples.                                  *)
LEMMA EmptyConstellation ==
    LET con == [b \in Bins |-> -1]
    IN  /\ con \in [Bins -> Int] /\ Filled(con) = {}
        /\ Distinct(con) /\ Cardinality(Filled(con)) = 0 /\ IsFiniteSet(Filled(con))
<1> DEFINE con == [b \in Bins |-> -1]
<1>1. con \in [Bins -> Int] /\ Filled(con) = {}
  BY DEF Filled
<1> HIDE DEF con
<1>2. Distinct(con)
  BY <1>1 DEF Distinct
<1> QED BY <1>1, <1>2, FS_EmptySet DEF con

(* A start empties the constellation.                                      *)
LEMMA ConstellationStarts ==
    ASSUME NEW cal0
    PROVE  /\ DaemonInit => Constellation
           /\ ResetCalibration(cal0) /\ calAt' = -1 => Constellation'
<1>1. ~(0 >= MINEQUATIONS) /\ MINEQUATIONS \in Nat
  BY EquationsFitHold, SizeIsPositive DEF EquationsFit
<1>2. DaemonInit => Constellation
  BY <1>1, EmptyConstellation DEF DaemonInit, Constellation, FitIsNewest
<1>3. ResetCalibration(cal0) /\ calAt' = -1 => Constellation'
  BY <1>1, EmptyConstellation DEF ResetCalibration, Constellation, FitIsNewest
<1> QED BY <1>2, <1>3

(* A sample goes into its bin, the newest of all.                          *)
LEMMA SampleKept ==
    ASSUME Constellation, NEW b, fUpdateConstellation(b)
    PROVE  /\ ConIndex' \in [Bins -> Int] /\ loopcounter' = loopcounter + 1 /\ loopcounter' \in Nat
           /\ \A x \in Bins : ConIndex'[x] \in -1..(loopcounter' - 1)
           /\ Distinct(ConIndex')
           /\ IsFiniteSet(Filled(ConIndex')) /\ ConstCount' = Cardinality(Filled(ConIndex'))
           /\ ConstCount' \in Nat /\ ConstCount \in Nat /\ ConstCount' >= ConstCount
<1>1. /\ ConIndex \in [Bins -> Int] /\ loopcounter \in Nat
      /\ \A x \in Bins : ConIndex[x] \in -1..(loopcounter - 1)
      /\ Distinct(ConIndex) /\ ConstCount = Cardinality(Filled(ConIndex))
  BY DEF Constellation
<1>2. /\ ConIndex' = IF b \in Bins THEN [ConIndex EXCEPT ![b] = loopcounter] ELSE ConIndex
      /\ loopcounter' = loopcounter + 1
      /\ ConstCount' = Cardinality(Filled(ConIndex'))
  BY DEF fUpdateConstellation
<1>3. /\ ConIndex' \in [Bins -> Int]
      /\ \A x \in Bins : \/ ConIndex'[x] = ConIndex[x]
                         \/ x = b /\ ConIndex'[x] = loopcounter
  BY <1>1, <1>2
<1>4. \A x \in Bins : ConIndex'[x] \in -1..(loopcounter' - 1)
  BY <1>1, <1>2, <1>3
<1>5. Distinct(ConIndex')
  <2> SUFFICES ASSUME NEW x \in Filled(ConIndex'), NEW y \in Filled(ConIndex'),
                      ConIndex'[x] = ConIndex'[y]
               PROVE  x = y
    BY DEF Distinct
  <2>1. x \in Bins /\ y \in Bins /\ ConIndex'[x] # -1 /\ ConIndex'[y] # -1
    BY DEF Filled
  <2>2. CASE ConIndex'[x] = loopcounter
    <3>1. ConIndex[x] # loopcounter /\ ConIndex[y] # loopcounter
      <4>1. ConIndex[x] \in -1..(loopcounter - 1) /\ ConIndex[y] \in -1..(loopcounter - 1)
        BY <1>1, <2>1
      <4> QED BY <1>1, <4>1
    <3>2. x = b
      BY <1>3, <2>1, <2>2, <3>1
    <3>3. y = b
      BY <1>3, <2>1, <2>2, <3>1
    <3> QED BY <3>2, <3>3
  <2>3. CASE ConIndex'[x] # loopcounter
    <3>1. ConIndex[x] = ConIndex'[x] /\ ConIndex[y] = ConIndex'[y]
      BY <1>3, <2>1, <2>3
    <3>2. x \in Filled(ConIndex) /\ y \in Filled(ConIndex)
      BY <2>1, <3>1 DEF Filled
    <3> QED BY <1>1, <3>1, <3>2 DEF Distinct
  <2> QED BY <2>2, <2>3
<1>6. Filled(ConIndex) \in SUBSET Filled(ConIndex')
  <2>1. ASSUME NEW x \in Filled(ConIndex) PROVE x \in Filled(ConIndex')
    <3>1. x \in Bins /\ ConIndex[x] # -1
      BY DEF Filled
    <3>2. ConIndex'[x] # -1
      BY <1>1, <1>3, <3>1
    <3> QED BY <3>1, <3>2 DEF Filled
  <2> QED BY <2>1
<1>7. IsFiniteSet(Filled(ConIndex')) /\ Cardinality(Filled(ConIndex')) \in Nat
  BY FilledFinite
<1>8. Cardinality(Filled(ConIndex)) \in Nat
  BY FilledFinite
<1>9. Cardinality(Filled(ConIndex)) <= Cardinality(Filled(ConIndex'))
  BY <1>6, <1>7, FS_Subset
<1> QED BY <1>1, <1>2, <1>3, <1>4, <1>5, <1>7, <1>8, <1>9

(* No step of the daemon breaks the invariant.                             *)
LEMMA ConstellationStep ==
    ASSUME Constellation, [DaemonNext]_daemonVars
    PROVE  Constellation'
<1>1. CASE main
  <2>1. /\ calAt' = -1
        /\ (ResetCalibration("fitted") \/ ResetCalibration("none") \/ ResetCalibration("garbage"))
    BY <1>1 DEF main
  <2> QED BY <2>1, ConstellationStarts
<1>2. CASE killed
  BY <1>2 DEF killed, Constellation, FitIsNewest, Newest, Distinct, Filled
<1>3. CASE UNCHANGED daemonVars
  BY <1>3 DEF daemonVars, Constellation, FitIsNewest, Newest, Distinct, Filled
<1>4. CASE iterate
  <2>0. PICK b : fUpdateConstellation(b)
    BY <1>4 DEF iterate
  <2>1. /\ ConIndex' \in [Bins -> Int] /\ loopcounter' = loopcounter + 1 /\ loopcounter' \in Nat
        /\ \A x \in Bins : ConIndex'[x] \in -1..(loopcounter' - 1)
        /\ Distinct(ConIndex')
        /\ IsFiniteSet(Filled(ConIndex')) /\ ConstCount' = Cardinality(Filled(ConIndex'))
        /\ ConstCount' \in Nat /\ ConstCount \in Nat /\ ConstCount' >= ConstCount
    BY <2>0, SampleKept
  <2>2. /\ calAt \in Int /\ calAt <= loopcounter /\ loopcounter \in Nat /\ validcal \in {0, 1}
        /\ validcal = 1 <=> ConstCount >= MINEQUATIONS
    BY DEF Constellation
  <2>3. MINEQUATIONS \in Nat /\ MAXEQUATIONS \in Nat /\ MINEQUATIONS <= MAXEQUATIONS
    BY EquationsFitHold, SizeIsPositive DEF EquationsFit
  <2>4. CASE ~CalibrationDue /\ UNCHANGED <<calAt, validcal>>
    <3>1. calAt' \in Int /\ calAt' <= loopcounter' /\ calAt' # loopcounter'
      BY <2>1, <2>2, <2>4
    <3>2. validcal' \in {0, 1} /\ (validcal' = 1 <=> ConstCount' >= MINEQUATIONS)
      BY <2>1, <2>2, <2>3, <2>4 DEF CalibrationDue
    <3>3. FitIsNewest(ConIndex)'
      BY <3>1 DEF FitIsNewest
    <3> QED BY <2>1, <3>1, <3>2, <3>3 DEF Constellation
  <2>5. CASE CalibrationDue /\ fUpdateCalibration7SVD(ConIndex')
    <3> DEFINE e == heapSort([i \in 0..(NumBins - 1) |-> ConIndex'[BinAt(i)]], NumBins)
                            [NumBins - MAXEQUATIONS]
    <3>1. /\ earliestsample' = e /\ validcal' = 1 /\ calAt' = loopcounter'
          /\ nequations' = Cardinality({b_1 \in Filled(ConIndex') : ConIndex'[b_1] >= e})
      BY <2>5 DEF fUpdateCalibration7SVD
    <3>2. \A x \in Bins : ConIndex'[x] >= -1
      BY <2>1
    <3>3. Cardinality(Newest(ConIndex', e)) = Min({MAXEQUATIONS, Cardinality(Filled(ConIndex'))})
      BY <2>1, <3>2, NewestCounted
    <3> HIDE DEF e
    <3>4. nequations' = Cardinality(Newest(ConIndex', e))
      BY <3>1 DEF Newest
    <3>5. ConstCount' >= MINEQUATIONS
      BY <2>5 DEF CalibrationDue
    <3>6. Min({MAXEQUATIONS, ConstCount'}) >= MINEQUATIONS
      BY <2>1, <2>3, <3>5, MinOfTwo
    <3>7. FitIsNewest(ConIndex)'
      BY <2>1, <3>1, <3>3, <3>4, <3>6 DEF FitIsNewest
    <3> QED BY <2>1, <3>1, <3>5, <3>7 DEF Constellation
  <2> QED BY <1>4, <2>4, <2>5 DEF iterate
<1> QED BY <1>1, <1>2, <1>3, <1>4 DEF DaemonNext

(* The samples are as different as the bins that hold them.                *)
LEMMA NewestFromConstellation == Constellation => NewestEquations
<1> SUFFICES ASSUME Constellation, calAt = loopcounter
             PROVE  LET samples == {ConIndex[b] : b \in Filled(ConIndex)}
                    IN  Cardinality({s \in samples : s >= earliestsample}) = nequations
  BY DEF Constellation, FitIsNewest, NewestEquations
<1> DEFINE samples == {ConIndex[b] : b \in Filled(ConIndex)}
           taken == {s \in samples : s >= earliestsample}
           S == Newest(ConIndex, earliestsample)
           f == [b \in S |-> ConIndex[b]]
<1>1. S \subseteq Filled(ConIndex) /\ IsFiniteSet(S)
  <2>1. S \subseteq Filled(ConIndex)
    BY DEF Newest
  <2> QED BY <2>1, FilledFinite, FS_Subset
<1>2. f \in [S -> taken]
  BY DEF Newest
<1>3. \A x, y \in S : f[x] = f[y] => x = y
  BY <1>1 DEF Constellation, Distinct
<1>4. \A t \in taken : \E x \in S : f[x] = t
  <2> TAKE t \in taken
  <2>1. PICK b \in Filled(ConIndex) : t = ConIndex[b] /\ t >= earliestsample
    OBVIOUS
  <2>2. b \in S /\ f[b] = t
    BY <2>1 DEF Newest
  <2> QED BY <2>2
<1>5. Cardinality(taken) = Cardinality(S)
  <2> HIDE DEF taken, S, f
  <2> QED BY <1>1, <1>2, <1>3, <1>4, SameSize
<1>6. Cardinality(S) = nequations
  BY DEF Constellation, FitIsNewest
<1> QED BY <1>5, <1>6

(* A fit uses the newest samples, as many as there are rows or all, and    *)
(* the first fit comes as soon as there are enough: for every size of the  *)
(* constellation, every set of attitudes and every number of rows          *)
(* (fUpdateCalibration7SVD).                                               *)
THEOREM NewestAreFitted == DaemonSpec => []NewestEquations
<1>1. DaemonInit => Constellation
  BY ConstellationStarts
<1>2. Constellation /\ [DaemonNext]_daemonVars => Constellation'
  BY ConstellationStep
<1>3. Constellation => NewestEquations
  BY NewestFromConstellation
<1> QED BY <1>1, <1>2, <1>3, PTL DEF DaemonSpec
-----------------------------------------------------------------------------
(***************************************************************************)
(* SettingsAgree and RoundTrip. Each setting has one setter in the order,  *)
(* so what a call makes of a setting is what its setter does with the      *)
(* value the setting had before the call (RanOutcome); of the other        *)
(* settings only the effect and the white balance are looked at, the       *)
(* effect's setter seeing the white balance as it will be. That parameters *)
(* never have a white balance together with a colour effect is what the    *)
(* driver's agreement adds to.                                             *)
(***************************************************************************)

(* No setting has two setters.                                             *)
LEMMA OrderIsOnce ==
    /\ Len(Order) = 20
    /\ \A i, j \in 1..20 : Order[i] = Order[j] => i = j
    /\ \A k \in Settings : \E n \in 1..20 : Order[n] = k
<1>1. Len(Order) = 20
  BY DEF Order
<1>2. \A i, j \in 1..20 : Order[i] = Order[j] => i = j
  BY DEF Order
<1> QED BY <1>1, <1>2, SettingsAssumption

(* What the setter of a setting was given and what came of it.             *)
SetterSaw(params, k, kept, outcome) ==
    /\ kept[k] = mParameters[k]
    /\ k = "whitebalance" /\ "effect" \in Settings => kept["effect"] = mParameters["effect"]
    /\ k = "effect" /\ "whitebalance" \in Settings =>
           kept["whitebalance"] = outcome.kept["whitebalance"]
    /\ outcome.kept[k] = Setter(kept, params, k).value
    /\ outcome.commands[k] = Setter(kept, params, k).command

Ignores(s, kept, params, k) ==
    /\ s = [value |-> kept[k], command |-> << >>]
    /\ k = "luma-adaptation" => params[k] = mBrightness
    /\ k # "exposure-compensation"

Remembers(s, params, k) ==
    /\ s = [value |-> params[k], command |-> << >>]
    /\ k \in OnlyRemembered

Sends(s, params, k) ==
    /\ s = [value |-> params[k], command |-> <<params[k]>>]
    /\ k \notin OnlyRemembered \cup {"luma-adaptation", "exposure-compensation"}

SendsBrightness(s, kept, params, k) ==
    /\ s = [value |-> kept[k], command |-> <<params[k]>>]
    /\ k = "luma-adaptation"

SendsCompensation(s, params, k) ==
    /\ s = [value |-> params[k], command |-> <<params[k] + 2>>]
    /\ k = "exposure-compensation"

(* What a setter may give.                                                 *)
LEMMA SetterGives ==
    ASSUME NEW kept, NEW params, NEW k \in Settings,
           NEW s, s = Setter(kept, params, k)
    PROVE  \/ Ignores(s, kept, params, k)
           \/ Remembers(s, params, k)
           \/ Sends(s, params, k)
           \/ SendsBrightness(s, kept, params, k)
           \/ SendsCompensation(s, params, k)
<1>1. PICK n \in 1..20 : Order[n] = k
  BY OrderIsOnce
<1> QED BY <1>1 DEF Order, Setter, Ignore, Remember, Tell, Remembered, Sent, OnlyRemembered,
      setPreviewSize, setPictureSize, setJpegQuality, setRotation, setFocusMode, setOrientation,
      setPictureFormat, setAutoExposure, setLensshadeValue, setSharpness, setContrast, setZoom,
      setISOValue, setAntibanding, setPreviewFrameRate, setWhiteBalance, setEffect, setSaturation,
      setBrightness, setExposureCompensation,
      Ignores, Remembers, Sends, SendsBrightness, SendsCompensation

IsAParameterSet == mParameters = [k \in Settings |-> mParameters[k]]

RanStep(r, params, n) ==
    LET k == Order[n]
        s == Setter(r.kept, params, k)
    IN  IF k \in Settings
        THEN [kept |-> [r.kept EXCEPT ![k] = s.value],
              commands |-> [r.commands EXCEPT ![k] = s.command]]
        ELSE r

ValuesFor(params) == {mParameters[k] : k \in Settings} \cup {params[k] : k \in Settings}
Commands(params) ==
    {<< >>} \cup {<<params[k]>> : k \in Settings} \cup {<<params[k] + 2>> : k \in Settings}
Outcomes(params) ==
    [kept : [Settings -> ValuesFor(params)], commands : [Settings -> Commands(params)]]

(* A setter leaves parameters and commands.                                *)
LEMMA RanStepTyped ==
    ASSUME NEW params, NEW r \in Outcomes(params), NEW n \in 1..20
    PROVE  RanStep(r, params, n) \in Outcomes(params)
<1> DEFINE k == Order[n]
           s == Setter(r.kept, params, k)
<1>1. r.kept \in [Settings -> ValuesFor(params)] /\ r.commands \in [Settings -> Commands(params)]
  BY DEF Outcomes
<1>2. CASE k \notin Settings
  BY <1>2 DEF RanStep
<1>3. CASE k \in Settings
  <2>1. /\ s.value \in {r.kept[k], params[k]}
        /\ s.command \in {<< >>, <<params[k]>>, <<params[k] + 2>>}
    <3> HIDE DEF k
    <3> QED BY <1>3, SetterGives DEF Ignores, Remembers, Sends, SendsBrightness, SendsCompensation
  <2>2. s.value \in ValuesFor(params)
    <3>1. r.kept[k] \in ValuesFor(params) /\ params[k] \in ValuesFor(params)
      BY <1>1, <1>3 DEF ValuesFor
    <3> QED BY <2>1, <3>1
  <2>3. s.command \in Commands(params)
    BY <1>3, <2>1 DEF Commands
  <2>4. RanStep(r, params, n) = [kept |-> [r.kept EXCEPT ![k] = s.value],
                                 commands |-> [r.commands EXCEPT ![k] = s.command]]
    BY <1>3 DEF RanStep
  <2> HIDE DEF s, k
  <2> QED BY <1>1, <1>3, <2>2, <2>3, <2>4 DEF Outcomes
<1> QED BY <1>2, <1>3

(* setParameters() runs the setters one after the other.                   *)
LEMMA RanRounds ==
    ASSUME IsAParameterSet, NEW params
    PROVE  \E f : /\ f \in [0..20 -> Outcomes(params)]
                  /\ f[0] = [kept |-> mParameters, commands |-> [k \in Settings |-> << >>]]
                  /\ \A n \in 1..20 : f[n] = RanStep(f[n - 1], params, n)
                  /\ Ran(params) = f[20]
<1> DEFINE V == Outcomes(params)
           start == [kept |-> mParameters, commands |-> [k \in Settings |-> << >>]]
           step == [x \in (1..20) \X V |-> RanStep(x[2], params, x[1])]
<1>1. start \in V
  <2>1. mParameters \in [Settings -> ValuesFor(params)]
    BY DEF IsAParameterSet, ValuesFor
  <2>2. [k \in Settings |-> << >>] \in [Settings -> Commands(params)]
    BY DEF Commands
  <2> QED BY <2>1, <2>2 DEF Outcomes
<1>2. \A n \in 1..20, v \in V : step[<<n, v>>] = RanStep(v, params, n)
  OBVIOUS
<1>3. step \in [(1..20) \X V -> V]
  BY RanStepTyped
<1>4. PICK f : Iterates(f, V, start, 20, step)
  <2> HIDE DEF start, step, V
  <2> QED BY <1>1, <1>3, Iteration
<1>5. f \in [0..20 -> V] /\ f[0] = start /\ \A n \in 1..20 : f[n] = step[<<n, f[n - 1]>>]
  <2> HIDE DEF start, step, V
  <2> QED BY <1>4 DEF Iterates
<1>6. \A n \in 1..20 : f[n] = RanStep(f[n - 1], params, n)
  <2>1. \A n \in 1..20 : f[n - 1] \in V
    <3> HIDE DEF start, step, V
    <3> QED BY <1>5
  <2> QED BY <1>2, <1>5, <2>1
<1> DEFINE Rounds(g) == g = [n \in 0..Len(Order) |->
              IF n = 0 THEN [kept |-> mParameters, commands |-> [k \in Settings |-> << >>]]
              ELSE LET r == g[n - 1]
                       k == Order[n]
                       s == Setter(r.kept, params, k)
                   IN  IF k \in Settings
                       THEN [kept |-> [r.kept EXCEPT ![k] = s.value],
                             commands |-> [r.commands EXCEPT ![k] = s.command]]
                       ELSE r]
           ran == CHOOSE g : Rounds(g)
<1>7. Len(Order) = 20
  BY OrderIsOnce
<1>8. Rounds(f)
  <2>1. f = [n \in 0..20 |-> IF n = 0 THEN start ELSE RanStep(f[n - 1], params, n)]
    BY <1>5, <1>6
  <2> QED BY <1>7, <2>1 DEF RanStep
<1>9. Rounds(ran)
  <2> HIDE DEF Rounds
  <2> QED BY <1>8
<1>10. Ran(params) = ran[20]
  BY <1>7 DEF Ran
<1> HIDE DEF ran
<1>11. ran[0] = start /\ \A n \in 1..20 : ran[n] = RanStep(ran[n - 1], params, n)
  <2> DEFINE h == [n \in 0..20 |-> IF n = 0 THEN start ELSE RanStep(ran[n - 1], params, n)]
  <2>1. ran = h
    BY <1>7, <1>9 DEF RanStep
  <2>2. h[0] = start /\ \A n \in 1..20 : h[n] = RanStep(ran[n - 1], params, n)
    <3> HIDE DEF start
    <3> QED OBVIOUS
  <2> HIDE DEF h
  <2> QED BY <2>1, <2>2
<1> HIDE DEF Rounds
<1>12. Follows(ran, V, start, 20, step)
  <2> HIDE DEF start, step, V
  <2> QED BY <1>2, <1>11 DEF Follows
<1>13. \A n \in 0..20 : ran[n] = f[n]
  <2> HIDE DEF start, step, V
  <2> QED BY <1>4, <1>12, IterationUnique
<1>14. Ran(params) = f[20]
  BY <1>10, <1>13
<1> QED BY <1>5, <1>6, <1>14

(* Each setter sees its setting as it was, and the white balance's sees    *)
(* the effect before, the effect's the white balance after the call.       *)
LEMMA RanOutcome ==
    ASSUME IsAParameterSet, NEW params
    PROVE  /\ Ran(params) \in Outcomes(params)
           /\ \A k \in Settings : \E kept : SetterSaw(params, k, kept, Ran(params))
<1>1. PICK f : /\ f \in [0..20 -> Outcomes(params)]
               /\ f[0] = [kept |-> mParameters, commands |-> [k \in Settings |-> << >>]]
               /\ \A n \in 1..20 : f[n] = RanStep(f[n - 1], params, n)
               /\ Ran(params) = f[20]
  BY RanRounds
<1>2. ASSUME NEW n \in 0..20
      PROVE  /\ f[n].kept \in [Settings -> ValuesFor(params)]
             /\ f[n].commands \in [Settings -> Commands(params)]
  <2>1. f[n] \in Outcomes(params)
    BY <1>1
  <2> QED BY <2>1 DEF Outcomes
<1>3. ASSUME NEW n \in 1..20, NEW k \in Settings
      PROVE  /\ Order[n] # k => /\ f[n].kept[k] = f[n - 1].kept[k]
                                /\ f[n].commands[k] = f[n - 1].commands[k]
             /\ Order[n] = k => /\ f[n].kept[k] = Setter(f[n - 1].kept, params, k).value
                                /\ f[n].commands[k] = Setter(f[n - 1].kept, params, k).command
  <2>1. f[n] = RanStep(f[n - 1], params, n)
    BY <1>1
  <2>2. /\ f[n - 1].kept \in [Settings -> ValuesFor(params)]
        /\ f[n - 1].commands \in [Settings -> Commands(params)]
    BY <1>2
  <2> QED BY <2>1, <2>2 DEF RanStep
(* Before and after its turn a setting stays as it is.                     *)
<1>4. ASSUME NEW k \in Settings, NEW j \in 1..20, Order[j] = k
      PROVE  /\ \A n \in 0..(j - 1) : f[n].kept[k] = mParameters[k]
             /\ \A n \in j..20 : f[n].kept[k] = f[j].kept[k] /\ f[n].commands[k] = f[j].commands[k]
  <2>1. \A n \in 1..20 : n # j => Order[n] # k
    BY <1>4, OrderIsOnce
  <2> DEFINE S == {n \in Nat : n < j => f[n].kept[k] = mParameters[k]}
             T == {n \in Nat : n \in j..20 => /\ f[n].kept[k] = f[j].kept[k]
                                              /\ f[n].commands[k] = f[j].commands[k]}
  <2>2. 0 \in S
    BY <1>1
  <2>3. ASSUME NEW n \in Nat, n \in S PROVE n + 1 \in S
    <3>1. n + 1 < j => n + 1 \in 1..20 /\ n + 1 # j /\ (n + 1) - 1 = n /\ n < j
      OBVIOUS
    <3>2. n + 1 < j => f[n + 1].kept[k] = f[n].kept[k]
      <4> SUFFICES ASSUME n + 1 < j PROVE f[n + 1].kept[k] = f[n].kept[k]
        OBVIOUS
      <4>1. n + 1 \in 1..20 /\ Order[n + 1] # k
        BY <2>1, <3>1
      <4>2. f[n + 1].kept[k] = f[(n + 1) - 1].kept[k]
        BY <1>3, <4>1
      <4> QED BY <3>1, <4>2
    <3> QED BY <2>3, <3>1, <3>2
  <2>4. 0 \in T
    OBVIOUS
  <2>5. ASSUME NEW n \in Nat, n \in T PROVE n + 1 \in T
    <3>1. n + 1 \in j..20 /\ n + 1 # j => n \in j..20 /\ n + 1 \in 1..20 /\ (n + 1) - 1 = n
      OBVIOUS
    <3>2. ASSUME n + 1 \in j..20, n + 1 # j
          PROVE  f[n + 1].kept[k] = f[n].kept[k] /\ f[n + 1].commands[k] = f[n].commands[k]
      <4>1. n + 1 \in 1..20 /\ Order[n + 1] # k
        BY <2>1, <3>1, <3>2
      <4>2. /\ f[n + 1].kept[k] = f[(n + 1) - 1].kept[k]
            /\ f[n + 1].commands[k] = f[(n + 1) - 1].commands[k]
        BY <1>3, <4>1
      <4> QED BY <3>1, <3>2, <4>2
    <3> QED BY <2>5, <3>1, <3>2
  <2>6. (\A n \in Nat : n \in S) /\ \A n \in Nat : n \in T
    <3> HIDE DEF S, T
    <3> QED BY <2>2, <2>3, <2>4, <2>5, Induction
  <2>7. ASSUME NEW n \in 0..(j - 1) PROVE f[n].kept[k] = mParameters[k]
    BY <2>6
  <2>8. ASSUME NEW n \in j..20
        PROVE  f[n].kept[k] = f[j].kept[k] /\ f[n].commands[k] = f[j].commands[k]
    BY <2>6
  <2> QED BY <2>7, <2>8
<1>5. ASSUME NEW k \in Settings PROVE \E kept : SetterSaw(params, k, kept, Ran(params))
  <2>1. PICK j \in 1..20 : Order[j] = k
    BY OrderIsOnce
  <2> DEFINE kept == f[j - 1].kept
  <2>2. kept[k] = mParameters[k]
    BY <1>4, <2>1
  <2>3. /\ Ran(params).kept[k] = Setter(kept, params, k).value
        /\ Ran(params).commands[k] = Setter(kept, params, k).command
    <3>1. 20 \in j..20
      OBVIOUS
    <3>2. f[20].kept[k] = f[j].kept[k] /\ f[20].commands[k] = f[j].commands[k]
      BY <1>4, <2>1, <3>1
    <3>3. /\ f[j].kept[k] = Setter(kept, params, k).value
          /\ f[j].commands[k] = Setter(kept, params, k).command
      BY <1>3, <2>1
    <3> QED BY <1>1, <3>2, <3>3
  <2>4. Order[7] = "whitebalance" /\ Order[8] = "effect"
    BY DEF Order
  <2>5. ASSUME k = "whitebalance", "effect" \in Settings
        PROVE  kept["effect"] = mParameters["effect"]
    <3>1. j = 7
      BY <2>1, <2>4, <2>5, OrderIsOnce
    <3> QED BY <1>4, <2>4, <2>5, <3>1
  <2>6. ASSUME k = "effect", "whitebalance" \in Settings
        PROVE  kept["whitebalance"] = Ran(params).kept["whitebalance"]
    <3>1. j = 8
      BY <2>1, <2>4, <2>6, OrderIsOnce
    <3>2. f[20].kept["whitebalance"] = f[7].kept["whitebalance"]
      BY <1>4, <2>4, <2>6
    <3> QED BY <1>1, <3>1, <3>2
  <2> HIDE DEF kept
  <2> QED BY <2>2, <2>3, <2>5, <2>6 DEF SetterSaw
<1> QED BY <1>1, <1>5

SettingsKept ==
    /\ IsAParameterSet
    /\ \A k \in Settings \ (refusals \cup OnlyRemembered) : driver[k] = Told(k)
    /\ "iso" \in Settings => (mHJR = "deblur" <=> mParameters["iso"] = "deblur")
    /\ {"whitebalance", "effect"} \subseteq Settings =>
           ~(mParameters["whitebalance"] # "auto" /\ mParameters["effect"] \in ColourEffects)

(* initDefaultParameters() establishes the invariant.                      *)
LEMMA SettingsStart == ParametersInit => SettingsKept
<1> SUFFICES ASSUME ParametersInit PROVE SettingsKept
  OBVIOUS
<1>1. mParameters = [k \in Settings |-> Default(k)] /\ mBrightness = 0 /\ mHJR = "auto"
  BY DEF ParametersInit
<1>2. \A k \in Settings : mParameters[k] = Default(k)
  BY <1>1
<1>3. IsAParameterSet
  BY <1>1 DEF IsAParameterSet
<1>4. ASSUME NEW k \in Settings \ (refusals \cup OnlyRemembered) PROVE driver[k] = Told(k)
  <2>1. driver[k] = IF k = "exposure-compensation" THEN 2 ELSE Default(k)
    BY DEF ParametersInit
  <2>2. mParameters[k] = Default(k)
    BY <1>2
  <2> QED BY <1>1, <2>1, <2>2 DEF Told, Default
<1>5. "iso" \in Settings => (mHJR = "deblur" <=> mParameters["iso"] = "deblur")
  BY <1>1, <1>2 DEF Default
<1>6. {"whitebalance", "effect"} \subseteq Settings =>
          ~(mParameters["whitebalance"] # "auto" /\ mParameters["effect"] \in ColourEffects)
  BY <1>2 DEF Default
<1> QED BY <1>3, <1>4, <1>5, <1>6 DEF SettingsKept

(* What setParameters() leaves of one setting.                             *)
LEMMA SettingSet ==
    ASSUME IsAParameterSet, NEW params, setParameters(params), NEW k \in Settings
    PROVE  /\ mParameters' \in [Settings -> ValuesFor(params)]
           /\ \E kept : SetterSaw(params, k, kept, Ran(params)) /\ mParameters' = Ran(params).kept
           /\ k \notin refusals' =>
                 driver'[k] = IF Ran(params).commands[k] = << >> THEN driver[k]
                              ELSE Head(Ran(params).commands[k])
           /\ k \notin refusals' /\ Ran(params).commands[k] = << >> => k \notin refusals
           /\ mBrightness' = IF "luma-adaptation" \in Settings THEN params["luma-adaptation"]
                             ELSE mBrightness
<1> DEFINE ran == Ran(params)
<1>1. /\ mParameters' = ran.kept
      /\ \E fails : native_set_parm(ran.commands, fails)
      /\ mBrightness' = IF "luma-adaptation" \in Settings THEN params["luma-adaptation"]
                        ELSE mBrightness
  BY DEF setParameters
<1>2. ran \in Outcomes(params) /\ \E kept : SetterSaw(params, k, kept, ran)
  BY RanOutcome
<1>3. PICK fails : native_set_parm(ran.commands, fails)
  BY <1>1
<1> HIDE DEF ran
<1>4. /\ driver' = [x \in Settings |-> IF ran.commands[x] = << >> \/ x \in fails THEN driver[x]
                                       ELSE Head(ran.commands[x])]
      /\ refusals' = {x \in Settings : IF ran.commands[x] = << >> THEN x \in refusals
                                       ELSE x \in fails}
  BY <1>3 DEF native_set_parm
<1>5. k \notin refusals' => driver'[k] = IF ran.commands[k] = << >> THEN driver[k]
                                         ELSE Head(ran.commands[k])
  BY <1>4
<1>6. k \notin refusals' /\ ran.commands[k] = << >> => k \notin refusals
  BY <1>4
<1>7. mParameters' \in [Settings -> ValuesFor(params)]
  BY <1>1, <1>2 DEF Outcomes
<1> QED BY <1>1, <1>2, <1>5, <1>6, <1>7 DEF ran

(* The first of one.                                                       *)
LEMMA HeadOfOne == \A x : Head(<<x>>) = x /\ <<x>> # << >>
OBVIOUS

(* setParameters() tells the driver what it remembers.                     *)
LEMMA DriverAgrees ==
    ASSUME SettingsKept, NEW params, setParameters(params),
           NEW k \in Settings, k \notin refusals', k \notin OnlyRemembered
    PROVE  driver'[k] = Told(k)'
<1>1. IsAParameterSet /\ (k \notin refusals => driver[k] = Told(k))
  BY DEF SettingsKept
<1>2. PICK kept : SetterSaw(params, k, kept, Ran(params)) /\ mParameters' = Ran(params).kept
  BY <1>1, SettingSet
<1>3. /\ driver'[k] = IF Ran(params).commands[k] = << >> THEN driver[k]
                      ELSE Head(Ran(params).commands[k])
      /\ Ran(params).commands[k] = << >> => k \notin refusals
      /\ k = "luma-adaptation" => mBrightness' = params[k]
  BY <1>1, SettingSet
<1> DEFINE s == Setter(kept, params, k)
<1>4. /\ kept[k] = mParameters[k] /\ mParameters'[k] = s.value
      /\ Ran(params).commands[k] = s.command
  BY <1>2 DEF SetterSaw
<1>5. Told(k)' = IF k = "exposure-compensation" THEN mParameters'[k] + 2
                 ELSE IF k = "luma-adaptation" THEN mBrightness' ELSE mParameters'[k]
  BY DEF Told
<1>6. Told(k) = IF k = "exposure-compensation" THEN mParameters[k] + 2
                ELSE IF k = "luma-adaptation" THEN mBrightness ELSE mParameters[k]
  BY DEF Told
<1>7. \/ Ignores(s, kept, params, k)
      \/ Sends(s, params, k)
      \/ SendsBrightness(s, kept, params, k)
      \/ SendsCompensation(s, params, k)
  <2> HIDE DEF s
  <2>1. s = Setter(kept, params, k)
    BY DEF s
  <2> QED BY <2>1, SetterGives DEF Remembers
<1> HIDE DEF s
<1>8. CASE Ignores(s, kept, params, k)
  BY <1>1, <1>3, <1>4, <1>5, <1>6, <1>8 DEF Ignores
<1>9. CASE Sends(s, params, k)
  BY <1>3, <1>4, <1>5, <1>9, HeadOfOne DEF Sends
<1>10. CASE SendsBrightness(s, kept, params, k)
  BY <1>3, <1>4, <1>5, <1>10, HeadOfOne DEF SendsBrightness
<1>11. CASE SendsCompensation(s, params, k)
  BY <1>3, <1>4, <1>5, <1>11, HeadOfOne DEF SendsCompensation
<1> QED BY <1>7, <1>8, <1>9, <1>10, <1>11

(* setISOValue() and the jitter reduction follow the same value.           *)
LEMMA JitterAgrees ==
    ASSUME SettingsKept, NEW params, setParameters(params), "iso" \in Settings
    PROVE  mHJR' = "deblur" <=> mParameters'["iso"] = "deblur"
<1>1. IsAParameterSet /\ (mHJR = "deblur" <=> mParameters["iso"] = "deblur")
  BY DEF SettingsKept
<1>2. PICK kept : SetterSaw(params, "iso", kept, Ran(params)) /\ mParameters' = Ran(params).kept
  BY <1>1, SettingSet
<1>3. kept["iso"] = mParameters["iso"] /\ mParameters'["iso"] = Setter(kept, params, "iso").value
  BY <1>2 DEF SetterSaw
<1>4. Setter(kept, params, "iso") = setISOValue(kept, params, "iso")
  BY DEF Setter
<1>5. mParameters'["iso"] = IF params["iso"] \in Supported("iso") THEN params["iso"]
                            ELSE mParameters["iso"]
  BY <1>3, <1>4 DEF setISOValue, Sent, Tell, Ignore, Lacking
<1>6. IF params["iso"] \notin Supported("iso") \/ (params["iso"] # "deblur" /\ mHJR # "deblur")
      THEN mHJR' = mHJR ELSE mHJR' = params["iso"]
  BY DEF setParameters, HandJitterReduction
<1> QED BY <1>1, <1>5, <1>6

(* The white balance's setter looks at the effect and, after it, the       *)
(* effect's looks at the white balance.                                    *)
LEMMA EffectAgrees ==
    ASSUME SettingsKept, NEW params, setParameters(params),
           {"whitebalance", "effect"} \subseteq Settings
    PROVE  ~(mParameters'["whitebalance"] # "auto" /\ mParameters'["effect"] \in ColourEffects)
<1>1. /\ IsAParameterSet
      /\ ~(mParameters["whitebalance"] # "auto" /\ mParameters["effect"] \in ColourEffects)
  BY DEF SettingsKept
<1>2. PICK w : /\ SetterSaw(params, "whitebalance", w, Ran(params))
               /\ mParameters' = Ran(params).kept
  BY <1>1, SettingSet
<1>3. PICK e : SetterSaw(params, "effect", e, Ran(params)) /\ mParameters' = Ran(params).kept
  BY <1>1, SettingSet
<1>4. /\ w["whitebalance"] = mParameters["whitebalance"] /\ w["effect"] = mParameters["effect"]
      /\ mParameters'["whitebalance"] = setWhiteBalance(w, params, "whitebalance").value
  BY <1>2 DEF SetterSaw, Setter
<1>5. /\ e["effect"] = mParameters["effect"] /\ e["whitebalance"] = mParameters'["whitebalance"]
      /\ mParameters'["effect"] = setEffect(e, params, "effect").value
  BY <1>3 DEF SetterSaw, Setter
<1>6. \/ mParameters'["whitebalance"] = mParameters["whitebalance"]
      \/ mParameters["effect"] \notin ColourEffects
  BY <1>4 DEF setWhiteBalance, Tell, Ignore
<1>7. \/ mParameters'["effect"] = mParameters["effect"]
      \/ mParameters'["effect"] \in ColourEffects => mParameters'["whitebalance"] = "auto"
  BY <1>5 DEF setEffect, Tell, Ignore
<1> QED BY <1>1, <1>6, <1>7

(* No step breaks the invariant.                                           *)
LEMMA SettingsStep ==
    ASSUME SettingsKept, [ParametersNext]_parametersVars
    PROVE  SettingsKept'
<1>1. CASE applicationSets
  <2>1. PICK params : setParameters(params)
    BY <1>1 DEF applicationSets
  <2>2. IsAParameterSet'
    <3>1. IsAParameterSet
      BY DEF SettingsKept
    <3>2. Ran(params) \in Outcomes(params) /\ mParameters' = Ran(params).kept
      BY <2>1, <3>1, RanOutcome DEF setParameters
    <3> QED BY <3>2 DEF IsAParameterSet, Outcomes
  <2>3. \A k \in Settings \ (refusals' \cup OnlyRemembered) : driver'[k] = Told(k)'
    BY <2>1, DriverAgrees
  <2>4. "iso" \in Settings => (mHJR' = "deblur" <=> mParameters'["iso"] = "deblur")
    BY <2>1, JitterAgrees
  <2>5. {"whitebalance", "effect"} \subseteq Settings =>
            ~(mParameters'["whitebalance"] # "auto" /\ mParameters'["effect"] \in ColourEffects)
    BY <2>1, EffectAgrees
  <2> QED BY <2>2, <2>3, <2>4, <2>5 DEF SettingsKept
<1>2. CASE native_get_maxzoom
  BY <1>2 DEF native_get_maxzoom, SettingsKept, IsAParameterSet, Told
<1>3. CASE UNCHANGED parametersVars
  BY <1>3 DEF parametersVars, SettingsKept, IsAParameterSet, Told
<1> QED BY <1>1, <1>2, <1>3 DEF ParametersNext

(* The driver works with what the application is told, for any settings    *)
(* and however often it refuses (setParameters and the setters).           *)
THEOREM DriverAsTold == ParametersSpec => []SettingsAgree
<1>1. SettingsKept => SettingsAgree
  <2> SUFFICES ASSUME SettingsKept, {"whitebalance", "effect"} \subseteq Settings \ refusals
               PROVE  ~(driver["whitebalance"] # "auto" /\ driver["effect"] \in ColourEffects)
    BY DEF SettingsKept, SettingsAgree
  <2>1. /\ driver["whitebalance"] = mParameters["whitebalance"]
        /\ driver["effect"] = mParameters["effect"]
    BY DEF SettingsKept, Told, OnlyRemembered
  <2> QED BY <2>1 DEF SettingsKept
<1> QED BY <1>1, SettingsStart, SettingsStep, PTL DEF ParametersSpec

(* Setting what is set changes nothing.                                    *)
LEMMA RoundTripStep ==
    ASSUME SettingsKept, setParameters(getParameters)
    PROVE  /\ getParameters' = getParameters
           /\ \A k \in Settings \ (refusals \cup refusals' \cup {"luma-adaptation"}) :
                  driver'[k] = driver[k]
<1> DEFINE params == mParameters
<1>1. IsAParameterSet /\ setParameters(params)
  BY DEF SettingsKept, getParameters
<1>2. ASSUME NEW k \in Settings
      PROVE  \E kept : SetterSaw(params, k, kept, Ran(params)) /\ mParameters' = Ran(params).kept
  BY <1>1, SettingSet
<1>3. ASSUME NEW k \in Settings PROVE mParameters'[k] = mParameters[k]
  <2>1. PICK kept : SetterSaw(params, k, kept, Ran(params)) /\ mParameters' = Ran(params).kept
    BY <1>2
  <2>2. kept[k] = mParameters[k] /\ mParameters'[k] = Setter(kept, params, k).value
    BY <2>1 DEF SetterSaw
  <2>3. Setter(kept, params, k).value \in {kept[k], params[k]}
    BY SetterGives DEF Ignores, Remembers, Sends, SendsBrightness, SendsCompensation
  <2> QED BY <2>2, <2>3
<1>4. getParameters' = getParameters
  <2>1. mParameters' = [k \in Settings |-> mParameters'[k]]
    <3>1. Ran(params) \in Outcomes(params) /\ mParameters' = Ran(params).kept
      BY <1>1, RanOutcome DEF setParameters
    <3> QED BY <3>1 DEF Outcomes
  <2>2. mParameters = [k \in Settings |-> mParameters[k]]
    BY <1>1 DEF IsAParameterSet
  <2>3. [k \in Settings |-> mParameters'[k]] = [k \in Settings |-> mParameters[k]]
    BY <1>3
  <2>4. mParameters' = mParameters
    BY <2>1, <2>2, <2>3
  <2> QED BY <2>4 DEF getParameters
<1>5. ASSUME NEW k \in Settings \ (refusals \cup refusals' \cup {"luma-adaptation"})
      PROVE  driver'[k] = driver[k]
  <2>1. CASE k \in OnlyRemembered
    <3>1. PICK kept : SetterSaw(params, k, kept, Ran(params))
      BY <1>2
    <3>2. Ran(params).commands[k] = << >>
      BY <3>1, SetterGives, <2>1
      DEF SetterSaw, OnlyRemembered, Ignores, Remembers, Sends, SendsBrightness, SendsCompensation
    <3> QED BY <1>1, <3>2, SettingSet
  <2>2. CASE k \notin OnlyRemembered
    <3>1. driver[k] = Told(k)
      BY <2>2 DEF SettingsKept
    <3>2. driver'[k] = Told(k)'
      BY <1>1, <2>2, DriverAgrees
    <3>3. Told(k)' = Told(k)
      BY <1>3 DEF Told
    <3> QED BY <3>1, <3>2, <3>3
  <2> QED BY <2>1, <2>2
<1> QED BY <1>4, <1>5

(* What getParameters() returned can be set again without a change of the  *)
(* picture, for any settings.                                              *)
THEOREM SettingTheSame == ParametersSpec => RoundTrip
<1> DEFINE Same ==
        \/ getParameters' # getParameters
        \/ \E k \in Settings \ (refusals \cup refusals' \cup {"luma-adaptation"}) :
               driver'[k] # driver[k]
        => ~setParameters(getParameters)
<1>1. SettingsKept /\ [ParametersNext]_parametersVars => [Same]_parametersVars
  BY RoundTripStep
<1> HIDE DEF Same
<1>2. ParametersSpec => [][Same]_parametersVars
  BY <1>1, SettingsStart, SettingsStep, PTL DEF ParametersSpec
<1> QED BY <1>2 DEF RoundTrip, Same
=============================================================================
