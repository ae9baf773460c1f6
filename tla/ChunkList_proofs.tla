-------------------------- MODULE ChunkList_proofs --------------------------
(***************************************************************************)
(* Proofs about ChunkList.  Carve and Release both replace a run of        *)
(* chunks by other chunks that cover the same units (Splice), so the       *)
(* argument is one lemma about Splice, two that show what carving and      *)
(* releasing splice in.                                                    *)
(***************************************************************************)
EXTENDS ChunkList, SequenceTheorems, WellFoundedInduction, TLAPS

(* The fields of a list's chunks have their types.                         *)
LEMMA ChunkFields ==
    ASSUME NEW list \in Seq(Chunk)
    PROVE  /\ Len(list) \in Nat
           /\ \A i \in 1..Len(list) :
                /\ list[i] \in Chunk
                /\ list[i].start \in Nat
                /\ list[i].size \in Nat
                /\ list[i].free \in BOOLEAN
<1>1. Len(list) \in Nat /\ \A i \in 1..Len(list) : list[i] \in Chunk
  BY LenProperties, ElementOfSeq
<1>2. \A c \in Chunk : c.start \in Nat /\ c.size \in Nat /\ c.free \in BOOLEAN
  BY DEF Chunk
<1> QED
  BY <1>1, <1>2

\* A whole number of pages leaves nothing over when divided into pages.
LEMMA ModOfMultiple ==
    ASSUME NEW n \in Int, NEW d \in Int, n = PageUnits * d
    PROVE  n % PageUnits = 0
BY PageAssumption

(* Extra(n) is less than a page and takes n to a page boundary.            *)
LEMMA ExtraBound ==
    ASSUME NEW n \in Nat
    PROVE  /\ Extra(n) \in 0..(PageUnits - 1) /\ Extra(n) \in Nat
           /\ (n + Extra(n)) % PageUnits = 0
<1>1. /\ (-n) % PageUnits \in 0..(PageUnits - 1)
      /\ (-n) \div PageUnits \in Int
      /\ -n = PageUnits * ((-n) \div PageUnits) + ((-n) % PageUnits)
  BY PageAssumption
<1>2. PICK q \in Int, x \in 0..(PageUnits - 1) : x = Extra(n) /\ -n = PageUnits * q + x
  BY <1>1 DEF Extra
<1>3. n + x = PageUnits * (-q)
  BY <1>2, PageAssumption
<1>4. n + x \in Int /\ -q \in Int
  BY <1>2, PageAssumption
<1>5. (n + x) % PageUnits = 0
  BY <1>3, <1>4, ModOfMultiple
<1>6. x \in Nat
  BY PageAssumption
<1> QED
  BY <1>2, <1>5, <1>6

(* The elements of a concatenation, counted from where each part begins.   *)
LEMMA ConcatElements ==
    ASSUME NEW S, NEW s1 \in Seq(S), NEW s2 \in Seq(S)
    PROVE  /\ Len(s1) \in Nat /\ Len(s2) \in Nat
           /\ s1 \o s2 \in Seq(S)
           /\ Len(s1 \o s2) = Len(s1) + Len(s2)
           /\ \A k \in 1..Len(s1) : (s1 \o s2)[k] = s1[k]
           /\ \A k \in 1..Len(s2) : (s1 \o s2)[Len(s1) + k] = s2[k]
<1> DEFINE n1 == Len(s1)
           n2 == Len(s2)
           r == s1 \o s2
<1>1. n1 \in Nat /\ n2 \in Nat
  BY LenProperties
<1>2. /\ r \in Seq(S)
      /\ Len(r) = n1 + n2
      /\ \A k \in 1..(n1 + n2) : r[k] = IF k <= n1 THEN s1[k] ELSE s2[k - n1]
  BY ConcatProperties
<1> HIDE DEF n1, n2, r
<1>3. ASSUME NEW k \in 1..n1
      PROVE  r[k] = s1[k]
  BY <1>1, <1>2
<1>4. ASSUME NEW k \in 1..n2
      PROVE  r[n1 + k] = s2[k]
  <2>1. n1 + k \in 1..(n1 + n2) /\ ~(n1 + k <= n1) /\ (n1 + k) - n1 = k
    BY <1>1
  <2> QED
    BY <1>2, <2>1
<1> QED
  BY <1>1, <1>2, <1>3, <1>4 DEF n1, n2, r

(* new has the elements of a spliced list: those before lo, those of mid,  *)
(* those after hi.                                                         *)
IsSplice(new, list, lo, hi, mid) ==
    LET m == Len(mid)
        w == hi - lo + 1 - m
    IN  /\ new \in Seq(Chunk)
        /\ Len(new) = Len(list) - w
        /\ \A k \in 1..(Len(list) - w) :
             /\ k < lo => new[k] = list[k]
             /\ lo <= k /\ k < lo + m => new[k] = mid[k - lo + 1]
             /\ lo + m <= k => new[k] = list[k + w]

\* The nodes of a list after LinkedList replaced its nodes i to j by others.
LEMMA SpliceElements ==
    ASSUME NEW list \in Seq(Chunk), NEW lo \in 1..Len(list), NEW hi \in lo..Len(list),
           NEW mid \in Seq(Chunk)
    PROVE  IsSplice(Splice(list, lo, hi, mid), list, lo, hi, mid)
<1> DEFINE m == Len(mid)
           w == hi - lo + 1 - m
<1> DEFINE a == SubSeq(list, 1, lo - 1)
           b == SubSeq(list, hi + 1, Len(list))
           new == Splice(list, lo, hi, mid)
<1>1. /\ Len(list) \in Nat /\ m \in Nat
      /\ w = hi - lo + 1 - m
      /\ \A i \in 1..Len(list) : list[i] \in Chunk
  BY ChunkFields, LenProperties
<1>2. /\ a \in Seq(Chunk)
      /\ Len(a) = lo - 1
      /\ \A k \in 1..(lo - 1) : a[k] = list[k]
  <2>1. \A k \in 1..(lo - 1) : list[k] \in Chunk
    BY <1>1
  <2> QED
    BY <1>1, <2>1, SubSeqProperties
<1>3. /\ b \in Seq(Chunk)
      /\ Len(b) = Len(list) - hi
      /\ \A k \in 1..(Len(list) - hi) : b[k] = list[hi + k]
  <2>1. \A k \in (hi + 1)..Len(list) : list[k] \in Chunk
    BY <1>1
  <2>2. /\ b \in Seq(Chunk)
        /\ Len(b) = IF hi + 1 <= Len(list) THEN Len(list) - (hi + 1) + 1 ELSE 0
        /\ \A k \in 1..(Len(list) - (hi + 1) + 1) : b[k] = list[(hi + 1) + k - 1]
    BY <1>1, <2>1, SubSeqProperties
  <2> QED
    BY <1>1, <2>2
<1> HIDE DEF a, b, w
<1> DEFINE c == mid \o b
           n == Len(list)
<1>4. /\ c \in Seq(Chunk)
      /\ Len(c) = m + (n - hi)
      /\ \A k \in 1..m : c[k] = mid[k]
      /\ \A k \in 1..(n - hi) : c[m + k] = b[k]
  <2>1. /\ c \in Seq(Chunk)
        /\ Len(c) = Len(mid) + Len(b)
        /\ \A k \in 1..Len(mid) : c[k] = mid[k]
        /\ \A k \in 1..Len(b) : c[Len(mid) + k] = b[k]
    <3>1. ASSUME NEW k \in 1..Len(b)
          PROVE  c[Len(mid) + k] = b[k]
      BY <1>3, ConcatElements
    <3>2. /\ c \in Seq(Chunk)
          /\ Len(c) = Len(mid) + Len(b)
          /\ \A k \in 1..Len(mid) : c[k] = mid[k]
      BY <1>3, ConcatElements
    <3> QED
      BY <3>1, <3>2
  <2> HIDE DEF c
  <2> QED
    BY <1>3, <2>1
<1> HIDE DEF c
<1> HIDE DEF m
<1>5. new = a \o c
  BY DEF Splice, a, b, c
<1> HIDE DEF new
<1>6. /\ new \in Seq(Chunk)
      /\ Len(new) = (lo - 1) + (m + (n - hi))
      /\ \A k \in 1..(lo - 1) : new[k] = a[k]
      /\ \A k \in 1..(m + (n - hi)) : new[(lo - 1) + k] = c[k]
  <2>1. /\ new \in Seq(Chunk)
        /\ Len(new) = Len(a) + Len(c)
        /\ \A k \in 1..Len(a) : new[k] = a[k]
        /\ \A k \in 1..Len(c) : new[Len(a) + k] = c[k]
    <3>1. ASSUME NEW k \in 1..Len(c)
          PROVE  new[Len(a) + k] = c[k]
      BY <1>2, <1>4, <1>5, ConcatElements
    <3>2. ASSUME NEW k \in 1..Len(a)
          PROVE  new[k] = a[k]
      BY <1>2, <1>4, <1>5, ConcatElements
    <3>3. new \in Seq(Chunk) /\ Len(new) = Len(a) + Len(c)
      BY <1>2, <1>4, <1>5, ConcatElements
    <3> QED
      BY <3>1, <3>2, <3>3
  <2> QED
    BY <1>2, <1>4, <2>1
<1> HIDE DEF n
<1>7. n \in Nat /\ lo \in 1..n /\ hi \in lo..n
  BY <1>1 DEF n
<1>8. Len(new) = n - w
  BY <1>1, <1>6, <1>7
<1>9. ASSUME NEW k \in 1..(n - w), k < lo
      PROVE  new[k] = list[k]
  <2>1. k \in 1..(lo - 1)
    BY <1>7, <1>9
  <2> QED
    BY <1>2, <1>6, <2>1
<1>10. ASSUME NEW k \in 1..(n - w), lo <= k, k < lo + m
       PROVE  new[k] = mid[k - lo + 1]
  <2>1. PICK i \in 1..m : k = (lo - 1) + i /\ i = k - lo + 1
    BY <1>1, <1>7, <1>10
  <2>2. i \in 1..(m + (n - hi))
    BY <1>1, <1>7, <2>1
  <2> QED
    BY <1>4, <1>6, <2>1, <2>2
<1>11. ASSUME NEW k \in 1..(n - w), lo + m <= k
       PROVE  new[k] = list[k + w]
  <2>1. PICK i \in 1..(n - hi) : k = (lo - 1) + (m + i) /\ k + w = hi + i
    <3> DEFINE i == k - (lo - 1) - m
    <3>1. i \in 1..(n - hi) /\ k = (lo - 1) + (m + i) /\ k + w = hi + i
      BY <1>1, <1>7, <1>11
    <3> QED
      BY <3>1
  <2>2. m + i \in 1..(m + (n - hi))
    BY <1>1, <1>7, <2>1
  <2>3. new[k] = c[m + i]
    BY <1>6, <2>1, <2>2
  <2>4. c[m + i] = list[hi + i]
    BY <1>3, <1>4, <2>1 DEF n
  <2> QED
    BY <2>1, <2>3, <2>4
<1> QED
  BY <1>6, <1>8, <1>9, <1>10, <1>11 DEF IsSplice, n, m, w, new
-----------------------------------------------------------------------------
End(c) == c.start + c.size

(* The chunks of list follow each other without gap, none is empty, no two *)
(* neighbours are free and those in use start on a page.  Order is implied *)
(* by the rest, by an induction over the list that is not needed: kept as  *)
(* a conjunct, it is preserved by itself.                                  *)
NoneEmpty(list) == \A i \in 1..Len(list) : list[i].size > 0
Adjoining(list) == \A i \in 1..(Len(list) - 1) : End(list[i]) = list[i + 1].start
Ordered(list) ==
    \A i, j \in 1..Len(list) : i < j => End(list[i]) <= list[j].start
Coalesced(list) == \A i \in 1..(Len(list) - 1) : ~(list[i].free /\ list[i + 1].free)
Aligned(list) ==
    \A i \in 1..Len(list) : ~list[i].free => list[i].start % PageUnits = 0

Segment(list) ==
    /\ list \in Seq(Chunk)
    /\ Len(list) > 0
    /\ NoneEmpty(list)
    /\ Adjoining(list)
    /\ Ordered(list)
    /\ Coalesced(list)
    /\ Aligned(list)

(* mid can take the place of the chunks lo to hi of list.                  *)
Replaces(mid, list, lo, hi) ==
    /\ Segment(mid)
    /\ mid[1].start = list[lo].start
    /\ End(mid[Len(mid)]) = End(list[hi])
    /\ mid[1].free => lo = 1 \/ ~list[lo - 1].free
    /\ mid[Len(mid)].free => hi = Len(list) \/ ~list[hi + 1].free

(* Replacing a run of chunks by chunks that cover the same units keeps a   *)
(* list a segment, with the same first unit and the same end.              *)
LEMMA SpliceSegment ==
    ASSUME NEW list, Segment(list),
           NEW lo \in 1..Len(list), NEW hi \in lo..Len(list),
           NEW mid, Replaces(mid, list, lo, hi),
           NEW new, new = Splice(list, lo, hi, mid)
    PROVE  /\ Segment(new)
           /\ new[1].start = list[1].start
           /\ End(new[Len(new)]) = End(list[Len(list)])
<1> DEFINE m == Len(mid)
           n == Len(list)
           w == hi - lo + 1 - m
<1>1. list \in Seq(Chunk) /\ mid \in Seq(Chunk) /\ m > 0
  BY DEF Segment, Replaces
<1>2. /\ new \in Seq(Chunk)
      /\ Len(new) = n - w
      /\ \A k \in 1..(n - w) :
           /\ k < lo => new[k] = list[k]
           /\ lo <= k /\ k < lo + m => new[k] = mid[k - lo + 1]
           /\ lo + m <= k => new[k] = list[k + w]
  <2>1. IsSplice(new, list, lo, hi, mid)
    BY <1>1, SpliceElements
  <2> QED
    BY <2>1 DEF IsSplice
<1>3. n \in Nat /\ m \in Nat /\ lo \in 1..n /\ hi \in lo..n
  BY <1>1, ChunkFields
<1>4. /\ \A k \in 1..n : list[k].start \in Nat /\ list[k].size \in Nat
      /\ \A k \in 1..m : mid[k].start \in Nat /\ mid[k].size \in Nat
  BY <1>1, ChunkFields
<1> HIDE DEF m, n, w
<1>5. w = hi - lo + 1 - m /\ n - w \in Nat /\ n - w > 0 /\ w \in Int
  BY <1>1, <1>3 DEF w
(* A chunk of new is one of list before lo, one of mid, or one of list     *)
(* after hi.                                                               *)
<1>6. ASSUME NEW k \in 1..(n - w)
      PROVE  \/ k < lo /\ k \in 1..n /\ new[k] = list[k]
             \/ \E i \in 1..m : k = lo + i - 1 /\ new[k] = mid[i]
             \/ \E i \in (hi + 1)..n : k = i - w /\ new[k] = list[i]
  <2>1. CASE k < lo
    BY <1>2, <1>3, <1>5, <2>1
  <2>2. CASE lo <= k /\ k < lo + m
    <3>1. k - lo + 1 \in 1..m /\ k = lo + (k - lo + 1) - 1
      BY <1>3, <1>5, <2>2
    <3> QED
      BY <1>2, <2>2, <3>1
  <2>3. CASE lo + m <= k
    <3>1. k + w \in (hi + 1)..n /\ k = (k + w) - w
      BY <1>3, <1>5, <2>3
    <3> QED
      BY <1>2, <2>3, <3>1
  <2> QED
    BY <1>3, <1>5, <2>1, <2>2, <2>3
<1>7. NoneEmpty(new)
  <2> SUFFICES ASSUME NEW k \in 1..(n - w)
               PROVE  new[k].size > 0
    BY <1>2 DEF NoneEmpty
  <2>1. /\ \A i \in 1..n : list[i].size > 0
        /\ \A i \in 1..m : mid[i].size > 0
    BY DEF Segment, Replaces, NoneEmpty, n, m
  <2>2. \A i \in (hi + 1)..n : i \in 1..n
    BY <1>3
  <2> QED
    BY <1>6, <2>1, <2>2
<1>8. Aligned(new)
  <2> SUFFICES ASSUME NEW k \in 1..(n - w), ~new[k].free
               PROVE  new[k].start % PageUnits = 0
    BY <1>2 DEF Aligned
  <2>1. /\ \A i \in 1..n : ~list[i].free => list[i].start % PageUnits = 0
        /\ \A i \in 1..m : ~mid[i].free => mid[i].start % PageUnits = 0
    BY DEF Segment, Replaces, Aligned, n, m
  <2>2. \A i \in (hi + 1)..n : i \in 1..n
    BY <1>3
  <2> QED
    BY <1>6, <2>1, <2>2
(* Two neighbours of new are neighbours in list or in mid, or stand on     *)
(* either side of one of the two seams.                                    *)
<1>9. ASSUME NEW k \in 1..(n - w - 1)
      PROVE  \/ \E i \in 1..(n - 1) : new[k] = list[i] /\ new[k + 1] = list[i + 1]
             \/ lo > 1 /\ new[k] = list[lo - 1] /\ new[k + 1] = mid[1]
             \/ \E i \in 1..(m - 1) : new[k] = mid[i] /\ new[k + 1] = mid[i + 1]
             \/ hi < n /\ new[k] = mid[m] /\ new[k + 1] = list[hi + 1]
  <2>1. k \in 1..(n - w) /\ k + 1 \in 1..(n - w)
    BY <1>5
  <2>2. CASE k + 1 < lo
    <3>1. k \in 1..(n - 1) /\ new[k] = list[k] /\ new[k + 1] = list[k + 1]
      BY <1>2, <1>3, <1>5, <2>1, <2>2
    <3> QED
      BY <3>1
  <2>3. CASE k + 1 = lo
    <3>1. lo > 1 /\ new[k] = list[lo - 1]
      <4>1. k = lo - 1 /\ k < lo /\ lo > 1
        BY <1>3, <2>3
      <4> QED
        BY <1>2, <2>1, <4>1
    <3>2. new[k + 1] = mid[1]
      <4>1. lo <= k + 1 /\ k + 1 < lo + m /\ (k + 1) - lo + 1 = 1
        BY <1>1, <1>3, <2>3
      <4> QED
        BY <1>2, <2>1, <4>1
    <3> QED
      BY <3>1, <3>2
  <2>4. CASE lo <= k /\ k + 1 < lo + m
    <3> DEFINE i == k - lo + 1
    <3>1. i \in 1..(m - 1) /\ (k + 1) - lo + 1 = i + 1
      BY <1>3, <2>4
    <3>2. new[k] = mid[i] /\ new[k + 1] = mid[i + 1]
      BY <1>2, <1>3, <2>1, <2>4, <3>1
    <3> QED
      BY <3>1, <3>2
  <2>5. CASE k + 1 = lo + m
    <3>1. k - lo + 1 = m /\ lo <= k /\ k < lo + m
      BY <1>1, <1>3, <2>5
    <3>2. (k + 1) + w = hi + 1 /\ lo + m <= k + 1 /\ hi < n
      BY <1>3, <1>5, <2>1, <2>5
    <3> QED
      BY <1>2, <2>1, <3>1, <3>2
  <2>6. CASE lo + m <= k
    <3>1. k + w \in 1..(n - 1) /\ (k + 1) + w = (k + w) + 1 /\ lo + m <= k + 1
      BY <1>3, <1>5, <2>6
    <3>2. new[k] = list[k + w] /\ new[k + 1] = list[(k + w) + 1]
      BY <1>2, <2>1, <2>6, <3>1
    <3> QED
      BY <3>1, <3>2
  <2>7. \/ k + 1 < lo \/ k + 1 = lo \/ (lo <= k /\ k + 1 < lo + m)
        \/ k + 1 = lo + m \/ lo + m <= k
    BY <1>3, <1>5
  <2> QED
    BY <2>2, <2>3, <2>4, <2>5, <2>6, <2>7, Zenon
<1>10. Adjoining(new)
  <2> SUFFICES ASSUME NEW k \in 1..(n - w - 1)
               PROVE  End(new[k]) = new[k + 1].start
    BY <1>2 DEF Adjoining
  <2>1. /\ \A i \in 1..(n - 1) : End(list[i]) = list[i + 1].start
        /\ \A i \in 1..(m - 1) : End(mid[i]) = mid[i + 1].start
        /\ mid[1].start = list[lo].start
        /\ End(mid[m]) = End(list[hi])
    BY DEF Segment, Replaces, Adjoining, n, m
  <2>2. lo > 1 => End(list[lo - 1]) = list[lo].start
    <3>1. lo > 1 => lo - 1 \in 1..(n - 1) /\ (lo - 1) + 1 = lo
      BY <1>3
    <3> QED
      BY <2>1, <3>1
  <2>3. hi < n => End(list[hi]) = list[hi + 1].start
    BY <1>3, <2>1
  <2> QED
    BY <1>9, <2>1, <2>2, <2>3
<1>11. Coalesced(new)
  <2> SUFFICES ASSUME NEW k \in 1..(n - w - 1)
               PROVE  ~(new[k].free /\ new[k + 1].free)
    BY <1>2 DEF Coalesced
  <2>1. /\ \A i \in 1..(n - 1) : ~(list[i].free /\ list[i + 1].free)
        /\ \A i \in 1..(m - 1) : ~(mid[i].free /\ mid[i + 1].free)
        /\ mid[1].free => lo = 1 \/ ~list[lo - 1].free
        /\ mid[m].free => hi = n \/ ~list[hi + 1].free
    BY DEF Segment, Replaces, Coalesced, n, m
  <2>2. CASE \E i \in 1..(n - 1) : new[k] = list[i] /\ new[k + 1] = list[i + 1]
    BY <2>1, <2>2
  <2>3. CASE \E i \in 1..(m - 1) : new[k] = mid[i] /\ new[k + 1] = mid[i + 1]
    BY <2>1, <2>3
  <2>4. CASE lo > 1 /\ new[k] = list[lo - 1] /\ new[k + 1] = mid[1]
    <3>1. lo # 1
      BY <1>3, <2>4
    <3> QED
      BY <2>1, <2>4, <3>1, Zenon
  <2>5. CASE hi < n /\ new[k] = mid[m] /\ new[k + 1] = list[hi + 1]
    <3>1. hi # n
      BY <1>3, <2>5
    <3> QED
      BY <2>1, <2>5, <3>1, Zenon
  <2> QED
    BY <1>9, <2>2, <2>3, <2>4, <2>5, Zenon
<1>12. Ordered(new)
  <2> SUFFICES ASSUME NEW j \in 1..(n - w), NEW k \in 1..(n - w), j < k
               PROVE  End(new[j]) <= new[k].start
    BY <1>2 DEF Ordered
  <2>1. /\ \A i, l \in 1..n : i < l => End(list[i]) <= list[l].start
        /\ \A i, l \in 1..m : i < l => End(mid[i]) <= mid[l].start
        /\ mid[1].start = list[lo].start
        /\ End(mid[m]) = End(list[hi])
    BY DEF Segment, Replaces, Ordered, n, m
  <2>2. \A i \in 1..m : /\ list[lo].start <= mid[i].start
                        /\ End(mid[i]) <= End(list[hi])
    <3> SUFFICES ASSUME NEW i \in 1..m
                 PROVE  mid[1].start <= mid[i].start /\ End(mid[i]) <= End(mid[m])
      BY <2>1
    <3>1. 1 \in 1..m /\ m \in 1..m
      BY <1>1, <1>3
    <3>2. i = 1 \/ End(mid[1]) <= mid[i].start
      BY <1>3, <2>1, <3>1
    <3>3. i = m \/ End(mid[i]) <= mid[m].start
      BY <1>3, <2>1, <3>1
    <3>4. /\ mid[1].start \in Nat /\ mid[1].size \in Nat
          /\ mid[i].start \in Nat /\ mid[i].size \in Nat
          /\ mid[m].start \in Nat /\ mid[m].size \in Nat
      BY <1>4, <3>1
    <3>5. mid[1].start <= mid[i].start
      <4>1. CASE i = 1
        BY <3>4, <4>1
      <4>2. CASE End(mid[1]) <= mid[i].start
        BY <3>4, <4>2 DEF End
      <4> QED
        BY <3>2, <4>1, <4>2
    <3>6. End(mid[i]) <= End(mid[m])
      <4>1. CASE i = m
        BY <3>4, <4>1 DEF End
      <4>2. CASE End(mid[i]) <= mid[m].start
        <5>1. /\ mid[m].start <= End(mid[m])
              /\ End(mid[m]) \in Nat /\ End(mid[i]) \in Nat
          BY <3>4, SMTT(60) DEF End
        <5> QED
          BY <3>4, <4>2, <5>1
      <4> QED
        BY <3>3, <4>1, <4>2
    <3> QED
      BY <3>5, <3>6
  <2>3. \A i \in 1..n : /\ i < lo => End(list[i]) <= list[lo].start
                        /\ i > hi => End(list[hi]) <= list[i].start
    BY <1>3, <2>1
  <2>4. /\ \A i \in 1..n : End(list[i]) \in Nat /\ list[i].start \in Nat
        /\ \A i \in 1..m : End(mid[i]) \in Nat /\ mid[i].start \in Nat
        /\ list[lo].start <= End(list[hi])
    <3>1. \A i \in 1..n : End(list[i]) \in Nat /\ list[i].start \in Nat
      BY <1>4 DEF End
    <3>2. \A i \in 1..m : End(mid[i]) \in Nat /\ mid[i].start \in Nat
      BY <1>4 DEF End
    <3>3. lo = hi \/ End(list[lo]) <= list[hi].start
      BY <1>3, <2>1
    <3>4. lo \in 1..n /\ hi \in 1..n
      BY <1>3
    <3>5. list[lo].start <= End(list[lo]) /\ list[hi].start <= End(list[hi])
      BY <1>4, <3>4 DEF End
    <3> QED
      BY <3>1, <3>2, <3>3, <3>4, <3>5
  <2>5. CASE k < lo
    <3>1. new[j] = list[j] /\ new[k] = list[k] /\ j \in 1..n /\ k \in 1..n
      BY <1>2, <1>3, <1>5, <2>5
    <3> QED
      BY <2>1, <3>1
  <2>6. CASE j < lo /\ lo <= k
    <3>1. new[j] = list[j] /\ j \in 1..n
      BY <1>2, <1>3, <1>5, <2>6
    <3>2. list[lo].start <= new[k].start /\ new[k].start \in Nat
      <4>1. ASSUME NEW i \in 1..m, new[k] = mid[i]
            PROVE  list[lo].start <= new[k].start /\ new[k].start \in Nat
        BY <2>2, <2>4, <4>1
      <4>2. ASSUME NEW i \in (hi + 1)..n, new[k] = list[i]
            PROVE  list[lo].start <= new[k].start /\ new[k].start \in Nat
        <5>1. i \in 1..n /\ i > hi /\ lo \in 1..n /\ hi \in 1..n
          BY <1>3
        <5> QED
          BY <2>3, <2>4, <4>2, <5>1
      <4>3. k < lo => FALSE
        BY <1>3, <2>6
      <4> QED
        BY <1>6, <4>1, <4>2, <4>3
    <3> QED
      BY <1>3, <2>3, <2>4, <2>6, <3>1, <3>2
  <2>7. CASE lo <= j
    <3>1. CASE k < lo + m
      <4>1. /\ j - lo + 1 \in 1..m /\ k - lo + 1 \in 1..m
            /\ j - lo + 1 < k - lo + 1
            /\ j < lo + m /\ lo <= k
        BY <1>3, <1>5, <2>7, <3>1
      <4> QED
        BY <1>2, <2>1, <2>7, <3>1, <4>1
    <3>2. CASE lo + m <= k
      <4>1. new[k] = list[k + w] /\ k + w \in (hi + 1)..n /\ k + w \in 1..n
        BY <1>2, <1>3, <1>5, <3>2
      <4>2. CASE lo + m <= j
        <5>1. new[j] = list[j + w] /\ j + w \in 1..n /\ j + w < k + w
          BY <1>2, <1>3, <1>5, <4>2
        <5> QED
          BY <2>1, <4>1, <5>1
      <4>3. CASE j < lo + m
        <5>1. j - lo + 1 \in 1..m /\ new[j] = mid[j - lo + 1]
          BY <1>2, <1>3, <1>5, <2>7, <4>3
        <5>2. End(new[j]) <= End(list[hi]) /\ End(new[j]) \in Nat
          BY <2>2, <2>4, <5>1
        <5>3. End(list[hi]) <= list[k + w].start
          BY <1>3, <2>3, <4>1
        <5>4. hi \in 1..n
          BY <1>3
        <5> QED
          BY <2>4, <4>1, <5>2, <5>3, <5>4
      <4> QED
        BY <1>3, <1>5, <4>2, <4>3
    <3> QED
      BY <1>3, <1>5, <3>1, <3>2
  <2> QED
    BY <1>3, <1>5, <2>5, <2>6, <2>7
<1>13. new[1].start = list[1].start
  <2>1. mid[1].start = list[lo].start
    BY DEF Replaces
  <2>2. CASE lo = 1
    <3>1. 1 \in 1..(n - w) /\ lo <= 1 /\ 1 < lo + m /\ 1 - lo + 1 = 1
      BY <1>1, <1>3, <1>5, <2>2
    <3>2. new[1] = mid[1]
      BY <1>2, <3>1
    <3> QED
      BY <2>1, <2>2, <3>2
  <2>3. CASE lo > 1
    BY <1>2, <1>3, <1>5, <2>3
  <2> QED
    BY <1>3, <2>2, <2>3
<1>14. End(new[Len(new)]) = End(list[n])
  <2>1. End(mid[m]) = End(list[hi])
    BY DEF Replaces, m
  <2>2. CASE hi = n
    <3>1. n - w \in 1..(n - w) /\ lo <= n - w /\ n - w < lo + m /\ (n - w) - lo + 1 = m
      BY <1>1, <1>3, <1>5, <2>2
    <3>2. new[n - w] = mid[m]
      BY <1>2, <3>1
    <3> QED
      BY <1>2, <2>1, <2>2, <3>2
  <2>3. CASE hi < n
    <3>1. n - w \in 1..(n - w) /\ lo + m <= n - w /\ (n - w) + w = n
      BY <1>1, <1>3, <1>5, <2>3
    <3> QED
      BY <1>2, <3>1
  <2> QED
    BY <1>3, <2>2, <2>3
<1> QED
  BY <1>2, <1>5, <1>7, <1>8, <1>10, <1>11, <1>12, <1>13, <1>14 DEF Segment, n

\* A non-empty set of naturals has a least element.
LEMMA LeastNat ==
    ASSUME NEW T, T \subseteq Nat, T # {}
    PROVE  \E x \in T : \A y \in T : x <= y
<1>1. PICK x \in T : \A y \in T : ~ (<<y, x>> \in OpToRel(<, Nat))
  BY WFMin, NatLessThanWellFounded
<1>2. ASSUME NEW y \in T
      PROVE  x <= y
  <2>1. x \in Nat /\ y \in Nat
    OBVIOUS
  <2>2. y < x => <<y, x>> \in OpToRel(<, Nat)
    BY <2>1 DEF OpToRel
  <2>3. ~(y < x)
    BY <1>1, <2>2
  <2> QED
    BY <2>1, <2>3
<1> QED
  BY <1>2

\* The loop of dealloc() stops at the first chunk that starts at the offset.
LEMMA ChunkAtFirst ==
    ASSUME NEW list \in Seq(Chunk), NEW offset \in Nat
    PROVE  LET at == {i \in 1..Len(list) : list[i].start = offset}
           IN  ChunkAt(list, offset) = IF at # {} THEN Min(at) ELSE 0
BY DEF ChunkAt, SelectInSeq

\* The loop of dealloc() finds a chunk that starts at the offset if there is one,
\* and none otherwise.
LEMMA ChunkAtUnique ==
    ASSUME NEW list \in Seq(Chunk), NEW offset \in Nat
    PROVE  LET at == {i \in 1..Len(list) : list[i].start = offset}
           IN  /\ at # {} => ChunkAt(list, offset) \in at
               /\ at = {} => ChunkAt(list, offset) = 0
<1> DEFINE at == {i \in 1..Len(list) : list[i].start = offset}
<1>1. ChunkAt(list, offset) = IF at # {} THEN Min(at) ELSE 0
  BY ChunkAtFirst
<1>2. at \subseteq Nat
  OBVIOUS
<1> HIDE DEF at
<1>3. at # {} => Min(at) \in at
  <2> SUFFICES ASSUME at # {} PROVE Min(at) \in at
    OBVIOUS
  <2>1. \E x \in at : \A y \in at : x <= y
    BY <1>2, LeastNat
  <2> QED
    BY <2>1 DEF Min
<1> QED
  BY <1>1, <1>3 DEF at

\* The chunk alloc() picks is one of those that fit.
LEMMA BestFitFits ==
    ASSUME NEW list \in Seq(Chunk), NEW size \in Nat, Fitting(list, size) # {}
    PROVE  BestFit(list, size) \in Fitting(list, size)
<1> DEFINE F == Fitting(list, size)
<1>1. F \subseteq Nat /\ \A i \in F : list[i].size \in Nat
  BY ChunkFields DEF Fitting
<1> HIDE DEF F
<1>2. PICK s \in {list[i].size : i \in F} : \A t \in {list[i].size : i \in F} : s <= t
  <2>1. {list[i].size : i \in F} \subseteq Nat /\ {list[i].size : i \in F} # {}
    BY <1>1 DEF F
  <2> QED
    BY <2>1, LeastNat
<1>3. PICK i \in {j \in F : list[j].size = s} : \A j \in {k \in F : list[k].size = s} : i <= j
  <2>1. {j \in F : list[j].size = s} \subseteq Nat /\ {j \in F : list[j].size = s} # {}
    BY <1>1, <1>2
  <2> QED
    BY <2>1, LeastNat
<1>4. i \in F /\ list[i].size = s /\ s \in Nat
  BY <1>1, <1>3
<1>5. ASSUME NEW j \in F
      PROVE  \/ list[i].size < list[j].size
             \/ list[i].size = list[j].size /\ i <= j
  <2>1. s <= list[j].size /\ list[j].size \in Nat
    BY <1>1, <1>2
  <2>2. list[j].size = s => i <= j
    BY <1>3
  <2> QED
    BY <1>4, <2>1, <2>2
<1>6. \E k \in F : \A j \in F :
         \/ list[k].size < list[j].size
         \/ list[k].size = list[j].size /\ k <= j
  BY <1>4, <1>5
<1> QED
  BY <1>6 DEF BestFit, F

(* One chunk that is not empty, and aligned if it is in use.               *)
LEMMA SingletonSegment ==
    ASSUME NEW c \in Chunk, c.size > 0, ~c.free => c.start % PageUnits = 0
    PROVE  Segment(<<c>>) /\ Len(<<c>>) = 1 /\ <<c>>[1] = c
<1>1. /\ <<c>> \in Seq(Chunk) /\ Len(<<c>>) = 1 /\ <<c>>[1] = c
      /\ \A k \in 1..1 : k = 1
  OBVIOUS
<1>2. \A k \in 1..1 : <<c>>[k] = c
  BY <1>1
<1>3. NoneEmpty(<<c>>) /\ Aligned(<<c>>)
  BY <1>1, <1>2 DEF NoneEmpty, Aligned
<1>4. Adjoining(<<c>>) /\ Ordered(<<c>>) /\ Coalesced(<<c>>)
  BY <1>1 DEF Adjoining, Ordered, Coalesced
<1> QED
  BY <1>1, <1>3, <1>4 DEF Segment

(* s continues r.                                                          *)
Continues(r, s) ==
    /\ End(r[Len(r)]) = s[1].start
    /\ ~(r[Len(r)].free /\ s[1].free)

\* Two segments that meet tile their union.
LEMMA ConcatSegment ==
    ASSUME NEW r, NEW s, Segment(r), Segment(s), Continues(r, s)
    PROVE  /\ Segment(r \o s)
           /\ (r \o s)[1] = r[1]
           /\ (r \o s)[Len(r \o s)] = s[Len(s)]
<1> DEFINE n == Len(r)
           m == Len(s)
           new == r \o s
<1>1. /\ r \in Seq(Chunk) /\ s \in Seq(Chunk)
      /\ n > 0 /\ m > 0
  BY DEF Segment
<1>2. /\ n \in Nat /\ m \in Nat
      /\ new \in Seq(Chunk)
      /\ Len(new) = n + m
      /\ \A k \in 1..n : new[k] = r[k]
      /\ \A k \in 1..m : new[n + k] = s[k]
  BY <1>1, ConcatElements
<1>3. /\ \A k \in 1..n : r[k].start \in Nat /\ r[k].size \in Nat
      /\ \A k \in 1..m : s[k].start \in Nat /\ s[k].size \in Nat
  BY <1>1, ChunkFields
<1>4. End(r[n]) = s[1].start /\ ~(r[n].free /\ s[1].free)
  BY DEF Continues
<1> HIDE DEF n, m, new
<1>5. ASSUME NEW k \in 1..(n + m)
      PROVE  \/ k \in 1..n /\ new[k] = r[k]
             \/ \E i \in 1..m : k = n + i /\ new[k] = s[i]
  <2>1. CASE k <= n
    BY <1>2, <2>1
  <2>2. CASE k > n
    <3>1. k - n \in 1..m /\ k = n + (k - n)
      BY <1>2, <2>2
    <3> QED
      BY <1>2, <3>1
  <2> QED
    BY <1>2, <2>1, <2>2
<1>6. NoneEmpty(new) /\ Aligned(new)
  <2>1. /\ \A i \in 1..n : /\ r[i].size > 0
                           /\ ~r[i].free => r[i].start % PageUnits = 0
        /\ \A i \in 1..m : /\ s[i].size > 0
                           /\ ~s[i].free => s[i].start % PageUnits = 0
    BY DEF Segment, NoneEmpty, Aligned, n, m
  <2>2. ASSUME NEW k \in 1..(n + m)
        PROVE  new[k].size > 0 /\ (~new[k].free => new[k].start % PageUnits = 0)
    BY <1>5, <2>1
  <2> QED
    BY <1>2, <2>2 DEF NoneEmpty, Aligned
<1>7. ASSUME NEW k \in 1..(n + m - 1)
      PROVE  End(new[k]) = new[k + 1].start /\ ~(new[k].free /\ new[k + 1].free)
  <2>1. /\ \A i \in 1..(n - 1) : /\ End(r[i]) = r[i + 1].start
                                 /\ ~(r[i].free /\ r[i + 1].free)
        /\ \A i \in 1..(m - 1) : /\ End(s[i]) = s[i + 1].start
                                 /\ ~(s[i].free /\ s[i + 1].free)
    BY DEF Segment, Adjoining, Coalesced, n, m
  <2>2. CASE k < n
    <3>1. k \in 1..(n - 1) /\ k \in 1..n /\ k + 1 \in 1..n
      BY <1>2, <2>2
    <3> QED
      BY <1>2, <2>1, <3>1
  <2>3. CASE k = n
    <3>1. new[k] = r[n]
      BY <1>1, <1>2, <2>3
    <3>2. new[k + 1] = s[1]
      BY <1>1, <1>2, <2>3
    <3> QED
      BY <1>4, <3>1, <3>2, Zenon
  <2>4. CASE k > n
    <3> DEFINE i == k - n
    <3>1. /\ i \in 1..(m - 1) /\ i \in 1..m /\ i + 1 \in 1..m
          /\ k = n + i /\ k + 1 = n + (i + 1)
      BY <1>2, <2>4
    <3> HIDE DEF i
    <3>2. new[k] = s[i] /\ new[k + 1] = s[i + 1]
      BY <1>2, <3>1
    <3> QED
      BY <2>1, <3>1, <3>2
  <2> QED
    BY <1>2, <2>2, <2>3, <2>4
<1>8. Adjoining(new) /\ Coalesced(new)
  BY <1>2, <1>7 DEF Adjoining, Coalesced
<1>9. ASSUME NEW j \in 1..(n + m), NEW k \in 1..(n + m), j < k
      PROVE  End(new[j]) <= new[k].start
  <2>1. /\ \A i, l \in 1..n : i < l => End(r[i]) <= r[l].start
        /\ \A i, l \in 1..m : i < l => End(s[i]) <= s[l].start
    BY DEF Segment, Ordered, n, m
  <2>2. CASE k <= n
    <3>1. j \in 1..n /\ k \in 1..n
      BY <1>2, <1>9, <2>2
    <3>2. new[j] = r[j] /\ new[k] = r[k]
      BY <1>2, <3>1
    <3> QED
      BY <1>9, <2>1, <3>1, <3>2
  <2>3. CASE j > n
    <3>1. j - n \in 1..m /\ k - n \in 1..m /\ j - n < k - n
      BY <1>2, <1>9, <2>3
    <3>2. new[n + (j - n)] = s[j - n] /\ new[n + (k - n)] = s[k - n]
      BY <1>2, <3>1
    <3>3. n + (j - n) = j /\ n + (k - n) = k
      BY <1>2
    <3> QED
      BY <2>1, <3>1, <3>2, <3>3
  <2>4. CASE j <= n /\ k > n
    <3>1. j \in 1..n /\ n \in 1..n /\ 1 \in 1..m /\ k - n \in 1..m
      BY <1>1, <1>2, <2>4
    <3>2. new[j] = r[j] /\ new[k] = s[k - n]
      <4>1. new[n + (k - n)] = s[k - n] /\ n + (k - n) = k
        BY <1>2, <3>1
      <4> QED
        BY <1>2, <3>1, <4>1
    <3>3. /\ r[j].start \in Nat /\ r[j].size \in Nat
          /\ r[n].start \in Nat /\ r[n].size \in Nat
          /\ s[1].start \in Nat /\ s[1].size \in Nat
          /\ s[k - n].start \in Nat
      BY <1>3, <3>1
    <3>4. /\ End(r[j]) \in Nat /\ End(r[n]) \in Nat /\ End(s[1]) \in Nat
          /\ r[n].start <= End(r[n]) /\ s[1].start <= End(s[1])
      BY <3>3 DEF End
    <3>5. End(r[j]) <= End(r[n])
      <4>1. j = n \/ j < n
        BY <1>2, <2>4
      <4>2. j < n => End(r[j]) <= r[n].start
        BY <2>1, <3>1
      <4> QED
        BY <3>3, <3>4, <4>1, <4>2
    <3>6. s[1].start <= s[k - n].start
      <4>1. k - n = 1 \/ 1 < k - n
        BY <3>1
      <4>2. 1 < k - n => End(s[1]) <= s[k - n].start
        BY <2>1, <3>1
      <4> QED
        BY <3>3, <3>4, <4>1, <4>2
    <3> QED
      BY <1>4, <3>2, <3>3, <3>4, <3>5, <3>6
  <2> QED
    BY <1>2, <2>2, <2>3, <2>4
<1>10. Ordered(new)
  BY <1>2, <1>9 DEF Ordered
<1>11. new[1] = r[1] /\ new[Len(new)] = s[m]
  BY <1>1, <1>2
<1> QED
  BY <1>1, <1>2, <1>6, <1>8, <1>10, <1>11 DEF Segment, new, m

(* The regions in use before chunk lo and after chunk hi.                  *)
UsedOutside(list, lo, hi) ==
    {Region(list[i]) : i \in {j \in 1..Len(list) : (j < lo \/ hi < j) /\ ~list[j].free}}

(* What is used in a spliced list: what was used outside the run that is   *)
(* replaced, and what is used in its replacement.                          *)
LEMMA SpliceUsed ==
    ASSUME NEW list \in Seq(Chunk), NEW lo \in 1..Len(list), NEW hi \in lo..Len(list),
           NEW mid \in Seq(Chunk)
    PROVE  Used(Splice(list, lo, hi, mid)) = UsedOutside(list, lo, hi) \cup Used(mid)
<1> DEFINE m == Len(mid)
           n == Len(list)
           w == hi - lo + 1 - m
           new == Splice(list, lo, hi, mid)
           out == UsedOutside(list, lo, hi)
<1>1. /\ new \in Seq(Chunk)
      /\ Len(new) = n - w
      /\ \A k \in 1..(n - w) :
           /\ k < lo => new[k] = list[k]
           /\ lo <= k /\ k < lo + m => new[k] = mid[k - lo + 1]
           /\ lo + m <= k => new[k] = list[k + w]
  <2>1. IsSplice(new, list, lo, hi, mid)
    BY SpliceElements
  <2> QED
    BY <2>1 DEF IsSplice
<1>2. n \in Nat /\ m \in Nat
  BY ChunkFields
<1> HIDE DEF new, n, m
<1>3. lo \in 1..n /\ hi \in lo..n /\ w \in Int
  BY <1>2 DEF n, UsedOutside
<1>4. ASSUME NEW r \in Used(new)
      PROVE  r \in out \cup Used(mid)
  <2>1. PICK k \in 1..(n - w) : ~new[k].free /\ r = Region(new[k])
    BY <1>1 DEF Used
  <2>2. CASE k < lo
    <3>1. k \in 1..n /\ new[k] = list[k]
      BY <1>1, <1>2, <1>3, <2>2
    <3> QED
      BY <2>1, <2>2, <3>1 DEF n, UsedOutside
  <2>3. CASE lo <= k /\ k < lo + m
    <3>1. k - lo + 1 \in 1..m /\ new[k] = mid[k - lo + 1]
      BY <1>1, <1>2, <1>3, <2>3
    <3> QED
      BY <2>1, <3>1 DEF Used, m
  <2>4. CASE lo + m <= k
    <3>1. k + w \in 1..n /\ hi < k + w /\ new[k] = list[k + w]
      BY <1>1, <1>2, <1>3, <2>4
    <3> QED
      BY <2>1, <3>1 DEF n, UsedOutside
  <2> QED
    BY <1>2, <1>3, <2>2, <2>3, <2>4
<1>5. ASSUME NEW r \in out
      PROVE  r \in Used(new)
  <2>1. PICK j \in 1..n : (j < lo \/ hi < j) /\ ~list[j].free /\ r = Region(list[j])
    BY DEF n, UsedOutside
  <2>2. CASE j < lo
    <3>1. j \in 1..(n - w) /\ new[j] = list[j]
      BY <1>1, <1>2, <1>3, <2>2
    <3> QED
      BY <1>1, <2>1, <3>1 DEF Used
  <2>3. CASE hi < j
    <3>1. j - w \in 1..(n - w) /\ lo + m <= j - w /\ (j - w) + w = j
      BY <1>2, <1>3, <2>3
    <3>2. new[j - w] = list[j]
      BY <1>1, <3>1
    <3> QED
      BY <1>1, <2>1, <3>1, <3>2 DEF Used
  <2> QED
    BY <2>1, <2>2, <2>3
<1>6. ASSUME NEW r \in Used(mid)
      PROVE  r \in Used(new)
  <2>1. PICK i \in 1..m : ~mid[i].free /\ r = Region(mid[i])
    BY DEF Used, m
  <2>2. /\ lo + i - 1 \in 1..(n - w) /\ lo <= lo + i - 1 /\ lo + i - 1 < lo + m
        /\ (lo + i - 1) - lo + 1 = i
    BY <1>2, <1>3
  <2>3. new[lo + i - 1] = mid[i]
    BY <1>1, <2>2
  <2> QED
    BY <1>1, <2>1, <2>2, <2>3 DEF Used
<1> HIDE DEF out
<1>7. Used(new) = out \cup Used(mid)
  BY <1>4, <1>5, <1>6
<1> QED
  BY <1>7 DEF new, out

\* The chunks in use of two lists put together are those of either.
LEMMA ConcatUsed ==
    ASSUME NEW r \in Seq(Chunk), NEW s \in Seq(Chunk)
    PROVE  Used(r \o s) = Used(r) \cup Used(s)
<1> DEFINE n == Len(r)
           m == Len(s)
           new == r \o s
<1>1. /\ n \in Nat /\ m \in Nat
      /\ new \in Seq(Chunk)
      /\ Len(new) = n + m
      /\ \A k \in 1..n : new[k] = r[k]
      /\ \A k \in 1..m : new[n + k] = s[k]
  BY ConcatElements
<1> HIDE DEF n, m, new
<1>2. ASSUME NEW u \in Used(new)
      PROVE  u \in Used(r) \cup Used(s)
  <2>1. PICK k \in 1..(n + m) : ~new[k].free /\ u = Region(new[k])
    BY <1>1 DEF Used
  <2>2. CASE k <= n
    <3>1. k \in 1..n /\ new[k] = r[k]
      BY <1>1, <2>2
    <3> QED
      BY <2>1, <3>1 DEF Used, n
  <2>3. CASE k > n
    <3>1. k - n \in 1..m /\ n + (k - n) = k
      BY <1>1, <2>3
    <3>2. new[k] = s[k - n]
      BY <1>1, <3>1
    <3> QED
      BY <2>1, <3>1, <3>2 DEF Used, m
  <2> QED
    BY <1>1, <2>2, <2>3
<1>3. ASSUME NEW u \in Used(r)
      PROVE  u \in Used(new)
  <2>1. PICK k \in 1..n : ~r[k].free /\ u = Region(r[k])
    BY DEF Used, n
  <2>2. k \in 1..(n + m) /\ new[k] = r[k]
    BY <1>1
  <2> QED
    BY <1>1, <2>1, <2>2 DEF Used
<1>4. ASSUME NEW u \in Used(s)
      PROVE  u \in Used(new)
  <2>1. PICK k \in 1..m : ~s[k].free /\ u = Region(s[k])
    BY DEF Used, m
  <2>2. n + k \in 1..(n + m) /\ new[n + k] = s[k]
    BY <1>1
  <2> QED
    BY <1>1, <2>1, <2>2 DEF Used
<1> QED
  BY <1>2, <1>3, <1>4 DEF new

\* A list of one chunk has that chunk in use or none.
LEMMA SingletonUsed ==
    ASSUME NEW c \in Chunk
    PROVE  Used(<<c>>) = IF c.free THEN {} ELSE {Region(c)}
<1>1. Len(<<c>>) = 1 /\ <<c>>[1] = c /\ \A k \in 1..1 : k = 1
  OBVIOUS
<1>2. CASE c.free
  <2>1. {j \in 1..Len(<<c>>) : ~<<c>>[j].free} = {}
    BY <1>1, <1>2
  <2> QED
    BY <1>2, <2>1 DEF Used
<1>3. CASE ~c.free
  <2>1. {j \in 1..Len(<<c>>) : ~<<c>>[j].free} = {1}
    BY <1>1, <1>3
  <2> QED
    BY <1>1, <1>3, <2>1 DEF Used
<1> QED
  BY <1>2, <1>3

\* An empty list has no chunk in use.
LEMMA EmptyUsed == Used(<<>>) = {}
BY DEF Used

(* What Carve splices in covers the units of the chunk it replaces.        *)
LEMMA CarveReplaces ==
    ASSUME NEW list, Segment(list), NEW i \in 1..Len(list), NEW size \in Nat \ {0},
           Fits(list[i], size)
    PROVE  \E mid :
             /\ Replaces(mid, list, i, i)
             /\ Carve(list, i, size) = Splice(list, i, i, mid)
             /\ Used(mid) = {[off |-> list[i].start + Extra(list[i].start), size |-> size]}
<1> DEFINE c == list[i]
           extra == Extra(c.start)
           start == c.start + extra
           tail_free == c.size - (size + extra)
           taken == [start |-> start, size |-> size, free |-> FALSE]
           h == NewChunk(c.start, extra)
           t == NewChunk(start + size, tail_free)
           head == IF extra > 0 THEN <<h>> ELSE <<>>
           tail == IF tail_free > 0 THEN <<t>> ELSE <<>>
           mid == head \o (<<taken>> \o tail)
<1>1. /\ list \in Seq(Chunk) /\ Len(list) \in Nat
      /\ c.start \in Nat /\ c.size \in Nat /\ c.free
      /\ c.size >= size + extra
  BY ChunkFields DEF Segment, Fits
<1>2. extra \in Nat /\ start % PageUnits = 0
  BY <1>1, ExtraBound
<1>3. start \in Nat /\ tail_free \in Nat
  <2> HIDE DEF c, extra
  <2> QED
    BY <1>1, <1>2
<1>4. /\ (i = 1 \/ ~list[i - 1].free)
      /\ (i = Len(list) \/ ~list[i + 1].free)
  <2>1. \A k \in 1..(Len(list) - 1) : ~(list[k].free /\ list[k + 1].free)
    BY DEF Segment, Coalesced
  <2>2. i # 1 => i - 1 \in 1..(Len(list) - 1) /\ (i - 1) + 1 = i
    BY <1>1
  <2>3. i # Len(list) => i \in 1..(Len(list) - 1)
    BY <1>1
  <2> QED
    BY <1>1, <2>1, <2>2, <2>3
<1>5. /\ extra = 0 => start = c.start
      /\ c.start + extra = start
      /\ tail_free = 0 => start + size = c.start + c.size
      /\ (start + size) + tail_free = c.start + c.size
  <2> HIDE DEF c, extra
  <2> QED
    BY <1>1, <1>2
<1>6. /\ h = [start |-> c.start, size |-> extra, free |-> TRUE]
      /\ t = [start |-> start + size, size |-> tail_free, free |-> TRUE]
  BY DEF NewChunk
<1>7. h \in Chunk /\ t \in Chunk /\ taken \in Chunk
  <2>1. start + size \in Nat
    BY <1>3
  <2> HIDE DEF c, extra, start, tail_free, h, t
  <2>2. h \in Chunk
    BY <1>1, <1>2, <1>6 DEF Chunk
  <2>3. t \in Chunk
    BY <1>3, <1>6, <2>1 DEF Chunk
  <2>4. taken \in Chunk
    BY <1>3 DEF Chunk
  <2> QED
    BY <2>2, <2>3, <2>4
<1>8. Carve(list, i, size) = Splice(list, i, i, mid)
  BY DEF Carve
<1> HIDE DEF c, extra, start, tail_free, h, t
<1>9. /\ Segment(<<taken>>) /\ Len(<<taken>>) = 1 /\ <<taken>>[1] = taken
  <2>1. taken.size > 0 /\ taken.start % PageUnits = 0
    BY <1>2
  <2> HIDE DEF taken
  <2> QED
    BY <1>7, <2>1, SingletonSegment
<1> DEFINE given == [off |-> start, size |-> size]
<1>7a. /\ Used(<<taken>>) = {given}
       /\ Used(head) = {} /\ head \in Seq(Chunk)
       /\ Used(tail) = {} /\ tail \in Seq(Chunk)
  <2>1. Used(<<taken>>) = {given}
    BY <1>7, SingletonUsed DEF Region
  <2>2. h.free /\ t.free
    BY <1>6
  <2>3. Used(<<h>>) = {} /\ Used(<<t>>) = {}
    BY <1>7, <2>2, SingletonUsed
  <2>4. <<h>> \in Seq(Chunk) /\ <<t>> \in Seq(Chunk) /\ <<>> \in Seq(Chunk)
    BY <1>7
  <2>5. /\ head = <<h>> \/ head = <<>>
        /\ tail = <<t>> \/ tail = <<>>
    OBVIOUS
  <2> HIDE DEF head, tail, taken, given
  <2> QED
    BY <2>1, <2>3, <2>4, <2>5, EmptyUsed
<1>7b. Used(mid) = {given}
  <2> HIDE DEF taken, head, tail
  <2>1. <<taken>> \in Seq(Chunk)
    BY <1>7
  <2>2. <<taken>> \o tail \in Seq(Chunk) /\ Used(<<taken>> \o tail) = {given}
    BY <1>7a, <2>1, ConcatUsed, ConcatElements
  <2> DEFINE q == <<taken>> \o tail
  <2> HIDE DEF q
  <2>3. Used(head \o q) = Used(head) \cup Used(q)
    BY <1>7a, <2>2, ConcatUsed DEF q
  <2> QED
    BY <1>7a, <2>2, <2>3 DEF q
<1> HIDE DEF given
<1> DEFINE rest == <<taken>> \o tail
<1> DEFINE last == rest[Len(rest)]
<1>10. /\ Segment(rest)
       /\ rest[1] = taken
       /\ End(last) = End(c)
  <2>1. CASE tail_free > 0
    <3>1. tail = <<t>>
      BY <2>1
    <3>2. Segment(<<t>>) /\ Len(<<t>>) = 1 /\ <<t>>[1] = t
      BY <1>6, <1>7, <2>1, SingletonSegment
    <3>3. Continues(<<taken>>, <<t>>)
      BY <1>6, <1>9, <3>2 DEF Continues, End
    <3>4. Segment(rest) /\ rest[1] = taken /\ last = t
      BY <1>9, <3>1, <3>2, <3>3, ConcatSegment
    <3> QED
      BY <1>5, <1>6, <3>4 DEF End
  <2>2. CASE tail_free = 0
    <3>1. rest = <<taken>>
      <4>1. tail = <<>>
        BY <2>2
      <4>2. <<taken>> \in Seq(Chunk)
        BY <1>7
      <4> QED
        BY <4>1, <4>2, ConcatEmptySeq
    <3>2. last = taken /\ Segment(rest) /\ rest[1] = taken
      BY <1>9, <3>1
    <3> QED
      BY <1>5, <2>2, <3>2 DEF End
  <2> QED
    BY <1>3, <2>1, <2>2
<1>11. taken.start = start /\ ~taken.free
  OBVIOUS
<1> HIDE DEF rest, taken, last
<1>12. /\ Segment(mid)
       /\ mid[1].start = c.start
       /\ mid[Len(mid)] = last
  <2>1. mid = head \o rest
    BY DEF rest
  <2>2. CASE extra > 0
    <3>1. head = <<h>>
      BY <2>2
    <3>2. Segment(<<h>>) /\ Len(<<h>>) = 1 /\ <<h>>[1] = h
      BY <1>6, <1>7, <2>2, SingletonSegment
    <3>3. Continues(<<h>>, rest)
      BY <1>5, <1>6, <1>10, <1>11, <3>2 DEF Continues, End
    <3>4. mid = <<h>> \o rest
      BY <2>1, <3>1
    <3> HIDE DEF mid
    <3>5. Segment(mid) /\ mid[1] = h /\ mid[Len(mid)] = last
      BY <1>10, <3>2, <3>3, <3>4, ConcatSegment DEF last
    <3> QED
      BY <1>6, <3>5
  <2>3. CASE extra = 0
    <3>1. mid = rest
      <4>1. head = <<>>
        BY <2>3
      <4>2. rest \in Seq(Chunk)
        BY <1>10 DEF Segment
      <4> QED
        BY <2>1, <4>1, <4>2, ConcatEmptySeq
    <3> QED
      BY <1>5, <1>10, <1>11, <2>3, <3>1 DEF last
  <2> QED
    BY <1>2, <2>2, <2>3
<1> HIDE DEF mid
<1>13. Replaces(mid, list, i, i)
  BY <1>4, <1>10, <1>12 DEF Replaces, c
<1> QED
  BY <1>8, <1>13, <1>7b DEF given, start, extra, c

\* What alloc() makes of a list: it still tiles the same range, and the region it
\* hands out is the one chunk that is used now and was not before.
LEMMA CarveSegment ==
    ASSUME NEW list, Segment(list), NEW i \in 1..Len(list), NEW size \in Nat \ {0},
           Fits(list[i], size), NEW new, new = Carve(list, i, size)
    PROVE  /\ Segment(new)
           /\ new[1].start = list[1].start
           /\ End(new[Len(new)]) = End(list[Len(list)])
           /\ Used(new) = Used(list) \cup
                 {[off |-> list[i].start + Extra(list[i].start), size |-> size]}
<1>1. PICK mid : /\ Replaces(mid, list, i, i)
                 /\ new = Splice(list, i, i, mid)
                 /\ Used(mid) = {[off |-> list[i].start + Extra(list[i].start), size |-> size]}
  BY CarveReplaces
<1>2. /\ list \in Seq(Chunk) /\ Len(list) \in Nat /\ mid \in Seq(Chunk)
      /\ list[i].free /\ i \in i..Len(list)
  BY <1>1, ChunkFields DEF Segment, Replaces, Fits
<1>3. UsedOutside(list, i, i) = Used(list)
  <2>1. {j \in 1..Len(list) : (j < i \/ i < j) /\ ~list[j].free}
            = {j \in 1..Len(list) : ~list[j].free}
    BY <1>2
  <2> QED
    BY <2>1 DEF UsedOutside, Used
<1>4. Used(new) = Used(list) \cup Used(mid)
  BY <1>1, <1>2, <1>3, SpliceUsed
<1>5. /\ Segment(new)
      /\ new[1].start = list[1].start
      /\ End(new[Len(new)]) = End(list[Len(list)])
  BY <1>1, <1>2, SpliceSegment
<1> QED
  BY <1>1, <1>4, <1>5

(* Chunks in different places are different regions.                       *)
LEMMA DistinctRegions ==
    ASSUME NEW list, Segment(list), NEW i \in 1..Len(list), NEW j \in 1..Len(list), i # j
    PROVE  list[i].start # list[j].start
<1>1. /\ list[i].start \in Nat /\ list[i].size \in Nat /\ list[i].size > 0
      /\ list[j].start \in Nat /\ list[j].size \in Nat /\ list[j].size > 0
      /\ Len(list) \in Nat
  BY ChunkFields DEF Segment, NoneEmpty
<1>2. /\ i < j => list[i].start + list[i].size <= list[j].start
      /\ j < i => list[j].start + list[j].size <= list[i].start
  BY DEF Segment, Ordered, End
<1>3. i < j \/ j < i
  BY <1>1
<1> QED
  BY <1>1, <1>2, <1>3

(* Releasing a chunk in use keeps the list a segment of the same units, in *)
(* which that chunk's region alone is no longer used.                      *)
LEMMA ReleaseSegment ==
    ASSUME NEW list, Segment(list), NEW i \in 1..Len(list), ~list[i].free,
           NEW new, new = Release(list, i)
    PROVE  /\ Segment(new)
           /\ new[1].start = list[1].start
           /\ End(new[Len(new)]) = End(list[Len(list)])
           /\ Used(new) = Used(list) \ {Region(list[i])}
<1> DEFINE n == Len(list)
           lo == IF i > 1 /\ list[i - 1].free THEN i - 1 ELSE i
           hi == IF i < n /\ list[i + 1].free THEN i + 1 ELSE i
           before == IF lo < i THEN list[lo].size ELSE 0
           after == IF i < hi THEN list[hi].size ELSE 0
           size == before + list[i].size + after
           merged == NewChunk(list[lo].start, size)
<1>1. /\ list \in Seq(Chunk) /\ n \in Nat /\ n > 0
      /\ \A k \in 1..n : /\ list[k].start \in Nat /\ list[k].size \in Nat
                         /\ list[k].free \in BOOLEAN /\ list[k].size > 0
  BY ChunkFields DEF Segment, NoneEmpty
<1>2. new = Splice(list, lo, hi, <<merged>>)
  BY DEF Release
<1> HIDE DEF n
<1>3. /\ i \in 1..n
      /\ \A k \in 1..(n - 1) : /\ list[k].start + list[k].size = list[k + 1].start
                               /\ ~(list[k].free /\ list[k + 1].free)
  BY DEF Segment, Adjoining, Coalesced, End, n
<1>4. /\ lo \in 1..n
      /\ lo = i \/ (lo = i - 1 /\ list[lo].free)
      /\ list[lo].start + before = list[i].start
      /\ lo = 1 \/ ~list[lo - 1].free
      /\ before \in Nat
  <2>1. CASE i > 1 /\ list[i - 1].free
    <3>1. lo = i - 1 /\ lo \in 1..n /\ lo < i /\ lo \in 1..(n - 1) /\ lo + 1 = i
      BY <1>1, <1>3, <2>1
    <3>2. lo # 1 => lo - 1 \in 1..(n - 1) /\ (lo - 1) + 1 = lo
      BY <1>1, <3>1
    <3>3. before = list[lo].size /\ list[lo].free
      BY <2>1, <3>1
    <3> HIDE DEF lo, before
    <3> QED
      BY <1>1, <1>3, <3>1, <3>2, <3>3
  <2>2. CASE ~(i > 1 /\ list[i - 1].free)
    <3>1. lo = i /\ before = 0 /\ (i = 1 \/ ~list[i - 1].free)
      BY <1>1, <1>3, <2>2
    <3> HIDE DEF lo, before
    <3> QED
      BY <1>1, <1>3, <3>1
  <2> QED
    BY <2>1, <2>2
<1>5. /\ hi \in lo..n /\ hi \in 1..n
      /\ hi = i \/ (hi = i + 1 /\ list[hi].free)
      /\ list[i].start + list[i].size + after = list[hi].start + list[hi].size
      /\ hi = n \/ ~list[hi + 1].free
      /\ after \in Nat
  <2>1. CASE i < n /\ list[i + 1].free
    <3>1. hi = i + 1 /\ hi \in 1..n /\ i < hi /\ i \in 1..(n - 1)
      BY <1>1, <1>3, <2>1
    <3>2. hi # n => hi \in 1..(n - 1)
      BY <1>1, <3>1
    <3>3. after = list[hi].size /\ list[hi].free
      BY <2>1, <3>1
    <3> HIDE DEF lo, hi, before, after
    <3>4. list[i].start + list[i].size = list[hi].start /\ hi >= lo
      BY <1>1, <1>3, <1>4, <3>1
    <3>5. hi = n \/ ~list[hi + 1].free
      BY <1>3, <3>2, <3>3
    <3>6. /\ hi \in lo..n
          /\ list[i].start + list[i].size + after = list[hi].start + list[hi].size
          /\ after \in Nat
      BY <1>1, <1>4, <3>1, <3>3, <3>4
    <3> QED
      BY <3>1, <3>3, <3>5, <3>6
  <2>2. CASE ~(i < n /\ list[i + 1].free)
    <3>1. hi = i /\ after = 0 /\ (i = n \/ ~list[i + 1].free)
      BY <1>1, <1>3, <2>2
    <3> HIDE DEF lo, hi, before, after
    <3> QED
      BY <1>1, <1>3, <1>4, <3>1
  <2> QED
    BY <2>1, <2>2
<1> HIDE DEF lo, hi, before, after
<1>6. /\ size \in Nat /\ size > 0
      /\ list[lo].start + size = list[hi].start + list[hi].size
  <2>1. /\ list[i].size \in Nat /\ list[i].size > 0 /\ list[i].start \in Nat
        /\ list[lo].start \in Nat /\ list[hi].start \in Nat /\ list[hi].size \in Nat
    BY <1>1, <1>3, <1>4, <1>5
  <2>2. size = before + list[i].size + after
    OBVIOUS
  <2> HIDE DEF size
  <2>3. before \in Nat /\ after \in Nat /\ list[lo].start + before = list[i].start
    BY <1>4, <1>5
  <2>4. size \in Nat /\ size > 0
    BY <2>1, <2>2, <2>3
  <2>5. list[lo].start + size = list[i].start + list[i].size + after
    <3> DEFINE a == list[lo].start
               s == list[i].size
    <3>1. a \in Nat /\ s \in Nat /\ list[i].start = a + before
      BY <2>1, <2>3
    <3>2. size = before + s + after
      BY <2>2
    <3> HIDE DEF a, s
    <3>3. a + (before + s + after) = (a + before) + s + after
      BY <2>3, <3>1
    <3>4. a + size = list[i].start + s + after
      BY <3>1, <3>2, <3>3
    <3> QED
      BY <3>4 DEF a, s
  <2> QED
    BY <1>5, <2>4, <2>5
<1> HIDE DEF size
<1>7. /\ merged \in Chunk
      /\ merged = [start |-> list[lo].start, size |-> size, free |-> TRUE]
  BY <1>1, <1>4, <1>6 DEF NewChunk, Chunk
<1> HIDE DEF merged
<1>8. Segment(<<merged>>) /\ Len(<<merged>>) = 1 /\ <<merged>>[1] = merged
  BY <1>6, <1>7, SingletonSegment
<1>9. Replaces(<<merged>>, list, lo, hi)
  BY <1>4, <1>5, <1>6, <1>7, <1>8 DEF Replaces, End, n
<1>10. /\ Segment(new)
       /\ new[1].start = list[1].start
       /\ End(new[Len(new)]) = End(list[Len(list)])
  BY <1>2, <1>4, <1>5, <1>9, SpliceSegment DEF n
<1>11. Used(<<merged>>) = {}
  BY <1>7, SingletonUsed
<1>12. Used(new) = UsedOutside(list, lo, hi)
  <2>1. <<merged>> \in Seq(Chunk)
    BY <1>7
  <2>2. lo \in 1..Len(list) /\ hi \in lo..Len(list)
    BY <1>4, <1>5 DEF n
  <2>3. Used(new) = UsedOutside(list, lo, hi) \cup Used(<<merged>>)
    <3>1. list \in Seq(Chunk)
      BY <1>1
    <3> DEFINE mid == <<merged>>
    <3> HIDE DEF mid
    <3>2. Used(Splice(list, lo, hi, mid)) = UsedOutside(list, lo, hi) \cup Used(mid)
      <4>1. mid \in Seq(Chunk)
        BY <2>1 DEF mid
      <4> QED
        BY <2>2, <3>1, <4>1, SpliceUsed
    <3> QED
      BY <1>2, <3>2 DEF mid
  <2> QED
    BY <1>11, <2>3
<1>13. ASSUME NEW j \in 1..n, ~list[j].free
       PROVE  (j < lo \/ hi < j) <=> j # i
  <2>1. j # lo \/ lo = i
    BY <1>4, <1>13
  <2>2. j # hi \/ hi = i
    BY <1>5, <1>13
  <2>3. lo = i \/ lo = i - 1
    BY <1>4
  <2>4. hi = i \/ hi = i + 1
    BY <1>5
  <2> QED
    BY <1>1, <1>3, <2>1, <2>2, <2>3, <2>4
<1>14. Used(new) = {Region(list[k]) : k \in {j \in 1..n : j # i /\ ~list[j].free}}
  <2>1. {j \in 1..n : (j < lo \/ hi < j) /\ ~list[j].free} = {j \in 1..n : j # i /\ ~list[j].free}
    BY <1>13
  <2> QED
    BY <1>12, <2>1 DEF UsedOutside, n
<1>15. ASSUME NEW j \in 1..n, j # i
       PROVE  Region(list[j]) # Region(list[i])
  BY <1>3, <1>15, DistinctRegions DEF Region, n
<1>16. Used(new) = Used(list) \ {Region(list[i])}
  BY <1>14, <1>15 DEF Used, n
<1> QED
  BY <1>10, <1>16
=============================================================================
