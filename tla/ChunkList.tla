----------------------------- MODULE ChunkList -----------------------------
(***************************************************************************)
(* The chunk list of libgralloc's SimpleBestFitAllocator (allocator.cpp,   *)
(* allocator.h): what alloc() and dealloc() compute from a list, apart     *)
(* from the state machine that calls them.  Sizes and offsets are counted  *)
(* in units of kMemoryAlign bytes, as chunk_t counts them; the doubly      *)
(* linked list is the sequence of its nodes.                               *)
(***************************************************************************)
EXTENDS Integers, SequencesExt

CONSTANT
    PageUnits        \* pagesize / kMemoryAlign

ASSUME PageAssumption == PageUnits \in Nat \ {0}

Chunk == [start : Nat, size : Nat, free : BOOLEAN]

NewChunk(start, size) == [start |-> start, size |-> size, free |-> TRUE]

(* Mutants.  An operator whose name ends in _X<n> is a changed form of the *)
(* definition after it, the way a bug would change it; nothing uses it.    *)
(* Here the remainder is taken without the negation.                       *)
Extra_X1(start) == start % PageUnits

(* The units lost before the first page boundary at or after start.        *)
Extra(start) == (-start) % PageUnits

RoundUpToPage(size) == size + Extra(size)

(***************************************************************************)
(* alloc(): the scan keeps the smallest free chunk that holds the request  *)
(* once its head is page aligned, the first of several (the comparison is  *)
(* strict).  Leaving the scan at an exact fit changes nothing: no chunk    *)
(* that fits is smaller.                                                   *)
(***************************************************************************)
Fits_X1(c, size) == c.free /\ c.size >= size               \* the head is forgotten

Fits(c, size) == c.free /\ c.size >= size + Extra(c.start)

Fitting(list, size) == {i \in 1..Len(list) : Fits(list[i], size)}

BestFit(list, size) ==
    CHOOSE i \in Fitting(list, size) :
        \A j \in Fitting(list, size) :
            \/ list[i].size < list[j].size
            \/ list[i].size = list[j].size /\ i <= j

(* chunks lo to hi of the list replaced by those of mid: what the code     *)
(* does by writing a node's fields and calling insertBefore(),             *)
(* insertAfter() or remove() on its neighbours.                            *)
Splice(list, lo, hi, mid) ==
    SubSeq(list, 1, lo - 1) \o (mid \o SubSeq(list, hi + 1, Len(list)))

(* Take size units of chunk i, splitting off the unaligned head and the    *)
(* tail as free chunks.                                                    *)
Carve(list, i, size) ==
    LET c == list[i]
        extra == Extra(c.start)
        start == c.start + extra
        tail_free == c.size - (size + extra)
        taken == [start |-> start, size |-> size, free |-> FALSE]
        head == IF extra > 0 THEN <<NewChunk(c.start, extra)>> ELSE <<>>
        tail == IF tail_free > 0 THEN <<NewChunk(start + size, tail_free)>> ELSE <<>>
    IN  Splice(list, i, i, head \o (<<taken>> \o tail))

(***************************************************************************)
(* dealloc(): the chunk is marked free; it, and the free chunks after it,  *)
(* are merged into their predecessor where that is free.  Free chunks are  *)
(* never adjacent before the call (BestFitAllocator!NoAdjacentFree), so    *)
(* the loop visits chunk i and at most one successor.  No chunk is empty   *)
(* (BestFitAllocator!TypeOK), so the loop's !cur->size never decides.      *)
(***************************************************************************)
Release_X1(list, i) ==                     \* the chunk after it is not looked at
    LET lo == IF i > 1 /\ list[i - 1].free THEN i - 1 ELSE i
        size == (IF lo < i THEN list[lo].size ELSE 0) + list[i].size
    IN  Splice(list, lo, i, <<NewChunk(list[lo].start, size)>>)

Release(list, i) ==
    LET lo == IF i > 1 /\ list[i - 1].free THEN i - 1 ELSE i
        hi == IF i < Len(list) /\ list[i + 1].free THEN i + 1 ELSE i
        size == (IF lo < i THEN list[lo].size ELSE 0) + list[i].size
                    + (IF i < hi THEN list[hi].size ELSE 0)
    IN  Splice(list, lo, hi, <<NewChunk(list[lo].start, size)>>)

(* The first chunk that starts at offset; 0 when there is none.            *)
ChunkAt(list, offset) == SelectInSeq(list, LAMBDA c : c.start = offset)

(* The regions a list says are handed out.                                 *)
Region(c) == [off |-> c.start, size |-> c.size]

Used(list) == {Region(list[i]) : i \in {j \in 1..Len(list) : ~list[j].free}}
=============================================================================
