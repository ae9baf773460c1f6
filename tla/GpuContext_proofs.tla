------------------------- MODULE GpuContext_proofs --------------------------
(***************************************************************************)
(* The invariants of GpuContext, in two layers.                            *)
(*                                                                         *)
(* IInv holds of every caller: the types of what there is, with what each  *)
(* place in a call says of the call (FitsAt); the module's lock is with    *)
(* the thread between lockModule() and unlockModule(); the first mapping   *)
(* of the framebuffer is the only one that starts a display loop; and      *)
(* every open descriptor and every mapped page has an owner, a handle or   *)
(* a call that will close or unmap it (Accounted, PagesOwned).             *)
(* NothingLeftBehind follows.                                              *)
(*                                                                         *)
(* MemoryIntact holds of every caller too: no page has two owners, and a   *)
(* page of a buffer is mapped for it, but for the pages in torn, which the *)
(* second munmap() of pmem of the kernel's allocator took from their       *)
(* owner; and OthersIntact says the same of other code's pages.            *)
(* MappingsIntact follows.                                                 *)
(*                                                                         *)
(* The slots need more of the callers than the code asks of them.          *)
(* freeSlot() loads and stores bufferMask without the lock, so SlotsHeld,  *)
(* the mask is what handles and threads giving slots back hold, is kept    *)
(* only where slots are freed while nothing else runs (SlotsFreedAlone).   *)
(***************************************************************************)
EXTENDS GpuContext, WellFoundedInduction, FiniteSetTheorems, TLAPS

AllKinds == {"fb", "pmem", "adsp", "ashmem"}

(* Buffers with memory of their own.                                       *)
MappedKinds == {"adsp", "ashmem"}

Locked == {"fb_map", "fb_mask", "take_load", "take_store", "fb_unlock"}
Freeing == {"fb_load", "fb_store", "unmap", "terminate", "close"}
PCs == {"idle", "fb_lock", "open", "map"} \cup Locked \cup Freeing

Handle == [id : Ids, kind : AllKinds, base : Nat, size : Sizes]

Calls == [kind : AllKinds \cup {"none"}, base : Nat, size : Sizes \cup {0}, loaded : SUBSET Nat]

ModuleTypes ==
    /\ framebuffer \in BOOLEAN
    /\ numBuffers \in Nat
    /\ bufferMask \subseteq Nat
    /\ displays \in Nat
    /\ abandoned \in Nat
    /\ lock \in Threads \cup {NoThread}

MemoryTypes ==
    /\ space \in [Addresses -> [kind : MappedKinds \cup {"nothing", "other"}, base : Nat]]
    /\ foreign \subseteq SUBSET Addresses
    /\ torn \subseteq Addresses

HandleTypes ==
    /\ handles \subseteq Handle
    /\ \A h \in handles : h.kind \in Kinds \cup {"pmem"}

(* What a call is about, by where it is.                                   *)
FitsAt(place, c) ==
    /\ place = "idle" => c = NoCall
    /\ place # "idle" => c.size \in Sizes /\ c.kind \in Kinds \cup {"pmem"}
    /\ place \in Locked \cup {"fb_lock", "fb_load", "fb_store"} => c.kind = "fb"
    /\ place \in {"open", "map", "terminate"} => c.kind # "fb"
    /\ place = "unmap" => c.kind \in MappedKinds

PlaceTypes ==
    /\ pc \in [Threads -> PCs]
    /\ call \in [Threads -> Calls]
    /\ \A t \in Threads : FitsAt(pc[t], call[t])

TypesCorrect == ModuleTypes /\ MemoryTypes /\ HandleTypes /\ PlaceTypes

LockHeld == \A t \in Threads : pc[t] \in Locked <=> lock = t

LeftAlone ==
    \A t \in Threads : pc[t] \in Freeing /\ call[t].kind \in AloneKinds =>
        \A u \in Threads \ {t} : pc[u] = "idle"

FirstMapping ==
    /\ displays <= 1
    /\ ~framebuffer =>
           /\ displays = 0
           /\ numBuffers = 0 /\ bufferMask = {}
           /\ \A h \in handles : h.kind # "fb"
           /\ \A t \in Threads : pc[t] \notin {"take_load", "take_store", "fb_load", "fb_store"}

(* The threads that are about to give their slot back.                     *)
GivingBack == {t \in Threads : pc[t] \in {"fb_load", "fb_store"}}

SlotsHeld ==
    /\ bufferMask = HeldSlots \cup {call[t].base : t \in GivingBack}
    /\ \A g, h \in SlotHandles : g.base = h.base => g = h
    /\ \A t \in GivingBack : call[t].base \notin HeldSlots
    /\ \A t \in Threads :
        /\ pc[t] \in {"take_load", "take_store"} => call[t].base \notin bufferMask
        /\ pc[t] \in {"take_store", "fb_store"} => call[t].loaded = bufferMask

Closing == {t \in Threads : pc[t] \in {"take_load", "take_store", "map", "fb_load",
                                       "fb_store", "unmap", "terminate", "close"}}

Accounted ==
    /\ IsFiniteSet(handles)
    /\ IsFiniteSet(Closing)
    /\ opened = Cardinality(handles) + Cardinality(Closing) + OpenDevice

(* What holds memory of its own: handles, and calls that will unmap it.    *)
Unmapping == {t \in Threads : pc[t] = "unmap"}
Holds(b, p) ==
    b.base = space[p].base /\ b.kind = space[p].kind
    /\ p \in Extent(b.base, MappedSize(b.kind, b.size))

PagesOwned ==
    \A p \in Addresses : space[p].kind \in MappedKinds =>
        \/ \E h \in handles : Holds(h, p)
        \/ \E t \in Unmapping : Holds(call[t], p)

Area(b) == Extent(b.base, MappedSize(b.kind, b.size))

Intact(b) ==
    b.kind \in MappedKinds =>
        \A p \in Area(b) :
            /\ p \in Addresses
            /\ p \notin torn => space[p] = [kind |-> b.kind, base |-> b.base]

Apart(b, c) ==
    b.kind \in MappedKinds /\ c.kind \in MappedKinds => Area(b) \cap Area(c) \subseteq torn

MemoryIntact ==
    /\ \A h \in handles : Intact(h)
    /\ \A t \in Unmapping : Intact(call[t])
    /\ \A g, h \in handles : g = h \/ Apart(g, h)
    /\ \A t, u \in Unmapping : t = u \/ Apart(call[t], call[u])
    /\ \A h \in handles, t \in Unmapping : Apart(h, call[t])

OthersIntact ==
    /\ \A range \in foreign : \A p \in range \ torn : space[p] = Other
    /\ \A P, Q \in foreign : P = Q \/ P \cap Q \subseteq torn
-----------------------------------------------------------------------------
(* A set of natural numbers that is not empty has a least element.         *)
LEMMA LeastOf ==
    ASSUME NEW S, S \subseteq Nat, S # {}
    PROVE  Min(S) \in S /\ \A y \in S : Min(S) <= y
<1> DEFINE Less == OpToRel(<, Nat)
<1>1. PICK x \in S : \A y \in S : ~(<<y, x>> \in Less)
    <2>1. IsWellFoundedOn(Less, Nat)
        BY NatLessThanWellFounded
    <2> HIDE DEF Less
    <2> QED
        BY <2>1, WFMin
<1>2. \A y \in S : x <= y
    <2> SUFFICES ASSUME NEW y \in S PROVE x <= y
        OBVIOUS
    <2>1. <<y, x>> \in Nat \X Nat /\ <<y, x>>[1] = y /\ <<y, x>>[2] = x
        OBVIOUS
    <2>2. ~(y < x)
        BY <1>1, <2>1 DEF OpToRel
    <2> QED
        BY <2>2
<1> QED
    BY <1>2 DEF Min

(* The address space holds at least the memory that was asked for.         *)
LEMMA Rounded ==
    ASSUME NEW kind, NEW size \in Sizes
    PROVE  /\ size \in Nat \ {0}
           /\ MappedSize(kind, size) \in Nat
           /\ MappedSize(kind, size) >= size
BY PagesAssumption, RoundingAssumption DEF MappedSize

(* Before the first call everything has its type.                          *)
LEMMA InitTypes == Init => TypesCorrect
<1> SUFFICES ASSUME Init PROVE TypesCorrect
    OBVIOUS
<1>1. ModuleTypes
    BY DEF Init, ModuleTypes
<1>2. MemoryTypes
    BY DEF Init, MemoryTypes, Nothing
<1>3. HandleTypes
    BY DEF Init, HandleTypes
<1>4. PlaceTypes
    BY DEF Init, PlaceTypes, PCs, Calls, NoCall, FitsAt, Locked
<1> QED
    BY <1>1, <1>2, <1>3, <1>4 DEF TypesCorrect

(* The locals of thread t after a step, and those of the others.           *)
Fills(t, kind, base, size, loaded) ==
    /\ call' \in [Threads -> Calls]
    /\ call'[t].kind = kind /\ call'[t].base = base
    /\ call'[t].size = size /\ call'[t].loaded = loaded
    /\ \A u \in Threads \ {t} : call'[u] = call[u]

(* What the two calls that begin and the steps that have several outcomes  *)
(* do.                                                                     *)
LEMMA AllocateDoes ==
    ASSUME TypesCorrect, NEW t \in Threads, gralloc_alloc(t)
    PROVE  /\ pc[t] = "idle"
           /\ NobodyAlone
           /\ UNCHANGED <<slots, memory, handles>>
           /\ \E kind \in Kinds, size \in Sizes :
                 /\ pc' = [pc EXCEPT ![t] = IF kind = "fb" THEN "fb_lock" ELSE "open"]
                 /\ Fills(t, kind, 0, size, {})
<1>1. PICK kind \in Kinds, size \in Sizes :
          /\ Goto(t, "idle", IF kind = "fb" THEN "fb_lock" ELSE "open")
          /\ call' = [call EXCEPT ![t].kind = kind, ![t].size = size]
    BY DEF gralloc_alloc
<1>2. call[t] = NoCall
    BY <1>1 DEF Goto, TypesCorrect, PlaceTypes, FitsAt
<1>3. Fills(t, kind, 0, size, {})
    <2>1. call \in [Threads -> Calls] /\ kind \in AllKinds
        BY KindsAssumption DEF TypesCorrect, PlaceTypes, AllKinds
    <2>2. call' \in [Threads -> Calls]
        BY <1>1, <2>1 DEF Calls
    <2> QED
        BY <1>1, <1>2, <2>1, <2>2 DEF Calls, NoCall, Fills
<1> QED
    BY <1>1, <1>3 DEF gralloc_alloc, Goto

(* free_impl() takes the handle away and goes where its kind of memory is  *)
(* given back, alone if callers do that for its kind.                      *)
LEMMA FreeDoes ==
    ASSUME TypesCorrect, NEW t \in Threads, free_impl(t)
    PROVE  /\ pc[t] = "idle"
           /\ NobodyAlone
           /\ UNCHANGED <<slots, memory>>
           /\ \E h \in handles, to \in {"fb_load", "terminate", "unmap"} :
                 /\ h.kind \in AloneKinds => Alone(t)
                 /\ handles' = handles \ {h}
                 /\ to = "fb_load" <=> h.kind = "fb"
                 /\ to = "unmap" <=> h.kind \in MappedKinds
                 /\ pc' = [pc EXCEPT ![t] = to]
                 /\ Fills(t, h.kind, h.base, h.size, {})
<1>1. PICK h \in handles :
          /\ h.kind \in AloneKinds => Alone(t)
          /\ handles' = handles \ {h}
          /\ Goto(t, "idle", CASE h.kind = "fb" -> "fb_load"
                               [] h.kind = "pmem" -> "terminate"
                               [] OTHER -> "unmap")
          /\ call' = [call EXCEPT ![t].kind = h.kind, ![t].base = h.base, ![t].size = h.size]
    BY DEF free_impl
<1>2. call[t] = NoCall
    BY <1>1 DEF Goto, TypesCorrect, PlaceTypes, FitsAt
<1>3. h \in Handle
    BY DEF TypesCorrect, HandleTypes
<1>4. Fills(t, h.kind, h.base, h.size, {})
    <2>1. call \in [Threads -> Calls]
        BY DEF TypesCorrect, PlaceTypes
    <2>2. h.kind \in AllKinds /\ h.base \in Nat /\ h.size \in Sizes
        BY <1>3 DEF Handle
    <2>3. call' \in [Threads -> Calls]
        BY <1>1, <2>1, <2>2 DEF Calls
    <2> QED
        BY <1>1, <1>2, <2>1, <2>2, <2>3 DEF Calls, NoCall, Fills
<1>5. PICK to \in {"fb_load", "terminate", "unmap"} :
          /\ to = "fb_load" <=> h.kind = "fb"
          /\ to = "unmap" <=> h.kind \in MappedKinds
          /\ to = CASE h.kind = "fb" -> "fb_load"
                    [] h.kind = "pmem" -> "terminate"
                    [] OTHER -> "unmap"
    BY <1>3 DEF Handle, AllKinds, MappedKinds
<1> QED
    BY <1>1, <1>4, <1>5 DEF free_impl, Goto

(* The framebuffer is there after the first mapping, with one display      *)
(* loop more, no slot taken and the device open twice; whoever fails       *)
(* before that leaves it open once or not at all.                          *)
LEMMA MapFramebufferDoes ==
    ASSUME NEW t, mapFrameBufferLocked(t)
    PROVE  /\ pc[t] = "fb_map"
           /\ \E to \in {"fb_mask", "fb_unlock"} : pc' = [pc EXCEPT ![t] = to]
           /\ UNCHANGED <<lock, mappings, handles, call>>
           /\ \/ UNCHANGED <<module, bufferMask, opened>>
              \/ /\ abandoned' = abandoned + 1
                 /\ opened' = opened + 1
                 /\ UNCHANGED <<framebuffer, numBuffers, displays, bufferMask>>
              \/ /\ ~framebuffer /\ framebuffer'
                 /\ displays' = displays + 1
                 /\ numBuffers' \in Screens
                 /\ bufferMask' = {}
                 /\ opened' = opened + 2
                 /\ UNCHANGED abandoned
BY DEF mapFrameBufferLocked, alreadyMapped, openFails, LeaveOpen, ioctlFails, noThread,
       MapFramebuffer, Goto, module

(* The slot that is found is a number that is not in the mask; only the    *)
(* call knows of it yet.                                                   *)
LEMMA FindSlotDoes ==
    ASSUME TypesCorrect, NEW t \in Threads, findSlot(t)
    PROVE  /\ pc[t] = "fb_mask"
           /\ pc' = [pc EXCEPT ![t] = "take_load"]
           /\ \E base \in Nat \ bufferMask :
                 Fills(t, call[t].kind, base, call[t].size, call[t].loaded)
           /\ opened' = opened + 1
           /\ UNCHANGED <<slots, mappings, handles>>
<1>1. Slots \subseteq Nat
    BY DEF Slots, TypesCorrect, ModuleTypes
<1>2. ~(Slots \subseteq bufferMask)
    BY DEF findSlot
<1>3. Min(Slots \ bufferMask) \in Slots \ bufferMask
    <2> DEFINE S == Slots \ bufferMask
    <2>1. S \subseteq Nat /\ S # {}
        BY <1>1, <1>2
    <2> HIDE DEF S
    <2>2. Min(S) \in S
        BY <2>1, LeastOf
    <2> QED
        BY <2>2 DEF S
<1>4. PICK base \in Nat \ bufferMask : base = Min(Slots \ bufferMask)
    BY <1>1, <1>3
<1>5. call' = [call EXCEPT ![t].base = base]
    BY <1>4 DEF findSlot
<1>6. Fills(t, call[t].kind, base, call[t].size, call[t].loaded)
    BY <1>5 DEF TypesCorrect, PlaceTypes, Calls, Fills
<1> QED
    BY <1>6 DEF findSlot, Goto

(* A load of the mask fills the thread's copy.                             *)
LEMMA LoadDoes ==
    ASSUME TypesCorrect, NEW t \in Threads, NEW from, NEW to, Load(t, from, to)
    PROVE  /\ pc[t] = from
           /\ pc' = [pc EXCEPT ![t] = to]
           /\ Fills(t, call[t].kind, call[t].base, call[t].size, bufferMask)
           /\ UNCHANGED <<slots, memory, handles>>
BY DEF TypesCorrect, PlaceTypes, ModuleTypes, Calls, Fills, Load, Goto

(* A return forgets the call.                                              *)
LEMMA ReturnDoes ==
    ASSUME TypesCorrect, NEW t \in Threads, NEW from, Return(t, from)
    PROVE  /\ pc[t] = from
           /\ pc' = [pc EXCEPT ![t] = "idle"]
           /\ call' = [call EXCEPT ![t] = NoCall]
           /\ call' \in [Threads -> Calls]
BY DEF TypesCorrect, PlaceTypes, Calls, Return, Goto, NoCall

(* The memory is mapped and a handle made, or the descriptor is closed.    *)
LEMMA MapBufferDoes ==
    ASSUME TypesCorrect, NEW t \in Threads, mapBuffer(t)
    PROVE  /\ Return(t, "map")
           /\ UNCHANGED <<slots, foreign, torn>>
           /\ call[t].size \in Sizes
           /\ call[t].kind \in (Kinds \cup {"pmem"}) \cap AllKinds
           /\ \/ \E base \in Nat :
                    LET kind == call[t].kind
                    IN  /\ base \in Addresses /\ kind \in MappedKinds
                        /\ [kind |-> kind, base |-> base] \in
                               [kind : MappedKinds \cup {"nothing", "other"}, base : Nat]
                        /\ Map(base, MappedSize(kind, call[t].size),
                               [kind |-> kind, base |-> base])
                        /\ NewHandle(kind, base, call[t].size)
                        /\ UNCHANGED opened
              \/ /\ call[t].kind = "pmem"
                 /\ NewHandle("pmem", 0, call[t].size)
                 /\ UNCHANGED memory
              \/ opened' = opened - 1 /\ UNCHANGED <<space, handles>>
<1>1. /\ call[t].size \in Sizes
      /\ call[t].kind \in (Kinds \cup {"pmem"}) \cap AllKinds
    BY KindsAssumption DEF mapBuffer, Return, Goto, TypesCorrect, PlaceTypes, FitsAt, AllKinds
<1>2. Return(t, "map") /\ UNCHANGED <<slots, foreign, torn>>
    BY DEF mapBuffer, memory, mappings
<1>3. Addresses \subseteq Nat
    BY DEF Addresses
<1> QED
    BY <1>1, <1>2, <1>3 DEF mapBuffer, MappedKinds, mappings, memory

(* A step of a thread keeps calls in order.                                *)
LEMMA Moved ==
    ASSUME TypesCorrect, NEW t \in Threads, NEW to \in PCs, pc' = [pc EXCEPT ![t] = to],
           call' \in [Threads -> Calls], \A u \in Threads \ {t} : call'[u] = call[u],
           FitsAt(to, call'[t])
    PROVE  PlaceTypes'
BY DEF TypesCorrect, PlaceTypes

(* A step that changes where a thread is and nothing else of its call.     *)
LEMMA MovedOn ==
    ASSUME TypesCorrect, NEW t \in Threads, NEW to \in PCs, pc' = [pc EXCEPT ![t] = to],
           call' = call, FitsAt(to, call[t])
    PROVE  PlaceTypes'
BY DEF TypesCorrect, PlaceTypes

(* Every step keeps the types of the module's state.                       *)
LEMMA NextModuleTypes ==
    ASSUME TypesCorrect, Next
    PROVE  ModuleTypes'
<1> USE DEF TypesCorrect, ModuleTypes, slots, module
<1>1. ASSUME NEW t \in Threads, gralloc_alloc(t) PROVE ModuleTypes'
    BY <1>1 DEF gralloc_alloc
<1>2. ASSUME NEW t \in Threads, free_impl(t) PROVE ModuleTypes'
    BY <1>2 DEF free_impl
<1>3. ASSUME NEW t \in Threads, InCall(t) PROVE ModuleTypes'
    <2>1. CASE lockModule(t)
        BY <2>1 DEF lockModule
    <2>2. CASE mapFrameBufferLocked(t)
        <3>1. UNCHANGED lock
            BY <2>2, MapFramebufferDoes
        <3>2. framebuffer' \in BOOLEAN
            BY <2>2, MapFramebufferDoes
        <3>3. CASE UNCHANGED <<module, bufferMask>>
            BY <3>1, <3>3
        <3>4. CASE /\ abandoned' = abandoned + 1
                   /\ UNCHANGED <<framebuffer, numBuffers, displays, bufferMask>>
            BY <3>1, <3>4
        <3>5. CASE /\ framebuffer' /\ displays' = displays + 1
                   /\ numBuffers' \in Screens /\ bufferMask' = {}
                   /\ UNCHANGED abandoned
            <4>1. Screens \subseteq Nat
                BY ScreensAssumption
            <4> QED
                BY <3>1, <3>2, <3>5, <4>1
        <3> QED
            BY <2>2, <3>3, <3>4, <3>5, MapFramebufferDoes
    <2>3. CASE allocRegular(t)
        BY <2>3 DEF allocRegular
    <2>4. CASE ranOut(t)
        BY <2>4 DEF ranOut
    <2>5. CASE findSlot(t)
        BY <2>5 DEF findSlot
    <2>6. CASE takeSlot(t)
        BY <2>6 DEF takeSlot, Load, PlaceTypes, Calls
    <2>7. CASE unlockModule(t)
        BY <2>7 DEF unlockModule
    <2>8. CASE openBuffer(t)
        BY <2>8 DEF openBuffer
    <2>9. CASE mapBuffer(t)
        BY <2>9 DEF mapBuffer
    <2>10. CASE freeSlot(t)
        BY <2>10 DEF freeSlot, Load, PlaceTypes, Calls
    <2>11. CASE unmapBuffer(t)
        BY <2>11 DEF unmapBuffer
    <2>12. CASE terminateBuffer(t)
        BY <2>12 DEF terminateBuffer
    <2>13. CASE closeBuffer(t)
        BY <2>13 DEF closeBuffer
    <2> QED
        BY <1>3, <2>1, <2>2, <2>3, <2>4, <2>5, <2>6, <2>7, <2>8, <2>9, <2>10, <2>11, <2>12, <2>13
           DEF InCall
<1>4. CASE otherMap
    BY <1>4 DEF otherMap
<1>5. CASE otherUnmap
    BY <1>5 DEF otherUnmap
<1> QED
    BY <1>1, <1>2, <1>3, <1>4, <1>5 DEF Next

(* Every step keeps the types of the address space and of other code's     *)
(* memory.                                                                 *)
LEMMA NextMemoryTypes ==
    ASSUME TypesCorrect, Next
    PROVE  MemoryTypes'
<1> USE DEF TypesCorrect, MemoryTypes, memory, mappings
<1>1. ASSUME NEW t \in Threads, gralloc_alloc(t) PROVE MemoryTypes'
    BY <1>1 DEF gralloc_alloc
<1>2. ASSUME NEW t \in Threads, free_impl(t) PROVE MemoryTypes'
    BY <1>2 DEF free_impl
<1>3. ASSUME NEW t \in Threads, InCall(t) PROVE MemoryTypes'
    <2>1. CASE lockModule(t)
        BY <2>1 DEF lockModule
    <2>2. CASE mapFrameBufferLocked(t)
        BY <2>2, MapFramebufferDoes
    <2>3. CASE allocRegular(t)
        BY <2>3 DEF allocRegular
    <2>4. CASE ranOut(t)
        BY <2>4 DEF ranOut
    <2>5. CASE findSlot(t)
        BY <2>5 DEF findSlot
    <2>6. CASE takeSlot(t)
        BY <2>6 DEF takeSlot, Load
    <2>7. CASE unlockModule(t)
        BY <2>7 DEF unlockModule
    <2>8. CASE openBuffer(t)
        BY <2>8 DEF openBuffer
    <2>9. CASE mapBuffer(t)
        BY <2>9, MapBufferDoes DEF Map, Put
    <2>10. CASE freeSlot(t)
        BY <2>10 DEF freeSlot, Load
    <2>11. CASE unmapBuffer(t)
        BY <2>11 DEF unmapBuffer, Unmap, Put, Nothing
    <2>12. CASE terminateBuffer(t)
        BY <2>12 DEF terminateBuffer, Unmap, Put, Nothing
    <2>13. CASE closeBuffer(t)
        BY <2>13 DEF closeBuffer
    <2> QED
        BY <1>3, <2>1, <2>2, <2>3, <2>4, <2>5, <2>6, <2>7, <2>8, <2>9, <2>10, <2>11, <2>12, <2>13
           DEF InCall
<1>4. CASE otherMap
    BY <1>4 DEF otherMap, Map, Put, Other
<1>5. CASE otherUnmap
    BY <1>5 DEF otherUnmap, Nothing
<1> QED
    BY <1>1, <1>2, <1>3, <1>4, <1>5 DEF Next

(* A handle is made of one of the kinds that were asked for, or of pmem.   *)
LEMMA NextHandleTypes ==
    ASSUME TypesCorrect, Next
    PROVE  HandleTypes'
<1> USE DEF TypesCorrect, HandleTypes
<1>1. ASSUME NEW t \in Threads, gralloc_alloc(t) PROVE HandleTypes'
    BY <1>1 DEF gralloc_alloc
<1>2. ASSUME NEW t \in Threads, free_impl(t) PROVE HandleTypes'
    BY <1>2 DEF free_impl
<1>3. ASSUME NEW t \in Threads, InCall(t) PROVE HandleTypes'
    <2> USE DEF PlaceTypes, Calls
    <2>1. CASE lockModule(t)
        BY <2>1 DEF lockModule
    <2>2. CASE mapFrameBufferLocked(t)
        BY <2>2, MapFramebufferDoes
    <2>3. CASE allocRegular(t)
        BY <2>3 DEF allocRegular, NewHandle, Handle, AllKinds, Goto, FitsAt, Locked
    <2>4. CASE ranOut(t)
        BY <2>4 DEF ranOut
    <2>5. CASE findSlot(t)
        BY <2>5 DEF findSlot
    <2>6. CASE takeSlot(t)
        BY <2>6 DEF takeSlot, Load, NewHandle, Handle, AllKinds, Goto, FitsAt, Locked
    <2>7. CASE unlockModule(t)
        BY <2>7 DEF unlockModule
    <2>8. CASE openBuffer(t)
        BY <2>8 DEF openBuffer
    <2>9. CASE mapBuffer(t)
        <3>1. \/ UNCHANGED handles
              \/ \E base \in Nat : NewHandle(call[t].kind, base, call[t].size)
            BY <2>9, MapBufferDoes
        <3>2. /\ call[t].size \in Sizes
              /\ call[t].kind \in (Kinds \cup {"pmem"}) \cap AllKinds
            BY <2>9, MapBufferDoes
        <3> QED
            BY <3>1, <3>2 DEF NewHandle, Handle
    <2>10. CASE freeSlot(t)
        BY <2>10 DEF freeSlot, Load
    <2>11. CASE unmapBuffer(t)
        BY <2>11 DEF unmapBuffer
    <2>12. CASE terminateBuffer(t)
        BY <2>12 DEF terminateBuffer
    <2>13. CASE closeBuffer(t)
        BY <2>13 DEF closeBuffer
    <2> QED
        BY <1>3, <2>1, <2>2, <2>3, <2>4, <2>5, <2>6, <2>7, <2>8, <2>9, <2>10, <2>11, <2>12, <2>13
           DEF InCall
<1>4. CASE otherMap
    BY <1>4 DEF otherMap
<1>5. CASE otherUnmap
    BY <1>5 DEF otherUnmap
<1> QED
    BY <1>1, <1>2, <1>3, <1>4, <1>5 DEF Next

(* Every step leaves each thread at a place that fits its call.            *)
LEMMA NextPlaceTypes ==
    ASSUME TypesCorrect, Next
    PROVE  PlaceTypes'
<1> USE DEF PCs, Locked, Freeing
<1>0. \A t \in Threads : FitsAt(pc[t], call[t])
    BY DEF TypesCorrect, PlaceTypes
<1>1. ASSUME NEW t \in Threads, gralloc_alloc(t) PROVE PlaceTypes'
    BY <1>1, AllocateDoes, Moved DEF Fills, FitsAt, MappedKinds
<1>2. ASSUME NEW t \in Threads, free_impl(t) PROVE PlaceTypes'
    BY <1>2, FreeDoes, Moved DEF Fills, FitsAt, MappedKinds, TypesCorrect, HandleTypes, Handle
<1>3. ASSUME NEW t \in Threads, InCall(t) PROVE PlaceTypes'
    <2> USE <1>0 DEF FitsAt, Goto
    <2>1. CASE lockModule(t)
        BY <2>1, MovedOn DEF lockModule
    <2>2. CASE mapFrameBufferLocked(t)
        BY <2>2, MapFramebufferDoes, MovedOn
    <2>3. CASE allocRegular(t)
        BY <2>3, MovedOn DEF allocRegular
    <2>4. CASE ranOut(t)
        BY <2>4, MovedOn DEF ranOut
    <2>5. CASE findSlot(t)
        BY <2>5, FindSlotDoes, Moved DEF Fills
    <2>6. CASE takeSlot(t)
        BY <2>6, LoadDoes, Moved, MovedOn DEF takeSlot, Fills
    <2>7. CASE unlockModule(t)
        BY <2>7, ReturnDoes, Moved DEF unlockModule
    <2>8. CASE openBuffer(t)
        BY <2>8, MovedOn DEF openBuffer
    <2>9. CASE mapBuffer(t)
        BY <2>9, ReturnDoes, Moved DEF mapBuffer
    <2>10. CASE freeSlot(t)
        BY <2>10, LoadDoes, Moved, MovedOn DEF freeSlot, Fills
    <2>11. CASE unmapBuffer(t)
        BY <2>11, MovedOn DEF unmapBuffer, MappedKinds
    <2>12. CASE terminateBuffer(t)
        BY <2>12, MovedOn DEF terminateBuffer
    <2>13. CASE closeBuffer(t)
        BY <2>13, ReturnDoes, Moved DEF closeBuffer
    <2> QED
        BY <1>3, <2>1, <2>2, <2>3, <2>4, <2>5, <2>6, <2>7, <2>8, <2>9, <2>10, <2>11, <2>12, <2>13
           DEF InCall
<1>4. CASE otherMap
    BY <1>4 DEF otherMap, TypesCorrect, PlaceTypes
<1>5. CASE otherUnmap
    BY <1>5 DEF otherUnmap, TypesCorrect, PlaceTypes
<1> QED
    BY <1>1, <1>2, <1>3, <1>4, <1>5 DEF Next
-----------------------------------------------------------------------------
(* The steps of a call that is under way move one thread, which begins to  *)
(* give a buffer back only in free_impl(); and the lock is taken and given *)
(* back as the thread enters and leaves the places where it is held.       *)
LEMMA InCallMoves ==
    ASSUME TypesCorrect, NEW t \in Threads, InCall(t)
    PROVE  \E to \in PCs :
              /\ pc[t] # "idle"
              /\ pc' = [pc EXCEPT ![t] = to]
              /\ \A u \in Threads \ {t} : call'[u] = call[u]
              /\ to \in Freeing => pc[t] \in Freeing /\ call'[t].kind = call[t].kind
              /\ \/ lock' = lock /\ (pc[t] \in Locked <=> to \in Locked)
                 \/ lock = NoThread /\ lock' = t /\ pc[t] \notin Locked /\ to \in Locked
                 \/ lock' = NoThread /\ pc[t] \in Locked /\ to \notin Locked
<1> DEFINE Moves(to) ==
              /\ pc[t] # "idle"
              /\ pc' = [pc EXCEPT ![t] = to]
              /\ \A u \in Threads \ {t} : call'[u] = call[u]
              /\ to \in Freeing => pc[t] \in Freeing /\ call'[t].kind = call[t].kind
              /\ \/ lock' = lock /\ (pc[t] \in Locked <=> to \in Locked)
                 \/ lock = NoThread /\ lock' = t /\ pc[t] \notin Locked /\ to \in Locked
                 \/ lock' = NoThread /\ pc[t] \in Locked /\ to \notin Locked
<1> SUFFICES \E to \in PCs : Moves(to)
    OBVIOUS
<1> USE DEF Goto, PCs, Locked, Freeing, slots, module
<1>1. CASE lockModule(t)
    BY <1>1 DEF lockModule
<1>2. CASE mapFrameBufferLocked(t)
    BY <1>2, MapFramebufferDoes
<1>3. CASE allocRegular(t)
    BY <1>3 DEF allocRegular
<1>4. CASE ranOut(t)
    BY <1>4 DEF ranOut
<1>5. CASE findSlot(t)
    BY <1>5, FindSlotDoes DEF Fills
<1>6. CASE takeSlot(t)
    BY <1>6, LoadDoes DEF takeSlot, Fills
<1>7. CASE unlockModule(t)
    BY <1>7, ReturnDoes DEF unlockModule
<1>8. CASE openBuffer(t)
    BY <1>8 DEF openBuffer
<1>9. CASE mapBuffer(t)
    BY <1>9, MapBufferDoes, ReturnDoes
<1>10. CASE freeSlot(t)
    BY <1>10, LoadDoes DEF freeSlot, Fills
<1>11. CASE unmapBuffer(t)
    BY <1>11 DEF unmapBuffer
<1>12. CASE terminateBuffer(t)
    BY <1>12 DEF terminateBuffer
<1>13. CASE closeBuffer(t)
    BY <1>13, ReturnDoes DEF closeBuffer
<1> QED
    BY <1>1, <1>2, <1>3, <1>4, <1>5, <1>6, <1>7, <1>8, <1>9, <1>10, <1>11, <1>12, <1>13
       DEF InCall

(* Before the first call nobody has the lock or wants to be alone.         *)
LEMMA InitLock == Init => LockHeld /\ LeftAlone
BY NoThreadAssumption DEF Init, LockHeld, LeftAlone, Locked, Freeing

(* A thread has the module's lock exactly between lockModule() and         *)
(* unlockModule().                                                         *)
LEMMA NextLock ==
    ASSUME TypesCorrect, LockHeld, Next
    PROVE  LockHeld'
<1> USE DEF LockHeld
<1>0. pc \in [Threads -> PCs]
    BY DEF TypesCorrect, PlaceTypes
<1>1. ASSUME NEW t \in Threads, gralloc_alloc(t) PROVE LockHeld'
    BY <1>0, <1>1, AllocateDoes DEF slots, Locked
<1>2. ASSUME NEW t \in Threads, free_impl(t) PROVE LockHeld'
    BY <1>0, <1>2, FreeDoes DEF slots, Locked
<1>3. ASSUME NEW t \in Threads, InCall(t) PROVE LockHeld'
    <2>1. PICK to \in PCs :
              /\ pc' = [pc EXCEPT ![t] = to]
              /\ \/ lock' = lock /\ (pc[t] \in Locked <=> to \in Locked)
                 \/ lock = NoThread /\ lock' = t /\ pc[t] \notin Locked /\ to \in Locked
                 \/ lock' = NoThread /\ pc[t] \in Locked /\ to \notin Locked
        BY <1>3, InCallMoves
    <2> QED
        BY <1>0, <2>1, NoThreadAssumption
<1>4. CASE otherMap
    BY <1>4 DEF otherMap, slots
<1>5. CASE otherUnmap
    BY <1>5 DEF otherUnmap, slots
<1> QED
    BY <1>1, <1>2, <1>3, <1>4, <1>5 DEF Next

(* Whoever frees a buffer of AloneKinds is alone: it began alone, and no   *)
(* call begins until it has returned.                                      *)
LEMMA NextAlone ==
    ASSUME TypesCorrect, LeftAlone, Next
    PROVE  LeftAlone'
<1>0. pc \in [Threads -> PCs]
    BY DEF TypesCorrect, PlaceTypes
<1>1. ASSUME NEW t \in Threads, gralloc_alloc(t) PROVE LeftAlone'
    <2>1. \A u \in Threads : ~(pc'[u] \in Freeing /\ call'[u].kind \in AloneKinds)
        BY <1>0, <1>1, AllocateDoes DEF NobodyAlone, Freeing, Fills
    <2> QED
        BY <2>1 DEF LeftAlone
<1>2. ASSUME NEW t \in Threads, free_impl(t) PROVE LeftAlone'
    <2>1. \A u \in Threads \ {t} : ~(pc'[u] \in Freeing /\ call'[u].kind \in AloneKinds)
        BY <1>0, <1>2, FreeDoes DEF NobodyAlone, Freeing, Fills
    <2>2. call'[t].kind \in AloneKinds => \A u \in Threads \ {t} : pc'[u] = "idle"
        BY <1>0, <1>2, FreeDoes DEF Alone, Fills
    <2> QED
        BY <2>1, <2>2 DEF LeftAlone
<1>3. ASSUME NEW t \in Threads, InCall(t) PROVE LeftAlone'
    <2>1. PICK to \in PCs :
              /\ pc[t] # "idle"
              /\ pc' = [pc EXCEPT ![t] = to]
              /\ \A u \in Threads \ {t} : call'[u] = call[u]
              /\ to \in Freeing => pc[t] \in Freeing /\ call'[t].kind = call[t].kind
        BY <1>3, InCallMoves
    <2> QED
        BY <1>0, <2>1 DEF LeftAlone
<1>4. CASE otherMap
    BY <1>4 DEF otherMap, LeftAlone
<1>5. CASE otherUnmap
    BY <1>5 DEF otherUnmap, LeftAlone
<1> QED
    BY <1>1, <1>2, <1>3, <1>4, <1>5 DEF Next
-----------------------------------------------------------------------------
(* The slots.                                                              *)
FbPlaces == {"take_load", "take_store", "fb_load", "fb_store"}

(* A step that leaves the module alone and puts no thread on a slot.       *)
LEMMA FirstStays ==
    ASSUME TypesCorrect, FirstMapping, NEW t \in Threads, NEW to,
           UNCHANGED <<framebuffer, displays, numBuffers, bufferMask>>,
           pc' = [pc EXCEPT ![t] = to], to \in FbPlaces => framebuffer,
           \A h \in handles' : h.kind = "fb" => framebuffer \/ h \in handles
    PROVE  FirstMapping'
BY DEF FirstMapping, FbPlaces, TypesCorrect, PlaceTypes

(* Only the first mapping starts a display loop, and nobody works on       *)
(* slots before it.                                                        *)
LEMMA NextFirst ==
    ASSUME TypesCorrect, FirstMapping, Next
    PROVE  FirstMapping'
<1> USE DEF slots, module, memory, mappings, FbPlaces
<1>0. pc \in [Threads -> PCs]
    BY DEF TypesCorrect, PlaceTypes
<1>1. ASSUME NEW t \in Threads, gralloc_alloc(t) PROVE FirstMapping'
    <2>1. PICK to \in {"fb_lock", "open"} : pc' = [pc EXCEPT ![t] = to]
        BY <1>1, AllocateDoes
    <2> QED
        BY <1>1, <2>1, AllocateDoes, FirstStays
<1>2. ASSUME NEW t \in Threads, free_impl(t) PROVE FirstMapping'
    <2>1. PICK h \in handles, to \in {"fb_load", "terminate", "unmap"} :
              /\ handles' = handles \ {h}
              /\ to = "fb_load" <=> h.kind = "fb"
              /\ pc' = [pc EXCEPT ![t] = to]
        BY <1>2, FreeDoes
    <2>2. h.kind = "fb" => framebuffer
        BY DEF FirstMapping
    <2> QED
        BY <1>2, <2>1, <2>2, FreeDoes, FirstStays
<1>3. ASSUME NEW t \in Threads, InCall(t) PROVE FirstMapping'
    <2>0. pc[t] \in FbPlaces => framebuffer
        BY DEF FirstMapping
    <2>1. CASE lockModule(t)
        BY <2>1, FirstStays DEF lockModule, Goto
    <2>2. CASE mapFrameBufferLocked(t)
        <3>1. PICK to \in {"fb_mask", "fb_unlock"} : pc' = [pc EXCEPT ![t] = to]
            BY <2>2, MapFramebufferDoes
        <3>2. CASE UNCHANGED <<framebuffer, displays, numBuffers, bufferMask>>
            BY <2>2, <3>1, <3>2, MapFramebufferDoes, FirstStays
        <3>3. CASE ~framebuffer /\ framebuffer' /\ displays' = displays + 1
            BY <3>3 DEF FirstMapping, TypesCorrect, ModuleTypes
        <3> QED
            BY <2>2, <3>2, <3>3, MapFramebufferDoes
    <2>3. CASE allocRegular(t)
        <3>1. \A h \in handles' : h.kind = "fb" => h \in handles
            BY <2>3 DEF allocRegular, NewHandle
        <3> QED
            BY <2>3, <3>1, FirstStays DEF allocRegular, Goto
    <2>4. CASE ranOut(t)
        BY <2>4, FirstStays DEF ranOut, Goto
    <2>5. CASE findSlot(t)
        <3>1. framebuffer
            <4> SUFFICES ASSUME ~framebuffer PROVE FALSE
                OBVIOUS
            <4>1. Slots = {}
                BY DEF FirstMapping, Slots
            <4> QED
                BY <2>5, <4>1 DEF findSlot
        <3> QED
            BY <2>5, <3>1, FirstStays DEF findSlot, Goto
    <2>6. CASE takeSlot(t)
        <3>1. CASE Load(t, "take_load", "take_store")
            BY <2>0, <3>1, FirstStays DEF Load, Goto
        <3>2. CASE Goto(t, "take_store", "fb_unlock")
            <4>1. framebuffer
                BY <2>0, <3>2 DEF Goto
            <4>2. UNCHANGED <<framebuffer, displays>>
                BY <2>6, <3>2 DEF takeSlot, Load
            <4> QED
                BY <4>1, <4>2 DEF FirstMapping
        <3> QED
            BY <2>6, <3>1, <3>2 DEF takeSlot
    <2>7. CASE unlockModule(t)
        BY <2>7, FirstStays DEF unlockModule, Return, Goto
    <2>8. CASE openBuffer(t)
        BY <2>8, FirstStays DEF openBuffer, Goto
    <2>9. CASE mapBuffer(t)
        <3>1. pc' = [pc EXCEPT ![t] = "idle"] /\ UNCHANGED slots
            BY <2>9, MapBufferDoes DEF Return, Goto
        <3>2. \/ UNCHANGED handles
              \/ \E base \in Nat : NewHandle(call[t].kind, base, call[t].size)
            BY <2>9, MapBufferDoes
        <3>3. call[t].kind # "fb"
            BY <2>9 DEF mapBuffer, Return, Goto, TypesCorrect, PlaceTypes, FitsAt
        <3> QED
            <4>1. \A h \in handles' : h.kind = "fb" => h \in handles
                BY <3>2, <3>3 DEF NewHandle
            <4> QED
                BY <3>1, <4>1, FirstStays
    <2>10. CASE freeSlot(t)
        <3>1. CASE Load(t, "fb_load", "fb_store")
            BY <2>0, <3>1, FirstStays DEF Load, Goto
        <3>2. CASE Goto(t, "fb_store", "close")
            <4>1. framebuffer
                BY <2>0, <3>2 DEF Goto
            <4>2. UNCHANGED <<framebuffer, displays>>
                BY <2>10, <3>2 DEF freeSlot, Load
            <4> QED
                BY <4>1, <4>2 DEF FirstMapping
        <3> QED
            BY <2>10, <3>1, <3>2 DEF freeSlot
    <2>11. CASE unmapBuffer(t)
        BY <2>11, FirstStays DEF unmapBuffer, Goto
    <2>12. CASE terminateBuffer(t)
        BY <2>12, FirstStays DEF terminateBuffer, Goto
    <2>13. CASE closeBuffer(t)
        BY <2>13, FirstStays DEF closeBuffer, Return, Goto
    <2> QED
        BY <1>3, <2>1, <2>2, <2>3, <2>4, <2>5, <2>6, <2>7, <2>8, <2>9, <2>10, <2>11, <2>12, <2>13
           DEF InCall
<1>4. CASE otherMap
    BY <1>4 DEF otherMap, FirstMapping
<1>5. CASE otherUnmap
    BY <1>5 DEF otherUnmap, FirstMapping
<1> QED
    BY <1>1, <1>2, <1>3, <1>4, <1>5 DEF Next

SlotPlaces == {"take_load", "take_store", "fb_load", "fb_store"}

(* Callers free slots of the framebuffer only while nothing else runs.     *)
SlotsFreedAlone == "fb" \in Kinds => "fb" \in AloneKinds

(* Then only one thread at a time is at the mask.                          *)
LEMMA OneAtTheMask ==
    ASSUME TypesCorrect, LockHeld, LeftAlone, SlotsFreedAlone,
           NEW t \in Threads, NEW u \in Threads,
           pc[t] \in Locked \cup SlotPlaces, pc[u] \in SlotPlaces
    PROVE  t = u
<1>1. ASSUME NEW v \in Threads, pc[v] \in {"fb_load", "fb_store"}
      PROVE  \A w \in Threads \ {v} : pc[w] = "idle"
    <2>1. call[v].kind = "fb" /\ "fb" \in AloneKinds
        BY <1>1 DEF TypesCorrect, PlaceTypes, FitsAt, SlotsFreedAlone
    <2> QED
        BY <1>1, <2>1 DEF LeftAlone, Freeing
<1>2. pc[t] # "idle" /\ pc[u] # "idle"
    BY DEF Locked, SlotPlaces
<1>3. CASE pc[t] \in {"fb_load", "fb_store"} \/ pc[u] \in {"fb_load", "fb_store"}
    BY <1>1, <1>2, <1>3
<1>4. CASE pc[t] \in Locked /\ pc[u] \in Locked
    BY <1>4 DEF LockHeld
<1> QED
    BY <1>3, <1>4 DEF Locked, SlotPlaces

(* A step that does not concern the slots.                                 *)
LEMMA SlotsStay ==
    ASSUME TypesCorrect, SlotsHeld, NEW t \in Threads, NEW to,
           UNCHANGED bufferMask, SlotHandles' = SlotHandles,
           pc' = [pc EXCEPT ![t] = to], pc[t] \notin SlotPlaces, to \notin SlotPlaces,
           \A u \in Threads \ {t} : call'[u] = call[u]
    PROVE  SlotsHeld'
<1>1. pc \in [Threads -> PCs]
    BY DEF TypesCorrect, PlaceTypes
<1>2. \A u \in Threads : pc'[u] \in SlotPlaces => u # t /\ pc'[u] = pc[u] /\ call'[u] = call[u]
    BY <1>1
<1>3. \A u \in Threads : pc[u] \in SlotPlaces => pc'[u] = pc[u] /\ call'[u] = call[u]
    BY <1>1
<1>4. GivingBack' = GivingBack /\ \A u \in GivingBack : call'[u] = call[u]
    BY <1>2, <1>3 DEF GivingBack, SlotPlaces
<1>5. HeldSlots' = HeldSlots
    BY DEF HeldSlots
<1>6. {call'[u].base : u \in GivingBack'} = {call[u].base : u \in GivingBack}
    BY <1>4
<1> QED
    BY <1>2, <1>4, <1>5, <1>6 DEF SlotsHeld, SlotPlaces

(* Before the first call no slot is taken.                                 *)
LEMMA InitSlots == Init => FirstMapping /\ SlotsHeld
<1> SUFFICES ASSUME Init PROVE FirstMapping /\ SlotsHeld
    OBVIOUS
<1>1. FirstMapping
    BY DEF Init, FirstMapping
<1>2. GivingBack = {} /\ SlotHandles = {} /\ HeldSlots = {}
    BY DEF Init, GivingBack, SlotHandles, HeldSlots
<1>3. SlotsHeld
    BY <1>2 DEF Init, SlotsHeld
<1> QED
    BY <1>1, <1>3

(* A slot is found: its bit is not set, and nobody else is at the mask.    *)
LEMMA FindSlotSlots ==
    ASSUME TypesCorrect, LockHeld, LeftAlone, SlotsFreedAlone, SlotsHeld,
           NEW t \in Threads, findSlot(t)
    PROVE  SlotsHeld'
<1>1. PICK base \in Nat \ bufferMask :
          Fills(t, call[t].kind, base, call[t].size, call[t].loaded)
    BY FindSlotDoes
<1>2. /\ pc[t] = "fb_mask" /\ pc' = [pc EXCEPT ![t] = "take_load"]
      /\ UNCHANGED <<bufferMask, handles>>
    BY FindSlotDoes DEF slots
<1>3. pc \in [Threads -> PCs]
    BY DEF TypesCorrect, PlaceTypes
<1>4. \A u \in Threads \ {t} : pc'[u] \notin SlotPlaces
    BY <1>2, <1>3, OneAtTheMask DEF Locked
<1>5. \A u \in Threads : pc[u] \notin SlotPlaces
    BY <1>2, <1>4, <1>3 DEF SlotPlaces
<1>6. GivingBack = {} /\ GivingBack' = {}
    BY <1>2, <1>3, <1>4, <1>5 DEF GivingBack, SlotPlaces
<1>7. HeldSlots' = HeldSlots /\ SlotHandles' = SlotHandles
    BY <1>2 DEF HeldSlots, SlotHandles
<1>8. bufferMask' = HeldSlots'
    BY <1>2, <1>6, <1>7 DEF SlotsHeld
<1>9. \A u \in Threads :
          /\ pc'[u] \in {"take_load", "take_store"} => call'[u].base \notin bufferMask'
          /\ pc'[u] \notin {"take_store", "fb_store"}
    BY <1>1, <1>2, <1>3, <1>4 DEF SlotPlaces, Fills
<1>10. \A g, h \in SlotHandles' : g.base = h.base => g = h
    BY <1>7 DEF SlotsHeld
<1> QED
    BY <1>6, <1>8, <1>9, <1>10 DEF SlotsHeld

(* The mask is loaded.                                                     *)
LEMMA LoadSlots ==
    ASSUME TypesCorrect, LockHeld, LeftAlone, SlotsFreedAlone, SlotsHeld,
           NEW t \in Threads, NEW from, NEW to, Load(t, from, to),
           \/ from = "take_load" /\ to = "take_store"
           \/ from = "fb_load" /\ to = "fb_store"
    PROVE  SlotsHeld'
<1>1. /\ pc[t] = from /\ pc' = [pc EXCEPT ![t] = to]
      /\ Fills(t, call[t].kind, call[t].base, call[t].size, bufferMask)
      /\ UNCHANGED <<bufferMask, handles>>
    BY LoadDoes DEF slots
<1>2. pc \in [Threads -> PCs]
    BY DEF TypesCorrect, PlaceTypes
<1>3. \A u \in Threads \ {t} : pc'[u] \notin SlotPlaces
    BY <1>1, <1>2, OneAtTheMask DEF SlotPlaces
<1>4. \A u \in Threads : call'[u].base = call[u].base
    BY <1>1 DEF Fills
<1>5. GivingBack' = GivingBack
    BY <1>1, <1>2, <1>3 DEF GivingBack, SlotPlaces
<1>6. HeldSlots' = HeldSlots /\ SlotHandles' = SlotHandles
    BY <1>1 DEF HeldSlots, SlotHandles
<1>7. {call'[u].base : u \in GivingBack'} = {call[u].base : u \in GivingBack}
    BY <1>4, <1>5 DEF GivingBack
<1>8. \A u \in Threads :
          /\ pc'[u] \in {"take_load", "take_store"} => call'[u].base \notin bufferMask'
          /\ pc'[u] \in {"take_store", "fb_store"} => call'[u].loaded = bufferMask'
    BY <1>1, <1>2, <1>3 DEF SlotPlaces, Fills, SlotsHeld
<1>9. \A u \in GivingBack' : call'[u].base \notin HeldSlots'
    BY <1>4, <1>5, <1>6 DEF SlotsHeld, GivingBack
<1> QED
    BY <1>1, <1>6, <1>7, <1>8, <1>9 DEF SlotsHeld

(* The bit is set and the handle made.                                     *)
LEMMA TakeSlotSlots ==
    ASSUME TypesCorrect, LockHeld, LeftAlone, SlotsFreedAlone, SlotsHeld,
           NEW t \in Threads, Goto(t, "take_store", "fb_unlock"),
           bufferMask' = call[t].loaded \cup {call[t].base},
           NewHandle("fb", call[t].base, call[t].size), UNCHANGED call
    PROVE  SlotsHeld'
<1>1. pc \in [Threads -> PCs] /\ pc[t] = "take_store" /\ pc' = [pc EXCEPT ![t] = "fb_unlock"]
    BY DEF TypesCorrect, PlaceTypes, Goto
<1>2. \A u \in Threads : pc'[u] \notin SlotPlaces
    BY <1>1, OneAtTheMask DEF SlotPlaces
<1>3. \A u \in Threads : pc[u] \in SlotPlaces => u = t
    BY <1>1, <1>2
<1>4. GivingBack = {} /\ GivingBack' = {}
    BY <1>1, <1>2, <1>3 DEF GivingBack, SlotPlaces
<1>5. bufferMask = HeldSlots /\ bufferMask' = HeldSlots \cup {call[t].base}
    BY <1>1, <1>4 DEF SlotsHeld
<1>6. call[t].base \notin HeldSlots
    BY <1>1, <1>5 DEF SlotsHeld
<1>7. PICK h : handles' = handles \cup {h} /\ h.kind = "fb" /\ h.base = call[t].base
    <2>1. PICK id \in Ids : handles' = handles \cup
              {[id |-> id, kind |-> "fb", base |-> call[t].base, size |-> call[t].size]}
        BY DEF NewHandle
    <2>2. PICK h : h = [id |-> id, kind |-> "fb", base |-> call[t].base, size |-> call[t].size]
        OBVIOUS
    <2> QED
        BY <2>1, <2>2
<1>8. SlotHandles' = SlotHandles \cup {h}
    BY <1>7 DEF SlotHandles
<1>9. HeldSlots' = HeldSlots \cup {call[t].base}
    BY <1>7, <1>8 DEF HeldSlots
<1>10. \A g, k \in SlotHandles' : g.base = k.base => g = k
    BY <1>6, <1>7, <1>8 DEF SlotsHeld, HeldSlots
<1> QED
    BY <1>2, <1>4, <1>5, <1>9, <1>10 DEF SlotsHeld, SlotPlaces

(* The bit is cleared.                                                     *)
LEMMA ClearSlotSlots ==
    ASSUME TypesCorrect, LockHeld, LeftAlone, SlotsFreedAlone, SlotsHeld,
           NEW t \in Threads, Goto(t, "fb_store", "close"),
           bufferMask' = call[t].loaded \ {call[t].base}, UNCHANGED <<handles, call>>
    PROVE  SlotsHeld'
<1>1. pc \in [Threads -> PCs] /\ pc[t] = "fb_store" /\ pc' = [pc EXCEPT ![t] = "close"]
    BY DEF TypesCorrect, PlaceTypes, Goto
<1>2. \A u \in Threads : pc'[u] \notin SlotPlaces
    BY <1>1, OneAtTheMask DEF SlotPlaces
<1>3. \A u \in Threads : pc[u] \in SlotPlaces => u = t
    BY <1>1, <1>2
<1>4. GivingBack = {t} /\ GivingBack' = {}
    BY <1>1, <1>2, <1>3 DEF GivingBack, SlotPlaces
<1>5. bufferMask = HeldSlots \cup {call[t].base} /\ call[t].base \notin HeldSlots
    BY <1>4 DEF SlotsHeld
<1>6. HeldSlots' = HeldSlots /\ SlotHandles' = SlotHandles
    BY DEF HeldSlots, SlotHandles
<1>7. bufferMask' = HeldSlots'
    BY <1>1, <1>5, <1>6 DEF SlotsHeld
<1> QED
    BY <1>2, <1>4, <1>6, <1>7 DEF SlotsHeld, SlotPlaces

(* A handle of a slot is given up: the slot stays marked for a while.      *)
LEMMA FreeSlots ==
    ASSUME TypesCorrect, LockHeld, LeftAlone, SlotsFreedAlone, SlotsHeld,
           NEW t \in Threads, free_impl(t)
    PROVE  SlotsHeld'
<1>0. pc \in [Threads -> PCs]
    BY DEF TypesCorrect, PlaceTypes
<1>1. PICK h \in handles, to \in {"fb_load", "terminate", "unmap"} :
          /\ h.kind \in AloneKinds => Alone(t)
          /\ handles' = handles \ {h}
          /\ to = "fb_load" <=> h.kind = "fb"
          /\ pc' = [pc EXCEPT ![t] = to]
          /\ Fills(t, h.kind, h.base, h.size, {})
    BY FreeDoes
<1>2. pc[t] = "idle" /\ UNCHANGED bufferMask
    BY FreeDoes DEF slots
<1>3. CASE h.kind # "fb"
    <2>1. SlotHandles' = SlotHandles
        BY <1>1, <1>3 DEF SlotHandles
    <2> QED
        BY <1>1, <1>2, <1>3, <2>1, SlotsStay DEF Fills, SlotPlaces
<1>4. CASE h.kind = "fb"
    <2>1. Alone(t)
        BY <1>1, <1>4 DEF SlotsFreedAlone, TypesCorrect, HandleTypes
    <2>2. GivingBack = {} /\ GivingBack' = {t}
        BY <1>0, <1>1, <1>2, <1>4, <2>1 DEF GivingBack, Alone
    <2>3. SlotHandles' = SlotHandles \ {h} /\ h \in SlotHandles
        BY <1>1, <1>4 DEF SlotHandles
    <2>4. HeldSlots' = HeldSlots \ {h.base} /\ h.base \in HeldSlots
        BY <2>3 DEF HeldSlots, SlotsHeld
    <2>5. call'[t].base = h.base
        BY <1>1 DEF Fills
    <2>6. bufferMask' = HeldSlots' \cup {call'[u].base : u \in GivingBack'}
        BY <1>2, <2>2, <2>4, <2>5 DEF SlotsHeld
    <2>7. \A u \in Threads : pc'[u] \notin {"take_load", "take_store", "fb_store"}
        BY <1>0, <1>1, <1>4, <2>1 DEF Alone
    <2> QED
        BY <2>2, <2>3, <2>4, <2>5, <2>6, <2>7 DEF SlotsHeld
<1> QED
    BY <1>3, <1>4

(* The mask stays what handles and threads giving slots back hold, if      *)
(* slots are freed alone: every change of it is then a load and a store    *)
(* with nobody in between.                                                 *)
LEMMA NextSlots ==
    ASSUME TypesCorrect, LockHeld, LeftAlone, FirstMapping, SlotsFreedAlone, SlotsHeld, Next
    PROVE  SlotsHeld'
<1>1. ASSUME NEW t \in Threads, gralloc_alloc(t) PROVE SlotsHeld'
    <2>1. PICK to \in {"fb_lock", "open"} :
              pc' = [pc EXCEPT ![t] = to] /\ \A u \in Threads \ {t} : call'[u] = call[u]
        BY <1>1, AllocateDoes DEF Fills
    <2> QED
        BY <1>1, <2>1, AllocateDoes, SlotsStay DEF slots, SlotHandles, SlotPlaces
<1>2. ASSUME NEW t \in Threads, free_impl(t) PROVE SlotsHeld'
    BY <1>2, FreeSlots
<1>3. ASSUME NEW t \in Threads, InCall(t) PROVE SlotsHeld'
    <2>0. handles' = handles => SlotHandles' = SlotHandles
        BY DEF SlotHandles
    <2> USE DEF Goto, slots, SlotPlaces
    <2>1. CASE lockModule(t)
        BY <2>0, <2>1, SlotsStay DEF lockModule
    <2>2. CASE mapFrameBufferLocked(t)
        <3>1. PICK to \in {"fb_mask", "fb_unlock"} : pc' = [pc EXCEPT ![t] = to]
            BY <2>2, MapFramebufferDoes
        <3>2. pc[t] = "fb_map" /\ UNCHANGED <<handles, call>>
            BY <2>2, MapFramebufferDoes
        <3>3. bufferMask' = bufferMask
            BY <2>2, MapFramebufferDoes DEF FirstMapping
        <3> QED
            BY <2>0, <3>1, <3>2, <3>3, SlotsStay
    <2>3. CASE allocRegular(t)
        <3>1. SlotHandles' = SlotHandles
            BY <2>3 DEF allocRegular, NewHandle, SlotHandles
        <3> QED
            BY <2>3, <3>1, SlotsStay DEF allocRegular
    <2>4. CASE ranOut(t)
        BY <2>0, <2>4, SlotsStay DEF ranOut
    <2>5. CASE findSlot(t)
        BY <2>5, FindSlotSlots
    <2>6. CASE takeSlot(t)
        BY <2>6, LoadSlots, TakeSlotSlots DEF takeSlot
    <2>7. CASE unlockModule(t)
        BY <2>0, <2>7, ReturnDoes, SlotsStay DEF unlockModule
    <2>8. CASE openBuffer(t)
        BY <2>0, <2>8, SlotsStay DEF openBuffer
    <2>9. CASE mapBuffer(t)
        <3>1. \/ UNCHANGED handles
              \/ \E base \in Nat : NewHandle(call[t].kind, base, call[t].size)
            BY <2>9, MapBufferDoes
        <3>2. call[t].kind # "fb"
            BY <2>9 DEF mapBuffer, Return, Goto, TypesCorrect, PlaceTypes, FitsAt
        <3>3. SlotHandles' = SlotHandles
            BY <3>1, <3>2 DEF NewHandle, SlotHandles
        <3> QED
            <4>1. /\ pc[t] = "map" /\ pc' = [pc EXCEPT ![t] = "idle"]
                  /\ \A u \in Threads \ {t} : call'[u] = call[u]
                BY <2>9, MapBufferDoes, ReturnDoes DEF TypesCorrect, PlaceTypes
            <4>2. UNCHANGED bufferMask
                BY <2>9, MapBufferDoes
            <4> QED
                BY <3>3, <4>1, <4>2, SlotsStay
    <2>10. CASE freeSlot(t)
        BY <2>10, LoadSlots, ClearSlotSlots DEF freeSlot
    <2>11. CASE unmapBuffer(t)
        BY <2>0, <2>11, SlotsStay DEF unmapBuffer
    <2>12. CASE terminateBuffer(t)
        BY <2>0, <2>12, SlotsStay DEF terminateBuffer
    <2>13. CASE closeBuffer(t)
        <3>1. /\ pc[t] = "close" /\ pc' = [pc EXCEPT ![t] = "idle"]
              /\ \A u \in Threads \ {t} : call'[u] = call[u]
            BY <2>13, ReturnDoes DEF closeBuffer, TypesCorrect, PlaceTypes
        <3> QED
            BY <2>0, <2>13, <3>1, SlotsStay DEF closeBuffer
    <2> QED
        BY <1>3, <2>1, <2>2, <2>3, <2>4, <2>5, <2>6, <2>7, <2>8, <2>9, <2>10, <2>11, <2>12, <2>13
           DEF InCall
<1>4. CASE otherMap \/ otherUnmap
    <2>1. UNCHANGED <<bufferMask, handles, pc, call>>
        BY <1>4 DEF otherMap, otherUnmap, slots
    <2>2. SlotHandles' = SlotHandles /\ HeldSlots' = HeldSlots /\ GivingBack' = GivingBack
        BY <2>1 DEF SlotHandles, HeldSlots, GivingBack
    <2> QED
        BY <2>1, <2>2 DEF SlotsHeld
<1> QED
    BY <1>1, <1>2, <1>3, <1>4 DEF Next

(* With one handle on a slot, handles and slots are as many.               *)
LEMMA SlotsCounted ==
    ASSUME IsFiniteSet(handles), \A g, h \in SlotHandles : g.base = h.base => g = h
    PROVE  Cardinality(SlotHandles) = Cardinality(HeldSlots)
<1> DEFINE f == [h \in SlotHandles |-> h.base]
<1>1. IsFiniteSet(SlotHandles)
    BY FS_Subset DEF SlotHandles
<1>2. f \in Bijection(SlotHandles, HeldSlots)
    <2>1. f \in [SlotHandles -> HeldSlots]
        BY DEF HeldSlots
    <2>2. \A g, h \in SlotHandles : f[g] = f[h] => g = h
        OBVIOUS
    <2>3. \A s \in HeldSlots : \E h \in SlotHandles : f[h] = s
        BY DEF HeldSlots
    <2> HIDE DEF f
    <2> QED
        BY <2>1, <2>2, <2>3 DEF Bijection, Injection, Surjection, IsInjective
<1> QED
    BY <1>1, <1>2, FS_Bijection DEF ExistsBijection
-----------------------------------------------------------------------------
(* Descriptors.                                                            *)
ClosingPlaces == {"take_load", "take_store", "map", "fb_load", "fb_store", "unmap", "terminate",
                  "close"}

(* A thread that comes to have, or no longer has, a descriptor to close.   *)
LEMMA ClosingMoves ==
    ASSUME TypesCorrect, IsFiniteSet(Closing), NEW t \in Threads, NEW to,
           pc' = [pc EXCEPT ![t] = to]
    PROVE  /\ IsFiniteSet(Closing')
           /\ (pc[t] \in ClosingPlaces <=> to \in ClosingPlaces) =>
                  Cardinality(Closing') = Cardinality(Closing)
           /\ pc[t] \notin ClosingPlaces /\ to \in ClosingPlaces =>
                  Cardinality(Closing') = Cardinality(Closing) + 1
           /\ pc[t] \in ClosingPlaces /\ to \notin ClosingPlaces =>
                  Cardinality(Closing') = Cardinality(Closing) - 1
<1>0. pc \in [Threads -> PCs]
    BY DEF TypesCorrect, PlaceTypes
<1>1. CASE pc[t] \in ClosingPlaces <=> to \in ClosingPlaces
    <2>1. Closing' = Closing
        BY <1>0, <1>1 DEF Closing, ClosingPlaces
    <2> QED
        BY <1>1, <2>1
<1>2. CASE pc[t] \notin ClosingPlaces /\ to \in ClosingPlaces
    <2>1. Closing' = Closing \cup {t} /\ t \notin Closing
        BY <1>0, <1>2 DEF Closing, ClosingPlaces
    <2> QED
        BY <1>2, <2>1, FS_AddElement
<1>3. CASE pc[t] \in ClosingPlaces /\ to \notin ClosingPlaces
    <2>1. Closing' = Closing \ {t} /\ t \in Closing
        BY <1>0, <1>3 DEF Closing, ClosingPlaces
    <2> QED
        BY <1>3, <2>1, FS_RemoveElement
<1> QED
    BY <1>1, <1>2, <1>3

(* A new handle is one more.                                               *)
LEMMA HandleCounts ==
    ASSUME IsFiniteSet(handles), NEW kind, NEW base, NEW size, NewHandle(kind, base, size)
    PROVE  IsFiniteSet(handles') /\ Cardinality(handles') = Cardinality(handles) + 1
<1>1. PICK id \in Ids \ {h.id : h \in handles} :
          handles' = handles \cup {[id |-> id, kind |-> kind, base |-> base, size |-> size]}
    BY DEF NewHandle
<1>2. [id |-> id, kind |-> kind, base |-> base, size |-> size] \notin handles
    BY <1>1
<1> QED
    BY <1>1, <1>2, FS_AddElement

(* Before the first call nothing is open.                                  *)
LEMMA InitAccounted == Init => Accounted
<1> SUFFICES ASSUME Init PROVE Accounted
    OBVIOUS
<1>1. handles = {} /\ Closing = {} /\ opened = 0 /\ OpenDevice = 0
    BY DEF Init, Closing, OpenDevice
<1> QED
    BY <1>1, FS_EmptySet DEF Accounted

(* A descriptor is opened for a handle or a call that will close it, and   *)
(* each is closed once: when its handle has gone, or where the call        *)
(* fails.                                                                  *)
LEMMA NextAccounted ==
    ASSUME TypesCorrect, Accounted, Next
    PROVE  Accounted'
<1> USE DEF slots, module, memory, mappings, Goto
<1>p. /\ \A p \in {"take_load", "take_store", "map", "fb_load", "fb_store", "unmap", "terminate",
                   "close"} : p \in ClosingPlaces
      /\ \A p \in {"idle", "fb_lock", "open", "fb_map", "fb_mask", "fb_unlock"} :
             p \notin ClosingPlaces
    BY DEF ClosingPlaces
<1>0. /\ IsFiniteSet(handles) /\ IsFiniteSet(Closing)
      /\ Cardinality(handles) \in Nat /\ Cardinality(Closing) \in Nat
      /\ opened = Cardinality(handles) + Cardinality(Closing) + OpenDevice
      /\ OpenDevice \in Nat
    BY FS_CardinalityType DEF Accounted, OpenDevice, TypesCorrect, ModuleTypes
<1>d. UNCHANGED module => OpenDevice' = OpenDevice
    BY DEF OpenDevice
<1>1. ASSUME NEW t \in Threads, gralloc_alloc(t) PROVE Accounted'
    <2>1. PICK to \in {"fb_lock", "open"} : pc' = [pc EXCEPT ![t] = to]
        BY <1>1, AllocateDoes
    <2>2. pc[t] = "idle" /\ UNCHANGED <<module, opened, handles>>
        BY <1>1, AllocateDoes
    <2> QED
        BY <1>0, <1>d, <1>p, <2>1, <2>2, ClosingMoves DEF Accounted
<1>2. ASSUME NEW t \in Threads, free_impl(t) PROVE Accounted'
    <2>1. PICK h \in handles, to \in {"fb_load", "terminate", "unmap"} :
              handles' = handles \ {h} /\ pc' = [pc EXCEPT ![t] = to]
        BY <1>2, FreeDoes
    <2>2. pc[t] = "idle" /\ UNCHANGED <<module, opened>>
        BY <1>2, FreeDoes
    <2>3. IsFiniteSet(handles') /\ Cardinality(handles') = Cardinality(handles) - 1
        BY <1>0, <1>d, <1>p, <2>1, FS_RemoveElement
    <2>4. IsFiniteSet(Closing') /\ Cardinality(Closing') = Cardinality(Closing) + 1
        BY <1>0, <1>d, <1>p, <2>1, <2>2, ClosingMoves
    <2> QED
        BY <1>0, <1>d, <1>p, <2>2, <2>3, <2>4 DEF Accounted
<1>3. ASSUME NEW t \in Threads, InCall(t) PROVE Accounted'
    <2>0. ASSUME NEW to, pc' = [pc EXCEPT ![t] = to], UNCHANGED <<module, opened, handles>>,
                 pc[t] \in ClosingPlaces <=> to \in ClosingPlaces
          PROVE  Accounted'
        BY <1>0, <1>d, <1>p, <2>0, ClosingMoves DEF Accounted
    <2>1. CASE lockModule(t)
        BY <1>p, <2>0, <2>1 DEF lockModule
    <2>2. CASE mapFrameBufferLocked(t)
        <3>1. PICK to \in {"fb_mask", "fb_unlock"} : pc' = [pc EXCEPT ![t] = to]
            BY <2>2, MapFramebufferDoes
        <3>2. pc[t] = "fb_map" /\ UNCHANGED handles
            BY <2>2, MapFramebufferDoes
        <3>3. IsFiniteSet(Closing') /\ Cardinality(Closing') = Cardinality(Closing)
            BY <1>0, <1>p, <3>1, <3>2, ClosingMoves
        <3>4. opened' - opened = OpenDevice' - OpenDevice
            BY <1>0, <2>2, MapFramebufferDoes DEF OpenDevice, TypesCorrect, ModuleTypes
        <3>5. OpenDevice' \in Nat
            BY <2>2, MapFramebufferDoes DEF OpenDevice, TypesCorrect, ModuleTypes
        <3>6. opened \in Nat /\ opened' \in Int
            BY <1>0, <2>2, MapFramebufferDoes
        <3> QED
            BY <1>0, <3>2, <3>3, <3>4, <3>5, <3>6 DEF Accounted
    <2>3. CASE allocRegular(t)
        <3>1. /\ pc[t] = "fb_mask" /\ pc' = [pc EXCEPT ![t] = "fb_unlock"]
              /\ \/ opened' = opened + 1 /\ NewHandle("pmem", 0, call[t].size)
                 \/ UNCHANGED <<opened, handles>>
              /\ UNCHANGED module
            BY <2>3 DEF allocRegular
        <3>2. IsFiniteSet(Closing') /\ Cardinality(Closing') = Cardinality(Closing)
            BY <1>0, <1>d, <1>p, <3>1, ClosingMoves
        <3> QED
            BY <1>0, <1>d, <1>p, <3>1, <3>2, HandleCounts DEF Accounted
    <2>4. CASE ranOut(t)
        BY <1>p, <2>0, <2>4 DEF ranOut
    <2>5. CASE findSlot(t)
        <3>1. IsFiniteSet(Closing') /\ Cardinality(Closing') = Cardinality(Closing) + 1
            BY <1>0, <1>d, <1>p, <2>5, ClosingMoves DEF findSlot
        <3> QED
            BY <1>0, <1>d, <1>p, <2>5, <3>1 DEF findSlot, Accounted
    <2>6. CASE takeSlot(t)
        <3>1. CASE Load(t, "take_load", "take_store")
            BY <1>p, <2>0, <3>1 DEF Load
        <3>2. CASE /\ Goto(t, "take_store", "fb_unlock")
                   /\ NewHandle("fb", call[t].base, call[t].size)
                   /\ UNCHANGED <<module, memory>>
            <4>1. IsFiniteSet(Closing') /\ Cardinality(Closing') = Cardinality(Closing) - 1
                BY <1>0, <1>d, <1>p, <3>2, ClosingMoves
            <4> QED
                BY <1>0, <1>d, <1>p, <3>2, <4>1, HandleCounts DEF Accounted
        <3> QED
            BY <2>6, <3>1, <3>2 DEF takeSlot
    <2>7. CASE unlockModule(t)
        BY <1>p, <2>0, <2>7 DEF unlockModule, Return
    <2>8. CASE openBuffer(t)
        <3>1. IsFiniteSet(Closing') /\ Cardinality(Closing') = Cardinality(Closing) + 1
            BY <1>0, <1>d, <1>p, <2>8, ClosingMoves DEF openBuffer
        <3> QED
            BY <1>0, <1>d, <1>p, <2>8, <3>1 DEF openBuffer, Accounted
    <2>9. CASE mapBuffer(t)
        <3>1. IsFiniteSet(Closing') /\ Cardinality(Closing') = Cardinality(Closing) - 1
            BY <1>0, <1>d, <1>p, <2>9, ClosingMoves DEF mapBuffer, Return
        <3>2. \/ opened' = opened - 1 /\ UNCHANGED handles
              \/ opened' = opened /\ \E kind, base : NewHandle(kind, base, call[t].size)
            BY <2>9, MapBufferDoes
        <3>3. UNCHANGED module
            BY <2>9, MapBufferDoes
        <3> QED
            BY <1>0, <1>d, <1>p, <3>1, <3>2, <3>3, HandleCounts DEF Accounted
    <2>10. CASE freeSlot(t)
        BY <1>p, <2>0, <2>10 DEF freeSlot, Load
    <2>11. CASE unmapBuffer(t)
        BY <1>p, <2>0, <2>11 DEF unmapBuffer
    <2>12. CASE terminateBuffer(t)
        BY <1>p, <2>0, <2>12 DEF terminateBuffer
    <2>13. CASE closeBuffer(t)
        <3>1. IsFiniteSet(Closing') /\ Cardinality(Closing') = Cardinality(Closing) - 1
            BY <1>0, <1>d, <1>p, <2>13, ClosingMoves DEF closeBuffer, Return
        <3> QED
            BY <1>0, <1>d, <1>p, <2>13, <3>1 DEF closeBuffer, Accounted
    <2> QED
        BY <1>3, <2>1, <2>2, <2>3, <2>4, <2>5, <2>6, <2>7, <2>8, <2>9, <2>10, <2>11, <2>12, <2>13
           DEF InCall
<1>4. CASE otherMap \/ otherUnmap
    <2>1. UNCHANGED <<module, opened, handles, pc>>
        BY <1>4 DEF otherMap, otherUnmap
    <2>2. Closing' = Closing
        BY <2>1 DEF Closing
    <2> QED
        BY <1>0, <1>d, <1>p, <2>1, <2>2 DEF Accounted
<1> QED
    BY <1>1, <1>2, <1>3, <1>4 DEF Next
-----------------------------------------------------------------------------
(* Memory.                                                                 *)
LEMMA InitPages == Init => PagesOwned
BY DEF Init, PagesOwned, Nothing, MappedKinds

(* A step that keeps the handles, takes no thread away from unmapping and  *)
(* maps nothing.                                                           *)
LEMMA PagesStay ==
    ASSUME TypesCorrect, PagesOwned,
           \A p \in Addresses : space'[p].kind \in MappedKinds => space'[p] = space[p],
           \A h \in handles : h.kind \in MappedKinds => h \in handles',
           \A u \in Unmapping : u \in Unmapping' /\ call'[u] = call[u]
    PROVE  PagesOwned'
<1> SUFFICES ASSUME NEW p \in Addresses, space'[p].kind \in MappedKinds
             PROVE  \/ \E h \in handles' : Holds(h, p)'
                    \/ \E u \in Unmapping' : Holds(call[u], p)'
    BY DEF PagesOwned
<1>1. space'[p] = space[p]
    OBVIOUS
<1>2. CASE \E h \in handles : Holds(h, p)
    <2>1. PICK h \in handles : Holds(h, p)
        BY <1>2
    <2>2. h \in handles'
        BY <1>1, <2>1 DEF Holds
    <2> QED
        BY <1>1, <2>1, <2>2 DEF Holds
<1>3. CASE \E u \in Unmapping : Holds(call[u], p)
    <2>1. PICK u \in Unmapping : Holds(call[u], p)
        BY <1>3
    <2> QED
        BY <1>1, <2>1 DEF Holds
<1> QED
    BY <1>1, <1>2, <1>3 DEF PagesOwned

(* Threads that move between other places take nothing from the unmapping. *)
LEMMA UnmappingStays ==
    ASSUME TypesCorrect, NEW t \in Threads, NEW to, pc' = [pc EXCEPT ![t] = to],
           pc[t] # "unmap", \A u \in Threads \ {t} : call'[u] = call[u]
    PROVE  \A u \in Unmapping : u \in Unmapping' /\ call'[u] = call[u]
BY DEF TypesCorrect, PlaceTypes, Unmapping

(* A new handle is added to those there are.                               *)
LEMMA NewHandleKeeps ==
    ASSUME NEW kind, NEW base, NEW size, NewHandle(kind, base, size)
    PROVE  handles \subseteq handles'
BY DEF NewHandle

(* Every step leaves each mapped page with a handle, or with a call that   *)
(* will unmap it.                                                          *)
LEMMA NextPages ==
    ASSUME TypesCorrect, PagesOwned, Next
    PROVE  PagesOwned'
<1> USE DEF slots, module, memory, mappings, Goto
<1>1. ASSUME NEW t \in Threads, gralloc_alloc(t) PROVE PagesOwned'
    <2>1. PICK to \in {"fb_lock", "open"} : pc' = [pc EXCEPT ![t] = to]
        BY <1>1, AllocateDoes
    <2>2. /\ pc[t] = "idle" /\ UNCHANGED <<space, handles>>
          /\ \A u \in Threads \ {t} : call'[u] = call[u]
        BY <1>1, AllocateDoes DEF Fills
    <2> QED
        BY <2>1, <2>2, UnmappingStays, PagesStay
<1>2. ASSUME NEW t \in Threads, free_impl(t) PROVE PagesOwned'
    <2>1. PICK h \in handles, to \in {"fb_load", "terminate", "unmap"} :
              /\ handles' = handles \ {h}
              /\ to = "unmap" <=> h.kind \in MappedKinds
              /\ pc' = [pc EXCEPT ![t] = to]
              /\ Fills(t, h.kind, h.base, h.size, {})
        BY <1>2, FreeDoes
    <2>2. pc[t] = "idle" /\ UNCHANGED space
        BY <1>2, FreeDoes
    <2>3. \A u \in Unmapping : u \in Unmapping' /\ call'[u] = call[u]
        BY <2>1, <2>2, UnmappingStays DEF Fills
    <2>4. CASE h.kind \notin MappedKinds
        BY <2>1, <2>2, <2>3, <2>4, PagesStay
    <2>5. CASE h.kind \in MappedKinds
        <3>1. t \in Unmapping'
            BY <2>1, <2>5 DEF Unmapping, TypesCorrect, PlaceTypes
        <3> SUFFICES ASSUME NEW p \in Addresses, space'[p].kind \in MappedKinds
                     PROVE  \/ \E g \in handles' : Holds(g, p)'
                            \/ \E u \in Unmapping' : Holds(call[u], p)'
            BY DEF PagesOwned
        <3>2. CASE \E g \in handles : Holds(g, p)
            <4>1. PICK g \in handles : Holds(g, p)
                BY <3>2
            <4>2. CASE g = h
                BY <2>1, <2>2, <3>1, <4>1, <4>2 DEF Holds, Fills
            <4>3. CASE g # h
                BY <2>1, <2>2, <4>1, <4>3 DEF Holds
            <4> QED
                BY <4>2, <4>3
        <3>3. CASE \E u \in Unmapping : Holds(call[u], p)
            BY <2>2, <2>3, <3>3 DEF Holds
        <3> QED
            BY <2>2, <3>2, <3>3 DEF PagesOwned
    <2> QED
        BY <2>4, <2>5
<1>3. ASSUME NEW t \in Threads, InCall(t) PROVE PagesOwned'
    <2>0. PICK to \in PCs :
              pc' = [pc EXCEPT ![t] = to] /\ \A u \in Threads \ {t} : call'[u] = call[u]
        BY <1>3, InCallMoves
    <2>k. ASSUME pc[t] # "unmap", space' = space, handles \subseteq handles' PROVE PagesOwned'
        BY <2>0, <2>k, UnmappingStays, PagesStay
    <2>1. CASE lockModule(t)
        BY <2>k, <2>1 DEF lockModule
    <2>2. CASE mapFrameBufferLocked(t)
        BY <2>k, <2>2, MapFramebufferDoes
    <2>3. CASE allocRegular(t)
        BY <2>k, <2>3, NewHandleKeeps DEF allocRegular
    <2>4. CASE ranOut(t)
        BY <2>k, <2>4 DEF ranOut
    <2>5. CASE findSlot(t)
        BY <2>k, <2>5 DEF findSlot
    <2>6. CASE takeSlot(t)
        BY <2>k, <2>6, NewHandleKeeps DEF takeSlot, Load
    <2>7. CASE unlockModule(t)
        BY <2>k, <2>7 DEF unlockModule, Return
    <2>8. CASE openBuffer(t)
        BY <2>k, <2>8 DEF openBuffer
    <2>9. CASE mapBuffer(t)
        <3>0. pc[t] = "map"
            BY <2>9 DEF mapBuffer, Return
        <3>1. CASE \E base \in Nat :
                       /\ Map(base, MappedSize(call[t].kind, call[t].size),
                              [kind |-> call[t].kind, base |-> base])
                       /\ NewHandle(call[t].kind, base, call[t].size)
            <4>1. PICK base \in Nat :
                       /\ Map(base, MappedSize(call[t].kind, call[t].size),
                              [kind |-> call[t].kind, base |-> base])
                       /\ NewHandle(call[t].kind, base, call[t].size)
                BY <3>1
            <4> SUFFICES ASSUME NEW p \in Addresses, space'[p].kind \in MappedKinds
                         PROVE  \/ \E g \in handles' : Holds(g, p)'
                                \/ \E u \in Unmapping' : Holds(call[u], p)'
                BY DEF PagesOwned
            <4>2. CASE p \in Extent(base, MappedSize(call[t].kind, call[t].size))
                <5>1. space'[p] = [kind |-> call[t].kind, base |-> base]
                    BY <4>1, <4>2 DEF Map, Put
                <5>2. \E h \in handles' : /\ h.kind = call[t].kind /\ h.base = base
                                          /\ h.size = call[t].size
                    <6>1. PICK id \in Ids : handles' = handles \cup
                              {[id |-> id, kind |-> call[t].kind, base |-> base,
                                size |-> call[t].size]}
                        BY <4>1 DEF NewHandle
                    <6>2. PICK h : h = [id |-> id, kind |-> call[t].kind, base |-> base,
                                        size |-> call[t].size]
                        OBVIOUS
                    <6> QED
                        BY <6>1, <6>2
                <5> QED
                    BY <4>2, <5>1, <5>2 DEF Holds
            <4>3. CASE p \notin Extent(base, MappedSize(call[t].kind, call[t].size))
                <5>1. space'[p] = space[p]
                    BY <4>1, <4>3 DEF Map, Put
                <5>2. handles \subseteq handles'
                    BY <4>1, NewHandleKeeps
                <5>3. \A u \in Unmapping : u \in Unmapping' /\ call'[u] = call[u]
                    BY <2>0, <3>0, UnmappingStays
                <5>4. CASE \E g \in handles : Holds(g, p)
                    BY <5>1, <5>2, <5>4 DEF Holds
                <5>5. CASE \E u \in Unmapping : Holds(call[u], p)
                    BY <5>1, <5>3, <5>5 DEF Holds
                <5> QED
                    BY <5>1, <5>4, <5>5 DEF PagesOwned
            <4> QED
                BY <4>2, <4>3
        <3>2. CASE space' = space /\ handles \subseteq handles'
            BY <2>k, <3>0, <3>2
        <3> QED
            BY <2>9, <3>1, <3>2, MapBufferDoes, NewHandleKeeps
    <2>10. CASE freeSlot(t)
        BY <2>k, <2>10 DEF freeSlot, Load
    <2>11. CASE unmapBuffer(t)
        <3>0. /\ pc[t] = "unmap" /\ pc' = [pc EXCEPT ![t] = "terminate"]
              /\ UNCHANGED <<handles, call>>
            BY <2>11 DEF unmapBuffer
        <3> SUFFICES ASSUME NEW p \in Addresses, space'[p].kind \in MappedKinds
                     PROVE  \/ \E g \in handles' : Holds(g, p)'
                            \/ \E u \in Unmapping' : Holds(call[u], p)'
            BY DEF PagesOwned
        <3>1. p \notin Extent(call[t].base, MappedSize(call[t].kind, call[t].size))
            BY <2>11 DEF unmapBuffer, Unmap, Put, Nothing, MappedKinds
        <3>2. space'[p] = space[p]
            BY <2>11, <3>1 DEF unmapBuffer, Unmap, Put
        <3>3. CASE \E g \in handles : Holds(g, p)
            BY <3>0, <3>2, <3>3 DEF Holds
        <3>4. CASE \E u \in Unmapping : Holds(call[u], p)
            <4>1. PICK u \in Unmapping : Holds(call[u], p)
                BY <3>4
            <4>2. u # t
                BY <3>1, <4>1 DEF Holds
            <4>3. u \in Unmapping'
                BY <3>0, <4>2 DEF Unmapping, TypesCorrect, PlaceTypes
            <4> QED
                BY <3>0, <3>2, <4>1, <4>3 DEF Holds
        <3> QED
            BY <3>2, <3>3, <3>4 DEF PagesOwned
    <2>12. CASE terminateBuffer(t)
        <3>1. \A p \in Addresses : space'[p].kind \in MappedKinds => space'[p] = space[p]
            BY <2>12 DEF terminateBuffer, Unmap, Put, Nothing, MappedKinds
        <3>2. pc[t] # "unmap" /\ handles' = handles
            BY <2>12 DEF terminateBuffer
        <3> QED
            BY <2>0, <3>1, <3>2, UnmappingStays, PagesStay
    <2>13. CASE closeBuffer(t)
        BY <2>k, <2>13 DEF closeBuffer, Return
    <2> QED
        BY <1>3, <2>1, <2>2, <2>3, <2>4, <2>5, <2>6, <2>7, <2>8, <2>9, <2>10, <2>11, <2>12, <2>13
           DEF InCall
<1>4. CASE otherMap \/ otherUnmap
    <2>1. UNCHANGED <<handles, pc, call>>
        BY <1>4 DEF otherMap, otherUnmap
    <2>2. \A p \in Addresses : space'[p].kind \in MappedKinds => space'[p] = space[p]
        <3>1. CASE otherMap
            BY <3>1 DEF otherMap, Map, Put, Other, MappedKinds
        <3>2. CASE otherUnmap
            BY <3>2 DEF otherUnmap, Nothing, MappedKinds
        <3> QED
            BY <1>4, <3>1, <3>2
    <2> QED
        BY <2>1, <2>2, PagesStay DEF Unmapping
<1> QED
    BY <1>1, <1>2, <1>3, <1>4 DEF Next

(* Before the first call nothing is mapped.                                *)
LEMMA InitMemory == Init => MemoryIntact /\ OthersIntact
BY DEF Init, MemoryIntact, OthersIntact, Unmapping

(* A step that leaves mapped memory as it is, but for pages that are torn, *)
(* and adds no owner of any.                                               *)
LEMMA MemoryStays ==
    ASSUME TypesCorrect, MemoryIntact, torn \subseteq torn',
           \A p \in Addresses \ torn' : space[p].kind \in MappedKinds => space'[p] = space[p],
           \A h \in handles' : h.kind \in MappedKinds => h \in handles,
           \A u \in Unmapping' : u \in Unmapping /\ call'[u] = call[u]
    PROVE  MemoryIntact'
<1>1. ASSUME NEW b, Intact(b) PROVE Intact(b)'
    BY <1>1 DEF Intact, Area
<1>2. \A h \in handles' : Intact(h)'
    <2> SUFFICES ASSUME NEW h \in handles', h.kind \in MappedKinds PROVE Intact(h)'
        BY DEF Intact
    <2> QED
        BY <1>1 DEF MemoryIntact
<1>3. \A u \in Unmapping' : Intact(call[u])'
    BY <1>1 DEF MemoryIntact, Intact, Area
<1>4. \A g, h \in handles' : g = h \/ Apart(g, h)'
    BY DEF MemoryIntact, Apart, Area
<1>5. \A t, u \in Unmapping' : t = u \/ Apart(call[t], call[u])'
    BY DEF MemoryIntact, Apart, Area
<1>6. \A h \in handles', u \in Unmapping' : Apart(h, call[u])'
    BY DEF MemoryIntact, Apart, Area
<1> QED
    BY <1>2, <1>3, <1>4, <1>5, <1>6 DEF MemoryIntact, Apart, Intact, Area

(* Handles, and calls that will unmap, have places and sizes for their     *)
(* memory.                                                                 *)
LEMMA OwnersTyped ==
    ASSUME TypesCorrect
    PROVE  /\ \A h \in handles : h.base \in Nat /\ h.size \in Sizes /\ h.kind \in AllKinds
           /\ \A t \in Unmapping : /\ call[t].base \in Nat /\ call[t].size \in Sizes
                                   /\ call[t].kind \in MappedKinds
<1>1. \A h \in handles : h.base \in Nat /\ h.size \in Sizes /\ h.kind \in AllKinds
    BY DEF TypesCorrect, HandleTypes, Handle
<1>2. \A t \in Unmapping : /\ call[t].base \in Nat /\ call[t].size \in Sizes
                           /\ call[t].kind \in MappedKinds
    BY DEF TypesCorrect, PlaceTypes, FitsAt, Calls, Unmapping
<1> QED
    BY <1>1, <1>2

(* A buffer is given up: the call becomes the owner of its memory.         *)
LEMMA FreeMemory ==
    ASSUME TypesCorrect, MemoryIntact, NEW t \in Threads, free_impl(t)
    PROVE  MemoryIntact'
<1>1. PICK h \in handles, to \in {"fb_load", "terminate", "unmap"} :
          /\ handles' = handles \ {h}
          /\ to = "unmap" <=> h.kind \in MappedKinds
          /\ pc' = [pc EXCEPT ![t] = to]
          /\ Fills(t, h.kind, h.base, h.size, {})
    BY FreeDoes
<1>2. pc[t] = "idle" /\ UNCHANGED <<space, torn>>
    BY FreeDoes DEF memory, mappings
<1>3. pc \in [Threads -> PCs]
    BY DEF TypesCorrect, PlaceTypes
<1>4. CASE h.kind \notin MappedKinds
    <2>1. \A u \in Unmapping' : u \in Unmapping /\ call'[u] = call[u]
        BY <1>1, <1>2, <1>3, <1>4 DEF Unmapping, Fills
    <2> QED
        BY <1>1, <1>2, <2>1, MemoryStays
<1>5. CASE h.kind \in MappedKinds
    <2>1. Unmapping' = Unmapping \cup {t} /\ t \notin Unmapping
        BY <1>1, <1>2, <1>3, <1>5 DEF Unmapping
    <2>2. \A u \in Unmapping : call'[u] = call[u]
        BY <1>1, <2>1 DEF Fills, Unmapping
    <2>3. call'[t].kind = h.kind /\ call'[t].base = h.base /\ call'[t].size = h.size
        BY <1>1 DEF Fills
    <2>4. \A g \in handles' : Intact(g)'
        BY <1>1, <1>2 DEF MemoryIntact, Intact, Area
    <2>5. \A u \in Unmapping' : Intact(call[u])'
        <3>1. Intact(call[t])'
            BY <1>1, <1>2, <2>3 DEF MemoryIntact, Intact, Area
        <3>2. \A u \in Unmapping : Intact(call[u])'
            BY <1>2, <2>2 DEF MemoryIntact, Intact, Area
        <3> QED
            BY <2>1, <3>1, <3>2
    <2>6. \A g, k \in handles' : g = k \/ Apart(g, k)'
        BY <1>1, <1>2 DEF MemoryIntact, Apart, Area
    <2>7. \A u, v \in Unmapping' : u = v \/ Apart(call[u], call[v])'
        BY <1>2, <2>1, <2>2, <2>3 DEF MemoryIntact, Apart, Area
    <2>8. \A g \in handles', u \in Unmapping' : Apart(g, call[u])'
        BY <1>1, <1>2, <2>1, <2>2, <2>3 DEF MemoryIntact, Apart, Area
    <2> QED
        BY <2>4, <2>5, <2>6, <2>7, <2>8 DEF MemoryIntact, Apart, Intact, Area
<1> QED
    BY <1>4, <1>5

(* Memory is mapped where nothing was: another owner lost those pages.     *)
LEMMA MapMemory ==
    ASSUME TypesCorrect, MemoryIntact, NEW t \in Threads, Return(t, "map"), UNCHANGED torn,
           NEW kind \in MappedKinds, NEW base \in Nat, NEW size \in Sizes,
           Map(base, MappedSize(kind, size), [kind |-> kind, base |-> base]),
           NewHandle(kind, base, size)
    PROVE  MemoryIntact'
<1>1. PICK id \in Ids : handles' = handles \cup
          {[id |-> id, kind |-> kind, base |-> base, size |-> size]}
    BY DEF NewHandle
<1>2. PICK h : h = [id |-> id, kind |-> kind, base |-> base, size |-> size]
    OBVIOUS
<1>3. /\ handles' = handles \cup {h}
      /\ h.kind = kind /\ h.base = base /\ Area(h) = Extent(base, MappedSize(kind, size))
    BY <1>1, <1>2 DEF Area
<1>4. Unmapping' = Unmapping /\ \A u \in Unmapping : call'[u] = call[u]
    BY DEF TypesCorrect, PlaceTypes, Unmapping, Return, Goto
<1>5. \A p \in Area(h) :
          p \in Addresses /\ space[p] = Nothing /\ space'[p] = [kind |-> kind, base |-> base]
    BY <1>3 DEF Map, Put
<1>6. \A p \in Addresses : space[p].kind \in MappedKinds => space'[p] = space[p]
    BY DEF Map, Put, Nothing, MappedKinds
<1>8. ASSUME NEW b, Intact(b) PROVE Apart(b, h) /\ Apart(h, b)
    <2> SUFFICES ASSUME b.kind \in MappedKinds, NEW p \in Area(b) \cap Area(h), p \notin torn
                 PROVE  FALSE
        BY DEF Apart
    <2>1. space[p] = [kind |-> b.kind, base |-> b.base] /\ space[p] = Nothing
        BY <1>5, <1>8 DEF Intact
    <2>2. space[p].kind = b.kind /\ space[p].kind = "nothing"
        BY <2>1 DEF Nothing
    <2> QED
        BY <2>2 DEF MappedKinds
<1>9. ASSUME NEW b, Intact(b) PROVE Intact(b)'
    BY <1>6, <1>9 DEF Intact, Area
<1>10. \A g \in handles' : Intact(g)'
    <2>1. Intact(h)'
        BY <1>3, <1>5 DEF Intact, Area
    <2>2. \A g \in handles : Intact(g)'
        BY <1>9 DEF MemoryIntact
    <2> QED
        BY <1>3, <2>1, <2>2
<1>11. \A u \in Unmapping' : Intact(call[u])'
    BY <1>4, <1>6 DEF MemoryIntact, Intact, Area
<1>12. \A g, k \in handles' : g = k \/ Apart(g, k)'
    <2>1. \A g, k \in handles' : g = k \/ Apart(g, k)
        BY <1>3, <1>8 DEF MemoryIntact
    <2> QED
        BY <2>1 DEF Apart, Area
<1>13. \A u, v \in Unmapping' : u = v \/ Apart(call[u], call[v])'
    BY <1>4 DEF MemoryIntact, Apart, Area
<1>14. \A g \in handles', u \in Unmapping' : Apart(g, call[u])'
    <2>1. \A g \in handles', u \in Unmapping : Apart(g, call[u])
        BY <1>3, <1>8 DEF MemoryIntact
    <2> QED
        BY <1>4, <2>1 DEF Apart, Area
<1> QED
    BY <1>10, <1>11, <1>12, <1>13, <1>14 DEF MemoryIntact, Apart, Intact, Area

(* Memory is unmapped: no page of another owner is among it that was not   *)
(* lost before.                                                            *)
LEMMA UnmapMemory ==
    ASSUME TypesCorrect, MemoryIntact, NEW t \in Threads, unmapBuffer(t)
    PROVE  MemoryIntact'
<1>1. /\ pc[t] = "unmap" /\ pc' = [pc EXCEPT ![t] = "terminate"]
      /\ UNCHANGED <<torn, handles, call>>
      /\ space' = [p \in Addresses |-> IF p \in Area(call[t]) THEN Nothing ELSE space[p]]
    BY DEF unmapBuffer, Goto, Unmap, Put, Area
<1>2. Unmapping' = Unmapping \ {t} /\ t \in Unmapping
    BY <1>1 DEF Unmapping, TypesCorrect, PlaceTypes
<1>3. call[t].kind \in MappedKinds /\ Intact(call[t])
    BY <1>2, OwnersTyped DEF MemoryIntact
<1>4. ASSUME NEW b, Intact(b), Apart(b, call[t]) PROVE Intact(b)'
    <2> SUFFICES ASSUME b.kind \in MappedKinds, NEW p \in Area(b)
                 PROVE  /\ p \in Addresses
                        /\ p \notin torn => space'[p] = [kind |-> b.kind, base |-> b.base]
        BY <1>1 DEF Intact, Area
    <2>1. p \in Addresses /\ (p \notin torn => space[p] = [kind |-> b.kind, base |-> b.base])
        BY <1>4 DEF Intact
    <2>2. p \notin torn => p \notin Area(call[t])
        BY <1>3, <1>4 DEF Apart
    <2> QED
        BY <1>1, <2>1, <2>2
<1>5. \A h \in handles' : Intact(h)'
    BY <1>1, <1>2, <1>4 DEF MemoryIntact
<1>6. \A u \in Unmapping' : Intact(call[u])'
    <2> SUFFICES ASSUME NEW u \in Unmapping \ {t} PROVE Intact(call[u])'
        BY <1>2
    <2>1. PICK b : b = call[u]
        OBVIOUS
    <2>2. Intact(b) /\ Apart(b, call[t])
        BY <1>2, <2>1 DEF MemoryIntact
    <2>3. Intact(b)'
        BY <1>4, <2>2
    <2> QED
        BY <1>1, <2>1, <2>3 DEF Intact, Area
<1>7. \A g, h \in handles' : g = h \/ Apart(g, h)'
    BY <1>1 DEF MemoryIntact, Apart, Area
<1>8. \A u, v \in Unmapping' : u = v \/ Apart(call[u], call[v])'
    BY <1>1, <1>2 DEF MemoryIntact, Apart, Area
<1>9. \A h \in handles', u \in Unmapping' : Apart(h, call[u])'
    BY <1>1, <1>2 DEF MemoryIntact, Apart, Area
<1> QED
    BY <1>5, <1>6, <1>7, <1>8, <1>9 DEF MemoryIntact, Apart, Intact, Area

(* The second munmap() changes pages that were somebody's, and those are   *)
(* torn; or it finds nothing.                                              *)
LEMMA TerminateSpace ==
    ASSUME TypesCorrect, NEW t \in Threads, terminateBuffer(t)
    PROVE  torn \subseteq torn' /\ \A p \in Addresses \ torn' : space'[p] = space[p]
BY DEF terminateBuffer, Unmap, Put

(* Every step keeps the pages of each buffer its own, but for those that   *)
(* are torn.                                                               *)
LEMMA NextMemory ==
    ASSUME TypesCorrect, OthersIntact, MemoryIntact, Next
    PROVE  MemoryIntact'
<1> USE DEF slots, module, memory, mappings, Goto
<1>0. pc \in [Threads -> PCs]
    BY DEF TypesCorrect, PlaceTypes
<1>a. ASSUME NEW t \in Threads, NEW to, pc' = [pc EXCEPT ![t] = to], to # "unmap",
             \A u \in Threads \ {t} : call'[u] = call[u]
      PROVE  \A u \in Unmapping' : u \in Unmapping /\ call'[u] = call[u]
    BY <1>0, <1>a DEF Unmapping
<1>1. ASSUME NEW t \in Threads, gralloc_alloc(t) PROVE MemoryIntact'
    <2>1. PICK to \in {"fb_lock", "open"} : pc' = [pc EXCEPT ![t] = to]
        BY <1>1, AllocateDoes
    <2>2. UNCHANGED <<space, torn, handles>> /\ \A u \in Threads \ {t} : call'[u] = call[u]
        BY <1>1, AllocateDoes DEF Fills
    <2>3. \A u \in Unmapping' : u \in Unmapping /\ call'[u] = call[u]
        BY <1>a, <2>1, <2>2
    <2> QED
        BY <2>2, <2>3, MemoryStays
<1>2. ASSUME NEW t \in Threads, free_impl(t) PROVE MemoryIntact'
    BY <1>2, FreeMemory
<1>3. ASSUME NEW t \in Threads, InCall(t) PROVE MemoryIntact'
    <2>0. PICK to \in PCs :
              pc' = [pc EXCEPT ![t] = to] /\ \A u \in Threads \ {t} : call'[u] = call[u]
        BY <1>3, InCallMoves
    <2>k. ASSUME pc'[t] # "unmap", torn \subseteq torn',
                 \A p \in Addresses \ torn' : space'[p] = space[p],
                 \A h \in handles' : h.kind \in MappedKinds => h \in handles
          PROVE  MemoryIntact'
        BY <1>0, <1>a, <2>0, <2>k, MemoryStays
    <2>l. \A to2 : Goto(t, pc[t], to2) => pc'[t] = to2
        BY <1>0
    <2>1. CASE lockModule(t)
        BY <1>0, <2>k, <2>1 DEF lockModule
    <2>2. CASE mapFrameBufferLocked(t)
        BY <1>0, <2>k, <2>2, MapFramebufferDoes
    <2>3. CASE allocRegular(t)
        <3>1. \A h \in handles' : h.kind \in MappedKinds => h \in handles
            BY <2>3 DEF allocRegular, NewHandle, MappedKinds
        <3> QED
            BY <1>0, <2>k, <2>3, <3>1 DEF allocRegular
    <2>4. CASE ranOut(t)
        BY <1>0, <2>k, <2>4 DEF ranOut
    <2>5. CASE findSlot(t)
        BY <1>0, <2>k, <2>5 DEF findSlot
    <2>6. CASE takeSlot(t)
        <3>1. \A h \in handles' : h.kind \in MappedKinds => h \in handles
            BY <2>6 DEF takeSlot, Load, NewHandle, MappedKinds
        <3> QED
            BY <1>0, <2>k, <2>6, <3>1 DEF takeSlot, Load
    <2>7. CASE unlockModule(t)
        BY <1>0, <2>k, <2>7 DEF unlockModule, Return
    <2>8. CASE openBuffer(t)
        BY <1>0, <2>k, <2>8 DEF openBuffer
    <2>9. CASE mapBuffer(t)
        <3>1. CASE \E base \in Nat :
                       /\ Map(base, MappedSize(call[t].kind, call[t].size),
                              [kind |-> call[t].kind, base |-> base])
                       /\ NewHandle(call[t].kind, base, call[t].size)
                       /\ call[t].kind \in MappedKinds
            BY <2>9, <3>1, MapBufferDoes, MapMemory
        <3>2. CASE /\ UNCHANGED <<space, torn>>
                   /\ UNCHANGED handles \/ NewHandle("pmem", 0, call[t].size)
            <4>1. \A h \in handles' : h.kind \in MappedKinds => h \in handles
                BY <3>2 DEF NewHandle, MappedKinds
            <4>2. pc'[t] = "idle"
                BY <1>0, <2>9 DEF mapBuffer, Return
            <4> QED
                BY <2>k, <3>2, <4>1, <4>2
        <3> QED
            BY <2>9, <3>1, <3>2, MapBufferDoes
    <2>10. CASE freeSlot(t)
        BY <1>0, <2>k, <2>10 DEF freeSlot, Load
    <2>11. CASE unmapBuffer(t)
        BY <2>11, UnmapMemory
    <2>12. CASE terminateBuffer(t)
        BY <1>0, <2>k, <2>12, TerminateSpace DEF terminateBuffer
    <2>13. CASE closeBuffer(t)
        BY <1>0, <2>k, <2>13 DEF closeBuffer, Return
    <2> QED
        BY <1>3, <2>1, <2>2, <2>3, <2>4, <2>5, <2>6, <2>7, <2>8, <2>9, <2>10, <2>11, <2>12, <2>13
           DEF InCall
<1>4. CASE otherMap \/ otherUnmap
    <2>1. UNCHANGED <<torn, handles, pc, call>>
        BY <1>4 DEF otherMap, otherUnmap
    <2>2. \A p \in Addresses \ torn : space[p].kind \in MappedKinds => space'[p] = space[p]
        <3>1. CASE otherMap
            BY <3>1 DEF otherMap, Map, Put, Nothing, MappedKinds
        <3>2. CASE otherUnmap
            BY <3>2 DEF otherUnmap, OthersIntact, Other, MappedKinds
        <3> QED
            BY <1>4, <3>1, <3>2
    <2> QED
        BY <2>1, <2>2, MemoryStays DEF Unmapping
<1> QED
    BY <1>1, <1>2, <1>3, <1>4 DEF Next

(* No step takes a page from other code but its own munmap().              *)
LEMMA NextOthers ==
    ASSUME TypesCorrect, OthersIntact, MemoryIntact, Next
    PROVE  OthersIntact'
<1> USE DEF slots, module, memory, mappings, Goto
<1>a. ASSUME UNCHANGED foreign, torn \subseteq torn',
             \A p \in Addresses \ torn' : space[p] = Other => space'[p] = space[p]
      PROVE  OthersIntact'
    BY <1>a DEF OthersIntact, TypesCorrect, MemoryTypes
<1>1. ASSUME NEW t \in Threads, gralloc_alloc(t) PROVE OthersIntact'
    BY <1>a, <1>1 DEF gralloc_alloc
<1>2. ASSUME NEW t \in Threads, free_impl(t) PROVE OthersIntact'
    BY <1>a, <1>2 DEF free_impl
<1>3. ASSUME NEW t \in Threads, InCall(t) PROVE OthersIntact'
    <2>1. CASE mapFrameBufferLocked(t)
        BY <1>a, <2>1, MapFramebufferDoes
    <2>2. CASE mapBuffer(t)
        <3>1. \A p \in Addresses : space[p] = Other => space'[p] = space[p]
            BY <2>2 DEF mapBuffer, Map, Put, Nothing, Other
        <3> QED
            BY <1>a, <2>2, <3>1, MapBufferDoes
    <2>3. CASE unmapBuffer(t)
        <3>1. t \in Unmapping
            BY <2>3 DEF unmapBuffer, Unmapping
        <3>2. call[t].kind \in MappedKinds /\ Intact(call[t])
            BY <3>1, OwnersTyped DEF MemoryIntact
        <3>3. \A p \in Area(call[t]) \ torn : space[p] # Other
            BY <3>2 DEF Intact, Other, MappedKinds
        <3>4. \A p \in Addresses \ torn : space[p] = Other => space'[p] = space[p]
            BY <2>3, <3>3 DEF unmapBuffer, Unmap, Put, Area
        <3> QED
            BY <1>a, <2>3, <3>4 DEF unmapBuffer
    <2>4. CASE terminateBuffer(t)
        BY <1>a, <2>4, TerminateSpace DEF terminateBuffer
    <2> QED
        BY <1>3, <1>a, <2>1, <2>2, <2>3, <2>4
           DEF InCall, lockModule, allocRegular, ranOut, findSlot, takeSlot, Load, unlockModule,
               openBuffer, freeSlot, closeBuffer
<1>4. CASE otherMap
    <2>1. PICK base \in Addresses, size \in Sizes :
              /\ Map(base, size, Other)
              /\ foreign' = foreign \cup {Extent(base, size)}
        BY <1>4 DEF otherMap
    <2>2. \A p \in Extent(base, size) : space[p] = Nothing /\ space'[p] = Other
        BY <2>1 DEF Map, Put
    <2>3. \A range \in foreign : range \cap Extent(base, size) \subseteq torn
        BY <2>2 DEF OthersIntact, Nothing, Other
    <2>4. \A range \in foreign : \A p \in range \ torn : space'[p] = Other
        BY <2>1, <2>2 DEF OthersIntact, TypesCorrect, MemoryTypes, Map, Put
    <2>5. UNCHANGED torn
        BY <1>4 DEF otherMap
    <2> QED
        BY <2>1, <2>2, <2>3, <2>4, <2>5 DEF OthersIntact
<1>5. CASE otherUnmap
    <2>1. PICK range \in foreign :
              /\ space' = [p \in Addresses |-> IF p \in range THEN Nothing ELSE space[p]]
              /\ foreign' = foreign \ {range}
        BY <1>5 DEF otherUnmap
    <2>2. UNCHANGED torn
        BY <1>5 DEF otherUnmap
    <2> QED
        BY <2>1, <2>2 DEF OthersIntact, TypesCorrect, MemoryTypes
<1> QED
    BY <1>1, <1>2, <1>3, <1>4, <1>5 DEF Next
-----------------------------------------------------------------------------
IInv ==
    /\ TypesCorrect
    /\ LockHeld
    /\ LeftAlone
    /\ FirstMapping
    /\ Accounted
    /\ PagesOwned

(* A step that changes nothing keeps the invariants.                       *)
LEMMA Stutter ==
    ASSUME UNCHANGED vars
    PROVE  /\ IInv => IInv'
           /\ SlotsHeld => SlotsHeld'
           /\ OthersIntact /\ MemoryIntact => OthersIntact' /\ MemoryIntact'
<1> USE DEF vars, slots, module, memory, mappings
<1>1. TypesCorrect => TypesCorrect'
    BY DEF TypesCorrect, ModuleTypes, MemoryTypes, HandleTypes, PlaceTypes
<1>2. LockHeld /\ LeftAlone /\ FirstMapping => LockHeld' /\ LeftAlone' /\ FirstMapping'
    BY DEF LockHeld, LeftAlone, FirstMapping
<1>3. Closing' = Closing /\ GivingBack' = GivingBack /\ Unmapping' = Unmapping
      /\ SlotHandles' = SlotHandles /\ HeldSlots' = HeldSlots
    BY DEF Closing, GivingBack, Unmapping, SlotHandles, HeldSlots
<1>4. Accounted => Accounted'
    BY <1>3 DEF Accounted, OpenDevice
<1>5. PagesOwned => PagesOwned'
    BY <1>3 DEF PagesOwned, Holds
<1>6. SlotsHeld => SlotsHeld'
    BY <1>3 DEF SlotsHeld
<1>7. OthersIntact => OthersIntact'
    BY DEF OthersIntact
<1>8. MemoryIntact => MemoryIntact'
    BY <1>3 DEF MemoryIntact, Intact, Apart, Area
<1> QED
    BY <1>1, <1>2, <1>4, <1>5, <1>6, <1>7, <1>8 DEF IInv

(* The inductive invariant of gpu_context_t: where each thread may be with *)
(* which buffer, who holds the module's lock, that callers who want to be  *)
(* alone are, that one mapping of the framebuffer starts one display loop, *)
(* and who owns descriptors and mapped pages.                              *)
THEOREM InductiveInvariant == Spec => []IInv
<1>1. Init => IInv
    BY InitTypes, InitLock, InitSlots, InitAccounted, InitPages DEF IInv
<1>2. IInv /\ [Next]_vars => IInv'
    <2>1. CASE Next
        <3> SUFFICES ASSUME IInv PROVE IInv'
            BY <2>1
        <3>1. TypesCorrect'
            BY <2>1, NextModuleTypes, NextMemoryTypes, NextHandleTypes, NextPlaceTypes
               DEF IInv, TypesCorrect
        <3> QED
            BY <2>1, <3>1, NextLock, NextAlone, NextFirst, NextAccounted, NextPages DEF IInv
    <2>2. CASE UNCHANGED vars
        BY <2>2, Stutter
    <2> QED
        BY <2>1, <2>2
<1> QED
    BY <1>1, <1>2, PTL DEF Spec

(* No two handles are on one slot, the bit of every held slot is set and,  *)
(* when nobody is changing the mask, no other, and there is at most one    *)
(* display loop: for every number of threads, screens and handles, where   *)
(* callers free slots only while nothing else runs (freeSlot() takes no    *)
(* lock).                                                                  *)
THEOREM SlotsAreHeld ==
    ASSUME SlotsFreedAlone
    PROVE  Spec => []MaskIsHeld
<1>1. Init => SlotsHeld
    BY InitSlots
<1>2. IInv /\ SlotsHeld /\ [Next]_vars => SlotsHeld'
    BY NextSlots, Stutter DEF IInv
<1>3. IInv /\ SlotsHeld => MaskIsHeld
    <2> SUFFICES ASSUME IInv, SlotsHeld PROVE MaskIsHeld
        OBVIOUS
    <2>1. displays <= 1
        BY DEF IInv, FirstMapping
    <2>2. Cardinality(SlotHandles) = Cardinality(HeldSlots)
        BY SlotsCounted DEF IInv, Accounted, SlotsHeld
    <2>3. HeldSlots \subseteq bufferMask
        BY DEF SlotsHeld
    <2>4. ASSUME \A t \in Threads : pc[t] \notin {"take_store", "fb_load", "fb_store"}
          PROVE  bufferMask = HeldSlots
        <3>1. GivingBack = {}
            BY <2>4 DEF GivingBack
        <3> QED
            BY <3>1 DEF SlotsHeld
    <2> QED
        BY <2>1, <2>2, <2>3, <2>4 DEF MaskIsHeld
<1> QED
    BY <1>1, <1>2, <1>3, InductiveInvariant, PTL DEF Spec

(* Whoever mapped memory and did not unmap it finds it mapped, but for the *)
(* pages that a second munmap() of a buffer took: for every number of      *)
(* threads and pages, all sizes and every order of the calls.              *)
THEOREM MappingsStayIntact == Spec => []MappingsIntact
<1> DEFINE J == OthersIntact /\ MemoryIntact
<1>1. Init => J
    BY InitMemory
<1>2. IInv /\ J /\ [Next]_vars => J'
    BY NextMemory, NextOthers, Stutter DEF IInv
<1>3. IInv /\ J => MappingsIntact
    <2> SUFFICES ASSUME IInv, J PROVE MappingsIntact
        OBVIOUS
    <2>1. ASSUME NEW h \in handles, h.kind \in {"adsp", "ashmem"},
                 NEW p \in Extent(h.base, h.size) \ torn
          PROVE  space[p] = [kind |-> h.kind, base |-> h.base]
        <3>1. h.size \in Sizes /\ h.base \in Nat /\ Intact(h)
            BY OwnersTyped DEF IInv, MemoryIntact
        <3>2. p \in Area(h)
            BY <2>1, <3>1, Rounded DEF Extent, Area
        <3> QED
            BY <2>1, <3>1, <3>2 DEF Intact, MappedKinds
    <2> QED
        BY <2>1 DEF MappingsIntact, OthersIntact
<1> HIDE DEF J
<1> QED
    BY <1>1, <1>2, <1>3, InductiveInvariant, PTL DEF Spec

(* Nothing stays mapped and no descriptor open for a buffer that is gone,  *)
(* for every number of threads and pages, all sizes, whichever step fails, *)
(* and whether or not callers free buffers alone.                          *)
THEOREM NothingIsLeftBehind == Spec => []NothingLeftBehind
<1>1. IInv => NothingLeftBehind
    <2> SUFFICES ASSUME IInv PROVE NothingLeftBehind
        OBVIOUS
    <2> DEFINE unmapping == {call[t] : t \in {u \in Threads : pc[u] = "unmap"}}
    <2>1. ASSUME NEW p \in Addresses, space[p].kind \in Kinds
          PROVE  \E b \in handles \cup unmapping :
                     /\ b.base = space[p].base /\ b.kind = space[p].kind
                     /\ p \in Extent(b.base, MappedSize(b.kind, b.size))
        <3>1. space[p].kind \in MappedKinds
            BY <2>1, KindsAssumption DEF IInv, TypesCorrect, MemoryTypes, MappedKinds
        <3> QED
            BY <3>1 DEF IInv, PagesOwned, Holds, Unmapping
    <2>2. opened = Cardinality(handles) + Cardinality(Closing) + OpenDevice
        BY DEF IInv, Accounted
    <2> QED
        BY <2>1, <2>2 DEF NothingLeftBehind, Closing
<1> QED
    BY <1>1, InductiveInvariant, PTL
=============================================================================
