----------------------------- MODULE GpuContext -----------------------------
(***************************************************************************)
(* gpu_context_t, the allocation device (libgralloc/gpu.cpp), with what it *)
(* calls: mapFrameBufferLocked() (framebuffer.cpp), PmemKernelAllocator    *)
(* (pmemalloc.cpp) and terminateBuffer() (mapper.cpp).  Several threads    *)
(* allocate buffers and give them back.                                    *)
(*                                                                         *)
(* A buffer is a slot of the framebuffer, given out under the module's     *)
(* lock through the bits of bufferMask, or memory of its own: ashmem or    *)
(* pmem of the kernel's allocator ("adsp"), mapped where it is allocated,  *)
(* or pmem of the master area ("pmem"), which is always mapped             *)
(* (PmemUserspace).  The threads share one address space, counted in       *)
(* pages, in which other code maps memory too.                             *)
(*                                                                         *)
(* USE_ASHMEM is not defined in this board's build, so nothing is tried as *)
(* ashmem after pmem has failed.                                           *)
(*                                                                         *)
(* Two histories hold what the code does amiss: torn, the pages that were  *)
(* somebody's when terminateBuffer() unmapped a buffer that was unmapped   *)
(* before, and abandoned, the descriptors of the device that a first       *)
(* mapping of the framebuffer left open when it failed.                    *)
(***************************************************************************)
EXTENDS FiniteSetsExt, Integers

CONSTANTS
    Threads,
    NoThread,
    Ids,             \* names for handles: how many may be held at a time
    Pages,           \* how many pages the address space has
    Sizes,           \* sizes of buffers, in pages
    Kinds,           \* the kinds of buffer callers ask for
    Screens,         \* how many screens the driver may provide
    MapMayFail,      \* whether mmap() of the framebuffer may fail
    AloneKinds,      \* kinds that callers free only while nothing else runs
    MaxForeign,      \* bound: how many ranges other code has mapped at a time
    MaxAbandoned     \* bound: how often the first mapping fails with the device open

ASSUME NoThreadAssumption == NoThread \notin Threads
ASSUME IdsAssumption == IsFiniteSet(Ids)
ASSUME PagesAssumption == Pages \in Nat \ {0} /\ Sizes \subseteq 1..Pages
ASSUME KindsAssumption ==
    Kinds \subseteq {"fb", "pmem", "adsp", "ashmem"} /\ AloneKinds \subseteq Kinds
ASSUME ScreensAssumption == Screens \subseteq Nat \ {0} /\ MapMayFail \in BOOLEAN
ASSUME BoundsAssumption == MaxForeign \in Nat /\ MaxAbandoned \in Nat

VARIABLES
    framebuffer,     \* module->framebuffer is not NULL
    numBuffers,
    bufferMask,      \* the slots whose bit is set
    displays,        \* how many threads run disp_loop()
    abandoned,       \* how often the device was left open
    lock,            \* the thread that holds the module's lock
    space,           \* page -> what is mapped there
    foreign,         \* page ranges mapped by other code
    torn,            \* pages that a second munmap() took from their owner
    opened,          \* how many descriptors are open, for buffers and the device
    handles,         \* what callers hold: records [id, kind, base, size]
    pc, call         \* where each thread is in a call, and the call's locals

module == <<framebuffer, numBuffers, displays, abandoned>>
slots == <<module, bufferMask, lock>>
mappings == <<space, foreign, torn>>
memory == <<mappings, opened>>
vars == <<slots, memory, handles, pc, call>>

Addresses == 0..(Pages - 1)
Extent(base, size) == base..(base + size - 1)

(* What a page holds: nothing, other code's memory, or a buffer's.         *)
Nothing == [kind |-> "nothing", base |-> 0]
Other == [kind |-> "other", base |-> 0]

NoCall == [kind |-> "none", base |-> 0, size |-> 0, loaded |-> {}]

Init ==
    /\ framebuffer = FALSE
    /\ numBuffers = 0 /\ bufferMask = {}
    /\ displays = 0 /\ abandoned = 0
    /\ lock = NoThread
    /\ space = [p \in Addresses |-> Nothing]
    /\ foreign = {} /\ torn = {}
    /\ opened = 0
    /\ handles = {}
    /\ pc = [t \in Threads |-> "idle"]
    /\ call = [t \in Threads |-> NoCall]

Goto(t, from, to) == pc[t] = from /\ pc' = [pc EXCEPT ![t] = to]

Return(t, from) == Goto(t, from, "idle") /\ call' = [call EXCEPT ![t] = NoCall]

(* A thread is alone in the process, or nothing that wants to be is there. *)
Alone(t) == \A u \in Threads \ {t} : pc[u] = "idle"
NobodyAlone == \A t \in Threads : ~(call[t].kind \in AloneKinds /\ pc[t] \in
                   {"fb_load", "fb_store", "unmap", "terminate", "close"})

NewHandle(kind, base, size) ==
    \E id \in Ids \ {h.id : h \in handles} :
        handles' = handles \cup {[id |-> id, kind |-> kind, base |-> base, size |-> size]}
-----------------------------------------------------------------------------
gralloc_alloc(t) ==
    /\ Cardinality(handles) + Cardinality({u \in Threads : pc[u] # "idle"}) < Cardinality(Ids)
    /\ NobodyAlone
    /\ \E kind \in Kinds, size \in Sizes :
        /\ kind \in {"fb", "pmem"} => size = Min(Sizes)      \* no size of their own here
        /\ Goto(t, "idle", IF kind = "fb" THEN "fb_lock" ELSE "open")
        /\ call' = [call EXCEPT ![t].kind = kind, ![t].size = size]
    /\ UNCHANGED <<slots, memory, handles>>

(* Mutants.  An operator whose name ends in _X<n> is a changed form of the *)
(* definition after it, the way a bug would change it; nothing uses it.    *)
lockModule_X1(t) ==                        \* without the mutex
    /\ lock' = t
    /\ Goto(t, "fb_lock", "fb_map")
    /\ UNCHANGED <<module, bufferMask, memory, handles, call>>

lockModule(t) ==
    /\ lock = NoThread
    /\ lock' = t
    /\ Goto(t, "fb_lock", "fb_map")
    /\ UNCHANGED <<module, bufferMask, memory, handles, call>>

(* "already initialized...": numBuffers and bufferMask are what they were. *)
alreadyMapped(t) ==
    /\ framebuffer
    /\ Goto(t, "fb_map", "fb_mask")
    /\ UNCHANGED <<module, bufferMask, opened>>

openFails(t) ==
    /\ ~framebuffer
    /\ Goto(t, "fb_map", "fb_unlock")
    /\ UNCHANGED <<module, bufferMask, opened>>

(* What fails between open() and the framebuffer's mapping leaves the      *)
(* device open.                                                            *)
LeaveOpen(t, to) ==
    /\ ~framebuffer
    /\ abandoned < MaxAbandoned
    /\ abandoned' = abandoned + 1
    /\ opened' = opened + 1
    /\ Goto(t, "fb_map", to)
    /\ UNCHANGED <<framebuffer, numBuffers, displays, bufferMask>>

(* An ioctl() fails, here or at lines 594 and 651.                         *)
ioctlFails(t) == LeaveOpen(t, "fb_unlock")

(* The driver tells of no memory, or pthread_create() fails: errno may be  *)
(* zero, and then the caller goes on as if the framebuffer were mapped.    *)
noThread(t) == \E to \in {"fb_unlock", "fb_mask"} : LeaveOpen(t, to)

(* The display loop is started; the device stays open, and a duplicate of  *)
(* its descriptor is the framebuffer's.  module->framebuffer is set before *)
(* mmap() and stays when that fails.                                       *)
MapFramebuffer(t) ==
    /\ ~framebuffer
    /\ framebuffer' = TRUE
    /\ opened' = opened + 2
    /\ displays' = displays + 1
    /\ numBuffers' \in Screens
    /\ bufferMask' = {}
    /\ \E ok \in {TRUE, ~MapMayFail} : Goto(t, "fb_map", IF ok THEN "fb_mask" ELSE "fb_unlock")
    /\ UNCHANGED abandoned

mapFrameBufferLocked(t) ==
    /\ alreadyMapped(t) \/ openFails(t) \/ ioctlFails(t) \/ noThread(t) \/ MapFramebuffer(t)
    /\ UNCHANGED <<lock, mappings, handles, call>>

Slots == 0..(numBuffers - 1)

(* With one screen the caller gets a regular buffer, of pmem.              *)
allocRegular(t) ==
    /\ numBuffers = 1
    /\ Goto(t, "fb_mask", "fb_unlock")
    /\ \/ opened' = opened + 1 /\ NewHandle("pmem", 0, call[t].size)
       \/ UNCHANGED <<opened, handles>>   \* gralloc_alloc_buffer() fails
    /\ UNCHANGED <<slots, mappings, call>>

ranOut(t) ==
    /\ numBuffers # 1
    /\ Slots \subseteq bufferMask
    /\ Goto(t, "fb_mask", "fb_unlock")
    /\ UNCHANGED <<slots, memory, handles, call>>

(* The slot is looked for in a copy of the mask, the one just compared;    *)
(* the descriptor is a duplicate of the framebuffer's.                     *)
findSlot(t) ==
    /\ numBuffers # 1
    /\ ~(Slots \subseteq bufferMask)
    /\ Goto(t, "fb_mask", "take_load")
    /\ call' = [call EXCEPT ![t].base = Min(Slots \ bufferMask)]
    /\ opened' = opened + 1
    /\ UNCHANGED <<slots, mappings, handles>>

(* bufferMask |= and &= are a load and a store.                            *)
Load(t, from, to) ==
    /\ Goto(t, from, to)
    /\ call' = [call EXCEPT ![t].loaded = bufferMask]
    /\ UNCHANGED <<slots, memory, handles>>

takeSlot(t) ==
    \/ Load(t, "take_load", "take_store")
    \/ /\ Goto(t, "take_store", "fb_unlock")
       /\ bufferMask' = call[t].loaded \cup {call[t].base}
       /\ NewHandle("fb", call[t].base, call[t].size)
       /\ UNCHANGED <<module, lock, memory, call>>

unlockModule(t) ==
    /\ Return(t, "fb_unlock")
    /\ lock' = NoThread
    /\ UNCHANGED <<module, bufferMask, memory, handles>>
-----------------------------------------------------------------------------
(* gralloc_alloc_buffer(): the descriptor, then the memory.  What a failed *)
(* open() does is seen by nobody.                                          *)
openBuffer(t) ==
    /\ opened' = opened + 1
    /\ Goto(t, "open", "map")
    /\ UNCHANGED <<slots, mappings, handles, call>>

(* The smallest power of two that is not below size.                       *)
clp2(size) == Min({p \in {2^n : n \in 0..size} : p >= size})

(* There is one, whatever the size: the provers know no powers.            *)
ASSUME RoundingAssumption == \A size \in Sizes : clp2(size) \in Nat /\ clp2(size) >= size

(* The kernel's allocator rounds up, both when it maps and when it unmaps. *)
MappedSize(kind, size) == IF kind = "adsp" THEN clp2(size) ELSE size

Put(base, size, what) ==
    space' = [p \in Addresses |-> IF p \in Extent(base, size) THEN what ELSE space[p]]

(* mmap() finds a place where nothing is.                                  *)
Map(base, size, what) ==
    /\ Extent(base, size) \subseteq Addresses
    /\ \A p \in Extent(base, size) : space[p] = Nothing
    /\ Put(base, size, what)

Unmap_X1(base, size) == Put(base, size + 1, Nothing)

(* munmap() takes whatever is mapped there.                                *)
Unmap(base, size) == Put(base, size, Nothing)

mapBuffer(t) ==
    LET kind == call[t].kind
        size == call[t].size
    IN  \/ /\ Return(t, "map")
           /\ kind \in {"adsp", "ashmem"}
           /\ \E base \in Addresses :
                 /\ Map(base, MappedSize(kind, size), [kind |-> kind, base |-> base])
                 /\ NewHandle(kind, base, size)
           /\ UNCHANGED <<slots, foreign, torn, opened>>
        \/ /\ Return(t, "map")
           /\ kind = "pmem"
           /\ NewHandle(kind, 0, size)
           /\ UNCHANGED <<slots, memory>>
        \/ /\ Return(t, "map")            \* it fails: the descriptor is closed
           /\ opened' = opened - 1
           /\ UNCHANGED <<slots, mappings, handles>>
-----------------------------------------------------------------------------
free_impl(t) ==
    /\ NobodyAlone
    /\ \E h \in handles :
        /\ h.kind \in AloneKinds => Alone(t)
        /\ handles' = handles \ {h}
        /\ Goto(t, "idle", CASE h.kind = "fb" -> "fb_load"
                             [] h.kind = "pmem" -> "terminate"
                             [] OTHER -> "unmap")
        /\ call' = [call EXCEPT ![t].kind = h.kind, ![t].base = h.base, ![t].size = h.size]
    /\ UNCHANGED <<slots, memory>>

(* The module's lock is not held.                                          *)
freeSlot(t) ==
    \/ Load(t, "fb_load", "fb_store")
    \/ /\ Goto(t, "fb_store", "close")
       /\ bufferMask' = call[t].loaded \ {call[t].base}
       /\ UNCHANGED <<module, lock, memory, handles, call>>

unmapBuffer_X1(t) ==                       \* the size that was asked for
    /\ Goto(t, "unmap", "terminate")
    /\ Unmap(call[t].base, call[t].size)
    /\ UNCHANGED <<slots, foreign, torn, opened, handles, call>>

(* free_pmem_buffer(), or the munmap() of ashmem.                          *)
unmapBuffer(t) ==
    /\ Goto(t, "unmap", "terminate")
    /\ Unmap(call[t].base, MappedSize(call[t].kind, call[t].size))
    /\ UNCHANGED <<slots, foreign, torn, opened, handles, call>>

(* LOCK_STATE_MAPPED is set in every such buffer.  Buffers of this process *)
(* are left alone when they are USES_PMEM or USES_ASHMEM; a USES_PMEM_ADSP *)
(* buffer, unmapped by free_pmem_buffer(), is given to gralloc_unmap().    *)
terminateBuffer(t) ==
    LET extent == Extent(call[t].base, call[t].size)
    IN  /\ Goto(t, "terminate", "close")
        /\ \/ /\ call[t].kind # "adsp"
              /\ UNCHANGED <<space, torn>>
           \/ /\ call[t].kind = "adsp"
              /\ Unmap(call[t].base, call[t].size)
              /\ torn' = torn \cup {p \in extent \cap Addresses : space[p] # Nothing}
        /\ UNCHANGED <<slots, foreign, opened, handles, call>>

closeBuffer(t) ==
    /\ Return(t, "close")
    /\ opened' = opened - 1
    /\ UNCHANGED <<slots, mappings, handles>>
-----------------------------------------------------------------------------
(* Other code of the process, in a thread of its own.                      *)
otherMap ==
    /\ Cardinality(foreign) < MaxForeign
    /\ NobodyAlone
    /\ \E base \in Addresses, size \in Sizes :
        /\ Map(base, size, Other)
        /\ foreign' = foreign \cup {Extent(base, size)}
    /\ UNCHANGED <<slots, torn, opened, handles, pc, call>>

otherUnmap ==
    \E pages \in foreign :
        /\ space' = [p \in Addresses |-> IF p \in pages THEN Nothing ELSE space[p]]
        /\ foreign' = foreign \ {pages}
        /\ UNCHANGED <<slots, torn, opened, handles, pc, call>>

InCall(t) ==
    \/ lockModule(t) \/ mapFrameBufferLocked(t)
    \/ allocRegular(t) \/ ranOut(t) \/ findSlot(t) \/ takeSlot(t) \/ unlockModule(t)
    \/ openBuffer(t) \/ mapBuffer(t)
    \/ freeSlot(t) \/ unmapBuffer(t) \/ terminateBuffer(t) \/ closeBuffer(t)

Next ==
    \/ \E t \in Threads : gralloc_alloc(t) \/ free_impl(t) \/ InCall(t)
    \/ otherMap \/ otherUnmap

Spec == Init /\ [][Next]_vars
-----------------------------------------------------------------------------
SlotHandles == {h \in handles : h.kind = "fb"}
HeldSlots == {h.base : h \in SlotHandles}

(* gpu.cpp:85: "find a free slot".  No two handles are on one slot; the    *)
(* bit of every held slot is set and, when no call is about to change the  *)
(* mask, no other: no slot is lost for ever.  And one display loop serves  *)
(* them, however many threads ask for the first framebuffer at once.       *)
MaskIsHeld ==
    /\ displays <= 1
    /\ Cardinality(SlotHandles) = Cardinality(HeldSlots)
    /\ HeldSlots \subseteq bufferMask
    /\ (\A t \in Threads : pc[t] \notin {"take_store", "fb_load", "fb_store"}) =>
           bufferMask = HeldSlots

(* Whoever mapped memory and did not unmap it finds it mapped, every page  *)
(* of the size that was asked for, but for the pages that a second         *)
(* munmap() of a buffer took: no other path of allocation and release,     *)
(* whatever is rounded and whichever step fails, unmaps a page that is not *)
(* the caller's.                                                           *)
MappingsIntact ==
    /\ \A h \in handles : h.kind \in {"adsp", "ashmem"} =>
           \A p \in Extent(h.base, h.size) \ torn : space[p] = [kind |-> h.kind, base |-> h.base]
    /\ \A range \in foreign : \A p \in range \ torn : space[p] = Other

(* The device's descriptors: the two of the framebuffer, and those left.   *)
OpenDevice == abandoned + (IF framebuffer THEN 2 ELSE 0)

(* Nothing stays mapped, and no descriptor open, for buffers that are      *)
(* gone, whatever size was asked for and whichever step failed; the device *)
(* is open twice from the first mapping on, or as often as that failed.    *)
NothingLeftBehind ==
    LET unmapping == {call[t] : t \in {u \in Threads : pc[u] = "unmap"}}
        closing == {t \in Threads : pc[t] \in {"take_load", "take_store", "map", "fb_load",
                                               "fb_store", "unmap", "terminate", "close"}}
    IN  /\ \A p \in Addresses : space[p].kind \in Kinds =>
               \E b \in handles \cup unmapping :
                   /\ b.base = space[p].base /\ b.kind = space[p].kind
                   /\ p \in Extent(b.base, MappedSize(b.kind, b.size))
        /\ opened = Cardinality(handles) + Cardinality(closing) + OpenDevice
=============================================================================
