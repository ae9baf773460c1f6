----------------------------- MODULE HandleLock -----------------------------
(***************************************************************************)
(* gralloc_lock(), gralloc_unlock(), gralloc_register_buffer() and         *)
(* gralloc_unregister_buffer() (libgralloc/mapper.cpp) on one buffer       *)
(* handle, called by the threads of one process.  The lock word is changed *)
(* by compare-and-swap, so each access to shared memory is an action; the  *)
(* mapping is made under sMapLock.                                         *)
(*                                                                         *)
(* A caller unlocks a buffer once for every lock that returned 0, from the *)
(* thread that locked it, and unregisters it when no thread uses it.       *)
(***************************************************************************)
EXTENDS Integers, FiniteSets

CONSTANTS
    Threads,
    NoThread,
    Addresses,       \* where mmap() may place the buffer; 0 is not one
    MaxFailures      \* bound: how many calls of mmap() fail

ASSUME ThreadsAssumption == IsFiniteSet(Threads)
ASSUME NoThreadAssumption == NoThread \notin Threads
ASSUME AddressesAssumption == 0 \notin Addresses
ASSUME MaxFailuresAssumption == MaxFailures \in Nat

Usages == {"sw_read", "sw_write", "hw_read", "hw_write"}
Writes(u) == u \in {"sw_write", "hw_write"}
Sw(u) == u \in {"sw_read", "sw_write"}

(* Where a handle comes from: another process (its pid is not getpid()),   *)
(* this process, or this process as a slot of the framebuffer.  Memory of  *)
(* the kernel's allocator (USES_PMEM_ADSP only) is not cleanable.          *)
Kinds == {"imported", "own", "framebuffer"}

VARIABLES
    kind, registered,
    cleanable,       \* it is PRIV_FLAGS_USES_PMEM or PRIV_FLAGS_USES_ASHMEM
    lockState,       \* LOCK_STATE_WRITE, LOCK_STATE_MAPPED and the count
    writeOwner,
    needsFlush,      \* PRIV_FLAGS_NEEDS_FLUSH
    base,
    mappings,        \* the addresses at which this process maps the buffer
    mapLock,         \* the thread that holds sMapLock
    pc, call,        \* where each thread is in a call, and the call's locals
    cache,           \* "clean"; "written": a write was made through it whose
                     \* unlock is to come; "left": an unlock did not clean it
    abandoned        \* locks that failed after they had been counted

handle == <<kind, registered, cleanable, writeOwner, needsFlush, base, mappings>>
lockVars == <<handle, lockState, mapLock, pc, call, cache, abandoned>>

LockState == [write : BOOLEAN, mapped : BOOLEAN, count : Nat]
Unlocked == [write |-> FALSE, mapped |-> FALSE, count |-> 0]
NoCall == [usage |-> "hw_read", current |-> Unlocked, new |-> Unlocked, vaddr |-> 0]

(* An imported handle is the exporter's structure, copied: its lock word,  *)
(* owner and base are whatever they were over there.                       *)
LockInit ==
    /\ kind \in Kinds
    /\ registered = (kind # "imported")
    /\ cleanable \in BOOLEAN /\ (kind = "framebuffer" => cleanable)
    /\ \/ /\ kind = "imported"
          /\ lockState \in {Unlocked, [write |-> TRUE, mapped |-> TRUE, count |-> 1]}
          /\ writeOwner \in Threads \cup {NoThread}
          /\ base \in Addresses \cup {0}
          /\ mappings = {}
       \/ /\ kind # "imported"
          /\ lockState = [Unlocked EXCEPT !.mapped = (kind = "own")]
          /\ writeOwner = NoThread
          /\ base \in Addresses
          /\ mappings = {base}
    /\ needsFlush = FALSE
    /\ mapLock = NoThread
    /\ pc = [t \in Threads |-> "idle"]
    /\ call = [t \in Threads |-> NoCall]
    /\ cache = "clean"
    /\ abandoned = 0

Goto(t, from, to) == pc[t] = from /\ pc' = [pc EXCEPT ![t] = to]

Return(t, from) == Goto(t, from, "idle") /\ call' = [call EXCEPT ![t] = NoCall]

(* A handle created in this process is kept as it is.                      *)
register_buffer ==
    /\ ~registered
    /\ registered' = TRUE
    /\ base' = 0
    /\ lockState' = Unlocked
    /\ writeOwner' = NoThread
    /\ UNCHANGED <<kind, cleanable, needsFlush, mappings, mapLock, pc, call, cache, abandoned>>

unregister_buffer ==
    /\ registered
    /\ kind = "imported"
    /\ \A t \in Threads : pc[t] = "idle"
    /\ registered' = FALSE
    /\ mappings' = IF lockState.mapped THEN mappings \ {base} ELSE mappings
    /\ base' = 0
    /\ lockState' = Unlocked
    /\ writeOwner' = NoThread
    /\ abandoned' = 0
    /\ UNCHANGED <<kind, cleanable, needsFlush, mapLock, pc, call, cache>>

lock(t) ==
    /\ registered
    /\ Goto(t, "idle", "lock_load")
    /\ \E u \in Usages : call' = [call EXCEPT ![t].usage = u]
    /\ UNCHANGED <<handle, lockState, mapLock, cache, abandoned>>

(* Mutants.  An operator whose name ends in _X<n> is a changed form of the *)
(* definition after it, the way a bug would change it; nothing uses it.    *)
Busy_X1(u) == lockState.write                              \* readers are ignored

Busy(u) == lockState.write \/ (lockState.count > 0 /\ Writes(u))

Locked_X1(u) == [lockState EXCEPT !.write = @ \/ Writes(u), !.count = 1]

Locked(u) == [lockState EXCEPT !.write = @ \/ Writes(u), !.count = @ + 1]

lockLoad(t) ==
    /\ \/ Busy(call[t].usage) /\ Return(t, "lock_load")
       \/ /\ ~Busy(call[t].usage)
          /\ Goto(t, "lock_load", "lock_cas")
          /\ call' = [call EXCEPT ![t].current = lockState,
                                  ![t].new = Locked(call[t].usage)]
    /\ UNCHANGED <<handle, lockState, mapLock, cache, abandoned>>

(* The loop's android_atomic_cmpxchg().                                    *)
Swap(t, from, again) ==
    /\ \/ /\ lockState = call[t].current
          /\ lockState' = call[t].new
       \/ /\ lockState # call[t].current
          /\ Goto(t, from, again)
          /\ UNCHANGED <<lockState, call>>
    /\ UNCHANGED <<handle, mapLock, cache, abandoned>>

lockSwap(t) ==
    /\ Swap(t, "lock_cas", "lock_load")
    /\ lockState = call[t].current =>
           Goto(t, "lock_cas", "lock_owner") /\ UNCHANGED call

(* A writer stores its tid.  A local that is not read again is reset, here *)
(* and below, so that states do not differ in dead values.                 *)
storeOwner(t) ==
    /\ Goto(t, "lock_owner", "lock_flag")
    /\ writeOwner' = IF call[t].new.write THEN t ELSE writeOwner
    /\ call' = [call EXCEPT ![t].new = Unlocked]
    /\ UNCHANGED <<kind, registered, cleanable, needsFlush, base, mappings, lockState, mapLock,
                   cache, abandoned>>

CachedWrite(u) == u = "sw_write" /\ kind # "framebuffer"

flagFlush(t) ==
    /\ \/ ~Sw(call[t].usage) /\ Goto(t, "lock_flag", "holding")
       \/ /\ Sw(call[t].usage)
          /\ Goto(t, "lock_flag", IF call[t].current.mapped THEN "lock_base" ELSE "map_lock")
    /\ needsFlush' = (needsFlush \/ CachedWrite(call[t].usage))
    /\ call' = [call EXCEPT ![t].current = Unlocked]
    /\ UNCHANGED <<kind, registered, cleanable, writeOwner, base, mappings, lockState, mapLock,
                   cache, abandoned>>

lockMap_X1(t) ==                           \* without the mutex
    /\ mapLock' = t
    /\ Goto(t, "map_lock", "map")
    /\ UNCHANGED <<handle, lockState, call, cache, abandoned>>

lockMap(t) ==
    /\ mapLock = NoThread
    /\ mapLock' = t
    /\ Goto(t, "map_lock", "map")
    /\ UNCHANGED <<handle, lockState, call, cache, abandoned>>

(* The second look at LOCK_STATE_MAPPED, then gralloc_map(), which maps    *)
(* nothing for the framebuffer.                                            *)
map(t) ==
    /\ \/ /\ lockState.mapped
          /\ Goto(t, "map", "map_unlock")
          /\ UNCHANGED <<base, mappings, abandoned>>
       \/ /\ ~lockState.mapped /\ kind = "framebuffer"
          /\ Goto(t, "map", "map_or")
          /\ UNCHANGED <<base, mappings, abandoned>>
       \/ /\ ~lockState.mapped /\ kind # "framebuffer"
          /\ base' \in Addresses \ mappings
          /\ mappings' = mappings \cup {base'}
          /\ Goto(t, "map", "map_or")
          /\ UNCHANGED abandoned
       \/ /\ ~lockState.mapped /\ kind # "framebuffer"
          /\ abandoned < MaxFailures
          /\ abandoned' = abandoned + 1
          /\ base' = 0
          /\ Goto(t, "map", "map_failed")
          /\ UNCHANGED mappings
    /\ UNCHANGED <<kind, registered, cleanable, writeOwner, needsFlush, lockState, mapLock, call,
                   cache>>

setMapped(t) ==
    /\ Goto(t, "map_or", "map_unlock")
    /\ lockState' = [lockState EXCEPT !.mapped = TRUE]
    /\ UNCHANGED <<handle, mapLock, call, cache, abandoned>>

unlockMap_X1(t) ==                         \* an error leaves the mutex locked
    /\ \/ Goto(t, "map_unlock", "lock_base") /\ mapLock' = NoThread /\ UNCHANGED call
       \/ Return(t, "map_failed") /\ UNCHANGED mapLock
    /\ UNCHANGED <<handle, lockState, cache, abandoned>>

(* When gralloc_map() failed the call returns its error; the count, the    *)
(* write bit and the owner stay as they are.                               *)
unlockMap(t) ==
    /\ \/ Goto(t, "map_unlock", "lock_base") /\ UNCHANGED call
       \/ Return(t, "map_failed")
    /\ mapLock' = NoThread
    /\ UNCHANGED <<handle, lockState, cache, abandoned>>

(* *vaddr = base, and the caller uses the buffer.                          *)
returnBase(t) ==
    /\ Goto(t, "lock_base", "holding")
    /\ call' = [call EXCEPT ![t].vaddr = base]
    /\ cache' = IF CachedWrite(call[t].usage) THEN "written" ELSE cache
    /\ UNCHANGED <<handle, lockState, mapLock, abandoned>>

unlock(t) ==
    /\ Goto(t, "holding", IF needsFlush THEN "unlock_flush" ELSE "unlock_load")
    /\ UNCHANGED <<handle, lockState, mapLock, call, cache, abandoned>>

(* The ioctl that cleans the cache, then the flag.  For memory that is     *)
(* neither pmem of the master area nor ashmem there is none, and one that  *)
(* fails is logged.                                                        *)
flush(t) ==
    /\ Goto(t, "unlock_flush", "unlock_flushed")
    /\ \/ cleanable /\ cache' = "clean"
       \/ cache' = "left"
    /\ UNCHANGED <<handle, lockState, mapLock, call, abandoned>>

clearFlush(t) ==
    /\ Goto(t, "unlock_flushed", "unlock_load")
    /\ needsFlush' = FALSE
    /\ UNCHANGED <<kind, registered, cleanable, writeOwner, base, mappings, lockState, mapLock,
                   call, cache, abandoned>>

Released(owner) == [lockState EXCEPT !.write = @ /\ ~owner, !.count = @ - 1]

(* The owner is cleared before the swap and not restored when it fails.    *)
(* For callers as above the count is never 0 here (CountAccounted), so the *)
(* call never returns -EINVAL.                                             *)
unlockLoad(t) ==
    LET owner == lockState.write /\ writeOwner = t
    IN  /\ lockState.count > 0
        /\ Goto(t, "unlock_load", "unlock_cas")
        /\ call' = [call EXCEPT ![t].current = lockState,
                                ![t].new = Released(owner)]
        /\ writeOwner' = IF owner THEN NoThread ELSE writeOwner
        /\ UNCHANGED <<kind, registered, cleanable, needsFlush, base, mappings, lockState, mapLock,
                       cache, abandoned>>

unlockSwap(t) ==
    /\ Swap(t, "unlock_cas", "unlock_load")
    /\ lockState = call[t].current => Return(t, "unlock_cas")

InLock(t) ==
    \/ lockLoad(t) \/ lockSwap(t) \/ storeOwner(t) \/ flagFlush(t)
    \/ lockMap(t) \/ map(t) \/ setMapped(t) \/ unlockMap(t) \/ returnBase(t)

InUnlock(t) == flush(t) \/ clearFlush(t) \/ unlockLoad(t) \/ unlockSwap(t)

LockNext ==
    \/ register_buffer
    \/ unregister_buffer
    \/ \E t \in Threads : lock(t) \/ InLock(t) \/ unlock(t) \/ InUnlock(t)

(* A thread inside a call is scheduled; nothing makes a thread call lock() *)
(* again or give a buffer back.                                            *)
LockFairness == \A t \in Threads : WF_lockVars(InLock(t) \/ InUnlock(t))

LockSpec == LockInit /\ [][LockNext]_lockVars /\ LockFairness
-----------------------------------------------------------------------------
Inside == {"lock_owner", "lock_flag", "map_lock", "map", "map_or", "map_unlock",
           "lock_base", "holding", "unlock_flush", "unlock_flushed", "unlock_load",
           "unlock_cas"}

Holding(t) == pc[t] = "holding"

(* While a thread holds the buffer for writing no other thread holds it,   *)
(* and its unlock finds its own tid and drops the write bit at the first   *)
(* try.  A failed swap would make the next pass of gralloc_unlock() find   *)
(* the owner already cleared and leave the bit set for ever; but nothing   *)
(* changes the lock word of a buffer held for writing.  And of two writers *)
(* none clears PRIV_FLAGS_NEEDS_FLUSH, which is not changed atomically, of *)
(* the other: the bit is not given up before the unlock has come to the    *)
(* flush.  Whether that cleans the cache is not claimed.                   *)
ExclusiveWriter ==
    /\ \A t, u \in Threads :
           t # u /\ Holding(t) /\ Holding(u) => ~Writes(call[t].usage)
    /\ \A t \in Threads :
           pc[t] = "unlock_cas" /\ Writes(call[t].usage) =>
               lockState = call[t].current /\ ~call[t].new.write
    /\ registered /\ cache = "written" => lockState.write

(* The count in the lock word is the number of calls between their two     *)
(* swaps, plus those that failed in between; no swap loses another's, and  *)
(* "handle not locked" is never the answer to a thread that holds it.      *)
CountAccounted ==
    registered =>
        lockState.count = Cardinality({t \in Threads : pc[t] \in Inside}) + abandoned

(* A thread that locked for software access was given the address at which *)
(* the buffer is mapped, and it stays mapped there; however many readers   *)
(* find the buffer unmapped, it is mapped once; and an unregistered buffer *)
(* leaves no mapping behind.                                               *)
HolderMapped ==
    /\ \A t \in Threads :
           Holding(t) /\ Sw(call[t].usage) =>
               call[t].vaddr = base /\ base \in mappings
    /\ Cardinality(mappings) <= 1
    /\ ~registered => mappings = {}

(* Threads that find the lock word changed retry, but never all for ever:  *)
(* some thread always leaves the calls.                                    *)
SomeCallReturns == []<>(\E t \in Threads : pc[t] \in {"idle", "holding"})
=============================================================================
