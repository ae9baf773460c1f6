--------------------------- MODULE PmemUserspace ---------------------------
(***************************************************************************)
(* PmemUserspaceAllocator (libgralloc/pmemalloc.cpp) over the suballocator *)
(* of ChunkList, called by several threads: the lazy initialisation under  *)
(* `lock', the allocation of a sub-heap outside it, and the release, which *)
(* ends with the close() of gpu_context_t::free_impl.                      *)
(*                                                                         *)
(* The methods of the suballocator hold its own mutex from the first to    *)
(* the last statement (BestFitAllocator), so each call of it is a step.    *)
(* Every call into the kernel may fail.                                    *)
(***************************************************************************)
EXTENDS ChunkList, FiniteSetsExt

CONSTANTS
    Threads,
    NoThread,
    Sizes,           \* the sizes callers ask for, in units
    PmemSize,        \* what PMEM_GET_TOTAL_SIZE reports
    LimpSize,        \* what is assumed when it fails
    SizeErrors,      \* what getPmemTotalSize() may return other than 0
    OpenErrnos,      \* the errno values open() of the master may fail with
    Descriptors      \* the file descriptors the process may have open

ASSUME ThreadsAssumption == IsFiniteSet(Threads)
ASSUME NoThreadAssumption == NoThread \notin Threads
ASSUME SizesAssumption == Sizes \subseteq Nat \ {0}
ASSUME PmemAssumption == {PmemSize, LimpSize} \subseteq Nat \ {0}
ASSUME ErrorsAssumption ==
    (\A e \in SizeErrors : -e \in Nat \ {0}) /\ OpenErrnos \subseteq Nat \ {0}
ASSUME DescriptorsAssumption == Descriptors \subseteq Nat /\ IsFiniteSet(Descriptors)

MASTER_FD_INIT == -1
ENOMEM == 12
NoFd == -1

VARIABLES
    master_fd,
    areas,           \* how often the whole device has been mapped
    lock,            \* the thread that holds the mutex `lock'
    mHeapSize, mList,                       \* the suballocator
    open,            \* the descriptors open in the process
    windows,         \* descriptor -> the region PMEM_MAP gave it
    stranded,        \* regions whose PMEM_UNMAP failed: still mapped by a client
    buffers,         \* what callers hold: records [fd, off, size]
    pc, call         \* where each thread is in a call, and the call's locals

master == <<master_fd, areas>>
heap == <<mHeapSize, mList>>
vars == <<master, lock, heap, open, windows, stranded, buffers, pc, call>>

NoCall == [size |-> 0, off |-> 0, fd |-> NoFd, err |-> 0]

Init ==
    /\ master_fd = MASTER_FD_INIT
    /\ areas = 0
    /\ lock = NoThread
    /\ mHeapSize = 0 /\ mList = <<>>
    /\ open = {}
    /\ windows = <<>>
    /\ stranded = {}
    /\ buffers = {}
    /\ pc = [t \in Threads |-> "idle"]
    /\ call = [t \in Threads |-> NoCall]

Goto(t, from, to) == pc[t] = from /\ pc' = [pc EXCEPT ![t] = to]

Return(t, from) == Goto(t, from, "idle") /\ call' = [call EXCEPT ![t] = NoCall]

(* open(): the lowest descriptor that is free, if there is one.            *)
Free == Descriptors \ open
OpenFd(fd) == Free # {} /\ fd = Min(Free) /\ open' = open \cup {fd}

alloc_pmem_buffer(t) ==
    /\ Goto(t, "idle", "init_lock")
    /\ \E size \in Sizes : call' = [call EXCEPT ![t].size = size]
    /\ UNCHANGED <<master, lock, heap, open, windows, stranded, buffers>>

initLock(t) ==
    /\ lock = NoThread
    /\ lock' = t
    /\ Goto(t, "init_lock", "init_check")
    /\ UNCHANGED <<master, heap, open, windows, stranded, buffers, call>>

(* "first time", "never use it" or "pmem OK".                              *)
initCheck(t) ==
    /\ \/ /\ master_fd = MASTER_FD_INIT
          /\ Goto(t, "init_check", "init_open")
          /\ UNCHANGED call
       \/ /\ master_fd # MASTER_FD_INIT
          /\ Goto(t, "init_check", "init_unlock")
          /\ call' = [call EXCEPT ![t].err = IF master_fd < 0 THEN master_fd ELSE 0]
    /\ UNCHANGED <<master, lock, heap, open, windows, stranded, buffers>>

(* allocator.setSize(size), whose result is not looked at.                 *)
SetHeapSize(size) ==
    IF mHeapSize = 0
    THEN /\ mHeapSize' = RoundUpToPage(size)
         /\ mList' = <<NewChunk(0, mHeapSize')>> \o mList
    ELSE UNCHANGED heap

initOpen(t) ==
    \/ \E fd \in Descriptors, err \in {0} \cup SizeErrors :
        /\ OpenFd(fd)
        /\ SetHeapSize(IF err < 0 THEN LimpSize ELSE PmemSize)
        /\ Goto(t, "init_open", "init_map")
        /\ call' = [call EXCEPT ![t].fd = fd, ![t].err = err]
        /\ UNCHANGED <<master, lock, windows, stranded, buffers>>
    \/ \E errno \in OpenErrnos :
        /\ Goto(t, "init_open", "init_store")
        /\ call' = [call EXCEPT ![t].err = -errno]
        /\ UNCHANGED <<master, lock, heap, open, windows, stranded, buffers>>

(* mmap() of the device.  master_fd is set even when its size was not to   *)
(* be had and the initialisation is about to fail.                         *)
initMap(t) ==
    /\ \/ /\ Goto(t, "init_map", IF call[t].err # 0 THEN "init_store" ELSE "init_unlock")
          /\ master_fd' = call[t].fd
          /\ areas' = areas + 1
          /\ call' = [call EXCEPT ![t].fd = NoFd]
          /\ UNCHANGED open
       \/ /\ Goto(t, "init_map", "init_store")
          /\ open' = open \ {call[t].fd}
          /\ call' = [call EXCEPT ![t].fd = NoFd, ![t].err = -ENOMEM]
          /\ UNCHANGED <<master_fd, areas>>
    /\ UNCHANGED <<lock, heap, windows, stranded, buffers>>

initStore(t) ==
    /\ Goto(t, "init_store", "init_unlock")
    /\ master_fd' = call[t].err
    /\ UNCHANGED <<areas, lock, heap, open, windows, stranded, buffers, call>>

initUnlock(t) ==
    /\ lock' = NoThread
    /\ \/ call[t].err = 0 /\ Goto(t, "init_unlock", "allocate") /\ UNCHANGED call
       \/ call[t].err # 0 /\ Return(t, "init_unlock")
    /\ UNCHANGED <<master, heap, open, windows, stranded, buffers>>

(* allocator.allocate(size)                                                *)
allocate(t) ==
    LET size == call[t].size
        i == BestFit(mList, size)
    IN  /\ \/ /\ Goto(t, "allocate", "open")
              /\ Fitting(mList, size) # {}
              /\ mList' = Carve(mList, i, size)
              /\ call' = [call EXCEPT ![t].off = mList[i].start + Extra(mList[i].start)]
           \/ /\ Return(t, "allocate")
              /\ Fitting(mList, size) = {}
              /\ UNCHANGED mList
        /\ UNCHANGED <<master, lock, mHeapSize, open, windows, stranded, buffers>>

openSub(t) ==
    \/ \E fd \in Descriptors :
        /\ OpenFd(fd)
        /\ Goto(t, "open", "connect")
        /\ call' = [call EXCEPT ![t].fd = fd]
        /\ UNCHANGED <<master, lock, heap, windows, stranded, buffers>>
    \/ /\ Goto(t, "open", "undo_close")
       /\ UNCHANGED <<master, lock, heap, open, windows, stranded, buffers, call>>

(* PMEM_CONNECT names the master by its descriptor.                        *)
connectPmem(t) ==
    /\ \/ master_fd \in open /\ Goto(t, "connect", "map")
       \/ Goto(t, "connect", "undo_close")
    /\ UNCHANGED <<master, lock, heap, open, windows, stranded, buffers, call>>

(* PMEM_MAP; when it succeeds the buffer is the caller's.                  *)
mapPmem(t) ==
    /\ \/ LET c == call[t]
          IN  /\ Return(t, "map")
              /\ windows' = [fd \in DOMAIN windows \cup {c.fd} |->
                                IF fd = c.fd THEN [off |-> c.off, size |-> c.size]
                                             ELSE windows[fd]]
              /\ buffers' = buffers \cup {[fd |-> c.fd, off |-> c.off, size |-> c.size]}
       \/ /\ Goto(t, "map", "undo_close")
          /\ UNCHANGED <<windows, buffers, call>>
    /\ UNCHANGED <<master, lock, heap, open, stranded>>

(* Mutants.  An operator whose name ends in _X<n> is a changed form of the *)
(* definition after it, the way a bug would change it; nothing uses it.    *)
undoClose_X1(t) ==                         \* nothing is closed
    /\ Goto(t, "undo_close", "undo")
    /\ call' = [call EXCEPT ![t].fd = NoFd]
    /\ UNCHANGED <<master, lock, heap, open, windows, stranded, buffers>>

(* close(fd), of -1 too: then the call fails and nothing is closed.        *)
undoClose(t) ==
    /\ Goto(t, "undo_close", "undo")
    /\ open' = open \ {call[t].fd}
    /\ call' = [call EXCEPT ![t].fd = NoFd]
    /\ UNCHANGED <<master, lock, heap, windows, stranded, buffers>>

deallocate(t) == mList' = Release(mList, ChunkAt(mList, call[t].off)) /\ UNCHANGED mHeapSize

undo_X1(t) ==                              \* the region is not given back
    /\ Return(t, "undo")
    /\ UNCHANGED <<master, lock, heap, open, windows, stranded, buffers>>

undo(t) ==
    /\ Return(t, "undo")
    /\ deallocate(t)
    /\ UNCHANGED <<master, lock, open, windows, stranded, buffers>>

(* A caller gives a buffer back.                                           *)
free_pmem_buffer(t) ==
    /\ Goto(t, "idle", "unmap")
    /\ \E b \in buffers :
        /\ buffers' = buffers \ {b}
        /\ call' = [call EXCEPT ![t] = [fd |-> b.fd, off |-> b.off, size |-> b.size, err |-> 0]]
    /\ UNCHANGED <<master, lock, heap, open, windows, stranded>>

unmapPmem_X1(t) ==                         \* a failure is not looked at
    LET fd == call[t].fd
    IN  /\ Goto(t, "unmap", "dealloc")
        /\ stranded' \in {stranded, stranded \cup {windows[fd]}}
        /\ windows' = [f \in DOMAIN windows \ {fd} |-> windows[f]]
        /\ UNCHANGED <<master, lock, heap, open, buffers, call>>

(* When PMEM_UNMAP fails the memory is never given out again: a client may *)
(* still have it mapped.                                                   *)
unmapPmem(t) ==
    LET fd == call[t].fd
    IN  /\ \/ Goto(t, "unmap", "dealloc") /\ UNCHANGED stranded
           \/ Goto(t, "unmap", "close") /\ stranded' = stranded \cup {windows[fd]}
        /\ windows' = [f \in DOMAIN windows \ {fd} |-> windows[f]]
        /\ UNCHANGED <<master, lock, heap, open, buffers, call>>

freeRegion(t) ==
    /\ Goto(t, "dealloc", "close")
    /\ deallocate(t)
    /\ UNCHANGED <<master, lock, open, windows, stranded, buffers, call>>

closeBuffer(t) ==
    /\ Return(t, "close")
    /\ open' = open \ {call[t].fd}
    /\ UNCHANGED <<master, lock, heap, windows, stranded, buffers>>

InCall(t) ==
    \/ initLock(t) \/ initCheck(t) \/ initOpen(t) \/ initMap(t) \/ initStore(t) \/ initUnlock(t)
    \/ allocate(t) \/ openSub(t) \/ connectPmem(t) \/ mapPmem(t) \/ undoClose(t) \/ undo(t)
    \/ unmapPmem(t) \/ freeRegion(t) \/ closeBuffer(t)

Next == \E t \in Threads : alloc_pmem_buffer(t) \/ free_pmem_buffer(t) \/ InCall(t)

Spec == Init /\ [][Next]_vars
-----------------------------------------------------------------------------
HasRegion == {"open", "connect", "map", "undo_close", "undo", "unmap", "dealloc"}

Disjoint(a, b) == a.off + a.size <= b.off \/ b.off + b.size <= a.off

(* No process can reach another's surface: the regions that clients have   *)
(* mapped never overlap, those whose unmapping failed included ("that      *)
(* process access to someone else's surfaces").                            *)
WindowsDisjoint ==
    /\ \A f, g \in DOMAIN windows : f # g => Disjoint(windows[f], windows[g])
    /\ \A f \in DOMAIN windows : \A s \in stranded : Disjoint(windows[f], s)

(* Every chunk in use has an owner: a buffer, a call in progress, or a     *)
(* client that could not be unmapped.  No error path loses one, and none   *)
(* gives one back twice.                                                   *)
HeapAccounted ==
    LET inCalls == {t \in Threads : pc[t] \in HasRegion}
        region(r) == [off |-> r.off, size |-> r.size]
    IN  /\ Used(mList) = {region(b) : b \in buffers} \cup {region(call[t]) : t \in inCalls}
                             \cup stranded
        /\ Cardinality(Used(mList)) =
               Cardinality(buffers) + Cardinality(inCalls) + Cardinality(stranded)

(* Every open descriptor is the master, a buffer's or a call's.  One is    *)
(* lost when the device was mapped and the initialisation failed all the   *)
(* same, because master_fd then holds the error; but one only: the device  *)
(* is mapped at most once, whatever the threads do.                        *)
DescriptorsAccounted ==
    LET owned == {master_fd} \cup {b.fd : b \in buffers} \cup {call[t].fd : t \in Threads}
    IN  /\ areas <= 1
        /\ \A b \in buffers : b.fd \in open /\ b.fd # master_fd
        /\ Cardinality(open \ owned) = IF areas = 1 /\ master_fd < 0 THEN 1 ELSE 0
=============================================================================
