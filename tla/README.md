# A verification of the SkyOS++ kernel core

SkyOS 2.0 (`src/SkyOS++`) is an operating system for one x86 processor. Its
kernel core, `src/SkyOS++/SkyCore`, is written in C++: preemptive threads,
semaphores, mutexes and reader/writer locks, virtual timers on one hardware
timer, handles and reference-counted resources, demand-paged memory with copy
on write, a heap, page tables and a frame bit map. This directory has TLA+
specifications of these parts, TLC models of small instances, and
machine-checked proofs about the locks, the synchronization objects, the scheduler,
timers, the heap, names of files, the table of locked pages, handles, page caches and address spaces. Paths
below are relative to
`src/SkyOS++/SkyCore` unless they begin with `src/`.

## 1. Inventory

| Component | State | Operations | Module |
|---|---|---|---|
| Reader/writer lock, `Mutex.cpp` | `fCount`, two semaphores, a mutex | LockRead, UnlockRead, LockWrite, UnlockWrite | RWLock |
| Recursive lock, `Mutex.cpp` | a mutex, its holder, a count | Lock, Unlock | RecursiveLock |
| Scheduler and threads, `datastructure/` | 32 ready queues, running thread, quantum timer, reap queue | Enqueue, PickNextThread, Reschedule, SwitchTo, Exit, GrimReaper | Scheduler |
| Synchronization objects, `Synchronization.cpp`, `Semaphore.cpp`, `Mutex.cpp` | signalled flags, counts, queues of wait tags | Wait, WaitForMultipleSyncObject, Signal, HandleTimeout | Synchronization |
| Timers, `Timer.cpp`, `HardwareTimer.cpp` | sorted queue, pending flags, the hardware timer | SetTimeout, CancelTimeout, HardwareTimerInterrupt | Timer |
| Handle table, `HandleTable.cpp`, `Resource.cpp` | two-level table with embedded free lists, reference counts | Open, Close, GetResource, destructor | HandleTable |
| Pages and page caches, `Page.cpp`, `PageCache.cpp` | page states, cache membership, count of free pages | GetPage, Alloc, Free, InsertPage, RemovePage, reference counts | PageCache |
| Address spaces, `AddressSpace.cpp` | areas, page map, change count | CreateArea, MapPhysicalMemory, ResizeArea, DeleteArea, HandleFault, FindFreeRange | AddressSpace |
| Area tree, `AVLTree.cpp` | binary tree of ranges with balance factors | Add, Remove, Find, IsRangeFree, Resize, iteration | AVLTree |
| Locked physical pages, `PhysicalMap.cpp` | hash table, inactive list, counts of locks | LockPhysicalPage, UnlockPhysicalPage | LockedPages |
| Page directories, `PhysicalMap.cpp`, `Memory/` | directories, page tables, count of mapped pages | Map, Unmap, CreatePageTable, UnmapPageTable, GetPhysicalAddress | PageTables |
| Frame bit map, `Memory/` | bit map of frames, counts | SetMemoryAvailable, AllocBlock(s), FreeBlock(s), clients of the virtual memory manager | FrameMap |
| Kernel heap, `Heap/` | blocks with header and footer, ordered array of holes | alloc, hfree | KernelHeap |
| Nodes and file systems, `FileSystem.cpp`, `VNode.cpp`, device file system | tree of nodes, covered nodes, reference counts, inactive list, page caches | mount, walk of a path, PublishDevice, RemoveDir | Namespace (tree and walk only) |
| System calls, `SystemCall.cpp` | handles of a team | close_handle, create_area, mount, exec, ... | in HandleTable, PageCache, Namespace |
| Swap space, `SwapSpace.cpp` | chunk bit map, commitment | Commit, Read, Write, AllocSwapSpace, FreeSwapSpace | none (section 6) |
| Teams, `Team.cpp` | lists of teams and threads | ThreadCreated, ThreadTerminated, DoForEach | none |
| Interrupt handlers, `InterruptHandler.cpp` | chains of handlers | ObserveInterrupt, IgnoreInterrupts, Dispatch | none |
| Ring queue, `SkyQueue.cpp` | two indices and a flag | PutData, GetData | none |

How they interact. Everything that waits goes through *Synchronization*, which
takes the waiting thread from the *Scheduler* and sets a *Timer* when the wait
has a limit; *Timer*'s interrupt wakes it, and the scheduler's quantum is a
timer as well. Areas and handles are guarded by *RWLock*, which is made of two
semaphores and a mutex; page caches by a static mutex; allocation on the heap by
a critical section. A page fault goes from the interrupt to *AddressSpace*, from
there with the lock released to *PageCache*, which may read from a node or ask
the cache that it is a copy of, and back to *AddressSpace* to map the page in
*PageTables*. Page tables are reached through *LockedPages*. At start-up the
virtual memory manager takes frames from *FrameMap*; the rest goes to the page
allocator. Areas, files, teams and threads are resources with reference counts,
named by handles.

What is hard. Threads are preempted wherever interrupts are on, and interrupt
handlers switch threads. Many operations look something up under a lock,
release it, and use what they found (close_handle, HandleFault, GetPage).
Tokens of semaphores are passed between parties that never hold a lock together
(RWLock). Timers race with what they bound. Tables share storage between free
and used entries; the heap keeps its own administration between the blocks; the
hash table of locked pages shares its entries with the list of what may be
reused. Bounds are inclusive in one place and exclusive in another.

What makes the components correct, in short: exclusion, no lost token and
everybody's turn (RWLock); only the holder inside (RecursiveLock); queues that
agree with thread states, the highest priority first, exited threads reclaimed
(Scheduler); no lost wakeup, no lost or invented token, no timeout that outlives
its wait (Synchronization); nothing overdue, everything expires (Timer);
identifiers denote at most the resource they were made for, counts are exact, and
free handles are found (HandleTable); no page lost, doubled or seen half filled
(PageCache); disjoint areas, mappings only of the area that is there, no write
through a private mapping (AddressSpace); answers of the tree that are those of
the set of ranges (AVLTree); slots that are not reused while locked
(LockedPages); a map and a count of it whatever tables come and go (PageTables);
frames owned once, and the first run found (FrameMap); blocks that tile the heap
and keep their owners apart (KernelHeap); a walk that ends where the name says
(Namespace).

## 2. Modules

Each `MC*.tla` instantiates the module of its name for TLC, and every `.cfg` is
one run. Operators whose comment begins with "Mutant:" are deliberately wrong
variants of the definition that they name, and are used by no specification;
putting one in its place shows that a property depends on that line of code.

**RWLock.** The lock at the grain of its atomic operations: `AtomicAdd` on
`fCount`, Wait and Release of `fReadSem` and `fWriteSem`, Lock and Unlock of the
write mutex. A thread's place in the code is `pc`; `todo` is a writer's local
`readerCount` or `waitingReaders`. Which of several blocked readers gets a token
is left open. **ReadersWriters** is what the lock promises, in five lines of
state: a set of readers and a writer. `Implements` maps the places "reading" and
"writing" to it.

**Scheduler.** One processor; code with interrupts off is one step. `sched`
holds what the scheduler keeps, with the names of the code; `pc` and `isr` say
what a thread does when it runs again and whether it was interrupted inside the
timer interrupt. Start-up (main makes the reaper, then the idle thread) is part
of the behaviour. Waiting and waking are abstract (Block, Wake), time is reduced
to the two comparisons the code makes (quantum used up; slept for long). `others`
are the threads that somebody beside the reaper has a reference to: a thread that exits
is "released" by the reaper and "deleted" with its last reference (`CloseHandle`).
`ReaperBlocks` is the reaper's wait inside ~Thread, which deletes areas and so asks for
`fAreaLock`.

**Synchronization.** Objects, threads and tags as in the code; Wait with and
without a limit, waits on two objects at once, Signal, Release, Unlock and
HandleTimeout, each with interrupts off and so one step.

**Timer.** Times are kept as differences to now, so that the state is finite
without a bound on the clock. The users are there: waits, the quantum (set from
inside the interrupt), and the floppy driver, which calls with interrupts on and
so is modelled in two steps.

**HandleTable.** Two levels, free lists embedded in the free entries, serial
numbers, `fFreeHint`; threads that open, use and close; the memory of deleted
resources is reused. **HandleMap** is the abstract table: a partial function
from identifiers to resources.

**PageCache.** GetPage as a small program per thread with a stack, since it calls
itself for the source of a copy cache; every release of `fCacheLock`, and every
wait for a page with the lock held, is a point where others run. Backing store
may fail. Areas and faults are there as holders of references.

**AddressSpace.** The areas as a function, the search for room, the two halves of
HandleFault with GetPage between them, the page map with the page and whether it
is writable. A page is named by the cache and offset of its contents, which
PageCache's `OnePage` justifies. Addresses are bytes with a small page size,
because the mistakes to be made here are about bytes at the ends of ranges.
`fChangeCount` is kept as a flag per fault in progress: whether it has changed
since that fault read it.

**AVLTree.** The tree itself: nodes with two children and a balance, the stacks of
a descent, the rotations of Add and Remove. It justifies AddressSpace's use of a
function for the areas.

**LockedPages.** The window of slots: the hash table with one entry per bucket
(nothing sets `hashNext`), the list of inactive slots, counts of locks. **PageTables**
is directories and tables, with one step per operation (they exclude each other
with `fLock`), for the part of a map below `kKernelBase`; failures of
CreatePageTable are there. **AddressMaps** is what it implements: functions from
addresses to pages, changed only by what is called.

**FrameMap.** The bit map as a set, with the sums that the code keeps beside it and
the word-wise searches; above it the virtual memory manager's calls: mapping,
allocating, freeing tables. One caller at a time, as in start-up. The bitmap ends at the
address `availablePoint`, and `startBlock`, from which frames are free at first, is that
divided by the size of a frame, rounded down as in SetMemoryAvailable. `behind` remembers
which frame was last put behind each page, to compare with what the tables lead to.

**KernelHeap.** Memory as a function from addresses to headers and footers, so that
stale headers stay where they were; the index of holes as a sequence in the order
that insertion and removal leave it in. alloc and hfree are one step each (their
callers are in a critical section). **BlockStore** is the abstract heap, and
`HeapImplements` maps to it, with size 0 for a block whose header is gone.

**Namespace.** File systems as trees of nodes, `fCoveredBy` and the node covered,
the walk of a path, mount, mkdir and PublishDevice. Nodes are not reclaimed here.

**RecursiveLock.** The lock's fields at the grain of single reads and writes over a
mutex that has one owner.

**MCStructures** puts the modules of the last five paragraphs and AVLTree beside
each other. They share nothing. A step of one is taken only while all others are
as they were created, so that the state spaces add instead of multiplying, and
every one is searched completely from its initial state.

## 3. Runs

All runs search exhaustively. In each module `TypeOK` (or the same for a part) is
the first conjunct of one of the invariants below.

| Run | Instance | Shows |
|---|---|---|
| rwlock | 4 threads, fair | `Exclusion`; the inductive `IInv` of section 4; `Implements` ReadersWriters; `EverybodyGetsIn` |
| scheduler | main, reaper, idle, 1 worker, fair | `ReadyQueues` agree with thread states and counters; `AlwaysSomethingToRun`; `ReapQueue` holds exactly the dead; at every switch `DeadStayDead`, `HighestGoesFirst`; at every step `TimesliceArmed`; `Reaped`, if the reaper's waits inside ~Thread end |
| sync_objects | 3 threads, 2 semaphores, 1 mutex | `NoLostWakeup`, `TokensConserved`, `MutexHeld`, `TagsLiveAsLongAsTheWait`, `FirstComeFirstServed` |
| timer | 3 timers, fair | `HardwareCovers` the head of the queue, `NothingOverdue` after an interrupt, `Expires` |
| handles | 2 threads, 3 resources, 2x2 table, 2 serial numbers | `RefCounts` exact; `FreeHandlesFound`: the free lists are exact and the hint is never above a free entry; `Implements` HandleMap |
| page_faults | 3 threads, a file, its copy, an anonymous cache | `OnePage`, `PagesAccounted`, `ResultUsable`, `SomebodyGoesOn` |
| space | 2 threads, 2 areas and the kernel's layout, with ResizeArea | `AreasDisjoint`, `MappingsInAreas`, `SearchFromTop` as long as nothing was resized, `NoWriteThrough` always |
| structures | see below | `HeapTiles`, `HeapImplements`; `TreeAnswers`; `SlotsKept`; `FramesAccounted`, `FindsTheFirstRun`; `PagesCounted`, `MapsImplement`; `WalksByName`; `RecursiveExclusion` |

Bounds. Four threads give the RWLock two writers and two readers, or a writer
that meets three readers, which takes every path. In the scheduler the worker has
main's priority, so that the two share a queue and its time slices; boosts spread
the four threads over ten queues. Semaphores are bounded by `MaxCount` = 2, enough
for a token too many to show. Two serial numbers suffice for an old identifier to
meet a reused entry; a 2x2 table has a boundary between subtables, three resources
cross it, and `FreeHandlesFound` says that no entry is out of reach, so that the
panic, which would need a fifth resource, comes only when the table is full. Timers
are told apart to `MaxLatency` overdue; kMaxTimerInterval = 2 is less than the
longest delay, so that the hardware timer has to be set in stages. Three threads on
one offset give a reader, a copier and one who waits; a cache has at most one page
per offset, so 4 pages never run out. The layout of the address space has a dummy
area, one that overlaps it and is refused as the kernel's text is with the constants
of `memory_layout.h`, and a third with a gap of one page below and of two above.

In structures: a heap of 16 words with headers of 2, footers of 1 and requests of
1, 2 and 5, where a request meets holes that fit exactly, that leave a rest too
small for a hole, and that split, and blocks merge with the left, the right and
both; 7 tree nodes, one of them overlapping others, enough for single and double rotations
in additions and removals; 3
slots and 3 pages in 2 buckets, so that a bucket's entry is replaced while it is
held; 10 frames in words of 4 bits, whose last word is partial, the first 4 in use by the kernel and a bitmap that ends with the fourth;
page directories of 3 tables with 2 entries, 2 maps and 2 frames for tables, so that
making a table fails; trees of up to 9 nodes, 2 mounts beside the root and paths of
up to 4 entries; 3 threads that lock up to twice.

Symmetry is used only in runs without liveness.

Deadlock is not checked in two runs: scheduler, where a switch out of an interrupt
that is never acknowledged really stops the machine (see below), and structures,
where the namespace stops at its bounds on nodes and mounts.

Fairness. RWLock: a thread inside the lock's code, or holding the lock, goes on
(the scheduler shares the processor by quanta, holders unlock); nobody has to ask
for it. Scheduler: the running thread goes on; strong fairness of the reaper's
steps, because it has the highest priority of what is ready again and again and
interrupts are further apart than its steps. `ReaperBlocks` is not fair and need not end:
DeleteArea waits for `fAreaLock`, a read hold of which may leak (`AddressSpace.cpp:239`),
and Mutex::Unlock wakes the reaper without a reschedule. `Reaped` therefore has
`WaitsInReleaseEnd` as its premise: the reaper is not kept inside ~Thread for ever. Timer: time passes, the hardware
timer's interrupt is taken, and a driver thread inside SetTimeout gets on.

### Disagreements between code and comments

Each of these runs checks one property that states what a comment, a panic or an
interface description of the repository says; TLC finds it violated.

| Run | Where | What happens |
|---|---|---|
| timer_cancel | `Timer.cpp:47` | a timer is marked pending before it is queued, and may be cancelled in between |
| handles_shared | `SystemCall.cpp:237` | two threads that close one handle free it twice |
| space_bad_address | `AddressSpace.cpp:242` | missing braces: a fault fails when any area changed, and may keep the lock |
| frames_bitmap | `Memory/PhysicalMemoryManager.cpp:263` | the end of the bitmap is rounded down: the frame with its last words is handed out |

The last one needs that the bitmap does not end at the end of a frame. It begins at one,
because the kernel's size is a whole number of pages, and has a word for 32 frames, so
that it ends at one only if memory, rounded up to 128 KB, is a multiple of 128 MB. With
memory up to 0x7FE0000, say, the bitmap has 1023 words in one frame; that frame is marked
free, and the first AllocBlocks, for the kernel's page directory, returns it, and
SetupKernelPageDirectory clears it (`Memory/VirtualMemoryManager.cpp:213`).

The models show, or the code says on the way to them, more of the same kind that
has no run of its own.

Threads and time:

* `Synchronization.cpp:103`: a wait for one of several objects takes them all, also those
  that are not signalled. Nothing passes WAIT_FOR_ONE; with it among `MultipleFlags` TLC
  finds `TokensConserved` violated, by a count of -1;
* `datastructure/Scheduler.cpp:60`: the quantum timer is set from a time before the one at
  which SwitchTo begins the quantum (`datastructure/Thread.cpp:108`). Its interrupt, if it
  is taken without delay, finds the quantum not used up, Reschedule returns early (lines
  45-52), and the thread goes on with no timer set until something else reschedules. This
  is the only step that leaves a thread other than the idle one without its timer; so
  says `TimesliceArmed`;
* `datastructure/Scheduler.cpp:94`: after the only ready thread was taken, the
  search for the next queue leaves the array (`BelowQueues` in Scheduler);
* `Timer.cpp:139`: the switch happens inside the handler, before the interrupt is
  acknowledged (`isr` in Scheduler), against `InterruptHandler.h:42`.

Faults and areas:

* `PageCache.cpp:100`: a read error is answered with a zeroed page (`ReadFailed`,
  `Onward` in PageCache), although `AddressSpace.h:85` promises E_IO;
* `AddressSpace.cpp:250`: a read fault that got the shared page maps it over the
  private copy that a write fault made meanwhile, and readers do not see what was
  written until the next write fault (`GetPage`, `FaultMap` in AddressSpace);
* `AVLTree.cpp:223`: ResizeArea makes areas a byte too long, so that an area resized
  to its own size overlaps the next one, and a page served behind its end stays
  mapped when it is deleted (`ResizeArea` in AddressSpace; nothing calls it);
* `AddressSpace.cpp:361`: searching from the bottom, the room above the last area is
  never found (`FindFreeRange`);
* `AddressSpace.cpp:379`: an area at a fixed address may reach above
  `kAddressSpaceTop`, and the room below it is then computed from a negative gap
  (`SearchFromTop` is checked with fixed addresses below the top).

Memory:

* `Memory/PhysicalMemoryManager.cpp:143`: AllocBlocks refuses when exactly as many
  frames are free as it is asked for, and no search looks at a last, partial word
  of the bit map (`FindsTheFirstRun` says what is found);
* `Memory/VirtualMemoryManager.cpp`: when CreatePageTable finds no frame, its table
  is cleared at address 0 (`low` in FrameMap); UnmapPageTable frees a table and
  leaks the frames mapped by it;
* `PhysicalMap.cpp:283`: a page that is locked while its bucket is in use replaces
  what is in the bucket, and a page may then occupy two slots (LockedPages);
* `PhysicalMap.cpp:98`: Map locks the page of the directory there and never unlocks it:
  lines 166-167 lock it once more and unlock that. Each call leaves one hold on its slot;
  the tables, which PageTables is about, do not depend on it;
* `PhysicalMap.cpp:132` and `:228`: Map unlocks by physical address where the window
  is meant, in the kernel's part only; GetPhysicalAddress reads the directory again
  after unlocking it. The kernel's part is copied from entry 768 on, while
  `kKernelBase` is 0x01600000, entry 5;
* `Heap/`: merging changes the size of a hole that is in the index without sorting
  it again, so that later allocations need not get the smallest hole (KernelHeap
  keeps the order as the code leaves it); insert_ordered_array does not look at
  HEAP_INDEX_SIZE; `g_usedHeapSize` is changed outside the critical section;
* `AVLTree.cpp`: Remove may leave the tree unbalanced (its answers stay right), while
  stacks have 32 entries.

Names and teams:

* `SystemCall.cpp:320`: the check that a directory is not a mount point never fires,
  because the walk has already crossed into what is mounted; a mount on a root that
  is covered already makes `..` go wrong (`PlainMounts` in Namespace, the condition
  of `WalksByName`);
* `FileSystem.cpp:123`: walks that fail keep a reference; RemoveDir wants exactly
  two entries, and has no caller;
* `Team.cpp:69`, `SystemCall.cpp:407`: a team has a reference count of 0 while exec
  loads its image;
* `SystemCall.cpp:40`: `systemCallTable` consists of `bad_syscall` alone, the calls are
  commented out; what is said of system calls here is of the functions as they are, which
  the kernel can call;
* `InterruptHandler.cpp:47`: `<= kMaxInterrupts` lets one vector too many through;
* `SwapSpace.cpp:117`, `:148`, `:167`: Commit tests the wrong difference, the search
  takes indices of words for numbers of chunks, and chunks are counted from 1 when
  handed out and from 0 when freed (nothing calls SwapOn).

Because of these, handles has `Shared` = FALSE (a thread closes only what it
opened), sync_objects waits for all of several objects and not for one, timer has
one driver thread, what AddressSpace says of areas ends with the first ResizeArea,
`FramesAccounted` has a bitmap that fills its frames, `Reaped` is about a reaper whose waits
end, and `WalksByName` ends with the first mount on a root.

## 4. Proofs

`RWLockProofs.tla` proves, for every finite set of threads smaller than
`kMaxReaders` (0x50000000 in the code) — `RWLockAssumption`, the only one —

* `RWLockInvariant`: `Spec => []IInv`;
* `RWLockExclusion`: `Spec => []Exclusion`;
* `RWLockImplements`: `Spec => Implements`: the lock of atomic operations implements
  ReadersWriters.

`Exclusion` is not inductive: that a reader may come in depends on `fCount` and
on the tokens of `fReadSem`. `IInv` (in RWLock, checked by the run rwlock) is the
conjunction of

* `TypeOK` and `WriteLockHeld` (the mutex is free, or one thread is at the places
  between getting and releasing it, and the queue holds those who wait for it);
* `CountsReaders`: `fCount` is the number of threads inside or on their way in,
  less `kMaxReaders` while a writer is announced;
* `ReadTokens`: threads that wait for a read token are as many as the tokens
  released plus the ones the writer has still to release, or they are waiting
  for the announced writer;
* `WriteTokens`: what the announced writer still waits for are the readers inside,
  the ones about to wake it, and the tokens released for it.

The proof has a lemma for each action (`LockReadStep`, ..., `UnlockWriteReleaseStep`)
that cites how the number of threads at a place changes when one moves (`MoveN`,
`ReaderMove`, `HolderMove`) and, for signs of `fCount`, that there are fewer
readers than `kMaxReaders` (`FewReaders`, `Sign`). `InitIInv` and `NextIInv` put
them together. In the writing place `WriteTokens` says that no reader is owed a
token, which with `WriteLockHeld` is `Exclusion` (`IInvExcludes`). For the
refinement, `NextImplements` sorts the steps by what they do to the places
"reading" and "writing": nothing (`QuietStep`, `QuietPair`), a reader that comes in
or leaves, a writer that comes in or leaves (`ReadersStep`, `ReaderStep`,
`WriterStep`, `LeaveStep`). That a reader comes in only when there is no writer, and
a writer only when there is nobody, is `Exclusion` in the state after the step.

`StructureProofs.tla` has the proofs about the timers, the heap, names, page tables and frames (below) and about
two more of the structures that `MCStructures` puts together. It proves `LockedPagesKeepSlots`,
`LockedSpec => []SlotsKept`, for every sequence of slots, set of pages and hash
function (`LockedPagesAssumption`: the slots are different, `NoSlot` is none of
them, `INVALID_PAGE` is no page). `SlotsKept` is inductive. There is a lemma for
each operation (`LockMappedStep`, `LockAnewStep`, `UnlockStep`), and one for each
way in and out of the queue of inactive slots (`LeavesQueue`, `HeadLeaves`,
`JoinsQueue`), which keeps it free of repetitions. The hash table hardly appears in
the argument: a page is taken from a bucket only if the slot there has that page,
so that a bucket that lost a slot costs a second slot and never a wrong page.

It also proves `RecursiveLockExclusion`,
`RecursiveSpec => []RecursiveExclusion`, for every set of threads (`RecursiveAssumption`: `Nobody` is none of them, and the
bound on recursion is a number). `RecursiveExclusion` is inductive as it stands;
`TypesKept`, `ThreadsKept` and `FreeKept` are the steps of its three parts. The
argument is the one the code relies on: `fHolder` is read without a lock, but only
the thread itself ever writes its own name there.

`PageCacheProofs.tla` proves `PageCacheOnePage`, `PageCachePagesAccounted` and
`PageCacheResultUsable` for every finite number of threads, pages and copies and
any caches and offsets (`PageCacheAssumption`: a copy has a file as its source, the
three sorts of caches are different, `None` is nothing else). None of the three is
inductive: that a cache has one page for an offset needs that nobody inserts one
between the look into the cache and the allocation, that the page which a call of
GetPage waits for or fills stays where it is meanwhile, and therefore that the cache
lives on. `IInv` is the conjunction of

* `Types`, and for each thread `ThreadOK`: the calls of GetPage on its stack are for
  the cache of its fault and for that cache's source, in this order, and what each
  call has in `page` and `got` is what the code relies on at its place;
* `PagesOK`: the pages of a cache are at different offsets, a page is free exactly if it
  is in no cache, with `fFreePagesAvailable` the number of those, and a cache with a page
  has a reference;
* `BusyOK`: a page in transition is the page of a call, and never of two threads'
  calls;
* `RefsOK`: the reference count of a cache is the number of those that hold it: the
  node of a file, an area, faults and copies.

Each action has a lemma; the long ones are those of the calls that return into
another call. `BusyOK` with `RefsOK` is why ~PageCache never takes a page away from
a call that sleeps.

`AddressSpaceProofs.tla` proves `AddressSpaceAreasDisjoint`,
`AddressSpaceMappingsInAreas`, `AddressSpaceSearchFromTop` and
`AddressSpaceNoWriteThrough` for any number of threads and areas, any page size,
width of an address, and layout. `AddressSpaceAssumption` says that sizes are whole
pages and that the top is the last address of a page; `PlacementAssumption` that the
kernel's layout begins with an area at 0, and that neither the layout nor the fixed
addresses that callers ask for reach beyond the top. The code does not check the
latter (the run space_bad_address shows what follows), so that the theorems say what
holds for callers that respect it. Two arguments meet in `IInv`:

* The search. `CeilingIs`, `FloorIs`, `FoundFromTop`, `FoundFromBottom` and
  `SearchIsHighest` prove of the search as it is written, from neighbour to neighbour,
  that what it returns overlaps no area, and from the top that nothing higher is free. `AreasOK` (areas are apart, one begins at
  0, sizes are whole pages) is what the search needs and what insertion keeps.
* The fault. Between its two parts a fault holds no lock; `FaultOK` says that as long as
  its `fChangeCount` is the one it read, its area is still there, with the same
  cache, protection and distance to the fault's address. `MapOK` and `WriteOK` are what
  it then maps. `LeakOK` bounds the read holds that a fault leaks when it finds a change
  (section 3): it has seen one, and while a hold is leaked nothing changes any more.

ResizeArea, which checks nothing, ends what `AreasOK` and `MapOK` say; `WriteOK`, and
with it `NoWriteThrough`, stays.

`HandleTableProofs.tla` proves `HandleTableRefCounts`, `HandleTableFreeHandlesFound`
and `HandleTableImplements` (`Spec => Implements`, the refinement of HandleMap) for tables of
any size, any number of serial numbers, resources and finitely many threads, under
the hypothesis `~Shared`: threads close only handles that they opened themselves and
have not closed. Without it the three are false (run handles_shared, section 3). Any
thread may still *use* any identifier, its own, another's or one closed long ago. `IInv` is

* `OwnersOK`: an open handle that some thread was given, or is just being given, is
  owned by that thread alone, and the serial number of the handle is that of the
  identifier; so Close, which checks nothing, always meets an open handle;
* `SubsOK`: the list that starts at `fFirstFree` and is threaded through the free
  entries has each of them once. `TakeOK` and `GiveOK` are what Open and Close do to
  it;
* `HintOK`: subtables are made in order, and all below `fFreeHint` are full.
  `CandidatesOK` is Open's search;
* `ThreadOK` and `RefsOK`: what a system call holds between its steps, and the sum
  that the reference count is.

The arithmetic of identifiers is `IdParts` and `PartsOfId`: packing and unpacking
are inverse, with subtables of any (equal) sizes. `IsFree` tells a free entry from an open
one by its value, so the assumption includes what the code takes for granted: no
pointer is as small as an index. For the refinement, `OtherLookups` says that a step
on one entry leaves what all other identifiers stand for as it was.

`SchedulerProofs.tla` proves `SchedulerReadyQueues`, `SchedulerAlwaysSomethingToRun`,
`SchedulerReapQueue` and the properties of steps `SchedulerDeadStayDead`,
`SchedulerHighestGoesFirst` and `SchedulerTimesliceArmed` for every finite set of
workers, any number of priorities and any base priorities (`SchedulerAssumption`: the
kernel's three threads are different and no workers). The functions of the scheduler
call each other within one step, so the lemmas are about what a function makes of
a scheduler `s`, and an action puts them together:

* `SchedOK`: the queue of each priority lists the ready threads of that priority
  once (`Once`), the count is their number, the highest priority is one of theirs, boosts
  are within 3, and nobody runs but the thread that has the processor.
  `EnqueueOK`, `PickOK` and `RescheduleOK` keep it; `HighestNonEmptyIs` is the search
  for the next queue. When no thread is ready the highest priority is 0 or below the
  queues, else the next thread with a low priority would not be found;
* `KernelThreads`: the idle thread is ready or runs from its creation on, and before
  it the bootstrap thread does not wait. Hence `SomebodyReady`, the assertion of
  PickNextThread, and two ready threads, one of them idle, whenever another gets the
  processor, which is why Reschedule sets the timer;
* `DeadGivesUp` and `ReaperSteps`: a thread that is dead and still has the processor,
  because it was interrupted in Exit, can only give it up, and the reaper has its
  victim between Dequeue and ReleaseRef and nowhere else, also while it waits there. With
  the balance of tokens and queued threads in `ReapQueue` itself this is inductive.

`SchedulerTimesliceArmed` is about every step, not only those that switch threads: the timer
is set again, or nothing was switched and it was unset before, or its interrupt came too
early (section 3).

The timer's interrupt wakes any number of threads before it calls Reschedule;
`TimeoutsExist` and `AfterTimeoutsOK` follow them one by one, from the first that would
go wrong.

`SynchronizationProofs.tla` proves `SynchronizationNoLostWakeup` and
`SynchronizationTagsLive` for any threads, semaphores, mutexes and flags of
WaitForMultipleSyncObject, and `SynchronizationTokens`, `SynchronizationMutexHeld` and
`SynchronizationFirstCome` under the hypothesis that `WAIT_FOR_ONE` is not among those
flags. With it the code violates them (section 3), and nothing in `src/` passes it. There are two inductive invariants.

* `WaitInv`: each object's queue has the tags of the threads that wait for it, once each,
  and a thread's timer runs only while it waits (`TagsRight`); and no thread waits that
  could be woken by an object that is signalled (`NoneMissed`).
* `GrantInv` adds that a semaphore is signalled exactly while it has tokens
  (`CountsRight`), that a wait is for one object or for all of several (`FlagsRight`),
  that the tokens released are those that are left and those that were given, and that a
  mutex is either signalled or has the one holder (`Granted`).

`Woke`, `Unlinked`, `Readied` and `Queued` say what the functions do to the state, and `Taken`
which objects a thread that goes on has taken; every operation comes down to them
(`SignalDoes`, `WaitDoes`, ...). Signal's loop is `Loop`: after any number of turns the tags
it has still to look at are in the queue as they were, and those it has passed were
woken or could not be. `LoopNext` is one turn, `LoopEnds` the whole loop, by way of the
first turn that would go wrong; `SignalMissesNobody` is then what Signal leaves behind.
`Accounted` says what the loop has given away. For the order, `StepIs` sorts the steps of a queue: a thread
joins it behind all others (`ComesLast`), one is answered, or one gives up; and
`ServedInOrder` is why the answered one has nobody before it.

The timers' theorems are `TimerHardwareCovers` and `TimerNothingOverdue`, in
`StructureProofs.tla`, for finitely many timers (`TimerAssumption`: the quantum and the
motor's timer are two timers and no thread's; intervals are not 0), any delays, any range of the hardware
timer and any latency of the interrupt, under the hypothesis `OneDriver`: one thread
uses the floppy. With two, a timer can be pending and not in the queue (run timer_cancel). `TimerInv` is

* `QueueRight`: the queue has every timer that is to be listed once, and in the order in
  which they are due (`Rising`), so that its head stands for all (`HeadIsLeast`). HardwareCovers
  is not inductive without the order: when the head is cancelled, it is the next whose
  time the hardware timer gets;
* `Covers`: the hardware timer comes no later than the head is due, or has come.
  InsertTimeout sets it only when the head changes, and `InsertTimeoutRight` is why that
  is enough;
* `DriverRight`: a driver thread inside SetTimeout is the reason why the motor's timer is
  pending and not listed (`OutOf`), and it finds it not pending when it checks.

For the interrupt, `Debt` is how much, in microseconds, the listed timers are overdue
together. A turn of the loop takes from it at least one (`TurnRight`), whether the head
is periodic or not, so that after `Turns` turns, the bound of the model, nothing is
overdue (`ExpireRight`). This is also why the bound in `Expire` leaves nothing out.

The heap's theorems, in `StructureProofs.tla` too, are `HeapStaysTiled` (`HeapTiles`) and
`HeapStoresBlocks` (`HeapImplements`: the heap implements BlockStore), for every size of the
heap, of headers, footers and requests (`HeapAssumption`: sizes are not 0, the heap is
larger than one header and one footer, and memory without the magic number is neither a
header nor an address). `HeapInv` is `HeapRight`, of the blocks that callers hold and the
holes that the index lists, and that blocks are as large as was asked for:

* `Layout`: the parts follow each other from the first address to the last; every address
  is then in one part (`Covered`), and every part but the first has one that ends where it
  begins (`LeftOf`);
* `PartRight`: each part has its header and, unless it is the whole heap, its footer;
* the index lists the holes once (`Once`), and no two holes are neighbours.

Nothing is said of the old headers and footers that stay in memory. They do no harm
because hfree looks only at the end of a block and at the beginning of the next
(`RightHole`, `LeftHole`: what looks like a hole there is one, and what is one looks like
one). That holes are not neighbours is needed because hfree unifies a block with one hole
on each side: `FreeLeft` and `FreeAlone` are its two cases, `UnifyRightIs` the hole on the
right. `AllocWhole` and `AllocBegin` are memory_alloc with and without a rest. Each lemma
also says that the headers of other blocks are as they were, and BlockStore follows from
that.

`NamespaceWalksByName`, in `StructureProofs.tla` too, is
`NameSpec => []WalksByName` for any names, any number of nodes and mounts and paths of any
length (`NamespaceAssumption`: neither `.` nor `..` is a name). `WalksByName` compares two
walks through one tree, so that all there is to find is what the tree always is. That is
`NamesRight`:

* `NodeIs`: each entry of a directory is a node that has this directory as its parent, or a
  device, and that is not the root of any file system (`ChildIs`); a node that is covered is
  the one which the file system there covers;
* `SystemIs`: a root is its own parent and belongs to its file system; nothing is covered by
  the root file system.

`MakeDirRight` and `MountRight` keep it: `Grown` says that nodes and file systems
only ever come to what was there, and then what held of the old ones holds
(`ChildStays`, `NodeStays`, `SystemStays`). `StepUp` is the heart of it: a step to a name and
then one to `..` ends where it began, whether the name is that of a directory or of one
that is covered, in which case `..` starts at the root that was walked into and goes back
through `fCovers`. This needs `PlainMounts`, the condition in `WalksByName`: a root that is
covered itself would be walked past. `FollowsOn` is one entry of a path, `WalkByName` the
whole, by way of the first entry after which the walk and the shortened path disagree.

The page tables' theorems are `PageTablesCounted` (`PagesCounted`) and
`PageTablesImplement` (`MapsImplement`: directories and tables implement AddressMaps), for
any maps, frames and pages and directories and tables of any size (`PageTablesAssumption`:
sizes are not 0, and an entry that is not present is neither a frame nor a page).
`TablesRight` is inductive: types, `Unshared` (an entry of a directory that is present is
that of one part of one map) and `Counted`. `Unshared` is why a change of one table
changes one map, and in it one part. What Map and Unmap do to the addresses of all maps is
`Remapped` (`MapPageRight`, `UnmapPagesRight`), and the count follows from it:
Unmap counts the entries it clears, and they are as many as the addresses they are
at, because the places of addresses in tables are different. Unmap's loop goes through
tables and may begin in the middle of one: `RoundsDone` says that after any number of
rounds it has come to the entries of exactly the addresses behind it that have a table,
`RoundRight` is one round and `UnmapReaches` the whole loop.

The last of `StructureProofs.tla` are `FrameMapAccounted` (`FramesAccounted`) and
`FrameMapFindsTheFirstRun` (`FindsTheFirstRun`), for any amount of memory, words of the
bitmap and tables of any size, and any pages and numbers of frames that callers ask for
(`FrameAssumption`: sizes are not 0, frame 0 is below the first free frame, and devices
are behind the memory). `FrameMapAccounted` is under the hypothesis `BitmapFillsItsFrames`;
without it the frame of the bitmap's last words may get a second use (run frames_bitmap).
`KernelFramesAre` is where it is needed: the frames with words of the kernel and of the
bitmap are then exactly those below `startBlock`.

* `FindsTheFirstRun` is about what GetFreeFrames computes and holds of every bitmap, so that
  nothing is assumed about the state: `CountFreeRight` says where the inner loop stops, and
  `SearchIsFirst` why the outer one may give up as soon as it runs off the bitmap: no later
  frame can begin a run either.
* `FramesAccounted` is proved from `FramesRight`: no frame has two uses (`OneUse`), no frame is
  the table of two parts of the directory (`OwnTables`), no two callers hold one (`BlocksApart`),
  tables lead to frames that are behind pages or to devices (`Leads`), and each page to the
  frame last put behind it (`Leading`), which is behind no other page (`BehindAlone`).
  Allocations take frames that are free (`AllocBlocksRight`), so that they may become a table
  (`TableInRight`), go behind pages (`TakenBacks`) or be given away (`TakenGives`);
  `UnmapTableRight` is why a table that is freed with pages still mapped in it leaves
  nothing that leads to a frame of somebody else. MapAddress and UnmapAddress are
  followed page by page (`PageLoopRight`), also where no frame for a table is left and an
  entry is lost. The sums of `FramesAccounted` follow, because what is apart counts apart.

`Counting.tla` has the lemmas these proofs share: how a cardinality changes when an
element comes or goes (`CountIn`, `CountOut`, `CountTwo`), least and greatest numbers of
a set, division with remainder (`Remainder`, `DivMod`, `SameBlock`,
`NextMultiple`), and queues: `Once` says what a queue lists, and `OnceInsert`, `OnceRemove`,
`RisingInsert` and `RisingRemove` what becomes of it and of its order when one is put in
at any place or taken out from any.

What could not be reasoned about was changed in the modules, not what they say:
addresses wrap at `AddressLimit`, a constant, where they wrapped at 2^n before;
FindFreeRange's rounding is stated by its property; the list of free handles is given
by a function, `IsFreeList`, where it was computed by recursion; records are written out where a
chain of EXCEPTs stood; the sleepers that one interrupt wakes are followed by a function,
`AfterTimeouts`, where a fold stood; the loops of Signal and of the timer's interrupt are functions of
the number of turns, where folds stood; RemoveFirst takes a tag or a timer from
its queue, where SelectSeq did; WalkPath and `Canonical` are functions of the number of
entries walked, where folds stood; Unmap's loop is a function of the number of its rounds, where
recursion stood, and so are the loops of MapAddress and UnmapAddress, where folds stood; the
searches for free frames are stated by where they end, where they were recursive; what
BlockStore sees of the heap and AddressMaps of the page tables has a name, `blocks` and
`mappings`.

Only model-checked, and why:

* Liveness (`EverybodyGetsIn`, `Reaped`, `Expires`) is outside the proof system's logic.
* `SomebodyGoesOn`, that calls of GetPage do not all wait for each other. When a thread can
  go on is written by hand (`CanGoOn`, from the guards of the actions). It is true only
  with pages enough for all calls, and a proof would have to follow who waits for
  whom.
* `TreeAnswers`: AVLTree has recursive operators on trees, which the provers cannot take, and
  what they compute is proved by induction over the tree, which needs the library's induction
  theorems, and those take an operator. (`LeastNumber` and `GreatestNumber` replace induction
  where the first or the last of something is all that is asked for.)

## 5. Plan

1. Done: RWLock with its abstract lock and proofs, Scheduler, Synchronization,
   Timer, HandleTable with its abstract map, PageCache, AddressSpace; KernelHeap with
   its abstract store, AVLTree, LockedPages, PageTables with its abstract maps,
   FrameMap, Namespace, RecursiveLock; proofs of RWLock, RecursiveLock, LockedPages.
2. Done: proofs of PageCache, AddressSpace, HandleTable, Scheduler, Synchronization,
   Timer, KernelHeap, Namespace, PageTables and FrameMap.
3. New parts: VNode's reference counts with the inactive list and the race for the
   page cache; Team and its last reference; InterruptHandler chains; the kernel's
   part of page directories; SwapSpace, should it get a caller.
4. Composition: Synchronization over Scheduler (what wakes whom, with priorities);
   AddressSpace with PageCache in place of its abstract GetPage.

## 6. Not modelled

Swap space (nothing calls SwapOn, so that no cache ever swaps; what reading it shows
is in section 3), teams and the chains of interrupt handlers (planned), the ring
queue (no object of it is used), system calls that only pass on to what is modelled,
context switches and descriptor tables, ports, the loader and its file formats, FAT
and disk drivers, console, debugger and GUI, network and audio stacks, start-up, and
everything outside SkyCore (applications, SDL, Lua, ImGui, the C library, SkyOS64):
they are hardware, I/O, formats, third-party code or sequential glue.

Within modelled files: LRU order of pages, the page eraser and statistics; Commit
failing; destructors of address spaces; page-aligned requests, expand and contract of
the heap (no caller reaches them); the kernel's part of page directories; reclaiming
of nodes; printing. Physical memory whose size is not a whole number of blocks is
modelled as SetMemoryAvailable leaves it.
