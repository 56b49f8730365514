# A verification project for Simple_OS_Simulator

TLA+ models of the simulator in `src/`, TLC runs on small instances of them and
TLAPS proofs for all instances. `PROJECT.json` lists the runs, the source lines
every definition stands for, the hazards, the mutants and the theorems.

## 1. The system

The simulator runs programs of a toy instruction set on simulated CPUs. `main`
(`src/src/os.c`) reads a configuration, starts one thread per CPU, one loader
thread and one timer thread, waits for the CPUs and the loader, and stops the
timer. The build has `MM64` and `MM_PAGING` defined (`os-cfg.h`, `os-mm.h`).

| Component | State | Operations | Interacts with |
|---|---|---|---|
| timer (`timer.c`) | `_time`, the device list, per device `done`, `fsh`, two mutexes and two condition variables | `attach_event`, `start_timer`, `next_slot`, `detach_event`, `stop_timer`, the loop of `timer_routine` | every CPU and the loader, as a barrier per time slot |
| scheduler (`sched.c`, `queue.c`) | 140 ready queues of 50 places, a slot budget per queue, `running_list` | `get_proc`, `put_proc`, `add_proc`, `remove_proc`, all under `queue_lock` | CPUs, loader; system call 17 reads `running_list` without the lock |
| OS threads (`os.c`) | `done`, `krnl->mm`, per process `own_mm`, per CPU `proc`, `time_left` | `cpu_routine`, `ld_routine`, `main` | all of the above |
| execution (`cpu.c`) | `pc` | `run` | memory library, system calls |
| memory library (`libmem.c`) | symbol table, free regions, page FIFO | `__alloc`, `__free`, `__read`, `__write`, `pg_getpage`, `find_victim_page` | system call 17; `mmvm_lock`, which `__read` does not take |
| vm areas (`mm-vm.c`) | `sbrk`, `vm_end` | `inc_vma_limit` | page tables, frame lists |
| page tables (`mm64.c`, `mm.h`) | five-level tables, entries with PRESENT and SWAPPED bits | `pte_set_fpn`, `pte_set_swap`, `vmap_page_range`, `alloc_pages_range`, `init_mm` | physical memory |
| physical memory (`mm-memphy.c`) | bytes and free-frame lists of RAM and four swap devices (one is used) | `MEMPHY_get_freefp`, `MEMPHY_read`, `MEMPHY_write` | shared by all processes |
| system calls (`syscall.c`, `sys_mem.c`, `libstd.c`) | none | call 17 finds the caller by pid in `running_list` and dispatches; call 0 prints | scheduler, memory |
| loader (`loader.c`) | next pid | parses program files | input only |

Not part of the simulator as built: `mm.c` (under `#if !defined(MM64)`; with
`MM64` undefined the tree does not compile), `mem.c` (used without `MM_PAGING`),
`paging.c` (a stale `main`).

What is hard here: a barrier made of two mutexes per device; a termination test
on two separate reads; put-then-get as two critical sections; a kernel pointer
(`krnl->mm`) written by all threads without a lock; frame lists and
`running_list` that some paths use without the lock the others take; fixed-size
queues that drop silently; a page-table entry whose frame and swap fields
overlap; failures that are detected and then ignored. `PROJECT.json` lists these
at their lines as "hazards".

What makes each component correct: the timer changes the slot only when all
devices are through with it, and nobody sleeps for ever; the scheduler keeps
each process in one place, loses none and starves none; the threads run every
process to its end, one instruction per slot; regions of a process are disjoint,
every frame belongs to one page, and a byte keeps the value written to it.

## 2. Modules

| Module | Models | Notes |
|---|---|---|
| `SlotClock` | what `timer.c` promises | abstract: a slot, the active and the working devices |
| `Timer` | `timer.c` | one action per critical section; `ImplementsSlotClock` is the refinement |
| `Scheduler` | `sched.c`, `queue.c` | one action per operation; usable alone (`SchedSpec`) or from `OS` |
| `OS` | `os.c`, `run()` of `cpu.c` | extends `Scheduler`, instantiates `SlotClock` |
| `PageTable` | the address and entry fields of `mm.h`, `mm64.c` | pure operators |
| `Memory` | what the memory instructions promise | abstract: regions and bytes, no pages |
| `VMem` | `libmem.c`, `mm-vm.c`, `mm64.c`, `mm-memphy.c`, call 17 of `sys_mem.c` | one action per memory instruction; `ImplementsMemory` is the refinement |
| `MemCalls` | the shared lists and locks behind those instructions | one action per statement, several CPUs at once |
| `MCTimer`, `MCScheduler`, `MCOS`, `MCVMem`, `MCMemCalls` | | instances for TLC |
| `SequenceLemmas` | | TLAPS: facts about sequences that the proofs share |
| `TimerProofs`, `SchedulerProofs`, `OSProofs`, `MemCallsProofs`, `VMemProofs` | | TLAPS: one per module, what holds for all its instances |
| `VMemResidentProofs` | | TLAPS: `VMem` when RAM holds every page, up to the refinement of `Memory` |
| `VMemPressureProofs` | | TLAPS: `VMem` when it does not: what evictions leave intact |

**Timer.** `dev_list` is the linked list, `temp` the position of the timer's
cursor in it, `nfsh` and `event` its local counters. `tpc`, `dpc` and `mpc` say
where the timer thread, each device thread and `main` are. A
`pthread_cond_wait` is the "wait" location, left by the matching signal or
spuriously. `current_time()` is read by the loader without a lock;
`NoTickDuringWork` is what makes that harmless.

**Scheduler.** `proc`, the process each CPU holds, is `cpu_routine`'s local; it
is here because the callers decide from it which operation comes next. `loaded`
and `finished` record for which processes `add_proc` and `remove_proc` were
called. `Candidates` joins the two scans of `get_mlq_proc`: the queues with
budget left or, when there is none, all that are not empty, with the budgets
reset.

**OS.** `cpc` and `lpc` are the positions in the two routines. `put_proc` and
`get_proc` are separate steps. So are malloc, `init_mm` and the assignment to
`own_mm` in the loader, and the restore of `krnl->mm` and `run()` in a CPU:
nothing in the code makes them atomic. An `mm_struct` is named by the process it
was malloc'ed for; "wiped" is one that `init_mm` was called for a second time.
`executed` is a history variable: how many instructions each process has
executed in the current slot, set back to zero by the tick of the clock.

**PageTable, VMem.** A page-table entry keeps its two status bits and the value
of the field they share, because a swap offset read as a frame number is what
the code does after an eviction. Page tables are functions on the path of five
indices that `get_pd_from_pagenum` computes, so two pages whose paths collide
would share an entry. The fields have the code's structure with their widths as
parameters, which lets a run use ranges that are just wide enough. `ins` is the
instruction executed last; no guard reads it. It labels steps for the
refinement: `Memory` says of each instruction what it may do to the bytes of a
program, `ByteAt` reads those bytes through the page table. `Lookup` is what the
search for the pid in `running_list` may answer. `Syscall` is the instruction of
that name with operation and arguments of the program's choice. The swap-in
branch of `pg_getpage` (`pte != 0`) is dead, since an entry is zero or PRESENT
(`TypeOK`), and so is the leftover-region branch of `__alloc` (`a3` is never
larger than `size` with `MM64`).

**MemCalls.** `VMem` takes an instruction for one step. `MemCalls` takes a
statement for one step: the four statements of `MEMPHY_get_freefp`, the three
reads in each turn of the walk over `running_list`, each place that `purgequeue`
shifts, the store and the increment of `enqueue`. ALLOC, FREE and WRITE hold
`mmvm_lock`, READ and SYSCALL do not; dispatch and removal hold `queue_lock`,
the walk does not. What only one process can see (regions, page table, FIFO) is
a choice. `taken`, `twice`, `racy` and `disturbed` are history variables: the
frames handed out, whether one was handed out again, whether two takers
overlapped while one had no lock, and whether the list was shifted during a
walk. Every `return` of `__alloc`, `__free`, `__write`, `__read` and
`libsyscall` is an operator of its own (`AllocRefused`, `FreeDone`, ...) that says
whether an unlock stands before it, so that one of them keeping the lock is a
different model (`FreeRefusedKeepsLock`). One ready queue without budgets stands for the scheduler, whose module
has the detail. A loop that copies a frame is one step with the operation it
belongs to: no property here is about bytes.

`FramesGivenOnce` and `WalkFindsCaller` exempt what the code leaves unprotected,
a taker of frames without the lock and a walk over a list that is being shifted:
they say that nothing else goes wrong. `memcalls_race` shows the first case, on
RAM; in the same way two READs that fault can get one swap frame. A disturbed
walk can skip the caller (the consequence is `vmem_lookup`) or, between the read
of the pid and the read of the pointer, pick another process.

Operators whose names say that something is left out (`NoWakeTimer`,
`TakeWithoutDequeue`, `GetNextHeadStays`) are the mutants: plausible bugs of the
definition that follows, each paired in `PROJECT.json` with the property that
catches it. No specification uses them.

## 3. Runs

| Run | Bounds | What it shows |
|---|---|---|
| `timer` | 3 devices, 3 slots | No lost wakeup, no tick during work, the timer leaves last; `next_slot` returns; the simulation stops; refinement of `SlotClock`, fairness included |
| `sched` | 3 processes, 2 CPUs, 2 priorities, queues of 3 | `OnePlace`, `NotLost`, `NoStarvation` |
| `sched_list` (violation) | same | a held process is not in `running_list` |
| `os` | 3 processes of 4 instructions, 2 CPUs, quantum 2, start times 0 and 2, lists of 4 | `AllServed`, `OneInstructionPerSlot`, `Termination`, and `DispatchedIsListed` for a list that is just long enough |
| `os_mm`, `os_read` (violations) | 2 processes, 2 CPUs | the two races on `krnl->mm` |
| `vmem_resident` | 2 processes, 2 symbols, 4 frames of 2 bytes, programs within their regions | regions and frames are kept apart, what is allocated is mapped, and RAM seen through the page tables implements `Memory` |
| `vmem_pressure` | 2 processes, 2 frames of RAM, 2 of swap, 2 pages, any access, user system calls | `RegionsDisjoint`, `SwapFramesUnique` and `ResidentIsEvictable` through out-of-memory, eviction and full swap |
| `memcalls` | 2 CPUs, 2 processes, 2 frames per device, a list of 3 places | a frame is handed out twice only through an unlocked overlap; a walk that no shift disturbs finds its caller; a lock is held exactly in the code it protects; every slot ends |
| `memcalls_race` (violation) | same, one page per request | ALLOC under `mmvm_lock` and a SYSCALL without it get one frame of RAM |
| `vmem_alias`, `vmem_lookup` (violations) | 2 to 4 frames | two disagreements below |

Why the bounds are enough. Timer: with three devices the cursor can be before,
at and behind a device that acts, and a device can end, wait and detach in
different slots. Scheduler: three processes on two CPUs give waiting, running
and returning processes at once, and two priorities a budget that runs out and
is reset. OS: a late process arrives while CPUs idle; four instructions with a
quantum of two leave two of them after the preemption, so that a process put by
one CPU and fetched by another, or by the same one, could run twice in a slot if
the barrier let it; a list of three would already overflow. VMem: two-byte pages make
regions smaller than, equal to and larger than a page; sizes 2 and 3 split and
consume free regions. In `vmem_resident` the ranges of frame numbers, page
numbers and table indices are exactly what the instance needs, so a mask one bit
short shows. The swap field starts where the code's does in the runs with
eviction. `vmem_resident` compares states without `ins`, and `vmem_pressure`
without `ins` and frame contents too: no guard reads them, and no property of
those runs depends on them except through single steps, which TLC still checks.
Processes and symbols are symmetric in those two runs, whose properties are all
of single states and single steps. MemCalls:
two frames let a list run empty and a second taker find the next frame; three
places and two processes give a list that is full, that holds a process twice,
and that is shifted under a walk.
In `memcalls`, `NoRaceYet` ends a behaviour where two takers overlap unlocked:
beyond that point the lists promise nothing. `memcalls_race` goes beyond it.

Fairness. Each thread is scheduled by the host (weak fairness per thread); in
`Timer` this includes that a device's work in a slot ends, which holds because
`run()` executes one instruction and the loader's loop body is finite. A
spurious wakeup is never assumed. `SchedFairSpec` says that a CPU keeps calling
the scheduler, which `cpu_routine` does at least once per quantum. `OS` assumes
that the clock ticks, which `timer` shows of `Timer`. `MemCalls` has weak
fairness per CPU and of the end of a slot; it needs none of the mutexes, because
a CPU executes one instruction per slot and cannot take `mmvm_lock` again before
the others have had it.

### Disagreements between code and documentation

1. `sched_list`: `running_list` gains an entry at every dispatch and loses one
   at the end of a process, so it fills at 50 and later dispatches are not
   listed. The README says the kernel resolves a pid by walking this list.
2. `os_mm`: a CPU that restores `krnl->mm` between two statements of
   `ld_routine` gives the new process another process's `mm_struct`. `common.h`
   says each process owns its own.
3. `os_read`: between the restore of `krnl->mm` and `run()` another CPU may
   restore its own. `__read` still resolves regions through `krnl->mm`.
4. `vmem_alias`: `pg_getpage` takes a swapped page for resident, although its
   comment says "present, not swapped".
   The counterexample begins with a third ALLOC when RAM has two frames:
   `vm_map_ram` returns an unsigned value that `inc_vma_limit` tests for `< 0`
   (`mm-vm.c:143`), so the region is handed out unmapped, and its first access
   evicts. `mm64.c:265` warns of that case; no run is spent on it alone.
5. `memcalls_race`: a program's SYSCALL 17 INC takes frames of RAM without
   `mmvm_lock` while `__alloc` holds it, and both get the same one. The README
   says that the lock protects `__alloc` against this.
6. `vmem_lookup`: `__alloc` ignores a failed system call and two symbols get
   the same addresses.

## 4. Proofs

All constants are arbitrary, under the named assumptions of the modules that
declare them (`MaxTimeAssumption`, `SchedAssumption`, `OSAssumption`,
`MemCallsAssumption`, `PageTableAssumption`, `VMemAssumption`), which TLC
evaluates in every run. They say what a configuration is: positive sizes, finitely
many processes, at least one CPU, a NULL that is no process. A theorem that
needs more states it as its own hypothesis.

| Module | Theorems | Extra hypotheses |
|---|---|---|
| `TimerProofs` | `TypeCorrect`, `WakeupsNotLost`, `ExitsLast`, `TicksBetweenSlots`, `TimerIsASlotClock` | none |
| `SchedulerProofs` | `SchedTypeCorrect`, `ProcessesStayInOnePlace` | none |
| | `NoProcessIsLost` | no more processes than places in a queue |
| `OSProofs` | `OSTypeCorrect`, `OSProcessesStayInOnePlace`, `ProcessesKeepTheClock`, `OSImplementsScheduler` | none |
| | `EveryProcessIsServed` | no more processes than places in a queue |
| | `DispatchedProcessIsListed` | `ListSuffices(K)` |
| `MemCallsProofs` | `MemTypeCorrect`, `FramesAreGivenOnce`, `TheWalkFindsItsCaller`, `LocksStayScoped` | none |
| `VMemProofs` | `VMemTypeCorrect` | none |
| | `NoByteHasTwoOwners` | the pid is found, the `mm_struct` is zeroed |
| | `SwapFramesHaveOneOwner`, `ResidentPagesStayEvictable` | at most `Entries * Entries` pages |
| `VMemResidentProofs` | `FramesStayPartitioned`, `AllocatedRegionsAreMapped` | `RamSuffices` |
| | `PagingImplementsMemory` | `RamSuffices`, no raw physical write |
| `VMemPressureProofs` | `ResidentPagesOwnTheirFrames` | `WellBehaved` |

**Timer.** The invariant `IInv` adds to the type invariant what relates a
device's position to its flags (a device that works has not finished, one that
exited has detached), that every device is in the list exactly once after
`start_timer`, what the scan has established of the devices behind the cursor
(each has finished or detached) and the release loop of those before it, and
that `nfsh = event` implies that every device scanned so far has detached.
Without the part about the cursor `NoTickDuringWork` is not inductive: nothing
would say that the devices already scanned are still waiting.
`TimerIsASlotClock` is the safety part of the refinement of `SlotClock`
(`ClockSafety`). It needs the converse for the counters, `CountInv`: if all
devices scanned so far have their `fsh` flag the counters are equal. A tick is
the step that increments `_time`; release of the devices one by one is a stutter.

**Scheduler.** `OnePlace` needs only that a finished process was once added
(`finished \subseteq loaded`), without which `add_proc` could enqueue a finished
one. `EnqueueReadyProperties` says what `enqueue` does to a process that is in no
queue and serves both `put_proc` and `add_proc`. `NotLost` is a counting
argument: a queue holds each process at most once and lacks the one about to be
put, so it is shorter than `Cardinality(Procs)` (`LacksOneIsShorter`) and has a
place. `queue.c` has 50 places per priority; with more processes `enqueue` may
drop one silently, and the hypothesis says exactly when it does not.

**OS.** `OSIInv` extends the scheduler's invariant with the position of each
thread against the clock (`ThreadInv`: who has finished the slot stands where
`next_slot` returns), what a CPU knows at each location (`CpuInv`), what the
loader has done (`LdInv`: the loaded processes are the first `i`, and `done` is
set exactly when all are) and the progress of each process (`ProgressInv`).
`OneInstructionPerSlot` is not inductive alone: a process that is put and
fetched by another CPU in one slot would seem able to run twice. `Fresh` says
when a process has not run in this slot (no CPU that is through with the slot
holds it), and `ProgressInv` says that `executed` is zero for those: a CPU that
ran a process keeps it until the clock has ticked. `OSImplementsScheduler` transfers the scheduler's results.
`EveryProcessIsServed` is about the two separate reads by which a CPU decides to
stop, `get_proc` returning NULL and `done`. `ServeInv` says that, once the slot
of the last `add_proc` is over, either no process waits or some CPU is not about
to stop. It is inductive because the last `add_proc` and the assignment to
`done` lie in different slots: every CPU that saw an empty scheduler before that
`add_proc` starts another round before it can read `done`.

`DispatchedProcessIsListed` answers `sched_list`: when is `running_list` long
enough? A process is listed at every dispatch and unlisted once, so one of `k`
quanta leaves `k - 1` stale entries. `ListSuffices(K)` asks that every program
fits in `K` quanta and that `(NumProcs - 1) * (K - 1)` plus the number of CPUs is
at most the length of the list. That length alone is not inductive: nothing in
the state counts dispatches. `ListInv` says instead that the entries can be
stamped with quantum numbers below `K`, so that two entries of one process have
different stamps (`Stamped`), and that a process stamped `n` has executed the
instructions of quantum `n` or is on a CPU with the credit to do so (`Charged`).
Such a stamping bounds the list (`RoundsBoundLength`), and at a dispatch the
process is due a stamp that none of its entries has, so there is room
(`RoomForNewcomer`). The run `os` meets the bound with equality; with one place
less TLC finds `DispatchedIsListed` violated. With the code's 50 places, all
configurations under `src/input` satisfy it for their longest program, except the
three `os_1_mlq_paging*` (8 processes of up to 8 quanta on 4 CPUs: 53). For those
the theorem says nothing, since it counts every program as the longest one.

**MemCalls.** `MemIInv` is the conjunction of who holds which lock (`LockInv`),
what the locals are good for where they are used (`LocalInv`), the shape of the
free lists (`FrameInv`: without an unlocked overlap, the free list is what
`MEMPHY_format` made of the frames above those taken, and at most one CPU per
device is inside `MEMPHY_get_freefp`), what the holder of `queue_lock` knows
(`HeldInv`, `ListInv`), and that an undisturbed walk has passed only places that
do not hold its process (`WalkInv`). The last part survives an `enqueue` by
another CPU because an append changes only places the walk has not reached, or,
with the store before the increment, does not yet count. `LocksStayScoped` needs
the converse of `LockInv`, `HolderInv`: the owner of a lock is in the code that
releases it. Lemma `Returns` goes through the return sites one by one: each of
those behind `mmvm_lock` leads to the unlock and none of the others does. That is
what `SlotEnds` rests on.

**VMem.** `RegionsDisjoint` is inductive as it stands; the proof goes process by
process (`OwnedOnce`) and operator by operator: what `get_free_vmrg_area`,
growing `sbrk`, and `__free` do to a table and a free list. Both hypotheses are
needed: a failed lookup gives two symbols one region (`vmem_lookup`), and
`init_mm` does not clear the symbol table that malloc returns (`Garbage`), so
regions that nobody allocated may overlap. `SwapOwners` and `Evictable` are the
two invariants behind eviction. Both rest on what `pte_set_swap` and
`pte_set_fpn` write (`SwapEntry`, `FpnEntry`, `EvictPages`) and on pages having
distinct paths (`PathsDiffer`: at most `Entries * Entries` pages, where the code
has 512 * 512 entries for 16384 pages), since two pages that share an entry would
evict each other. They say nothing of RAM frames: `vmem_alias` shows that after
an eviction a frame may be shared.

`RamSuffices` is a machine on which paging works as documented: a frame for
every page of every process, fields wide enough for them, programs that stay in
their regions and do not remap pages, pids that are found, zeroed tables. What
happens without the frames is `vmem_alias`, without the pids `vmem_lookup`. The instance of `vmem_resident` satisfies it, with equality in the
bounds. `ResidentInv` adds to types and disjoint regions that `sbrk` is a
multiple of the page size and exactly the pages below it are mapped
(`MappedBelowBrk`), that frames are partitioned (`FramesOwned`), and that no
access has gone wild. The step that takes new frames needs a pigeonhole
(`EnoughFrames`): the mapped pages of all processes inject into the frames in
use, so the free list has what the page still to be mapped requires, and
`vm_map_ram` never reports out-of-memory. Then no access evicts (`AccessHits`)
and every instruction acts on `ByteAt` as `Memory` demands, which gives
`PagingImplementsMemory`. `Memory` has no fairness, so this is the whole
refinement.

`ResidentPagesOwnTheirFrames` drops the demand on RAM (`WellBehaved` is
`RamSuffices` without it) and says what is left once pages are evicted: two pages
that have not been swapped out never share a frame, their frames are not on the
free list, and the FIFO lists only resident pages, each once. So the aliasing of
`vmem_alias` always involves a page that was evicted: the choice of victims and
frames is right, and the PRESENT bit that `pte_set_swap` leaves set is wrong.
`PressureInv` needs one more part to be inductive: while RAM has a free frame,
exactly the pages below `sbrk` are mapped (`MappedBelowBrk`). Otherwise growing
could map a page that an eviction had mapped before, and enlist it a second time.
It holds because a fault needs a region that out-of-memory left unmapped, and
out-of-memory empties the free list for good. Accesses outside the regions and
SYSMEM_MAP_OP break that link, hence the hypotheses. TLC was used to check
`PressureInv` before it was proved.

`SequenceLemmas`: what head removal, append, head insertion, search and cutting
out do to a sequence, and the length of one that lacks an element or whose
elements repeat a bounded number of times.

Only model-checked: liveness (`NoStarvation`, `NextSlotReturns`, `SlotEnds`,
both `Termination`s) and the fairness part of `ImplementsSlotClock`, which are
out of the prover's reach. Every invariant and every action property that a
passing run checks is also a theorem.

## 5. Plan

Done: `SlotClock`, `Timer`, `Scheduler`, `OS`, `PageTable`, `Memory`, `VMem`,
`MemCalls`; a theorem for every safety property that a passing run checks.

What a later extension could add: `DispatchedProcessIsListed` from the sizes of
the programs one by one instead of their maximum, and a version of `MemCalls`
with the page tables of `VMem` in place of its choices.

## 6. Not modelled

Parsing of configuration and program files, printing and dumps, the `libkmem_*`
stubs (they return without effect), `free_pcb_memph` (never called), `CALC`, the
sequential mode of a device (`os.c` opens every device for random access), three
of the four swap devices (never active), a device of one frame (`MEMPHY_format`
leaves its `fp_next` unset), requests of size 0, symbol 30 of a table of 30, and
the byte that `libread` returns (`pg_getval` passes the address of its result
where `__sys_memmap` expects to store the byte).

`mm.c` is the 32-bit counterpart of `mm64.c`. It needs `MM64` undefined, and the
rest of the tree does not build that way, so there is no program whose states
its model would have. `mem.c` and `paging.c` are not reached from `main`.
