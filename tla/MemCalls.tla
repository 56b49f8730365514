------------------------------ MODULE MemCalls ------------------------------
(***************************************************************************)
(* The memory instructions of several CPUs at once, at the grain of their  *)
(* accesses to what they share: running_list, the frame lists of RAM and   *)
(* of the swap device, and the locks queue_lock and mmvm_lock.  READ and   *)
(* SYSCALL take no lock, and no instruction takes queue_lock to walk       *)
(* running_list.                                                           *)
(*                                                                         *)
(* What belongs to one process (regions, page table, FIFO) is abstracted   *)
(* to choices: whether a region can be reused, whether a page is present,  *)
(* whether there is a victim.  VMem.tla has the detail, one instruction at *)
(* a time.  A statement of the code is one step: two statements of two     *)
(* CPUs may come in any order.                                             *)
(*                                                                         *)
(* Bounds: ListCap places in running_list (MAX_QUEUE_SIZE), MaxPages pages *)
(* asked for by one ALLOC or SYSCALL.                                      *)
(***************************************************************************)
EXTENDS Naturals, Sequences, FiniteSets, SequencesExt

CONSTANTS CPUs, Procs, ListCap, NumFrames, MaxPages, None

ASSUME MemCallsAssumption ==
  /\ IsFiniteSet(Procs)
  /\ ListCap \in Nat \ {0} /\ MaxPages \in Nat \ {0}
  /\ NumFrames \in Nat \ {0, 1} \* with one, MEMPHY_format leaves fp_next unset
  /\ None \notin CPUs \cup Procs \cup Nat

Frames == 0 .. NumFrames - 1
Devices == {"mram", "mswp"}
Ops == {"ALLOC", "FREE", "READ", "WRITE", "SYSCALL"}
Unlocked == {"READ", "SYSCALL"}

VARIABLES
  proc,          \* the process each CPU holds
  ready,         \* the ready queue (of one priority)
  list, size,    \* running_list: its array and its size
  queue_lock, mmvm_lock,    \* their owners
  free_fp_list, used_fp_list, fp_next,  \* the frame lists of each device
  pc, op,        \* where each CPU is, and in which instruction
  calls,         \* the system calls 17 that the instruction has yet to make
  need,          \* the frames it still needs
  i, caller,     \* of the walk in __sys_memmap; i is also purgequeue's j
  fp,            \* of MEMPHY_get_freefp
  taken,         \* frames handed out so far
  twice, racy,   \* a frame was handed out again; two takers overlapped, one
                 \* of them without mmvm_lock
  disturbed      \* running_list was shifted during the walk

sched_vars == <<proc, ready>>
list_vars == <<list, size, queue_lock>>
frame_vars == <<free_fp_list, used_fp_list, fp_next, taken, twice, racy>>
local_vars == <<op, calls, need, i, caller, fp, disturbed>>
vars == <<sched_vars, list_vars, mmvm_lock, frame_vars, pc, local_vars>>

InGet == {"get_next", "link_used", "push_used"}
InWalk == {"walk_size", "walk_pid", "walk_caller"}
\* Between taking mmvm_lock, if the instruction takes it, and releasing it.
Executing == {"access", "get_head", "memop"} \cup InGet \cup InWalk
Locations == {"idle", "enq_size", "shift", "fetch", "lock", "access", "get_head",
              "memop", "unlock", "end"} \cup InGet \cup InWalk

TypeOK ==
  /\ proc \in [CPUs -> Procs \cup {None}] /\ ready \in Seq(Procs)
  /\ list \in [0 .. ListCap - 1 -> Procs \cup {None}] /\ size \in 0 .. ListCap
  /\ {queue_lock, mmvm_lock} \subseteq CPUs \cup {None}
  /\ free_fp_list \in [Devices -> Frames \cup {None}]
  /\ used_fp_list \in [Devices -> Frames \cup {None}]
  /\ fp_next \in [Devices -> [Frames -> Frames \cup {None}]]
  /\ pc \in [CPUs -> Locations] /\ op \in [CPUs -> Ops \cup {None}]
  /\ calls \in [CPUs -> Seq({"INC", "SWP", "OTHER"})]
  /\ need \in [CPUs -> 0 .. MaxPages]
  /\ i \in [CPUs -> 0 .. ListCap] /\ caller \in [CPUs -> Procs \cup {None}]
  /\ fp \in [CPUs -> Frames \cup {None}]
  /\ taken \in [Devices -> SUBSET Frames]
  /\ {twice, racy} \subseteq BOOLEAN /\ disturbed \in [CPUs -> BOOLEAN]

\* MEMPHY_format links the frames of a device in order.
FormattedNext == [f \in Frames |-> IF f + 1 \in Frames THEN f + 1 ELSE None]

Init ==
  /\ proc = [c \in CPUs |-> None] /\ ready = SetToSeq(Procs)
  /\ list = [k \in 0 .. ListCap - 1 |-> None] /\ size = 0
  /\ queue_lock = None /\ mmvm_lock = None
  /\ free_fp_list = [d \in Devices |-> 0]
  /\ fp_next = [d \in Devices |-> FormattedNext]
  /\ used_fp_list = [d \in Devices |-> None]
  /\ pc = [c \in CPUs |-> "idle"] /\ op = [c \in CPUs |-> None]
  /\ calls = [c \in CPUs |-> << >>] /\ need = [c \in CPUs |-> 0]
  /\ i = [c \in CPUs |-> 0] /\ caller = [c \in CPUs |-> None]
  /\ fp = [c \in CPUs |-> None]
  /\ taken = [d \in Devices |-> {}] /\ twice = FALSE /\ racy = FALSE
  /\ disturbed = [c \in CPUs |-> FALSE]

At(c, loc) == pc[c] = loc

Goto(c, loc) == pc' = [pc EXCEPT ![c] = loc]
-----------------------------------------------------------------------------
(* cpu_routine between two slots: put_proc, remove_proc, get_proc.  What a *)
(* holder of queue_lock writes is seen by walkers that do not take it.     *)

\* time_left > 0
Keep(c) ==
  /\ At(c, "idle") /\ proc[c] # None
  /\ Goto(c, "fetch")
  /\ UNCHANGED <<sched_vars, list_vars, mmvm_lock, frame_vars, local_vars>>

\* put_mlq_proc leaves running_list alone.
PutProc(c) ==
  /\ At(c, "idle") /\ proc[c] # None
  /\ queue_lock = None
  /\ ready' = Append(ready, proc[c])
  /\ proc' = [proc EXCEPT ![c] = None]
  /\ UNCHANGED <<list_vars, mmvm_lock, frame_vars, pc, local_vars>>

\* remove_proc, then purgequeue's search: j is the first place of the process.
RemoveProc(c) ==
  LET Places == {k \in 0 .. size - 1 : list[k] = proc[c]} IN
  /\ At(c, "idle") /\ proc[c] # None
  /\ queue_lock = None
  /\ \/ /\ Places = {}
        /\ proc' = [proc EXCEPT ![c] = None]
        /\ UNCHANGED <<queue_lock, pc, i>>
     \/ \E first \in Places :
          /\ \A k \in Places : first <= k
          /\ i' = [i EXCEPT ![c] = first]
          /\ queue_lock' = c
          /\ Goto(c, "shift")
          /\ UNCHANGED proc
  /\ UNCHANGED <<ready, list, size, mmvm_lock, frame_vars, op, calls, need, caller,
                 fp, disturbed>>

Disturb ==
  disturbed' = [d \in CPUs |-> disturbed[d] \/ pc[d] \in InWalk]

\* One place of purgequeue's shift.
Shift(c) ==
  /\ At(c, "shift") /\ i[c] + 1 < size
  /\ list' = [list EXCEPT ![i[c]] = list[i[c] + 1]]
  /\ i' = [i EXCEPT ![c] = @ + 1]
  /\ Disturb
  /\ UNCHANGED <<sched_vars, size, queue_lock, mmvm_lock, frame_vars, pc, op, calls,
                 need, caller, fp>>

Shorten(c) ==
  /\ At(c, "shift") /\ i[c] + 1 >= size
  /\ size' = size - 1
  /\ queue_lock' = None
  /\ proc' = [proc EXCEPT ![c] = None]
  /\ i' = [i EXCEPT ![c] = 0]
  /\ Goto(c, "idle")
  /\ Disturb
  /\ UNCHANGED <<ready, list, mmvm_lock, frame_vars, op, calls, need, caller, fp>>

GetProcUnchecked(c) ==
  /\ At(c, "idle") /\ proc[c] = None
  /\ queue_lock = None /\ ready # << >>
  /\ proc' = [proc EXCEPT ![c] = Head(ready)]
  /\ ready' = Tail(ready)
  /\ list' = [list EXCEPT ![size] = Head(ready)]
  /\ queue_lock' = c
  /\ Goto(c, "enq_size")
  /\ UNCHANGED <<size, mmvm_lock, frame_vars, local_vars>>

\* get_mlq_proc, and enqueue's store into the array; a full list stays as it is.
GetProc(c) ==
  /\ At(c, "idle") /\ proc[c] = None
  /\ queue_lock = None /\ ready # << >>
  /\ proc' = [proc EXCEPT ![c] = Head(ready)]
  /\ ready' = Tail(ready)
  /\ \/ /\ size < ListCap
        /\ list' = [list EXCEPT ![size] = Head(ready)]
        /\ queue_lock' = c
        /\ Goto(c, "enq_size")
     \/ /\ size = ListCap
        /\ Goto(c, "fetch")
        /\ UNCHANGED <<list, queue_lock>>
  /\ UNCHANGED <<size, mmvm_lock, frame_vars, local_vars>>

EnqueueSize(c) ==
  /\ At(c, "enq_size")
  /\ size' = size + 1
  /\ queue_lock' = None
  /\ Goto(c, "fetch")
  /\ UNCHANGED <<sched_vars, list, mmvm_lock, frame_vars, local_vars>>

\* Nothing to run in this slot.
Idle(c) ==
  /\ At(c, "idle") /\ proc[c] = None /\ ready = << >>
  /\ Goto(c, "end")
  /\ UNCHANGED <<sched_vars, list_vars, mmvm_lock, frame_vars, local_vars>>
-----------------------------------------------------------------------------
(* the memory instructions                                                 *)

\* run(): READ and SYSCALL go on without mmvm_lock.
Fetch(c) ==
  /\ At(c, "fetch")
  /\ \E o \in Ops :
       /\ op' = [op EXCEPT ![c] = o]
       /\ Goto(c, IF o \in Unlocked THEN "access" ELSE "lock")
  /\ UNCHANGED <<sched_vars, list_vars, mmvm_lock, frame_vars, calls, need, i, caller,
                 fp, disturbed>>

Lock(c) ==
  /\ At(c, "lock") /\ mmvm_lock = None
  /\ mmvm_lock' = c
  /\ Goto(c, "access")
  /\ UNCHANGED <<sched_vars, list_vars, frame_vars, local_vars>>

Unlock(c) ==
  /\ At(c, "unlock")
  /\ mmvm_lock' = None
  /\ op' = [op EXCEPT ![c] = None]
  /\ Goto(c, "end")
  /\ UNCHANGED <<sched_vars, list_vars, frame_vars, calls, need, i, caller, fp,
                 disturbed>>

\* _syscall 17 up to the loop of __sys_memmap.
CallFromPlaceOne(c, todo) ==
  /\ calls' = [calls EXCEPT ![c] = todo]
  /\ i' = [i EXCEPT ![c] = 1]
  /\ caller' = [caller EXCEPT ![c] = None]
  /\ disturbed' = [disturbed EXCEPT ![c] = FALSE]
  /\ Goto(c, "walk_size")
  /\ UNCHANGED <<op, need, fp>>

Call(c, todo) ==
  /\ calls' = [calls EXCEPT ![c] = todo]
  /\ i' = [i EXCEPT ![c] = 0]
  /\ caller' = [caller EXCEPT ![c] = None]
  /\ disturbed' = [disturbed EXCEPT ![c] = FALSE]
  /\ Goto(c, "walk_size")
  /\ UNCHANGED <<op, need, fp>>

\* The instruction is over and its locals are gone; what is left to do is at loc.
ReturnTo(c, loc) ==
  /\ Goto(c, loc)
  /\ op' = [op EXCEPT ![c] = IF loc = "unlock" THEN @ ELSE None]
  /\ calls' = [calls EXCEPT ![c] = << >>]
  /\ need' = [need EXCEPT ![c] = 0]
  /\ i' = [i EXCEPT ![c] = 0]
  /\ caller' = [caller EXCEPT ![c] = None]
  /\ fp' = [fp EXCEPT ![c] = None]
  /\ disturbed' = [disturbed EXCEPT ![c] = FALSE]

\* The return statements of __alloc, __free and __write, each behind an unlock
\* of its own, and those of __read and libsyscall, which have none.
AllocRefused(c) == op[c] = "ALLOC" /\ ReturnTo(c, "unlock")   \* no mm, no area

AllocReused(c) == op[c] = "ALLOC" /\ ReturnTo(c, "unlock")    \* a free region fits

AllocGrown(c) == op[c] = "ALLOC" /\ ReturnTo(c, "unlock")

FreeRefusedKeepsLock(c) == op[c] = "FREE" /\ ReturnTo(c, "end")

FreeRefused(c) == op[c] = "FREE" /\ ReturnTo(c, "unlock")     \* no such region

FreeDone(c) == op[c] = "FREE" /\ ReturnTo(c, "unlock")

WriteRefused(c) == op[c] = "WRITE" /\ ReturnTo(c, "unlock")   \* no such region

\* Also when pg_setval fails, whose result is ignored.
WriteDone(c) == op[c] = "WRITE" /\ ReturnTo(c, "unlock")

ReadReturns(c) == op[c] = "READ" /\ ReturnTo(c, "end")

SyscallReturns(c) == op[c] = "SYSCALL" /\ ReturnTo(c, "end")

\* Before any system call, and after the last one.
ReturnEarly(c) ==
  \/ AllocRefused(c) \/ AllocReused(c) \/ FreeRefused(c) \/ FreeDone(c)
  \/ WriteRefused(c) \/ WriteDone(c) \/ ReadReturns(c)

Return(c) == AllocGrown(c) \/ WriteDone(c) \/ ReadReturns(c) \/ SyscallReturns(c)

\* pg_getpage of a page that is not present: a frame for the victim.
Fault(c) ==
  /\ need' = [need EXCEPT ![c] = 1]
  /\ calls' = [calls EXCEPT ![c] = <<"SWP", "OTHER">>]
  /\ Goto(c, "get_head")
  /\ UNCHANGED <<op, i, caller, fp, disturbed>>

\* What the state of the process makes of the instruction.
Access(c) ==
  /\ At(c, "access")
  /\ \/ op[c] \in {"READ", "WRITE"} /\ (Call(c, <<"OTHER">>) \/ Fault(c))
     \/ op[c] \in {"ALLOC", "SYSCALL"} /\ Call(c, <<"INC">>)
     \/ op[c] = "SYSCALL" /\ Call(c, <<"OTHER">>)
     \/ ReturnEarly(c)
  /\ UNCHANGED <<sched_vars, list_vars, mmvm_lock, frame_vars>>
-----------------------------------------------------------------------------
(* MEMPHY_get_freefp                                                       *)

Device(c) == IF op[c] \in {"READ", "WRITE"} THEN "mswp" ELSE "mram"

OverlapsUnlocked(c) ==
  \E d \in CPUs \ {c} :
    /\ pc[d] \in InGet /\ Device(d) = Device(c)
    /\ op[c] \in Unlocked \/ op[d] \in Unlocked

GetHead(c) ==
  LET head == free_fp_list[Device(c)] IN
  /\ At(c, "get_head")
  /\ \/ /\ head = None
        /\ Return(c)
     \/ /\ head # None
        /\ fp' = [fp EXCEPT ![c] = head]
        /\ Goto(c, "get_next")
        /\ UNCHANGED <<op, calls, need, i, caller, disturbed>>
  /\ racy' = (racy \/ OverlapsUnlocked(c))
  /\ UNCHANGED <<sched_vars, list_vars, mmvm_lock, free_fp_list, used_fp_list, fp_next,
                 taken, twice>>

GetNextHeadStays(c) ==
  /\ At(c, "get_next")
  /\ taken' = [taken EXCEPT ![Device(c)] = @ \cup {fp[c]}]
  /\ twice' = (twice \/ fp[c] \in taken[Device(c)])
  /\ Goto(c, "link_used")
  /\ UNCHANGED <<sched_vars, list_vars, mmvm_lock, free_fp_list, used_fp_list, fp_next,
                 racy, local_vars>>

\* The frame is handed out and the head moves on.
GetNext(c) ==
  /\ At(c, "get_next")
  /\ taken' = [taken EXCEPT ![Device(c)] = @ \cup {fp[c]}]
  /\ twice' = (twice \/ fp[c] \in taken[Device(c)])
  /\ free_fp_list' = [free_fp_list EXCEPT ![Device(c)] = fp_next[Device(c)][fp[c]]]
  /\ Goto(c, "link_used")
  /\ UNCHANGED <<sched_vars, list_vars, mmvm_lock, used_fp_list, fp_next, racy,
                 local_vars>>

LinkUsed(c) ==
  /\ At(c, "link_used")
  /\ fp_next' = [fp_next EXCEPT ![Device(c)][fp[c]] = used_fp_list[Device(c)]]
  /\ Goto(c, "push_used")
  /\ UNCHANGED <<sched_vars, list_vars, mmvm_lock, free_fp_list, used_fp_list, taken,
                 twice, racy, local_vars>>

\* The caller goes on: alloc_pages_range may need another frame.
NextFrame(c) ==
  \/ /\ need[c] > 1
     /\ need' = [need EXCEPT ![c] = @ - 1]
     /\ Goto(c, "get_head")
     /\ UNCHANGED <<op, calls, i, caller, fp, disturbed>>
  \/ need[c] = 1 /\ calls[c] # << >> /\ Call(c, calls[c])
  \/ need[c] = 1 /\ calls[c] = << >> /\ Return(c)

PushUsed(c) ==
  /\ At(c, "push_used")
  /\ used_fp_list' = [used_fp_list EXCEPT ![Device(c)] = fp[c]]
  /\ NextFrame(c)
  /\ UNCHANGED <<sched_vars, list_vars, mmvm_lock, free_fp_list, fp_next, taken, twice,
                 racy>>
-----------------------------------------------------------------------------
(* __sys_memmap: size, entry and entry again are three separate reads      *)

WalkSize(c) ==
  /\ At(c, "walk_size")
  /\ Goto(c, IF i[c] < size THEN "walk_pid" ELSE "memop")
  /\ UNCHANGED <<sched_vars, list_vars, mmvm_lock, frame_vars, local_vars>>

WalkPidStays(c) ==
  /\ At(c, "walk_pid")
  /\ Goto(c, IF list[i[c]] = proc[c] THEN "walk_caller" ELSE "walk_size")
  /\ UNCHANGED <<sched_vars, list_vars, mmvm_lock, frame_vars, local_vars>>

WalkPid(c) ==
  /\ At(c, "walk_pid")
  /\ \/ list[i[c]] = proc[c] /\ Goto(c, "walk_caller") /\ UNCHANGED i
     \/ /\ list[i[c]] # proc[c]
        /\ i' = [i EXCEPT ![c] = @ + 1]
        /\ Goto(c, "walk_size")
  /\ UNCHANGED <<sched_vars, list_vars, mmvm_lock, frame_vars, op, calls, need, caller,
                 fp, disturbed>>

WalkCaller(c) ==
  /\ At(c, "walk_caller")
  /\ caller' = [caller EXCEPT ![c] = list[i[c]]]
  /\ Goto(c, "memop")
  /\ UNCHANGED <<sched_vars, list_vars, mmvm_lock, frame_vars, op, calls, need, i, fp,
                 disturbed>>

\* The operation.  Only inc_vma_limit takes frames.  The result of the call is
\* ignored, and a caller that was not found is not noticed by the instruction.
Memop(c) ==
  /\ At(c, "memop")
  /\ \/ /\ Head(calls[c]) = "INC" /\ caller[c] # None
        /\ \E n \in 1 .. MaxPages : need' = [need EXCEPT ![c] = n]
        /\ calls' = [calls EXCEPT ![c] = Tail(@)]
        /\ Goto(c, "get_head")
        /\ UNCHANGED <<op, i, caller, fp, disturbed>>
     \/ /\ Head(calls[c]) # "INC" \/ caller[c] = None
        /\ \/ Tail(calls[c]) # << >> /\ Call(c, Tail(calls[c]))
           \/ Tail(calls[c]) = << >> /\ Return(c)
  /\ UNCHANGED <<sched_vars, list_vars, mmvm_lock, frame_vars>>
-----------------------------------------------------------------------------
Between(c) ==
  \/ Keep(c) \/ PutProc(c) \/ RemoveProc(c) \/ Shift(c) \/ Shorten(c)
  \/ GetProc(c) \/ EnqueueSize(c) \/ Idle(c)

Instruction(c) ==
  \/ Fetch(c) \/ Lock(c) \/ Access(c) \/ Unlock(c)
  \/ GetHead(c) \/ GetNext(c) \/ LinkUsed(c) \/ PushUsed(c)
  \/ WalkSize(c) \/ WalkPid(c) \/ WalkCaller(c) \/ Memop(c)

Cpu(c) == Between(c) \/ Instruction(c)

\* next_slot returns when every CPU has called it (SlotClock.tla).
NextSlot ==
  /\ \A c \in CPUs : At(c, "end")
  /\ pc' = [c \in CPUs |-> "idle"]
  /\ UNCHANGED <<sched_vars, list_vars, mmvm_lock, frame_vars, local_vars>>

Next == NextSlot \/ \E c \in CPUs : Cpu(c)

Fairness == WF_vars(NextSlot) /\ \A c \in CPUs : WF_vars(Cpu(c))

Spec == Init /\ [][Next]_vars /\ Fairness
-----------------------------------------------------------------------------
(* Properties                                                              *)

(***************************************************************************)
(* "mmvm_lock protects allocation/free paths against concurrent            *)
(* physical-frame assignment": MEMPHY_get_freefp hands out a frame, of RAM *)
(* or of swap, twice only if a CPU was in it for a READ (libmem.c:408) or  *)
(* a SYSCALL, which hold no lock, while another one was in it.             *)
(***************************************************************************)
FramesGivenOnce == twice => racy

Granted(c) == pc[c] \in {"link_used", "push_used"}

(***************************************************************************)
(* src/README.md:33: "mmvm_lock protects allocation/free paths (__alloc,   *)
(* __free) against concurrent physical-frame assignment".  The frame that  *)
(* __alloc has got is not given to another CPU at the same time.  The code *)
(* breaks it: libsyscall (libstd.c:36) takes no lock and reaches           *)
(* inc_vma_limit, so both can read the same head of the free list of RAM.  *)
(***************************************************************************)
AllocFrameIsItsOwn ==
  \A c, d \in CPUs :
    /\ c # d /\ op[c] = "ALLOC"
    /\ Granted(c) /\ Granted(d) /\ Device(c) = Device(d)
    => fp[c] # fp[d]

Listed(p) == \E k \in 0 .. size - 1 : list[k] = p

(***************************************************************************)
(* __sys_memmap finds the process that made the call: an enqueue by        *)
(* another CPU in mid-walk does no harm, and the search fails or yields    *)
(* another process only if the list was full at the dispatch, or           *)
(* purgequeue shifted it during the walk.                                  *)
(***************************************************************************)
WalkFindsCaller ==
  \A c \in CPUs :
    At(c, "memop") /\ ~disturbed[c] =>
      \/ caller[c] = proc[c]
      \/ caller[c] = None /\ ~Listed(proc[c])

(***************************************************************************)
(* A lock is held exactly in the code it protects: mmvm_lock from the      *)
(* entry of __alloc, __free or __write to its return, past every early     *)
(* return in between, queue_lock only inside the operations of sched.c.    *)
(* So no CPU brings a lock into the barrier of the slot, and none waits    *)
(* for one lock with the other in its hands.                               *)
(***************************************************************************)
LocksScoped ==
  \A c \in CPUs :
    /\ mmvm_lock = c <=> pc[c] \in Executing \cup {"unlock"} /\ op[c] \notin Unlocked
    /\ queue_lock = c <=> pc[c] \in {"enq_size", "shift"}

(***************************************************************************)
(* Every slot ends: no path through __alloc, __free or __write keeps       *)
(* mmvm_lock, no walk and no shift goes on for ever.                       *)
(***************************************************************************)
SlotEnds == \A c \in CPUs : pc[c] # "idle" ~> pc[c] = "idle"
=============================================================================
