----------------------------- MODULE Scheduler -----------------------------
(***************************************************************************)
(* sched.c over queue.c: the multi-level ready queues with their slot      *)
(* budgets, and running_list.  queue_lock is held for the whole of every   *)
(* operation, so each is one action.                                       *)
(*                                                                         *)
(* On its own (SchedSpec) the module drives the operations with CPUs that  *)
(* get a process, then put it back or remove it; OS.tla calls the same     *)
(* operations from cpu_routine and ld_routine.                             *)
(***************************************************************************)
EXTENDS Naturals, Sequences, FiniteSets, SequencesExt

CONSTANTS
  Procs,          \* the processes of the configuration file
  Cpus,
  NULL,
  MaxPrio,        \* MAX_PRIO (140 in sched.h)
  QueueCap        \* MAX_QUEUE_SIZE (50 in queue.h)

ASSUME SchedAssumption ==
  /\ NULL \notin Procs
  /\ MaxPrio \in Nat \ {0}
  /\ QueueCap \in Nat \ {0}

VARIABLES
  mlq_ready_queue,  \* one queue per priority
  slot,             \* what is left of each priority's budget
  running_list,     \* every process ever dispatched, until it is purged
  proc,             \* cpu_routine's local: the process a CPU holds
  prio,             \* the pcb field, from the configuration file
  loaded,           \* processes that add_proc has been called for
  finished          \* processes that remove_proc has been called for

sched_vars == <<mlq_ready_queue, slot, running_list, proc, prio, loaded, finished>>

Prios == 0 .. MaxPrio - 1

SchedTypeOK ==
  /\ mlq_ready_queue \in [Prios -> Seq(Procs)]
  /\ slot \in [Prios -> Nat]
  /\ \A q \in Prios : /\ slot[q] <= MaxPrio - q
                      /\ Len(mlq_ready_queue[q]) <= QueueCap
  /\ running_list \in Seq(Procs)
  /\ Len(running_list) <= QueueCap
  /\ proc \in [Cpus -> Procs \cup {NULL}]
  /\ prio \in [Procs -> Prios]
  /\ loaded \in SUBSET Procs
  /\ finished \in SUBSET Procs

\* The budget of a priority: MAX_PRIO - prio.
FullBudget == [q \in Prios |-> MaxPrio - q]

\* init_scheduler; the priorities are the configuration's.
SchedInit ==
  /\ mlq_ready_queue = [q \in Prios |-> << >>]
  /\ slot = FullBudget
  /\ running_list = << >>
  /\ proc = [c \in Cpus |-> NULL]
  /\ prio \in [Procs -> Prios]
  /\ loaded = {}
  /\ finished = {}
-----------------------------------------------------------------------------
(* queue.c                                                                 *)

EnqueueUnchecked(q, p) == Append(q, p)

EnqueueOneShort(q, p) == IF Len(q) >= QueueCap - 1 THEN q ELSE Append(q, p)

\* A full queue drops the process without a word.
Enqueue(q, p) == IF Len(q) >= QueueCap THEN q ELSE Append(q, p)

\* purgequeue removes the first occurrence only.
Purge(q, p) == RemoveFirst(q, p)
-----------------------------------------------------------------------------
(* sched.c                                                                 *)

NonEmpty == {q \in Prios : mlq_ready_queue[q] # << >>}

\* The queues get_mlq_proc's first loop can serve.
Eligible == {q \in NonEmpty : slot[q] > 0}

BudgetAlwaysReset == FullBudget

\* Budgets are reset when processes wait but every budget is used up.
Budget == IF Eligible # {} THEN slot ELSE FullBudget

Candidates == IF Eligible # {} THEN Eligible ELSE NonEmpty

TakeWithoutDequeue(c, q) ==
  /\ proc' = [proc EXCEPT ![c] = Head(mlq_ready_queue[q])]
  /\ slot' = [Budget EXCEPT ![q] = Budget[q] - 1]
  /\ running_list' = Enqueue(running_list, Head(mlq_ready_queue[q]))
  /\ UNCHANGED mlq_ready_queue

Take(c, q) ==
  LET p == Head(mlq_ready_queue[q]) IN
  /\ proc' = [proc EXCEPT ![c] = p]
  /\ mlq_ready_queue' = [mlq_ready_queue EXCEPT ![q] = Tail(@)]
  /\ slot' = [Budget EXCEPT ![q] = Budget[q] - 1]
  /\ running_list' = Enqueue(running_list, p)

\* get_proc: the highest priority that may be served, or NULL.
GetProc(c) ==
  /\ proc[c] = NULL
  /\ \/ /\ NonEmpty = {}
        /\ UNCHANGED <<proc, mlq_ready_queue, slot, running_list>>
     \/ \E q \in Candidates : /\ \A r \in Candidates : q <= r
                              /\ Take(c, q)
  /\ UNCHANGED <<prio, loaded, finished>>

EnqueueReady(p) ==
  mlq_ready_queue' =
    [mlq_ready_queue EXCEPT ![prio[p]] = Enqueue(@, p)]

\* put_proc: the process leaves the CPU, and stays in running_list.
PutProc(c) ==
  /\ proc[c] # NULL
  /\ EnqueueReady(proc[c])
  /\ proc' = [proc EXCEPT ![c] = NULL]
  /\ UNCHANGED <<slot, running_list, prio, loaded, finished>>

\* add_proc
AddProc(p) ==
  /\ p \notin loaded
  /\ EnqueueReady(p)
  /\ loaded' = loaded \cup {p}
  /\ UNCHANGED <<slot, running_list, proc, prio, finished>>

\* remove_proc: the process of c has finished.
RemoveProc(c) ==
  /\ proc[c] # NULL
  /\ running_list' = Purge(running_list, proc[c])
  /\ finished' = finished \cup {proc[c]}
  /\ proc' = [proc EXCEPT ![c] = NULL]
  /\ UNCHANGED <<mlq_ready_queue, slot, prio, loaded>>
-----------------------------------------------------------------------------
CpuStep(c) == GetProc(c) \/ PutProc(c) \/ RemoveProc(c)

SchedNext ==
  \/ \E c \in Cpus : CpuStep(c)
  \/ \E p \in Procs : AddProc(p)

(***************************************************************************)
(* A CPU is never done with the scheduler: cpu_routine calls put_proc or   *)
(* remove_proc for the process it holds after at most time_slot            *)
(* instructions, and get_proc right after.                                 *)
(***************************************************************************)
SchedSpec == SchedInit /\ [][SchedNext]_sched_vars

SchedFairSpec == SchedSpec /\ \A c \in Cpus : WF_sched_vars(CpuStep(c))
-----------------------------------------------------------------------------
(* Properties                                                              *)

Ready(p) == \E q \in Prios : Contains(mlq_ready_queue[q], p)

Held(p) == \E c \in Cpus : proc[c] = p

(***************************************************************************)
(* A process is in at most one place: one position of one ready queue, the *)
(* queue of its priority, or one CPU, or finished.  No two CPUs ever       *)
(* execute the same pcb, and a finished pcb is never dispatched again.     *)
(***************************************************************************)
OnePlace ==
  /\ \A q \in Prios : \A i \in 1 .. Len(mlq_ready_queue[q]) :
       LET p == mlq_ready_queue[q][i] IN
       /\ prio[p] = q
       /\ p \in loaded \ finished
       /\ ~Held(p)
       /\ \A j \in 1 .. Len(mlq_ready_queue[q]) :
            mlq_ready_queue[q][j] = p => i = j
  /\ \A c \in Cpus : proc[c] # NULL =>
       /\ proc[c] \in loaded \ finished
       /\ \A d \in Cpus : proc[d] = proc[c] => c = d

(***************************************************************************)
(* A process handed to add_proc is not forgotten: it waits, is held by a   *)
(* CPU or has finished.  Holds while the configuration has no more         *)
(* processes than a ready queue has places.                                *)
(***************************************************************************)
NotLost == \A p \in loaded : Ready(p) \/ Held(p) \/ p \in finished

(***************************************************************************)
(* The budgets keep every priority alive: a waiting process is dispatched  *)
(* whatever arrives at the priorities above it.                            *)
(***************************************************************************)
NoStarvation == \A p \in Procs : Ready(p) ~> Held(p)

(***************************************************************************)
(* "User space never passes a raw PCB pointer - only a PID, which the      *)
(* kernel resolves by walking running_list" (README.md): a process on a    *)
(* CPU is found there.                                                     *)
(***************************************************************************)
DispatchedIsListed ==
  \A c \in Cpus : proc[c] # NULL => Contains(running_list, proc[c])
=============================================================================
