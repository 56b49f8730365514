--------------------------------- MODULE OS ---------------------------------
(***************************************************************************)
(* os.c: the CPU threads (cpu_routine) and the loader thread (ld_routine)  *)
(* over the scheduler of sched.c and the slot clock that timer.c           *)
(* implements.  A thread acts only while it is working in the current      *)
(* slot; next_slot is EndSlot, detach_event is Leave.                      *)
(*                                                                         *)
(* A program is its number of instructions; what an instruction does to    *)
(* memory is VMem.tla.  An mm_struct is named by the process it was        *)
(* malloc'ed for.  The accesses to krnl->mm and to done are single steps:  *)
(* nothing protects them.                                                  *)
(***************************************************************************)
EXTENDS Scheduler

CONSTANTS
  Loader,         \* the loader thread
  TimeSlot,       \* time_slot of the configuration file
  StartTimes,     \* the start times the configuration may give
  CodeSizes       \* the program lengths the configuration may give

ASSUME OSAssumption ==
  /\ Loader \notin Cpus
  /\ Cpus # {}
  /\ IsFiniteSet(Procs)
  /\ NULL = 0 /\ Procs = 1 .. Cardinality(Procs)   \* pids, in load order
  /\ TimeSlot \in Nat \ {0}
  /\ StartTimes \subseteq Nat /\ CodeSizes \subseteq Nat

VARIABLES
  time, active, working, halted,    \* the clock
  done,                   \* the loader has nothing more to load
  cpc, time_left,         \* where each cpu_routine is, and its local
  lpc, i,                 \* where ld_routine is, and its loop index
  pc, code_size,          \* pcb fields
  executed,               \* history: instructions executed in this slot
  start_time,             \* ld_processes.start_time
  krnl_mm,                \* krnl->mm, shared by all processes
  own_mm,                 \* the pcb field
  mm                      \* what init_mm has done to each mm_struct

INSTANCE SlotClock WITH Devices <- Cpus \cup {Loader}

slot_vars == <<time, active, working, halted>>
config_vars == <<code_size, start_time>>
mm_vars == <<krnl_mm, own_mm, mm>>
cpu_vars == <<cpc, time_left, pc, executed>>
ld_vars == <<lpc, i, done>>
vars == <<sched_vars, slot_vars, config_vars, mm_vars, cpu_vars, ld_vars>>

TypeOK ==
  /\ SchedTypeOK
  /\ ClockTypeOK
  /\ done \in BOOLEAN
  /\ cpc \in [Cpus -> {"top", "recheck", "restore", "run", "slot", "detach",
                       "stopped"}]
  /\ time_left \in [Cpus -> 0 .. TimeSlot]
  /\ lpc \in {"load", "wait", "malloc", "init", "save", "add", "slot",
              "detach", "stopped"}
  /\ i \in 0 .. Cardinality(Procs)
  /\ code_size \in [Procs -> CodeSizes]
  /\ start_time \in [Procs -> StartTimes]
  /\ pc \in [Procs -> Nat] /\ \A p \in Procs : pc[p] <= code_size[p]
  /\ executed \in [Procs -> Nat]
  /\ krnl_mm \in Procs \cup {NULL}
  /\ own_mm \in [Procs -> Procs \cup {NULL}]
  /\ mm \in [Procs -> {"raw", "ready", "wiped"}]

\* main, up to the creation of the threads; read_config.
Init ==
  /\ SchedInit
  /\ ClockInit
  /\ done = FALSE
  /\ cpc = [c \in Cpus |-> "top"]
  /\ time_left = [c \in Cpus |-> 0]
  /\ lpc = "load"
  /\ i = 0
  /\ code_size \in [Procs -> CodeSizes]
  /\ start_time \in [Procs -> StartTimes]
  /\ pc = [p \in Procs |-> 0]
  /\ executed = [p \in Procs |-> 0]
  /\ krnl_mm = NULL
  /\ own_mm = [p \in Procs |-> NULL]
  /\ mm = [p \in Procs |-> "raw"]
-----------------------------------------------------------------------------
(* cpu_routine                                                             *)

At(c, label) == cpc[c] = label /\ c \in working

Goto(c, label) == cpc' = [cpc EXCEPT ![c] = label]

Current(c) == proc[c]

HasFinished(p) == pc[p] = code_size[p]

\* proc == NULL: initially, and right after put_proc or remove_proc.
CpuGet(c) ==
  /\ At(c, "top")
  /\ GetProc(c)
  /\ Goto(c, "recheck")
  /\ UNCHANGED <<slot_vars, config_vars, mm_vars, ld_vars, time_left, pc,
                 executed>>

CpuRemove(c) ==
  /\ At(c, "top")
  /\ Current(c) # NULL
  /\ HasFinished(Current(c))
  /\ RemoveProc(c)
  /\ time_left' = [time_left EXCEPT ![c] = 0]
  /\ UNCHANGED <<slot_vars, config_vars, mm_vars, ld_vars, cpc, pc, executed>>

CpuPreempt(c) ==
  /\ At(c, "top")
  /\ Current(c) # NULL
  /\ ~HasFinished(Current(c))
  /\ time_left[c] = 0
  /\ PutProc(c)
  /\ UNCHANGED <<slot_vars, config_vars, mm_vars, ld_vars, cpu_vars>>

CpuKeep(c) ==
  /\ At(c, "top")
  /\ Current(c) # NULL
  /\ ~HasFinished(Current(c))
  /\ time_left[c] > 0
  /\ Goto(c, "recheck")
  /\ UNCHANGED <<sched_vars, slot_vars, config_vars, mm_vars, ld_vars,
                 time_left, pc, executed>>

\* No process: stop if the loader is done, else skip the slot.
CpuIdle(c) ==
  /\ At(c, "recheck")
  /\ Current(c) = NULL
  /\ Goto(c, IF done THEN "detach" ELSE "slot")
  /\ UNCHANGED <<sched_vars, slot_vars, config_vars, mm_vars, ld_vars,
                 time_left, pc, executed>>

CpuDispatchNoRefill(c) ==
  /\ At(c, "recheck")
  /\ Current(c) # NULL
  /\ Goto(c, "restore")
  /\ UNCHANGED <<sched_vars, slot_vars, config_vars, mm_vars, ld_vars,
                 time_left, pc, executed>>

CpuDispatch(c) ==
  /\ At(c, "recheck")
  /\ Current(c) # NULL
  /\ time_left' = [time_left EXCEPT ![c] = IF @ = 0 THEN TimeSlot ELSE @]
  /\ Goto(c, "restore")
  /\ UNCHANGED <<sched_vars, slot_vars, config_vars, mm_vars, ld_vars, pc,
                 executed>>

\* proc->krnl->mm = proc->own_mm
CpuRestore(c) ==
  /\ At(c, "restore")
  /\ krnl_mm' = IF own_mm[Current(c)] # NULL THEN own_mm[Current(c)] ELSE krnl_mm
  /\ Goto(c, "run")
  /\ UNCHANGED <<sched_vars, slot_vars, config_vars, ld_vars, own_mm, mm,
                 time_left, pc, executed>>

\* run(): one instruction, if there is one left.
Fetch(p) ==
  LET n == IF pc[p] >= code_size[p] THEN 0 ELSE 1 IN
  /\ pc' = [pc EXCEPT ![p] = @ + n]
  /\ executed' = [executed EXCEPT ![p] = @ + n]

CpuRunNoSlot(c) ==
  /\ At(c, "run")
  /\ Fetch(Current(c))
  /\ time_left' = [time_left EXCEPT ![c] = @ - 1]
  /\ Goto(c, "top")
  /\ UNCHANGED <<sched_vars, slot_vars, config_vars, mm_vars, ld_vars>>

CpuRun(c) ==
  /\ At(c, "run")
  /\ Fetch(Current(c))
  /\ time_left' = [time_left EXCEPT ![c] = @ - 1]
  /\ Goto(c, "slot")
  /\ UNCHANGED <<sched_vars, slot_vars, config_vars, mm_vars, ld_vars>>

CpuNextSlot(c) ==
  /\ At(c, "slot")
  /\ EndSlot(c)
  /\ Goto(c, "top")
  /\ UNCHANGED <<sched_vars, config_vars, mm_vars, ld_vars, time_left, pc,
                 executed>>

CpuDetach(c) ==
  /\ At(c, "detach")
  /\ Leave(c)
  /\ Goto(c, "stopped")
  /\ UNCHANGED <<sched_vars, config_vars, mm_vars, ld_vars, time_left, pc,
                 executed>>

Cpu(c) ==
  \/ CpuGet(c) \/ CpuRemove(c) \/ CpuPreempt(c) \/ CpuKeep(c)
  \/ CpuIdle(c) \/ CpuDispatch(c) \/ CpuRestore(c) \/ CpuRun(c)
  \/ CpuNextSlot(c) \/ CpuDetach(c)
-----------------------------------------------------------------------------
(* ld_routine                                                              *)

LdAt(label) == lpc = label /\ Loader \in working

\* The process being loaded: load() numbers pids from 1.
Loading == i + 1

LdLoad ==
  /\ LdAt("load")
  /\ IF i < Cardinality(Procs)
     THEN lpc' = "wait" /\ UNCHANGED done
     ELSE lpc' = "detach" /\ done' = TRUE
  /\ UNCHANGED <<sched_vars, slot_vars, config_vars, mm_vars, cpu_vars, i>>

\* while (current_time() < start_time) next_slot
LdWait ==
  /\ LdAt("wait")
  /\ IF time < start_time[Loading]
     THEN EndSlot(Loader) /\ UNCHANGED lpc
     ELSE lpc' = "malloc" /\ UNCHANGED slot_vars
  /\ UNCHANGED <<sched_vars, config_vars, mm_vars, cpu_vars, i, done>>

LdMalloc ==
  /\ LdAt("malloc")
  /\ krnl_mm' = Loading
  /\ lpc' = "init"
  /\ UNCHANGED <<sched_vars, slot_vars, config_vars, own_mm, mm, cpu_vars, i, done>>

\* init_mm(krnl->mm): a second initialisation forgets what was mapped.
LdInitMM ==
  /\ LdAt("init")
  /\ mm' = [mm EXCEPT ![krnl_mm] = IF @ = "raw" THEN "ready" ELSE "wiped"]
  /\ lpc' = "save"
  /\ UNCHANGED <<sched_vars, slot_vars, config_vars, krnl_mm, own_mm, cpu_vars,
                 i, done>>

LdSaveMM ==
  /\ LdAt("save")
  /\ own_mm' = [own_mm EXCEPT ![Loading] = krnl_mm]
  /\ lpc' = "add"
  /\ UNCHANGED <<sched_vars, slot_vars, config_vars, krnl_mm, mm, cpu_vars,
                 i, done>>

LdAddNoSlot ==
  /\ LdAt("add")
  /\ AddProc(Loading)
  /\ i' = i + 1
  /\ lpc' = "load"
  /\ UNCHANGED <<slot_vars, config_vars, mm_vars, cpu_vars, done>>

LdAdd ==
  /\ LdAt("add")
  /\ AddProc(Loading)
  /\ i' = i + 1
  /\ lpc' = "slot"
  /\ UNCHANGED <<slot_vars, config_vars, mm_vars, cpu_vars, done>>

LdNextSlot ==
  /\ LdAt("slot")
  /\ EndSlot(Loader)
  /\ lpc' = "load"
  /\ UNCHANGED <<sched_vars, config_vars, mm_vars, cpu_vars, i, done>>

LdDetach ==
  /\ LdAt("detach")
  /\ Leave(Loader)
  /\ lpc' = "stopped"
  /\ UNCHANGED <<sched_vars, config_vars, mm_vars, cpu_vars, i, done>>

Ld ==
  \/ LdLoad \/ LdWait \/ LdMalloc \/ LdInitMM \/ LdSaveMM \/ LdAdd
  \/ LdNextSlot \/ LdDetach
-----------------------------------------------------------------------------
Timer ==
  /\ \/ Tick /\ executed' = [p \in Procs |-> 0]
     \/ Halt /\ UNCHANGED executed
  /\ UNCHANGED <<sched_vars, config_vars, mm_vars, cpc, time_left, pc, ld_vars>>

Terminated == halted /\ UNCHANGED vars

Next == (\E c \in Cpus : Cpu(c)) \/ Ld \/ Timer \/ Terminated

Spec == Init /\ [][Next]_vars

(***************************************************************************)
(* Each thread is scheduled by the host; the clock's own fairness is what  *)
(* Timer.tla establishes.                                                  *)
(***************************************************************************)
FairSpec ==
  /\ Spec
  /\ \A c \in Cpus : WF_vars(Cpu(c))
  /\ WF_vars(Ld)
  /\ WF_vars(Timer)
-----------------------------------------------------------------------------
(* Properties                                                              *)

(***************************************************************************)
(* A CPU stops when it finds no process and the done flag is set, two      *)
(* separate reads of shared state.  Still no process is left behind: when  *)
(* every thread has detached, every process of the configuration has run   *)
(* to its end.                                                             *)
(***************************************************************************)
AllServed == active = {} => finished = Procs

(***************************************************************************)
(* However the CPUs hand a process to each other (put_proc and get_proc    *)
(* are two critical sections, in the slot in which the other CPU runs it), *)
(* it executes at most one instruction in any one time slot, none before   *)
(* its start time, and it is removed only at the end of its code.          *)
(***************************************************************************)
OneInstructionPerSlot ==
  \A p \in Procs : /\ executed[p] <= 1
                   /\ executed[p] > 0 => start_time[p] <= time
                   /\ p \in finished => pc[p] = code_size[p]

(***************************************************************************)
(* The simulation ends, with all processes finished.                       *)
(***************************************************************************)
Termination == <>(halted /\ finished = Procs)

(***************************************************************************)
(* "Each process owns its personal mm_struct" (common.h, own_mm): a        *)
(* process in the scheduler has the mm_struct that was allocated for it,   *)
(* initialised once.                                                       *)
(***************************************************************************)
PrivateMM == \A p \in loaded : own_mm[p] = p /\ mm[p] = "ready"

(***************************************************************************)
(* cpu_routine restores krnl->mm before run() so that the instruction      *)
(* (__read resolves its region through krnl->mm) works on the memory of    *)
(* the process it belongs to.                                              *)
(***************************************************************************)
RunsOnOwnMM ==
  [][\A c \in Cpus : CpuRun(c) => krnl_mm = own_mm[Current(c)]]_vars
=============================================================================
