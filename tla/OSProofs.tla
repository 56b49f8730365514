------------------------------ MODULE OSProofs ------------------------------
(***************************************************************************)
(* Proofs about OS.tla, for any number of CPUs, processes, priorities and  *)
(* any program lengths, start times and quantum.                           *)
(*                                                                         *)
(* The scheduler's part of the state is changed only by the operations of  *)
(* Scheduler.tla, whose lemmas are used here.                              *)
(***************************************************************************)
EXTENDS OS, SchedulerProofs

NumProcs == Cardinality(Procs)

\* The threads against the clock: a thread that waits for the next slot is at
\* the place where next_slot returns to.
ThreadInv ==
  /\ \A c \in Cpus : /\ c \in active <=> cpc[c] # "stopped"
                     /\ c \in active \ working => cpc[c] = "top"
  /\ Loader \in active <=> lpc # "stopped"
  /\ Loader \in active \ working => lpc \in {"load", "wait"}

CpuInv ==
  \A c \in Cpus :
    /\ cpc[c] \in {"restore", "run"} => proc[c] # NULL /\ time_left[c] > 0
    /\ cpc[c] \in {"detach", "stopped"} => proc[c] = NULL /\ done

LdInv ==
  /\ loaded = 1 .. i
  /\ lpc \in {"wait", "malloc", "init", "save", "add"} => i < NumProcs
  /\ lpc \in {"malloc", "init", "save", "add"} => start_time[Loading] <= time
  /\ lpc \in {"init", "save"} => krnl_mm # NULL
  /\ done <=> lpc \in {"detach", "stopped"}
  /\ done => i = NumProcs

\* Nobody has executed an instruction of p in the current slot.
Fresh(p) == \A c \in Cpus : proc[c] = p => c \in working /\ cpc[c] # "slot"

ProgressInv ==
  \A p \in Procs :
    /\ IF p \in loaded THEN start_time[p] <= time ELSE pc[p] = 0 /\ executed[p] = 0
    /\ executed[p] <= 1
    /\ Fresh(p) => executed[p] = 0
    /\ p \in finished => pc[p] = code_size[p]

(***************************************************************************)
(* The inductive invariant of os.c.                                        *)
(***************************************************************************)
OSIInv ==
  SchedIInv /\ TypeOK /\ ThreadInv /\ CpuInv /\ LdInv /\ ProgressInv

\* A CPU that has found the scheduler empty may be about to stop.
Leaving(c) ==
  cpc[c] \in {"detach", "stopped"} \/ (cpc[c] = "recheck" /\ proc[c] = NULL)

\* The slot in which the last process was added is over.
AllLoaded ==
  /\ i = NumProcs
  /\ lpc \in {"detach", "stopped"} \/ (lpc = "load" /\ Loader \in working)

(***************************************************************************)
(* What makes the done flag safe: once it can be set, as long as a process *)
(* waits some CPU will look for it again before it decides to stop.        *)
(***************************************************************************)
ServeInv ==
  NotLost /\ (AllLoaded => NonEmpty = {} \/ \E c \in Cpus : ~Leaving(c))
-----------------------------------------------------------------------------
(***************************************************************************)
(* What the configuration guarantees, without the order of the pids.       *)
(***************************************************************************)
LEMMA Config ==
  /\ NULL \notin Procs /\ Loader \notin Cpus /\ NumProcs \in Nat
  /\ TimeSlot \in Nat /\ TimeSlot > 0
  /\ \A t \in StartTimes : t \in Nat
  /\ \A n \in CodeSizes : n \in Nat
<1>1. NumProcs \in Nat
  BY OSAssumption, FS_CardinalityType DEF NumProcs
<1>2. NULL \notin Procs
  BY SchedAssumption
<1>3. /\ TimeSlot \in Nat \ {0} /\ StartTimes \subseteq Nat /\ CodeSizes \subseteq Nat
      /\ Loader \notin Cpus
  BY OSAssumption
<1> QED BY <1>1, <1>2, <1>3

-----------------------------------------------------------------------------
(* The scheduler as os.c uses it                                           *)

(***************************************************************************)
(* What the threads rely on: a held process is loaded, not finished, and   *)
(* held by one CPU only (the pcb a cpu_routine works on is its own).       *)
(***************************************************************************)
LEMMA SchedFacts ==
  ASSUME SchedIInv
  PROVE  /\ proc \in [Cpus -> Procs \cup {NULL}]
         /\ loaded \subseteq Procs /\ finished \subseteq loaded
         /\ \A c \in Cpus : proc[c] # NULL =>
              /\ proc[c] \in Procs /\ proc[c] \in loaded /\ proc[c] \notin finished
              /\ \A d \in Cpus : proc[d] = proc[c] => c = d
  BY DEF SchedIInv, SchedTypeOK, OnePlace

(***************************************************************************)
(* A step that calls no operation of sched.c.                              *)
(***************************************************************************)
LEMMA SchedUnchanged ==
  ASSUME SchedIInv, UNCHANGED sched_vars
  PROVE  SchedIInv'
  BY SchedNextIInv

(***************************************************************************)
(* get_proc gives the CPU a process that no other CPU holds, or NULL if    *)
(* none waits.                                                             *)
(***************************************************************************)
LEMMA GetProcEffect ==
  ASSUME SchedIInv, NEW c \in Cpus, GetProc(c)
  PROVE  /\ \E p \in Procs \cup {NULL} :
              /\ proc' = [proc EXCEPT ![c] = p]
              /\ p = NULL => NonEmpty = {} /\ mlq_ready_queue' = mlq_ready_queue
              /\ p # NULL => p \in loaded /\ p \notin finished /\ ~Held(p)
         /\ UNCHANGED <<prio, loaded, finished>>
<1>1. CASE NonEmpty = {} /\ UNCHANGED <<proc, mlq_ready_queue, slot, running_list>>
  <2>1. proc' = [proc EXCEPT ![c] = NULL]
    BY <1>1, SchedFacts DEF GetProc
  <2> QED BY <1>1, <2>1 DEF GetProc
<1>2. ASSUME NEW q \in Candidates, Take(c, q)
      PROVE  \E p \in Procs : /\ proc' = [proc EXCEPT ![c] = p]
                              /\ p \in loaded /\ p \notin finished /\ ~Held(p)
  <2>1. /\ q \in Prios /\ mlq_ready_queue[q] # << >>
        /\ mlq_ready_queue[q] \in Seq(Procs)
    BY DEF Candidates, Eligible, NonEmpty, SchedIInv, SchedTypeOK
  <2>2. /\ Head(mlq_ready_queue[q]) = mlq_ready_queue[q][1]
        /\ Head(mlq_ready_queue[q]) \in Procs
        /\ 1 \in 1 .. Len(mlq_ready_queue[q])
    BY <2>1, TailProperties
  <2>3. /\ mlq_ready_queue[q][1] \in loaded /\ mlq_ready_queue[q][1] \notin finished
        /\ ~Held(mlq_ready_queue[q][1])
    BY <2>1, <2>2 DEF SchedIInv, OnePlace
  <2> QED BY <1>2, <2>2, <2>3 DEF Take
<1>3. NULL \notin Procs
  BY SchedAssumption
<1> QED BY <1>1, <1>2, <1>3 DEF GetProc

(***************************************************************************)
(* main establishes the invariant before it creates the threads.           *)
(***************************************************************************)
LEMMA OSInitIInv == Init => OSIInv
<1> SUFFICES ASSUME Init PROVE OSIInv
  OBVIOUS
<1>1. SchedIInv
  BY SchedInitIInv DEF Init
<1>2. NumProcs \in Nat
  BY Config
<1>3. TypeOK
  <2>1. SchedTypeOK
    BY <1>1 DEF SchedIInv
  <2>2. i \in 0 .. Cardinality(Procs)
    BY <1>2 DEF Init, NumProcs
  <2>3. /\ pc \in [Procs -> Nat] /\ \A p \in Procs : pc[p] <= code_size[p]
        /\ executed \in [Procs -> Nat]
    BY Config DEF Init
  <2>4. ClockTypeOK
    BY DEF Init, ClockInit, ClockTypeOK
  <2>5. /\ time_left \in [Cpus -> 0 .. TimeSlot]
        /\ own_mm \in [Procs -> Procs \cup {NULL}]
        /\ mm \in [Procs -> {"raw", "ready", "wiped"}]
    BY Config DEF Init
  <2> QED BY <2>1, <2>2, <2>3, <2>4, <2>5 DEF Init, TypeOK
<1>4. ThreadInv /\ CpuInv
  BY Config DEF Init, ClockInit, ThreadInv, CpuInv
<1>5. LdInv
  BY DEF Init, SchedInit, LdInv
<1>6. ProgressInv
  BY DEF Init, SchedInit, ProgressInv
<1> QED BY <1>1, <1>3, <1>4, <1>5, <1>6 DEF OSIInv
-----------------------------------------------------------------------------
(* cpu_routine                                                             *)

(***************************************************************************)
(* The steps of cpu_routine that only move its own control, refill its     *)
(* quantum or restore krnl->mm.                                            *)
(***************************************************************************)
LEMMA CpuLocalIInv ==
  ASSUME OSIInv, NEW c \in Cpus,
         CpuKeep(c) \/ CpuIdle(c) \/ CpuDispatch(c) \/ CpuRestore(c)
  PROVE  OSIInv'
<1> USE DEF CpuKeep, CpuIdle, CpuDispatch, CpuRestore, At, Goto, Current
<1>1. /\ UNCHANGED <<sched_vars, slot_vars, config_vars, ld_vars, own_mm, mm, pc, executed>>
      /\ c \in working /\ cpc[c] # "slot"
      /\ \E l \in {"recheck", "detach", "slot", "restore", "run"} :
           /\ cpc' = [cpc EXCEPT ![c] = l]
           /\ l \in {"slot", "detach"} => proc[c] = NULL
           /\ l = "detach" => done
           /\ l \in {"restore", "run"} => proc[c] # NULL /\ time_left'[c] > 0
  BY Config DEF mm_vars, OSIInv, TypeOK, CpuInv
<1>2. SchedIInv'
  BY <1>1, SchedUnchanged DEF OSIInv
<1>3. TypeOK'
  <2>1. time_left' \in [Cpus -> 0 .. TimeSlot]
    BY Config DEF OSIInv, TypeOK
  <2>2. krnl_mm' \in Procs \cup {NULL}
    <3>1. CASE CpuRestore(c)
      <4>1. proc[c] \in Procs
        BY <3>1, SchedFacts DEF OSIInv, CpuInv
      <4> QED BY <3>1, <4>1 DEF OSIInv, TypeOK
    <3>2. CASE ~CpuRestore(c)
      BY <3>2 DEF mm_vars, OSIInv, TypeOK
    <3> QED BY <3>1, <3>2
  <2>3. SchedTypeOK'
    BY <1>2 DEF SchedIInv
  <2> QED BY <1>1, <2>1, <2>2, <2>3
          DEF OSIInv, TypeOK, ClockTypeOK, slot_vars, config_vars, ld_vars
<1>4. ThreadInv'
  BY <1>1 DEF OSIInv, TypeOK, ClockTypeOK, ThreadInv, slot_vars, ld_vars
<1>5. CpuInv'
  <2>1. \A d \in Cpus : d # c => time_left'[d] = time_left[d] /\ cpc'[d] = cpc[d]
    BY <1>1 DEF OSIInv, TypeOK
  <2> QED BY <1>1, <2>1 DEF OSIInv, TypeOK, CpuInv, ld_vars, sched_vars
<1>6. LdInv'
  <2>1. krnl_mm # NULL => krnl_mm' # NULL
    BY DEF mm_vars
  <2> QED BY <1>1, <2>1 DEF OSIInv, LdInv, Loading, ld_vars, sched_vars, slot_vars,
                            config_vars
<1>7. ProgressInv'
  <2>1. \A p \in Procs : Fresh(p)' => Fresh(p)
    BY <1>1, SchedAssumption DEF Fresh, OSIInv, TypeOK, slot_vars, sched_vars
  <2> QED BY <1>1, <2>1 DEF OSIInv, ProgressInv, slot_vars, config_vars, sched_vars
<1> QED BY <1>2, <1>3, <1>4, <1>5, <1>6, <1>7 DEF OSIInv

(***************************************************************************)
(* run() executes one instruction of the process, if it has one left, and  *)
(* the history counts it.                                                  *)
(***************************************************************************)
LEMMA RunEffect ==
  ASSUME OSIInv, NEW c \in Cpus, CpuRun(c), NEW p \in Procs, p = proc[c]
  PROVE  /\ pc' = [pc EXCEPT ![p] = IF @ >= code_size[p] THEN @ ELSE @ + 1]
         /\ \E n \in {0, 1} : executed' = [executed EXCEPT ![p] = @ + n]
<1>1. PICK n \in {0, 1} : n = IF pc[p] >= code_size[p] THEN 0 ELSE 1
  OBVIOUS
<1>2. pc' = [pc EXCEPT ![p] = @ + n] /\ executed' = [executed EXCEPT ![p] = @ + n]
  BY <1>1 DEF CpuRun, Fetch, Current
<1>3. pc[p] + n = IF pc[p] >= code_size[p] THEN pc[p] ELSE pc[p] + 1
  BY <1>1 DEF OSIInv, TypeOK
<1> QED BY <1>2, <1>3

(***************************************************************************)
(* run(): the process was fresh, and is not until the next slot.           *)
(***************************************************************************)
LEMMA CpuRunIInv ==
  ASSUME OSIInv, NEW c \in Cpus, CpuRun(c)
  PROVE  OSIInv'
<1>0. PICK p \in Procs : p = proc[c]
  BY SchedFacts DEF CpuRun, At, OSIInv, CpuInv
<1>1. /\ UNCHANGED <<sched_vars, slot_vars, config_vars, mm_vars, ld_vars>>
      /\ c \in working /\ cpc[c] = "run"
      /\ pc' = [pc EXCEPT ![p] = IF @ >= code_size[p] THEN @ ELSE @ + 1]
      /\ \E n \in {0, 1} : executed' = [executed EXCEPT ![p] = @ + n]
      /\ time_left' = [time_left EXCEPT ![c] = @ - 1]
      /\ cpc' = [cpc EXCEPT ![c] = "slot"]
  BY <1>0, RunEffect DEF CpuRun, At, Goto
<1>2. /\ p \in Procs /\ p \in loaded /\ p \notin finished /\ time_left[c] > 0
      /\ \A d \in Cpus : proc[d] = p => c = d
  BY <1>0, <1>1, SchedFacts DEF OSIInv, CpuInv
<1>3. SchedIInv'
  BY <1>1, SchedUnchanged DEF OSIInv
<1>4. TypeOK'
  <2>1. time_left' \in [Cpus -> 0 .. TimeSlot]
    BY <1>1, <1>2, Config DEF OSIInv, TypeOK
  <2>2. \A q \in Procs : code_size[q] \in Nat
    BY Config DEF OSIInv, TypeOK
  <2>3. /\ pc' \in [Procs -> Nat] /\ \A q \in Procs : pc'[q] <= code_size[q]
        /\ executed' \in [Procs -> Nat]
    BY <1>1, <1>2, <2>2 DEF OSIInv, TypeOK
  <2>4. SchedTypeOK'
    BY <1>3 DEF SchedIInv
  <2> QED BY <1>1, <2>1, <2>3, <2>4
          DEF OSIInv, TypeOK, ClockTypeOK, slot_vars, config_vars, ld_vars, mm_vars
<1>5. ThreadInv'
  BY <1>1 DEF OSIInv, TypeOK, ClockTypeOK, ThreadInv, slot_vars, ld_vars
<1>6. CpuInv'
  BY <1>1 DEF OSIInv, TypeOK, CpuInv, ld_vars, sched_vars
<1>7. LdInv'
  BY <1>1 DEF OSIInv, LdInv, Loading, ld_vars, sched_vars, slot_vars, config_vars,
              mm_vars
<1>8. ProgressInv'
  <2>1. Fresh(p) /\ ~Fresh(p)'
    BY <1>0, <1>1, <1>2 DEF Fresh, OSIInv, TypeOK, slot_vars, sched_vars
  <2>2. \A q \in Procs : q # p => /\ Fresh(q)' => Fresh(q)
                                  /\ pc'[q] = pc[q] /\ executed'[q] = executed[q]
    BY <1>0, <1>1 DEF Fresh, OSIInv, TypeOK, slot_vars, sched_vars
  <2>3. UNCHANGED <<loaded, finished, start_time, code_size, time>>
    BY <1>1 DEF slot_vars, config_vars, sched_vars
  <2>4. executed[p] = 0 /\ executed'[p] \in {0, 1}
    BY <1>1, <1>2, <2>1 DEF OSIInv, TypeOK, ProgressInv
  <2> QED BY <1>2, <2>1, <2>2, <2>3, <2>4 DEF OSIInv, ProgressInv
<1> QED BY <1>3, <1>4, <1>5, <1>6, <1>7, <1>8 DEF OSIInv

(***************************************************************************)
(* next_slot and detach_event: the CPU does nothing more in this slot.     *)
(***************************************************************************)
LEMMA CpuSlotIInv ==
  ASSUME OSIInv, NEW c \in Cpus, CpuNextSlot(c) \/ CpuDetach(c)
  PROVE  OSIInv'
<1>1. /\ UNCHANGED <<sched_vars, config_vars, mm_vars, ld_vars, time_left, pc, executed, time,
                   halted>>
      /\ c \in working /\ working' = working \ {c}
      /\ \/ cpc[c] = "slot" /\ cpc' = [cpc EXCEPT ![c] = "top"] /\ active' = active
         \/ /\ cpc[c] = "detach" /\ cpc' = [cpc EXCEPT ![c] = "stopped"]
            /\ active' = active \ {c}
  BY DEF CpuNextSlot, CpuDetach, At, Goto, EndSlot, Leave
<1>2. SchedIInv'
  BY <1>1, SchedUnchanged DEF OSIInv
<1>3. TypeOK'
  <2>1. SchedTypeOK'
    BY <1>2 DEF SchedIInv
  <2>2. ClockTypeOK'
    BY <1>1 DEF OSIInv, TypeOK, ClockTypeOK
  <2> QED BY <1>1, <2>1, <2>2 DEF OSIInv, TypeOK, config_vars, ld_vars, mm_vars
<1>4. ThreadInv'
  BY <1>1, Config DEF OSIInv, TypeOK, ClockTypeOK, ThreadInv, ld_vars
<1>5. CpuInv'
  BY <1>1 DEF OSIInv, TypeOK, CpuInv, ld_vars, sched_vars
<1>6. LdInv'
  BY <1>1 DEF OSIInv, LdInv, Loading, ld_vars, sched_vars, config_vars, mm_vars
<1>7. ProgressInv'
  <2>1. \A p \in Procs : Fresh(p)' => Fresh(p)
    BY <1>1, Config DEF Fresh, OSIInv, TypeOK, sched_vars
  <2> QED BY <1>1, <2>1 DEF OSIInv, ProgressInv, config_vars, sched_vars
<1> QED BY <1>2, <1>3, <1>4, <1>5, <1>6, <1>7 DEF OSIInv

(***************************************************************************)
(* get_proc, put_proc and remove_proc: a CPU that works in the slot takes  *)
(* a process that nobody holds or gives up the one it has not run yet.     *)
(***************************************************************************)
LEMMA CpuSchedIInv ==
  ASSUME OSIInv, NEW c \in Cpus, CpuGet(c) \/ CpuPreempt(c) \/ CpuRemove(c)
  PROVE  OSIInv'
<1>1. SchedIInv'
  BY GetProcIInv, PutProcIInv, RemoveProcIInv DEF OSIInv, CpuGet, CpuPreempt, CpuRemove
<1>2. /\ UNCHANGED <<slot_vars, config_vars, mm_vars, ld_vars, pc, executed, loaded>>
      /\ c \in working /\ cpc[c] = "top"
      /\ cpc' = cpc \/ cpc' = [cpc EXCEPT ![c] = "recheck"]
      /\ time_left' = time_left \/ time_left' = [time_left EXCEPT ![c] = 0]
  BY DEF CpuGet, CpuPreempt, CpuRemove, GetProc, PutProc, RemoveProc, At, Goto, cpu_vars
<1>3. \A d \in Cpus : d # c => proc'[d] = proc[d]
  <2>1. CASE CpuGet(c)
    <3>1. \E p \in Procs \cup {NULL} : proc' = [proc EXCEPT ![c] = p]
      BY <2>1, GetProcEffect DEF CpuGet, OSIInv
    <3> QED BY <3>1, SchedFacts DEF OSIInv
  <2>2. CASE CpuPreempt(c) \/ CpuRemove(c)
    BY <2>2, SchedFacts DEF CpuPreempt, CpuRemove, PutProc, RemoveProc, OSIInv
  <2> QED BY <2>1, <2>2
<1>4. \A p \in finished' : pc[p] = code_size[p]
  <2>1. CASE CpuRemove(c)
    BY <2>1, SchedFacts
    DEF CpuRemove, RemoveProc, Current, HasFinished, OSIInv, ProgressInv
  <2>2. CASE CpuGet(c) \/ CpuPreempt(c)
    BY <2>2, SchedFacts DEF CpuGet, CpuPreempt, GetProc, PutProc, OSIInv, ProgressInv
  <2> QED BY <2>1, <2>2
<1>5. TypeOK'
  <2>1. SchedTypeOK'
    BY <1>1 DEF SchedIInv
  <2>2. ClockTypeOK'
    BY <1>2 DEF OSIInv, TypeOK, ClockTypeOK, slot_vars
  <2>3. time_left' \in [Cpus -> 0 .. TimeSlot]
    BY <1>2, Config DEF OSIInv, TypeOK
  <2> QED BY <1>2, <2>1, <2>2, <2>3 DEF OSIInv, TypeOK, config_vars, ld_vars, mm_vars
<1>6. ThreadInv'
  BY <1>2 DEF OSIInv, TypeOK, ClockTypeOK, ThreadInv, slot_vars, ld_vars
<1>7. CpuInv'
  BY <1>2, <1>3 DEF OSIInv, TypeOK, CpuInv, ld_vars
<1>8. LdInv'
  BY <1>2 DEF OSIInv, LdInv, Loading, ld_vars, slot_vars, config_vars, mm_vars
<1>9. ProgressInv'
  <2>1. \A p \in Procs : Fresh(p)' => Fresh(p)
    BY <1>2, <1>3 DEF Fresh, OSIInv, TypeOK, slot_vars
  <2> QED BY <1>2, <1>4, <2>1 DEF OSIInv, ProgressInv, slot_vars, config_vars
<1> QED BY <1>1, <1>5, <1>6, <1>7, <1>8, <1>9 DEF OSIInv
-----------------------------------------------------------------------------
(* ld_routine and the timer                                                *)

(***************************************************************************)
(* The process the loader works on is the next pid.                        *)
(***************************************************************************)
LEMMA LoadingIsNext ==
  ASSUME OSIInv, i < NumProcs
  PROVE  Loading \in Procs /\ Loading \notin loaded /\ i + 1 \in 0 .. NumProcs
<1>1. i \in 0 .. NumProcs /\ loaded = 1 .. i
  BY DEF OSIInv, TypeOK, LdInv, NumProcs
<1>2. Procs = 1 .. NumProcs
  BY OSAssumption DEF NumProcs
<1> QED BY <1>1, <1>2, Config DEF Loading

(***************************************************************************)
(* add_proc: the process enters the scheduler not before its start time.   *)
(***************************************************************************)
LEMMA LdAddIInv ==
  ASSUME OSIInv, LdAdd
  PROVE  OSIInv'
<1>1. PICK p \in Procs : p = Loading
  BY LoadingIsNext DEF LdAdd, LdAt, OSIInv, LdInv
<1>2. /\ AddProc(p) /\ lpc = "add" /\ lpc' = "slot" /\ i' = i + 1 /\ Loader \in working
      /\ UNCHANGED <<slot_vars, config_vars, mm_vars, cpu_vars, done>>
      /\ loaded' = loaded \cup {p} /\ UNCHANGED <<proc, finished>>
  BY <1>1 DEF LdAdd, LdAt, AddProc
<1>3. SchedIInv'
  BY <1>2, AddProcIInv DEF OSIInv
<1>4. i < NumProcs /\ p \notin loaded /\ i + 1 \in 0 .. NumProcs /\ start_time[p] <= time
  BY <1>1, <1>2, LoadingIsNext DEF OSIInv, LdInv
<1>5. TypeOK'
  <2>1. SchedTypeOK'
    BY <1>3 DEF SchedIInv
  <2>2. ClockTypeOK'
    BY <1>2 DEF OSIInv, TypeOK, ClockTypeOK, slot_vars
  <2> QED BY <1>2, <1>4, <2>1, <2>2
          DEF OSIInv, TypeOK, config_vars, cpu_vars, mm_vars, NumProcs
<1>6. ThreadInv'
  BY <1>2 DEF OSIInv, ThreadInv, slot_vars, cpu_vars
<1>7. CpuInv'
  BY <1>2 DEF OSIInv, CpuInv, cpu_vars
<1>8. LdInv'
  <2>1. loaded' = 1 .. i'
    BY <1>1, <1>2, SMTT(30) DEF OSIInv, LdInv, TypeOK, Loading
  <2> QED BY <1>2, <2>1 DEF OSIInv, LdInv
<1>9. ProgressInv'
  <2>1. \A q \in Procs : Fresh(q)' => Fresh(q)
    BY <1>2 DEF Fresh, slot_vars, cpu_vars
  <2>2. pc[p] = 0 /\ start_time[p] \in Nat /\ time \in Nat
    BY <1>4, Config DEF OSIInv, TypeOK, ClockTypeOK, ProgressInv
  <2> QED BY <1>2, <1>4, <2>1, <2>2 DEF OSIInv, ProgressInv, slot_vars, config_vars, cpu_vars
<1> QED BY <1>3, <1>5, <1>6, <1>7, <1>8, <1>9 DEF OSIInv

(***************************************************************************)
(* The other steps of ld_routine leave scheduler and CPUs alone.           *)
(***************************************************************************)
LEMMA LdIInv ==
  ASSUME OSIInv, Ld
  PROVE  OSIInv'
<1> USE DEF LdLoad, LdWait, LdMalloc, LdInitMM, LdSaveMM, LdNextSlot, LdDetach, LdAt
<1>1. CASE LdAdd
  BY <1>1, LdAddIInv
<1>2. CASE ~LdAdd
  <2>1. /\ UNCHANGED <<sched_vars, config_vars, cpu_vars, i, time, halted>>
        /\ Loader \in working
    BY <1>2 DEF Ld, slot_vars, EndSlot, Leave
  <2>2. /\ working' = working \/ working' = working \ {Loader}
        /\ active' = active \/ (lpc = "detach" /\ active' = active \ {Loader})
        /\ working' \subseteq active'
    BY <1>2 DEF Ld, slot_vars, EndSlot, Leave, OSIInv, TypeOK, ClockTypeOK
  <2>3. SchedIInv'
    BY <2>1, SchedUnchanged DEF OSIInv
  <2>4. i < NumProcs => Loading \in Procs
    BY LoadingIsNext
  <2>5. /\ krnl_mm' \in Procs \cup {NULL}
        /\ own_mm' \in [Procs -> Procs \cup {NULL}]
        /\ mm' \in [Procs -> {"raw", "ready", "wiped"}]
    BY <1>2, <2>4 DEF Ld, OSIInv, TypeOK, LdInv, mm_vars
  <2>6. TypeOK'
    <3>1. SchedTypeOK'
      BY <2>3 DEF SchedIInv
    <3>2. ClockTypeOK'
      BY <2>1, <2>2 DEF OSIInv, TypeOK, ClockTypeOK
    <3>3. /\ done' \in BOOLEAN
          /\ lpc' \in {"load", "wait", "malloc", "init", "save", "add", "slot",
                       "detach", "stopped"}
      BY <1>2 DEF Ld, OSIInv, TypeOK
    <3> QED BY <2>1, <2>5, <3>1, <3>2, <3>3 DEF OSIInv, TypeOK, config_vars, cpu_vars
  <2>7. ThreadInv'
    <3>1. /\ Loader \in active' <=> lpc' # "stopped"
          /\ Loader \in active' \ working' => lpc' \in {"load", "wait"}
      BY <1>2 DEF Ld, slot_vars, EndSlot, Leave, OSIInv, TypeOK, ClockTypeOK, ThreadInv
    <3> QED BY <2>1, <2>2, <3>1, Config DEF OSIInv, ThreadInv, cpu_vars
  <2>8. CpuInv'
    <3>1. done => done'
      BY <1>2 DEF Ld
    <3> QED BY <2>1, <3>1 DEF OSIInv, CpuInv, cpu_vars, sched_vars
  <2>9. LdInv'
    BY <1>2, <2>1, <2>4, Config
    DEF Ld, OSIInv, TypeOK, ClockTypeOK, LdInv, Loading, sched_vars, config_vars, mm_vars,
        NumProcs
  <2>10. ProgressInv'
    <3>1. \A q \in Procs : Fresh(q)' => Fresh(q)
      BY <2>1, <2>2 DEF Fresh, sched_vars, cpu_vars
    <3> QED BY <2>1, <3>1 DEF OSIInv, ProgressInv, sched_vars, config_vars, cpu_vars
  <2> QED BY <2>3, <2>6, <2>7, <2>8, <2>9, <2>10 DEF OSIInv
<1> QED BY <1>1, <1>2

(***************************************************************************)
(* A new slot: every process may execute one more instruction.             *)
(***************************************************************************)
LEMMA ClockIInv ==
  ASSUME OSIInv, Timer
  PROVE  OSIInv'
<1>1. /\ UNCHANGED <<sched_vars, config_vars, mm_vars, cpc, time_left, pc, ld_vars, active>>
      /\ time' \in {time, time + 1} /\ halted' \in BOOLEAN
      /\ \/ time' = time /\ working' = working /\ executed' = executed
         \/ /\ time' = time + 1 /\ working = {} /\ working' = active
            /\ executed' = [p \in Procs |-> 0]
  BY DEF Timer, Tick, Halt
<1>2. SchedIInv'
  BY <1>1, SchedUnchanged DEF OSIInv
<1>3. TypeOK'
  <2>1. SchedTypeOK'
    BY <1>2 DEF SchedIInv
  <2>2. ClockTypeOK'
    BY <1>1 DEF OSIInv, TypeOK, ClockTypeOK
  <2> QED BY <1>1, <2>1, <2>2 DEF OSIInv, TypeOK, config_vars, mm_vars, cpu_vars, ld_vars
<1>4. ThreadInv' /\ CpuInv'
  BY <1>1 DEF OSIInv, ThreadInv, CpuInv, cpu_vars, ld_vars, sched_vars
<1>5. LdInv'
  <2>1. \A p \in Procs : start_time[p] \in Nat
    BY Config DEF OSIInv, TypeOK
  <2>2. lpc \in {"malloc", "init", "save", "add"} => Loading \in Procs
    BY LoadingIsNext DEF OSIInv, LdInv
  <2> QED BY <1>1, <2>1, <2>2
          DEF OSIInv, TypeOK, ClockTypeOK, LdInv, Loading, ld_vars, sched_vars, config_vars,
              mm_vars
<1>6. ProgressInv'
  <2>1. CASE time' = time /\ working' = working
    <3>1. \A p \in Procs : Fresh(p)' => Fresh(p)
      BY <1>1, <2>1 DEF Fresh, sched_vars, cpu_vars
    <3> QED BY <1>1, <2>1, <3>1 DEF OSIInv, ProgressInv, sched_vars, config_vars, cpu_vars
  <2>2. CASE time' = time + 1
    <3>1. \A p \in Procs : pc[p] \in Nat /\ start_time[p] \in Nat /\ time \in Nat
      BY Config DEF OSIInv, TypeOK, ClockTypeOK
    <3> QED BY <1>1, <2>2, <3>1 DEF OSIInv, ProgressInv, sched_vars, config_vars, cpu_vars
  <2> QED BY <1>1, <2>1, <2>2
<1> QED BY <1>2, <1>3, <1>4, <1>5, <1>6 DEF OSIInv
-----------------------------------------------------------------------------
(* The invariant of os.c and what follows from it                          *)

LEMMA OSNextIInv ==
  ASSUME OSIInv, [Next]_vars
  PROVE  OSIInv'
<1>1. ASSUME NEW c \in Cpus, Cpu(c) PROVE OSIInv'
  BY <1>1, CpuLocalIInv, CpuRunIInv, CpuSlotIInv, CpuSchedIInv DEF Cpu
<1>2. CASE UNCHANGED vars
  <2>1. UNCHANGED <<sched_vars, slot_vars, config_vars, mm_vars, cpu_vars, ld_vars>>
    BY <1>2 DEF vars
  <2>2. SchedIInv'
    BY <2>1, SchedUnchanged DEF OSIInv
  <2>3. TypeOK'
    <3>1. SchedTypeOK'
      BY <2>2 DEF SchedIInv
    <3>2. ClockTypeOK'
      BY <2>1 DEF OSIInv, TypeOK, ClockTypeOK, slot_vars
    <3> QED BY <2>1, <3>1, <3>2 DEF OSIInv, TypeOK, config_vars, mm_vars, cpu_vars, ld_vars
  <2>4. ThreadInv' /\ CpuInv' /\ LdInv'
    BY <2>1 DEF OSIInv, ThreadInv, CpuInv, LdInv, Loading, slot_vars, config_vars, mm_vars,
                cpu_vars, ld_vars, sched_vars
  <2>5. ProgressInv'
    <3>1. \A p \in Procs : Fresh(p)' => Fresh(p)
      BY <2>1 DEF Fresh, slot_vars, cpu_vars, sched_vars
    <3> QED BY <2>1, <3>1 DEF OSIInv, ProgressInv, slot_vars, cpu_vars, sched_vars, config_vars
  <2> QED BY <2>2, <2>3, <2>4, <2>5 DEF OSIInv
<1> QED BY <1>1, <1>2, LdIInv, ClockIInv DEF Next, Terminated

(***************************************************************************)
(* The invariant of os.c, for any number of CPUs and processes, any        *)
(* program lengths, start times and quantum, however the threads run       *)
(* between two ticks of the clock.                                         *)
(***************************************************************************)
THEOREM OSInvariance == Spec => []OSIInv
BY OSInitIInv, OSNextIInv, PTL DEF Spec

(***************************************************************************)
(* Every variable of os.c keeps its range: time_left never goes below      *)
(* zero or above the quantum, the loader's index never passes the number   *)
(* of processes, no program counter passes the end of its code.            *)
(***************************************************************************)
THEOREM OSTypeCorrect == Spec => []TypeOK
<1>1. OSIInv => TypeOK
  BY DEF OSIInv
<1> QED BY <1>1, OSInvariance, PTL

(***************************************************************************)
(* The threads of os.c call sched.c so that no two of them ever hold the   *)
(* same pcb and a removed pcb is never dispatched.                         *)
(***************************************************************************)
THEOREM OSProcessesStayInOnePlace == Spec => []OnePlace
<1>1. OSIInv => OnePlace
  BY DEF OSIInv, SchedIInv
<1> QED BY <1>1, OSInvariance, PTL

(***************************************************************************)
(* A process executes at most one instruction per slot, from its start     *)
(* time on, whichever CPUs it moves between (os.c, cpu_routine), and is    *)
(* removed exactly at the end of its code.                                 *)
(***************************************************************************)
THEOREM ProcessesKeepTheClock == Spec => []OneInstructionPerSlot
<1>1. OSIInv => OneInstructionPerSlot
  BY DEF OSIInv, ProgressInv, OneInstructionPerSlot
<1> QED BY <1>1, OSInvariance, PTL
-----------------------------------------------------------------------------
(* Every process is served                                                 *)

(***************************************************************************)
(* Whatever the threads of os.c do, sched.c sees one of its own operations *)
(* or nothing.                                                             *)
(***************************************************************************)
LEMMA OSStepIsSchedStep ==
  ASSUME OSIInv, [Next]_vars
  PROVE  [SchedNext]_sched_vars
<1>1. ASSUME NEW c \in Cpus, Cpu(c) PROVE [SchedNext]_sched_vars
  BY <1>1 DEF Cpu, CpuGet, CpuRemove, CpuPreempt, CpuKeep, CpuIdle, CpuDispatch, CpuRestore,
              CpuRun, CpuNextSlot, CpuDetach, SchedNext, CpuStep
<1>2. ASSUME Ld PROVE [SchedNext]_sched_vars
  <2>1. CASE LdAdd
    <3>1. Loading \in Procs
      BY <2>1, LoadingIsNext DEF LdAdd, LdAt, OSIInv, LdInv
    <3> QED BY <2>1, <3>1 DEF LdAdd, SchedNext
  <2>2. CASE ~LdAdd
    BY <1>2, <2>2 DEF Ld, LdLoad, LdWait, LdMalloc, LdInitMM, LdSaveMM, LdNextSlot, LdDetach
  <2> QED BY <2>1, <2>2
<1>3. Timer \/ Terminated \/ UNCHANGED vars => UNCHANGED sched_vars
  BY DEF Timer, Terminated, vars
<1> QED BY <1>1, <1>2, <1>3 DEF Next

(***************************************************************************)
(* os.c implements the scheduler's specification: what Scheduler.tla's     *)
(* free-running CPUs are shown never to do, cpu_routine and ld_routine     *)
(* never do.                                                               *)
(***************************************************************************)
THEOREM OSImplementsScheduler == Spec => SchedSpec
<1>1. Init => SchedInit
  BY DEF Init
<1>2. OSIInv /\ [Next]_vars => [SchedNext]_sched_vars
  BY OSStepIsSchedStep
<1> QED BY <1>1, <1>2, OSInvariance, PTL DEF Spec, SchedSpec

(***************************************************************************)
(* A CPU that gets NULL from get_proc has seen every queue empty; a CPU    *)
(* that puts, removes or keeps a process will call get_proc again before   *)
(* it can stop.                                                            *)
(***************************************************************************)
LEMMA CpuServe ==
  ASSUME OSIInv, NEW c \in Cpus, Cpu(c), AllLoaded,
         NonEmpty = {} \/ \E d \in Cpus : ~Leaving(d)
  PROVE  NonEmpty' = {} \/ \E d \in Cpus : ~Leaving(d)'
<1> USE DEF At, Goto, Current
<1>1. CASE CpuGet(c)
  <2>1. PICK p \in Procs \cup {NULL} :
          /\ proc' = [proc EXCEPT ![c] = p]
          /\ p = NULL => NonEmpty = {} /\ mlq_ready_queue' = mlq_ready_queue
    BY <1>1, GetProcEffect DEF CpuGet, OSIInv
  <2>2. CASE p = NULL
    BY <2>1, <2>2 DEF NonEmpty
  <2>3. CASE p # NULL
    <3>1. cpc'[c] = "recheck" /\ proc'[c] = p
      BY <1>1, <2>1, SchedFacts DEF CpuGet, OSIInv, TypeOK
    <3> QED BY <2>3, <3>1 DEF Leaving
  <2> QED BY <2>2, <2>3
<1>2. CASE CpuRemove(c) \/ CpuPreempt(c)
  BY <1>2 DEF CpuRemove, CpuPreempt, cpu_vars, Leaving
<1>3. CASE CpuKeep(c)
  BY <1>3 DEF CpuKeep, Leaving, OSIInv, TypeOK, sched_vars
<1>4. CASE CpuDispatch(c)
  BY <1>4 DEF CpuDispatch, Leaving, OSIInv, TypeOK
<1>5. CASE CpuRestore(c)
  BY <1>5 DEF CpuRestore, Leaving, OSIInv, TypeOK
<1>6. CASE CpuRun(c)
  BY <1>6 DEF CpuRun, Leaving, OSIInv, TypeOK
<1>7. CASE CpuNextSlot(c)
  BY <1>7 DEF CpuNextSlot, Leaving, OSIInv, TypeOK
<1>8. CASE CpuIdle(c) \/ CpuDetach(c)
  <2>1. UNCHANGED sched_vars /\ Leaving(c)
    BY <1>8 DEF CpuIdle, CpuDetach, Leaving
  <2>2. \A d \in Cpus : d # c => cpc'[d] = cpc[d]
    BY <1>8 DEF CpuIdle, CpuDetach, OSIInv, TypeOK
  <2> QED BY <2>1, <2>2 DEF Leaving, NonEmpty, sched_vars
<1> QED BY <1>1, <1>2, <1>3, <1>4, <1>5, <1>6, <1>7, <1>8 DEF Cpu

(***************************************************************************)
(* add_proc of the last process and done = 1 lie in different slots: when  *)
(* the slot after the last add_proc begins, every CPU is at the top of its *)
(* loop.                                                                   *)
(***************************************************************************)
LEMMA SlotServe ==
  ASSUME OSIInv, Timer, ~AllLoaded, AllLoaded'
  PROVE  \E d \in Cpus : ~Leaving(d)'
<1>1. PICK d \in Cpus : TRUE
  BY OSAssumption
<1>2. /\ UNCHANGED <<cpc, ld_vars, active>>
      /\ working = {} \/ working' = working
  BY DEF Timer, Tick, Halt
<1>3. lpc = "load" /\ working = {}
  BY <1>2 DEF AllLoaded, ld_vars
<1>4. cpc[d] \notin {"detach", "stopped"}
  BY <1>3 DEF OSIInv, CpuInv, LdInv
<1>5. cpc[d] = "top"
  BY <1>3, <1>4 DEF OSIInv, ThreadInv
<1> QED BY <1>2, <1>5 DEF Leaving

LEMMA StepServe ==
  ASSUME NumProcs <= QueueCap, OSIInv, ServeInv, [Next]_vars
  PROVE  ServeInv'
<1>1. NotLost'
  BY OSStepIsSchedStep, StepNotLost, OSAssumption DEF OSIInv, ServeInv, NumProcs
<1>2. ASSUME AllLoaded' PROVE NonEmpty' = {} \/ \E d \in Cpus : ~Leaving(d)'
  <2>1. CASE \E c \in Cpus : Cpu(c)
    <3>1. PICK c \in Cpus : Cpu(c)
      BY <2>1
    <3>2. UNCHANGED <<lpc, i>> /\ working' \subseteq working
      BY <3>1 DEF Cpu, CpuGet, CpuRemove, CpuPreempt, CpuKeep, CpuIdle, CpuDispatch,
                  CpuRestore, CpuRun, CpuNextSlot, CpuDetach, ld_vars, slot_vars, EndSlot, Leave
    <3>3. AllLoaded
      BY <1>2, <3>2 DEF AllLoaded
    <3> QED BY <3>1, <3>3, CpuServe DEF ServeInv
  <2>2. CASE Ld
    <3>1. AllLoaded /\ UNCHANGED <<sched_vars, cpu_vars>>
      BY <1>2, <2>2 DEF Ld, LdLoad, LdWait, LdMalloc, LdInitMM, LdSaveMM, LdAdd, LdNextSlot,
                        LdDetach, LdAt, AllLoaded, slot_vars, EndSlot, OSIInv, LdInv, NumProcs
    <3> QED BY <3>1 DEF ServeInv, Leaving, NonEmpty, sched_vars, cpu_vars
  <2>3. CASE UNCHANGED <<sched_vars, cpc>> /\ AllLoaded
    BY <2>3 DEF ServeInv, Leaving, NonEmpty, sched_vars
  <2>4. CASE Timer
    <3>1. UNCHANGED <<sched_vars, cpc>>
      BY <2>4 DEF Timer
    <3> QED BY <1>2, <2>3, <2>4, <3>1, SlotServe
  <2>5. CASE UNCHANGED vars
    BY <1>2, <2>3, <2>5 DEF vars, cpu_vars, ld_vars, slot_vars, AllLoaded
  <2> QED BY <2>1, <2>2, <2>4, <2>5 DEF Next, Terminated
<1> QED BY <1>1, <1>2 DEF ServeInv

(***************************************************************************)
(* When the last thread has detached nothing waits and nobody holds a      *)
(* process, so everything that was loaded has finished.                    *)
(***************************************************************************)
LEMMA ServedAtTheEnd ==
  ASSUME OSIInv, ServeInv, active = {}
  PROVE  finished = Procs
<1>1. \A c \in Cpus : cpc[c] = "stopped" /\ proc[c] = NULL
  BY DEF OSIInv, ThreadInv, CpuInv
<1>2. lpc = "stopped" /\ i = NumProcs /\ loaded = 1 .. NumProcs
  BY DEF OSIInv, ThreadInv, LdInv
<1>3. loaded = Procs
  BY <1>2, OSAssumption DEF NumProcs
<1>4. NonEmpty = {}
  BY <1>1, <1>2 DEF ServeInv, AllLoaded, Leaving
<1>5. \A p \in Procs : ~Held(p)
  BY <1>1, SchedAssumption DEF Held
<1>6. \A p \in Procs : ~Ready(p)
  BY <1>4 DEF Ready, NonEmpty, Contains
<1> QED BY <1>3, <1>5, <1>6, SchedFacts DEF ServeInv, NotLost, OSIInv

(***************************************************************************)
(* cpu_routine reads "no process" and "done" in two steps that nothing     *)
(* makes atomic; nevertheless, with at most MAX_QUEUE_SIZE processes, no   *)
(* process is left unfinished when the last thread has detached.           *)
(***************************************************************************)
THEOREM EveryProcessIsServed ==
  ASSUME NumProcs <= QueueCap
  PROVE  Spec => []AllServed
<1>1. Init => ServeInv
  BY DEF Init, SchedInit, ServeInv, NotLost, NonEmpty
<1>2. OSIInv /\ ServeInv /\ [Next]_vars => ServeInv'
  BY StepServe
<1>3. OSIInv /\ ServeInv => AllServed
  BY ServedAtTheEnd DEF AllServed
<1> QED BY <1>1, <1>2, <1>3, OSInvariance, PTL DEF Spec
-----------------------------------------------------------------------------
(* The process a CPU runs is in running_list                               *)

(***************************************************************************)
(* get_proc enters a process into running_list at every dispatch and       *)
(* remove_proc takes one entry out, so a process of k quanta leaves k - 1  *)
(* entries behind when it finishes.  The list is long enough for programs  *)
(* of at most K quanta if K - 1 entries of all processes but one, and one  *)
(* more for each CPU, fit in.                                              *)
(***************************************************************************)
ListSuffices(K) ==
  /\ K \in Nat \ {0}
  /\ \A n \in CodeSizes : n <= K * TimeSlot
  /\ IsFiniteSet(Cpus)
  /\ (NumProcs - 1) * (K - 1) + Cardinality(Cpus) <= QueueCap

\* What is left of the quantum, which is refilled after get_proc.
Credit(c) ==
  IF cpc[c] = "recheck" /\ time_left[c] = 0 THEN TimeSlot ELSE time_left[c]

\* p has been dispatched for its quantum n: while it waits it has executed the
\* instructions of that quantum, on a CPU it has the credit to do so.  It was
\* the last quantum K - 1 only if p is still on a CPU.
Charged(K, p, n) ==
  /\ p \in loaded
  /\ n = K - 1 => Held(p)
  /\ Ready(p) => (n + 1) * TimeSlot <= pc[p]
  /\ \A c \in Cpus : proc[c] = p =>
       HasFinished(p) \/ (n + 1) * TimeSlot <= pc[p] + Credit(c)

\* m tells the entries of a process apart by the quantum of their dispatch.
Stamped(K, m) ==
  /\ m \in [1 .. Len(running_list) -> 0 .. K - 1]
  /\ \A j, k \in 1 .. Len(running_list) :
       j < k /\ running_list[j] = running_list[k] => m[j] < m[k]
  /\ \A j \in 1 .. Len(running_list) : Charged(K, running_list[j], m[j])

QuantumInv ==
  /\ \A c \in Cpus : proc[c] = NULL => time_left[c] = 0
  /\ \A p \in Procs : Ready(p) => pc[p] < code_size[p] \/ pc[p] = 0

ListInv(K) == QuantumInv /\ DispatchedIsListed /\ \E m : Stamped(K, m)

(***************************************************************************)
(* A program counter lies in exactly one quantum.                          *)
(***************************************************************************)
LEMMA QuantumOf ==
  ASSUME NEW x \in Nat, NEW t \in Nat, t > 0
  PROVE  \E r \in Nat : r * t <= x /\ x < (r + 1) * t
<1> DEFINE T == {n \in Nat : x < (n + 1) * t}
<1>1. x < (x + 1) * t
  OBVIOUS
<1>2. T \subseteq Nat /\ T # {}
  BY <1>1
<1>3. Min(T) \in T /\ \A y \in T : Min(T) <= y
  <2> HIDE DEF T
  <2> QED BY <1>2, MinIsLeast
<1>4. PICK r \in Nat : r = Min(T)
  BY <1>3
<1>5. x < (r + 1) * t
  BY <1>3, <1>4
<1>6. r * t <= x
  <2>1. CASE r = 0
    BY <2>1
  <2>2. CASE r # 0
    <3>1. r - 1 \in Nat /\ (r - 1) + 1 = r
      BY <2>2
    <3>2. r - 1 \notin T
      BY <1>3, <1>4, <3>1
    <3>3. ~(x < r * t)
      BY <3>1, <3>2
    <3>4. r * t \in Nat
      OBVIOUS
    <3> QED BY <3>3, <3>4
  <2> QED BY <2>1, <2>2
<1> QED BY <1>5, <1>6

(***************************************************************************)
(* The bounds of the quanta are ordered as their numbers.                  *)
(***************************************************************************)
LEMMA QuantaOrdered ==
  ASSUME NEW a \in Nat, NEW b \in Nat, NEW t \in Nat, a <= b
  PROVE  a * t <= b * t
<1>1. PICK d \in Nat : b = a + d
  <2>1. b - a \in Nat /\ b = a + (b - a)
    OBVIOUS
  <2> QED BY <2>1
<1>2. b * t = a * t + d * t
  BY <1>1
<1>3. a * t \in Nat /\ d * t \in Nat
  OBVIOUS
<1> QED BY <1>2, <1>3

(***************************************************************************)
(* A step that leaves running_list alone and dispatches nothing keeps the  *)
(* stamps if it keeps every dispatch charged.                              *)
(***************************************************************************)
LEMMA ListKept ==
  ASSUME NEW K, OSIInv, ListInv(K), running_list' = running_list, QuantumInv',
         \A c \in Cpus : proc'[c] = proc[c] \/ proc'[c] = NULL,
         \A p \in Procs, n \in 0 .. K - 1 : Charged(K, p, n) => Charged(K, p, n)'
  PROVE  ListInv(K)'
<1>1. PICK m : Stamped(K, m)
  BY DEF ListInv
<1>2. running_list \in Seq(Procs)
  BY DEF OSIInv, SchedIInv, SchedTypeOK
<1>3. \A j \in 1 .. Len(running_list) : running_list[j] \in Procs /\ m[j] \in 0 .. K - 1
  BY <1>1, <1>2 DEF Stamped
<1>4. \A j \in 1 .. Len(running_list) : Charged(K, running_list[j], m[j])'
  <2> SUFFICES ASSUME NEW j \in 1 .. Len(running_list)
               PROVE  Charged(K, running_list[j], m[j])'
    OBVIOUS
  <2>1. PICK p \in Procs : p = running_list[j]
    BY <1>3
  <2>2. Charged(K, p, m[j])
    BY <1>1, <2>1 DEF Stamped
  <2>3. Charged(K, p, m[j])'
    BY <1>3, <2>2
  <2> QED BY <2>1, <2>3
<1>5. Stamped(K, m)'
  BY <1>1, <1>4 DEF Stamped
<1>6. DispatchedIsListed'
  BY DEF ListInv, DispatchedIsListed, Contains
<1> QED BY <1>5, <1>6 DEF ListInv

(***************************************************************************)
(* The steps that move neither processes nor program counters.             *)
(***************************************************************************)
LEMMA QuietKeepsList ==
  ASSUME NEW K, OSIInv, ListInv(K),
         UNCHANGED <<mlq_ready_queue, running_list, proc, loaded, pc, code_size>>,
         \A c \in Cpus : IF proc[c] = NULL THEN time_left'[c] = time_left[c]
                                           ELSE Credit(c)' = Credit(c)
  PROVE  ListInv(K)'
<1>1. QuantumInv'
  BY DEF ListInv, QuantumInv, Ready
<1>2. ASSUME NEW p \in Procs, NEW n \in 0 .. K - 1, Charged(K, p, n)
      PROVE  Charged(K, p, n)'
  <2>1. p # NULL
    BY Config
  <2>2. \A c \in Cpus : proc[c] = p => Credit(c)' = Credit(c)
    BY <2>1
  <2>3. (Ready(p)' <=> Ready(p)) /\ (Held(p)' <=> Held(p)) /\ (HasFinished(p)' <=> HasFinished(p))
    BY DEF Ready, Held, HasFinished
  <2> QED BY <1>2, <2>2, <2>3 DEF Charged
<1> QED BY <1>1, <1>2, ListKept

(***************************************************************************)
(* run() spends one instruction of the credit.                             *)
(***************************************************************************)
LEMMA RunKeepsList ==
  ASSUME NEW K, OSIInv, ListInv(K), NEW c \in Cpus, CpuRun(c)
  PROVE  ListInv(K)'
<1>0. PICK p \in Procs : p = proc[c]
  BY SchedFacts DEF CpuRun, At, OSIInv, CpuInv
<1>1. /\ UNCHANGED <<mlq_ready_queue, running_list, proc, loaded, code_size>>
      /\ cpc[c] = "run" /\ cpc' = [cpc EXCEPT ![c] = "slot"]
      /\ pc' = [pc EXCEPT ![p] = IF @ >= code_size[p] THEN @ ELSE @ + 1]
      /\ time_left' = [time_left EXCEPT ![c] = @ - 1]
  BY <1>0, RunEffect DEF CpuRun, At, Goto, sched_vars, config_vars
<1>2. /\ p # NULL /\ ~Ready(p) /\ time_left[c] \in Nat
      /\ \A d \in Cpus : proc[d] = p => d = c
      /\ pc[p] \in Nat /\ code_size[p] \in Nat /\ pc[p] <= code_size[p]
  <2>1. ~Ready(p)
    BY <1>0 DEF Ready, Contains, Held, OSIInv, SchedIInv, OnePlace
  <2>2. pc[p] \in Nat /\ code_size[p] \in Nat /\ pc[p] <= code_size[p] /\ time_left[c] \in Nat
    BY Config DEF OSIInv, TypeOK
  <2> QED BY <1>0, <2>1, <2>2, Config, SchedFacts DEF OSIInv
<1>3. /\ \A d \in Cpus : d # c => time_left'[d] = time_left[d] /\ Credit(d)' = Credit(d)
      /\ Credit(c) = time_left[c] /\ Credit(c)' = time_left[c] - 1
  BY <1>1 DEF Credit, OSIInv, TypeOK
<1>4. \A q \in Procs : q # p => pc'[q] = pc[q]
  BY <1>1 DEF OSIInv, TypeOK
<1>5. pc'[p] = IF pc[p] >= code_size[p] THEN pc[p] ELSE pc[p] + 1
  BY <1>1 DEF OSIInv, TypeOK
<1>6. \A q \in Procs : (Ready(q)' <=> Ready(q)) /\ (Held(q)' <=> Held(q))
  BY <1>1 DEF Ready, Held
<1>7. QuantumInv'
  BY <1>0, <1>1, <1>2, <1>3, <1>4, <1>6 DEF ListInv, QuantumInv
<1>8. ASSUME NEW q \in Procs, NEW n \in 0 .. K - 1, Charged(K, q, n)
      PROVE  Charged(K, q, n)'
  <2>1. CASE q # p
    <3>1. \A d \in Cpus : proc[d] = q => Credit(d)' = Credit(d)
      BY <1>0, <1>3, <2>1
    <3>2. pc'[q] = pc[q] /\ (HasFinished(q)' <=> HasFinished(q))
      BY <1>1, <1>4, <2>1 DEF HasFinished
    <3> QED BY <1>1, <1>6, <1>8, <3>1, <3>2 DEF Charged
  <2>2. CASE q = p
    <3>1. HasFinished(p) \/ (n + 1) * TimeSlot <= pc[p] + time_left[c]
      BY <1>0, <1>3, <1>8, <2>2 DEF Charged
    <3>2. PICK D : D = (n + 1) * TimeSlot
      OBVIOUS
    <3>3. HasFinished(p)' \/ D <= pc'[p] + (time_left[c] - 1)
      <4>1. pc[p] = code_size[p] \/ D <= pc[p] + time_left[c]
        BY <3>1, <3>2 DEF HasFinished
      <4>2. pc'[p] = code_size[p] \/ D <= pc'[p] + (time_left[c] - 1)
        BY <1>2, <1>5, <4>1
      <4> QED BY <1>1, <4>2 DEF HasFinished
    <3> QED BY <1>1, <1>2, <1>3, <1>6, <1>8, <2>2, <3>2, <3>3 DEF Charged
  <2> QED BY <2>1, <2>2
<1> QED BY <1>1, <1>7, <1>8, ListKept

(***************************************************************************)
(* put_proc, at the end of a quantum: every dispatch of the process has    *)
(* been used up, and none of them was for its last quantum.                *)
(***************************************************************************)
LEMMA PreemptKeepsList ==
  ASSUME NEW K, ListSuffices(K), OSIInv, ListInv(K), NEW c \in Cpus, CpuPreempt(c)
  PROVE  ListInv(K)'
<1>0. PICK p \in Procs : p = proc[c]
  BY SchedFacts DEF CpuPreempt, Current, OSIInv
<1>1. /\ UNCHANGED <<running_list, loaded, pc, code_size, cpc, time_left>>
      /\ cpc[c] = "top" /\ time_left[c] = 0 /\ pc[p] # code_size[p]
      /\ EnqueueReady(p) /\ proc' = [proc EXCEPT ![c] = NULL]
  BY <1>0 DEF CpuPreempt, At, Current, HasFinished, PutProc, cpu_vars, config_vars
<1>2. /\ p # NULL /\ \A d \in Cpus : proc[d] = p => d = c
      /\ pc[p] \in Nat /\ code_size[p] \in Nat /\ pc[p] < code_size[p]
      /\ code_size[p] <= K * TimeSlot /\ K \in Nat /\ K > 0 /\ TimeSlot \in Nat
  <2>1. p # NULL /\ \A d \in Cpus : proc[d] = p => d = c
    BY <1>0, Config, SchedFacts DEF OSIInv
  <2>2. pc[p] \in Nat /\ code_size[p] \in CodeSizes /\ pc[p] <= code_size[p]
    BY DEF OSIInv, TypeOK
  <2>3. code_size[p] \in Nat /\ TimeSlot \in Nat
    BY <2>2, Config
  <2>4. code_size[p] <= K * TimeSlot /\ K \in Nat /\ K > 0
    BY <2>2 DEF ListSuffices
  <2> QED BY <1>1, <2>1, <2>2, <2>3, <2>4
<1>3. \A d \in Cpus : proc'[d] = IF d = c THEN NULL ELSE proc[d]
  BY <1>1, SchedFacts DEF OSIInv
<1>4. \A q \in Procs : Ready(q)' => Ready(q) \/ q = p
  <2>1. \A q \in Prios : \A k \in 1 .. Len(mlq_ready_queue[q]) : mlq_ready_queue[q][k] # p
    BY <1>0 DEF OSIInv, SchedIInv, OnePlace, Held
  <2>2. \A q \in Prios : \A k \in 1 .. Len(mlq_ready_queue'[q]) :
          \/ mlq_ready_queue'[q][k] = p
          \/ /\ k \in 1 .. Len(mlq_ready_queue[q])
             /\ mlq_ready_queue'[q][k] = mlq_ready_queue[q][k]
    BY <1>1, <2>1, EnqueueReadyProperties DEF OSIInv
  <2> QED BY <2>2 DEF Ready, Contains
<1>5. \A d \in Cpus : Credit(d)' = Credit(d)
  BY <1>1 DEF Credit
<1>6. QuantumInv'
  BY <1>1, <1>2, <1>3, <1>4 DEF ListInv, QuantumInv
<1>7. ASSUME NEW q \in Procs, NEW n \in 0 .. K - 1, Charged(K, q, n)
      PROVE  Charged(K, q, n)'
  <2>1. CASE q # p
    <3>1. Held(q) => Held(q)'
      BY <1>0, <1>3, <2>1 DEF Held
    <3>2. \A d \in Cpus : proc'[d] = q => proc[d] = q
      BY <1>3, Config
    <3>3. HasFinished(q)' <=> HasFinished(q)
      BY <1>1 DEF HasFinished
    <3> QED BY <1>1, <1>4, <1>5, <1>7, <2>1, <3>1, <3>2, <3>3 DEF Charged
  <2>2. CASE q = p
    <3>1. Credit(c) = 0
      BY <1>1 DEF Credit
    <3>2. (n + 1) * TimeSlot <= pc[p] + 0
      BY <1>0, <1>1, <1>7, <2>2, <3>1 DEF Charged, HasFinished
    <3>3. (n + 1) * TimeSlot <= pc[p]
      BY <1>2, <3>2
    <3>4. n # K - 1
      <4>1. SUFFICES ASSUME n = K - 1 PROVE FALSE
        OBVIOUS
      <4>2. n + 1 = K
        BY <1>2, <4>1
      <4>3. K * TimeSlot <= pc[p] /\ K * TimeSlot \in Nat
        BY <1>2, <3>3, <4>2
      <4> QED BY <1>2, <4>3
    <3>5. \A d \in Cpus : proc'[d] # p
      BY <1>2, <1>3
    <3> QED BY <1>1, <1>7, <2>2, <3>3, <3>4, <3>5 DEF Charged
  <2> QED BY <2>1, <2>2
<1>8. \A d \in Cpus : proc'[d] = proc[d] \/ proc'[d] = NULL
  BY <1>3
<1> QED BY <1>1, <1>6, <1>7, <1>8, ListKept

(***************************************************************************)
(* add_proc: a process that was not loaded has never been dispatched.      *)
(***************************************************************************)
LEMMA AddKeepsList ==
  ASSUME NEW K, OSIInv, ListInv(K), LdAdd
  PROVE  ListInv(K)'
<1>1. PICK p \in Procs : p = Loading /\ p \notin loaded
  BY LoadingIsNext DEF LdAdd, LdAt, OSIInv, LdInv
<1>2. /\ UNCHANGED <<running_list, proc, pc, code_size, cpc, time_left>>
      /\ EnqueueReady(p) /\ loaded' = loaded \cup {p}
  BY <1>1 DEF LdAdd, AddProc, cpu_vars, config_vars
<1>3. \A q \in Procs : Ready(q)' => Ready(q) \/ q = p
  <2>1. \A q \in Prios : \A k \in 1 .. Len(mlq_ready_queue[q]) : mlq_ready_queue[q][k] # p
    BY <1>1 DEF OSIInv, SchedIInv, OnePlace
  <2>2. \A q \in Prios : \A k \in 1 .. Len(mlq_ready_queue'[q]) :
          \/ mlq_ready_queue'[q][k] = p
          \/ /\ k \in 1 .. Len(mlq_ready_queue[q])
             /\ mlq_ready_queue'[q][k] = mlq_ready_queue[q][k]
    BY <1>2, <2>1, EnqueueReadyProperties DEF OSIInv
  <2> QED BY <2>2 DEF Ready, Contains
<1>4. pc[p] = 0
  BY <1>1 DEF OSIInv, ProgressInv
<1>5. QuantumInv'
  BY <1>2, <1>3, <1>4 DEF ListInv, QuantumInv
<1>6. ASSUME NEW q \in Procs, NEW n \in 0 .. K - 1, Charged(K, q, n)
      PROVE  Charged(K, q, n)'
  <2>1. q \in loaded /\ q # p
    BY <1>1, <1>6 DEF Charged
  <2>2. \A d \in Cpus : Credit(d)' = Credit(d)
    BY <1>2 DEF Credit
  <2>3. (Held(q)' <=> Held(q)) /\ (HasFinished(q)' <=> HasFinished(q))
    BY <1>2 DEF Held, HasFinished
  <2> QED BY <1>2, <1>3, <1>6, <2>1, <2>2, <2>3 DEF Charged
<1> QED BY <1>2, <1>5, <1>6, ListKept

(***************************************************************************)
(* The list has room for a process that is not in it yet: its entries are  *)
(* told apart by process and quantum, and the last quantum belongs to the  *)
(* processes on the other CPUs.                                            *)
(***************************************************************************)
LEMMA RoomForNewcomer ==
  ASSUME NEW K, NEW m, ListSuffices(K), OSIInv, Stamped(K, m),
         NEW c \in Cpus, proc[c] = NULL,
         NEW p \in Procs, ~Contains(running_list, p)
  PROVE  Len(running_list) < QueueCap
<1> DEFINE P == Procs \ {p}
           H == {proc[d] : d \in Cpus \ {c}}
           s == running_list
<1>1. s \in Seq(Procs) /\ \A j \in 1 .. Len(s) : s[j] \in Procs
  BY DEF OSIInv, SchedIInv, SchedTypeOK
<1>2. Len(s) \in Nat /\ \A j \in 1 .. Len(s) : s[j] # p
  BY <1>1 DEF Contains
<1>3. s \in Seq(P)
  BY <1>1, <1>2
<1>4. K \in Nat /\ K > 0 /\ K - 1 \in Nat
  BY DEF ListSuffices
<1>5. m \in [1 .. Len(s) -> Nat] /\ \A j \in 1 .. Len(s) : m[j] \in 0 .. K - 1
  BY <1>4 DEF Stamped
<1>6. ASSUME NEW j \in 1 .. Len(s) PROVE m[j] < K - 1 \/ (m[j] = K - 1 /\ s[j] \in H)
  <2>1. m[j] = K - 1 => Held(s[j])
    BY DEF Stamped, Charged
  <2>2. Held(s[j]) => s[j] \in H
    <3>1. s[j] # NULL
      BY <1>1, Config
    <3> QED BY <3>1 DEF Held
  <2> QED BY <1>4, <1>5, <2>1, <2>2
<1>7. ASSUME NEW j \in 1 .. Len(s), NEW k \in 1 .. Len(s), s[j] = s[k], m[j] = m[k]
      PROVE  j = k
  <2>1. ~(j < k) /\ ~(k < j)
    BY <1>5, <1>7 DEF Stamped
  <2> QED BY <1>2, <2>1
<1>8. /\ IsFiniteSet(P) /\ Cardinality(P) = NumProcs - 1
  BY FS_RemoveElement, OSAssumption DEF NumProcs
<1>9. /\ IsFiniteSet(Cpus \ {c}) /\ Cardinality(Cpus \ {c}) = Cardinality(Cpus) - 1
  BY FS_RemoveElement DEF ListSuffices
<1>10. IsFiniteSet(H) /\ Cardinality(H) <= Cardinality(Cpus \ {c})
  <2> DEFINE f == [d \in Cpus \ {c} |-> proc[d]]
  <2>1. f \in Surjection(Cpus \ {c}, H)
    BY DEF Surjection
  <2> HIDE DEF f, H
  <2> QED BY <1>9, <2>1, FS_Surjection
<1>11. Len(s) <= Cardinality(P) * (K - 1) + Cardinality(H)
  <2> HIDE DEF P, H, s
  <2> QED BY <1>3, <1>4, <1>5, <1>6, <1>7, <1>8, <1>10, RoundsBoundLength
<1>12. Cardinality(H) \in Nat /\ Cardinality(Cpus) \in Nat /\ QueueCap \in Nat
  BY <1>10, FS_CardinalityType, SchedAssumption DEF ListSuffices
<1>13. PICK R \in Int : R = (NumProcs - 1) * (K - 1)
  BY <1>4, Config
<1>14. R + Cardinality(Cpus) <= QueueCap
  BY <1>13 DEF ListSuffices
<1>15. Len(s) <= R + Cardinality(H)
  BY <1>8, <1>11, <1>13
<1> HIDE DEF P, H, s
<1>16. Len(s) < QueueCap
  BY <1>2, <1>9, <1>10, <1>12, <1>14, <1>15
<1> QED BY <1>16 DEF s

(***************************************************************************)
(* get_proc of a waiting process: its new entry is stamped with the        *)
(* quantum its program counter is in, which is later than those of all its *)
(* earlier entries.  If the list is full the process is in it already.     *)
(***************************************************************************)
LEMMA TakeKeepsList ==
  ASSUME NEW K, ListSuffices(K), OSIInv, ListInv(K), NEW c \in Cpus, CpuGet(c),
         NEW q \in Candidates, Take(c, q)
  PROVE  ListInv(K)'
<1>1. PICK p \in Procs : p = Head(mlq_ready_queue[q]) /\ Ready(p) /\ ~Held(p) /\ p \in loaded
  <2>1. q \in Prios /\ mlq_ready_queue[q] # << >> /\ mlq_ready_queue[q] \in Seq(Procs)
    BY DEF Candidates, Eligible, NonEmpty, OSIInv, SchedIInv, SchedTypeOK
  <2>2. /\ Head(mlq_ready_queue[q]) = mlq_ready_queue[q][1]
        /\ Head(mlq_ready_queue[q]) \in Procs
        /\ 1 \in 1 .. Len(mlq_ready_queue[q])
    BY <2>1, TailProperties
  <2>3. Ready(mlq_ready_queue[q][1])
    BY <2>1, <2>2 DEF Ready, Contains
  <2>4. ~Held(mlq_ready_queue[q][1]) /\ mlq_ready_queue[q][1] \in loaded
    BY <2>1, <2>2 DEF OSIInv, SchedIInv, OnePlace
  <2> QED BY <2>2, <2>3, <2>4
<1>2. /\ UNCHANGED <<loaded, pc, code_size, time_left>>
      /\ proc[c] = NULL /\ proc' = [proc EXCEPT ![c] = p]
      /\ cpc' = [cpc EXCEPT ![c] = "recheck"]
      /\ mlq_ready_queue' = [mlq_ready_queue EXCEPT ![q] = Tail(@)]
      /\ running_list' = Enqueue(running_list, p)
  BY <1>1 DEF CpuGet, GetProc, Take, Goto, config_vars
<1>3. /\ p # NULL /\ K \in Nat /\ K > 0 /\ TimeSlot \in Nat /\ TimeSlot > 0
      /\ pc[p] \in Nat /\ code_size[p] \in Nat /\ code_size[p] <= K * TimeSlot
  BY Config DEF OSIInv, TypeOK, ListSuffices
<1>4. \A d \in Cpus : proc'[d] = IF d = c THEN p ELSE proc[d]
  BY <1>2, SchedFacts DEF OSIInv
<1>5. /\ \A d \in Cpus : d # c => Credit(d)' = Credit(d)
      /\ Credit(c)' = TimeSlot
  BY <1>2 DEF Credit, OSIInv, TypeOK, ListInv, QuantumInv
<1>6. \A x \in Procs : Ready(x)' => Ready(x) /\ x # p
  <2>1. SchedIInv'
    BY GetProcIInv DEF CpuGet, OSIInv
  <2>2. Held(p)'
    BY <1>4 DEF Held
  <2>3. ~Ready(p)'
    BY <2>1, <2>2 DEF SchedIInv, OnePlace, Ready, Contains
  <2>4. q \in Prios /\ mlq_ready_queue[q] # << >> /\ mlq_ready_queue[q] \in Seq(Procs)
        /\ mlq_ready_queue \in [Prios -> Seq(Procs)]
    BY DEF Candidates, Eligible, NonEmpty, OSIInv, SchedIInv, SchedTypeOK
  <2>5. ASSUME NEW r \in Prios, NEW k \in 1 .. Len(mlq_ready_queue'[r])
        PROVE  \E j \in 1 .. Len(mlq_ready_queue[r]) :
                 mlq_ready_queue'[r][k] = mlq_ready_queue[r][j]
    <3>1. CASE r # q
      <4>1. mlq_ready_queue'[r] = mlq_ready_queue[r]
        BY <1>2, <2>4, <3>1
      <4> QED BY <2>5, <4>1
    <3>2. CASE r = q
      <4>1. mlq_ready_queue'[r] = Tail(mlq_ready_queue[q])
        BY <1>2, <2>4, <3>2
      <4>2. /\ k \in 1 .. Len(mlq_ready_queue[q]) - 1
            /\ Tail(mlq_ready_queue[q])[k] = mlq_ready_queue[q][k + 1]
            /\ Len(mlq_ready_queue[q]) \in Nat
        BY <2>4, <2>5, <4>1, TailProperties
      <4> QED BY <3>2, <4>1, <4>2
    <3> QED BY <3>1, <3>2
  <2> QED BY <2>3, <2>5 DEF Ready, Contains
<1>7. QuantumInv'
  BY <1>2, <1>3, <1>4, <1>6 DEF ListInv, QuantumInv
<1>8. PICK r \in Nat : r * TimeSlot <= pc[p] /\ pc[p] < (r + 1) * TimeSlot
  BY <1>3, QuantumOf
<1>9. r \in 0 .. K - 1
  <2>1. pc[p] < K * TimeSlot
    <3>1. pc[p] < code_size[p] \/ pc[p] = 0
      BY <1>1 DEF ListInv, QuantumInv
    <3>2. K * TimeSlot \in Nat /\ K * TimeSlot > 0
      BY <1>3
    <3> QED BY <1>3, <3>1, <3>2
  <2>2. ASSUME K <= r PROVE FALSE
    <3>1. K * TimeSlot <= r * TimeSlot
      BY <1>3, <2>2, QuantaOrdered
    <3>2. K * TimeSlot \in Nat /\ r * TimeSlot \in Nat
      BY <1>3
    <3> QED BY <1>3, <1>8, <2>1, <3>1, <3>2
  <2> QED BY <1>3, <2>2
<1>10. ASSUME NEW n \in 0 .. K - 1, Charged(K, p, n) PROVE n < r
  <2>1. (n + 1) * TimeSlot <= pc[p]
    BY <1>1, <1>10 DEF Charged
  <2>2. ASSUME r <= n PROVE FALSE
    <3>1. (r + 1) * TimeSlot <= (n + 1) * TimeSlot
      <4>1. r + 1 \in Nat /\ n + 1 \in Nat /\ r + 1 <= n + 1
        BY <1>3, <2>2
      <4> QED BY <1>3, <4>1, QuantaOrdered
    <3>2. (r + 1) * TimeSlot \in Nat /\ (n + 1) * TimeSlot \in Nat
      BY <1>3
    <3> QED BY <1>3, <1>8, <2>1, <3>1, <3>2
  <2> QED BY <1>3, <2>2
<1>11. Charged(K, p, r)'
  <2>1. (r + 1) * TimeSlot <= pc[p] + TimeSlot
    <3>1. (r + 1) * TimeSlot = r * TimeSlot + TimeSlot /\ r * TimeSlot \in Nat
      BY <1>3
    <3> QED BY <1>3, <1>8, <3>1
  <2>2. \A d \in Cpus : proc'[d] = p => d = c
    BY <1>1, <1>4 DEF Held
  <2>3. Held(p)'
    BY <1>4 DEF Held
  <2> QED BY <1>1, <1>2, <1>5, <1>6, <2>1, <2>2, <2>3 DEF Charged
<1>12. ASSUME NEW x \in Procs, NEW n \in 0 .. K - 1, Charged(K, x, n)
       PROVE  Charged(K, x, n)'
  <2>1. HasFinished(x)' <=> HasFinished(x)
    BY <1>2 DEF HasFinished
  <2>2. Held(x) => Held(x)'
    BY <1>2, <1>4, Config DEF Held
  <2>3. CASE x # p
    BY <1>2, <1>4, <1>5, <1>6, <1>12, <2>1, <2>2, <2>3 DEF Charged
  <2>4. CASE x = p
    <3>1. (n + 1) * TimeSlot <= pc[p]
      BY <1>1, <1>12, <2>4 DEF Charged
    <3>2. (n + 1) * TimeSlot <= pc[p] + TimeSlot
      <4>1. (n + 1) * TimeSlot \in Nat
        BY <1>3
      <4> QED BY <1>3, <3>1, <4>1
    <3>3. \A d \in Cpus : proc'[d] = p => d = c
      BY <1>1, <1>4 DEF Held
    <3>4. Held(p)'
      BY <1>4 DEF Held
    <3> QED BY <1>1, <1>2, <1>5, <1>6, <2>4, <3>2, <3>3, <3>4 DEF Charged
  <2> QED BY <2>3, <2>4
<1>13. PICK m : Stamped(K, m)
  BY DEF ListInv
<1>14. running_list \in Seq(Procs) /\ Len(running_list) <= QueueCap /\ Len(running_list) \in Nat
  BY DEF OSIInv, SchedIInv, SchedTypeOK
<1>15. /\ running_list' \in Seq(Procs)
       /\ Len(running_list') \in {Len(running_list), Len(running_list) + 1}
       /\ \A j \in 1 .. Len(running_list) : running_list'[j] = running_list[j]
       /\ Len(running_list') = Len(running_list) + 1 => running_list'[Len(running_list) + 1] = p
  BY <1>2, <1>14, EnqueueProperties
<1>16. PICK M : M = [j \in 1 .. Len(running_list') |-> IF j <= Len(running_list) THEN m[j] ELSE r]
  OBVIOUS
<1>17. /\ \A j \in 1 .. Len(running_list) : running_list[j] \in Procs /\ m[j] \in 0 .. K - 1
       /\ \A j \in 1 .. Len(running_list) : j \in 1 .. Len(running_list') /\ M[j] = m[j]
       /\ Len(running_list') = Len(running_list) + 1 =>
            M[Len(running_list) + 1] = r
       /\ \A j \in 1 .. Len(running_list') :
            \/ j \in 1 .. Len(running_list)
            \/ j = Len(running_list) + 1 /\ Len(running_list') = Len(running_list) + 1
  <2>1. \A j \in 1 .. Len(running_list) : running_list[j] \in Procs /\ m[j] \in 0 .. K - 1
    BY <1>13, <1>14 DEF Stamped
  <2>2. \A j \in 1 .. Len(running_list) : j \in 1 .. Len(running_list') /\ M[j] = m[j]
    BY <1>14, <1>15, <1>16
  <2>3. Len(running_list') = Len(running_list) + 1 => M[Len(running_list) + 1] = r
    BY <1>14, <1>16
  <2>4. \A j \in 1 .. Len(running_list') :
          \/ j \in 1 .. Len(running_list)
          \/ j = Len(running_list) + 1 /\ Len(running_list') = Len(running_list) + 1
    BY <1>14, <1>15
  <2> QED BY <2>1, <2>2, <2>3, <2>4
<1>18. M \in [1 .. Len(running_list') -> 0 .. K - 1]
  BY <1>9, <1>14, <1>15, <1>17, <1>16
<1>19. \A j, k \in 1 .. Len(running_list') :
         j < k /\ running_list'[j] = running_list'[k] => M[j] < M[k]
  <2> SUFFICES ASSUME NEW j \in 1 .. Len(running_list'), NEW k \in 1 .. Len(running_list'),
                      j < k, running_list'[j] = running_list'[k]
               PROVE  M[j] < M[k]
    OBVIOUS
  <2>1. j \in 1 .. Len(running_list)
    BY <1>14, <1>15, <1>17
  <2>2. CASE k \in 1 .. Len(running_list)
    BY <1>13, <1>15, <1>17, <2>1, <2>2 DEF Stamped
  <2>3. CASE k \notin 1 .. Len(running_list)
    <3>1. running_list[j] = p /\ M[k] = r /\ M[j] = m[j]
      BY <1>15, <1>17, <2>1, <2>3
    <3>2. Charged(K, p, m[j])
      BY <1>13, <2>1, <3>1 DEF Stamped
    <3> QED BY <1>10, <1>17, <2>1, <3>1, <3>2
  <2> QED BY <2>2, <2>3
<1>20. ASSUME NEW j \in 1 .. Len(running_list') PROVE Charged(K, running_list[j], M[j])'
  <2>1. CASE j \in 1 .. Len(running_list)
    <3>1. PICK x \in Procs : x = running_list[j]
      BY <1>17, <2>1
    <3>2. Charged(K, x, m[j])
      BY <1>13, <2>1, <3>1 DEF Stamped
    <3>3. Charged(K, x, m[j])'
      BY <1>12, <1>17, <2>1, <3>2
    <3> QED BY <1>15, <1>17, <2>1, <3>1, <3>3
  <2>2. CASE j \notin 1 .. Len(running_list)
    <3>1. running_list'[j] = p /\ M[j] = r
      BY <1>15, <1>17, <2>2
    <3> QED BY <1>11, <3>1
  <2> QED BY <2>1, <2>2
<1>21. Stamped(K, M)'
  BY <1>18, <1>19, <1>20 DEF Stamped
<1>22. DispatchedIsListed'
  <2>1. \A x : Contains(running_list, x) => Contains(running_list, x)'
    BY <1>15, <1>17 DEF Contains
  <2>2. Contains(running_list, p)'
    <3>1. CASE Contains(running_list, p)
      BY <2>1, <3>1
    <3>2. CASE ~Contains(running_list, p)
      <4>1. Len(running_list) < QueueCap
        BY <1>2, <1>13, <3>2, RoomForNewcomer
      <4>2. running_list' = Append(running_list, p)
        BY <1>2, <1>14, <4>1, SchedAssumption DEF Enqueue
      <4>3. Len(running_list') = Len(running_list) + 1
        BY <1>14, <4>2
      <4> QED BY <1>14, <1>15, <4>3 DEF Contains
    <3> QED BY <3>1, <3>2
  <2> QED BY <1>4, <2>1, <2>2 DEF ListInv, DispatchedIsListed
<1> QED BY <1>7, <1>21, <1>22 DEF ListInv

(***************************************************************************)
(* remove_proc: the first entry of the finished process goes; its other    *)
(* entries, all of later quanta, are renumbered one down, so that none is  *)
(* left of the last quantum.                                               *)
(***************************************************************************)
LEMMA RemoveKeepsList ==
  ASSUME NEW K, ListSuffices(K), OSIInv, ListInv(K), NEW c \in Cpus, CpuRemove(c)
  PROVE  ListInv(K)'
<1>0. PICK p \in Procs : p = proc[c]
  BY SchedFacts DEF CpuRemove, Current, OSIInv
<1>1. /\ UNCHANGED <<mlq_ready_queue, loaded, pc, code_size, cpc>>
      /\ cpc[c] = "top" /\ proc' = [proc EXCEPT ![c] = NULL]
      /\ time_left' = [time_left EXCEPT ![c] = 0]
      /\ running_list' = Purge(running_list, p)
  BY <1>0 DEF CpuRemove, At, RemoveProc, config_vars
<1>2. /\ p # NULL /\ p \in loaded /\ ~Ready(p) /\ K \in Nat /\ K > 0
      /\ \A d \in Cpus : proc[d] = p => d = c
  <2>1. ~Ready(p)
    BY <1>0 DEF Ready, Contains, Held, OSIInv, SchedIInv, OnePlace
  <2> QED BY <1>0, <2>1, Config, SchedFacts DEF OSIInv, ListSuffices
<1>3. \A d \in Cpus : proc'[d] = IF d = c THEN NULL ELSE proc[d]
  BY <1>1, SchedFacts DEF OSIInv
<1>4. \A x \in Procs : (Ready(x)' <=> Ready(x)) /\ (HasFinished(x)' <=> HasFinished(x))
  BY <1>1 DEF Ready, HasFinished
<1>5. QuantumInv'
  BY <1>1, <1>3, <1>4 DEF ListInv, QuantumInv, OSIInv, TypeOK
<1>6. \A n \in 0 .. K - 1 : n # K - 1 => Charged(K, p, n)'
  <2>1. \A d \in Cpus : proc'[d] # p
    BY <1>2, <1>3
  <2> QED BY <1>1, <1>2, <1>4, <2>1 DEF Charged
<1>7. ASSUME NEW x \in Procs, NEW n \in 0 .. K - 1, Charged(K, x, n), x # p
      PROVE  Charged(K, x, n)'
  <2>1. Held(x) => Held(x)'
    BY <1>0, <1>3, <1>7 DEF Held
  <2>2. \A d \in Cpus : proc'[d] = x => proc[d] = x /\ Credit(d)' = Credit(d)
    BY <1>0, <1>1, <1>3, <1>7, Config DEF Credit, OSIInv, TypeOK
  <2> QED BY <1>1, <1>4, <1>7, <2>1, <2>2 DEF Charged
<1>8. PICK m : Stamped(K, m)
  BY DEF ListInv
<1>9. /\ running_list \in Seq(Procs) /\ Len(running_list) \in Nat
      /\ \A j \in 1 .. Len(running_list) : running_list[j] \in Procs /\ m[j] \in 0 .. K - 1
  <2>1. running_list \in Seq(Procs)
    BY DEF OSIInv, SchedIInv, SchedTypeOK
  <2>2. m \in [1 .. Len(running_list) -> 0 .. K - 1]
    BY <1>8 DEF Stamped
  <2> QED BY <2>1, <2>2
<1>10. Contains(running_list, p)
  BY <1>0, <1>2 DEF ListInv, DispatchedIsListed
<1>11. PICK first \in 1 .. Len(running_list) :
         /\ FirstAt(running_list, p, first)
         /\ Purge(running_list, p) = RemoveAt(running_list, first)
  BY <1>9, <1>10, PurgeFirst
<1>12. /\ Len(running_list') = Len(running_list) - 1
       /\ \A j \in 1 .. first - 1 : running_list'[j] = running_list[j]
       /\ \A j \in first .. Len(running_list) - 1 : running_list'[j] = running_list[j + 1]
  BY <1>1, <1>9, <1>11, RemoveAtProperties
\* The position an entry of the new list had in the old one.
<1> DEFINE Old(j) == IF j < first THEN j ELSE j + 1
<1>13. /\ \A j \in 1 .. Len(running_list') :
            /\ Old(j) \in 1 .. Len(running_list)
            /\ running_list'[j] = running_list[Old(j)]
            /\ running_list'[j] = p => first < Old(j)
       /\ \A j, k \in 1 .. Len(running_list') : j < k => Old(j) < Old(k)
       /\ \A j \in 1 .. Len(running_list) : running_list[j] # p =>
            \E k \in 1 .. Len(running_list') : Old(k) = j
  <2>1. ASSUME NEW j \in 1 .. Len(running_list')
        PROVE  /\ Old(j) \in 1 .. Len(running_list)
               /\ running_list'[j] = running_list[Old(j)]
               /\ running_list'[j] = p => first < Old(j)
    <3>1. CASE j < first
      <4>1. j \in 1 .. first - 1 /\ Old(j) = j /\ j \in 1 .. Len(running_list)
        BY <1>9, <1>12, <3>1
      <4> QED BY <1>11, <1>12, <4>1 DEF FirstAt
    <3>2. CASE ~(j < first)
      <4>1. j \in first .. Len(running_list) - 1 /\ Old(j) = j + 1
            /\ j + 1 \in 1 .. Len(running_list) /\ first < j + 1
        BY <1>9, <1>12, <3>2
      <4> QED BY <1>12, <4>1
    <3> QED BY <3>1, <3>2
  <2>2. \A j, k \in 1 .. Len(running_list') : j < k => Old(j) < Old(k)
    BY <1>9, <1>12
  <2>3. ASSUME NEW j \in 1 .. Len(running_list), running_list[j] # p
        PROVE  \E k \in 1 .. Len(running_list') : Old(k) = j
    <3>1. CASE j < first
      BY <1>9, <1>12, <3>1
    <3>2. CASE first < j
      <4>1. j - 1 \in 1 .. Len(running_list') /\ Old(j - 1) = j
        BY <1>9, <1>12, <3>2
      <4> QED BY <4>1
    <3> QED BY <1>9, <1>11, <2>3, <3>1, <3>2 DEF FirstAt
  <2> QED BY <2>1, <2>2, <2>3
<1>14. PICK M : M = [j \in 1 .. Len(running_list') |->
                       IF running_list'[j] = p THEN m[Old(j)] - 1 ELSE m[Old(j)]]
  OBVIOUS
<1> HIDE DEF Old
<1>15. ASSUME NEW j \in 1 .. Len(running_list')
       PROVE  /\ M[j] = IF running_list'[j] = p THEN m[Old(j)] - 1 ELSE m[Old(j)]
              /\ m[Old(j)] \in 0 .. K - 1
              /\ running_list'[j] = p => m[Old(j)] > 0
  <2>1. m[Old(j)] \in 0 .. K - 1 /\ m[first] \in 0 .. K - 1
    BY <1>9, <1>13
  <2>2. running_list'[j] = p => m[first] < m[Old(j)]
    BY <1>8, <1>11, <1>13 DEF Stamped, FirstAt
  <2> QED BY <1>2, <1>14, <2>1, <2>2
<1>16. M \in [1 .. Len(running_list') -> 0 .. K - 1]
  <2>1. \A j \in 1 .. Len(running_list') : M[j] \in 0 .. K - 1
    BY <1>2, <1>15
  <2> QED BY <1>14, <2>1
<1>17. \A j, k \in 1 .. Len(running_list') :
         j < k /\ running_list'[j] = running_list'[k] => M[j] < M[k]
  <2> SUFFICES ASSUME NEW j \in 1 .. Len(running_list'), NEW k \in 1 .. Len(running_list'),
                      j < k, running_list'[j] = running_list'[k]
               PROVE  M[j] < M[k]
    OBVIOUS
  <2>1. m[Old(j)] < m[Old(k)]
    BY <1>8, <1>13 DEF Stamped
  <2> QED BY <1>2, <1>15, <2>1
<1>18. ASSUME NEW j \in 1 .. Len(running_list') PROVE Charged(K, running_list[j], M[j])'
  <2>1. CASE running_list'[j] = p
    <3>1. M[j] \in 0 .. K - 1 /\ M[j] # K - 1
      BY <1>2, <1>15, <2>1
    <3> QED BY <1>6, <2>1, <3>1
  <2>2. CASE running_list'[j] # p
    <3>1. PICK x \in Procs : x = running_list[Old(j)]
      BY <1>9, <1>13
    <3>2. Charged(K, x, m[Old(j)])
      BY <1>8, <1>13, <3>1 DEF Stamped
    <3>3. PICK n \in 0 .. K - 1 : n = m[Old(j)]
      BY <1>15
    <3>4. Charged(K, x, n)'
      BY <1>7, <1>13, <2>2, <3>1, <3>2, <3>3
    <3> QED BY <1>13, <1>15, <2>2, <3>1, <3>3, <3>4
  <2> QED BY <2>1, <2>2
<1>19. Stamped(K, M)'
  BY <1>16, <1>17, <1>18 DEF Stamped
<1>20. DispatchedIsListed'
  <2> SUFFICES ASSUME NEW d \in Cpus, proc'[d] # NULL PROVE Contains(running_list', proc'[d])
    BY DEF DispatchedIsListed
  <2>1. d # c /\ proc'[d] = proc[d] /\ proc[d] # p
    BY <1>2, <1>3
  <2>2. PICK j \in 1 .. Len(running_list) : running_list[j] = proc[d]
    BY <2>1 DEF ListInv, DispatchedIsListed, Contains
  <2>3. PICK k \in 1 .. Len(running_list') : Old(k) = j
    BY <1>13, <2>1, <2>2
  <2> QED BY <1>13, <2>1, <2>2, <2>3 DEF Contains
<1> QED BY <1>5, <1>19, <1>20 DEF ListInv

(***************************************************************************)
(* Every step of the threads and of the clock keeps the stamps.            *)
(***************************************************************************)
LEMMA StepKeepsList ==
  ASSUME NEW K, ListSuffices(K), OSIInv, ListInv(K), [Next]_vars
  PROVE  ListInv(K)'
<1>1. ASSUME NEW c \in Cpus, Cpu(c) PROVE ListInv(K)'
  <2>1. CASE CpuGet(c)
    <3>1. CASE \E q \in Candidates : Take(c, q)
      BY <2>1, <3>1, TakeKeepsList
    <3>2. CASE UNCHANGED <<proc, mlq_ready_queue, slot, running_list>>
      <4>1. /\ proc[c] = NULL /\ UNCHANGED <<loaded, pc, code_size, time_left>>
            /\ cpc' = [cpc EXCEPT ![c] = "recheck"]
        BY <2>1 DEF CpuGet, GetProc, Goto, config_vars
      <4>2. \A d \in Cpus : d # c => Credit(d)' = Credit(d)
        BY <4>1 DEF Credit, OSIInv, TypeOK
      <4> QED BY <3>2, <4>1, <4>2, QuietKeepsList
    <3> QED BY <2>1, <3>1, <3>2 DEF CpuGet, GetProc
  <2>2. CASE CpuKeep(c) \/ CpuIdle(c) \/ CpuRestore(c) \/ CpuNextSlot(c) \/ CpuDetach(c)
    <3>1. UNCHANGED <<mlq_ready_queue, running_list, proc, loaded, pc, code_size, time_left>>
      BY <2>2 DEF CpuKeep, CpuIdle, CpuRestore, CpuNextSlot, CpuDetach, sched_vars, config_vars
    <3>2. /\ \A d \in Cpus : d # c => cpc'[d] = cpc[d]
          /\ \/ proc[c] = NULL
             \/ time_left[c] # 0
             \/ cpc[c] = "slot" /\ cpc'[c] = "top"
      BY <2>2 DEF CpuKeep, CpuIdle, CpuRestore, CpuNextSlot, CpuDetach, At, Goto, Current,
                  OSIInv, TypeOK, CpuInv
    <3>3. \A d \in Cpus : proc[d] # NULL => Credit(d)' = Credit(d)
      BY <3>1, <3>2 DEF Credit
    <3> QED BY <3>1, <3>3, QuietKeepsList
  <2>3. CASE CpuDispatch(c)
    <3>1. UNCHANGED <<mlq_ready_queue, running_list, proc, loaded, pc, code_size>>
      BY <2>3 DEF CpuDispatch, sched_vars, config_vars
    <3>2. /\ \A d \in Cpus : d # c => cpc'[d] = cpc[d] /\ time_left'[d] = time_left[d]
          /\ cpc[c] = "recheck" /\ proc[c] # NULL /\ cpc'[c] = "restore"
          /\ time_left'[c] = IF time_left[c] = 0 THEN TimeSlot ELSE time_left[c]
      BY <2>3 DEF CpuDispatch, At, Goto, Current, OSIInv, TypeOK
    <3>3. \A d \in Cpus : Credit(d)' = Credit(d)
      BY <3>2 DEF Credit
    <3> QED BY <3>1, <3>2, <3>3, QuietKeepsList
  <2> QED BY <1>1, <2>1, <2>2, <2>3, RemoveKeepsList, PreemptKeepsList, RunKeepsList DEF Cpu
<1>2. CASE UNCHANGED <<mlq_ready_queue, running_list, proc, loaded, pc, code_size, cpc, time_left>>
  <2>1. \A d \in Cpus : Credit(d)' = Credit(d)
    BY <1>2 DEF Credit
  <2> QED BY <1>2, <2>1, QuietKeepsList
<1>3. CASE Ld
  <2>1. CASE ~LdAdd
    <3>1. UNCHANGED <<sched_vars, config_vars, cpu_vars>>
      BY <1>3, <2>1 DEF Ld, LdLoad, LdWait, LdMalloc, LdInitMM, LdSaveMM, LdNextSlot, LdDetach
    <3> QED BY <1>2, <3>1 DEF sched_vars, config_vars, cpu_vars
  <2> QED BY <2>1, AddKeepsList
<1>4. CASE Timer \/ UNCHANGED vars
  BY <1>2, <1>4 DEF Timer, vars, sched_vars, config_vars, cpu_vars
<1> QED BY <1>1, <1>3, <1>4 DEF Next, Terminated

(***************************************************************************)
(* The kernel finds the process that makes a system call: while the list   *)
(* is long enough for the configuration (ListSuffices), the process on a   *)
(* CPU is in running_list whatever stale entries its predecessors left     *)
(* there, although enqueue drops what does not fit without a word          *)
(* (sched.c, get_mlq_proc; queue.c, enqueue).                              *)
(***************************************************************************)
THEOREM DispatchedProcessIsListed ==
  ASSUME NEW K, ListSuffices(K)
  PROVE  Spec => []DispatchedIsListed
<1>1. Init => ListInv(K)
  <2> SUFFICES ASSUME Init PROVE ListInv(K)
    OBVIOUS
  <2>1. running_list = << >> /\ Len(running_list) = 0
        /\ (\A c \in Cpus : proc[c] = NULL /\ time_left[c] = 0)
        /\ (\A p \in Procs : pc[p] = 0)
    BY DEF Init, SchedInit
  <2>2. QuantumInv /\ DispatchedIsListed
    BY <2>1 DEF QuantumInv, DispatchedIsListed
  <2>3. Stamped(K, [j \in 1 .. 0 |-> 0])
    BY <2>1 DEF Stamped
  <2> QED BY <2>2, <2>3 DEF ListInv
<1>2. OSIInv /\ ListInv(K) /\ [Next]_vars => ListInv(K)'
  BY StepKeepsList
<1>3. ListInv(K) => DispatchedIsListed
  BY DEF ListInv
<1> QED BY <1>1, <1>2, <1>3, OSInvariance, PTL DEF Spec
=============================================================================
