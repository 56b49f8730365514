-------------------------- MODULE SchedulerProofs --------------------------
(***************************************************************************)
(* Proofs about Scheduler.tla, for any processes, CPUs, number of          *)
(* priorities and queue capacity.                                          *)
(*                                                                         *)
(* OnePlace is almost inductive: it lacks only that a finished process was *)
(* once added, without which add_proc could enqueue a finished one.        *)
(***************************************************************************)
EXTENDS Scheduler, SequenceLemmas, TLAPS

(***************************************************************************)
(* The inductive invariant of sched.c.                                     *)
(***************************************************************************)
SchedIInv == SchedTypeOK /\ OnePlace /\ finished \subseteq loaded

(***************************************************************************)
(* enqueue() keeps a queue within its capacity; the process it adds is     *)
(* the last one, and nothing else moves.                                   *)
(***************************************************************************)
LEMMA EnqueueProperties ==
  ASSUME NEW s \in Seq(Procs), Len(s) <= QueueCap, NEW p \in Procs
  PROVE  /\ Enqueue(s, p) \in Seq(Procs)
         /\ Len(Enqueue(s, p)) <= QueueCap
         /\ Len(Enqueue(s, p)) \in {Len(s), Len(s) + 1}
         /\ \A j \in 1 .. Len(s) : Enqueue(s, p)[j] = s[j]
         /\ Len(Enqueue(s, p)) = Len(s) + 1 => Enqueue(s, p)[Len(s) + 1] = p
<1>1. CASE Len(s) >= QueueCap
  BY <1>1 DEF Enqueue
<1>2. CASE ~(Len(s) >= QueueCap)
  BY <1>2, AppendProperties, SchedAssumption DEF Enqueue
<1> QED BY <1>1, <1>2

(***************************************************************************)
(* purgequeue() never lengthens the list.                                  *)
(***************************************************************************)
LEMMA PurgeProperties ==
  ASSUME NEW s \in Seq(Procs), NEW p \in Procs
  PROVE  Purge(s, p) \in Seq(Procs) /\ Len(Purge(s, p)) <= Len(s)
<1> DEFINE I == {k \in 1 .. Len(s) : s[k] = p}
<1>1. CASE I = {}
  <2>1. ~ \E k \in 1 .. Len(s) : s[k] = p
    BY <1>1
  <2> QED BY <2>1 DEF Purge, RemoveFirst
<1>2. CASE I # {}
  <2>1. \E k \in 1 .. Len(s) : s[k] = p
    BY <1>2
  <2>2. Purge(s, p) = RemoveAt(s, Min(I))
    BY <1>2, <2>1 DEF Purge, RemoveFirst, SelectInSeq
  <2>3. Min(I) \in I
    <3>1. Len(s) \in Nat /\ I \subseteq 1 .. Len(s)
      OBVIOUS
    <3> HIDE DEF I
    <3> QED BY <1>2, <3>1, SearchFinds
  <2>4. Min(I) \in 1 .. Len(s)
    BY <2>3
  <2> QED BY <2>2, <2>4, RemoveAtProperties
<1> QED BY <1>1, <1>2

\* Position k of s is the first occurrence of p.
FirstAt(s, p, k) == s[k] = p /\ \A j \in 1 .. k - 1 : s[j] # p

(***************************************************************************)
(* purgequeue() cuts out the first occurrence of the process and no other. *)
(***************************************************************************)
LEMMA PurgeFirst ==
  ASSUME NEW s \in Seq(Procs), NEW p \in Procs, Contains(s, p)
  PROVE  \E k \in 1 .. Len(s) : FirstAt(s, p, k) /\ Purge(s, p) = RemoveAt(s, k)
<1> DEFINE I == {k \in 1 .. Len(s) : s[k] = p}
<1>1. \E k \in 1 .. Len(s) : s[k] = p
  BY DEF Contains
<1>2. I \subseteq Nat /\ I # {}
  BY <1>1
<1>3. Purge(s, p) = RemoveAt(s, Min(I))
  BY <1>1, <1>2 DEF Purge, RemoveFirst, SelectInSeq
<1>4. Min(I) \in I /\ \A y \in I : Min(I) <= y
  <2> HIDE DEF I
  <2> QED BY <1>2, MinIsLeast
<1>5. PICK k \in 1 .. Len(s) : k = Min(I)
  BY <1>4
<1>6. s[k] = p
  BY <1>4, <1>5
<1>7. \A j \in 1 .. k - 1 : s[j] # p
  <2>1. \A y \in I : k <= y
    BY <1>4, <1>5
  <2>2. \A j \in 1 .. Len(s) : s[j] = p => k <= j
    BY <2>1
  <2> QED BY <2>2
<1> HIDE DEF I
<1> QED BY <1>3, <1>5, <1>6, <1>7 DEF FirstAt

(***************************************************************************)
(* init_scheduler establishes the invariant.                               *)
(***************************************************************************)
LEMMA SchedInitIInv == SchedInit => SchedIInv
<1> SUFFICES ASSUME SchedInit PROVE SchedIInv
  OBVIOUS
<1>1. \A q \in Prios : mlq_ready_queue[q] = << >> /\ Len(mlq_ready_queue[q]) = 0
  BY DEF SchedInit
<1>2. SchedTypeOK
  <2>1. slot \in [Prios -> Nat] /\ \A q \in Prios : slot[q] <= MaxPrio - q
    BY SchedAssumption DEF SchedInit, FullBudget, Prios
  <2>2. running_list \in Seq(Procs) /\ Len(running_list) <= QueueCap
    BY SchedAssumption DEF SchedInit
  <2>3. mlq_ready_queue \in [Prios -> Seq(Procs)]
    BY DEF SchedInit
  <2>4. \A q \in Prios : Len(mlq_ready_queue[q]) <= QueueCap
    BY <1>1, SchedAssumption
  <2> QED BY <2>1, <2>2, <2>3, <2>4 DEF SchedInit, SchedTypeOK
<1>3. OnePlace
  BY <1>1 DEF SchedInit, OnePlace
<1> QED BY <1>2, <1>3 DEF SchedInit, SchedIInv

(***************************************************************************)
(* get_mlq_proc moves the head of one ready queue to the CPU and charges   *)
(* the budget of its priority.                                             *)
(***************************************************************************)
LEMMA TakeIInv ==
  ASSUME SchedIInv, NEW c \in Cpus, proc[c] = NULL,
         NEW q \in Candidates, Take(c, q), UNCHANGED <<prio, loaded, finished>>
  PROVE  SchedIInv'
<1> DEFINE ready == mlq_ready_queue[q]
           p == Head(ready)
<1>1. q \in Prios /\ ready # << >> /\ ready \in Seq(Procs)
  BY DEF Candidates, Eligible, NonEmpty, SchedIInv, SchedTypeOK
<1>2. /\ p \in Procs /\ p = ready[1] /\ 1 \in 1 .. Len(ready)
      /\ Tail(ready) \in Seq(Procs) /\ Len(Tail(ready)) = Len(ready) - 1
      /\ \A j \in 1 .. Len(ready) - 1 : Tail(ready)[j] = ready[j + 1]
  BY <1>1, TailProperties
<1>3. /\ proc' = [proc EXCEPT ![c] = p]
      /\ mlq_ready_queue' = [mlq_ready_queue EXCEPT ![q] = Tail(ready)]
      /\ slot' = [Budget EXCEPT ![q] = Budget[q] - 1]
      /\ running_list' = Enqueue(running_list, p)
  BY DEF Take
<1>4. SchedTypeOK'
  <2>1. /\ Budget \in [Prios -> Nat] /\ \A r \in Prios : Budget[r] <= MaxPrio - r
        /\ Budget[q] > 0
    <3>1. CASE Eligible # {}
      BY <3>1 DEF Budget, Candidates, Eligible, SchedIInv, SchedTypeOK
    <3>2. CASE Eligible = {}
      <4>1. Budget = [r \in Prios |-> MaxPrio - r]
        BY <3>2 DEF Budget, FullBudget
      <4>2. \A r \in Prios : MaxPrio - r \in Nat /\ MaxPrio - r > 0
        BY SchedAssumption DEF Prios
      <4> QED BY <1>1, <4>1, <4>2
    <3> QED BY <3>1, <3>2
  <2>2. slot' \in [Prios -> Nat] /\ \A r \in Prios : slot'[r] <= MaxPrio - r
    BY <1>1, <1>3, <2>1, SchedAssumption, SMTT(30) DEF Prios
  <2>3. running_list' \in Seq(Procs) /\ Len(running_list') <= QueueCap
    BY <1>2, <1>3, EnqueueProperties DEF SchedIInv, SchedTypeOK
  <2>4. mlq_ready_queue' \in [Prios -> Seq(Procs)]
    BY <1>2, <1>3 DEF SchedIInv, SchedTypeOK
  <2>5. \A r \in Prios : Len(mlq_ready_queue'[r]) <= QueueCap
    BY <1>1, <1>2, <1>3, SchedAssumption DEF SchedIInv, SchedTypeOK
  <2>6. proc' \in [Cpus -> Procs \cup {NULL}]
    BY <1>2, <1>3 DEF SchedIInv, SchedTypeOK
  <2> QED BY <2>2, <2>3, <2>4, <2>5, <2>6 DEF SchedIInv, SchedTypeOK
<1>5. OnePlace'
  <2>1. prio[p] = q /\ p \in loaded \ finished /\ (\A d \in Cpus : proc[d] # p)
    BY <1>1, <1>2 DEF SchedIInv, OnePlace, Held
  <2>2. p # NULL
    BY <1>2, SchedAssumption
  <2>3. ASSUME NEW r \in Prios, NEW k \in 1 .. Len(mlq_ready_queue'[r])
        PROVE  LET e == mlq_ready_queue'[r][k] IN
               /\ prio[e] = r /\ e \in loaded \ finished
               /\ \A d \in Cpus : proc'[d] # e
               /\ \A j \in 1 .. Len(mlq_ready_queue'[r]) :
                    mlq_ready_queue'[r][j] = e => k = j
    <3>1. CASE r = q
      <4>1. /\ mlq_ready_queue'[r] = Tail(ready)
            /\ k \in 1 .. Len(ready) - 1 /\ k + 1 \in 1 .. Len(ready)
            /\ mlq_ready_queue'[r][k] = ready[k + 1]
        BY <1>1, <1>2, <1>3, <2>3, <3>1 DEF SchedIInv, SchedTypeOK
      <4>2. ready[k + 1] # p
        BY <1>1, <1>2, <4>1 DEF SchedIInv, OnePlace
      <4>3. \A j \in 1 .. Len(ready) - 1 : Tail(ready)[j] = ready[k + 1] => k = j
        BY <1>1, <1>2, <4>1 DEF SchedIInv, OnePlace
      <4>4. /\ prio[ready[k + 1]] = q /\ ready[k + 1] \in loaded \ finished
            /\ \A d \in Cpus : proc[d] # ready[k + 1]
        BY <1>1, <4>1 DEF SchedIInv, OnePlace, Held
      <4>5. \A d \in Cpus : proc'[d] # ready[k + 1]
        BY <1>3, <4>2, <4>4 DEF SchedIInv, SchedTypeOK
      <4> QED BY <1>2, <3>1, <4>1, <4>3, <4>4, <4>5
    <3>2. CASE r # q
      <4>1. mlq_ready_queue'[r] = mlq_ready_queue[r]
        BY <1>3, <3>2 DEF SchedIInv, SchedTypeOK
      <4>2. mlq_ready_queue[r][k] # p
        BY <2>1, <2>3, <3>2, <4>1 DEF SchedIInv, OnePlace
      <4>3. k \in 1 .. Len(mlq_ready_queue[r])
        BY <2>3, <4>1
      <4>4. /\ prio[mlq_ready_queue[r][k]] = r
            /\ mlq_ready_queue[r][k] \in loaded \ finished
            /\ \A d \in Cpus : proc[d] # mlq_ready_queue[r][k]
            /\ \A j \in 1 .. Len(mlq_ready_queue[r]) :
                 mlq_ready_queue[r][j] = mlq_ready_queue[r][k] => k = j
        BY <4>3 DEF SchedIInv, OnePlace, Held
      <4>5. \A d \in Cpus : proc'[d] # mlq_ready_queue[r][k]
        BY <1>3, <4>2, <4>4 DEF SchedIInv, SchedTypeOK
      <4> HIDE DEF p, ready
      <4> QED BY <4>1, <4>4, <4>5
    <3> QED BY <3>1, <3>2
  <2>4. ASSUME NEW d \in Cpus, proc'[d] # NULL
        PROVE  /\ proc'[d] \in loaded \ finished
               /\ \A e \in Cpus : proc'[e] = proc'[d] => d = e
    BY <1>3, <2>1, <2>2, <2>4 DEF SchedIInv, SchedTypeOK, OnePlace
  <2> QED BY <2>3, <2>4 DEF OnePlace, Held
<1> QED BY <1>4, <1>5 DEF SchedIInv

(***************************************************************************)
(* get_proc: an empty scheduler yields NULL and changes nothing.           *)
(***************************************************************************)
LEMMA GetProcIInv ==
  ASSUME SchedIInv, NEW c \in Cpus, GetProc(c)
  PROVE  SchedIInv'
<1>1. CASE NonEmpty = {} /\ UNCHANGED <<proc, mlq_ready_queue, slot, running_list>>
  <2>1. UNCHANGED sched_vars
    BY <1>1 DEF GetProc, sched_vars
  <2> QED BY <2>1 DEF sched_vars, SchedIInv, SchedTypeOK, OnePlace, Held
<1>2. CASE \E q \in Candidates : Take(c, q)
  BY <1>2, TakeIInv DEF GetProc
<1> QED BY <1>1, <1>2 DEF GetProc

(***************************************************************************)
(* The ready queues after put_mlq_proc or add_mlq_proc of a process that   *)
(* was in none of them: it is the last of its own queue, or was dropped.   *)
(***************************************************************************)
LEMMA EnqueueReadyProperties ==
  ASSUME SchedIInv, NEW p \in Procs, EnqueueReady(p),
         \A q \in Prios : \A k \in 1 .. Len(mlq_ready_queue[q]) :
            mlq_ready_queue[q][k] # p
  PROVE  /\ mlq_ready_queue' \in [Prios -> Seq(Procs)]
         /\ \A q \in Prios : Len(mlq_ready_queue'[q]) <= QueueCap
         /\ \A q \in Prios : \A k \in 1 .. Len(mlq_ready_queue'[q]) :
              /\ \/ mlq_ready_queue'[q][k] = p /\ prio[p] = q
                 \/ /\ k \in 1 .. Len(mlq_ready_queue[q])
                    /\ mlq_ready_queue'[q][k] = mlq_ready_queue[q][k]
              /\ \A j \in 1 .. Len(mlq_ready_queue'[q]) :
                   mlq_ready_queue'[q][j] = mlq_ready_queue'[q][k] => k = j
<1> DEFINE own == mlq_ready_queue[prio[p]]
           new == Enqueue(own, p)
<1>1. /\ prio[p] \in Prios /\ own \in Seq(Procs) /\ Len(own) <= QueueCap
      /\ mlq_ready_queue \in [Prios -> Seq(Procs)]
      /\ \A q \in Prios : Len(mlq_ready_queue[q]) <= QueueCap
  BY DEF SchedIInv, SchedTypeOK
<1>2. /\ new \in Seq(Procs) /\ Len(new) <= QueueCap
      /\ Len(new) \in {Len(own), Len(own) + 1}
      /\ \A j \in 1 .. Len(own) : new[j] = own[j]
      /\ Len(new) = Len(own) + 1 => new[Len(own) + 1] = p
  BY <1>1, EnqueueProperties
<1>3. mlq_ready_queue' = [mlq_ready_queue EXCEPT ![prio[p]] = new]
  BY DEF EnqueueReady
<1>4. ASSUME NEW q \in Prios, q # prio[p]
      PROVE  mlq_ready_queue'[q] = mlq_ready_queue[q]
  BY <1>1, <1>3, <1>4
<1>5. mlq_ready_queue'[prio[p]] = new
  BY <1>1, <1>3
<1>6. \A q \in Prios : \A k, j \in 1 .. Len(mlq_ready_queue[q]) :
        mlq_ready_queue[q][j] = mlq_ready_queue[q][k] => k = j
  BY DEF SchedIInv, OnePlace
<1>7. ASSUME NEW q \in Prios, NEW k \in 1 .. Len(mlq_ready_queue'[q])
      PROVE  /\ \/ mlq_ready_queue'[q][k] = p /\ prio[p] = q
                \/ /\ k \in 1 .. Len(mlq_ready_queue[q])
                   /\ mlq_ready_queue'[q][k] = mlq_ready_queue[q][k]
             /\ \A j \in 1 .. Len(mlq_ready_queue'[q]) :
                  mlq_ready_queue'[q][j] = mlq_ready_queue'[q][k] => k = j
  <2>1. CASE q # prio[p]
    BY <1>4, <1>6, <1>7, <2>1
  <2>2. CASE q = prio[p]
    <3>1. Len(own) \in Nat /\ k \in 1 .. Len(new)
      BY <1>1, <1>5, <1>7, <2>2
    <3>2. \A j \in 1 .. Len(own) : new[j] # p
      BY <1>1, <1>2
    <3>3. \A j \in 1 .. Len(new) : j \in 1 .. Len(own)
                                  \/ (j = Len(own) + 1 /\ new[j] = p)
      BY <1>2, <3>1
    <3>4. \A j, l \in 1 .. Len(own) : new[j] = new[l] => l = j
      BY <1>1, <1>2, <1>6
    <3> HIDE DEF new
    <3>5. \A j \in 1 .. Len(new) : new[j] = new[k] => k = j
      BY <3>1, <3>2, <3>3, <3>4
    <3> QED BY <1>2, <1>5, <2>2, <3>1, <3>3, <3>5
  <2> QED BY <2>1, <2>2
<1>8. mlq_ready_queue' \in [Prios -> Seq(Procs)]
  BY <1>1, <1>2, <1>3
<1>9. \A q \in Prios : Len(mlq_ready_queue'[q]) <= QueueCap
  BY <1>1, <1>2, <1>4, <1>5
<1> QED BY <1>7, <1>8, <1>9

(***************************************************************************)
(* put_proc, called for the process a CPU holds.                           *)
(***************************************************************************)
LEMMA PutProcIInv ==
  ASSUME SchedIInv, NEW c \in Cpus, PutProc(c)
  PROVE  SchedIInv'
<1> DEFINE p == proc[c]
<1>1. p \in Procs /\ p \in loaded \ finished /\ (\A d \in Cpus : proc[d] = p => c = d)
  BY DEF PutProc, SchedIInv, SchedTypeOK, OnePlace
<1>2. \A q \in Prios : \A k \in 1 .. Len(mlq_ready_queue[q]) : mlq_ready_queue[q][k] # p
  BY DEF SchedIInv, OnePlace, Held
<1>3. EnqueueReady(p) /\ proc' = [proc EXCEPT ![c] = NULL]
      /\ UNCHANGED <<slot, running_list, prio, loaded, finished>>
  BY DEF PutProc
<1>4. \A d \in Cpus : proc'[d] = IF d = c THEN NULL ELSE proc[d]
  BY <1>3 DEF SchedIInv, SchedTypeOK
<1> HIDE DEF p
<1>5. /\ mlq_ready_queue' \in [Prios -> Seq(Procs)]
      /\ \A q \in Prios : Len(mlq_ready_queue'[q]) <= QueueCap
      /\ \A q \in Prios : \A k \in 1 .. Len(mlq_ready_queue'[q]) :
           /\ \/ mlq_ready_queue'[q][k] = p /\ prio[p] = q
              \/ /\ k \in 1 .. Len(mlq_ready_queue[q])
                 /\ mlq_ready_queue'[q][k] = mlq_ready_queue[q][k]
           /\ \A j \in 1 .. Len(mlq_ready_queue'[q]) :
                mlq_ready_queue'[q][j] = mlq_ready_queue'[q][k] => k = j
  BY <1>1, <1>2, <1>3, EnqueueReadyProperties
<1>6. SchedTypeOK'
  <2>1. proc' \in [Cpus -> Procs \cup {NULL}]
    BY <1>3 DEF SchedIInv, SchedTypeOK
  <2> QED BY <1>3, <1>5, <2>1 DEF SchedIInv, SchedTypeOK
<1>7. p # NULL
  BY <1>1, SchedAssumption
<1>8. ASSUME NEW q \in Prios, NEW k \in 1 .. Len(mlq_ready_queue'[q])
      PROVE  LET e == mlq_ready_queue'[q][k] IN
             /\ prio[e] = q /\ e \in loaded \ finished
             /\ \A d \in Cpus : proc'[d] # e
  <2>1. CASE mlq_ready_queue'[q][k] = p /\ prio[p] = q
    BY <1>1, <1>4, <1>7, <2>1 DEF p
  <2>2. CASE k \in 1 .. Len(mlq_ready_queue[q])
             /\ mlq_ready_queue'[q][k] = mlq_ready_queue[q][k]
    <3>1. /\ prio[mlq_ready_queue[q][k]] = q
          /\ mlq_ready_queue[q][k] \in loaded \ finished
          /\ \A d \in Cpus : proc[d] # mlq_ready_queue[q][k]
      BY <2>2 DEF SchedIInv, OnePlace, Held
    <3>2. mlq_ready_queue[q][k] # NULL
      BY <3>1, SchedAssumption DEF SchedIInv, SchedTypeOK
    <3> QED BY <1>4, <2>2, <3>1, <3>2
  <2> QED BY <1>5, <1>8, <2>1, <2>2
<1>9. ASSUME NEW d \in Cpus, proc'[d] # NULL
      PROVE  /\ proc'[d] \in loaded \ finished
             /\ \A e \in Cpus : proc'[e] = proc'[d] => d = e
  BY <1>4, <1>9 DEF SchedIInv, OnePlace
<1>10. OnePlace'
  BY <1>3, <1>5, <1>8, <1>9 DEF OnePlace, Held
<1> QED BY <1>3, <1>6, <1>10 DEF SchedIInv

(***************************************************************************)
(* add_proc, called once for each process by the loader.                   *)
(***************************************************************************)
LEMMA AddProcIInv ==
  ASSUME SchedIInv, NEW p \in Procs, AddProc(p)
  PROVE  SchedIInv'
<1>1. /\ p \notin loaded /\ EnqueueReady(p) /\ loaded' = loaded \cup {p}
      /\ UNCHANGED <<slot, running_list, proc, prio, finished>>
  BY DEF AddProc
<1>2. \A q \in Prios : \A k \in 1 .. Len(mlq_ready_queue[q]) : mlq_ready_queue[q][k] # p
  BY <1>1 DEF SchedIInv, OnePlace
<1>3. /\ mlq_ready_queue' \in [Prios -> Seq(Procs)]
      /\ \A q \in Prios : Len(mlq_ready_queue'[q]) <= QueueCap
      /\ \A q \in Prios : \A k \in 1 .. Len(mlq_ready_queue'[q]) :
           /\ \/ mlq_ready_queue'[q][k] = p /\ prio[p] = q
              \/ /\ k \in 1 .. Len(mlq_ready_queue[q])
                 /\ mlq_ready_queue'[q][k] = mlq_ready_queue[q][k]
           /\ \A j \in 1 .. Len(mlq_ready_queue'[q]) :
                mlq_ready_queue'[q][j] = mlq_ready_queue'[q][k] => k = j
  BY <1>1, <1>2, EnqueueReadyProperties
<1>4. SchedTypeOK'
  BY <1>1, <1>3 DEF SchedIInv, SchedTypeOK
<1>5. p \in loaded' \ finished' /\ (\A d \in Cpus : proc[d] # p)
  <2>1. p # NULL
    BY SchedAssumption
  <2> QED BY <1>1, <2>1 DEF SchedIInv, OnePlace
<1>6. ASSUME NEW q \in Prios, NEW k \in 1 .. Len(mlq_ready_queue'[q])
      PROVE  LET e == mlq_ready_queue'[q][k] IN
             /\ prio[e] = q /\ e \in loaded' \ finished'
             /\ \A d \in Cpus : proc[d] # e
  <2>1. CASE mlq_ready_queue'[q][k] = p /\ prio[p] = q
    BY <1>5, <2>1
  <2>2. CASE k \in 1 .. Len(mlq_ready_queue[q])
             /\ mlq_ready_queue'[q][k] = mlq_ready_queue[q][k]
    <3>1. /\ prio[mlq_ready_queue[q][k]] = q
          /\ mlq_ready_queue[q][k] \in loaded \ finished
          /\ \A d \in Cpus : proc[d] # mlq_ready_queue[q][k]
      BY <2>2 DEF SchedIInv, OnePlace, Held
    <3> QED BY <1>1, <2>2, <3>1
  <2> QED BY <1>3, <1>6, <2>1, <2>2
<1>7. ASSUME NEW d \in Cpus, proc[d] # NULL
      PROVE  /\ proc[d] \in loaded' \ finished'
             /\ \A e \in Cpus : proc[e] = proc[d] => d = e
  BY <1>1, <1>7 DEF SchedIInv, OnePlace
<1>8. OnePlace'
  BY <1>1, <1>3, <1>6, <1>7 DEF OnePlace, Held
<1> QED BY <1>1, <1>4, <1>8 DEF SchedIInv

(***************************************************************************)
(* remove_proc, called for a finished process that a CPU holds.            *)
(***************************************************************************)
LEMMA RemoveProcIInv ==
  ASSUME SchedIInv, NEW c \in Cpus, RemoveProc(c)
  PROVE  SchedIInv'
<1> DEFINE p == proc[c]
<1>1. p \in Procs /\ p \in loaded \ finished /\ (\A d \in Cpus : proc[d] = p => c = d)
  BY DEF RemoveProc, SchedIInv, SchedTypeOK, OnePlace
<1>2. \A q \in Prios : \A k \in 1 .. Len(mlq_ready_queue[q]) : mlq_ready_queue[q][k] # p
  BY DEF SchedIInv, OnePlace, Held
<1>3. /\ running_list' = Purge(running_list, p)
      /\ finished' = finished \cup {p}
      /\ proc' = [proc EXCEPT ![c] = NULL]
      /\ UNCHANGED <<mlq_ready_queue, slot, prio, loaded>>
  BY DEF RemoveProc
<1>4. \A d \in Cpus : proc'[d] = IF d = c THEN NULL ELSE proc[d]
  BY <1>3 DEF SchedIInv, SchedTypeOK
<1>5. SchedTypeOK'
  <2>1. proc' \in [Cpus -> Procs \cup {NULL}]
    BY <1>3 DEF SchedIInv, SchedTypeOK
  <2>2. running_list' \in Seq(Procs) /\ Len(running_list') <= QueueCap
    <3>1. running_list \in Seq(Procs) /\ Len(running_list) <= QueueCap
      BY DEF SchedIInv, SchedTypeOK
    <3>2. Purge(running_list, p) \in Seq(Procs)
          /\ Len(Purge(running_list, p)) <= Len(running_list)
      BY <1>1, <3>1, PurgeProperties
    <3> HIDE DEF p
    <3> QED BY <1>3, <3>1, <3>2, SchedAssumption
  <2> QED BY <1>1, <1>3, <2>1, <2>2 DEF SchedIInv, SchedTypeOK
<1>6. ASSUME NEW q \in Prios, NEW k \in 1 .. Len(mlq_ready_queue[q])
      PROVE  LET e == mlq_ready_queue[q][k] IN
             /\ prio[e] = q /\ e \in loaded \ finished'
             /\ \A d \in Cpus : proc'[d] # e
             /\ \A j \in 1 .. Len(mlq_ready_queue[q]) :
                  mlq_ready_queue[q][j] = e => k = j
  <2>1. /\ prio[mlq_ready_queue[q][k]] = q
        /\ mlq_ready_queue[q][k] \in loaded \ finished
        /\ \A d \in Cpus : proc[d] # mlq_ready_queue[q][k]
        /\ \A j \in 1 .. Len(mlq_ready_queue[q]) :
             mlq_ready_queue[q][j] = mlq_ready_queue[q][k] => k = j
    BY DEF SchedIInv, OnePlace, Held
  <2>2. mlq_ready_queue[q][k] # NULL
    BY <2>1, SchedAssumption DEF SchedIInv, SchedTypeOK
  <2> QED BY <1>2, <1>3, <1>4, <2>1, <2>2
<1>7. ASSUME NEW d \in Cpus, proc'[d] # NULL
      PROVE  /\ proc'[d] \in loaded \ finished'
             /\ \A e \in Cpus : proc'[e] = proc'[d] => d = e
  BY <1>1, <1>3, <1>4, <1>7 DEF SchedIInv, OnePlace
<1> HIDE DEF p
<1>8. OnePlace'
  BY <1>3, <1>6, <1>7 DEF OnePlace, Held
<1> QED BY <1>1, <1>3, <1>5, <1>8 DEF SchedIInv

(***************************************************************************)
(* Every operation of sched.c preserves the invariant.                     *)
(***************************************************************************)
LEMMA SchedNextIInv ==
  ASSUME SchedIInv, [SchedNext]_sched_vars
  PROVE  SchedIInv'
<1>1. CASE UNCHANGED sched_vars
  BY <1>1 DEF sched_vars, SchedIInv, SchedTypeOK, OnePlace, Held
<1>2. ASSUME NEW c \in Cpus, CpuStep(c) PROVE SchedIInv'
  BY <1>2, GetProcIInv, PutProcIInv, RemoveProcIInv DEF CpuStep
<1>3. ASSUME NEW p \in Procs, AddProc(p) PROVE SchedIInv'
  BY <1>3, AddProcIInv
<1> QED BY <1>1, <1>2, <1>3 DEF SchedNext

(***************************************************************************)
(* The scheduler's invariant, for any number of processes, CPUs and        *)
(* priorities.                                                             *)
(***************************************************************************)
THEOREM SchedInvariance == SchedSpec => []SchedIInv
BY SchedInitIInv, SchedNextIInv, PTL DEF SchedSpec

(***************************************************************************)
(* The queues of queue.c never exceed their arrays and no priority         *)
(* overdraws its budget in get_mlq_proc.                                   *)
(***************************************************************************)
THEOREM SchedTypeCorrect == SchedSpec => []SchedTypeOK
<1>1. SchedIInv => SchedTypeOK
  BY DEF SchedIInv
<1> QED BY <1>1, SchedInvariance, PTL

(***************************************************************************)
(* No two CPUs hold the same pcb, no pcb waits while it runs, and none     *)
(* comes back after remove_proc, whatever order the threads call sched.c.  *)
(***************************************************************************)
THEOREM ProcessesStayInOnePlace == SchedSpec => []OnePlace
<1>1. SchedIInv => OnePlace
  BY DEF SchedIInv
<1> QED BY <1>1, SchedInvariance, PTL

-----------------------------------------------------------------------------
(* No process is lost                                                      *)

(***************************************************************************)
(* With no more processes than a queue has places, enqueue() has room for  *)
(* any process that waits nowhere: it waits afterwards, and so does every  *)
(* process that did before.                                                *)
(***************************************************************************)
LEMMA EnqueueReadyKeeps ==
  ASSUME SchedIInv, IsFiniteSet(Procs), Cardinality(Procs) <= QueueCap,
         NEW p \in Procs, EnqueueReady(p), ~Ready(p)
  PROVE  Ready(p)' /\ \A r \in Procs : Ready(r) => Ready(r)'
<1> DEFINE own == mlq_ready_queue[prio[p]]
<1>1. /\ prio[p] \in Prios /\ own \in Seq(Procs) /\ Len(own) <= QueueCap
      /\ mlq_ready_queue \in [Prios -> Seq(Procs)]
  BY DEF SchedIInv, SchedTypeOK
<1>2. \A j \in 1 .. Len(own) : own[j] # p
  BY <1>1 DEF Ready, Contains
<1>3. \A j, k \in 1 .. Len(own) : own[j] = own[k] => j = k
  BY <1>1 DEF SchedIInv, OnePlace
<1>4. Cardinality(Procs) \in Nat /\ Len(own) < Cardinality(Procs)
  <2> HIDE DEF own
  <2> QED BY <1>1, <1>2, <1>3, LacksOneIsShorter
<1>5. /\ mlq_ready_queue'[prio[p]] = Append(own, p)
      /\ \A q \in Prios : q # prio[p] => mlq_ready_queue'[q] = mlq_ready_queue[q]
  <2>1. Enqueue(own, p) = Append(own, p)
    BY <1>1, <1>4, SchedAssumption DEF Enqueue
  <2> QED BY <1>1, <2>1 DEF EnqueueReady
<1>6. /\ Len(Append(own, p)) = Len(own) + 1 /\ Len(own) \in Nat
      /\ \A j \in 1 .. Len(own) : Append(own, p)[j] = own[j]
      /\ Append(own, p)[Len(own) + 1] = p
  BY <1>1, AppendProperties
<1>7. Contains(mlq_ready_queue'[prio[p]], p)
  BY <1>5, <1>6 DEF Contains
<1>8. ASSUME NEW r \in Procs, NEW q \in Prios, Contains(mlq_ready_queue[q], r)
      PROVE  Contains(mlq_ready_queue'[q], r)
  <2>1. CASE q = prio[p]
    <3>1. PICK j \in 1 .. Len(own) : own[j] = r
      BY <1>8, <2>1 DEF Contains
    <3>2. j \in 1 .. Len(own) + 1 /\ Append(own, p)[j] = r
      BY <1>6, <3>1
    <3> HIDE DEF own
    <3> QED BY <1>5, <1>6, <2>1, <3>2 DEF Contains
  <2>2. CASE q # prio[p]
    BY <1>5, <1>8, <2>2
  <2> QED BY <2>1, <2>2
<1> QED BY <1>1, <1>7, <1>8 DEF Ready

(***************************************************************************)
(* get_mlq_proc: the process at the head goes to the CPU, the others stay. *)
(***************************************************************************)
LEMMA TakeKeeps ==
  ASSUME SchedIInv, NEW c \in Cpus, proc[c] = NULL, NEW q \in Candidates, Take(c, q)
  PROVE  \A r \in Procs : Ready(r) \/ Held(r) => Ready(r)' \/ Held(r)'
<1> DEFINE ready == mlq_ready_queue[q]
<1>1. q \in Prios /\ ready # << >> /\ ready \in Seq(Procs)
  BY DEF Candidates, Eligible, NonEmpty, SchedIInv, SchedTypeOK
<1>2. /\ Head(ready) = ready[1] /\ Len(Tail(ready)) = Len(ready) - 1 /\ Len(ready) \in Nat
      /\ \A j \in 1 .. Len(ready) - 1 : Tail(ready)[j] = ready[j + 1]
  BY <1>1, TailProperties
<1>3. /\ proc' = [proc EXCEPT ![c] = Head(ready)]
      /\ mlq_ready_queue' = [mlq_ready_queue EXCEPT ![q] = Tail(ready)]
  BY DEF Take
<1>4. /\ mlq_ready_queue'[q] = Tail(ready) /\ proc'[c] = ready[1]
      /\ \A k \in Prios : k # q => mlq_ready_queue'[k] = mlq_ready_queue[k]
      /\ \A d \in Cpus : d # c => proc'[d] = proc[d]
  BY <1>1, <1>2, <1>3 DEF SchedIInv, SchedTypeOK
<1> HIDE DEF ready
<1>5. ASSUME NEW r \in Procs, NEW k \in Prios, Contains(mlq_ready_queue[k], r)
      PROVE  Contains(mlq_ready_queue'[k], r) \/ r = ready[1]
  <2>1. CASE k = q
    <3>1. PICK j \in 1 .. Len(ready) : ready[j] = r
      BY <1>5, <2>1 DEF Contains, ready
    <3>2. CASE j # 1
      <4>1. j - 1 \in 1 .. Len(ready) - 1 /\ Tail(ready)[j - 1] = r
        BY <1>2, <3>1, <3>2
      <4> QED BY <1>2, <1>4, <2>1, <4>1 DEF Contains
    <3> QED BY <3>1, <3>2
  <2>2. CASE k # q
    BY <1>4, <1>5, <2>2
  <2> QED BY <2>1, <2>2
<1>6. ASSUME NEW r \in Procs, Held(r) PROVE Held(r)'
  BY <1>4, <1>6, SchedAssumption DEF Held
<1> QED BY <1>4, <1>5, <1>6 DEF Ready, Held

(***************************************************************************)
(* Every operation of sched.c keeps track of the processes it was given.   *)
(***************************************************************************)
LEMMA StepNotLost ==
  ASSUME IsFiniteSet(Procs), Cardinality(Procs) <= QueueCap,
         SchedIInv, NotLost, [SchedNext]_sched_vars
  PROVE  NotLost'
<1> USE DEF NotLost
<1>1. CASE UNCHANGED sched_vars
  BY <1>1 DEF sched_vars, Ready, Held
<1>2. ASSUME NEW c \in Cpus, GetProc(c) PROVE NotLost'
  <2>1. CASE NonEmpty = {} /\ UNCHANGED <<proc, mlq_ready_queue, slot, running_list>>
    BY <1>2, <2>1 DEF GetProc, Ready, Held
  <2>2. ASSUME NEW q \in Candidates, Take(c, q) PROVE NotLost'
    <3>1. \A r \in Procs : Ready(r) \/ Held(r) => Ready(r)' \/ Held(r)'
      BY <1>2, <2>2, TakeKeeps DEF GetProc
    <3> QED BY <1>2, <3>1 DEF GetProc, SchedIInv, SchedTypeOK
  <2> QED BY <1>2, <2>1, <2>2 DEF GetProc
<1>3. ASSUME NEW c \in Cpus, PutProc(c) PROVE NotLost'
  <2>1. PICK p \in Procs : p = proc[c]
    BY <1>3 DEF PutProc, SchedIInv, SchedTypeOK
  <2>2. EnqueueReady(p) /\ ~Ready(p)
    BY <1>3, <2>1 DEF PutProc, SchedIInv, OnePlace, Ready, Contains, Held
  <2>3. Ready(p)' /\ \A r \in Procs : Ready(r) => Ready(r)'
    BY <2>2, EnqueueReadyKeeps
  <2>4. \A d \in Cpus : proc'[d] = IF d = c THEN NULL ELSE proc[d]
    BY <1>3 DEF PutProc, SchedIInv, SchedTypeOK
  <2>5. \A r \in Procs : Held(r) => Held(r)' \/ r = p
    BY <2>1, <2>4 DEF Held
  <2>6. loaded' = loaded /\ finished' = finished /\ loaded \subseteq Procs
    BY <1>3 DEF PutProc, SchedIInv, SchedTypeOK
  <2> QED BY <2>3, <2>5, <2>6
<1>4. ASSUME NEW c \in Cpus, RemoveProc(c) PROVE NotLost'
  <2>1. \A d \in Cpus : proc'[d] = IF d = c THEN NULL ELSE proc[d]
    BY <1>4 DEF RemoveProc, SchedIInv, SchedTypeOK
  <2>2. \A r \in Procs : Held(r) => Held(r)' \/ r = proc[c]
    BY <2>1 DEF Held
  <2>3. \A r \in Procs : Ready(r) => Ready(r)'
    BY <1>4 DEF RemoveProc, Ready
  <2> QED BY <1>4, <2>2, <2>3 DEF RemoveProc, SchedIInv, SchedTypeOK
<1>5. ASSUME NEW p \in Procs, AddProc(p) PROVE NotLost'
  <2>1. ~Ready(p)
    BY <1>5 DEF AddProc, SchedIInv, OnePlace, Ready, Contains
  <2>2. Ready(p)' /\ \A r \in Procs : Ready(r) => Ready(r)'
    BY <1>5, <2>1, EnqueueReadyKeeps DEF AddProc
  <2>3. \A r \in Procs : Held(r) => Held(r)'
    BY <1>5 DEF AddProc, Held
  <2> QED BY <1>5, <2>2, <2>3 DEF AddProc, SchedIInv, SchedTypeOK
<1> QED BY <1>1, <1>2, <1>3, <1>4, <1>5 DEF SchedNext, CpuStep

(***************************************************************************)
(* As long as the configuration has no more processes than a queue has     *)
(* places (MAX_QUEUE_SIZE), no process handed to add_proc is dropped by    *)
(* the silent test in enqueue(): it waits, runs or has finished.           *)
(***************************************************************************)
THEOREM NoProcessIsLost ==
  ASSUME IsFiniteSet(Procs), Cardinality(Procs) <= QueueCap
  PROVE  SchedSpec => []NotLost
<1>1. SchedInit => NotLost
  BY DEF SchedInit, NotLost
<1>2. SchedIInv /\ NotLost /\ [SchedNext]_sched_vars => NotLost'
  BY StepNotLost
<1> QED BY <1>1, <1>2, SchedInvariance, PTL DEF SchedSpec
=============================================================================
