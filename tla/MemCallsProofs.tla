--------------------------- MODULE MemCallsProofs ---------------------------
(***************************************************************************)
(* Proofs about MemCalls.tla: the memory instructions of any number of     *)
(* CPUs, interleaved statement by statement, over any number of processes, *)
(* places of running_list and frames.                                      *)
(***************************************************************************)
EXTENDS MemCalls, SequenceLemmas

\* Who holds which lock.
LockInv ==
  \A c \in CPUs :
    /\ pc[c] \in Executing \cup {"lock"} => op[c] \in Ops
    /\ pc[c] \in Executing /\ op[c] \notin Unlocked => mmvm_lock = c
    /\ pc[c] = "unlock" => mmvm_lock = c
    /\ pc[c] \in {"enq_size", "shift"} => queue_lock = c

\* What the locals of a CPU are good for at the places where they are used.
LocalInv ==
  \A c \in CPUs :
    /\ pc[c] \in InGet => fp[c] # None
    /\ pc[c] \in InWalk \cup {"memop"} => calls[c] # << >>
    /\ pc[c] \in {"walk_pid", "walk_caller"} => i[c] < ListCap

\* MEMPHY_get_freefp: while no two takers have overlapped on a device, the
\* free list is what MEMPHY_format made of the frames above the ones taken.
FrameInv ==
  /\ twice => racy
  /\ \A c \in CPUs : pc[c] = "link_used" => fp[c] \in taken[Device(c)]
  /\ ~racy =>
       /\ \A c, d \in CPUs :
            c # d /\ pc[c] \in InGet /\ pc[d] \in InGet => Device(c) # Device(d)
       /\ \A c \in CPUs : pc[c] = "get_next" => fp[c] = free_fp_list[Device(c)]
       /\ \A v \in Devices :
            /\ free_fp_list[v] # None => \A g \in taken[v] : g < free_fp_list[v]
            /\ \A f \in Frames \ taken[v] : fp_next[v][f] = FormattedNext[f]

\* The scheduler gives a process to one CPU at a time.
HeldInv ==
  /\ \A c, d \in CPUs : proc[c] = proc[d] /\ proc[c] # None => c = d
  /\ \A j, k \in 1 .. Len(ready) : ready[j] = ready[k] => j = k
  /\ \A k \in 1 .. Len(ready) : \A c \in CPUs : proc[c] # ready[k]

\* What the holder of queue_lock knows of running_list.
ListInv ==
  \A c \in CPUs :
    /\ pc[c] = "enq_size" => size < ListCap /\ list[size] = proc[c] /\ proc[c] # None
    /\ pc[c] = "shift" => i[c] < size

\* The walk has passed only places that do not hold the process.
WalkInv ==
  \A c \in CPUs :
    /\ pc[c] \in {"walk_size", "walk_pid"} => caller[c] = None
    /\ pc[c] \in InWalk /\ ~disturbed[c] =>
         \A k \in 0 .. ListCap - 1 : k < i[c] => list[k] # proc[c]
    /\ pc[c] \in {"walk_pid", "walk_caller"} /\ ~disturbed[c] => i[c] < size
    /\ pc[c] = "walk_caller" /\ ~disturbed[c] => list[i[c]] = proc[c]

(***************************************************************************)
(* The inductive invariant of the memory instructions.                     *)
(***************************************************************************)
MemIInv ==
  /\ TypeOK /\ LockInv /\ LocalInv /\ FrameInv /\ HeldInv /\ ListInv /\ WalkInv
  /\ WalkFindsCaller
-----------------------------------------------------------------------------
LEMMA Bounds ==
  /\ ListCap \in Nat /\ ListCap > 0 /\ MaxPages \in Nat /\ MaxPages > 0
  /\ NumFrames \in Nat /\ NumFrames > 1
  /\ None \notin CPUs /\ None \notin Procs /\ None \notin Nat /\ None \notin Frames
  /\ \A f \in Frames : f \in Nat
BY MemCallsAssumption DEF Frames

\* What every return of an instruction comes to.
Over(c) == ReturnTo(c, IF op[c] \in Unlocked THEN "end" ELSE "unlock")

(***************************************************************************)
(* Each return statement of __alloc, __free and __write releases mmvm_lock *)
(* and those of __read and libsyscall need not: site by site.              *)
(***************************************************************************)
LEMMA Returns == \A c \in CPUs : ReturnEarly(c) \/ Return(c) => Over(c)
<1> USE DEF Over, Unlocked
<1> TAKE c \in CPUs
<1>1. AllocRefused(c) \/ AllocReused(c) \/ AllocGrown(c) => Over(c)
  BY DEF AllocRefused, AllocReused, AllocGrown
<1>2. FreeRefused(c) \/ FreeDone(c) => Over(c)
  BY DEF FreeRefused, FreeDone
<1>3. WriteRefused(c) \/ WriteDone(c) => Over(c)
  BY DEF WriteRefused, WriteDone
<1>4. ReadReturns(c) \/ SyscallReturns(c) => Over(c)
  BY DEF ReadReturns, SyscallReturns
<1> QED BY <1>1, <1>2, <1>3, <1>4 DEF ReturnEarly, Return

LEMMA ReturnPlace ==
  ASSUME TypeOK, NEW c \in CPUs, ReturnEarly(c) \/ Return(c)
  PROVE  pc'[c] \in {"end", "unlock"}
<1>1. PICK loc \in {"end", "unlock"} : ReturnTo(c, loc)
  BY Returns DEF Over
<1> QED BY <1>1 DEF ReturnTo, Goto, TypeOK

(***************************************************************************)
(* A CPU writes no local of another, save for the mark that running_list   *)
(* was shifted under its walk.                                             *)
(***************************************************************************)
LEMMA OthersKeep ==
  ASSUME TypeOK, NEW c \in CPUs, Cpu(c), NEW d \in CPUs, d # c
  PROVE  /\ pc'[d] = pc[d] /\ op'[d] = op[d] /\ calls'[d] = calls[d]
         /\ need'[d] = need[d] /\ i'[d] = i[d] /\ caller'[d] = caller[d]
         /\ fp'[d] = fp[d] /\ proc'[d] = proc[d]
         /\ disturbed[d] => disturbed'[d]
<1> USE DEF TypeOK, Goto, vars, sched_vars, list_vars, frame_vars, local_vars
<1>1. CASE Between(c)
  BY <1>1 DEF Between, Keep, PutProc, RemoveProc, Shift, Shorten, GetProc, EnqueueSize, Idle,
     Disturb
<1>2. CASE Instruction(c)
  BY <1>2, Returns
  DEF Instruction, Fetch, Lock, Access, Unlock, GetHead, GetNext, LinkUsed, PushUsed, NextFrame,
     WalkSize, WalkPid, WalkCaller, Memop, Call, Over, ReturnTo, Fault
<1> QED BY <1>1, <1>2 DEF Cpu

(***************************************************************************)
(* MEMPHY_format: the first frame is the head and links to the second.     *)
(***************************************************************************)
LEMMA FormattedNextType == FormattedNext \in [Frames -> Frames \cup {None}]
BY DEF FormattedNext

LEMMA ReadyInit ==
  /\ SetToSeq(Procs) \in Seq(Procs)
  /\ \A j, k \in 1 .. Len(SetToSeq(Procs)) : SetToSeq(Procs)[j] = SetToSeq(Procs)[k] => j = k
<1> DEFINE n == Cardinality(Procs)
           f == SetToSeq(Procs)
<1>1. n \in Nat /\ ExistsBijection(1 .. n, Procs)
  BY MemCallsAssumption, FS_CardinalityType
<1>2. \E g \in [1 .. n -> Procs] : IsInjective(g)
  BY <1>1 DEF ExistsBijection, Bijection, Injection, Surjection, IsInjective
<1>3. f \in [1 .. n -> Procs] /\ IsInjective(f)
  BY <1>2 DEF SetToSeq
<1> HIDE DEF f
<1>4. f \in Seq(Procs) /\ Len(f) = n
  BY <1>1, <1>3
<1>5. \A j, k \in 1 .. n : f[j] = f[k] => j = k
  BY <1>3 DEF IsInjective
<1> QED BY <1>4, <1>5 DEF f

LEMMA MemInit == Init => MemIInv
<1> SUFFICES ASSUME Init PROVE MemIInv
  OBVIOUS
<1>1. TypeOK
  <2>1. ready \in Seq(Procs)
    BY ReadyInit DEF Init
  <2>2. /\ free_fp_list \in [Devices -> Frames \cup {None}]
        /\ fp_next \in [Devices -> [Frames -> Frames \cup {None}]]
        /\ list \in [0 .. ListCap - 1 -> Procs \cup {None}]
    BY Bounds, FormattedNextType DEF Init, Frames
  <2>3. /\ pc \in [CPUs -> Locations] /\ calls \in [CPUs -> Seq({"INC", "SWP", "OTHER"})]
        /\ need \in [CPUs -> 0 .. MaxPages] /\ i \in [CPUs -> 0 .. ListCap]
        /\ size \in 0 .. ListCap
    BY Bounds DEF Init, Locations
  <2> QED BY <2>1, <2>2, <2>3, Bounds DEF Init, TypeOK
<1>2. LockInv /\ LocalInv /\ ListInv /\ WalkInv /\ WalkFindsCaller
  BY DEF Init, LockInv, LocalInv, ListInv, WalkInv, WalkFindsCaller, At, Executing, InGet, InWalk
<1>3. FrameInv
  BY DEF Init, FrameInv, InGet
<1>4. HeldInv
  BY ReadyInit, Bounds, <1>1 DEF Init, HeldInv, TypeOK
<1> QED BY <1>1, <1>2, <1>3, <1>4 DEF MemIInv

-----------------------------------------------------------------------------
(* Types                                                                   *)

\* TypeOK of the locals of the CPUs, and of what they share.
LocalTypeOK ==
  /\ pc \in [CPUs -> Locations] /\ op \in [CPUs -> Ops \cup {None}]
  /\ calls \in [CPUs -> Seq({"INC", "SWP", "OTHER"})]
  /\ need \in [CPUs -> 0 .. MaxPages]
  /\ i \in [CPUs -> 0 .. ListCap] /\ caller \in [CPUs -> Procs \cup {None}]
  /\ fp \in [CPUs -> Frames \cup {None}] /\ disturbed \in [CPUs -> BOOLEAN]

SharedTypeOK ==
  /\ proc \in [CPUs -> Procs \cup {None}] /\ ready \in Seq(Procs)
  /\ list \in [0 .. ListCap - 1 -> Procs \cup {None}] /\ size \in 0 .. ListCap
  /\ {queue_lock, mmvm_lock} \subseteq CPUs \cup {None}
  /\ free_fp_list \in [Devices -> Frames \cup {None}]
  /\ used_fp_list \in [Devices -> Frames \cup {None}]
  /\ fp_next \in [Devices -> [Frames -> Frames \cup {None}]]
  /\ taken \in [Devices -> SUBSET Frames] /\ {twice, racy} \subseteq BOOLEAN

LEMMA TypeSplit ==
  /\ TypeOK <=> LocalTypeOK /\ SharedTypeOK
  /\ TypeOK' <=> LocalTypeOK' /\ SharedTypeOK'
BY DEF TypeOK, LocalTypeOK, SharedTypeOK

(***************************************************************************)
(* The locals keep their types when an instruction ends or makes a call.   *)
(***************************************************************************)
LEMMA ReturnType ==
  ASSUME TypeOK, NEW c \in CPUs, Over(c)
  PROVE  LocalTypeOK'
BY Bounds, SMTT(30) DEF Over, ReturnTo, Goto, TypeOK, LocalTypeOK, Locations

LEMMA CallType ==
  ASSUME TypeOK, NEW c \in CPUs, NEW todo \in Seq({"INC", "SWP", "OTHER"}), Call(c, todo)
  PROVE  LocalTypeOK'
BY Bounds DEF Call, Goto, TypeOK, LocalTypeOK, Locations, InWalk

(***************************************************************************)
(* put_proc, remove_proc and get_proc over running_list: the array is      *)
(* never indexed or counted beyond its ends.                               *)
(***************************************************************************)
LEMMA BetweenType ==
  ASSUME TypeOK, ListInv, NEW c \in CPUs, Between(c)
  PROVE  TypeOK'
<1> USE DEF Goto, At, sched_vars, list_vars, frame_vars, local_vars
<1>1. LocalTypeOK'
  <2> USE DEF TypeOK, LocalTypeOK, Locations
  <2>1. CASE Keep(c) \/ PutProc(c) \/ GetProc(c) \/ EnqueueSize(c) \/ Idle(c)
    BY <2>1 DEF Keep, PutProc, GetProc, EnqueueSize, Idle
  <2>2. CASE RemoveProc(c)
    <3>1. i' \in [CPUs -> 0 .. ListCap]
      <4>1. \A k \in 0 .. size - 1 : k \in 0 .. ListCap
        BY Bounds
      <4>2. i' = i \/ \E k \in 0 .. ListCap : i' = [i EXCEPT ![c] = k]
        BY <2>2, <4>1 DEF RemoveProc
      <4> QED BY <4>2
    <3> QED BY <2>2, <3>1 DEF RemoveProc
  <2>3. CASE Shift(c) \/ Shorten(c)
    <3>1. i' \in [CPUs -> 0 .. ListCap]
      <4>1. i[c] \in 0 .. ListCap /\ size \in 0 .. ListCap /\ 0 \in 0 .. ListCap
        BY Bounds
      <4>2. i' = [i EXCEPT ![c] = 0] \/ (i[c] + 1 < size /\ i' = [i EXCEPT ![c] = @ + 1])
        BY <2>3 DEF Shift, Shorten
      <4>3. i[c] + 1 < size => i[c] + 1 \in 0 .. ListCap
        BY <4>1, Bounds, SMTT(30)
      <4> QED BY <4>1, <4>2, <4>3
    <3>2. disturbed' \in [CPUs -> BOOLEAN]
      BY <2>3, Bounds, ZenonT(40) DEF Shift, Shorten, Disturb
    <3> QED BY <2>3, <3>1, <3>2 DEF Shift, Shorten
  <2> QED BY <2>1, <2>2, <2>3 DEF Between
<1>2. SharedTypeOK'
  <2> USE DEF TypeOK, SharedTypeOK
  <2>1. CASE Keep(c) \/ Idle(c)
    BY <2>1 DEF Keep, Idle
  <2>2. CASE PutProc(c)
    <3>1. proc[c] \in Procs
      BY <2>2 DEF PutProc
    <3> QED BY <2>2, <3>1, AppendProperties DEF PutProc
  <2>3. CASE RemoveProc(c)
    BY <2>3, ZenonT(40) DEF RemoveProc
  <2>4. CASE Shift(c)
    BY <2>4, Bounds DEF Shift
  <2>5. CASE Shorten(c)
    BY <2>5, Bounds DEF Shorten, ListInv
  <2>6. CASE GetProc(c)
    <3>1. Head(ready) \in Procs /\ Tail(ready) \in Seq(Procs)
      BY <2>6, TailProperties DEF GetProc
    <3> QED BY <2>6, <3>1, Bounds, SMTT(30) DEF GetProc
  <2>7. CASE EnqueueSize(c)
    BY <2>7, Bounds DEF EnqueueSize, ListInv
  <2> QED BY <2>1, <2>2, <2>3, <2>4, <2>5, <2>6, <2>7 DEF Between
<1> QED BY <1>1, <1>2, TypeSplit

(***************************************************************************)
(* The memory instructions: no frame is None where it is dereferenced, and *)
(* no walk reads beyond the array.                                         *)
(***************************************************************************)
LEMMA InstructionType ==
  ASSUME TypeOK, LockInv, LocalInv, NEW c \in CPUs, Instruction(c)
  PROVE  TypeOK'
<1> USE DEF Goto, At, sched_vars, list_vars, frame_vars, local_vars
<1>0. Device(c) \in Devices
  BY DEF Device, Devices
<1>1. LocalTypeOK'
  <2>0. /\ <<"OTHER">> \in Seq({"INC", "SWP", "OTHER"})
        /\ <<"INC">> \in Seq({"INC", "SWP", "OTHER"})
        /\ <<"SWP", "OTHER">> \in Seq({"INC", "SWP", "OTHER"})
        /\ calls[c] \in Seq({"INC", "SWP", "OTHER"})
        /\ calls[c] # << >> => Tail(calls[c]) \in Seq({"INC", "SWP", "OTHER"})
    BY TailProperties DEF TypeOK
  <2>1. CASE Fetch(c) \/ Lock(c) \/ Unlock(c)
    BY <2>1 DEF Fetch, Lock, Unlock, TypeOK, LocalTypeOK, Locations, Ops
  <2>2. CASE Access(c)
    <3>1. CASE Fault(c)
      BY <2>0, <3>1, Bounds DEF Fault, TypeOK, LocalTypeOK, Locations
    <3> QED BY <2>0, <2>2, <3>1, CallType, ReturnType, Returns DEF Access
  <2>3. CASE GetHead(c)
    <3>1. CASE Return(c)
      BY <3>1, ReturnType, Returns
    <3>2. CASE ~Return(c)
      BY <1>0, <2>3, <3>2 DEF GetHead, TypeOK, LocalTypeOK, Locations, InGet
    <3> QED BY <3>1, <3>2
  <2>4. CASE GetNext(c) \/ LinkUsed(c)
    BY <2>4 DEF GetNext, LinkUsed, TypeOK, LocalTypeOK, Locations, InGet
  <2>5. CASE PushUsed(c)
    <3>1. CASE need[c] > 1
      <4>1. need' = [need EXCEPT ![c] = @ - 1] /\ need[c] \in 0 .. MaxPages
        BY <2>5, <3>1 DEF PushUsed, NextFrame, TypeOK
      <4>2. need' \in [CPUs -> 0 .. MaxPages]
        BY <3>1, <4>1, Bounds, SMTT(30) DEF TypeOK
      <4>3. Goto(c, "get_head") /\ UNCHANGED <<op, calls, i, caller, fp, disturbed>>
        BY <2>5, <3>1 DEF PushUsed, NextFrame
      <4> QED BY <4>2, <4>3 DEF TypeOK, LocalTypeOK, Locations
    <3> QED BY <2>0, <2>5, <3>1, CallType, ReturnType, Returns DEF PushUsed, NextFrame
  <2>6. CASE WalkSize(c) \/ WalkPid(c)
    <3>1. i' \in [CPUs -> 0 .. ListCap]
      <4>1. i' = i \/ (i[c] < ListCap /\ i' = [i EXCEPT ![c] = @ + 1])
        BY <2>6 DEF WalkSize, WalkPid, LocalInv
      <4>2. i[c] < ListCap => i[c] + 1 \in 0 .. ListCap
        BY Bounds, SMTT(30) DEF TypeOK
      <4> QED BY <4>1, <4>2 DEF TypeOK
    <3> QED BY <2>6, <3>1 DEF WalkSize, WalkPid, TypeOK, LocalTypeOK, Locations, InWalk
  <2>7. CASE WalkCaller(c)
    BY <2>7, Bounds DEF WalkCaller, LocalInv, TypeOK, LocalTypeOK, Locations
  <2>8. CASE Memop(c)
    <3>1. calls[c] # << >>
      BY <2>8 DEF Memop, LocalInv
    <3>2. CASE /\ \E n \in 1 .. MaxPages : need' = [need EXCEPT ![c] = n]
               /\ calls' = [calls EXCEPT ![c] = Tail(@)]
               /\ Goto(c, "get_head")
               /\ UNCHANGED <<op, i, caller, fp, disturbed>>
      <4>1. need' \in [CPUs -> 0 .. MaxPages]
        BY <3>2, Bounds DEF TypeOK
      <4> QED BY <2>0, <3>1, <3>2, <4>1 DEF TypeOK, LocalTypeOK, Locations
    <3> QED BY <2>0, <2>8, <3>1, <3>2, CallType, ReturnType, Returns DEF Memop
  <2> QED BY <2>1, <2>2, <2>3, <2>4, <2>5, <2>6, <2>7, <2>8 DEF Instruction
<1>2. SharedTypeOK'
  <2> USE DEF TypeOK, SharedTypeOK
  <2>1. CASE Fetch(c) \/ Lock(c) \/ Unlock(c) \/ Access(c)
    BY <2>1 DEF Fetch, Lock, Unlock, Access
  <2>2. CASE WalkSize(c) \/ WalkPid(c) \/ WalkCaller(c) \/ Memop(c)
    BY <2>2 DEF WalkSize, WalkPid, WalkCaller, Memop
  <2>3. CASE GetHead(c)
    BY <2>3 DEF GetHead
  <2>4. CASE GetNext(c)
    <3>1. fp[c] \in Frames
      BY <2>4 DEF GetNext, LocalInv, InGet
    <3> QED BY <1>0, <2>4, <3>1 DEF GetNext
  <2>5. CASE LinkUsed(c)
    <3>1. fp[c] \in Frames
      BY <2>5 DEF LinkUsed, LocalInv, InGet
    <3> QED BY <1>0, <2>5, <3>1 DEF LinkUsed
  <2>6. CASE PushUsed(c)
    BY <1>0, <2>6 DEF PushUsed, NextFrame
  <2> QED BY <2>1, <2>2, <2>3, <2>4, <2>5, <2>6 DEF Instruction
<1> QED BY <1>1, <1>2, TypeSplit
-----------------------------------------------------------------------------
(* Locks and locals                                                        *)

\* The places a CPU can be at, as the sets used here.
LEMMA Places ==
  /\ Executing = {"access", "get_head", "memop", "get_next", "link_used", "push_used",
                  "walk_size", "walk_pid", "walk_caller"}
  /\ InGet = {"get_next", "link_used", "push_used"}
  /\ InWalk = {"walk_size", "walk_pid", "walk_caller"}
BY DEF Executing, InGet, InWalk

(***************************************************************************)
(* mmvm_lock and queue_lock are given up only by their owner, so nobody    *)
(* else loses what it holds; every path through an instruction that took   *)
(* mmvm_lock ends at its release.                                          *)
(***************************************************************************)
LEMMA LockStep ==
  ASSUME TypeOK, LockInv, NEW c \in CPUs, Cpu(c)
  PROVE  LockInv'
<1> USE DEF At, Goto, sched_vars, list_vars, frame_vars, local_vars
<1>1. /\ \/ mmvm_lock' = mmvm_lock
         \/ mmvm_lock = None /\ mmvm_lock' = c
         \/ mmvm_lock = c /\ mmvm_lock' = None
      /\ \/ queue_lock' = queue_lock
         \/ queue_lock = None
         \/ queue_lock = c
  <2>1. CASE Between(c)
    BY <2>1 DEF Between, Keep, PutProc, RemoveProc, Shift, Shorten, GetProc,
                EnqueueSize, Idle, LockInv
  <2>2. CASE Instruction(c)
    BY <2>2 DEF Instruction, Fetch, Lock, Access, Unlock, GetHead, GetNext, LinkUsed, PushUsed,
                NextFrame, WalkSize, WalkPid, WalkCaller, Memop, LockInv
  <2> QED BY <2>1, <2>2 DEF Cpu
<1>2. ASSUME NEW d \in CPUs, d # c
      PROVE  /\ pc'[d] \in Executing \cup {"lock"} => op'[d] \in Ops
             /\ pc'[d] \in Executing /\ op'[d] \notin Unlocked => mmvm_lock' = d
             /\ pc'[d] = "unlock" => mmvm_lock' = d
             /\ pc'[d] \in {"enq_size", "shift"} => queue_lock' = d
  BY <1>1, <1>2, OthersKeep, Bounds DEF LockInv
<1>3. /\ pc'[c] \in Executing \cup {"lock"} => op'[c] \in Ops
      /\ pc'[c] \in Executing /\ op'[c] \notin Unlocked => mmvm_lock' = c
      /\ pc'[c] = "unlock" => mmvm_lock' = c
      /\ pc'[c] \in {"enq_size", "shift"} => queue_lock' = c
  <2> USE Places DEF TypeOK
  <2>1. CASE Between(c)
    BY <2>1, SMTT(30) DEF Between, Keep, PutProc, RemoveProc, Shift, Shorten, GetProc,
                EnqueueSize, Idle, LockInv
  <2>2. CASE Fetch(c) \/ Lock(c) \/ Unlock(c)
    BY <2>2 DEF Fetch, Lock, Unlock, LockInv, Unlocked, Ops
  <2>3. CASE Over(c) /\ pc[c] \in Executing /\ mmvm_lock' = mmvm_lock
    BY <2>3 DEF Over, ReturnTo, LockInv
  <2>4. CASE pc[c] \in Executing /\ op' = op /\ mmvm_lock' = mmvm_lock /\ pc'[c] \in Executing
    BY <2>4 DEF LockInv
  <2>5. CASE Access(c)
    BY <2>3, <2>4, <2>5, Returns DEF Access, Call, Fault
  <2>6. CASE GetHead(c) \/ GetNext(c) \/ LinkUsed(c) \/ PushUsed(c)
    BY <2>3, <2>4, <2>6, Returns DEF GetHead, GetNext, LinkUsed, PushUsed, NextFrame, Call
  <2>7. CASE WalkSize(c) \/ WalkPid(c) \/ WalkCaller(c) \/ Memop(c)
    BY <2>3, <2>4, <2>7, Returns DEF WalkSize, WalkPid, WalkCaller, Memop, Call
  <2> QED BY <2>1, <2>2, <2>5, <2>6, <2>7 DEF Cpu, Instruction
<1> QED BY <1>2, <1>3 DEF LockInv

(***************************************************************************)
(* The converse of LockInv: who holds a lock is in the code that will      *)
(* release it.                                                             *)
(***************************************************************************)
HolderInv ==
  \A c \in CPUs :
    /\ mmvm_lock = c => pc[c] \in Executing \cup {"unlock"} /\ op[c] \notin Unlocked
    /\ queue_lock = c => pc[c] \in {"enq_size", "shift"}
    /\ pc[c] = "lock" => op[c] \notin Unlocked

LEMMA HolderStep ==
  ASSUME TypeOK, LockInv, HolderInv, NEW c \in CPUs, Cpu(c)
  PROVE  HolderInv'
<1> USE DEF At, Goto, sched_vars, list_vars, frame_vars, local_vars
<1>1. mmvm_lock' \in {mmvm_lock, c, None} /\ queue_lock' \in {queue_lock, c, None}
  <2>1. CASE Between(c)
    BY <2>1 DEF Between, Keep, PutProc, RemoveProc, Shift, Shorten, GetProc, EnqueueSize, Idle
  <2>2. CASE Instruction(c)
    BY <2>2 DEF Instruction, Fetch, Lock, Access, Unlock, GetHead, GetNext, LinkUsed, PushUsed,
                NextFrame, WalkSize, WalkPid, WalkCaller, Memop
  <2> QED BY <2>1, <2>2 DEF Cpu
<1>2. ASSUME NEW d \in CPUs, d # c
      PROVE  /\ mmvm_lock' = d => pc'[d] \in Executing \cup {"unlock"} /\ op'[d] \notin Unlocked
             /\ queue_lock' = d => pc'[d] \in {"enq_size", "shift"}
             /\ pc'[d] = "lock" => op'[d] \notin Unlocked
  BY <1>1, <1>2, OthersKeep, Bounds DEF HolderInv
<1>3. /\ mmvm_lock' = c => pc'[c] \in Executing \cup {"unlock"} /\ op'[c] \notin Unlocked
      /\ queue_lock' = c => pc'[c] \in {"enq_size", "shift"}
      /\ pc'[c] = "lock" => op'[c] \notin Unlocked
  <2> USE Places DEF TypeOK
  <2>1. CASE Between(c)
    <3>1. ASSUME pc[c] \in {"idle", "enq_size", "shift"}, mmvm_lock' = mmvm_lock, op' = op,
                 pc'[c] \in {"idle", "fetch", "end", "enq_size", "shift"},
                 queue_lock' = c => pc'[c] \in {"enq_size", "shift"}
          PROVE  /\ mmvm_lock' = c => pc'[c] \in Executing \cup {"unlock"} /\ op'[c] \notin Unlocked
                 /\ queue_lock' = c => pc'[c] \in {"enq_size", "shift"}
                 /\ pc'[c] = "lock" => op'[c] \notin Unlocked
      BY <3>1 DEF HolderInv
    <3>2. ASSUME pc[c] = "idle" PROVE queue_lock # c
      BY <3>2 DEF HolderInv
    <3>3. CASE Keep(c) \/ PutProc(c) \/ Shift(c) \/ Idle(c)
      BY <3>1, <3>2, <3>3 DEF Keep, PutProc, Shift, Idle
    <3>4. CASE RemoveProc(c)
      BY <3>1, <3>2, <3>4 DEF RemoveProc
    <3>5. CASE Shorten(c) \/ EnqueueSize(c)
      BY <3>1, <3>5, Bounds DEF Shorten, EnqueueSize
    <3>6. CASE GetProc(c)
      BY <3>1, <3>2, <3>6 DEF GetProc
    <3> QED BY <2>1, <3>3, <3>4, <3>5, <3>6 DEF Between
  <2>2. CASE Fetch(c) \/ Lock(c) \/ Unlock(c)
    <3>1. queue_lock' = queue_lock /\ queue_lock # c
      BY <2>2 DEF Fetch, Lock, Unlock, HolderInv
    <3>2. CASE Fetch(c)
      <4>1. mmvm_lock' # c
        BY <3>2 DEF Fetch, HolderInv
      <4>2. pc'[c] = "lock" => op'[c] \notin Unlocked
        BY <3>2 DEF Fetch
      <4> QED BY <3>1, <4>1, <4>2
    <3>3. CASE Lock(c)
      <4>1. pc'[c] = "access" /\ op'[c] \notin Unlocked
        BY <3>3 DEF Lock, HolderInv
      <4> QED BY <3>1, <4>1
    <3>4. CASE Unlock(c)
      <4>1. mmvm_lock' # c /\ pc'[c] = "end"
        BY <3>4, Bounds DEF Unlock
      <4> QED BY <3>1, <4>1
    <3> QED BY <2>2, <3>2, <3>3, <3>4
  <2>3. CASE Over(c) /\ pc[c] \in Executing /\ UNCHANGED <<mmvm_lock, queue_lock>>
    BY <2>3 DEF Over, ReturnTo, HolderInv
  <2>4. CASE /\ pc[c] \in Executing /\ op' = op /\ pc'[c] \in Executing
             /\ UNCHANGED <<mmvm_lock, queue_lock>>
    BY <2>4 DEF HolderInv
  <2>5. CASE Access(c)
    BY <2>3, <2>4, <2>5, Returns DEF Access, Call, Fault
  <2>6. CASE GetHead(c) \/ GetNext(c) \/ LinkUsed(c) \/ PushUsed(c)
    BY <2>3, <2>4, <2>6, Returns DEF GetHead, GetNext, LinkUsed, PushUsed, NextFrame, Call
  <2>7. CASE WalkSize(c) \/ WalkPid(c) \/ WalkCaller(c) \/ Memop(c)
    BY <2>3, <2>4, <2>7, Returns DEF WalkSize, WalkPid, WalkCaller, Memop, Call
  <2> QED BY <2>1, <2>2, <2>5, <2>6, <2>7 DEF Cpu, Instruction
<1> QED BY <1>2, <1>3 DEF HolderInv

LEMMA LocalStep ==
  ASSUME TypeOK, LocalInv, NEW c \in CPUs, Cpu(c)
  PROVE  LocalInv'
<1> USE DEF At, Goto, sched_vars, list_vars, frame_vars, local_vars
<1>1. ASSUME NEW d \in CPUs, d # c
      PROVE  /\ pc'[d] \in InGet => fp'[d] # None
             /\ pc'[d] \in InWalk \cup {"memop"} => calls'[d] # << >>
             /\ pc'[d] \in {"walk_pid", "walk_caller"} => i'[d] < ListCap
  BY <1>1, OthersKeep DEF LocalInv
<1>2. /\ pc'[c] \in InGet => fp'[c] # None
      /\ pc'[c] \in InWalk \cup {"memop"} => calls'[c] # << >>
      /\ pc'[c] \in {"walk_pid", "walk_caller"} => i'[c] < ListCap
  <2> USE Places DEF TypeOK
  <2>1. CASE Between(c)
    BY <2>1 DEF Between, Keep, PutProc, RemoveProc, Shift, Shorten, GetProc, EnqueueSize, Idle
  <2>2. CASE Fetch(c) \/ Lock(c) \/ Unlock(c) \/ Over(c) \/ Fault(c)
    BY <2>2 DEF Fetch, Lock, Unlock, Over, ReturnTo, Fault
  <2>3. ASSUME NEW todo, todo # << >>, Call(c, todo)
        PROVE  pc'[c] = "walk_size" /\ calls'[c] # << >>
    BY <2>3 DEF Call
  <2>4. CASE Access(c)
    <3>1. <<"OTHER">> # << >> /\ <<"INC">> # << >>
      OBVIOUS
    <3> QED BY <2>2, <2>3, <2>4, <3>1, Returns DEF Access
  <2>5. CASE GetHead(c) \/ GetNext(c) \/ LinkUsed(c) \/ PushUsed(c)
    BY <2>2, <2>3, <2>5, Returns DEF GetHead, GetNext, LinkUsed, PushUsed, NextFrame, LocalInv
  <2>6. CASE WalkSize(c) \/ WalkPid(c) \/ WalkCaller(c)
    BY <2>6, Bounds, SMTT(30) DEF WalkSize, WalkPid, WalkCaller, LocalInv
  <2>7. CASE Memop(c)
    BY <2>2, <2>3, <2>7, Returns DEF Memop
  <2> QED BY <2>1, <2>2, <2>4, <2>5, <2>6, <2>7 DEF Cpu, Instruction
<1> QED BY <1>1, <1>2 DEF LocalInv
-----------------------------------------------------------------------------
(* The free frame lists                                                    *)

(***************************************************************************)
(* A step outside MEMPHY_get_freefp, or out of it, leaves the lists alone. *)
(***************************************************************************)
LEMMA OutsideGetFrame ==
  ASSUME TypeOK, FrameInv, NEW c \in CPUs, Cpu(c), pc'[c] \notin InGet,
         UNCHANGED <<free_fp_list, fp_next, taken, twice>>, racy' \in BOOLEAN, racy => racy'
  PROVE  FrameInv'
<1>1. \A d \in CPUs : d # c => pc'[d] = pc[d] /\ fp'[d] = fp[d] /\ Device(d)' = Device(d)
  BY OthersKeep DEF Device
<1>2. "link_used" \in InGet /\ "get_next" \in InGet
  BY Places
<1> QED BY <1>1, <1>2 DEF FrameInv

(***************************************************************************)
(* fp = mp->free_fp_list: if another CPU is in MEMPHY_get_freefp for the   *)
(* same device, one of the two has no lock, since the other has mmvm_lock. *)
(***************************************************************************)
LEMMA GetHeadFrame ==
  ASSUME TypeOK, LockInv, FrameInv, NEW c \in CPUs, GetHead(c)
  PROVE  FrameInv'
<1>0. Cpu(c)
  BY DEF Cpu, Instruction
<1>1. /\ UNCHANGED <<free_fp_list, fp_next, taken, twice>> /\ pc[c] = "get_head"
      /\ racy' = (racy \/ OverlapsUnlocked(c)) /\ racy' \in BOOLEAN
  BY DEF GetHead, At, OverlapsUnlocked, TypeOK
<1>2. CASE Return(c)
  <2>1. pc'[c] \notin InGet
    BY <1>2, Places, ReturnPlace
  <2> QED BY <1>0, <1>1, <2>1, OutsideGetFrame
<1>3. CASE ~Return(c)
  <2>1. /\ pc' = [pc EXCEPT ![c] = "get_next"] /\ op' = op
        /\ fp' = [fp EXCEPT ![c] = free_fp_list[Device(c)]]
    BY <1>3 DEF GetHead, Goto
  <2>2. /\ \A d \in CPUs : Device(d)' = Device(d)
        /\ \A d \in CPUs : d # c => pc'[d] = pc[d] /\ fp'[d] = fp[d]
        /\ pc'[c] = "get_next" /\ fp'[c] = free_fp_list[Device(c)]
    BY <2>1 DEF Device, TypeOK
  <2>3. ASSUME ~racy', NEW d \in CPUs, d # c, pc[d] \in InGet
        PROVE  Device(d) # Device(c)
    <3>1. CASE op[c] \in Unlocked \/ op[d] \in Unlocked
      BY <1>1, <2>3, <3>1 DEF OverlapsUnlocked
    <3>2. CASE op[c] \notin Unlocked /\ op[d] \notin Unlocked
      BY <1>1, <2>3, <3>2, Places DEF LockInv
    <3> QED BY <3>1, <3>2
  <2>4. racy => racy'
    BY <1>1
  <2>5. ASSUME ~racy', NEW b \in CPUs, NEW d \in CPUs, b # d, pc'[b] \in InGet, pc'[d] \in InGet
        PROVE  Device(b) # Device(d)
    BY <2>2, <2>3, <2>4, <2>5 DEF FrameInv
  <2>6. \A d \in CPUs : pc'[d] = "link_used" => fp'[d] \in taken[Device(d)]
    BY <2>2 DEF FrameInv
  <2>7. ~racy' => \A d \in CPUs : pc'[d] = "get_next" => fp'[d] = free_fp_list[Device(d)]
    BY <2>2, <2>4 DEF FrameInv
  <2> QED BY <1>1, <2>2, <2>4, <2>5, <2>6, <2>7 DEF FrameInv
<1> QED BY <1>2, <1>3

(***************************************************************************)
(* mp->free_fp_list = fp->fp_next: the frame had not been handed out, and  *)
(* the new head lies above everything that has.                            *)
(***************************************************************************)
LEMMA GetNextFrame ==
  ASSUME TypeOK, LocalInv, FrameInv, NEW c \in CPUs, GetNext(c)
  PROVE  FrameInv'
<1>1. PICK v \in Devices : v = Device(c)
  BY DEF Device, Devices
<1>2. PICK f \in Frames : f = fp[c]
  BY Places DEF GetNext, At, LocalInv, TypeOK
<1>3. /\ pc[c] = "get_next" /\ pc' = [pc EXCEPT ![c] = "link_used"]
      /\ taken' = [taken EXCEPT ![v] = @ \cup {f}]
      /\ twice' = (twice \/ f \in taken[v])
      /\ free_fp_list' = [free_fp_list EXCEPT ![v] = fp_next[v][f]]
      /\ UNCHANGED <<fp_next, racy, op, fp>>
  BY <1>1, <1>2 DEF GetNext, At, Goto, local_vars
<1>4. /\ \A d \in CPUs : Device(d)' = Device(d) /\ fp'[d] = fp[d]
      /\ \A d \in CPUs : d # c => pc'[d] = pc[d]
      /\ pc'[c] = "link_used"
      /\ taken'[v] = taken[v] \cup {f} /\ free_fp_list'[v] = fp_next[v][f]
      /\ \A w \in Devices : w # v => taken'[w] = taken[w] /\ free_fp_list'[w] = free_fp_list[w]
  BY <1>3 DEF Device, TypeOK
<1>5. ASSUME ~racy PROVE f = free_fp_list[v] /\ f \notin taken[v]
                         /\ \A g \in taken[v] : g < f
  <2>1. f = free_fp_list[v] /\ f # None
    BY <1>1, <1>2, <1>3, <1>5, Bounds DEF FrameInv
  <2>2. \A g \in taken[v] : g < f
    BY <1>5, <2>1 DEF FrameInv
  <2>3. ~(f < f)
    BY Bounds
  <2> QED BY <2>1, <2>2, <2>3
<1>6. twice' => racy'
  BY <1>3, <1>5 DEF FrameInv
<1>7. \A d \in CPUs : pc'[d] = "link_used" => fp'[d] \in taken'[Device(d)']
  <2>1. \A d \in CPUs : Device(d) \in Devices
    BY DEF Device, Devices
  <2> QED BY <1>1, <1>2, <1>4, <2>1 DEF FrameInv
<1>8. ASSUME ~racy'
      PROVE  /\ \A b, d \in CPUs : b # d /\ pc'[b] \in InGet /\ pc'[d] \in InGet
                                     => Device(b)' # Device(d)'
             /\ \A d \in CPUs : pc'[d] = "get_next" => fp'[d] = free_fp_list'[Device(d)']
  <2>0. ~racy /\ \A d \in CPUs : Device(d) \in Devices
    BY <1>3, <1>8 DEF Device, Devices
  <2>1. \A d \in CPUs : (pc'[d] \in InGet => pc[d] \in InGet)
    BY <1>3, <1>4, Places
  <2>2. \A b, d \in CPUs : b # d /\ pc[b] \in InGet /\ pc[d] \in InGet => Device(b) # Device(d)
    BY <2>0 DEF FrameInv
  <2>3. \A d \in CPUs : pc'[d] = "get_next" => d # c /\ Device(d) # v
    BY <1>1, <1>3, <1>4, <2>2, Places
  <2> QED BY <1>4, <2>0, <2>1, <2>2, <2>3 DEF FrameInv
<1>9. ASSUME ~racy', NEW w \in Devices
      PROVE  /\ free_fp_list'[w] # None => \A g \in taken'[w] : g < free_fp_list'[w]
             /\ \A g \in Frames \ taken'[w] : fp_next'[w][g] = FormattedNext[g]
  <2>0. ~racy
    BY <1>3, <1>9
  <2>1. CASE w # v
    BY <1>3, <1>4, <2>0, <2>1 DEF FrameInv
  <2>2. CASE w = v
    <3>1. fp_next[v][f] = FormattedNext[f]
      BY <1>5, <2>0 DEF FrameInv
    <3>2. fp_next[v][f] # None => fp_next[v][f] = f + 1
      BY <3>1 DEF FormattedNext
    <3>3. \A g \in taken[v] : g < f /\ g \in Nat
      BY <1>5, <2>0, Bounds DEF TypeOK
    <3>4. \A g \in taken[v] \cup {f} : g < f + 1
      BY <3>3, Bounds
    <3> QED BY <1>3, <1>4, <2>0, <2>2, <3>2, <3>4 DEF FrameInv
  <2> QED BY <2>1, <2>2
<1> QED BY <1>6, <1>7, <1>8, <1>9 DEF FrameInv

(***************************************************************************)
(* fp->fp_next = mp->used_fp_list writes the link of a frame that has been *)
(* taken.                                                                  *)
(***************************************************************************)
LEMMA LinkUsedFrame ==
  ASSUME TypeOK, LocalInv, FrameInv, NEW c \in CPUs, LinkUsed(c)
  PROVE  FrameInv'
<1>1. PICK v \in Devices : v = Device(c)
  BY DEF Device, Devices
<1>2. PICK f \in Frames : f = fp[c]
  BY Places DEF LinkUsed, At, LocalInv, TypeOK
<1>3. /\ pc[c] = "link_used" /\ pc' = [pc EXCEPT ![c] = "push_used"]
      /\ fp_next' = [fp_next EXCEPT ![v][f] = used_fp_list[v]]
      /\ UNCHANGED <<taken, twice, racy, free_fp_list, op, fp>>
  BY <1>1, <1>2 DEF LinkUsed, At, Goto, local_vars
<1>4. /\ \A d \in CPUs : Device(d)' = Device(d) /\ fp'[d] = fp[d]
      /\ \A d \in CPUs : d # c => pc'[d] = pc[d]
      /\ pc'[c] = "push_used"
  BY <1>3 DEF Device, TypeOK
<1>5. f \in taken[v]
  BY <1>1, <1>2, <1>3 DEF FrameInv
<1>6. \A w \in Devices : \A g \in Frames \ taken[w] : fp_next'[w][g] = fp_next[w][g]
  BY <1>3, <1>5 DEF TypeOK
<1>7. \A d \in CPUs : /\ pc'[d] \in InGet => pc[d] \in InGet
                      /\ pc'[d] \in {"link_used", "get_next"} => pc[d] = pc'[d]
  BY <1>3, <1>4, Places
<1> QED BY <1>3, <1>4, <1>6, <1>7 DEF FrameInv

LEMMA FrameStep ==
  ASSUME TypeOK, LockInv, LocalInv, FrameInv, NEW c \in CPUs, Cpu(c)
  PROVE  FrameInv'
<1>1. CASE GetHead(c) \/ GetNext(c) \/ LinkUsed(c)
  BY <1>1, GetHeadFrame, GetNextFrame, LinkUsedFrame
<1>2. CASE ~(GetHead(c) \/ GetNext(c) \/ LinkUsed(c))
  <2> USE DEF Goto
  <2>1. /\ UNCHANGED <<free_fp_list, fp_next, taken, twice, racy>>
        /\ pc'[c] \notin InGet
    <3>1. CASE Between(c)
      BY <3>1, Places
      DEF Between, Keep, PutProc, RemoveProc, Shift, Shorten, GetProc, EnqueueSize, Idle,
          frame_vars, TypeOK, At
    <3>2. CASE Fetch(c) \/ Lock(c) \/ Access(c) \/ Unlock(c) \/ PushUsed(c)
      BY <3>2, Places, Returns
      DEF Fetch, Lock, Access, Unlock, PushUsed, NextFrame, Call, Over, ReturnTo, Fault,
                          frame_vars, TypeOK
    <3>3. CASE WalkSize(c) \/ WalkPid(c) \/ WalkCaller(c) \/ Memop(c)
      BY <3>3, Places, Returns
      DEF WalkSize, WalkPid, WalkCaller, Memop, Call, Over, ReturnTo, frame_vars, TypeOK
    <3> QED BY <1>2, <3>1, <3>2, <3>3 DEF Cpu, Instruction
  <2> QED BY <2>1, OutsideGetFrame DEF TypeOK
<1> QED BY <1>1, <1>2
-----------------------------------------------------------------------------
(* running_list and the walk over it                                       *)

(***************************************************************************)
(* put_proc, get_proc and remove_proc keep a process in one place.         *)
(***************************************************************************)
LEMMA HeldStep ==
  ASSUME TypeOK, HeldInv, NEW c \in CPUs, Cpu(c)
  PROVE  HeldInv'
<1>0. /\ proc \in [CPUs -> Procs \cup {None}] /\ ready \in Seq(Procs)
      /\ Len(ready) \in Nat /\ \A j \in 1 .. Len(ready) : ready[j] \in Procs
  BY DEF TypeOK
<1>1. CASE PutProc(c)
  <2>1. PICK p \in Procs : p = proc[c]
    BY <1>0, <1>1 DEF PutProc
  <2>2. /\ Len(Append(ready, p)) = Len(ready) + 1
        /\ \A j \in 1 .. Len(ready) : Append(ready, p)[j] = ready[j]
        /\ Append(ready, p)[Len(ready) + 1] = p
    BY <1>0, AppendProperties
  <2>3. ready' = Append(ready, p) /\ proc' = [proc EXCEPT ![c] = None]
    BY <1>1, <2>1 DEF PutProc
  <2>4. /\ proc'[c] = None
        /\ \A d \in CPUs : d # c => proc'[d] = proc[d] /\ proc[d] # p
    BY <1>0, <2>1, <2>3, Bounds DEF HeldInv
  <2>5. \A j \in 1 .. Len(ready') : \/ j \in 1 .. Len(ready) /\ ready'[j] = ready[j]
                                    \/ j = Len(ready) + 1 /\ ready'[j] = p
    <3> TAKE j \in 1 .. Len(ready')
    <3>1. Len(ready') = Len(ready) + 1
      BY <2>2, <2>3
    <3>2. j \in 1 .. Len(ready) \/ j = Len(ready) + 1
      BY <1>0, <3>1
    <3> QED BY <2>2, <2>3, <3>2
  <2>6. \A j \in 1 .. Len(ready) : ready[j] # p /\ ready[j] \in Procs
    BY <1>0, <2>1 DEF HeldInv
  <2>7. \A j, k \in 1 .. Len(ready') : ready'[j] = ready'[k] => j = k
    BY <2>5, <2>6 DEF HeldInv
  <2>8. \A j \in 1 .. Len(ready') : \A d \in CPUs : proc'[d] # ready'[j]
    <3> TAKE j \in 1 .. Len(ready')
    <3> TAKE d \in CPUs
    <3>1. CASE j \in 1 .. Len(ready) /\ ready'[j] = ready[j]
      BY <2>4, <2>6, <3>1, Bounds DEF HeldInv
    <3>2. CASE ready'[j] = p
      BY <2>4, <3>2, Bounds
    <3> QED BY <2>5, <3>1, <3>2
  <2>9. ASSUME NEW b \in CPUs, NEW d \in CPUs, proc'[b] = proc'[d], proc'[b] # None
        PROVE  b = d
    BY <2>4, <2>9 DEF HeldInv
  <2> QED BY <2>7, <2>8, <2>9 DEF HeldInv
<1>2. CASE GetProc(c)
  <2>1. /\ ready # << >> /\ proc' = [proc EXCEPT ![c] = Head(ready)] /\ ready' = Tail(ready)
    BY <1>2 DEF GetProc
  <2>2. /\ Head(ready) = ready[1] /\ Len(ready) >= 1 /\ Len(ready) \in Nat
        /\ Len(ready') = Len(ready) - 1 /\ \A j \in 1 .. Len(ready') : ready'[j] = ready[j + 1]
    BY <1>0, <2>1, TailProperties
  <2>3. PICK p : p = ready[1]
    OBVIOUS
  <2>4. proc'[c] = p /\ \A d \in CPUs : d # c => proc'[d] = proc[d] /\ proc[d] # p
    BY <1>0, <2>1, <2>2, <2>3 DEF HeldInv
  <2>5. \A j \in 1 .. Len(ready') : /\ j + 1 \in 1 .. Len(ready) /\ ready'[j] = ready[j + 1]
                                    /\ ready[j + 1] # p
    BY <2>2, <2>3 DEF HeldInv
  <2>6. \A j, k \in 1 .. Len(ready') : ready'[j] = ready'[k] => j = k
    BY <2>5 DEF HeldInv
  <2>7. \A j \in 1 .. Len(ready') : \A d \in CPUs : proc'[d] # ready'[j]
    <3> TAKE j \in 1 .. Len(ready')
    <3> TAKE d \in CPUs
    <3>1. j + 1 \in 1 .. Len(ready) /\ ready'[j] = ready[j + 1] /\ ready[j + 1] # p
      BY <2>5
    <3> QED BY <2>4, <3>1 DEF HeldInv
  <2>8. ASSUME NEW b \in CPUs, NEW d \in CPUs, proc'[b] = proc'[d], proc'[b] # None
        PROVE  b = d
    BY <2>4, <2>8 DEF HeldInv
  <2> QED BY <2>6, <2>7, <2>8 DEF HeldInv
<1>3. CASE ready' = ready /\ (proc' = proc \/ proc' = [proc EXCEPT ![c] = None])
  <2>1. \A d \in CPUs : proc'[d] = proc[d] \/ proc'[d] = None
    BY <1>0, <1>3
  <2>2. \A k \in 1 .. Len(ready) : ready[k] # None
    BY <1>0, Bounds
  <2> QED BY <1>3, <2>1, <2>2 DEF HeldInv
<1>4. CASE Between(c) /\ ~PutProc(c) /\ ~GetProc(c)
  BY <1>3, <1>4 DEF Between, Keep, RemoveProc, Shift, Shorten, EnqueueSize, Idle, sched_vars
<1>5. CASE Instruction(c)
  BY <1>3, <1>5 DEF Instruction, Fetch, Lock, Access, Unlock, GetHead, GetNext, LinkUsed,
                    PushUsed, NextFrame, WalkSize, WalkPid, WalkCaller, Memop, sched_vars
<1> QED BY <1>1, <1>2, <1>4, <1>5 DEF Cpu

(***************************************************************************)
(* Every write to running_list is under queue_lock: what the holder has    *)
(* seen of it stays true until it lets go.                                 *)
(***************************************************************************)
LEMMA ListStep ==
  ASSUME TypeOK, LockInv, ListInv, NEW c \in CPUs, Cpu(c)
  PROVE  ListInv'
<1> USE DEF At, Goto, sched_vars, list_vars, frame_vars, local_vars
<1>1. queue_lock \in {None, c} \/ UNCHANGED <<list, size>>
  <2>1. CASE Between(c)
    BY <2>1 DEF Between, Keep, PutProc, RemoveProc, Shift, Shorten, GetProc,
                EnqueueSize, Idle, LockInv
  <2>2. CASE Instruction(c)
    BY <2>2 DEF Instruction, Fetch, Lock, Access, Unlock, GetHead, GetNext, LinkUsed, PushUsed,
                NextFrame, WalkSize, WalkPid, WalkCaller, Memop
  <2> QED BY <2>1, <2>2 DEF Cpu
<1>2. ASSUME NEW d \in CPUs, d # c
      PROVE  /\ pc'[d] = "enq_size" =>
                  size' < ListCap /\ list'[size'] = proc'[d] /\ proc'[d] # None
             /\ pc'[d] = "shift" => i'[d] < size'
  <2>1. pc'[d] = pc[d] /\ proc'[d] = proc[d] /\ i'[d] = i[d]
    BY <1>2, OthersKeep
  <2>2. pc[d] \in {"enq_size", "shift"} => UNCHANGED <<list, size>>
    BY <1>1, <1>2, Bounds DEF LockInv
  <2> QED BY <2>1, <2>2 DEF ListInv
<1>3. /\ pc'[c] = "enq_size" =>
           size' < ListCap /\ list'[size'] = proc'[c] /\ proc'[c] # None
      /\ pc'[c] = "shift" => i'[c] < size'
  <2> USE DEF TypeOK
  <2>1. CASE GetProc(c)
    <3>1. Head(ready) \in Procs
      BY <2>1, TailProperties DEF GetProc
    <3> QED BY <2>1, <3>1, Bounds DEF GetProc
  <2>2. CASE RemoveProc(c)
    <3>1. pc'[c] = "shift" => \E k \in 0 .. size - 1 : i' = [i EXCEPT ![c] = k]
      BY <2>2 DEF RemoveProc
    <3> QED BY <2>2, <3>1 DEF RemoveProc
  <2>3. CASE Shift(c)
    <3>1. i'[c] = i[c] + 1 /\ i[c] + 1 < size /\ size' = size /\ pc'[c] = "shift"
      BY <2>3 DEF Shift
    <3> QED BY <3>1
  <2>4. CASE pc'[c] \notin {"enq_size", "shift"}
    BY <2>4
  <2>5. CASE Keep(c) \/ PutProc(c) \/ Shorten(c) \/ EnqueueSize(c) \/ Idle(c)
    BY <2>4, <2>5 DEF Keep, PutProc, Shorten, EnqueueSize, Idle
  <2>6. CASE Instruction(c)
    BY <2>4, <2>6, Returns
    DEF Instruction, Fetch, Lock, Access, Unlock, GetHead, GetNext, LinkUsed, PushUsed, NextFrame,
        WalkSize, WalkPid, WalkCaller, Memop, Call, Over, ReturnTo, Fault
  <2> QED BY <2>1, <2>2, <2>3, <2>5, <2>6 DEF Cpu, Between
<1> QED BY <1>2, <1>3 DEF ListInv

(***************************************************************************)
(* What another CPU may do to running_list under a walk that it does not   *)
(* disturb: store a process that the walker does not hold behind the end.  *)
(***************************************************************************)
LEMMA UndisturbedList ==
  ASSUME MemIInv, NEW c \in CPUs, Cpu(c), NEW d \in CPUs, d # c,
         pc[d] \in InWalk, ~disturbed'[d]
  PROVE  /\ ~disturbed[d] /\ size' >= size
         /\ \A k \in 0 .. ListCap - 1 : list'[k] = list[k] \/ (k = size /\ list'[k] # proc[d])
<1> USE DEF MemIInv
<1>1. ~disturbed[d]
  BY OthersKeep
<1>2. ~Shift(c) /\ ~Shorten(c)
  BY DEF Shift, Shorten, Disturb
<1>3. CASE GetProc(c)
  <2>1. Head(ready) = ready[1] /\ 1 \in 1 .. Len(ready)
    BY <1>3, TailProperties DEF GetProc, TypeOK
  <2>2. Head(ready) # proc[d]
    BY <2>1 DEF HeldInv
  <2>3. /\ size' = size /\ size \in Nat
        /\ list' = list \/ list' = [list EXCEPT ![size] = Head(ready)]
    BY <1>3 DEF GetProc, TypeOK
  <2>4. list \in [0 .. ListCap - 1 -> Procs \cup {None}]
    BY DEF TypeOK
  <2>5. ASSUME NEW k \in 0 .. ListCap - 1
        PROVE  list'[k] = list[k] \/ (k = size /\ list'[k] # proc[d])
    <3>1. CASE list' = list
      BY <3>1
    <3>2. CASE list' = [list EXCEPT ![size] = Head(ready)]
      BY <2>2, <2>4, <3>2
    <3> QED BY <2>3, <3>1, <3>2
  <2> QED BY <1>1, <2>3, <2>5
<1>4. CASE EnqueueSize(c)
  BY <1>1, <1>4 DEF EnqueueSize, TypeOK
<1>5. CASE UNCHANGED <<list, size>>
  BY <1>1, <1>5 DEF TypeOK
<1>6. CASE Between(c) /\ ~GetProc(c) /\ ~EnqueueSize(c)
  BY <1>2, <1>5, <1>6 DEF Between, Keep, PutProc, RemoveProc, Idle, list_vars
<1>7. CASE Instruction(c)
  BY <1>5, <1>7
  DEF Instruction, Fetch, Lock, Access, Unlock, GetHead, GetNext, LinkUsed, PushUsed, NextFrame,
      WalkSize, WalkPid, WalkCaller, Memop, list_vars
<1> QED BY <1>3, <1>4, <1>6, <1>7 DEF Cpu

LEMMA WalkStep ==
  ASSUME MemIInv, NEW c \in CPUs, Cpu(c)
  PROVE  WalkInv'
<1> USE DEF At, Goto, sched_vars, list_vars, frame_vars, local_vars, MemIInv
<1> DEFINE Walk(d) ==
      /\ pc[d] \in {"walk_size", "walk_pid"} => caller[d] = None
      /\ pc[d] \in InWalk /\ ~disturbed[d] =>
           \A k \in 0 .. ListCap - 1 : k < i[d] => list[k] # proc[d]
      /\ pc[d] \in {"walk_pid", "walk_caller"} /\ ~disturbed[d] => i[d] < size
      /\ pc[d] = "walk_caller" /\ ~disturbed[d] => list[i[d]] = proc[d]
<1>1. \A d \in CPUs : Walk(d)
  BY DEF WalkInv
<1>2. ASSUME NEW d \in CPUs, d # c PROVE Walk(d)'
  <2>1. /\ pc'[d] = pc[d] /\ proc'[d] = proc[d] /\ i'[d] = i[d] /\ caller'[d] = caller[d]
    BY <1>2, OthersKeep
  <2>2. CASE pc[d] \in InWalk /\ ~disturbed'[d]
    <3>1. /\ ~disturbed[d] /\ size' >= size
          /\ \A k \in 0 .. ListCap - 1 : list'[k] = list[k] \/ (k = size /\ list'[k] # proc[d])
      BY <1>2, <2>2, UndisturbedList
    <3>2. i[d] \in 0 .. ListCap /\ size \in 0 .. ListCap /\ size' \in Nat
      BY <1>2, BetweenType, InstructionType DEF TypeOK, Cpu
    <3>3. pc[d] = "walk_caller" => list'[i[d]] = proc[d]
      BY <1>1, <3>1, <3>2, Bounds, Places
    <3> QED BY <1>1, <2>1, <3>1, <3>2, <3>3, Places
  <2>3. CASE ~(pc[d] \in InWalk /\ ~disturbed'[d])
    BY <1>1, <2>1, <2>3, Places
  <2> QED BY <2>2, <2>3
<1>3. Walk(c)'
  <2> USE Places
  <2>1. CASE pc'[c] \notin InWalk
    BY <2>1
  <2>2. ASSUME NEW todo, Call(c, todo) PROVE Walk(c)'
    BY <2>2, Bounds DEF Call, TypeOK
  <2>3. CASE WalkSize(c)
    BY <1>1, <2>3 DEF WalkSize, TypeOK
  <2>4. CASE WalkPid(c)
    <3>1. CASE list[i[c]] = proc[c]
      BY <1>1, <2>4, <3>1 DEF WalkPid, TypeOK
    <3>2. CASE list[i[c]] # proc[c]
      <4>1. /\ i'[c] = i[c] + 1 /\ pc'[c] = "walk_size" /\ pc[c] = "walk_pid"
            /\ UNCHANGED <<proc, list, size, caller, disturbed>>
        BY <2>4, <3>2 DEF WalkPid, TypeOK
      <4>2. \A k \in 0 .. ListCap - 1 : k < i[c] + 1 => k < i[c] \/ k = i[c]
        BY Bounds DEF TypeOK
      <4> QED BY <1>1, <3>2, <4>1, <4>2
    <3> QED BY <3>1, <3>2
  <2>5. CASE Between(c)
    BY <2>1, <2>5
    DEF Between, Keep, PutProc, RemoveProc, Shift, Shorten, GetProc, EnqueueSize, Idle, TypeOK
  <2>6. CASE Fetch(c) \/ Lock(c) \/ Unlock(c) \/ Over(c) \/ Fault(c) \/ WalkCaller(c)
    BY <2>1, <2>6 DEF Fetch, Lock, Unlock, Over, ReturnTo, Fault, WalkCaller, TypeOK
  <2>7. CASE Access(c) \/ Memop(c)
    BY <2>1, <2>2, <2>6, <2>7, Returns DEF Access, Memop, TypeOK
  <2>8. CASE GetHead(c) \/ GetNext(c) \/ LinkUsed(c) \/ PushUsed(c)
    BY <2>1, <2>2, <2>6, <2>8, Returns DEF GetHead, GetNext, LinkUsed, PushUsed, NextFrame, TypeOK
  <2> QED BY <2>3, <2>4, <2>5, <2>6, <2>7, <2>8 DEF Cpu, Instruction
<1>4. \A d \in CPUs : Walk(d)'
  BY <1>2, <1>3
<1> QED BY <1>4 DEF WalkInv

(***************************************************************************)
(* A process that another CPU walks for is listed by nobody else.          *)
(***************************************************************************)
LEMMA NotListedByOthers ==
  ASSUME MemIInv, NEW c \in CPUs, Cpu(c), NEW d \in CPUs, d # c, ~Listed(proc[d])
  PROVE  \A k \in 0 .. size' - 1 : list'[k] # proc[d]
<1> USE DEF MemIInv
<1>0. /\ size \in 0 .. ListCap /\ list \in [0 .. ListCap - 1 -> Procs \cup {None}]
      /\ i[c] \in 0 .. ListCap /\ \A k \in 0 .. size - 1 : list[k] # proc[d]
  BY DEF TypeOK, Listed
<1>1. CASE GetProc(c)
  <2>1. size' = size /\ (list' = list \/ list' = [list EXCEPT ![size] = Head(ready)])
    BY <1>1 DEF GetProc
  <2>2. \A k \in 0 .. size - 1 : k \in 0 .. ListCap - 1 /\ k # size
    BY <1>0, Bounds
  <2>3. \A k \in 0 .. size - 1 : list'[k] = list[k]
    BY <1>0, <2>1, <2>2
  <2> QED BY <1>0, <2>1, <2>3
<1>2. CASE EnqueueSize(c)
  <2>1. size' = size + 1 /\ list' = list /\ list[size] = proc[c] /\ proc[c] # None
    BY <1>2 DEF EnqueueSize, ListInv, At
  <2>2. proc[c] # proc[d]
    BY <2>1 DEF HeldInv
  <2>3. \A k \in 0 .. size' - 1 : k \in 0 .. size - 1 \/ k = size
    BY <1>0, <2>1
  <2> QED BY <1>0, <2>1, <2>2, <2>3
<1>3. CASE Shift(c)
  <2>1. /\ i[c] + 1 < size /\ size' = size
        /\ list' = [list EXCEPT ![i[c]] = list[i[c] + 1]]
    BY <1>3 DEF Shift
  <2>2. i[c] + 1 \in 0 .. size - 1 /\ \A k \in 0 .. size - 1 : k \in 0 .. ListCap - 1
    BY <1>0, <2>1, Bounds
  <2>3. \A k \in 0 .. size - 1 : list'[k] = list[k] \/ list'[k] = list[i[c] + 1]
    BY <1>0, <2>1, <2>2
  <2> QED BY <1>0, <2>1, <2>2, <2>3
<1>4. CASE Shorten(c)
  <2>1. size' = size - 1 /\ list' = list
    BY <1>4 DEF Shorten
  <2> QED BY <1>0, <2>1
<1>5. CASE UNCHANGED <<list, size>>
  BY <1>0, <1>5
<1>6. CASE Keep(c) \/ PutProc(c) \/ RemoveProc(c) \/ Idle(c)
  BY <1>5, <1>6 DEF Keep, PutProc, RemoveProc, Idle, list_vars
<1>7. CASE Instruction(c)
  BY <1>5, <1>7
  DEF Instruction, Fetch, Lock, Access, Unlock, GetHead, GetNext, LinkUsed, PushUsed, NextFrame,
      WalkSize, WalkPid, WalkCaller, Memop, list_vars
<1> QED BY <1>1, <1>2, <1>3, <1>4, <1>6, <1>7 DEF Cpu, Between

LEMMA FindsStep ==
  ASSUME MemIInv, NEW c \in CPUs, Cpu(c)
  PROVE  WalkFindsCaller'
<1> USE DEF At, Goto, sched_vars, list_vars, frame_vars, local_vars, MemIInv
<1>1. ASSUME NEW d \in CPUs, d # c, pc'[d] = "memop", ~disturbed'[d]
      PROVE  \/ caller'[d] = proc'[d]
             \/ caller'[d] = None /\ \A k \in 0 .. size' - 1 : list'[k] # proc'[d]
  <2>1. /\ pc[d] = "memop" /\ ~disturbed[d] /\ caller'[d] = caller[d] /\ proc'[d] = proc[d]
    BY <1>1, OthersKeep
  <2> QED BY <1>1, <2>1, NotListedByOthers DEF WalkFindsCaller
<1>2. ASSUME pc'[c] = "memop", ~disturbed'[c]
      PROVE  \/ caller'[c] = proc'[c]
             \/ caller'[c] = None /\ \A k \in 0 .. size' - 1 : list'[k] # proc'[c]
  <2>1. CASE WalkSize(c)
    <3>1. /\ pc[c] = "walk_size" /\ ~(i[c] < size) /\ ~disturbed[c] /\ caller[c] = None
          /\ UNCHANGED <<proc, list, size, caller>>
      BY <1>2, <2>1 DEF WalkSize, WalkInv, TypeOK
    <3>2. \A k \in 0 .. ListCap - 1 : k < i[c] => list[k] # proc[c]
      BY <3>1, Places DEF WalkInv
    <3>3. \A k \in 0 .. size - 1 : k \in 0 .. ListCap - 1 /\ k < i[c]
      BY <3>1, Bounds, SMTT(30) DEF TypeOK
    <3> QED BY <3>1, <3>2, <3>3
  <2>2. CASE WalkCaller(c)
    BY <1>2, <2>2 DEF WalkCaller, WalkInv, TypeOK
  <2>3. CASE Between(c)
    BY <1>2, <2>3
    DEF Between, Keep, PutProc, RemoveProc, Shift, Shorten, GetProc, EnqueueSize, Idle, TypeOK
  <2>4. CASE Fetch(c) \/ Lock(c) \/ Access(c) \/ Unlock(c) \/ WalkPid(c)
    BY <1>2, <2>4, Returns
    DEF Fetch, Lock, Access, Unlock, WalkPid, Call, Over, ReturnTo, Fault, TypeOK
  <2>5. CASE GetHead(c) \/ GetNext(c) \/ LinkUsed(c) \/ PushUsed(c) \/ Memop(c)
    BY <1>2, <2>5, ReturnPlace DEF GetHead, GetNext, LinkUsed, PushUsed,
        NextFrame, Memop, Call, TypeOK
  <2> QED BY <2>1, <2>2, <2>3, <2>4, <2>5 DEF Cpu, Instruction
<1> QED BY <1>1, <1>2 DEF WalkFindsCaller, Listed
-----------------------------------------------------------------------------
(* Theorems                                                                *)

LEMMA MemNext ==
  ASSUME MemIInv, [Next]_vars
  PROVE  MemIInv'
<1>1. ASSUME NEW c \in CPUs, Cpu(c) PROVE MemIInv'
  <2>1. TypeOK'
    BY <1>1, BetweenType, InstructionType DEF MemIInv, Cpu
  <2>2. LockInv' /\ LocalInv' /\ FrameInv' /\ HeldInv' /\ ListInv'
    BY <1>1, LockStep, LocalStep, FrameStep, HeldStep, ListStep DEF MemIInv
  <2>3. WalkInv' /\ WalkFindsCaller'
    BY <1>1, WalkStep, FindsStep
  <2> QED BY <2>1, <2>2, <2>3 DEF MemIInv
<1>2. CASE UNCHANGED <<sched_vars, list_vars, mmvm_lock, frame_vars, local_vars>>
           /\ (pc' = pc \/ pc' = [c \in CPUs |-> "idle"])
  <2> USE <1>2, Places DEF MemIInv, sched_vars, list_vars, frame_vars, local_vars
  <2>1. \A c \in CPUs : pc'[c] = pc[c] \/ pc'[c] = "idle"
    OBVIOUS
  <2>2. TypeOK'
    BY DEF TypeOK, Locations
  <2>3. LockInv' /\ LocalInv' /\ HeldInv' /\ ListInv'
    BY <2>1 DEF LockInv, LocalInv, HeldInv, ListInv
  <2>4. FrameInv'
    <3>1. \A c \in CPUs : Device(c)' = Device(c)
      BY DEF Device
    <3> QED BY <2>1, <3>1 DEF FrameInv
  <2>5. WalkInv' /\ WalkFindsCaller'
    BY <2>1 DEF WalkInv, WalkFindsCaller, Listed, At
  <2> QED BY <2>2, <2>3, <2>4, <2>5
<1> QED BY <1>1, <1>2 DEF Next, NextSlot, vars

(***************************************************************************)
(* The invariant of the memory instructions, for any number of CPUs,       *)
(* processes, frames and places, races included.                           *)
(***************************************************************************)
THEOREM MemInvariance == Spec => []MemIInv
BY MemInit, MemNext, PTL DEF Spec

(***************************************************************************)
(* The indices and links of running_list and of the frame lists stay in    *)
(* range, even when READ and SYSCALL race with the instructions that hold  *)
(* mmvm_lock.                                                              *)
(***************************************************************************)
THEOREM MemTypeCorrect == Spec => []TypeOK
<1>1. MemIInv => TypeOK
  BY DEF MemIInv
<1> QED BY <1>1, MemInvariance, PTL

(***************************************************************************)
(* Whatever the CPUs do, MEMPHY_get_freefp hands a frame out twice only    *)
(* after two takers of which one had no lock were in it together.          *)
(***************************************************************************)
THEOREM FramesAreGivenOnce == Spec => []FramesGivenOnce
<1>1. MemIInv => FramesGivenOnce
  BY DEF MemIInv, FrameInv, FramesGivenOnce
<1> QED BY <1>1, MemInvariance, PTL

(***************************************************************************)
(* The walk of __sys_memmap, which takes no lock, finds its process or     *)
(* finds it not listed, unless purgequeue moved the list under it.         *)
(***************************************************************************)
THEOREM TheWalkFindsItsCaller == Spec => []WalkFindsCaller
<1>1. MemIInv => WalkFindsCaller
  BY DEF MemIInv
<1> QED BY <1>1, MemInvariance, PTL

(***************************************************************************)
(* mmvm_lock and queue_lock are held exactly in the code they protect, in  *)
(* every interleaving of any number of CPUs: no early return of __alloc,   *)
(* __free or __write keeps mmvm_lock, and no CPU holds both locks.         *)
(***************************************************************************)
THEOREM LocksStayScoped == Spec => []LocksScoped
<1>1. Init => HolderInv
  BY Bounds DEF Init, HolderInv
<1>2. MemIInv /\ HolderInv /\ [Next]_vars => HolderInv'
  <2> SUFFICES ASSUME MemIInv, HolderInv, [Next]_vars PROVE HolderInv'
    OBVIOUS
  <2>1. CASE NextSlot
    <3>1. /\ \A c \in CPUs : pc[c] = "end" /\ pc'[c] = "idle"
          /\ mmvm_lock' = mmvm_lock /\ queue_lock' = queue_lock
      BY <2>1 DEF NextSlot, At, list_vars
    <3> QED BY <3>1, Places DEF HolderInv
  <2>2. CASE UNCHANGED vars
    BY <2>2 DEF HolderInv, vars, list_vars, local_vars
  <2> QED BY <2>1, <2>2, HolderStep DEF MemIInv, Next
<1>3. MemIInv /\ HolderInv => LocksScoped
  BY DEF MemIInv, LockInv, HolderInv, LocksScoped
<1> QED BY <1>1, <1>2, <1>3, MemInvariance, PTL DEF Spec
=============================================================================
