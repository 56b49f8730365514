------------------------------- MODULE Timer -------------------------------
(***************************************************************************)
(* timer.c: the barrier that keeps the CPUs and the loader in the same     *)
(* time slot.  Every critical section of a device's event_lock or          *)
(* timer_lock is one action: both mutexes are only held for straight-line  *)
(* code, and pthread_cond_wait releases its mutex atomically with the test *)
(* that precedes it.                                                       *)
(*                                                                         *)
(* Devices are the threads that call attach_event/next_slot/detach_event;  *)
(* what they do inside a slot is the business of OS.tla.  MaxTime bounds   *)
(* the number of slots: at the bound a device may only detach.             *)
(*                                                                         *)
(* Here and in the other modules, an operator whose name says it leaves    *)
(* something out (NoWakeTimer, KeepCounters, AtEndOneEarly) is a plausible *)
(* bug of the definition after it.  No specification uses it: PROJECT.json *)
(* pairs it with the property that catches it.                             *)
(***************************************************************************)
EXTENDS Naturals, Sequences

CONSTANTS Devices, MaxTime

ASSUME MaxTimeAssumption == MaxTime \in Nat

VARIABLES
  time,           \* _time
  dev_list,       \* the linked list of timer_id containers, head first
  done, fsh,      \* the fields of each container
  timer_started, timer_stop,
  tpc,            \* where timer_routine is
  temp,           \* its cursor, as a position in dev_list (Len+1 is NULL)
  nfsh, event,    \* its local counters fsh and event
  dpc,            \* where each device thread is in the timer's interface
  mpc             \* where main is: it attaches, starts, joins and stops

timer_thread == <<tpc, temp, nfsh, event>>
list_vars == <<dev_list, timer_started>>
vars == <<time, dev_list, done, fsh, timer_started, timer_stop, tpc, temp,
          nfsh, event, dpc, mpc>>

TypeOK ==
  /\ time \in Nat
  /\ dev_list \in Seq(Devices)
  /\ done \in [Devices -> BOOLEAN]
  /\ fsh \in [Devices -> BOOLEAN]
  /\ timer_started \in BOOLEAN
  /\ timer_stop \in BOOLEAN
  /\ tpc \in {"off", "loop", "scan", "wait", "release", "exit"}
  /\ temp \in Nat /\ nfsh \in Nat /\ event \in Nat
  /\ mpc # "end" => /\ temp \in 1 .. Len(dev_list) + 1
                    /\ nfsh <= event /\ event <= Len(dev_list)
  /\ dpc \in [Devices -> {"none", "work", "check", "wait", "exited"}]
  /\ mpc \in {"attach", "run", "join", "end"}

Init ==
  /\ time = 0
  /\ dev_list = << >>
  /\ done = [d \in Devices |-> FALSE]
  /\ fsh = [d \in Devices |-> FALSE]
  /\ timer_started = FALSE
  /\ timer_stop = FALSE
  /\ tpc = "off"
  /\ temp = 1
  /\ nfsh = 0
  /\ event = 0
  /\ dpc = [d \in Devices |-> "none"]
  /\ mpc = "attach"
-----------------------------------------------------------------------------
(* main: attach_event for every device, start_timer, stop_timer            *)

\* A new container goes to the head of the list; refused once started.
AttachEvent(d) ==
  /\ mpc = "attach"
  /\ ~timer_started
  /\ dpc[d] = "none"
  /\ dev_list' = <<d>> \o dev_list
  /\ done' = [done EXCEPT ![d] = FALSE]
  /\ fsh' = [fsh EXCEPT ![d] = FALSE]
  /\ dpc' = [dpc EXCEPT ![d] = "work"]
  /\ UNCHANGED <<time, timer_started, timer_stop, timer_thread, mpc>>

\* main attaches the loader and every CPU before it starts the timer.
StartTimer ==
  /\ mpc = "attach"
  /\ \A d \in Devices : dpc[d] # "none"
  /\ timer_started' = TRUE
  /\ tpc' = "loop"
  /\ mpc' = "run"
  /\ UNCHANGED <<time, dev_list, done, fsh, timer_stop, temp, nfsh, event, dpc>>

\* stop_timer() runs after main has joined every device thread.
StopTimer ==
  /\ mpc = "run"
  /\ \A d \in Devices : dpc[d] = "exited"
  /\ timer_stop' = TRUE
  /\ mpc' = "join"
  /\ UNCHANGED <<time, list_vars, done, fsh, timer_thread, dpc>>

\* pthread_join returns and the containers are destroyed.
JoinTimer ==
  /\ mpc = "join"
  /\ tpc = "exit"
  /\ dev_list' = << >>
  /\ mpc' = "end"
  /\ UNCHANGED <<time, done, fsh, timer_started, timer_stop, timer_thread, dpc>>
-----------------------------------------------------------------------------
(* timer_routine                                                           *)

\* The two loops over dev_list end at NULL.
AtEndOneEarly == temp >= Len(dev_list)

AtEnd == temp > Len(dev_list)

KeepCounters == UNCHANGED <<nfsh, event>>

ResetCounters == nfsh' = 0 /\ event' = 0

\* The test of the outer while; the locals are initialised in its body.
TimerLoop ==
  /\ tpc = "loop"
  /\ tpc' = IF timer_stop THEN "exit" ELSE "scan"
  /\ temp' = 1
  /\ ResetCounters
  /\ UNCHANGED <<time, list_vars, done, fsh, timer_stop, dpc, mpc>>

\* One iteration of the scan loop, under the event_lock of the device: block
\* on event_cond, or count the device and go to the next one.
Scan ==
  /\ tpc = "scan"
  /\ ~AtEnd
  /\ LET d == dev_list[temp] IN
       IF ~done[d] /\ ~fsh[d]
       THEN /\ tpc' = "wait"
            /\ UNCHANGED <<temp, nfsh, event>>
       ELSE /\ nfsh' = IF fsh[d] THEN nfsh + 1 ELSE nfsh
            /\ event' = event + 1
            /\ temp' = temp + 1
            /\ UNCHANGED tpc
  /\ UNCHANGED <<time, list_vars, done, fsh, timer_stop, dpc, mpc>>

\* _time++ once the scan has reached the end of the list.
Tick ==
  /\ tpc = "scan"
  /\ AtEnd
  /\ time' = time + 1
  /\ temp' = 1
  /\ tpc' = "release"
  /\ UNCHANGED <<list_vars, done, fsh, timer_stop, nfsh, event, dpc, mpc>>

\* pthread_cond_signal on the timer_cond of device d.
NoWakeDevice(d) == UNCHANGED dpc

WakeDevice(d) ==
  dpc' = IF dpc[d] = "wait" THEN [dpc EXCEPT ![d] = "check"] ELSE dpc

\* One iteration of the release loop, under the timer_lock of the device.
Release ==
  /\ tpc = "release"
  /\ ~AtEnd
  /\ LET d == dev_list[temp] IN
       /\ done' = [done EXCEPT ![d] = FALSE]
       /\ WakeDevice(d)
  /\ temp' = temp + 1
  /\ UNCHANGED <<time, list_vars, fsh, timer_stop, tpc, nfsh, event, mpc>>

SomeFinished == nfsh > 0

AllFinished == nfsh = event

\* After the release loop: leave if every device was seen finished.
RoundEnd ==
  /\ tpc = "release"
  /\ AtEnd
  /\ tpc' = IF AllFinished THEN "exit" ELSE "loop"
  /\ UNCHANGED <<time, list_vars, done, fsh, timer_stop, temp, nfsh, event,
                 dpc, mpc>>
-----------------------------------------------------------------------------
(* the devices                                                             *)

\* pthread_cond_signal on the event_cond of device d.
NoWakeTimer(d) == UNCHANGED tpc

WakeTimer(d) ==
  tpc' = IF tpc = "wait" /\ dev_list[temp] = d THEN "scan" ELSE tpc

\* next_slot, first half, under event_lock.
NextSlotSignal(d) ==
  /\ dpc[d] = "work"
  /\ timer_started
  /\ time < MaxTime
  /\ done' = [done EXCEPT ![d] = TRUE]
  /\ dpc' = [dpc EXCEPT ![d] = "check"]
  /\ WakeTimer(d)
  /\ UNCHANGED <<time, list_vars, fsh, timer_stop, temp, nfsh, event, mpc>>

\* next_slot, second half, under timer_lock: the test of the inner while.
NextSlotCheck(d) ==
  /\ dpc[d] = "check"
  /\ dpc' = [dpc EXCEPT ![d] = IF done[d] THEN "wait" ELSE "work"]
  /\ UNCHANGED <<time, list_vars, done, fsh, timer_stop, timer_thread, mpc>>

\* detach_event, the device's last call.
DetachEvent(d) ==
  /\ dpc[d] = "work"
  /\ timer_started
  /\ fsh' = [fsh EXCEPT ![d] = TRUE]
  /\ dpc' = [dpc EXCEPT ![d] = "exited"]
  /\ WakeTimer(d)
  /\ UNCHANGED <<time, list_vars, done, timer_stop, temp, nfsh, event, mpc>>

\* pthread_cond_wait may return without a signal.
SpuriousWakeDevice(d) ==
  /\ dpc[d] = "wait"
  /\ dpc' = [dpc EXCEPT ![d] = "check"]
  /\ UNCHANGED <<time, list_vars, done, fsh, timer_stop, timer_thread, mpc>>

SpuriousWakeTimer ==
  /\ tpc = "wait"
  /\ tpc' = "scan"
  /\ UNCHANGED <<time, list_vars, done, fsh, timer_stop, temp, nfsh, event,
                 dpc, mpc>>
-----------------------------------------------------------------------------
TimerThread == TimerLoop \/ Scan \/ Tick \/ Release \/ RoundEnd

Main == StartTimer \/ StopTimer \/ JoinTimer

Device(d) == NextSlotSignal(d) \/ NextSlotCheck(d) \/ DetachEvent(d)

Terminated == mpc = "end" /\ UNCHANGED vars

Next ==
  \/ TimerThread
  \/ Main
  \/ SpuriousWakeTimer
  \/ \E d \in Devices : AttachEvent(d) \/ Device(d) \/ SpuriousWakeDevice(d)
  \/ Terminated

(***************************************************************************)
(* Fairness: a thread that can run eventually runs.  For a device this     *)
(* also says that its work in a slot ends (run() executes one instruction, *)
(* the loader's loop body is finite).  A spurious wakeup is never owed.    *)
(***************************************************************************)
Fairness ==
  /\ WF_vars(TimerThread)
  /\ WF_vars(Main)
  /\ \A d \in Devices : WF_vars(AttachEvent(d)) /\ WF_vars(Device(d))

Spec == Init /\ [][Next]_vars

FairSpec == Spec /\ Fairness
-----------------------------------------------------------------------------
(* Properties                                                              *)

(***************************************************************************)
(* Nobody sleeps through the event it waits for: the timer blocks on       *)
(* event_cond only while the device under its cursor has neither finished  *)
(* the slot nor detached, and a device blocks on timer_cond only while its *)
(* done flag still waits to be reset by the release loop.                  *)
(***************************************************************************)
NoLostWakeup ==
  /\ tpc = "wait" => /\ temp \in 1..Len(dev_list)
                     /\ ~done[dev_list[temp]] /\ ~fsh[dev_list[temp]]
  /\ \A d \in Devices : dpc[d] = "wait" => done[d]

(***************************************************************************)
(* _time is incremented only when every device has finished the slot or    *)
(* has detached: current_time(), which the loader reads without a lock,    *)
(* cannot change while a device is between two calls of next_slot.         *)
(***************************************************************************)
NoTickDuringWork ==
  [][time' # time => \A d \in Devices : dpc[d] \in {"check", "wait", "exited"}
                                        /\ (done[d] \/ fsh[d])]_vars

(***************************************************************************)
(* The timer leaves its loop, and stop_timer frees the containers, only    *)
(* after every device has detached: no thread touches a freed container.   *)
(***************************************************************************)
ExitAfterDetach ==
  tpc = "exit" => \A d \in Devices : dpc[d] = "exited"

(***************************************************************************)
(* A device that ended its slot is let into the next one.                  *)
(***************************************************************************)
NextSlotReturns ==
  \A d \in Devices : dpc[d] \in {"check", "wait"} ~> dpc[d] = "work"

(***************************************************************************)
(* When the devices stop, the timer stops and main gets past pthread_join. *)
(***************************************************************************)
Termination == <>(mpc = "end")
-----------------------------------------------------------------------------
(* timer.c implements SlotClock.  A device works in the current slot from  *)
(* the moment _time is incremented, released already or not.               *)

AwaitsRelease(d) ==
  /\ tpc = "release"
  /\ dpc[d] # "exited"
  /\ \E i \in temp..Len(dev_list) : dev_list[i] = d

Working ==
  {d \in Devices : \/ dpc[d] \in {"none", "work"}
                   \/ dpc[d] \in {"check", "wait"} /\ ~done[d]
                   \/ AwaitsRelease(d)}

Active == {d \in Devices : dpc[d] # "exited"}

Halted == tpc = "exit" \/ (tpc = "release" /\ AllFinished)

Clock == INSTANCE SlotClock WITH
           active <- Active, working <- Working, halted <- Halted

(***************************************************************************)
(* timer.c keeps SlotClock's promise, the ticking included.                *)
(***************************************************************************)
ImplementsSlotClock == Clock!ClockSpec
=============================================================================
