---------------------------- MODULE TimerProofs ----------------------------
(***************************************************************************)
(* Proofs about Timer.tla, for any set of devices and any number of slots. *)
(*                                                                         *)
(* The inductive invariant says what the two loops of timer_routine have   *)
(* established so far: every device before the scan's cursor has finished  *)
(* its slot (and stays so, because only the release loop resets done), and *)
(* every device the release loop has yet to reach still has.               *)
(***************************************************************************)
EXTENDS Timer, SequenceLemmas, TLAPS

Ended(d) == done[d] \/ fsh[d]

\* The containers: every attached device has one, until stop_timer.
ListInv ==
  /\ \A j, k \in 1 .. Len(dev_list) : dev_list[j] = dev_list[k] => j = k
  /\ mpc = "attach" <=> tpc = "off"
  /\ mpc = "attach" => /\ ~timer_started
                       /\ \A d \in Devices : dpc[d] \in {"none", "work"}
                       /\ temp = 1 /\ nfsh = 0 /\ event = 0
                       /\ \A j \in 1 .. Len(dev_list) : dpc[dev_list[j]] # "none"
  /\ mpc # "attach" => \A d \in Devices : dpc[d] # "none"
  /\ mpc # "end" => \A d \in Devices : dpc[d] # "none" =>
                      \E j \in 1 .. Len(dev_list) : dev_list[j] = d
  /\ mpc = "end" => tpc = "exit"
  /\ mpc \in {"join", "end"} => \A d \in Devices : dpc[d] = "exited"
  /\ timer_stop => mpc \in {"join", "end"}

\* The flags of a device against where its thread is.
DeviceInv ==
  \A d \in Devices : /\ fsh[d] <=> dpc[d] = "exited"
                     /\ done[d] => dpc[d] \in {"check", "wait"}
                     /\ dpc[d] = "wait" => done[d]

\* What the loops of timer_routine have established.
LoopInv ==
  /\ tpc \in {"scan", "wait"} =>
       /\ event = temp - 1
       /\ \A j \in 1 .. temp - 1 : Ended(dev_list[j])
       /\ nfsh = event => \A j \in 1 .. temp - 1 : fsh[dev_list[j]]
  /\ tpc = "release" =>
       /\ event = Len(dev_list)
       /\ \A j \in temp .. Len(dev_list) : Ended(dev_list[j])
       /\ nfsh = event => \A j \in 1 .. Len(dev_list) : fsh[dev_list[j]]
  /\ tpc = "wait" => temp <= Len(dev_list) /\ ~Ended(dev_list[temp])
  /\ tpc = "exit" => \A d \in Devices : dpc[d] = "exited"

(***************************************************************************)
(* The inductive invariant of timer.c.                                     *)
(***************************************************************************)
IInv == TypeOK /\ ListInv /\ DeviceInv /\ LoopInv

-----------------------------------------------------------------------------
(***************************************************************************)
(* Before main has attached a device, all parts of the invariant hold.     *)
(***************************************************************************)
LEMMA InitIInv == Init => IInv
<1> SUFFICES ASSUME Init PROVE IInv
  OBVIOUS
<1>1. dev_list = << >> /\ Len(dev_list) = 0
  BY DEF Init
<1>2. TypeOK
  <2>1. dev_list \in Seq(Devices)
    BY <1>1
  <2>2. temp \in 1 .. Len(dev_list) + 1 /\ nfsh <= event /\ event <= Len(dev_list)
    BY <1>1 DEF Init
  <2> QED BY <2>1, <2>2 DEF Init, TypeOK
<1>3. ListInv
  BY <1>1 DEF Init, ListInv
<1>4. DeviceInv /\ LoopInv
  BY DEF Init, DeviceInv, LoopInv
<1> QED BY <1>2, <1>3, <1>4 DEF IInv

-----------------------------------------------------------------------------
(* main                                                                    *)

(***************************************************************************)
(* attach_event keeps the list injective and complete.                     *)
(***************************************************************************)
LEMMA AttachEventIInv ==
  ASSUME IInv, NEW d \in Devices, AttachEvent(d)
  PROVE  IInv'
<1> DEFINE t == <<d>> \o dev_list
<1>1. /\ t \in Seq(Devices) /\ Len(t) = Len(dev_list) + 1 /\ t[1] = d
      /\ \A j \in 1 .. Len(dev_list) : t[j + 1] = dev_list[j]
      /\ \A j \in 2 .. Len(dev_list) + 1 : t[j] = dev_list[j - 1]
  BY PushProperties DEF IInv, TypeOK
<1>2. dev_list' = t
  BY DEF AttachEvent
<1> HIDE DEF t
<1>3. TypeOK'
  BY <1>1, <1>2 DEF IInv, TypeOK, ListInv, AttachEvent, timer_thread
<1>4. ListInv'
  BY <1>1, <1>2 DEF IInv, TypeOK, ListInv, AttachEvent, timer_thread
<1>5. DeviceInv'
  BY DEF IInv, TypeOK, ListInv, DeviceInv, AttachEvent, timer_thread
<1>6. LoopInv'
  BY DEF IInv, TypeOK, ListInv, LoopInv, AttachEvent, timer_thread
<1> QED BY <1>3, <1>4, <1>5, <1>6 DEF IInv

(***************************************************************************)
(* start_timer, stop_timer and the join leave the loops' facts alone.      *)
(***************************************************************************)
LEMMA MainIInv ==
  ASSUME IInv, Main
  PROVE  IInv'
<1>1. CASE StartTimer
  BY <1>1 DEF IInv, TypeOK, ListInv, DeviceInv, LoopInv, Ended, StartTimer
<1>2. CASE StopTimer
  BY <1>2 DEF IInv, TypeOK, ListInv, DeviceInv, LoopInv, Ended, StopTimer,
              list_vars, timer_thread
<1>3. CASE JoinTimer
  BY <1>3 DEF IInv, TypeOK, ListInv, DeviceInv, LoopInv, Ended, JoinTimer,
              timer_thread
<1> QED BY <1>1, <1>2, <1>3 DEF Main

-----------------------------------------------------------------------------
(* timer_routine                                                           *)

(***************************************************************************)
(* A round starts with an empty scanned prefix and zero counters; the      *)
(* timer stops instead only when stop_timer was called.                    *)
(***************************************************************************)
LEMMA TimerLoopIInv ==
  ASSUME IInv, TimerLoop
  PROVE  IInv'
  BY DEF IInv, TypeOK, ListInv, DeviceInv, LoopInv, Ended, TimerLoop,
         ResetCounters, list_vars

(***************************************************************************)
(* An iteration of the scan loop extends the prefix of ended devices.      *)
(***************************************************************************)
LEMMA ScanIInv ==
  ASSUME IInv, Scan
  PROVE  IInv'
<1> DEFINE d == dev_list[temp]
<1>1. temp \in 1 .. Len(dev_list) /\ d \in Devices /\ mpc # "end" /\ mpc # "attach"
  BY DEF IInv, TypeOK, ListInv, Scan, AtEnd
<1>2. CASE ~done[d] /\ ~fsh[d]
  <2>1. /\ tpc' = "wait"
        /\ UNCHANGED <<temp, nfsh, event, time, list_vars, done, fsh, timer_stop, dpc, mpc>>
    BY <1>2 DEF Scan
  <2>2. TypeOK'
    BY <2>1 DEF IInv, TypeOK, list_vars
  <2>3. ListInv' /\ DeviceInv'
    BY <1>1, <2>1 DEF IInv, ListInv, DeviceInv, list_vars
  <2>4. LoopInv'
    BY <1>1, <1>2, <2>1 DEF IInv, LoopInv, Ended, Scan, list_vars
  <2> QED BY <2>2, <2>3, <2>4 DEF IInv
<1>3. CASE ~(~done[d] /\ ~fsh[d])
  <2>1. /\ nfsh' = (IF fsh[d] THEN nfsh + 1 ELSE nfsh)
        /\ event' = event + 1 /\ temp' = temp + 1 /\ tpc' = tpc
        /\ UNCHANGED <<time, list_vars, done, fsh, timer_stop, dpc, mpc>>
    BY <1>3 DEF Scan
  <2>2. event = temp - 1 /\ nfsh <= event
    BY <1>1 DEF IInv, TypeOK, LoopInv, Scan
  <2>3. TypeOK'
    BY <1>1, <2>1, <2>2 DEF IInv, TypeOK, list_vars
  <2>4. ListInv' /\ DeviceInv'
    BY <1>1, <2>1 DEF IInv, ListInv, DeviceInv, list_vars
  <2>5. LoopInv'
    <3>1. \A j \in 1 .. temp' - 1 : j = temp \/ j \in 1 .. temp - 1
      BY <1>1, <2>1
    <3>2. \A j \in 1 .. temp - 1 : Ended(dev_list[j])
      BY DEF IInv, LoopInv, Scan
    <3>3. \A j \in 1 .. temp' - 1 : Ended(dev_list[j])'
      BY <1>3, <2>1, <3>1, <3>2 DEF Ended, list_vars
    <3>4. nfsh' = event' => fsh[d] /\ nfsh = event
      BY <2>1, <2>2, <1>1 DEF IInv, TypeOK
    <3>5. nfsh' = event' => \A j \in 1 .. temp' - 1 : fsh'[dev_list'[j]]
      BY <2>1, <3>1, <3>4 DEF IInv, LoopInv, Scan, list_vars
    <3>6. event' = temp' - 1
      BY <1>1, <2>1, <2>2
    <3> QED BY <2>1, <3>3, <3>5, <3>6 DEF LoopInv, Scan
  <2> QED BY <2>3, <2>4, <2>5 DEF IInv
<1> QED BY <1>2, <1>3

(***************************************************************************)
(* _time++ happens when the ended prefix is the whole list.                *)
(***************************************************************************)
LEMMA TickIInv ==
  ASSUME IInv, Tick
  PROVE  IInv'
<1>1. mpc # "end" /\ mpc # "attach" /\ temp = Len(dev_list) + 1
  BY DEF IInv, TypeOK, ListInv, Tick, AtEnd
<1> QED
  BY <1>1 DEF IInv, TypeOK, ListInv, DeviceInv, LoopInv, Ended, Tick, list_vars

(***************************************************************************)
(* An iteration of the release loop shrinks the suffix still to release,   *)
(* and resets done of a device that waits for exactly that.                *)
(***************************************************************************)
LEMMA ReleaseIInv ==
  ASSUME IInv, Release
  PROVE  IInv'
<1> DEFINE d == dev_list[temp]
<1>1. temp \in 1 .. Len(dev_list) /\ d \in Devices /\ mpc # "end" /\ mpc # "attach"
  BY DEF IInv, TypeOK, ListInv, Release, AtEnd
<1>2. /\ done' = [done EXCEPT ![d] = FALSE]
      /\ dpc' = (IF dpc[d] = "wait" THEN [dpc EXCEPT ![d] = "check"] ELSE dpc)
      /\ temp' = temp + 1
      /\ UNCHANGED <<time, list_vars, fsh, timer_stop, tpc, nfsh, event, mpc>>
  BY DEF Release, WakeDevice
<1>3. \A e \in Devices : dpc'[e] = dpc[e] \/ (e = d /\ dpc[e] = "wait" /\ dpc'[e] = "check")
  BY <1>1, <1>2 DEF IInv, TypeOK
<1>4. TypeOK'
  BY <1>1, <1>2 DEF IInv, TypeOK, list_vars
<1>5. ListInv'
  BY <1>1, <1>2, <1>3 DEF IInv, TypeOK, ListInv, list_vars
<1>6. DeviceInv'
  BY <1>1, <1>2, <1>3 DEF IInv, TypeOK, DeviceInv
<1>7. LoopInv'
  <2>1. \A j \in temp' .. Len(dev_list) : dev_list[j] # d /\ j \in temp .. Len(dev_list)
    <3> SUFFICES ASSUME NEW j \in temp' .. Len(dev_list)
                 PROVE  dev_list[j] # d /\ j \in temp .. Len(dev_list)
      OBVIOUS
    <3>1. Len(dev_list) \in Nat /\ temp \in Nat
      BY DEF IInv, TypeOK
    <3>2. j \in 1 .. Len(dev_list) /\ j # temp /\ j \in temp .. Len(dev_list)
      BY <1>1, <1>2, <3>1
    <3> QED BY <1>1, <3>2 DEF IInv, ListInv
  <2>2. \A j \in temp' .. Len(dev_list) : Ended(dev_list[j])'
    BY <1>1, <1>2, <2>1 DEF IInv, TypeOK, LoopInv, Ended, Release, list_vars
  <2> QED
    BY <1>1, <1>2, <2>2 DEF IInv, LoopInv, Release, list_vars
<1> QED BY <1>4, <1>5, <1>6, <1>7 DEF IInv

(***************************************************************************)
(* The timer leaves its loop at the end of a round only if every device    *)
(* was seen finished.                                                      *)
(***************************************************************************)
LEMMA RoundEndIInv ==
  ASSUME IInv, RoundEnd
  PROVE  IInv'
<1>1. mpc # "end" /\ mpc # "attach"
  BY DEF IInv, ListInv, RoundEnd
<1>2. nfsh = event => \A d \in Devices : dpc[d] = "exited"
  BY <1>1 DEF IInv, TypeOK, ListInv, DeviceInv, LoopInv, RoundEnd
<1> QED
  BY <1>1, <1>2 DEF IInv, TypeOK, ListInv, DeviceInv, LoopInv, Ended, RoundEnd,
                    AllFinished, list_vars

-----------------------------------------------------------------------------
(* the devices                                                             *)

(***************************************************************************)
(* next_slot and detach_event end the slot of a device that was working,   *)
(* and wake the timer if it waits for this very device.                    *)
(***************************************************************************)
LEMMA EndOfSlotIInv ==
  ASSUME IInv, NEW d \in Devices, NextSlotSignal(d) \/ DetachEvent(d)
  PROVE  IInv'
<1>1. /\ mpc = "run"
      /\ dpc[d] = "work" /\ ~done[d] /\ ~fsh[d]
      /\ UNCHANGED <<time, list_vars, timer_stop, temp, nfsh, event, mpc>>
  BY DEF IInv, TypeOK, ListInv, DeviceInv, NextSlotSignal, DetachEvent
<1>2. tpc' = (IF tpc = "wait" /\ dev_list[temp] = d THEN "scan" ELSE tpc)
  BY DEF NextSlotSignal, DetachEvent, WakeTimer
<1>3. \/ done' = [done EXCEPT ![d] = TRUE] /\ fsh' = fsh /\ dpc' = [dpc EXCEPT ![d] = "check"]
      \/ fsh' = [fsh EXCEPT ![d] = TRUE] /\ done' = done /\ dpc' = [dpc EXCEPT ![d] = "exited"]
  BY DEF NextSlotSignal, DetachEvent
<1>4. TypeOK'
  BY <1>1, <1>2, <1>3 DEF IInv, TypeOK, list_vars
<1>5. ListInv'
  BY <1>1, <1>2, <1>3 DEF IInv, TypeOK, ListInv, list_vars
<1>6. DeviceInv'
  BY <1>1, <1>3 DEF IInv, TypeOK, DeviceInv
<1>7. \A e \in Devices :
        /\ Ended(e) => done'[e] \/ fsh'[e]
        /\ fsh[e] => fsh'[e]
        /\ e # d => (done'[e] \/ fsh'[e] => Ended(e))
  BY <1>3 DEF IInv, TypeOK, Ended
<1>8. \A j \in 1 .. Len(dev_list) : dev_list[j] \in Devices
  BY DEF IInv, TypeOK
<1>9. tpc # "exit"
  BY <1>1 DEF IInv, LoopInv
<1>10. temp \in 1 .. Len(dev_list) + 1 /\ Len(dev_list) \in Nat
  BY <1>1 DEF IInv, TypeOK
<1>11. CASE tpc \in {"scan", "wait"}
  <2>1. /\ event = temp - 1
        /\ \A j \in 1 .. temp - 1 : done'[dev_list[j]] \/ fsh'[dev_list[j]]
        /\ nfsh = event => \A j \in 1 .. temp - 1 : fsh'[dev_list[j]]
    BY <1>7, <1>8, <1>10, <1>11 DEF IInv, LoopInv
  <2>2. tpc' = "wait" => /\ temp <= Len(dev_list)
                         /\ ~(done'[dev_list[temp]] \/ fsh'[dev_list[temp]])
    BY <1>2, <1>7, <1>8, <1>10, <1>11 DEF IInv, LoopInv
  <2>3. tpc' \in {"scan", "wait"}
    BY <1>2, <1>11
  <2> QED
    BY <1>1, <1>4, <1>5, <1>6, <2>1, <2>2, <2>3 DEF IInv, LoopInv, list_vars, Ended
<1>12. CASE tpc = "release"
  <2>1. /\ event = Len(dev_list)
        /\ \A j \in temp .. Len(dev_list) : done'[dev_list[j]] \/ fsh'[dev_list[j]]
        /\ nfsh = event => \A j \in 1 .. Len(dev_list) : fsh'[dev_list[j]]
    BY <1>7, <1>8, <1>10, <1>12 DEF IInv, LoopInv
  <2> QED
    BY <1>1, <1>2, <1>4, <1>5, <1>6, <1>12, <2>1 DEF IInv, LoopInv, list_vars, Ended
<1>13. CASE tpc \in {"off", "loop"}
  BY <1>2, <1>4, <1>5, <1>6, <1>13 DEF IInv, LoopInv
<1> QED BY <1>9, <1>11, <1>12, <1>13 DEF IInv, TypeOK

(***************************************************************************)
(* The second half of next_slot, and a spurious wakeup, move only the      *)
(* device's own control.                                                   *)
(***************************************************************************)
LEMMA DeviceWaitIInv ==
  ASSUME IInv, NEW d \in Devices, NextSlotCheck(d) \/ SpuriousWakeDevice(d)
  PROVE  IInv'
<1>1. /\ dpc[d] \in {"check", "wait"}
      /\ \E l \in {"check", "wait", "work"} :
           /\ dpc' = [dpc EXCEPT ![d] = l]
           /\ l = "wait" => done[d]
           /\ l = "work" => ~done[d]
      /\ UNCHANGED <<time, list_vars, done, fsh, timer_stop, timer_thread, mpc>>
  BY DEF IInv, TypeOK, NextSlotCheck, SpuriousWakeDevice
<1>2. mpc = "run"
  BY <1>1 DEF IInv, TypeOK, ListInv
<1>3. tpc # "exit"
  BY <1>1 DEF IInv, LoopInv
<1>4. TypeOK' /\ ListInv'
  BY <1>1, <1>2 DEF IInv, TypeOK, ListInv, list_vars, timer_thread
<1>5. DeviceInv'
  BY <1>1 DEF IInv, TypeOK, DeviceInv
<1>6. LoopInv'
  BY <1>1, <1>3 DEF IInv, LoopInv, Ended, list_vars, timer_thread
<1> QED BY <1>4, <1>5, <1>6 DEF IInv

(***************************************************************************)
(* A spurious wakeup of the timer sends it back to the test.               *)
(***************************************************************************)
LEMMA SpuriousTimerIInv ==
  ASSUME IInv, SpuriousWakeTimer
  PROVE  IInv'
<1>1. /\ tpc = "wait" /\ tpc' = "scan"
      /\ UNCHANGED <<time, list_vars, done, fsh, timer_stop, temp, nfsh, event, dpc, mpc>>
  BY DEF SpuriousWakeTimer
<1>2. TypeOK'
  BY <1>1 DEF IInv, TypeOK, list_vars
<1>3. ListInv' /\ DeviceInv'
  BY <1>1 DEF IInv, ListInv, DeviceInv, list_vars
<1>4. LoopInv'
  BY <1>1 DEF IInv, LoopInv, Ended, list_vars
<1> QED BY <1>2, <1>3, <1>4 DEF IInv

-----------------------------------------------------------------------------
(* Theorems                                                                *)

(***************************************************************************)
(* Every step of timer.c and its clients preserves the invariant.          *)
(***************************************************************************)
LEMMA NextIInv == IInv /\ [Next]_vars => IInv'
<1> SUFFICES ASSUME IInv, [Next]_vars PROVE IInv'
  OBVIOUS
<1>1. CASE TimerThread
  BY <1>1, TimerLoopIInv, ScanIInv, TickIInv, ReleaseIInv, RoundEndIInv DEF TimerThread
<1>2. CASE Main
  BY <1>2, MainIInv
<1>3. CASE SpuriousWakeTimer
  BY <1>3, SpuriousTimerIInv
<1>4. ASSUME NEW d \in Devices, AttachEvent(d) \/ Device(d) \/ SpuriousWakeDevice(d)
      PROVE  IInv'
  BY <1>4, AttachEventIInv, EndOfSlotIInv, DeviceWaitIInv DEF Device
<1>5. CASE Terminated \/ UNCHANGED vars
  <2>1. UNCHANGED vars
    BY <1>5 DEF Terminated
  <2>2. TypeOK'
    BY <2>1 DEF IInv, TypeOK, vars
  <2>3. ListInv'
    BY <2>1 DEF IInv, ListInv, vars
  <2>4. DeviceInv'
    BY <2>1 DEF IInv, DeviceInv, vars
  <2>5. LoopInv'
    BY <2>1 DEF IInv, LoopInv, Ended, vars
  <2> QED BY <2>2, <2>3, <2>4, <2>5 DEF IInv
<1> QED BY <1>1, <1>2, <1>3, <1>4, <1>5 DEF Next

(***************************************************************************)
(* The invariant holds in every reachable state.                           *)
(***************************************************************************)
THEOREM Invariance == Spec => []IInv
  BY InitIInv, NextIInv, PTL DEF Spec

(***************************************************************************)
(* Type correctness of timer.c: the cursor stays within the list and the   *)
(* counters of a round never exceed its length.                            *)
(***************************************************************************)
THEOREM TypeCorrect == Spec => []TypeOK
<1>1. IInv => TypeOK
  BY DEF IInv
<1> QED BY <1>1, Invariance, PTL

(***************************************************************************)
(* Neither the timer nor a device of timer.c sleeps on its condition       *)
(* variable after the event it waits for has happened.                     *)
(***************************************************************************)
THEOREM WakeupsNotLost == Spec => []NoLostWakeup
<1>1. IInv => NoLostWakeup
  BY DEF IInv, TypeOK, ListInv, DeviceInv, LoopInv, Ended, NoLostWakeup
<1> QED BY <1>1, Invariance, PTL

(***************************************************************************)
(* timer_routine ends only after every device has called detach_event.     *)
(***************************************************************************)
THEOREM ExitsLast == Spec => []ExitAfterDetach
<1>1. IInv => ExitAfterDetach
  BY DEF IInv, LoopInv, ExitAfterDetach
<1> QED BY <1>1, Invariance, PTL

(***************************************************************************)
(* _time never changes while a device works in a slot.                     *)
(***************************************************************************)
THEOREM TicksBetweenSlots == Spec => NoTickDuringWork
<1> DEFINE A == time' # time => \A d \in Devices :
                  dpc[d] \in {"check", "wait", "exited"} /\ (done[d] \/ fsh[d])
<1>1. IInv /\ [Next]_vars => [A]_vars
  <2> SUFFICES ASSUME IInv, [Next]_vars, time' # time
               PROVE  \A d \in Devices : dpc[d] \in {"check", "wait", "exited"}
                                          /\ (done[d] \/ fsh[d])
    OBVIOUS
  <2>1. Tick
    BY DEF vars, Next, TimerThread, Main, Device, Terminated, TimerLoop, Scan,
           Release, RoundEnd, StartTimer, StopTimer, JoinTimer, AttachEvent,
           NextSlotSignal, NextSlotCheck, DetachEvent, SpuriousWakeDevice,
           SpuriousWakeTimer
  <2>2. temp = Len(dev_list) + 1 /\ mpc # "end" /\ mpc # "attach"
    BY <2>1 DEF IInv, TypeOK, ListInv, Tick, AtEnd
  <2>3. \A d \in Devices : \E j \in 1 .. temp - 1 : dev_list[j] = d
    BY <2>2 DEF IInv, TypeOK, ListInv
  <2>4. \A d \in Devices : done[d] \/ fsh[d]
    BY <2>1, <2>3 DEF IInv, LoopInv, Ended, Tick
  <2> QED BY <2>4 DEF IInv, DeviceInv
<1> QED BY <1>1, Invariance, PTL DEF Spec, NoTickDuringWork
-----------------------------------------------------------------------------
(* timer.c implements SlotClock                                            *)

\* The counters tell a round of finished devices from any other.
CountInv ==
  tpc \in {"scan", "wait"} /\ (\A j \in 1 .. temp - 1 : fsh[dev_list[j]]) => nfsh = event

(***************************************************************************)
(* A device that the scan has counted as done cannot detach before it is   *)
(* released, so the counters stay right until _time is incremented.        *)
(***************************************************************************)
LEMMA CountStep ==
  ASSUME IInv, CountInv, [Next]_vars
  PROVE  CountInv'
<1>1. CASE TimerLoop
  BY <1>1 DEF TimerLoop, ResetCounters, CountInv
<1>2. CASE Scan
  <2> DEFINE d == dev_list[temp]
  <2>1. /\ temp \in Nat /\ temp >= 1 /\ nfsh \in Nat /\ event \in Nat
        /\ UNCHANGED <<dev_list, fsh>> /\ tpc = "scan"
    BY <1>2 DEF IInv, TypeOK, ListInv, Scan, AtEnd, list_vars
  <2>2. CASE UNCHANGED <<temp, nfsh, event>>
    BY <2>1, <2>2 DEF CountInv
  <2>3. CASE /\ nfsh' = (IF fsh[d] THEN nfsh + 1 ELSE nfsh)
             /\ event' = event + 1 /\ temp' = temp + 1
    <3>1. 1 .. temp' - 1 = (1 .. temp - 1) \cup {temp}
      BY <2>1, <2>3
    <3> QED BY <2>1, <2>3, <3>1 DEF CountInv
  <2> QED BY <1>2, <2>2, <2>3 DEF Scan
<1>3. CASE Tick \/ Release \/ RoundEnd \/ JoinTimer \/ StartTimer
  BY <1>3 DEF Tick, Release, RoundEnd, JoinTimer, StartTimer, CountInv, timer_thread, IInv, ListInv
<1>4. ASSUME NEW d \in Devices, NextSlotSignal(d) \/ DetachEvent(d)
      PROVE  CountInv'
  <2>1. /\ UNCHANGED <<dev_list, temp, nfsh, event>>
        /\ tpc' \in {"scan", "wait"} => tpc \in {"scan", "wait"}
        /\ fsh' = fsh \/ fsh' = [fsh EXCEPT ![d] = TRUE]
        /\ dpc[d] = "work" /\ mpc # "end"
    BY <1>4 DEF NextSlotSignal, DetachEvent, WakeTimer, list_vars, IInv, TypeOK, ListInv
  <2>2. CASE tpc \in {"scan", "wait"}
    <3>1. \A j \in 1 .. temp - 1 : Ended(dev_list[j]) /\ dev_list[j] \in Devices
      BY <2>1, <2>2 DEF IInv, TypeOK, LoopInv
    <3>2. ~Ended(d)
      BY <2>1 DEF IInv, DeviceInv, Ended
    <3>3. \A j \in 1 .. temp - 1 : fsh'[dev_list[j]] = fsh[dev_list[j]]
      BY <2>1, <3>1, <3>2 DEF IInv, TypeOK
    <3> QED BY <2>1, <2>2, <3>3 DEF CountInv
  <2> QED BY <2>1, <2>2 DEF CountInv
<1>5. ASSUME NEW d \in Devices, AttachEvent(d)
      PROVE  CountInv'
  BY <1>5 DEF AttachEvent, CountInv, timer_thread, IInv, ListInv
<1>6. CASE /\ UNCHANGED <<dev_list, temp, nfsh, event, fsh>>
           /\ tpc' \in {"scan", "wait"} => tpc \in {"scan", "wait"}
  BY <1>6 DEF CountInv
<1>7. CASE StopTimer \/ SpuriousWakeTimer \/ Terminated \/ UNCHANGED vars
  BY <1>6, <1>7 DEF StopTimer, SpuriousWakeTimer, Terminated, vars, list_vars, timer_thread
<1>8. ASSUME NEW d \in Devices, NextSlotCheck(d) \/ SpuriousWakeDevice(d)
      PROVE  CountInv'
  BY <1>6, <1>8 DEF NextSlotCheck, SpuriousWakeDevice, list_vars, timer_thread
<1> QED BY <1>1, <1>2, <1>3, <1>4, <1>5, <1>7, <1>8 DEF Next, TimerThread, Main, Device

(***************************************************************************)
(* A step that the clock does not see.                                     *)
(***************************************************************************)
LEMMA SameClock ==
  ASSUME time' = time, Halted' <=> Halted,
         \A d \in Devices : dpc'[d] = "exited" <=> dpc[d] = "exited",
         \A d \in Devices : d \in Working' <=> d \in Working
  PROVE  UNCHANGED Clock!clock_vars
<1>1. Active' = Active
  BY DEF Active
<1>2. Working' = Working
  <2>1. Working \subseteq Devices /\ Working' \subseteq Devices
    BY DEF Working
  <2> QED BY <2>1
<1>3. Halted' = Halted
  BY DEF Halted, AllFinished
<1> QED BY <1>1, <1>2, <1>3 DEF Clock!clock_vars

(***************************************************************************)
(* start_timer and the timer's scan are invisible; the timer stops before  *)
(* another round only after stop_timer.                                    *)
(***************************************************************************)
LEMMA ControlClock ==
  ASSUME IInv, TimerLoop \/ Scan \/ StartTimer \/ JoinTimer \/ SpuriousWakeTimer
  PROVE  Clock!Halt \/ UNCHANGED Clock!clock_vars
<1>1. UNCHANGED <<time, dpc, done>> /\ tpc # "release" /\ tpc' # "release"
  <2>1. CASE TimerLoop \/ Scan
    BY <2>1 DEF TimerLoop, Scan
  <2>2. CASE StartTimer
    BY <2>2 DEF StartTimer, IInv, ListInv
  <2>3. CASE JoinTimer \/ SpuriousWakeTimer
    BY <2>3 DEF JoinTimer, SpuriousWakeTimer, timer_thread
  <2> QED BY <2>1, <2>2, <2>3
<1>2. Working' = Working /\ Active' = Active
  BY <1>1 DEF Working, Active, AwaitsRelease
<1>3. CASE tpc' = "exit" /\ tpc = "loop"
  <2>1. timer_stop
    BY <1>3 DEF TimerLoop, Scan, StartTimer, JoinTimer, SpuriousWakeTimer, timer_thread
  <2>2. Active = {}
    BY <2>1 DEF IInv, ListInv, Active
  <2> QED BY <1>1, <1>2, <1>3, <2>2 DEF Clock!Halt, Halted
<1>4. CASE tpc' = "exit" <=> tpc = "exit"
  BY <1>1, <1>2, <1>4 DEF Clock!clock_vars, Halted
<1>5. tpc = "exit" => tpc' = "exit"
  BY DEF TimerLoop, Scan, StartTimer, JoinTimer, SpuriousWakeTimer, timer_thread, IInv, ListInv
<1>6. tpc' = "exit" => tpc \in {"exit", "loop"}
  BY DEF TimerLoop, Scan, StartTimer, JoinTimer, SpuriousWakeTimer, timer_thread
<1> QED BY <1>3, <1>4, <1>5, <1>6

(***************************************************************************)
(* _time++ is the clock's tick: nobody works, everybody who has not        *)
(* detached works in the new slot, and it is the last round exactly when   *)
(* everybody has detached.                                                 *)
(***************************************************************************)
LEMMA TickClock ==
  ASSUME IInv, CountInv, Tick
  PROVE  Clock!Tick
<1>1. /\ tpc = "scan" /\ tpc' = "release" /\ time' = time + 1 /\ temp' = 1
      /\ UNCHANGED <<dev_list, done, fsh, nfsh, event, dpc>>
      /\ mpc # "end" /\ mpc # "attach" /\ temp = Len(dev_list) + 1 /\ Len(dev_list) \in Nat
  BY DEF Tick, list_vars, IInv, TypeOK, ListInv, AtEnd
<1>2. \A d \in Devices : dpc[d] # "none" /\ \E j \in 1 .. Len(dev_list) : dev_list[j] = d
  BY <1>1 DEF IInv, ListInv
<1>3. \A j \in 1 .. Len(dev_list) : Ended(dev_list[j]) /\ dev_list[j] \in Devices
  BY <1>1 DEF IInv, TypeOK, LoopInv
<1>4. \A d \in Devices : done[d] \/ fsh[d]
  BY <1>2, <1>3 DEF Ended
<1>5. Working = {}
  BY <1>1, <1>4 DEF Working, AwaitsRelease, IInv, DeviceInv
<1>6. Active' = Active
  BY <1>1 DEF Active
<1>7. Working' = Active
  <2>1. \A d \in Devices : dpc[d] # "exited" => AwaitsRelease(d)'
    BY <1>1, <1>2 DEF AwaitsRelease
  <2>2. \A d \in Devices : dpc[d] = "exited" => ~AwaitsRelease(d)'
    BY <1>1 DEF AwaitsRelease
  <2> QED BY <1>1, <2>1, <2>2 DEF Working, Active
<1>8. nfsh = event <=> Active = {}
  <2>1. nfsh = event <=> \A j \in 1 .. Len(dev_list) : fsh[dev_list[j]]
    BY <1>1 DEF IInv, LoopInv, CountInv
  <2>2. (\A j \in 1 .. Len(dev_list) : fsh[dev_list[j]]) <=> (\A d \in Devices : fsh[d])
    BY <1>2, <1>3
  <2>3. Active = {} <=> \A d \in Devices : fsh[d]
    BY DEF Active, IInv, DeviceInv
  <2> QED BY <2>1, <2>2, <2>3
<1>9. ~Halted /\ Halted' = (Active = {})
  BY <1>1, <1>8 DEF Halted, AllFinished
<1> QED BY <1>1, <1>5, <1>6, <1>7, <1>9 DEF Clock!Tick

(***************************************************************************)
(* The release loop is invisible: a device it has yet to reach is working  *)
(* in the new slot already.                                                *)
(***************************************************************************)
LEMMA ReleaseClock ==
  ASSUME IInv, Release \/ RoundEnd
  PROVE  UNCHANGED Clock!clock_vars
<1>0. tpc = "release" /\ mpc # "end" /\ mpc # "attach" /\ temp \in 1 .. Len(dev_list) + 1
      /\ Len(dev_list) \in Nat /\ UNCHANGED <<time, dev_list>>
  BY DEF Release, RoundEnd, IInv, TypeOK, ListInv, list_vars
<1>1. CASE Release
  <2>1. PICK d \in Devices : d = dev_list[temp]
    BY <1>0, <1>1 DEF Release, AtEnd, IInv, TypeOK
  <2>2. /\ done' = [done EXCEPT ![d] = FALSE]
        /\ dpc' = (IF dpc[d] = "wait" THEN [dpc EXCEPT ![d] = "check"] ELSE dpc)
        /\ temp' = temp + 1 /\ temp \in 1 .. Len(dev_list) /\ UNCHANGED <<tpc, nfsh, event>>
    BY <1>0, <1>1, <2>1 DEF Release, WakeDevice, AtEnd
  <2>3. /\ done[d] \/ fsh[d]
        /\ dpc[d] \in {"check", "wait", "exited"}
    BY <1>0, <2>1, <2>2 DEF IInv, LoopInv, DeviceInv, Ended
  <2>4. /\ \A e \in Devices : e # d => dpc'[e] = dpc[e] /\ done'[e] = done[e]
        /\ dpc'[d] = (IF dpc[d] = "exited" THEN "exited" ELSE "check") /\ ~done'[d]
    BY <2>2, <2>3 DEF IInv, TypeOK
  <2>5. \A e \in Devices : e # d => (AwaitsRelease(e)' <=> AwaitsRelease(e))
    <3> SUFFICES ASSUME NEW e \in Devices, e # d
                 PROVE  (\E k \in temp + 1 .. Len(dev_list) : dev_list[k] = e)
                          <=> (\E k \in temp .. Len(dev_list) : dev_list[k] = e)
      BY <1>0, <2>2, <2>4 DEF AwaitsRelease
    <3>1. \A k \in temp .. Len(dev_list) : k = temp \/ k \in temp + 1 .. Len(dev_list)
      BY <1>0
    <3>2. \A k \in temp + 1 .. Len(dev_list) : k \in temp .. Len(dev_list)
      BY <1>0
    <3> QED BY <2>1, <3>1, <3>2
  <2>6. \A e \in Devices : e # d => (e \in Working' <=> e \in Working)
    BY <2>4, <2>5 DEF Working
  <2>7. d \in Working' <=> d \in Working
    <3>1. CASE dpc[d] = "exited"
      BY <2>4, <3>1 DEF Working, AwaitsRelease
    <3>2. CASE dpc[d] # "exited"
      <4>1. AwaitsRelease(d)
        BY <1>0, <2>1, <2>2, <3>2 DEF AwaitsRelease
      <4> QED BY <2>4, <3>2, <4>1 DEF Working
    <3> QED BY <3>1, <3>2
  <2>8. \A e \in Devices : dpc'[e] = "exited" <=> dpc[e] = "exited"
    BY <2>3, <2>4
  <2>9. Halted' <=> Halted
    BY <2>2 DEF Halted, AllFinished
  <2> QED BY <1>0, <2>6, <2>7, <2>8, <2>9, SameClock
<1>2. CASE RoundEnd
  <2>1. /\ tpc' = (IF nfsh = event THEN "exit" ELSE "loop") /\ temp > Len(dev_list)
        /\ UNCHANGED <<done, dpc, nfsh, event>>
    BY <1>2 DEF RoundEnd, AllFinished, AtEnd
  <2>2. \A e \in Devices : ~AwaitsRelease(e) /\ ~AwaitsRelease(e)'
    BY <1>0, <2>1 DEF AwaitsRelease
  <2>3. \A e \in Devices : e \in Working' <=> e \in Working
    BY <2>1, <2>2 DEF Working
  <2>4. Halted' <=> Halted
    BY <1>0, <2>1 DEF Halted, AllFinished
  <2> QED BY <1>0, <2>1, <2>3, <2>4, SameClock
<1> QED BY <1>1, <1>2

(***************************************************************************)
(* next_slot and detach_event: the device is no longer working, even if    *)
(* the release loop of the last tick is still under way.                   *)
(***************************************************************************)
LEMMA EndOfSlotClock ==
  ASSUME IInv, NEW d \in Devices, NextSlotSignal(d) \/ DetachEvent(d)
  PROVE  Clock!EndSlot(d) \/ Clock!Leave(d)
<1>1. /\ dpc[d] = "work" /\ ~done[d] /\ ~fsh[d] /\ mpc = "run"
      /\ UNCHANGED <<time, dev_list, temp, nfsh, event>>
      /\ tpc' = (IF tpc = "wait" /\ dev_list[temp] = d THEN "scan" ELSE tpc)
      /\ \/ done' = [done EXCEPT ![d] = TRUE] /\ dpc' = [dpc EXCEPT ![d] = "check"]
         \/ done' = done /\ dpc' = [dpc EXCEPT ![d] = "exited"]
  BY DEF NextSlotSignal, DetachEvent, WakeTimer, list_vars, IInv, TypeOK, ListInv, DeviceInv
<1>2. tpc = "release" => \A j \in temp .. Len(dev_list) : dev_list[j] # d
  BY <1>1 DEF IInv, LoopInv, Ended
<1>3. /\ \A e \in Devices : e # d => dpc'[e] = dpc[e] /\ done'[e] = done[e]
      /\ dpc'[d] = "exited" \/ (dpc'[d] = "check" /\ done'[d])
  BY <1>1 DEF IInv, TypeOK
<1>4. \A e \in Devices : e # d => (AwaitsRelease(e)' <=> AwaitsRelease(e))
  BY <1>1, <1>3 DEF AwaitsRelease
<1>5. ~AwaitsRelease(d)'
  BY <1>1, <1>2 DEF AwaitsRelease
<1>6. d \in Working /\ Working' = Working \ {d}
  <2>1. \A e \in Devices : e # d => (e \in Working' <=> e \in Working)
    BY <1>3, <1>4 DEF Working
  <2>2. d \in Working /\ d \notin Working'
    BY <1>1, <1>3, <1>5 DEF Working
  <2>3. Working \subseteq Devices /\ Working' \subseteq Devices
    BY DEF Working
  <2> QED BY <2>1, <2>2, <2>3
<1>7. Halted' = Halted
  BY <1>1 DEF Halted, AllFinished
<1>8. CASE dpc'[d] = "check"
  <2>1. Active' = Active
    BY <1>1, <1>3, <1>8 DEF Active
  <2> QED BY <1>1, <1>6, <1>7, <2>1 DEF Clock!EndSlot
<1>9. CASE dpc'[d] = "exited"
  <2>1. Active' = Active \ {d}
    BY <1>3, <1>9 DEF Active
  <2> QED BY <1>1, <1>6, <1>7, <2>1 DEF Clock!Leave
<1> QED BY <1>3, <1>8, <1>9

(***************************************************************************)
(* Attaching, and waiting for the release, are invisible.                  *)
(***************************************************************************)
LEMMA DeviceClock ==
  ASSUME IInv, NEW d \in Devices,
         AttachEvent(d) \/ NextSlotCheck(d) \/ SpuriousWakeDevice(d)
  PROVE  UNCHANGED Clock!clock_vars
<1>1. /\ UNCHANGED <<time, tpc, temp, nfsh, event>>
      /\ UNCHANGED dev_list \/ tpc # "release"
      /\ \A e \in Devices : done'[e] <=> done[e]
      /\ \E l \in {"work", "wait", "check"} :
           /\ dpc' = [dpc EXCEPT ![d] = l]
           /\ l = "work" => dpc[d] = "none" \/ (dpc[d] = "check" /\ ~done[d])
           /\ l = "wait" => dpc[d] = "check" /\ done[d]
           /\ l = "check" => dpc[d] = "wait"
  BY DEF AttachEvent, NextSlotCheck, SpuriousWakeDevice, list_vars, timer_thread, IInv, TypeOK,
         ListInv, DeviceInv
<1>2. \A e \in Devices : e # d => dpc'[e] = dpc[e]
  BY <1>1 DEF IInv, TypeOK
<1>3. dpc[d] # "exited" /\ dpc'[d] # "exited"
  BY <1>1 DEF IInv, TypeOK
<1>4. \A e \in Devices : AwaitsRelease(e)' <=> AwaitsRelease(e)
  BY <1>1, <1>2, <1>3 DEF AwaitsRelease
<1>5. \A e \in Devices : e # d => (e \in Working' <=> e \in Working)
  BY <1>1, <1>2, <1>4 DEF Working
<1>6. d \in Working' <=> d \in Working
  BY <1>1, <1>4 DEF Working, IInv, TypeOK
<1>7. Halted' <=> Halted
  BY <1>1 DEF Halted, AllFinished
<1> QED BY <1>1, <1>2, <1>3, <1>5, <1>6, <1>7, SameClock

(***************************************************************************)
(* Every step of timer.c and its clients is a step of the slot clock or    *)
(* leaves it alone.                                                        *)
(***************************************************************************)
LEMMA StepClock ==
  ASSUME IInv, CountInv, [Next]_vars
  PROVE  [Clock!ClockNext]_(Clock!clock_vars)
<1>1. CASE TimerThread \/ StartTimer \/ JoinTimer \/ SpuriousWakeTimer
  BY <1>1, ControlClock, TickClock, ReleaseClock DEF TimerThread, Clock!ClockNext
<1>2. ASSUME NEW d \in Devices, AttachEvent(d) \/ Device(d) \/ SpuriousWakeDevice(d)
      PROVE  [Clock!ClockNext]_(Clock!clock_vars)
  BY <1>2, EndOfSlotClock, DeviceClock DEF Device, Clock!ClockNext
<1>3. CASE StopTimer \/ Terminated \/ UNCHANGED vars
  <2>1. UNCHANGED <<time, tpc, temp, nfsh, event, dev_list, dpc, done>>
    BY <1>3 DEF StopTimer, list_vars, timer_thread, Terminated, vars
  <2>2. \A e \in Devices : e \in Working' <=> e \in Working
    BY <2>1 DEF Working, AwaitsRelease
  <2>3. Halted' <=> Halted
    BY <2>1 DEF Halted, AllFinished
  <2> QED BY <2>1, <2>2, <2>3, SameClock
<1> QED BY <1>1, <1>2, <1>3 DEF Next, Main

(***************************************************************************)
(* The mutexes, condition variables and loops of timer.c implement the     *)
(* slot clock that os.c is written against, for any number of devices.     *)
(* (The clock's fairness stays with TLC.)                                  *)
(***************************************************************************)
THEOREM TimerIsASlotClock == Spec => Clock!ClockSafety
<1>1. Init => Clock!ClockInit /\ CountInv
  BY DEF Init, Clock!ClockInit, Active, Working, Halted, AwaitsRelease, CountInv
<1>2. IInv /\ CountInv /\ [Next]_vars => CountInv'
  BY CountStep
<1>3. IInv /\ CountInv /\ [Next]_vars => [Clock!ClockNext]_(Clock!clock_vars)
  BY StepClock
<1> QED BY <1>1, <1>2, <1>3, Invariance, PTL DEF Spec, Clock!ClockSafety
=============================================================================
