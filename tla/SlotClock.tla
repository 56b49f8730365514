----------------------------- MODULE SlotClock -----------------------------
(***************************************************************************)
(* What timer.c promises to the threads that use it: simulated time        *)
(* advances in slots, every attached device works in every slot, and the   *)
(* slot changes only when every device has finished its part of it.        *)
(*                                                                         *)
(* Timer.tla (mutexes, condition variables, the scan and release loops) is *)
(* shown to implement this module; OS.tla composes the CPUs and the loader *)
(* with it.                                                                *)
(***************************************************************************)
EXTENDS Naturals

CONSTANT Devices        \* the threads attached to the timer: CPUs and loader

VARIABLES
  time,                 \* the current slot, _time
  active,               \* devices that have not detached
  working,              \* active devices that have not finished this slot
  halted                \* the timer thread is leaving or has left its loop

clock_vars == <<time, active, working, halted>>

ClockTypeOK ==
  /\ time \in Nat
  /\ active \in SUBSET Devices
  /\ working \in SUBSET active
  /\ halted \in BOOLEAN

ClockInit ==
  /\ time = 0
  /\ active = Devices
  /\ working = Devices
  /\ halted = FALSE

\* next_slot(): d has done its job in the current slot.
EndSlot(d) ==
  /\ d \in working
  /\ working' = working \ {d}
  /\ UNCHANGED <<time, active, halted>>

\* detach_event(): d takes no further part.
Leave(d) ==
  /\ d \in working
  /\ working' = working \ {d}
  /\ active' = active \ {d}
  /\ UNCHANGED <<time, halted>>

\* The timer moves on: all remaining devices work in the new slot.  When no
\* device remains this is the timer's last round.
Tick ==
  /\ working = {}
  /\ ~halted
  /\ time' = time + 1
  /\ working' = active
  /\ halted' = (active = {})
  /\ UNCHANGED active

\* stop_timer(): every device has left, the timer stops before another round.
Halt ==
  /\ active = {}
  /\ ~halted
  /\ halted' = TRUE
  /\ UNCHANGED <<time, active, working>>

ClockNext ==
  \/ \E d \in Devices : EndSlot(d) \/ Leave(d)
  \/ Tick
  \/ Halt

ClockSafety == ClockInit /\ [][ClockNext]_clock_vars

ClockSpec == ClockSafety /\ WF_clock_vars(Tick)
=============================================================================
