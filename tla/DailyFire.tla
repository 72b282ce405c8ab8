----------------------------- MODULE DailyFire -----------------------------
(***************************************************************************)
(* What a schedule promises about firing, without ticks, locks, retries or *)
(* a wall clock.  The record of successful fires holds, for every minute   *)
(* of the day, the last calendar day on which its entry was fired.  A fire *)
(* is begun only for a day later than the one recorded; it ends recorded   *)
(* or given up.  A new schedule starts with an empty record, and a restart *)
(* falls back to the record that reached the disk.                         *)
(* Scheduler implements it.                                                *)
(***************************************************************************)
EXTENDS Naturals

CONSTANTS Minutes,    \* the minutes an entry's At-time can name
          Nobody      \* no fire is under way

VARIABLES today,      \* the calendar day; days count from 1
          firing,     \* <<minute, day>> of the fire under way, or Nobody
          fired,      \* minute -> day of its last recorded fire, 0 = never
          saved       \* the record a restart would come back with

dfvars == <<today, firing, fired, saved>>

NeverFired == [m \in Minutes |-> 0]

DFInit == /\ today = 1
          /\ firing = Nobody
          /\ fired = NeverFired
          /\ saved = NeverFired

NextDay == /\ today' = today + 1
           /\ UNCHANGED <<firing, fired, saved>>

\* The record may reach the disk with any step.
Persist == saved' \in {saved, fired'}

Begin(m, d) == /\ firing = Nobody
               /\ d > fired[m]
               /\ d <= today
               /\ firing' = <<m, d>>
               /\ Persist
               /\ UNCHANGED <<today, fired>>

Succeed == /\ firing # Nobody
           /\ fired' = [fired EXCEPT ![firing[1]] = firing[2]]
           /\ firing' = Nobody
           /\ Persist
           /\ UNCHANGED today

GiveUp == /\ firing' = Nobody
          /\ Persist
          /\ UNCHANGED <<today, fired>>

Clear == /\ fired' = NeverFired
         /\ Persist
         /\ UNCHANGED <<today, firing>>

\* A save that changes nothing in the record (of an unrelated field).
Flush == /\ UNCHANGED <<today, firing, fired>>
         /\ Persist

Restore == /\ fired' = saved
           /\ firing' = Nobody
           /\ UNCHANGED <<today, saved>>

DFNext == \/ NextDay
          \/ \E m \in Minutes, d \in 1..today : Begin(m, d)
          \/ Succeed
          \/ GiveUp
          \/ Clear
          \/ Flush
          \/ Restore

DFSpec == DFInit /\ [][DFNext]_dfvars
=============================================================================
