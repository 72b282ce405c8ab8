------------------------------ MODULE Replica ------------------------------
(***************************************************************************)
(* What the daemon's cache promises about a device, without polls, locks   *)
(* or lost replies: it shows some of the device's parameters, each with a  *)
(* value the device has, or had; and a reader of the cache never sees a    *)
(* parameter go back in time, not even after it disappeared for a while.   *)
(*                                                                         *)
(* A parameter's value is the number of changes it has had.                *)
(***************************************************************************)
EXTENDS Naturals

CONSTANTS Params,
          None      \* a parameter not shown

VARIABLES device,     \* the device's values
          shown,      \* the values a reader of the cache sees
          seen        \* the newest value of each parameter shown so far

rvars == <<device, shown, seen>>

ReplicaInit == /\ device = [p \in Params |-> 0]
               /\ shown = [p \in Params |-> None]
               /\ seen = [p \in Params |-> 0]

\* The device changes, by a write or by itself.
Change == /\ \A p \in Params : device'[p] >= device[p]
          /\ UNCHANGED <<shown, seen>>

\* The cache shows other values, none older than what it showed before.
Refresh == /\ \A p \in Params : shown'[p] \in {None} \cup (seen[p]..device[p])
           /\ seen' = [p \in Params |-> IF shown'[p] = None THEN seen[p]
                                                            ELSE shown'[p]]
           /\ UNCHANGED device

ReplicaSpec == ReplicaInit /\ [][Change \/ Refresh]_rvars
=============================================================================
