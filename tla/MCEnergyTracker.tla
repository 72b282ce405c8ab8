-------------------------- MODULE MCEnergyTracker --------------------------
(***************************************************************************)
(* A unit that heats, cools or does not count; two days to the month, the  *)
(* last of three beginning a new one; an interval may be twice the cap.    *)
(***************************************************************************)
EXTENDS EnergyTracker

Heats == [type |-> "known", regen |-> TRUE, power |-> TRUE, inputs |-> TRUE,
          supply |-> 30, extract |-> 60, delta |-> 8]
Cools == [Heats EXCEPT !.delta = -1, !.supply = 120, !.extract = 5]
Other == [Heats EXCEPT !.type = "other"]
MCReadings == {Heats, Cools, Other}
=============================================================================
