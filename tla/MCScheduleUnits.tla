-------------------------- MODULE MCScheduleUnits --------------------------
(* Instances of ScheduleUnits: what may be exchanged.                      *)
EXTENDS ScheduleUnits, TLC

Symmetry ==
  Permutations(Schedules) \cup Permutations(Requests) \cup Permutations(Valid)
=============================================================================
