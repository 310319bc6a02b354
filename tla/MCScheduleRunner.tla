-------------------------- MODULE MCScheduleRunner --------------------------
(***************************************************************************)
(* Bounded instances of ScheduleRunner.                                    *)
(***************************************************************************)
EXTENDS ScheduleRunner, TLC

Symmetry == Permutations(Replicas)
=============================================================================
