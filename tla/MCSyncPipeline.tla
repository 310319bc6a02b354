--------------------------- MODULE MCSyncPipeline ---------------------------
(***************************************************************************)
(* Bounded instances of SyncPipeline.                                      *)
(***************************************************************************)
EXTENDS SyncPipeline, TLC

NoLimits == {}
Limits == {NoTime, 1}

Symmetry == Permutations(Workers) \cup Permutations(RunIds) \cup Permutations(Accounts)
=============================================================================
