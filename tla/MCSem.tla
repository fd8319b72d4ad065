------------------------------- MODULE MCSem -------------------------------
(* Sem for TLC: two resources; processes are interchangeable. *)
EXTENDS Sem, TLC

SemTotal  == 0 :> 2
SemCounts == {-1, 0, 1, 2}
ProcSymmetry == Permutations(Procs)
=============================================================================
