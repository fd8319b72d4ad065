----------------------------- MODULE MCWRLock ------------------------------
(* WRLock for TLC: processes are interchangeable, and so are set ids. *)
EXTENDS WRLock, TLC

SemSymmetry == Permutations(Procs) \cup Permutations(SemIds)
=============================================================================
