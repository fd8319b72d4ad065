----------------------------- MODULE MCThread ------------------------------
(* Thread for TLC: tasks are interchangeable. *)
EXTENDS Thread, TLC

TaskSymmetry == Permutations(Tasks)
=============================================================================
