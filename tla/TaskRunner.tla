---------------------------- MODULE TaskRunner -----------------------------
(***************************************************************************)
(* What TThread promises to the client that starts tasks on it: one task   *)
(* at a time, each started task run once and to its end, and no task run   *)
(* that was not started.  The worker may stop at any time, for good.       *)
(***************************************************************************)
CONSTANTS Tasks, NoTask

VARIABLES phase,  (* "idle", "given", "running" or "stopped" *)
          job     (* the task given or running               *)

vars == <<phase, job>>

Init == phase = "idle" /\ job = NoTask

Give(t) == phase = "idle"    /\ phase' = "given"   /\ job' = t
Take    == phase = "given"   /\ phase' = "running" /\ UNCHANGED job
Finish  == phase = "running" /\ phase' = "idle"    /\ job' = NoTask
Stop    == phase # "stopped" /\ phase' = "stopped" /\ job' = NoTask

Next == (\E t \in Tasks : Give(t)) \/ Take \/ Finish \/ Stop

Spec == Init /\ [][Next]_vars
=============================================================================
