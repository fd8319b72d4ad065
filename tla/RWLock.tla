------------------------------ MODULE RWLock -------------------------------
(***************************************************************************)
(* What TWRLock promises: a write-preferring reader/writer lock.  Each     *)
(* lock has readers, at most one writer, and a claim a writer raises       *)
(* before it enters: while the claim stands nobody starts reading.         *)
(* A process may vanish at any time and then holds nothing.                *)
(***************************************************************************)
EXTENDS Naturals, FiniteSets

CONSTANTS Procs, Locks, MaxReaders

VARIABLES readers,  (* readers[l]: the processes reading under l           *)
          writer,   (* writer[l]: the process writing under l, or {}       *)
          claim     (* claim[l]: the process with the write claim, or {}   *)

vars == <<readers, writer, claim>>

Init ==
  /\ readers = [l \in Locks |-> {}]
  /\ writer  = [l \in Locks |-> {}]
  /\ claim   = [l \in Locks |-> {}]

EnterR(p, l) ==
  /\ claim[l] = {}
  /\ Cardinality(readers[l]) < MaxReaders
  /\ readers' = [readers EXCEPT ![l] = @ \cup {p}]
  /\ UNCHANGED <<writer, claim>>

Claim(p, l) ==
  /\ claim[l] = {}
  /\ claim' = [claim EXCEPT ![l] = {p}]
  /\ UNCHANGED <<readers, writer>>

EnterW(p, l) ==
  /\ claim[l] = {p}
  /\ readers[l] = {}
  /\ writer' = [writer EXCEPT ![l] = {p}]
  /\ UNCHANGED <<readers, claim>>

\* The writer is done; its claim goes in a later step.
LeaveW(p, l) ==
  /\ writer[l] = {p}
  /\ writer' = [writer EXCEPT ![l] = {}]
  /\ UNCHANGED <<readers, claim>>

\* p gives up everything it has: it released, died, or its lock is gone.
Drop(p) ==
  /\ readers' = [l \in Locks |-> readers[l] \ {p}]
  /\ writer'  = [l \in Locks |-> writer[l] \ {p}]
  /\ claim'   = [l \in Locks |-> claim[l] \ {p}]

Next ==
  \E p \in Procs :
    \/ \E l \in Locks :
         EnterR(p, l) \/ Claim(p, l) \/ EnterW(p, l) \/ LeaveW(p, l)
    \/ Drop(p)

Spec == Init /\ [][Next]_vars
=============================================================================
