------------------------------ MODULE SysVSem ------------------------------
(***************************************************************************)
(* System V semaphore sets, as myLock.cpp and mysem.cpp use them through   *)
(* semget, semop, semctl and process exit (ipc/sem.c of Linux).            *)
(* External to the repository.  One key, so at most one live set; ids are  *)
(* never handed out twice.                                                 *)
(***************************************************************************)
EXTENDS Integers

CONSTANTS Procs,    (* the processes                            *)
          SemIds,   (* identifiers semget can return            *)
          Nums      (* semaphore numbers within a set           *)

VARIABLES
  life,    (* life[s]: "unused", "live" or "removed" (IPC_RMID)           *)
  val,     (* val[s][n]: semval                                           *)
  otime,   (* otime[s]: whether sem_otime is set, i.e. some semop is done *)
  adj      (* adj[p][s][n]: semadj, what SEM_UNDO gives back at exit of p *)

semVars == <<life, val, otime, adj>>

NoAdj == [s \in SemIds |-> [n \in Nums |-> 0]]

SemTypeOK ==
  /\ life  \in [SemIds -> {"unused", "live", "removed"}]
  /\ val   \in [SemIds -> [Nums -> Nat]]
  /\ otime \in [SemIds -> BOOLEAN]
  /\ adj   \in [Procs -> [SemIds -> [Nums -> Int]]]

SemInit ==
  /\ life  = [s \in SemIds |-> "unused"]
  /\ val   = [s \in SemIds |-> [n \in Nums |-> 0]]
  /\ otime = [s \in SemIds |-> FALSE]
  /\ adj   = [p \in Procs |-> NoAdj]

KeyInUse == \E s \in SemIds : life[s] = "live"

\* semget(key, n, IPC_CREAT | IPC_EXCL) when the key is free; Linux zeroes
\* the new semaphores and sem_otime.
SemCreate(s) ==
  /\ ~KeyInUse
  /\ life[s] = "unused"
  /\ life' = [life EXCEPT ![s] = "live"]
  /\ UNCHANGED <<val, otime, adj>>

(***************************************************************************)
(* One successful semop of process p on set s: every semaphore of `zero'   *)
(* is 0 and semaphore n changes by d, atomically.  The call blocks while   *)
(* this is not possible, so the condition is the guard.                    *)
(***************************************************************************)
Semop(p, s, zero, n, d, undo) ==
  /\ life[s] = "live"
  /\ \A z \in zero : val[s][z] = 0
  /\ val[s][n] + d >= 0
  /\ val'   = [val EXCEPT ![s][n] = @ + d]
  /\ otime' = [otime EXCEPT ![s] = TRUE]
  /\ adj'   = IF undo THEN [adj EXCEPT ![p][s][n] = @ - d] ELSE adj
  /\ UNCHANGED life

\* One successful semop that changes every semaphore of s, without undo; a
\* change of 0 waits for the semaphore to be 0.
SemopAll(s, d) ==
  /\ life[s] = "live"
  /\ \A n \in Nums : IF d[n] = 0 THEN val[s][n] = 0 ELSE val[s][n] + d[n] >= 0
  /\ val'   = [val EXCEPT ![s] = [n \in Nums |-> @[n] + d[n]]]
  /\ otime' = [otime EXCEPT ![s] = TRUE]
  /\ UNCHANGED <<life, adj>>

\* semop on a set that is gone, at the call (EINVAL) or while blocked (EIDRM).
SemGone(s) ==
  /\ life[s] = "removed"
  /\ UNCHANGED semVars

\* semctl(s, 0, IPC_RMID): the kernel frees the undo entries of the set.
SemRemove(s) ==
  /\ life[s] = "live"
  /\ life' = [life EXCEPT ![s] = "removed"]
  /\ adj'  = [p \in Procs |-> [adj[p] EXCEPT ![s] = [n \in Nums |-> 0]]]
  /\ UNCHANGED <<val, otime>>

\* Exit of p, orderly or not: exit_sem() adds semadj to every semaphore of
\* the live sets, clamping at 0.
SemExit(p) ==
  /\ val' = [s \in SemIds |-> [n \in Nums |->
               IF val[s][n] + adj[p][s][n] < 0 THEN 0
               ELSE val[s][n] + adj[p][s][n]]]
  /\ adj' = [adj EXCEPT ![p] = NoAdj]
  /\ UNCHANGED <<life, otime>>
=============================================================================
