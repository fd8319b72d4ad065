-------------------------------- MODULE Sem --------------------------------
(***************************************************************************)
(* TSem (mysem.cpp): a set of counting semaphores, one object in each      *)
(* process, all on one key.  A semop is one step; a blocked one waits at   *)
(* its pc, and EINTR, answered with `goto redo', is a stutter.  sem_lock,  *)
(* sem_try_lock and sem_unlock make the same semop (lines 101, 109, 117):  *)
(* all three take, all three block, and only a negative count gives.       *)
(***************************************************************************)
EXTENDS SysVSem, FiniteSetsExt

CONSTANTS Total,     \* total_array of sem_create, by semaphore number
          Counts,    \* the counts programs pass to the lock methods
          MaxTries,  \* MAX_TRIES
          MaxHeld,   \* bound on what one process takes or gives of a semaphore
          NoId       \* m_semid = -1

ASSUME SemAssumption ==
  /\ IsFiniteSet(Procs) /\ Total \in [Nums -> Nat] /\ Counts \subseteq Int
  /\ MaxTries \in Nat \ {0} /\ MaxHeld \in Nat
  /\ NoId \notin SemIds

VARIABLES
  pc,
  m_semid,
  semid, tries,  \* locals of sem_create and sem_get
  no, count,     \* arguments of the lock methods
  \* history
  held,          \* held[p][s][n]: what the successful calls of p have taken
  clamped        \* sets at which some exit had to stop at 0

objVars == <<pc, m_semid, semid, tries, no, count>>
vars    == <<semVars, objVars, held, clamped>>

NoneHeld == [s \in SemIds |-> [n \in Nums |-> 0]]

Init ==
  /\ SemInit
  /\ pc = [p \in Procs |-> "idle"]
  /\ m_semid = [p \in Procs |-> NoId] /\ semid = [p \in Procs |-> NoId]
  /\ tries = [p \in Procs |-> 0]
  /\ no = [p \in Procs |-> 0] /\ count = [p \in Procs |-> 0]
  /\ held = [p \in Procs |-> NoneHeld] /\ clamped = {}

Goto(p, from, to) == pc[p] = from /\ pc' = [pc EXCEPT ![p] = to]

----------------------------------------------------------------------------
\* Without success sem_create changes nothing.
sem_create(p) ==
  /\ Goto(p, "idle", "fill")
  /\ \E s \in SemIds : SemCreate(s) /\ semid' = [semid EXCEPT ![p] = s]
  /\ UNCHANGED <<m_semid, tries, no, count, held, clamped>>

\* All the values in one semop; m_semid stays what it was when that fails.
Fill(p) ==
  /\ Goto(p, "fill", "idle")
  /\ \/ SemopAll(semid[p], Total) /\ m_semid' = [m_semid EXCEPT ![p] = semid[p]]
     \/ SemGone(semid[p]) /\ UNCHANGED m_semid
  /\ semid' = [semid EXCEPT ![p] = NoId]
  /\ UNCHANGED <<tries, no, count, held, clamped>>

sem_get(p) ==
  /\ \/ /\ Goto(p, "idle", "poll")
        /\ \E s \in SemIds : life[s] = "live" /\ m_semid' = [m_semid EXCEPT ![p] = s]
     \/ Goto(p, "idle", "idle") /\ ~KeyInUse /\ m_semid' = [m_semid EXCEPT ![p] = NoId]
  /\ tries' = [tries EXCEPT ![p] = 0]
  /\ UNCHANGED <<semVars, semid, no, count, held, clamped>>

\* get_sem_otime is 0 also when the set is gone.
Initialised(s) == life[s] = "live" /\ otime[s]

\* m_semid is kept when the tries are over.
PollKeepsId(p) ==
  /\ \/ /\ Goto(p, "poll", "idle")
        /\ Initialised(m_semid[p])
        /\ tries' = [tries EXCEPT ![p] = 0]
        /\ UNCHANGED m_semid
     \/ /\ ~Initialised(m_semid[p])
        /\ IF tries[p] + 1 < MaxTries
             THEN Goto(p, "poll", "poll") /\ tries' = [tries EXCEPT ![p] = @ + 1]
             ELSE Goto(p, "poll", "idle") /\ tries' = [tries EXCEPT ![p] = 0]
        /\ UNCHANGED m_semid
  /\ UNCHANGED <<semVars, semid, no, count, held, clamped>>

Poll(p) ==
  /\ \/ /\ Goto(p, "poll", "idle")
        /\ Initialised(m_semid[p])
        /\ tries' = [tries EXCEPT ![p] = 0]
        /\ UNCHANGED m_semid
     \/ /\ Goto(p, "poll", "poll")
        /\ ~Initialised(m_semid[p]) /\ tries[p] + 1 < MaxTries
        /\ tries' = [tries EXCEPT ![p] = @ + 1]
        /\ UNCHANGED m_semid
     \/ /\ Goto(p, "poll", "idle")
        /\ ~Initialised(m_semid[p]) /\ tries[p] + 1 = MaxTries
        /\ m_semid' = [m_semid EXCEPT ![p] = NoId]
        /\ tries' = [tries EXCEPT ![p] = 0]
  /\ UNCHANGED <<semVars, semid, no, count, held, clamped>>

\* sem_lock, sem_try_lock or sem_unlock; a bad count is noted and used.
CallLock(p) ==
  /\ Goto(p, "idle", "semop")
  /\ m_semid[p] # NoId
  /\ \E n \in Nums : no' = [no EXCEPT ![p] = n]
  /\ \E c \in Counts : count' = [count EXCEPT ![p] = c]
  /\ held[p][m_semid[p]][no'[p]] + count'[p] \in -MaxHeld .. MaxHeld
  /\ UNCHANGED <<semVars, m_semid, semid, tries, held, clamped>>

\* The flag is 0 for every count.
SetOpNoUndo(p) ==
  LET s == m_semid[p]  n == no[p]  c == count[p] IN
  /\ Goto(p, "semop", "idle")
  /\ \/ /\ Semop(p, s, IF c = 0 THEN {n} ELSE {}, n, -c, FALSE)
        /\ held' = [held EXCEPT ![p][s][n] = @ + c]
     \/ SemGone(s) /\ UNCHANGED held
  /\ no' = [no EXCEPT ![p] = 0] /\ count' = [count EXCEPT ![p] = 0]
  /\ UNCHANGED <<m_semid, semid, tries, clamped>>

set_op(p) ==
  LET s == m_semid[p]  n == no[p]  c == count[p] IN
  /\ Goto(p, "semop", "idle")
  /\ \/ /\ Semop(p, s, IF c = 0 THEN {n} ELSE {}, n, -c, c # 0)
        /\ held' = [held EXCEPT ![p][s][n] = @ + c]
     \/ SemGone(s) /\ UNCHANGED held
  /\ no' = [no EXCEPT ![p] = 0] /\ count' = [count EXCEPT ![p] = 0]
  /\ UNCHANGED <<m_semid, semid, tries, clamped>>

\* m_semid keeps the id of the removed set; what was taken of it is void.
sem_delete(p) ==
  /\ pc[p] = "idle" /\ m_semid[p] # NoId
  /\ SemRemove(m_semid[p])
  /\ held' = [q \in Procs |-> [held[q] EXCEPT ![m_semid[p]] = [n \in Nums |-> 0]]]
  /\ UNCHANGED <<objVars, clamped>>

Exit(p) ==
  /\ SemExit(p)
  /\ clamped' = clamped \cup {s \in SemIds : \E n \in Nums : val[s][n] + adj[p][s][n] < 0}
  /\ held' = [held EXCEPT ![p] = NoneHeld]
  /\ pc' = [pc EXCEPT ![p] = "idle"]
  /\ m_semid' = [m_semid EXCEPT ![p] = NoId] /\ semid' = [semid EXCEPT ![p] = NoId]
  /\ tries' = [tries EXCEPT ![p] = 0]
  /\ no' = [no EXCEPT ![p] = 0] /\ count' = [count EXCEPT ![p] = 0]

Next ==
  \E p \in Procs :
    \/ sem_create(p) \/ Fill(p) \/ sem_get(p) \/ Poll(p) \/ CallLock(p) \/ set_op(p)
    \/ sem_delete(p) \/ Exit(p)

Spec == Init /\ [][Next]_vars

----------------------------------------------------------------------------
\* Nobody has a set its creator has not filled yet, and every set that is
\* filled has, of each semaphore, exactly what living processes have not
\* taken, whoever died and where, until the exit of a process that had given
\* more than it took finds too little left to take it back.
SemBalance ==
  /\ \A p \in Procs : pc[p] \in {"idle", "semop"} /\ m_semid[p] # NoId => otime[m_semid[p]]
  /\ \A s \in SemIds \ clamped : Initialised(s) =>
       \A n \in Nums :
         val[s][n] + MapThenSumSet(LAMBDA p : held[p][s][n], Procs) = Total[n]
=============================================================================
