------------------------------ MODULE WRLock -------------------------------
(***************************************************************************)
(* TWRLock (myLock.cpp): a write-preferring reader/writer lock between     *)
(* processes, made of one System V set of two semaphores.  Semaphore 0 is  *)
(* the writers' mutex (0 free, 1 claimed), semaphore 1 the free resources: *)
(* a reader takes one, a writer all MaxResource.  Every semop is one step  *)
(* of its process; a blocking one waits at its own pc, and an EINTR, which *)
(* the code answers with `goto redo', changes nothing and is a stutter.    *)
(***************************************************************************)
EXTENDS SysVSem, FiniteSets

CONSTANTS MaxResource,  \* MAX_RESOURCE
          MaxTries,     \* MAX_TRIES, polls of sem_otime by a connecting Init
          Destroyers,   \* the processes whose program calls Destroy
          NoId          \* m_semid = -1

ASSUME WRLockAssumption ==
  /\ MaxResource \in Nat \ {0}
  /\ MaxTries \in Nat \ {0}
  /\ Destroyers \subseteq Procs
  /\ IsFiniteSet(Procs)
  /\ Nums = {0, 1}
  /\ NoId \notin SemIds

VARIABLES pc,      \* where each process is in the methods of its TWRLock
          semid,   \* m_semid
          tries    \* the loop counter i of Init

lockVars == <<pc, semid, tries>>
vars == <<semVars, lockVars>>

Pcs == {"new", "initop", "connect", "poll", "ready", "lockR", "reading",
        "lockW0", "lockW1", "writing", "unlockW1"}

TypeOK ==
  /\ SemTypeOK
  /\ pc    \in [Procs -> Pcs]
  /\ semid \in [Procs -> SemIds \cup {NoId}]
  /\ tries \in [Procs -> 0 .. MaxTries - 1]

Init ==
  /\ SemInit
  /\ pc    = [p \in Procs |-> "new"]
  /\ semid = [p \in Procs |-> NoId]
  /\ tries = [p \in Procs |-> 0]

Goto(p, from, to) == pc[p] \in from /\ pc' = [pc EXCEPT ![p] = to]

----------------------------------------------------------------------------
\* Init(key)

\* The key is free: create the set; its value is given in a second call.
InitCreate(p) ==
  /\ Goto(p, {"new", "ready"}, "initop")
  /\ \E s \in SemIds : SemCreate(s) /\ semid' = [semid EXCEPT ![p] = s]
  /\ UNCHANGED tries

\* semget fails: EEXIST, and Init goes on to connect, or another errno, and
\* Init returns -1.
InitNoCreate(p) ==
  /\ \/ KeyInUse  /\ Goto(p, {"new", "ready"}, "connect")
     \/ ~KeyInUse /\ Goto(p, {"new", "ready"}, "new")
  /\ semid' = [semid EXCEPT ![p] = NoId]
  /\ UNCHANGED <<tries, semVars>>

\* The creator's semop gives semaphore 1 its MaxResource units.
InitOp(p) ==
  /\ \/ /\ Goto(p, {"initop"}, "ready")
        /\ Semop(p, semid[p], {0}, 1, MaxResource, FALSE)
     \/ Goto(p, {"initop"}, "new") /\ SemGone(semid[p])
  /\ UNCHANGED <<semid, tries>>

\* The second semget: the set may be gone by now.
Connect(p) ==
  /\ \/ /\ Goto(p, {"connect"}, "poll")
        /\ \E s \in SemIds : life[s] = "live" /\ semid' = [semid EXCEPT ![p] = s]
     \/ Goto(p, {"connect"}, "new") /\ ~KeyInUse /\ UNCHANGED semid
  /\ tries' = [tries EXCEPT ![p] = 0]
  /\ UNCHANGED semVars

\* SemOtime(): 0 also when IPC_STAT fails.
SemOtime(s) == life[s] = "live" /\ otime[s]

PollIgnoringOtime(p) ==
  Goto(p, {"poll"}, "ready") /\ UNCHANGED <<semid, tries, semVars>>

PollOneTooMany(p) ==
  /\ Goto(p, {"poll"}, IF tries[p] = MaxTries THEN "new" ELSE "poll")
  /\ ~SemOtime(semid[p])
  /\ tries' = [tries EXCEPT ![p] = @ + 1]
  /\ UNCHANGED <<semid, semVars>>

Poll(p) ==
  /\ \/ /\ Goto(p, {"poll"}, "ready")
        /\ SemOtime(semid[p])
        /\ UNCHANGED tries
     \/ /\ Goto(p, {"poll"}, "poll")
        /\ ~SemOtime(semid[p])
        /\ tries[p] + 1 < MaxTries
        /\ tries' = [tries EXCEPT ![p] = @ + 1]
     \/ /\ Goto(p, {"poll"}, "new")
        /\ ~SemOtime(semid[p])
        /\ tries[p] + 1 = MaxTries
        /\ UNCHANGED tries
  /\ UNCHANGED <<semid, semVars>>

Destroy(p) ==
  /\ p \in Destroyers
  /\ pc[p] = "ready"
  /\ SemRemove(semid[p])
  /\ UNCHANGED lockVars

----------------------------------------------------------------------------
\* LockR(), UnLockR(), LockW(), UnLockW()

CallLock(p) ==
  /\ \/ Goto(p, {"ready"}, "lockR")
     \/ Goto(p, {"ready"}, "lockW0")
  /\ UNCHANGED <<semid, tries, semVars>>

LockRWithoutMutexTest(p) ==
  /\ Goto(p, {"lockR"}, "reading")
  /\ Semop(p, semid[p], {}, 1, -1, TRUE)
  /\ UNCHANGED <<semid, tries>>

\* Semaphore 0 must be 0, tested but not taken, and one resource is taken.
LockR(p) ==
  /\ Goto(p, {"lockR"}, "reading")
  /\ Semop(p, semid[p], {0}, 1, -1, TRUE)
  /\ UNCHANGED <<semid, tries>>

UnLockR(p) ==
  /\ Goto(p, {"reading"}, "ready")
  /\ Semop(p, semid[p], {}, 1, 1, TRUE)
  /\ UNCHANGED <<semid, tries>>

\* sb0: wait until semaphore 0 is 0 and raise it, in one semop.
LockW0(p) ==
  /\ Goto(p, {"lockW0"}, "lockW1")
  /\ Semop(p, semid[p], {0}, 0, 1, TRUE)
  /\ UNCHANGED <<semid, tries>>

LockW1OneResource(p) ==
  /\ Goto(p, {"lockW1"}, "writing")
  /\ Semop(p, semid[p], {}, 1, -1, TRUE)
  /\ UNCHANGED <<semid, tries>>

\* sb1: take all the resources.
LockW1(p) ==
  /\ Goto(p, {"lockW1"}, "writing")
  /\ Semop(p, semid[p], {}, 1, -MaxResource, TRUE)
  /\ UNCHANGED <<semid, tries>>

UnLockW0NoUndo(p) ==
  /\ Goto(p, {"writing"}, "unlockW1")
  /\ Semop(p, semid[p], {}, 1, MaxResource, FALSE)
  /\ UNCHANGED <<semid, tries>>

UnLockW0(p) ==
  /\ Goto(p, {"writing"}, "unlockW1")
  /\ Semop(p, semid[p], {}, 1, MaxResource, TRUE)
  /\ UNCHANGED <<semid, tries>>

UnLockW1Raises(p) ==
  /\ Goto(p, {"unlockW1"}, "ready")
  /\ Semop(p, semid[p], {}, 0, 1, TRUE)
  /\ UNCHANGED <<semid, tries>>

UnLockW1(p) ==
  /\ Goto(p, {"unlockW1"}, "ready")
  /\ Semop(p, semid[p], {}, 0, -1, TRUE)
  /\ UNCHANGED <<semid, tries>>

\* Each of these semops fails when the set has been removed, and the method
\* returns -1 from where it is.
SemopFails(p) ==
  /\ Goto(p, {"lockR", "reading", "lockW0", "lockW1", "writing", "unlockW1"}, "ready")
  /\ SemGone(semid[p])
  /\ UNCHANGED <<semid, tries>>

----------------------------------------------------------------------------
\* The process exits or is killed, anywhere; another one may take its place.
Exit(p) ==
  /\ SemExit(p)
  /\ pc'    = [pc EXCEPT ![p] = "new"]
  /\ semid' = [semid EXCEPT ![p] = NoId]
  /\ tries' = [tries EXCEPT ![p] = 0]

Step(p) ==
  \/ InitCreate(p) \/ InitNoCreate(p) \/ InitOp(p) \/ Connect(p) \/ Poll(p)
  \/ Destroy(p) \/ CallLock(p) \/ LockR(p) \/ UnLockR(p)
  \/ LockW0(p) \/ LockW1(p) \/ UnLockW0(p) \/ UnLockW1(p) \/ SemopFails(p)

Next == \E p \in Procs : Step(p) \/ Exit(p)

Spec == Init /\ [][Next]_vars

(***************************************************************************)
(* A process inside Init or an unlock method keeps running and a holder    *)
(* eventually unlocks (weak).  A sleeping semop that is possible again and *)
(* again is served: the kernel scans the queue of a set in arrival order   *)
(* at every change (strong, needed by the writers' first semop only).      *)
(* Nobody must call Lock, Init or Destroy, and nobody must exit.           *)
(***************************************************************************)
Fairness ==
  \A p \in Procs :
    /\ WF_vars(InitOp(p)) /\ WF_vars(Connect(p)) /\ WF_vars(Poll(p))
    /\ WF_vars(UnLockR(p)) /\ WF_vars(UnLockW0(p)) /\ WF_vars(UnLockW1(p))
    /\ WF_vars(LockR(p)) /\ WF_vars(LockW1(p)) /\ SF_vars(LockW0(p))
    /\ WF_vars(SemopFails(p))

FairSpec == Spec /\ Fairness

----------------------------------------------------------------------------
\* Properties

\* Where a process has the claim, semaphore 0.
ClaimPcs == {"lockW1", "writing", "unlockW1"}

At(s, pcs) == {p \in Procs : semid[p] = s /\ pc[p] \in pcs}

Readers(s)   == At(s, {"reading"})
Writers(s)   == At(s, {"writing"})
Claimants(s) == At(s, ClaimPcs)

\* A writer is alone under its lock: no second writer and no reader, also
\* while Init, Destroy and exits of other processes interleave.
Exclusion ==
  \A s \in SemIds : \A p \in Writers(s) : Readers(s) \cup Writers(s) = {p}

\* The semaphores account for exactly the living holders, whatever steps and
\* exits (SEM_UNDO) came before: nothing leaks and nothing is given twice.
Accounted(s) ==
  SemOtime(s) =>
    /\ val[s][0] = IF Claimants(s) = {} THEN 0 ELSE 1
    /\ val[s][1] = IF Writers(s) # {} THEN 0
                   ELSE MaxResource - Cardinality(Readers(s))

Conservation == \A s \in SemIds : Accounted(s)

\* Init returns 0 only for a set whose creator has already given it its
\* resources, so no lock call ever works on a half-made set.
InitialisedBeforeUse ==
  \A p \in Procs : pc[p] \notin {"new", "initop", "connect", "poll"}
                   => otime[semid[p]]

\* "Write-preferring" (myLock.h:59-68): no reader gets in between a writer's
\* claim of semaphore 0 and the release of it.
WriterPreference ==
  [][\A p \in Procs : pc[p] = "lockR" /\ pc'[p] = "reading"
                      => Claimants(semid[p]) = {}]_vars

\* A writer that has the claim is never starved by readers: it enters, or
\* leaves because the set is removed or the process exits.
ClaimedWriterEnters ==
  \A p \in Procs : pc[p] = "lockW1" ~> pc[p] # "lockW1"

\* A writer blocked at its first semop gets through, however many readers
\* and other writers keep coming.
WriterGetsClaim ==
  \A p \in Procs : pc[p] = "lockW0" ~> pc[p] # "lockW0"

\* A set that is not yet initialised still has the creator Init waits for
\* (myLock.cpp:141).  An exit between semget and semop refutes it.
CreatorAlive ==
  \A s \in SemIds : life[s] = "live" /\ ~otime[s] => At(s, {"initop"}) # {}

\* TWRLock implements RWLock.
RW == INSTANCE RWLock WITH
        Locks      <- SemIds,
        MaxReaders <- MaxResource,
        readers    <- [s \in SemIds |-> Readers(s)],
        writer     <- [s \in SemIds |-> Writers(s)],
        claim      <- [s \in SemIds |-> Claimants(s)]

RWSpec == RW!Spec
=============================================================================
