--------------------------- MODULE WRLockProofs ----------------------------
(***************************************************************************)
(* TWRLock for every finite set of processes, every set of semaphore ids   *)
(* and every MaxResource and MaxTries: typing, exclusion between writers   *)
(* and readers, accounting of the semaphores and write preference.         *)
(***************************************************************************)
EXTENDS WRLock, FiniteSetTheorems, TLAPS

UsePcs   == {"ready", "lockR", "reading", "lockW0"} \cup ClaimPcs

\* m_semid names a set that was created.
SemidInv ==
  \A p \in Procs : pc[p] \in UsePcs \cup {"initop", "poll"}
                   => semid[p] \in SemIds /\ life[semid[p]] # "unused"

\* A process between semget and the initialising semop is the only one to
\* give that set its value.
CreatorInv ==
  \A p, q \in Procs : pc[p] = "initop" =>
    /\ ~otime[semid[p]]
    /\ pc[q] = "initop" /\ semid[q] = semid[p] => q = p

\* A set before its first semop.
FreshInv ==
  \A s \in SemIds :
    /\ life[s] = "unused" => ~otime[s]
    /\ ~otime[s] => val[s][0] = 0 /\ val[s][1] = 0

\* SEM_UNDO holds, for each process, exactly what it has under its lock.
AdjInv ==
  \A p \in Procs : \A s \in SemIds :
    /\ adj[p][s][0] = IF life[s] = "live" /\ semid[p] = s /\ pc[p] \in ClaimPcs
                      THEN -1 ELSE 0
    /\ adj[p][s][1] = IF life[s] = "live" /\ semid[p] = s /\ pc[p] = "reading" THEN 1
                      ELSE IF life[s] = "live" /\ semid[p] = s /\ pc[p] = "writing"
                      THEN MaxResource ELSE 0

\* At most one process has the claim of a set; its readers are gone while it
\* writes.
ClaimInv ==
  \A p, q \in Procs :
    p # q /\ semid[p] = semid[q] /\ pc[p] \in ClaimPcs =>
      /\ pc[q] \notin ClaimPcs
      /\ pc[p] = "writing" => pc[q] # "reading"

LocalInv == TypeOK /\ SemidInv /\ InitialisedBeforeUse /\ CreatorInv /\ FreshInv
            /\ AdjInv /\ ClaimInv

IInv == LocalInv /\ Conservation
----------------------------------------------------------------------------
\* The sets of holders are finite.
LEMMA AtFinite ==
  ASSUME NEW s, NEW pcs
  PROVE  IsFiniteSet(At(s, pcs)) /\ Cardinality(At(s, pcs)) \in Nat
<1>1. IsFiniteSet(At(s, pcs))
  BY WRLockAssumption, FS_Subset DEF At, WRLockAssumption
<1>. QED  BY <1>1, FS_CardinalityType

\* While semaphore 0 of an initialised set is 0, nobody has the claim; while
\* semaphore 1 has all its units, nobody reads or writes.
LEMMA ZeroMeansFree ==
  ASSUME IInv, NEW s \in SemIds, SemOtime(s)
  PROVE  /\ val[s][0] = 0 => Claimants(s) = {}
         /\ val[s][1] >= MaxResource => Writers(s) = {} /\ Readers(s) = {}
<1>1. Accounted(s)
  BY DEF IInv, Conservation
<1>2. val[s][0] = 0 => Claimants(s) = {}
  BY <1>1 DEF Accounted
<1>3. val[s][1] >= MaxResource => Writers(s) = {} /\ Readers(s) = {}
  <2>1. IsFiniteSet(Readers(s)) /\ Cardinality(Readers(s)) \in Nat
    BY AtFinite DEF Readers
  <2>2. val[s][1] >= MaxResource => Writers(s) = {} /\ Cardinality(Readers(s)) = 0
    BY <1>1, <2>1, WRLockAssumption DEF Accounted, WRLockAssumption
  <2>. QED  BY <2>1, <2>2, FS_EmptySet
<1>. QED  BY <1>2, <1>3

\* A semop by which p moves on to use its lock keeps the parts of the
\* invariant about initialisation, and everything about the other sets.
LEMMA SemopCommon ==
  ASSUME IInv, NEW p \in Procs, NEW s, s = semid[p], life[s] = "live",
         pc[p] \in UsePcs \cup {"initop"}, pc'[p] \in UsePcs,
         pc' \in [Procs -> Pcs], \A q \in Procs \ {p} : pc'[q] = pc[q],
         semid' = semid, tries' = tries,
         SemTypeOK', life' = life, otime'[s],
         \A t \in SemIds : t # s => otime'[t] = otime[t] /\ val'[t] = val[t]
  PROVE  /\ TypeOK' /\ SemidInv' /\ InitialisedBeforeUse' /\ CreatorInv' /\ FreshInv'
         /\ \A t \in SemIds \ {s} : Accounted(t)'
<1>1. s \in SemIds
  BY DEF IInv, LocalInv, SemidInv
<1>3. pc \in [Procs -> Pcs] /\ semid \in [Procs -> SemIds \cup {NoId}]
  BY DEF IInv, LocalInv, TypeOK
<1>4. /\ semid' = semid /\ pc'[p] \in UsePcs
      /\ \A q \in Procs : q # p => pc'[q] = pc[q]
  OBVIOUS
<1>5. /\ SemTypeOK' /\ life' = life
      /\ otime'[s] /\ \A t \in SemIds : t # s => otime'[t] = otime[t] /\ val'[t] = val[t]
  OBVIOUS
<1>6. TypeOK'
  BY <1>3, <1>5 DEF TypeOK, IInv, LocalInv, UsePcs, ClaimPcs, Pcs
<1>7. SemidInv'
  BY <1>1, <1>4, <1>5 DEF SemidInv, IInv, LocalInv
<1>8. InitialisedBeforeUse'
  <2>. SUFFICES ASSUME NEW q \in Procs, pc'[q] \notin {"new", "initop", "connect", "poll"}
               PROVE  otime'[semid[q]]
    BY <1>4 DEF InitialisedBeforeUse
  <2>1. CASE q = p
    BY <2>1, <1>5
  <2>2. CASE q # p
    <3>1. otime[semid[q]] /\ pc[q] \in UsePcs
      BY <2>2, <1>3, <1>4 DEF IInv, LocalInv, InitialisedBeforeUse, Pcs, UsePcs, ClaimPcs
    <3>2. semid[q] \in SemIds
      BY <3>1 DEF IInv, LocalInv, SemidInv
    <3>. QED  BY <3>1, <3>2, <1>5
  <2>. QED  BY <2>1, <2>2
<1>9. CreatorInv'
  <2>. SUFFICES ASSUME NEW q \in Procs, NEW r \in Procs, pc'[q] = "initop"
               PROVE  /\ ~otime'[semid[q]]
                      /\ pc'[r] = "initop" /\ semid[r] = semid[q] => r = q
    BY <1>4 DEF CreatorInv
  <2>1. q # p /\ pc[q] = "initop"
    BY <1>4 DEF UsePcs, ClaimPcs
  <2>2. ~otime[semid[q]] /\ semid[q] \in SemIds
    BY <2>1 DEF IInv, LocalInv, CreatorInv, SemidInv
  <2>3. semid[q] # s
    BY <2>1, <2>2 DEF IInv, LocalInv, CreatorInv, InitialisedBeforeUse, UsePcs, ClaimPcs
  <2>4. pc'[r] = "initop" => pc[r] = "initop"
    BY <1>4 DEF UsePcs, ClaimPcs
  <2>. QED  BY <2>1, <2>2, <2>3, <2>4, <1>5 DEF IInv, LocalInv, CreatorInv
<1>10. FreshInv'
  BY <1>1, <1>5 DEF FreshInv, IInv, LocalInv
<1>11. \A t \in SemIds \ {s} : Accounted(t)'
  <2>. SUFFICES ASSUME NEW t \in SemIds, t # s  PROVE Accounted(t)'
    OBVIOUS
  <2>1. \A pcs : At(t, pcs)' = At(t, pcs)
    BY <1>4 DEF At
  <2>2. Accounted(t)
    BY DEF IInv, Conservation
  <2>. QED  BY <2>1, <2>2, <1>5 DEF Accounted, SemOtime, Claimants, Writers, Readers
<1>. QED  BY <1>6, <1>7, <1>8, <1>9, <1>10, <1>11

\* A reader enters.
LEMMA LockRStep ==
  ASSUME IInv, NEW p \in Procs, LockR(p)
  PROVE  IInv'
<1>. USE WRLockAssumption DEF WRLockAssumption
<1>1. PICK s \in SemIds : s = semid[p]
  BY DEF LockR, Goto, IInv, LocalInv, SemidInv, UsePcs
<1>2. /\ pc[p] = "lockR" /\ pc' = [pc EXCEPT ![p] = "reading"]
      /\ semid' = semid /\ tries' = tries
  BY DEF LockR, Goto
<1>3. SemTypeOK /\ pc \in [Procs -> Pcs] /\ semid \in [Procs -> SemIds \cup {NoId}]
  BY DEF IInv, LocalInv, TypeOK
<1>4. /\ life[s] = "live" /\ life' = life
      /\ otime'[s] /\ \A t \in SemIds : t # s => otime'[t] = otime[t] /\ val'[t] = val[t]
      /\ val[s][0] = 0 /\ val'[s][0] = 0 /\ val'[s][1] = val[s][1] - 1
  BY <1>1, <1>3 DEF LockR, Semop, SemTypeOK
<1>5. /\ adj'[p][s][1] = adj[p][s][1] + 1
      /\ \A q \in Procs : \A t \in SemIds : \A m \in {0, 1} :
           (q # p \/ t # s \/ m # 1) => adj'[q][t][m] = adj[q][t][m]
  BY <1>1, <1>3 DEF LockR, Semop, SemTypeOK
<1>6. SemTypeOK'
  <2>1. val' \in [SemIds -> [Nums -> Nat]]
    BY <1>1, <1>3 DEF LockR, Semop, SemTypeOK
  <2>2. adj' \in [Procs -> [SemIds -> [Nums -> Int]]]
    BY <1>1, <1>3 DEF LockR, Semop, SemTypeOK
  <2>3. otime' \in [SemIds -> BOOLEAN]
    BY <1>1, <1>3 DEF LockR, Semop, SemTypeOK
  <2>. QED  BY <2>1, <2>2, <2>3, <1>3, <1>4 DEF SemTypeOK
<1>7. /\ TypeOK' /\ SemidInv' /\ InitialisedBeforeUse' /\ CreatorInv' /\ FreshInv'
      /\ \A t \in SemIds \ {s} : Accounted(t)'
  <2>1. pc[p] \in UsePcs \cup {"initop"} /\ pc'[p] \in UsePcs
    BY <1>2, <1>3 DEF UsePcs, ClaimPcs
  <2>2. pc' \in [Procs -> Pcs] /\ \A q \in Procs \ {p} : pc'[q] = pc[q]
    BY <1>2, <1>3 DEF Pcs
  <2>. QED  BY <1>1, <1>2, <1>4, <1>6, <2>1, <2>2, SemopCommon
<1>8. AdjInv'
  BY <1>1, <1>2, <1>3, <1>4, <1>5 DEF AdjInv, IInv, LocalInv, ClaimPcs
<1>9. Claimants(s) = {}
  BY <1>1, <1>2, <1>4, ZeroMeansFree DEF IInv, LocalInv, InitialisedBeforeUse, SemOtime
<1>10. ClaimInv'
  BY <1>1, <1>2, <1>3, <1>9 DEF ClaimInv, IInv, LocalInv, ClaimPcs, Claimants, At
<1>11. Accounted(s)'
  <2>1. Writers(s) = {} /\ Claimants(s)' = {} /\ Writers(s)' = {}
    BY <1>1, <1>2, <1>3, <1>9 DEF Claimants, Writers, At, ClaimPcs
  <2>2. p \notin Readers(s) /\ Readers(s)' = Readers(s) \cup {p}
    BY <1>1, <1>2, <1>3 DEF Readers, At
  <2>3. IsFiniteSet(Readers(s)) /\ Cardinality(Readers(s)) \in Nat
    BY AtFinite DEF Readers
  <2>4. Cardinality(Readers(s)') = Cardinality(Readers(s)) + 1
    BY <2>2, <2>3, FS_AddElement
  <2>5. val[s][1] = MaxResource - Cardinality(Readers(s))
    BY <1>1, <1>2, <1>4, <2>1 DEF IInv, LocalInv, InitialisedBeforeUse, SemOtime, Conservation, Accounted
  <2>. QED  BY <1>4, <2>1, <2>3, <2>4, <2>5 DEF Accounted
<1>. QED  BY <1>1, <1>7, <1>8, <1>10, <1>11 DEF IInv, LocalInv, Conservation

\* A reader leaves.
LEMMA UnLockRStep ==
  ASSUME IInv, NEW p \in Procs, UnLockR(p)
  PROVE  IInv'
<1>. USE WRLockAssumption DEF WRLockAssumption
<1>1. PICK s \in SemIds : s = semid[p]
  BY DEF UnLockR, Goto, IInv, LocalInv, SemidInv, UsePcs, ClaimPcs
<1>2. /\ pc[p] = "reading" /\ pc' = [pc EXCEPT ![p] = "ready"]
      /\ semid' = semid /\ tries' = tries
  BY DEF UnLockR, Goto
<1>3. SemTypeOK /\ pc \in [Procs -> Pcs] /\ semid \in [Procs -> SemIds \cup {NoId}]
  BY DEF IInv, LocalInv, TypeOK
<1>4. /\ life[s] = "live" /\ life' = life
      /\ otime'[s] /\ \A t \in SemIds : t # s => otime'[t] = otime[t] /\ val'[t] = val[t]
      /\ val'[s][0] = val[s][0] /\ val'[s][1] = val[s][1] + 1
  BY <1>1, <1>3 DEF UnLockR, Semop, SemTypeOK
<1>5. /\ adj'[p][s][1] = adj[p][s][1] - 1
      /\ \A q \in Procs : \A t \in SemIds : \A m \in {0, 1} :
           (q # p \/ t # s \/ m # 1) => adj'[q][t][m] = adj[q][t][m]
  BY <1>1, <1>3 DEF UnLockR, Semop, SemTypeOK
<1>6. SemTypeOK'
  <2>1. val' \in [SemIds -> [Nums -> Nat]]
    BY <1>1, <1>3 DEF UnLockR, Semop, SemTypeOK
  <2>2. adj' \in [Procs -> [SemIds -> [Nums -> Int]]]
    BY <1>1, <1>3 DEF UnLockR, Semop, SemTypeOK
  <2>3. otime' \in [SemIds -> BOOLEAN]
    BY <1>1, <1>3 DEF UnLockR, Semop, SemTypeOK
  <2>. QED  BY <2>1, <2>2, <2>3, <1>3, <1>4 DEF SemTypeOK
<1>7. /\ TypeOK' /\ SemidInv' /\ InitialisedBeforeUse' /\ CreatorInv' /\ FreshInv'
      /\ \A t \in SemIds \ {s} : Accounted(t)'
  <2>1. pc[p] \in UsePcs \cup {"initop"} /\ pc'[p] \in UsePcs
    BY <1>2, <1>3 DEF UsePcs, ClaimPcs
  <2>2. pc' \in [Procs -> Pcs] /\ \A q \in Procs \ {p} : pc'[q] = pc[q]
    BY <1>2, <1>3 DEF Pcs
  <2>. QED  BY <1>1, <1>2, <1>4, <1>6, <2>1, <2>2, SemopCommon
<1>8. AdjInv'
  BY <1>1, <1>2, <1>3, <1>4, <1>5 DEF AdjInv, IInv, LocalInv, ClaimPcs
<1>9. SemOtime(s) /\ Accounted(s)
  BY <1>1, <1>2, <1>4 DEF IInv, LocalInv, InitialisedBeforeUse, SemOtime, Conservation
<1>10. ClaimInv'
  BY <1>1, <1>2, <1>3 DEF ClaimInv, IInv, LocalInv, ClaimPcs
<1>11. Accounted(s)'
  <2>1. Writers(s) = {} /\ Writers(s)' = {} /\ Claimants(s)' = Claimants(s)
    BY <1>1, <1>2, <1>3 DEF Claimants, Writers, At, ClaimPcs, ClaimInv, IInv, LocalInv
  <2>2. p \in Readers(s) /\ Readers(s)' = Readers(s) \ {p}
    BY <1>1, <1>2, <1>3 DEF Readers, At
  <2>3. IsFiniteSet(Readers(s)) /\ Cardinality(Readers(s)) \in Nat
    BY AtFinite DEF Readers
  <2>4. Cardinality(Readers(s)') = Cardinality(Readers(s)) - 1
    BY <2>2, <2>3, FS_RemoveElement
  <2>. QED  BY <1>4, <1>9, <2>1, <2>3, <2>4 DEF Accounted
<1>. QED  BY <1>1, <1>7, <1>8, <1>10, <1>11 DEF IInv, LocalInv, Conservation

\* A writer claims the lock.
LEMMA LockW0Step ==
  ASSUME IInv, NEW p \in Procs, LockW0(p)
  PROVE  IInv'
<1>. USE WRLockAssumption DEF WRLockAssumption
<1>1. PICK s \in SemIds : s = semid[p]
  BY DEF LockW0, Goto, IInv, LocalInv, SemidInv, UsePcs, ClaimPcs
<1>2. /\ pc[p] = "lockW0" /\ pc' = [pc EXCEPT ![p] = "lockW1"]
      /\ semid' = semid /\ tries' = tries
  BY DEF LockW0, Goto
<1>3. SemTypeOK /\ pc \in [Procs -> Pcs] /\ semid \in [Procs -> SemIds \cup {NoId}]
  BY DEF IInv, LocalInv, TypeOK
<1>4. /\ life[s] = "live" /\ life' = life
      /\ otime'[s] /\ \A t \in SemIds : t # s => otime'[t] = otime[t] /\ val'[t] = val[t]
      /\ val'[s][0] = val[s][0] + 1 /\ val'[s][1] = val[s][1] /\ val[s][0] = 0
  BY <1>1, <1>3 DEF LockW0, Semop, SemTypeOK
<1>5. /\ adj'[p][s][0] = adj[p][s][0] - 1
      /\ \A q \in Procs : \A t \in SemIds : \A m \in {0, 1} :
           (q # p \/ t # s \/ m # 0) => adj'[q][t][m] = adj[q][t][m]
  BY <1>1, <1>3 DEF LockW0, Semop, SemTypeOK
<1>6. SemTypeOK'
  <2>1. val' \in [SemIds -> [Nums -> Nat]]
    BY <1>1, <1>3 DEF LockW0, Semop, SemTypeOK
  <2>2. adj' \in [Procs -> [SemIds -> [Nums -> Int]]]
    BY <1>1, <1>3 DEF LockW0, Semop, SemTypeOK
  <2>3. otime' \in [SemIds -> BOOLEAN]
    BY <1>1, <1>3 DEF LockW0, Semop, SemTypeOK
  <2>. QED  BY <2>1, <2>2, <2>3, <1>3, <1>4 DEF SemTypeOK
<1>7. /\ TypeOK' /\ SemidInv' /\ InitialisedBeforeUse' /\ CreatorInv' /\ FreshInv'
      /\ \A t \in SemIds \ {s} : Accounted(t)'
  <2>1. pc[p] \in UsePcs \cup {"initop"} /\ pc'[p] \in UsePcs
    BY <1>2, <1>3 DEF UsePcs, ClaimPcs
  <2>2. pc' \in [Procs -> Pcs] /\ \A q \in Procs \ {p} : pc'[q] = pc[q]
    BY <1>2, <1>3 DEF Pcs
  <2>. QED  BY <1>1, <1>2, <1>4, <1>6, <2>1, <2>2, SemopCommon
<1>8. AdjInv'
  BY <1>1, <1>2, <1>3, <1>4, <1>5 DEF AdjInv, IInv, LocalInv, ClaimPcs
<1>9. SemOtime(s) /\ Accounted(s)
  BY <1>1, <1>2, <1>4 DEF IInv, LocalInv, InitialisedBeforeUse, SemOtime, Conservation
<1>12. Claimants(s) = {}
  BY <1>4, <1>9, ZeroMeansFree
<1>10. ClaimInv'
  BY <1>1, <1>2, <1>3, <1>12 DEF ClaimInv, IInv, LocalInv, ClaimPcs, Claimants, At
<1>11. Accounted(s)'
  <2>1. Writers(s)' = Writers(s) /\ Readers(s)' = Readers(s) /\ p \in Claimants(s)'
    BY <1>1, <1>2, <1>3 DEF Claimants, Writers, Readers, At, ClaimPcs
  <2>. QED  BY <1>4, <1>9, <2>1, <1>12 DEF Accounted
<1>. QED  BY <1>1, <1>7, <1>8, <1>10, <1>11 DEF IInv, LocalInv, Conservation

\* The claimant takes all the resources.
LEMMA LockW1Step ==
  ASSUME IInv, NEW p \in Procs, LockW1(p)
  PROVE  IInv'
<1>. USE WRLockAssumption DEF WRLockAssumption
<1>1. PICK s \in SemIds : s = semid[p]
  BY DEF LockW1, Goto, IInv, LocalInv, SemidInv, UsePcs, ClaimPcs
<1>2. /\ pc[p] = "lockW1" /\ pc' = [pc EXCEPT ![p] = "writing"]
      /\ semid' = semid /\ tries' = tries
  BY DEF LockW1, Goto
<1>3. SemTypeOK /\ pc \in [Procs -> Pcs] /\ semid \in [Procs -> SemIds \cup {NoId}]
  BY DEF IInv, LocalInv, TypeOK
<1>4. /\ life[s] = "live" /\ life' = life
      /\ otime'[s] /\ \A t \in SemIds : t # s => otime'[t] = otime[t] /\ val'[t] = val[t]
      /\ val'[s][0] = val[s][0] /\ val'[s][1] = val[s][1] - MaxResource /\ val[s][1] >= MaxResource
  BY <1>1, <1>3 DEF LockW1, Semop, SemTypeOK
<1>5. /\ adj'[p][s][1] = adj[p][s][1] + MaxResource
      /\ \A q \in Procs : \A t \in SemIds : \A m \in {0, 1} :
           (q # p \/ t # s \/ m # 1) => adj'[q][t][m] = adj[q][t][m]
  BY <1>1, <1>3 DEF LockW1, Semop, SemTypeOK
<1>6. SemTypeOK'
  <2>1. val' \in [SemIds -> [Nums -> Nat]]
    BY <1>1, <1>3 DEF LockW1, Semop, SemTypeOK
  <2>2. adj' \in [Procs -> [SemIds -> [Nums -> Int]]]
    BY <1>1, <1>3 DEF LockW1, Semop, SemTypeOK
  <2>3. otime' \in [SemIds -> BOOLEAN]
    BY <1>1, <1>3 DEF LockW1, Semop, SemTypeOK
  <2>. QED  BY <2>1, <2>2, <2>3, <1>3, <1>4 DEF SemTypeOK
<1>7. /\ TypeOK' /\ SemidInv' /\ InitialisedBeforeUse' /\ CreatorInv' /\ FreshInv'
      /\ \A t \in SemIds \ {s} : Accounted(t)'
  <2>1. pc[p] \in UsePcs \cup {"initop"} /\ pc'[p] \in UsePcs
    BY <1>2, <1>3 DEF UsePcs, ClaimPcs
  <2>2. pc' \in [Procs -> Pcs] /\ \A q \in Procs \ {p} : pc'[q] = pc[q]
    BY <1>2, <1>3 DEF Pcs
  <2>. QED  BY <1>1, <1>2, <1>4, <1>6, <2>1, <2>2, SemopCommon
<1>8. AdjInv'
  BY <1>1, <1>2, <1>3, <1>4, <1>5 DEF AdjInv, IInv, LocalInv, ClaimPcs
<1>9. SemOtime(s) /\ Accounted(s)
  BY <1>1, <1>2, <1>4 DEF IInv, LocalInv, InitialisedBeforeUse, SemOtime, Conservation
<1>12. Writers(s) = {} /\ Readers(s) = {}
  BY <1>4, <1>9, ZeroMeansFree
<1>10. ClaimInv'
  BY <1>1, <1>2, <1>3, <1>12 DEF ClaimInv, IInv, LocalInv, ClaimPcs, Readers, Writers, At
<1>11. Accounted(s)'
  <2>1. p \in Writers(s)' /\ Claimants(s)' = Claimants(s)
    BY <1>1, <1>2, <1>3 DEF Claimants, Writers, At, ClaimPcs
  <2>2. val[s][1] = MaxResource
    BY <1>9, <1>12, FS_EmptySet DEF Accounted
  <2>. QED  BY <1>4, <1>9, <2>1, <2>2 DEF Accounted
<1>. QED  BY <1>1, <1>7, <1>8, <1>10, <1>11 DEF IInv, LocalInv, Conservation

\* The writer gives all the resources back.
LEMMA UnLockW0Step ==
  ASSUME IInv, NEW p \in Procs, UnLockW0(p)
  PROVE  IInv'
<1>. USE WRLockAssumption DEF WRLockAssumption
<1>1. PICK s \in SemIds : s = semid[p]
  BY DEF UnLockW0, Goto, IInv, LocalInv, SemidInv, UsePcs, ClaimPcs
<1>2. /\ pc[p] = "writing" /\ pc' = [pc EXCEPT ![p] = "unlockW1"]
      /\ semid' = semid /\ tries' = tries
  BY DEF UnLockW0, Goto
<1>3. SemTypeOK /\ pc \in [Procs -> Pcs] /\ semid \in [Procs -> SemIds \cup {NoId}]
  BY DEF IInv, LocalInv, TypeOK
<1>4. /\ life[s] = "live" /\ life' = life
      /\ otime'[s] /\ \A t \in SemIds : t # s => otime'[t] = otime[t] /\ val'[t] = val[t]
      /\ val'[s][0] = val[s][0] /\ val'[s][1] = val[s][1] + MaxResource
  BY <1>1, <1>3 DEF UnLockW0, Semop, SemTypeOK
<1>5. /\ adj'[p][s][1] = adj[p][s][1] - MaxResource
      /\ \A q \in Procs : \A t \in SemIds : \A m \in {0, 1} :
           (q # p \/ t # s \/ m # 1) => adj'[q][t][m] = adj[q][t][m]
  BY <1>1, <1>3 DEF UnLockW0, Semop, SemTypeOK
<1>6. SemTypeOK'
  <2>1. val' \in [SemIds -> [Nums -> Nat]]
    BY <1>1, <1>3 DEF UnLockW0, Semop, SemTypeOK
  <2>2. adj' \in [Procs -> [SemIds -> [Nums -> Int]]]
    BY <1>1, <1>3 DEF UnLockW0, Semop, SemTypeOK
  <2>3. otime' \in [SemIds -> BOOLEAN]
    BY <1>1, <1>3 DEF UnLockW0, Semop, SemTypeOK
  <2>. QED  BY <2>1, <2>2, <2>3, <1>3, <1>4 DEF SemTypeOK
<1>7. /\ TypeOK' /\ SemidInv' /\ InitialisedBeforeUse' /\ CreatorInv' /\ FreshInv'
      /\ \A t \in SemIds \ {s} : Accounted(t)'
  <2>1. pc[p] \in UsePcs \cup {"initop"} /\ pc'[p] \in UsePcs
    BY <1>2, <1>3 DEF UsePcs, ClaimPcs
  <2>2. pc' \in [Procs -> Pcs] /\ \A q \in Procs \ {p} : pc'[q] = pc[q]
    BY <1>2, <1>3 DEF Pcs
  <2>. QED  BY <1>1, <1>2, <1>4, <1>6, <2>1, <2>2, SemopCommon
<1>8. AdjInv'
  BY <1>1, <1>2, <1>3, <1>4, <1>5 DEF AdjInv, IInv, LocalInv, ClaimPcs
<1>9. SemOtime(s) /\ Accounted(s)
  BY <1>1, <1>2, <1>4 DEF IInv, LocalInv, InitialisedBeforeUse, SemOtime, Conservation
<1>10. ClaimInv'
  BY <1>1, <1>2, <1>3 DEF ClaimInv, IInv, LocalInv, ClaimPcs
<1>11. Accounted(s)'
  <2>1. p \in Writers(s) /\ Writers(s)' = {} /\ Readers(s)' = {} /\ Claimants(s)' = Claimants(s)
    BY <1>1, <1>2, <1>3 DEF Claimants, Writers, Readers, At, ClaimPcs, ClaimInv, IInv, LocalInv
  <2>. QED  BY <1>4, <1>9, <2>1, FS_EmptySet DEF Accounted
<1>. QED  BY <1>1, <1>7, <1>8, <1>10, <1>11 DEF IInv, LocalInv, Conservation

\* The writer gives up its claim.
LEMMA UnLockW1Step ==
  ASSUME IInv, NEW p \in Procs, UnLockW1(p)
  PROVE  IInv'
<1>. USE WRLockAssumption DEF WRLockAssumption
<1>1. PICK s \in SemIds : s = semid[p]
  BY DEF UnLockW1, Goto, IInv, LocalInv, SemidInv, UsePcs, ClaimPcs
<1>2. /\ pc[p] = "unlockW1" /\ pc' = [pc EXCEPT ![p] = "ready"]
      /\ semid' = semid /\ tries' = tries
  BY DEF UnLockW1, Goto
<1>3. SemTypeOK /\ pc \in [Procs -> Pcs] /\ semid \in [Procs -> SemIds \cup {NoId}]
  BY DEF IInv, LocalInv, TypeOK
<1>4. /\ life[s] = "live" /\ life' = life
      /\ otime'[s] /\ \A t \in SemIds : t # s => otime'[t] = otime[t] /\ val'[t] = val[t]
      /\ val'[s][0] = val[s][0] - 1 /\ val'[s][1] = val[s][1]
  BY <1>1, <1>3 DEF UnLockW1, Semop, SemTypeOK
<1>5. /\ adj'[p][s][0] = adj[p][s][0] + 1
      /\ \A q \in Procs : \A t \in SemIds : \A m \in {0, 1} :
           (q # p \/ t # s \/ m # 0) => adj'[q][t][m] = adj[q][t][m]
  BY <1>1, <1>3 DEF UnLockW1, Semop, SemTypeOK
<1>6. SemTypeOK'
  <2>1. val' \in [SemIds -> [Nums -> Nat]]
    BY <1>1, <1>3 DEF UnLockW1, Semop, SemTypeOK
  <2>2. adj' \in [Procs -> [SemIds -> [Nums -> Int]]]
    BY <1>1, <1>3 DEF UnLockW1, Semop, SemTypeOK
  <2>3. otime' \in [SemIds -> BOOLEAN]
    BY <1>1, <1>3 DEF UnLockW1, Semop, SemTypeOK
  <2>. QED  BY <2>1, <2>2, <2>3, <1>3, <1>4 DEF SemTypeOK
<1>7. /\ TypeOK' /\ SemidInv' /\ InitialisedBeforeUse' /\ CreatorInv' /\ FreshInv'
      /\ \A t \in SemIds \ {s} : Accounted(t)'
  <2>1. pc[p] \in UsePcs \cup {"initop"} /\ pc'[p] \in UsePcs
    BY <1>2, <1>3 DEF UsePcs, ClaimPcs
  <2>2. pc' \in [Procs -> Pcs] /\ \A q \in Procs \ {p} : pc'[q] = pc[q]
    BY <1>2, <1>3 DEF Pcs
  <2>. QED  BY <1>1, <1>2, <1>4, <1>6, <2>1, <2>2, SemopCommon
<1>8. AdjInv'
  BY <1>1, <1>2, <1>3, <1>4, <1>5 DEF AdjInv, IInv, LocalInv, ClaimPcs
<1>9. SemOtime(s) /\ Accounted(s)
  BY <1>1, <1>2, <1>4 DEF IInv, LocalInv, InitialisedBeforeUse, SemOtime, Conservation
<1>10. ClaimInv'
  BY <1>1, <1>2, <1>3 DEF ClaimInv, IInv, LocalInv, ClaimPcs
<1>11. Accounted(s)'
  <2>1. /\ p \in Claimants(s) /\ Claimants(s)' = {}
        /\ Writers(s)' = Writers(s) /\ Readers(s)' = Readers(s)
    BY <1>1, <1>2, <1>3 DEF Claimants, Writers, Readers, At, ClaimPcs, ClaimInv, IInv, LocalInv
  <2>. QED  BY <1>4, <1>9, <2>1 DEF Accounted
<1>. QED  BY <1>1, <1>7, <1>8, <1>10, <1>11 DEF IInv, LocalInv, Conservation

\* The creator gives the set its value, or finds it removed.
LEMMA InitOpStep ==
  ASSUME IInv, NEW p \in Procs, InitOp(p), pc'[p] = "ready"
  PROVE  IInv'
<1>. USE WRLockAssumption DEF WRLockAssumption
<1>1. /\ pc[p] = "initop" /\ pc' = [pc EXCEPT ![p] = "ready"]
      /\ semid' = semid /\ tries' = tries
      /\ Semop(p, semid[p], {0}, 1, MaxResource, FALSE)
  BY DEF InitOp, Goto, IInv, LocalInv, TypeOK
<1>2. PICK s \in SemIds : s = semid[p]
  BY <1>1 DEF IInv, LocalInv, SemidInv
<1>3. SemTypeOK /\ pc \in [Procs -> Pcs] /\ semid \in [Procs -> SemIds \cup {NoId}]
  BY DEF IInv, LocalInv, TypeOK
<1>4. /\ life[s] = "live" /\ life' = life /\ adj' = adj
      /\ otime'[s] /\ \A t \in SemIds : t # s => otime'[t] = otime[t] /\ val'[t] = val[t]
      /\ val'[s][0] = val[s][0] /\ val'[s][1] = val[s][1] + MaxResource
  BY <1>1, <1>2, <1>3 DEF Semop, SemTypeOK
<1>5. SemTypeOK'
  <2>1. val' \in [SemIds -> [Nums -> Nat]]
    BY <1>1, <1>2, <1>3 DEF Semop, SemTypeOK
  <2>2. otime' \in [SemIds -> BOOLEAN]
    BY <1>1, <1>2, <1>3 DEF Semop, SemTypeOK
  <2>. QED  BY <2>1, <2>2, <1>3, <1>4 DEF SemTypeOK
<1>6. /\ TypeOK' /\ SemidInv' /\ InitialisedBeforeUse' /\ CreatorInv' /\ FreshInv'
      /\ \A t \in SemIds \ {s} : Accounted(t)'
  <2>1. pc[p] \in UsePcs \cup {"initop"} /\ pc'[p] \in UsePcs
    BY <1>1, <1>3 DEF UsePcs
  <2>2. pc' \in [Procs -> Pcs] /\ \A q \in Procs \ {p} : pc'[q] = pc[q]
    BY <1>1, <1>3 DEF Pcs
  <2>. QED  BY <1>1, <1>2, <1>4, <1>5, <2>1, <2>2, SemopCommon
<1>7. AdjInv'
  BY <1>1, <1>3, <1>4 DEF AdjInv, IInv, LocalInv, ClaimPcs
<1>8. ClaimInv'
  BY <1>1, <1>3 DEF ClaimInv, IInv, LocalInv, ClaimPcs
<1>9. ~otime[s] /\ val[s][0] = 0 /\ val[s][1] = 0
  BY <1>1, <1>2 DEF IInv, LocalInv, CreatorInv, FreshInv
<1>10. Claimants(s)' = {} /\ Writers(s)' = {} /\ Readers(s)' = {}
  BY <1>1, <1>2, <1>3, <1>9
     DEF Claimants, Writers, Readers, At, ClaimPcs, IInv, LocalInv, InitialisedBeforeUse
<1>11. Accounted(s)'
  BY <1>4, <1>9, <1>10, FS_EmptySet DEF Accounted
<1>. QED  BY <1>2, <1>6, <1>7, <1>8, <1>11 DEF IInv, LocalInv, Conservation

\* A step that leaves the semaphores alone and moves a process that holds
\* nothing of a live set to where it holds nothing.
LEMMA QuietStep ==
  ASSUME IInv, NEW p \in Procs, UNCHANGED semVars, TypeOK',
         \A q \in Procs \ {p} : pc'[q] = pc[q] /\ semid'[q] = semid[q],
         \/ pc[p] \notin {"reading"} \cup ClaimPcs
         \/ life[semid[p]] = "removed",
         pc'[p] \in {"new", "connect", "poll", "ready", "lockR", "lockW0"},
         pc'[p] \notin {"new", "connect"}
           => semid'[p] \in SemIds /\ life[semid'[p]] # "unused",
         pc'[p] \in {"ready", "lockR", "lockW0"} => otime[semid'[p]]
  PROVE  IInv'
<1>. USE WRLockAssumption DEF WRLockAssumption
<1>1. /\ life' = life /\ val' = val /\ otime' = otime /\ adj' = adj
      /\ pc \in [Procs -> Pcs] /\ pc' \in [Procs -> Pcs]
  BY DEF semVars, IInv, LocalInv, TypeOK
<1>2. SemidInv'
  BY <1>1 DEF SemidInv, IInv, LocalInv, UsePcs, ClaimPcs
<1>3. InitialisedBeforeUse'
  BY <1>1 DEF InitialisedBeforeUse, IInv, LocalInv
<1>4. CreatorInv' /\ FreshInv'
  BY <1>1 DEF CreatorInv, FreshInv, IInv, LocalInv
<1>5. AdjInv'
  BY <1>1 DEF AdjInv, IInv, LocalInv, ClaimPcs
<1>6. ClaimInv'
  BY <1>1 DEF ClaimInv, IInv, LocalInv, ClaimPcs
<1>7. ASSUME NEW s \in SemIds  PROVE Accounted(s)'
  <2>1. CASE ~SemOtime(s)
    BY <2>1, <1>1 DEF Accounted, SemOtime
  <2>2. CASE SemOtime(s)
    <3>1. \A q \in Procs : semid[q] = s /\ pc[q] \in {"reading"} \cup ClaimPcs => q # p
      BY <2>2 DEF SemOtime
    <3>2. /\ Claimants(s)' = Claimants(s)
          /\ Writers(s)' = Writers(s) /\ Readers(s)' = Readers(s)
      BY <3>1 DEF Claimants, Writers, Readers, At, ClaimPcs
    <3>3. Accounted(s)
      BY DEF IInv, Conservation
    <3>. QED  BY <3>2, <3>3, <1>1 DEF Accounted, SemOtime
  <2>. QED  BY <2>1, <2>2
<1>. QED  BY <1>2, <1>3, <1>4, <1>5, <1>6, <1>7 DEF IInv, LocalInv, Conservation

\* Init creates a set.
LEMMA InitCreateStep ==
  ASSUME IInv, NEW p \in Procs, InitCreate(p)
  PROVE  IInv'
<1>. USE WRLockAssumption DEF WRLockAssumption
<1>1. SemTypeOK /\ pc \in [Procs -> Pcs] /\ semid \in [Procs -> SemIds \cup {NoId}]
  BY DEF IInv, LocalInv, TypeOK
<1>2. PICK s \in SemIds : SemCreate(s) /\ semid' = [semid EXCEPT ![p] = s]
  BY DEF InitCreate
<1>3. /\ life[s] = "unused" /\ life' = [life EXCEPT ![s] = "live"]
      /\ val' = val /\ otime' = otime /\ adj' = adj
  BY <1>2 DEF SemCreate
<1>4. /\ pc[p] \in {"new", "ready"} /\ pc' = [pc EXCEPT ![p] = "initop"]
      /\ tries' = tries
  BY DEF InitCreate, Goto
<1>5. ~otime[s] /\ val[s][0] = 0 /\ val[s][1] = 0
  BY <1>3 DEF IInv, LocalInv, FreshInv
<1>6. \A q \in Procs : pc[q] \in UsePcs \cup {"initop", "poll"} => semid[q] # s
  BY <1>3 DEF IInv, LocalInv, SemidInv
<1>7. TypeOK'
  BY <1>1, <1>2, <1>3, <1>4 DEF TypeOK, SemTypeOK, Pcs, IInv, LocalInv
<1>8. SemidInv'
  BY <1>1, <1>2, <1>3, <1>4 DEF SemidInv, IInv, LocalInv, SemTypeOK
<1>9. InitialisedBeforeUse'
  BY <1>1, <1>2, <1>3, <1>4 DEF InitialisedBeforeUse, IInv, LocalInv
<1>10. CreatorInv'
  BY <1>1, <1>2, <1>3, <1>4, <1>5, <1>6 DEF CreatorInv, IInv, LocalInv
<1>11. FreshInv'
  BY <1>1, <1>3, <1>5 DEF FreshInv, IInv, LocalInv, SemTypeOK
<1>12. AdjInv'
  BY <1>1, <1>2, <1>3, <1>4, <1>6 DEF AdjInv, IInv, LocalInv, SemTypeOK, ClaimPcs, UsePcs
<1>13. ClaimInv'
  BY <1>1, <1>2, <1>4 DEF ClaimInv, IInv, LocalInv, ClaimPcs
<1>14. ASSUME NEW t \in SemIds  PROVE Accounted(t)'
  <2>1. CASE t = s
    BY <2>1, <1>3, <1>5 DEF Accounted, SemOtime
  <2>2. CASE t # s
    <3>1. life'[t] = life[t]
      BY <2>2, <1>1, <1>3 DEF SemTypeOK
    <3>2. /\ Claimants(t)' = Claimants(t)
          /\ Writers(t)' = Writers(t) /\ Readers(t)' = Readers(t)
      BY <2>2, <1>1, <1>2, <1>4 DEF Claimants, Writers, Readers, At, ClaimPcs
    <3>3. Accounted(t)
      BY DEF IInv, Conservation
    <3>. QED  BY <3>1, <3>2, <3>3, <1>3 DEF Accounted, SemOtime
  <2>. QED  BY <2>1, <2>2
<1>. QED  BY <1>7, <1>8, <1>9, <1>10, <1>11, <1>12, <1>13, <1>14
          DEF IInv, LocalInv, Conservation

\* The set is removed under whoever uses it.
LEMMA DestroyStep ==
  ASSUME IInv, NEW p \in Procs, Destroy(p)
  PROVE  IInv'
<1>. USE WRLockAssumption DEF WRLockAssumption
<1>1. SemTypeOK /\ pc' = pc /\ semid' = semid /\ tries' = tries
  BY DEF IInv, LocalInv, TypeOK, Destroy, lockVars
<1>2. PICK s \in SemIds : s = semid[p]
  BY DEF Destroy, IInv, LocalInv, SemidInv, UsePcs
<1>3. /\ life[s] = "live" /\ life' = [life EXCEPT ![s] = "removed"]
      /\ val' = val /\ otime' = otime
      /\ adj' = [q \in Procs |-> [adj[q] EXCEPT ![s] = [n \in Nums |-> 0]]]
  BY <1>2 DEF Destroy, SemRemove
<1>4. TypeOK'
  <2>1. adj' \in [Procs -> [SemIds -> [Nums -> Int]]]
    BY <1>1, <1>3 DEF SemTypeOK
  <2>2. life' \in [SemIds -> {"unused", "live", "removed"}]
    BY <1>1, <1>3 DEF SemTypeOK
  <2>. QED  BY <2>1, <2>2, <1>1, <1>3 DEF TypeOK, SemTypeOK, IInv, LocalInv
<1>5. \A t \in SemIds : /\ life'[t] = IF t = s THEN "removed" ELSE life[t]
                        /\ \A q \in Procs : \A n \in {0, 1} :
                             adj'[q][t][n] = IF t = s THEN 0 ELSE adj[q][t][n]
  BY <1>1, <1>3 DEF SemTypeOK
<1>6. SemidInv' /\ InitialisedBeforeUse' /\ CreatorInv' /\ FreshInv' /\ ClaimInv'
  <2>1. SemidInv'
    BY <1>1, <1>5 DEF SemidInv, IInv, LocalInv
  <2>2. InitialisedBeforeUse' /\ CreatorInv' /\ ClaimInv'
    BY <1>1, <1>3 DEF InitialisedBeforeUse, CreatorInv, ClaimInv, IInv, LocalInv
  <2>3. FreshInv'
    BY <1>3, <1>5 DEF FreshInv, IInv, LocalInv
  <2>. QED  BY <2>1, <2>2, <2>3
<1>7. AdjInv'
  BY <1>1, <1>5 DEF AdjInv, IInv, LocalInv
<1>8. ASSUME NEW t \in SemIds  PROVE Accounted(t)'
  <2>1. /\ Claimants(t)' = Claimants(t)
        /\ Writers(t)' = Writers(t) /\ Readers(t)' = Readers(t)
    BY <1>1 DEF Claimants, Writers, Readers, At
  <2>2. Accounted(t)
    BY DEF IInv, Conservation
  <2>. QED  BY <2>1, <2>2, <1>3, <1>5 DEF Accounted, SemOtime
<1>. QED  BY <1>4, <1>6, <1>7, <1>8 DEF IInv, LocalInv, Conservation

\* A process exits and SEM_UNDO gives back what it had.
LEMMA ExitStep ==
  ASSUME IInv, NEW p \in Procs, Exit(p)
  PROVE  IInv'
<1>. USE WRLockAssumption DEF WRLockAssumption
<1>1. /\ SemTypeOK /\ pc \in [Procs -> Pcs] /\ semid \in [Procs -> SemIds \cup {NoId}]
      /\ tries \in [Procs -> 0 .. MaxTries - 1]
  BY DEF IInv, LocalInv, TypeOK
<1>2. /\ pc' = [pc EXCEPT ![p] = "new"] /\ semid' = [semid EXCEPT ![p] = NoId]
      /\ tries' = [tries EXCEPT ![p] = 0] /\ life' = life /\ otime' = otime
      /\ adj' = [adj EXCEPT ![p] = NoAdj]
  BY DEF Exit, SemExit
<1>3. \A s \in SemIds : \A n \in {0, 1} :
        val'[s][n] = IF val[s][n] + adj[p][s][n] < 0 THEN 0 ELSE val[s][n] + adj[p][s][n]
  BY DEF Exit, SemExit
<1>4. /\ pc'[p] = "new" /\ \A q \in Procs : q # p => pc'[q] = pc[q] /\ semid'[q] = semid[q]
      /\ \A q \in Procs : \A t \in SemIds : \A n \in {0, 1} :
           adj'[q][t][n] = IF q = p THEN 0 ELSE adj[q][t][n]
  BY <1>1, <1>2 DEF SemTypeOK, NoAdj
<1>5. TypeOK'
  <2>1. val' \in [SemIds -> [Nums -> Nat]]
    BY <1>1 DEF Exit, SemExit, SemTypeOK
  <2>2. adj' \in [Procs -> [SemIds -> [Nums -> Int]]]
    BY <1>1, <1>2 DEF SemTypeOK, NoAdj
  <2>3. pc' \in [Procs -> Pcs] /\ semid' \in [Procs -> SemIds \cup {NoId}]
    BY <1>1, <1>2 DEF Pcs
  <2>4. tries' \in [Procs -> 0 .. MaxTries - 1]
    BY <1>1, <1>2
  <2>. QED  BY <2>1, <2>2, <2>3, <2>4, <1>1, <1>2 DEF TypeOK, SemTypeOK
<1>6. SemidInv' /\ InitialisedBeforeUse' /\ CreatorInv' /\ ClaimInv'
  <2>1. SemidInv' /\ InitialisedBeforeUse'
    BY <1>2, <1>4 DEF SemidInv, InitialisedBeforeUse, IInv, LocalInv, UsePcs, ClaimPcs
  <2>2. CreatorInv' /\ ClaimInv'
    BY <1>2, <1>4 DEF CreatorInv, ClaimInv, IInv, LocalInv, ClaimPcs
  <2>. QED  BY <2>1, <2>2
<1>7. \A s \in SemIds : ~otime[s] => adj[p][s][0] = 0 /\ adj[p][s][1] = 0
  BY DEF IInv, LocalInv, AdjInv, InitialisedBeforeUse, ClaimPcs
<1>8. FreshInv'
  BY <1>2, <1>3, <1>7 DEF FreshInv, IInv, LocalInv
<1>9. AdjInv'
  BY <1>2, <1>4 DEF AdjInv, IInv, LocalInv, ClaimPcs
<1>10. ASSUME NEW s \in SemIds, SemOtime(s)'  PROVE Accounted(s)'
  <2>1. SemOtime(s) /\ Accounted(s)
    BY <1>2, <1>10 DEF SemOtime, IInv, Conservation
  <2>2. IsFiniteSet(Readers(s)) /\ Cardinality(Readers(s)) \in Nat
    BY AtFinite DEF Readers
  <2>3. /\ Claimants(s)' = Claimants(s) \ {p}
        /\ Writers(s)' = Writers(s) \ {p} /\ Readers(s)' = Readers(s) \ {p}
    BY <1>1, <1>2, <1>4 DEF Claimants, Writers, Readers, At, ClaimPcs
  <2>4. CASE semid[p] = s /\ pc[p] \in ClaimPcs
    <3>1. adj[p][s][0] = -1 /\ val[s][0] = 1 /\ Claimants(s)' = {}
      BY <2>1, <2>3, <2>4
         DEF IInv, LocalInv, AdjInv, SemOtime, ClaimInv, Accounted, Claimants, At
    <3>2. val'[s][0] = 0
      BY <3>1, <1>3
    <3>3. CASE pc[p] = "writing"
      <4>1. /\ adj[p][s][1] = MaxResource /\ val[s][1] = 0
            /\ Writers(s)' = {} /\ Readers(s)' = {}
        BY <2>1, <2>3, <2>4, <3>3 DEF IInv, LocalInv, AdjInv, SemOtime, ClaimInv,
           ClaimPcs, Accounted, Writers, Readers, At
      <4>. QED  BY <3>1, <3>2, <4>1, <1>3, FS_EmptySet DEF Accounted
    <3>4. CASE pc[p] # "writing"
      <4>1. adj[p][s][1] = 0 /\ Writers(s)' = Writers(s) /\ Readers(s)' = Readers(s)
        BY <2>1, <2>3, <2>4, <3>4 DEF IInv, LocalInv, AdjInv, ClaimPcs, Writers, Readers, At
      <4>2. val'[s][1] = val[s][1]
        BY <4>1, <1>1, <1>3 DEF SemTypeOK
      <4>. QED  BY <2>1, <3>1, <3>2, <4>1, <4>2 DEF Accounted
    <3>. QED  BY <3>3, <3>4
  <2>5. CASE semid[p] = s /\ pc[p] = "reading"
    <3>1. adj[p][s][0] = 0 /\ adj[p][s][1] = 1 /\ p \in Readers(s)
      BY <2>1, <2>5 DEF IInv, LocalInv, AdjInv, SemOtime, Readers, At, ClaimPcs
    <3>2. Claimants(s)' = Claimants(s) /\ Writers(s) = {} /\ Writers(s)' = {}
      BY <2>3, <2>5 DEF Claimants, Writers, At, ClaimPcs, IInv, LocalInv, ClaimInv
    <3>3. Cardinality(Readers(s)') = Cardinality(Readers(s)) - 1
      BY <2>2, <2>3, <3>1, FS_RemoveElement
    <3>4. val'[s][0] = val[s][0] /\ val'[s][1] = val[s][1] + 1
      BY <3>1, <1>1, <1>3 DEF SemTypeOK
    <3>. QED  BY <2>1, <2>2, <3>2, <3>3, <3>4 DEF Accounted
  <2>6. CASE ~(semid[p] = s /\ pc[p] \in {"reading"} \cup ClaimPcs)
    <3>1. /\ adj[p][s][0] = 0 /\ adj[p][s][1] = 0
          /\ Claimants(s)' = Claimants(s)
          /\ Writers(s)' = Writers(s) /\ Readers(s)' = Readers(s)
      BY <2>3, <2>6 DEF IInv, LocalInv, AdjInv, Claimants, Writers, Readers, At, ClaimPcs
    <3>2. val'[s][0] = val[s][0] /\ val'[s][1] = val[s][1]
      BY <3>1, <1>1, <1>3 DEF SemTypeOK
    <3>. QED  BY <2>1, <3>1, <3>2 DEF Accounted
  <2>. QED  BY <2>4, <2>5, <2>6
<1>. QED  BY <1>5, <1>6, <1>8, <1>9, <1>10 DEF IInv, LocalInv, Conservation, Accounted

\* The steps of Init and the lock methods that change no semaphore.
LEMMA QuietActions ==
  ASSUME IInv, NEW p \in Procs,
         \/ InitNoCreate(p) \/ Connect(p) \/ Poll(p) \/ CallLock(p) \/ SemopFails(p)
         \/ InitOp(p) /\ pc'[p] # "ready"
  PROVE  IInv'
<1>. USE WRLockAssumption DEF WRLockAssumption
<1>1. /\ SemTypeOK /\ pc \in [Procs -> Pcs] /\ semid \in [Procs -> SemIds \cup {NoId}]
      /\ tries \in [Procs -> 0 .. MaxTries - 1]
  BY DEF IInv, LocalInv, TypeOK
<1>2. pc[p] \in UsePcs => semid[p] \in SemIds /\ life[semid[p]] # "unused" /\ otime[semid[p]]
  BY DEF IInv, LocalInv, SemidInv, InitialisedBeforeUse, UsePcs, ClaimPcs
<1>3. CASE InitNoCreate(p)
  <2>1. /\ pc[p] \in {"new", "ready"} /\ pc'[p] \in {"new", "connect"}
        /\ pc' \in [Procs -> Pcs] /\ semid' \in [Procs -> SemIds \cup {NoId}]
        /\ \A q \in Procs \ {p} : pc'[q] = pc[q] /\ semid'[q] = semid[q]
        /\ tries' = tries /\ UNCHANGED semVars
    BY <1>1, <1>3 DEF InitNoCreate, Goto, Pcs
  <2>2. TypeOK'
    BY <2>1, <1>1 DEF TypeOK, SemTypeOK, semVars
  <2>. QED  BY <2>1, <2>2, QuietStep DEF ClaimPcs
<1>4. CASE Connect(p)
  <2>1. /\ pc[p] = "connect" /\ pc'[p] \in {"new", "poll"}
        /\ pc' \in [Procs -> Pcs] /\ semid' \in [Procs -> SemIds \cup {NoId}]
        /\ \A q \in Procs \ {p} : pc'[q] = pc[q] /\ semid'[q] = semid[q]
        /\ pc'[p] = "poll" => semid'[p] \in SemIds /\ life[semid'[p]] = "live"
        /\ UNCHANGED semVars
    BY <1>1, <1>4 DEF Connect, Goto, Pcs
  <2>2. tries' \in [Procs -> 0 .. MaxTries - 1]
    BY <1>1, <1>4 DEF Connect
  <2>3. TypeOK'
    BY <2>1, <2>2, <1>1 DEF TypeOK, SemTypeOK, semVars
  <2>. QED  BY <2>1, <2>3, QuietStep DEF ClaimPcs
<1>5. CASE Poll(p)
  <2>1. /\ pc[p] = "poll" /\ pc'[p] \in {"new", "poll", "ready"} /\ semid' = semid
        /\ pc' \in [Procs -> Pcs] /\ semid' \in [Procs -> SemIds \cup {NoId}]
        /\ \A q \in Procs \ {p} : pc'[q] = pc[q] /\ semid'[q] = semid[q]
        /\ pc'[p] = "ready" => otime[semid[p]]
        /\ UNCHANGED semVars
    BY <1>1, <1>5 DEF Poll, Goto, Pcs, SemOtime
  <2>2. tries' \in [Procs -> 0 .. MaxTries - 1]
    BY <1>1, <1>5 DEF Poll
  <2>3. TypeOK'
    BY <2>1, <2>2, <1>1 DEF TypeOK, SemTypeOK, semVars
  <2>4. semid[p] \in SemIds /\ life[semid[p]] # "unused"
    BY <2>1 DEF IInv, LocalInv, SemidInv
  <2>. QED  BY <2>1, <2>3, <2>4, QuietStep DEF ClaimPcs
<1>6. CASE CallLock(p)
  <2>1. /\ pc[p] = "ready" /\ pc'[p] \in {"lockR", "lockW0"} /\ semid' = semid
        /\ pc' \in [Procs -> Pcs]
        /\ \A q \in Procs \ {p} : pc'[q] = pc[q] /\ semid'[q] = semid[q]
        /\ tries' = tries /\ UNCHANGED semVars
    BY <1>1, <1>6 DEF CallLock, Goto, Pcs
  <2>2. TypeOK'
    BY <2>1, <1>1 DEF TypeOK, SemTypeOK, semVars
  <2>. QED  BY <2>1, <2>2, <1>2, QuietStep DEF ClaimPcs, UsePcs
<1>7. CASE SemopFails(p)
  <2>1. /\ pc[p] \in UsePcs /\ pc'[p] = "ready" /\ semid' = semid
        /\ life[semid[p]] = "removed" /\ pc' \in [Procs -> Pcs]
        /\ \A q \in Procs \ {p} : pc'[q] = pc[q] /\ semid'[q] = semid[q]
        /\ tries' = tries /\ UNCHANGED semVars
    BY <1>1, <1>7 DEF SemopFails, SemGone, Goto, Pcs, UsePcs, ClaimPcs
  <2>2. TypeOK'
    BY <2>1, <1>1 DEF TypeOK, SemTypeOK, semVars
  <2>. QED  BY <2>1, <2>2, <1>2, QuietStep
<1>8. CASE InitOp(p) /\ pc'[p] # "ready"
  <2>1. /\ pc[p] = "initop" /\ pc'[p] = "new" /\ semid' = semid
        /\ pc' \in [Procs -> Pcs]
        /\ \A q \in Procs \ {p} : pc'[q] = pc[q] /\ semid'[q] = semid[q]
        /\ tries' = tries /\ UNCHANGED semVars
    BY <1>1, <1>8 DEF InitOp, SemGone, Goto, Pcs
  <2>2. TypeOK'
    BY <2>1, <1>1 DEF TypeOK, SemTypeOK, semVars
  <2>. QED  BY <2>1, <2>2, QuietStep DEF ClaimPcs
<1>. QED  BY <1>3, <1>4, <1>5, <1>6, <1>7, <1>8

\* The initial states satisfy the inductive invariant.
LEMMA InitInv == Init => IInv
<1>. SUFFICES ASSUME Init  PROVE IInv
  OBVIOUS
<1>. USE WRLockAssumption DEF WRLockAssumption, Init, SemInit, NoAdj
<1>1. TypeOK
  BY DEF TypeOK, SemTypeOK, Pcs
<1>2. SemidInv /\ InitialisedBeforeUse /\ CreatorInv /\ FreshInv /\ AdjInv /\ ClaimInv
  BY DEF SemidInv, InitialisedBeforeUse, CreatorInv, FreshInv, AdjInv, ClaimInv, UsePcs, ClaimPcs
<1>3. Conservation
  BY DEF Conservation, Accounted, SemOtime
<1>. QED  BY <1>1, <1>2, <1>3 DEF IInv, LocalInv

\* Every step preserves it.
LEMMA NextInv == IInv /\ [Next]_vars => IInv'
<1>. SUFFICES ASSUME IInv, [Next]_vars  PROVE IInv'
  OBVIOUS
<1>1. CASE UNCHANGED vars
  <2>1. /\ life' = life /\ val' = val /\ otime' = otime /\ adj' = adj
        /\ pc' = pc /\ semid' = semid /\ tries' = tries
    BY <1>1 DEF vars, semVars, lockVars
  <2>2. LocalInv'
    BY <2>1 DEF IInv, LocalInv, TypeOK, SemTypeOK, SemidInv, InitialisedBeforeUse,
       CreatorInv, FreshInv, AdjInv, ClaimInv
  <2>3. Conservation'
    BY <2>1 DEF IInv, Conservation, Accounted, SemOtime, Claimants, Writers, Readers, At
  <2>. QED  BY <2>2, <2>3 DEF IInv
<1>2. ASSUME NEW p \in Procs, Step(p)  PROVE IInv'
  <2>1. CASE InitCreate(p)    BY <2>1, InitCreateStep
  <2>2. CASE InitNoCreate(p)  BY <2>2, QuietActions
  <2>3. CASE InitOp(p)        BY <2>3, QuietActions, InitOpStep
  <2>4. CASE Connect(p)       BY <2>4, QuietActions
  <2>5. CASE Poll(p)          BY <2>5, QuietActions
  <2>6. CASE Destroy(p)       BY <2>6, DestroyStep
  <2>7. CASE CallLock(p)      BY <2>7, QuietActions
  <2>8. CASE LockR(p)         BY <2>8, LockRStep
  <2>9. CASE UnLockR(p)       BY <2>9, UnLockRStep
  <2>10. CASE LockW0(p)       BY <2>10, LockW0Step
  <2>11. CASE LockW1(p)       BY <2>11, LockW1Step
  <2>12. CASE UnLockW0(p)     BY <2>12, UnLockW0Step
  <2>13. CASE UnLockW1(p)     BY <2>13, UnLockW1Step
  <2>14. CASE SemopFails(p)   BY <2>14, QuietActions
  <2>. QED  BY <1>2, <2>1, <2>2, <2>3, <2>4, <2>5, <2>6, <2>7, <2>8, <2>9, <2>10,
               <2>11, <2>12, <2>13, <2>14 DEF Step
<1>3. ASSUME NEW p \in Procs, Exit(p)  PROVE IInv'
  BY <1>3, ExitStep
<1>. QED  BY <1>1, <1>2, <1>3 DEF Next

\* The inductive invariant holds in every reachable state.
THEOREM Inductive == Spec => []IInv
BY InitInv, NextInv, PTL DEF Spec

\* Every reachable state is well typed: in particular no semaphore value and
\* no poll counter leaves its range.
THEOREM Typing == Spec => []TypeOK
<1>1. IInv => TypeOK
  BY DEF IInv, LocalInv
<1>. QED  BY <1>1, Inductive, PTL

\* A writer is alone under its lock (LockW, LockR).
THEOREM WriterAlone == Spec => []Exclusion
<1>1. IInv => Exclusion
  BY DEF IInv, LocalInv, ClaimInv, Exclusion, Readers, Writers, At, ClaimPcs
<1>. QED  BY <1>1, Inductive, PTL

\* The semaphores account for exactly the living holders, through every
\* unlock, failure and exit (SEM_UNDO).
THEOREM NothingLeaks == Spec => []Conservation
<1>1. IInv => Conservation
  BY DEF IInv
<1>. QED  BY <1>1, Inductive, PTL

\* Init never succeeds on a set that has not got its resources yet.
THEOREM InitWaits == Spec => []InitialisedBeforeUse
<1>1. IInv => InitialisedBeforeUse
  BY DEF IInv, LocalInv
<1>. QED  BY <1>1, Inductive, PTL

\* No reader gets in between a writer's claim and its release.
THEOREM ReadersYield == Spec => WriterPreference
<1>1. IInv /\ [Next]_vars =>
        \A p \in Procs : pc[p] = "lockR" /\ pc'[p] = "reading" => Claimants(semid[p]) = {}
  <2>. SUFFICES ASSUME IInv, [Next]_vars, NEW p \in Procs,
                       pc[p] = "lockR", pc'[p] = "reading"
                PROVE  Claimants(semid[p]) = {}
    OBVIOUS
  <2>1. pc \in [Procs -> Pcs]
    BY DEF IInv, LocalInv, TypeOK
  <2>2. PICK q \in Procs : Step(q) \/ Exit(q)
    BY DEF Next, vars, lockVars
  <2>3. ~Exit(q)
    BY <2>1 DEF Exit
  <2>4. LockR(q) /\ q = p
    <3>1. InitCreate(q) => FALSE      BY <2>1 DEF InitCreate, Goto
    <3>2. InitNoCreate(q) => FALSE    BY <2>1 DEF InitNoCreate, Goto
    <3>3. InitOp(q) => FALSE          BY <2>1 DEF InitOp, Goto
    <3>4. Connect(q) => FALSE         BY <2>1 DEF Connect, Goto
    <3>5. Poll(q) => FALSE            BY <2>1 DEF Poll, Goto
    <3>6. Destroy(q) => FALSE         BY <2>1 DEF Destroy, lockVars
    <3>7. CallLock(q) => FALSE        BY <2>1 DEF CallLock, Goto
    <3>8. UnLockR(q) => FALSE         BY <2>1 DEF UnLockR, Goto
    <3>9. LockW0(q) => FALSE          BY <2>1 DEF LockW0, Goto
    <3>10. LockW1(q) => FALSE         BY <2>1 DEF LockW1, Goto
    <3>11. UnLockW0(q) => FALSE       BY <2>1 DEF UnLockW0, Goto
    <3>12. UnLockW1(q) => FALSE       BY <2>1 DEF UnLockW1, Goto
    <3>13. SemopFails(q) => FALSE     BY <2>1 DEF SemopFails, Goto
    <3>14. LockR(q)
      BY <2>2, <2>3, <3>1, <3>2, <3>3, <3>4, <3>5, <3>6, <3>7, <3>8, <3>9, <3>10, <3>11,
         <3>12, <3>13 DEF Step
    <3>. QED  BY <3>14, <2>1 DEF LockR, Goto
  <2>5. semid[p] \in SemIds /\ otime[semid[p]]
    BY DEF IInv, LocalInv, SemidInv, InitialisedBeforeUse, UsePcs
  <2>6. life[semid[p]] = "live" /\ val[semid[p]][0] = 0
    BY <2>4 DEF LockR, Semop
  <2>. QED  BY <2>5, <2>6, ZeroMeansFree DEF SemOtime
<1>. QED  BY <1>1, Inductive, PTL DEF Spec, WriterPreference
----------------------------------------------------------------------------
\* A step after which p holds nothing is a Drop of the abstract lock.
LEMMA DropStep ==
  ASSUME NEW p \in Procs, pc'[p] \notin {"reading"} \cup ClaimPcs,
         \A q \in Procs \ {p} : pc'[q] = pc[q] /\ semid'[q] = semid[q]
  PROVE  RW!Next
<1>1. \A s \in SemIds : /\ Readers(s)' = Readers(s) \ {p}
                        /\ Writers(s)' = Writers(s) \ {p}
                        /\ Claimants(s)' = Claimants(s) \ {p}
  BY DEF Readers, Writers, Claimants, At, ClaimPcs
<1>2. RW!Drop(p)
  BY <1>1 DEF RW!Drop
<1>. QED  BY <1>2 DEF RW!Next

\* Every step of TWRLock is a step of RWLock or leaves it alone.
LEMMA NextRW == IInv /\ [Next]_vars => [RW!Next]_RW!vars
<1>. SUFFICES ASSUME IInv, [Next]_vars  PROVE [RW!Next]_RW!vars
  OBVIOUS
<1>. USE WRLockAssumption DEF WRLockAssumption
<1>1. pc \in [Procs -> Pcs] /\ semid \in [Procs -> SemIds \cup {NoId}]
  BY DEF IInv, LocalInv, TypeOK
<1>2. CASE UNCHANGED vars
  BY <1>2 DEF vars, lockVars, RW!vars, Readers, Writers, Claimants, At
<1>3. ASSUME NEW p \in Procs, Exit(p)  PROVE RW!Next
  BY <1>1, <1>3, DropStep DEF Exit, ClaimPcs
<1>4. ASSUME NEW p \in Procs, Step(p)  PROVE [RW!Next]_RW!vars
  <2>1. pc[p] \in UsePcs => semid[p] \in SemIds /\ otime[semid[p]]
    BY DEF IInv, LocalInv, SemidInv, InitialisedBeforeUse, UsePcs, ClaimPcs
  <2>2. CASE Destroy(p)
    BY <2>2 DEF Destroy, lockVars, RW!vars, Readers, Writers, Claimants, At
  <2>3. CASE \/ InitCreate(p) \/ InitNoCreate(p) \/ InitOp(p) \/ Connect(p) \/ Poll(p)
             \/ CallLock(p) \/ UnLockR(p) \/ UnLockW1(p) \/ SemopFails(p)
    <3>1. \A q \in Procs \ {p} : pc'[q] = pc[q] /\ semid'[q] = semid[q]
      BY <1>1, <2>3 DEF InitCreate, InitNoCreate, InitOp, Connect, Poll, CallLock, UnLockR,
         UnLockW1, SemopFails, Goto
    <3>2. pc'[p] \in {"new", "initop", "connect", "poll", "ready", "lockR", "lockW0"}
      BY <1>1, <2>3 DEF InitCreate, InitNoCreate, InitOp, Connect, Poll, CallLock, UnLockR,
         UnLockW1, SemopFails, Goto
    <3>. QED  BY <3>1, <3>2, DropStep DEF ClaimPcs
  <2>4. CASE LockR(p)
    <3>1. pc[p] = "lockR" /\ pc' = [pc EXCEPT ![p] = "reading"] /\ semid' = semid
      BY <2>4 DEF LockR, Goto
    <3>2. PICK s \in SemIds : s = semid[p]
      BY <3>1, <2>1 DEF UsePcs
    <3>3. life[s] = "live" /\ otime[s] /\ val[s][0] = 0 /\ val[s][1] >= 1 /\ val[s][1] \in Nat
      BY <2>1, <2>4, <3>1, <3>2 DEF LockR, Semop, UsePcs, IInv, LocalInv, TypeOK, SemTypeOK
    <3>4. Claimants(s) = {} /\ Writers(s) = {} /\ Accounted(s)
      BY <3>3, ZeroMeansFree DEF SemOtime, Claimants, Writers, At, ClaimPcs, IInv, Conservation
    <3>5. Cardinality(Readers(s)) \in Nat /\ Cardinality(Readers(s)) < MaxResource
      <4>1. Cardinality(Readers(s)) \in Nat
        BY AtFinite DEF Readers
      <4>. QED  BY <4>1, <3>3, <3>4 DEF Accounted, SemOtime
    <3>6. /\ \A t \in SemIds : Writers(t)' = Writers(t) /\ Claimants(t)' = Claimants(t)
          /\ \A t \in SemIds \ {s} : Readers(t)' = Readers(t)
          /\ Readers(s)' = Readers(s) \cup {p}
      BY <1>1, <3>1, <3>2 DEF Readers, Writers, Claimants, At, ClaimPcs
    <3>7. RW!EnterR(p, s)
      <4>1. [t \in SemIds |-> Readers(t)][s] = Readers(s)
        BY <3>2
      <4>2. Cardinality([t \in SemIds |-> Readers(t)][s]) < MaxResource
        BY <3>5, <4>1
      <4>3. ASSUME NEW S  PROVE RW!Cardinality(S) = Cardinality(S)
        BY DEF RW!Cardinality, Cardinality
      <4>. QED  BY <3>4, <3>6, <4>2, <4>3 DEF RW!EnterR
    <3>. QED  BY <3>7 DEF RW!Next
  <2>5. CASE LockW0(p)
    <3>1. pc[p] = "lockW0" /\ pc' = [pc EXCEPT ![p] = "lockW1"] /\ semid' = semid
      BY <2>5 DEF LockW0, Goto
    <3>2. PICK s \in SemIds : s = semid[p]
      BY <3>1, <2>1 DEF UsePcs
    <3>3. life[s] = "live" /\ otime[s] /\ val[s][0] = 0
      BY <2>1, <2>5, <3>1, <3>2 DEF LockW0, Semop, UsePcs
    <3>4. Claimants(s) = {}
      BY <3>3, ZeroMeansFree DEF SemOtime
    <3>5. /\ \A t \in SemIds : Writers(t)' = Writers(t) /\ Readers(t)' = Readers(t)
          /\ \A t \in SemIds \ {s} : Claimants(t)' = Claimants(t)
          /\ Claimants(s)' = {p}
      BY <1>1, <3>1, <3>2, <3>4 DEF Readers, Writers, Claimants, At, ClaimPcs
    <3>6. RW!Claim(p, s)
      BY <3>4, <3>5 DEF RW!Claim
    <3>. QED  BY <3>6 DEF RW!Next
  <2>6. CASE LockW1(p)
    <3>1. pc[p] = "lockW1" /\ pc' = [pc EXCEPT ![p] = "writing"] /\ semid' = semid
      BY <2>6 DEF LockW1, Goto
    <3>2. PICK s \in SemIds : s = semid[p]
      BY <3>1, <2>1 DEF UsePcs, ClaimPcs
    <3>3. life[s] = "live" /\ otime[s] /\ val[s][1] >= MaxResource
      BY <2>1, <2>6, <3>1, <3>2
         DEF LockW1, Semop, UsePcs, ClaimPcs, IInv, LocalInv, TypeOK, SemTypeOK
    <3>4. Readers(s) = {} /\ Writers(s) = {}
      BY <3>3, ZeroMeansFree DEF SemOtime
    <3>5. Claimants(s) = {p}
      BY <3>1, <3>2 DEF Claimants, At, ClaimPcs, IInv, LocalInv, ClaimInv
    <3>6. /\ \A t \in SemIds : Claimants(t)' = Claimants(t) /\ Readers(t)' = Readers(t)
          /\ \A t \in SemIds \ {s} : Writers(t)' = Writers(t)
          /\ Writers(s)' = {p}
      BY <1>1, <3>1, <3>2, <3>4 DEF Readers, Writers, Claimants, At, ClaimPcs
    <3>7. RW!EnterW(p, s)
      BY <3>4, <3>5, <3>6 DEF RW!EnterW
    <3>. QED  BY <3>7 DEF RW!Next
  <2>7. CASE UnLockW0(p)
    <3>1. pc[p] = "writing" /\ pc' = [pc EXCEPT ![p] = "unlockW1"] /\ semid' = semid
      BY <2>7 DEF UnLockW0, Goto
    <3>2. PICK s \in SemIds : s = semid[p]
      BY <3>1, <2>1 DEF UsePcs, ClaimPcs
    <3>3. Writers(s) = {p}
      BY <3>1, <3>2 DEF Writers, At, ClaimPcs, IInv, LocalInv, ClaimInv
    <3>4. /\ \A t \in SemIds : Claimants(t)' = Claimants(t) /\ Readers(t)' = Readers(t)
          /\ \A t \in SemIds \ {s} : Writers(t)' = Writers(t)
          /\ Writers(s)' = {}
      BY <1>1, <3>1, <3>2, <3>3 DEF Readers, Writers, Claimants, At, ClaimPcs
    <3>5. RW!LeaveW(p, s)
      BY <3>3, <3>4 DEF RW!LeaveW
    <3>. QED  BY <3>5 DEF RW!Next
  <2>. QED  BY <1>4, <2>2, <2>3, <2>4, <2>5, <2>6, <2>7 DEF Step
<1>. QED  BY <1>2, <1>3, <1>4 DEF Next

\* TWRLock implements the write-preferring reader/writer lock RWLock.
THEOREM Refinement == Spec => RWSpec
<1>1. Init => RW!Init
  BY DEF Init, RW!Init, Readers, Writers, Claimants, At, ClaimPcs
<1>. QED  BY <1>1, NextRW, Inductive, PTL DEF Spec, RWSpec, RW!Spec
=============================================================================
