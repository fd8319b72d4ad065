------------------------------ MODULE LogProofs ------------------------------
(***************************************************************************)
(* TLog for every number of threads, days, slots, files and descriptors:   *)
(* one thread at a time rotates, only the oldest file of a day is ever     *)
(* destroyed, and, as long as no system call fails, none that there is     *)
(* room for, and the descriptors are in order.                             *)
(***************************************************************************)
EXTENDS Log, FiniteSetTheorems, WellFoundedInduction, TLAPS

Shifting == {"shift", "shift0"}

\* The loop of RenameHistoryLog runs from MaxCount - 2 down to 1; a rotation
\* is under way only while a new file can be created.
PcInv ==
  \A t \in Threads :
    /\ pc[t] = "shift" => i[t] \in 1 .. MaxCount - 2
    /\ pc[t] = "shift0" => i[t] = 0
    /\ pc[t] \in {"need", "unlinkLast", "shift", "shift0", "date", "open"} => created < MaxFiles

\* A file has one name, and the higher its slot the older it is.
NameInv ==
  /\ \A d \in Days, s \in Slots : name[d][s] <= created
  /\ \A d, e \in Days : \A s, u \in Slots :
       name[d][s] # NoFile /\ name[d][s] = name[e][u] => d = e /\ s = u
  /\ \A d \in Days : \A s, u \in Slots :
       s < u /\ name[d][s] # NoFile /\ name[d][u] # NoFile => name[d][s] > name[d][u]

\* The slot a file is about to move to is vacant, unless it is the last.
VacantInv ==
  \A t \in Threads :
    pc[t] \in Shifting /\ i[t] < MaxCount - 2 => name[m_strDate][i[t] + 1] = NoFile

\* Which slots for old files are taken when nothing has failed: the first
\* ones, as many as there were rotations; in the middle of a rotation those
\* beyond i have moved up by one.
Taken(d, s) == name[d][s] # NoFile

MovedUp(d, s, k) ==
  \/ s <= k /\ s <= rotated[d]
  \/ s > k + 1 /\ s - 1 <= rotated[d]

CountAt(d, s) ==
  /\ (\A t \in Threads : pc[t] \in Shifting => m_strDate # d) =>
       (Taken(d, s) <=> s <= rotated[d])
  /\ \A t \in Threads : pc[t] \in Shifting /\ m_strDate = d =>
       (Taken(d, s) <=> MovedUp(d, s, i[t]))

CountInv == ~faulty => \A d \in Days : \A s \in Slots \ {0} : CountAt(d, s)

\* The descriptors when nothing has failed: m_fd alone, and for the time
\* between open and close the old one.
DescInv ==
  ~faulty =>
    /\ m_fd \in OpenFds
    /\ (\A t \in Threads : pc[t] # "closeOld") => OpenFds = {m_fd}
    /\ \A t \in Threads : pc[t] = "closeOld" =>
         nTmpFd[t] # m_fd /\ OpenFds = {m_fd, nTmpFd[t]}
    /\ (\A t \in Threads : pc[t] \notin {"date", "open"}) => fdFile[m_fd] = name[m_strDate][0]

IInv == TypeOK /\ RotationExclusive /\ PcInv /\ NameInv /\ VacantInv /\ CountInv /\ DescInv
----------------------------------------------------------------------------
\* Sets, tuples of variables and the form of a step are expanded everywhere.
USE DEF Locked, Shifting, Goto, Days, Slots, Files, NoFile, Fds, NoFd,
        kernel, log, locals, history, vars

\* Whoever is in the locked part is alone there.
LEMMA Alone ==
  ASSUME RotationExclusive, TypeOK, NEW t \in Threads, pc[t] \in Locked
  PROVE  m_pLock = t /\ \A u \in Threads : u # t => pc[u] \notin Locked
BY DEF RotationExclusive

\* The initial state satisfies the invariant.
LEMMA InitInv == Init => IInv
<1>. SUFFICES ASSUME Init PROVE IInv
  OBVIOUS
<1>1. TypeOK
  <2>1. name \in [Days -> [Slots -> Files \cup {NoFile}]]
    BY LogAssumption DEF LogAssumption, Init
  <2>2. /\ size \in [Files -> 0 .. MaxSize]
        /\ fdFile \in [Fds -> Files \cup {NoFile}]
        /\ rotated \in [Days -> Nat]
    BY LogAssumption DEF LogAssumption, Init
  <2>3. /\ i \in [Threads -> Slots]
        /\ fd \in [Threads -> Fds \cup {NoFd}] /\ nTmpFd \in [Threads -> Fds \cup {NoFd}]
        /\ pc \in [Threads -> Pcs] /\ nRs \in [Threads -> Outcomes]
    BY LogAssumption DEF LogAssumption, Init, Pcs, Outcomes
  <2>4. day \in Days /\ created \in Files /\ m_strDate \in Days /\ m_fd \in Fds
    BY LogAssumption DEF LogAssumption, Init
  <2>. QED  BY <2>1, <2>2, <2>3, <2>4 DEF Init, TypeOK
<1>2. RotationExclusive /\ PcInv /\ VacantInv
  BY LogAssumption DEF LogAssumption, Init, RotationExclusive, PcInv, VacantInv
<1>3. NameInv
  BY LogAssumption DEF LogAssumption, Init, NameInv
<1>4. CountInv
  BY LogAssumption DEF LogAssumption, Init, CountInv, CountAt, MovedUp, Taken
<1>5. DescInv
  BY LogAssumption DEF LogAssumption, Init, DescInv, OpenFds
<1>. QED  BY <1>1, <1>2, <1>3, <1>4, <1>5 DEF IInv

\* A step that leaves names, descriptors and the place in the rotation alone.
LEMMA Untouched ==
  ASSUME IInv, UNCHANGED <<name, created, fdFile, m_fd, m_strDate, i, nTmpFd, rotated, faulty>>,
         \A t \in Threads : /\ pc'[t] \in Shifting <=> pc[t] \in Shifting
                            /\ pc'[t] = "closeOld" <=> pc[t] = "closeOld"
                            /\ pc[t] \in {"date", "open"} => pc'[t] \in {"date", "open"}
  PROVE  NameInv' /\ CountInv' /\ DescInv'
<1>1. NameInv'
  BY DEF IInv, NameInv
<1>2. CountInv'
  BY DEF IInv, CountInv, CountAt, MovedUp, Taken
<1>3. DescInv'
  BY DEF IInv, DescInv, OpenFds
<1>. QED  BY <1>1, <1>2, <1>3

\* LogR is called, with or without the need to rotate.
LEMMA CallStep ==
  ASSUME IInv, NEW t \in Threads, Call(t)
  PROVE  IInv'
<1>1. TypeOK'
  BY DEF IInv, Call, TypeOK, Pcs
<1>2. RotationExclusive' /\ PcInv' /\ VacantInv'
  BY DEF IInv, Call, TypeOK, RotationExclusive, PcInv, VacantInv
<1>3. NameInv' /\ CountInv' /\ DescInv'
  BY Untouched DEF IInv, Call, TypeOK
<1>. QED  BY <1>1, <1>2, <1>3 DEF IInv

\* m_pLock is taken.
LEMMA LockStep ==
  ASSUME IInv, NEW t \in Threads, Lock(t)
  PROVE  IInv'
<1>1. TypeOK'
  BY DEF IInv, Lock, TypeOK, Pcs
<1>2. RotationExclusive' /\ PcInv' /\ VacantInv'
  BY LogAssumption DEF LogAssumption, IInv, Lock, TypeOK, RotationExclusive, PcInv, VacantInv
<1>3. NameInv' /\ CountInv' /\ DescInv'
  BY Untouched DEF IInv, Lock, TypeOK
<1>. QED  BY <1>1, <1>2, <1>3 DEF IInv

\* The time is looked at again.
LEMMA CheckAgainStep ==
  ASSUME IInv, NEW t \in Threads, CheckAgain(t)
  PROVE  IInv'
<1>1. TypeOK'
  BY DEF IInv, CheckAgain, TypeOK, Pcs, Outcomes
<1>2. RotationExclusive' /\ PcInv' /\ VacantInv'
  BY DEF IInv, CheckAgain, TypeOK, RotationExclusive, PcInv, VacantInv
<1>3. NameInv' /\ CountInv' /\ DescInv'
  BY Untouched DEF IInv, CheckAgain, TypeOK
<1>. QED  BY <1>1, <1>2, <1>3 DEF IInv

\* Whether the size or the date asks for another file.
LEMMA NeedChangeLogStep ==
  ASSUME IInv, NEW t \in Threads, NeedChangeLog(t)
  PROVE  IInv'
<1>1. TypeOK'
  BY DEF IInv, NeedChangeLog, TypeOK, Pcs, Outcomes
<1>2. RotationExclusive' /\ PcInv' /\ VacantInv'
  BY DEF IInv, NeedChangeLog, TypeOK, RotationExclusive, PcInv, VacantInv
<1>3. NameInv' /\ CountInv' /\ DescInv'
  BY Untouched DEF IInv, NeedChangeLog, TypeOK
<1>. QED  BY <1>1, <1>2, <1>3 DEF IInv

\* m_pLock is given back.
LEMMA UnLockStep ==
  ASSUME IInv, NEW t \in Threads, UnLock(t)
  PROVE  IInv'
<1>1. TypeOK'
  BY DEF IInv, UnLock, TypeOK, Pcs, Outcomes
<1>2. RotationExclusive' /\ PcInv' /\ VacantInv'
  BY LogAssumption DEF LogAssumption, IInv, UnLock, TypeOK, RotationExclusive, PcInv, VacantInv
<1>3. NameInv' /\ CountInv' /\ DescInv'
  BY Untouched DEF IInv, UnLock, TypeOK
<1>. QED  BY <1>1, <1>2, <1>3 DEF IInv

\* m_fd is read.
LEMMA ReadFdStep ==
  ASSUME IInv, NEW t \in Threads, ReadFd(t)
  PROVE  IInv'
<1>1. TypeOK'
  BY DEF IInv, ReadFd, TypeOK, Pcs
<1>2. RotationExclusive' /\ PcInv' /\ VacantInv'
  BY DEF IInv, ReadFd, TypeOK, RotationExclusive, PcInv, VacantInv
<1>3. NameInv' /\ CountInv' /\ DescInv'
  BY Untouched DEF IInv, ReadFd, TypeOK
<1>. QED  BY <1>1, <1>2, <1>3 DEF IInv

\* The message is written, or lost.
LEMMA WriteStep ==
  ASSUME IInv, NEW t \in Threads, Write(t)
  PROVE  IInv'
<1>1. TypeOK'
  <2>1. size' \in [Files -> 0 .. MaxSize]
    <3>1. CASE WriteOk(t)
      <4>1. fdFile[fd[t]] \in Files
        BY <3>1 DEF IInv, TypeOK, WriteOk, OpenFds
      <4>2. size[fdFile[fd[t]]] \in 0 .. MaxSize /\ size \in [Files -> 0 .. MaxSize]
        BY <4>1 DEF IInv, TypeOK
      <4>3. (IF size[fdFile[fd[t]]] < MaxSize THEN size[fdFile[fd[t]]] + 1
               ELSE size[fdFile[fd[t]]]) \in 0 .. MaxSize
        <5>1. PICK n \in 0 .. MaxSize : n = size[fdFile[fd[t]]]
          BY <4>2, Zenon
        <5>2. (IF n < MaxSize THEN n + 1 ELSE n) \in 0 .. MaxSize
          BY LogAssumption DEF LogAssumption
        <5>. QED  BY <5>1, <5>2, Zenon
      <4>. QED  BY <3>1, <4>2, <4>3 DEF Write
    <3>2. CASE ~WriteOk(t)
      BY <3>2 DEF IInv, Write, TypeOK
    <3>. QED  BY <3>1, <3>2
  <2>. QED  BY <2>1 DEF IInv, Write, TypeOK, Pcs
<1>2. RotationExclusive' /\ PcInv' /\ VacantInv'
  BY DEF IInv, Write, TypeOK, RotationExclusive, PcInv, VacantInv
<1>3. NameInv' /\ CountInv' /\ DescInv'
  BY Untouched DEF IInv, Write, TypeOK
<1>. QED  BY <1>1, <1>2, <1>3 DEF IInv

\* The oldest file is unlinked, or the call fails.
LEMMA UnlinkLastStep ==
  ASSUME IInv, NEW t \in Threads, UnlinkLast(t)
  PROVE  IInv'
<1>. DEFINE d == m_strDate
            last == name[d][MaxCount - 1]
<1>a. /\ MaxCount - 1 \in Slots /\ MaxCount - 2 \in Slots
      /\ MaxCount - 1 # 0 /\ MaxCount - 2 < MaxCount - 1
  BY LogAssumption DEF LogAssumption
<1>b. TypeOK /\ RotationExclusive /\ d \in Days /\ pc[t] = "unlinkLast"
  BY DEF IInv, TypeOK, UnlinkLast
<1>c. m_pLock = t /\ \A u \in Threads : u # t => pc[u] \notin Locked
  BY Alone, <1>b
<1>d. UNCHANGED <<created, m_strDate, rotated, fdFile, m_fd, nTmpFd>>
  BY DEF UnlinkLast
<1>e. /\ pc'[t] \in Shifting /\ i'[t] = MaxCount - 2
      /\ \A u \in Threads : u # t => pc'[u] = pc[u]
  BY <1>a, <1>b DEF UnlinkLast, TypeOK
<1>1. /\ TypeOK /\ d \in Days /\ MaxCount - 1 \in Slots /\ MaxCount - 2 \in Slots
      /\ pc[t] = "unlinkLast"
      /\ m_pLock = t /\ \A u \in Threads : u # t => pc[u] \notin Locked
  BY <1>a, <1>b, <1>c
<1>2. CASE UNCHANGED <<name, deleted>> /\ faulty'
  <2>1. TypeOK'
    BY <1>1, <1>2 DEF UnlinkLast, TypeOK, Pcs
  <2>2. NameInv' /\ CountInv' /\ DescInv'
    BY <1>2 DEF IInv, UnlinkLast, NameInv, CountInv, DescInv
  <2>3. RotationExclusive' /\ PcInv' /\ VacantInv'
    BY <1>1, <1>2, LogAssumption DEF LogAssumption, IInv, UnlinkLast, TypeOK, RotationExclusive, PcInv, VacantInv
  <2>. QED  BY <2>1, <2>2, <2>3 DEF IInv
<1>3. CASE /\ name' = Put(d, MaxCount - 1, NoFile)
           /\ deleted' = deleted \cup ({last} \ {NoFile})
           /\ UNCHANGED faulty
  <2>1. /\ \A e \in Days, s \in Slots :
             name'[e][s] = IF e = d /\ s = MaxCount - 1 THEN NoFile ELSE name[e][s]
        /\ name' \in [Days -> [Slots -> Files \cup {NoFile}]]
    BY <1>1, <1>3 DEF TypeOK, Put
  <2>2. TypeOK'
    <3>1. deleted' \subseteq Files
      <4>a. /\ name \in [Days -> [Slots -> Files \cup {NoFile}]] /\ deleted \subseteq Files
            /\ MaxCount - 1 \in Slots /\ d \in Days
        BY <1>1, Zenon DEF TypeOK
      <4>1. last \in Files \cup {NoFile} /\ deleted \subseteq Files
        BY <4>a
      <4>. QED  BY <1>3, <4>1
    <3>2. pc' \in [Threads -> Pcs] /\ i' \in [Threads -> Slots]
      BY <1>1 DEF UnlinkLast, TypeOK, Pcs
    <3>. QED  BY <1>1, <1>3, <2>1, <3>1, <3>2 DEF UnlinkLast, TypeOK
  <2>3. NameInv'
    <3>1. created \in Nat
      BY <1>1 DEF TypeOK
    <3>2. NameInv
      BY DEF IInv
    <3>3. \A e \in Days, s \in Slots : name'[e][s] = NoFile \/ name'[e][s] = name[e][s]
      BY <2>1
    <3>4. \A e \in Days, s \in Slots : name'[e][s] <= created'
      BY <1>d, <3>1, <3>2, <3>3 DEF NameInv
    <3>. QED  BY <3>2, <3>3, <3>4 DEF NameInv
  <2>4. RotationExclusive' /\ PcInv' /\ VacantInv'
    BY <1>1, LogAssumption DEF LogAssumption, IInv, UnlinkLast, TypeOK, RotationExclusive, PcInv, VacantInv
  <2>5. CountInv'
    <3>1. SUFFICES ASSUME ~faulty', NEW e \in Days, NEW s \in Slots \ {0}
                   PROVE  CountAt(e, s)'
      BY DEF CountInv
    <3>2. Taken(e, s) <=> s <= rotated[e]
      BY <1>1, <1>3, <3>1 DEF IInv, CountInv, CountAt
    <3>3. CASE e # d
      BY <1>d, <2>1, <3>2, <3>3 DEF CountAt, Taken
    <3>4. CASE e = d
      <4>2. \A u \in Threads : pc'[u] \in Shifting => u = t
        BY <1>c, <1>e
      <4>3. rotated[e] \in Nat
        BY <1>1 DEF TypeOK
      <4>4. Taken(e, s)' <=> s # MaxCount - 1 /\ s <= rotated[e]
        BY <2>1, <3>1, <3>2, <3>4 DEF Taken
      <4>. QED  BY <1>d, <3>4, <1>e, <4>2, <4>3, <4>4, LogAssumption DEF LogAssumption, CountAt, MovedUp
    <3>. QED  BY <3>3, <3>4
  <2>6. DescInv'
    <3>1. name'[m_strDate][0] = name[m_strDate][0]
      BY <1>a, <1>b, <2>1
    <3>2. \A u \in Threads : pc[u] \notin {"closeOld", "date", "open"}
                              /\ pc'[u] \notin {"closeOld", "date", "open"}
      BY <1>b, <1>c, <1>e
    <3>. QED  BY <1>3, <1>d, <3>1, <3>2 DEF IInv, DescInv, OpenFds
  <2>. QED  BY <2>2, <2>3, <2>4, <2>5, <2>6 DEF IInv
<1>. QED  BY <1>2, <1>3, <1>1 DEF UnlinkLast

\* The names when a file of a day has moved up by one slot.
Moved(d, k) ==
  /\ \A e \in Days, s \in Slots :
       name'[e][s] = IF e = d /\ s = k THEN NoFile
                     ELSE IF e = d /\ s = k + 1 THEN name[d][k] ELSE name[e][s]
  /\ name' \in [Days -> [Slots -> Files \cup {NoFile}]]
  /\ deleted' \subseteq Files
  /\ NameInv'

\* What rename(2) does to the names of a day.
LEMMA RenameMoves ==
  ASSUME IInv, NEW d \in Days, NEW k \in Slots, k + 1 \in Slots, Rename(d, k, k + 1),
         UNCHANGED created
  PROVE  Moved(d, k)
<1>a. name \in [Days -> [Slots -> Files \cup {NoFile}]] /\ deleted \subseteq Files /\ created \in Nat
  BY DEF IInv, TypeOK
<1>b. name[d][k] \in Files \cup {NoFile} /\ name[d][k + 1] \in Files \cup {NoFile}
  BY <1>a
<1>1. /\ name \in [Days -> [Slots -> Files \cup {NoFile}]]
      /\ name[d][k] \in Files \cup {NoFile} /\ name[d][k + 1] \in Files \cup {NoFile}
      /\ deleted \subseteq Files /\ created \in Nat
  BY <1>a, <1>b
<1>2. k # k + 1
  OBVIOUS
<1>3. \A e \in Days, s \in Slots :
        name'[e][s] = IF e = d /\ s = k THEN NoFile
                      ELSE IF e = d /\ s = k + 1 THEN name[d][k] ELSE name[e][s]
  BY <1>1, <1>2 DEF Rename
<1>4. name' \in [Days -> [Slots -> Files \cup {NoFile}]]
  BY <1>1 DEF Rename
<1>5. deleted' \subseteq Files
  BY <1>1 DEF Rename
<1>6. NameInv'
  <2>1. \A e \in Days, s \in Slots : name'[e][s] <= created'
    BY <1>1, <1>3 DEF IInv, NameInv
  <2>2. \A e, f \in Days : \A s, u \in Slots :
          name'[e][s] # NoFile /\ name'[e][s] = name'[f][u] => e = f /\ s = u
    BY <1>1, <1>3 DEF IInv, NameInv
  <2>3. \A e \in Days : \A s, u \in Slots :
          s < u /\ name'[e][s] # NoFile /\ name'[e][u] # NoFile => name'[e][s] > name'[e][u]
    BY <1>1, <1>3 DEF IInv, NameInv
  <2>. QED  BY <2>1, <2>2, <2>3 DEF NameInv
<1>. QED  BY <1>3, <1>4, <1>5, <1>6, Zenon DEF Moved

\* A step of the locked part fails; the names and descriptors stay.
LEMMA FailStep ==
  ASSUME IInv, NEW t \in Threads, pc[t] \in Locked, faulty', TypeOK',
         UNCHANGED <<name, created, m_pLock>>,
         pc' = [pc EXCEPT ![t] = "unlock"],
         \A u \in Threads : u # t => i'[u] = i[u]
  PROVE  IInv'
<1>1. m_pLock = t /\ \A u \in Threads : u # t => pc[u] \notin Locked
  BY Alone DEF IInv
<1>2. pc'[t] = "unlock" /\ \A u \in Threads : u # t => pc'[u] = pc[u]
  BY DEF IInv, TypeOK
<1>3. RotationExclusive'
  BY <1>1, <1>2 DEF IInv, RotationExclusive
<1>4. PcInv' /\ VacantInv'
  BY <1>1, <1>2 DEF PcInv, VacantInv
<1>5. NameInv' /\ CountInv' /\ DescInv'
  BY DEF IInv, NameInv, CountInv, DescInv
<1>. QED  BY <1>3, <1>4, <1>5 DEF IInv

\* One turn of the loop.
LEMMA ShiftStep ==
  ASSUME IInv, NEW t \in Threads, Shift(t)
  PROVE  IInv'
<1>. DEFINE d == m_strDate
            k == i[t]
<1>1. /\ TypeOK /\ RotationExclusive /\ d \in Days /\ pc[t] = "shift"
      /\ k \in 1 .. MaxCount - 2 /\ created < MaxFiles
  BY DEF IInv, TypeOK, PcInv, Shift, Fail
<1>2. k \in Slots /\ k + 1 \in Slots /\ k - 1 \in Slots /\ MaxCount \in Nat
  BY <1>1, LogAssumption DEF LogAssumption
<1>3. m_pLock = t /\ \A u \in Threads : u # t => pc[u] \notin Locked
  BY Alone, <1>1
<1>4. UNCHANGED <<day, created, size, m_strDate, rotated, fdFile, m_fd, m_pLock, fd, nTmpFd>>
  BY DEF Shift
<1>5. CASE /\ Fail(t, "shift")
           /\ i' = [i EXCEPT ![t] = 0]
           /\ UNCHANGED <<name, deleted>>
  <2>1. TypeOK'
    <3>a. /\ i \in [Threads -> Slots] /\ pc \in [Threads -> Pcs] /\ nRs \in [Threads -> Outcomes]
          /\ 0 \in Slots /\ "unlock" \in Pcs /\ "fail" \in Outcomes
      BY <1>1, <1>2 DEF TypeOK, Pcs, Outcomes
    <3>1. i' \in [Threads -> Slots] /\ pc' \in [Threads -> Pcs] /\ nRs' \in [Threads -> Outcomes]
      BY <1>5, <3>a DEF Fail
    <3>. QED  BY <1>1, <1>4, <1>5, <3>1 DEF Fail, TypeOK
  <2>2. \A u \in Threads : u # t => i'[u] = i[u]
    BY <1>1, <1>5 DEF TypeOK
  <2>. QED  BY <1>1, <1>4, <1>5, <2>1, <2>2, FailStep DEF Fail
<1>6. CASE /\ Goto(t, "shift", IF i[t] = 1 THEN "shift0" ELSE "shift")
           /\ i' = [i EXCEPT ![t] = @ - 1]
           /\ \/ name[m_strDate][i[t]] # NoFile /\ Rename(m_strDate, i[t], i[t] + 1)
              \/ name[m_strDate][i[t]] = NoFile /\ UNCHANGED <<name, deleted>>
           /\ UNCHANGED <<nRs, faulty>>
  <2>1. /\ pc'[t] \in Shifting /\ (pc'[t] = "shift0" <=> k = 1) /\ i'[t] = k - 1
        /\ \A u \in Threads : u # t => pc'[u] = pc[u] /\ i'[u] = i[u]
    BY <1>1, <1>6 DEF TypeOK
  <2>2. /\ \A e \in Days, s \in Slots :
             name'[e][s] = IF e = d /\ s = k THEN NoFile
                           ELSE IF e = d /\ s = k + 1 /\ name[d][k] # NoFile THEN name[d][k]
                           ELSE name[e][s]
        /\ name' \in [Days -> [Slots -> Files \cup {NoFile}]]
        /\ deleted' \subseteq Files
        /\ NameInv'
    <3>1. CASE name[d][k] # NoFile /\ Rename(d, k, k + 1)
      <4>1. k \in Slots /\ k + 1 \in Slots
        BY <1>2
      <4>2. Moved(d, k)
        BY <1>1, <1>4, <3>1, <4>1, RenameMoves, Zenon
      <4>. QED  BY <3>1, <4>2 DEF Moved
    <3>2. CASE name[d][k] = NoFile /\ UNCHANGED <<name, deleted>>
      <4>1. NameInv'
        BY <1>4, <3>2 DEF IInv, NameInv
      <4>. QED  BY <1>1, <3>2, <4>1 DEF TypeOK
    <3>. QED  BY <1>6, <3>1, <3>2
  <2>3. TypeOK'
    <3>1. i' \in [Threads -> Slots] /\ pc' \in [Threads -> Pcs]
      BY <1>1, <1>2, <1>6 DEF TypeOK, Pcs
    <3>. QED  BY <1>1, <1>4, <1>6, <2>2, <3>1 DEF TypeOK
  <2>4. RotationExclusive'
    BY <1>1, <1>3, <1>4, <2>1 DEF RotationExclusive
  <2>5. PcInv'
    <3>1. \A u \in Threads : u # t =>
            (/\ pc'[u] = "shift" => i'[u] \in 1 .. MaxCount - 2
             /\ pc'[u] = "shift0" => i'[u] = 0
             /\ pc'[u] \notin {"need", "unlinkLast", "shift", "shift0", "date", "open"})
      BY <1>3, <2>1
    <3>2. /\ pc'[t] = "shift" => i'[t] \in 1 .. MaxCount - 2
          /\ pc'[t] = "shift0" => i'[t] = 0
      BY <1>1, <1>2, <2>1
    <3>. QED  BY <1>1, <1>4, <3>1, <3>2 DEF PcInv
  <2>6. VacantInv'
    <3>1. name'[d][k] = NoFile
      BY <1>1, <1>2, <2>2
    <3>2. i'[t] + 1 = k
      BY <1>2, <2>1
    <3>. QED  BY <1>3, <1>4, <2>1, <3>1, <3>2 DEF VacantInv
  <2>7. CountInv'
    <3>1. SUFFICES ASSUME ~faulty', NEW e \in Days, NEW s \in Slots \ {0}
                   PROVE  CountAt(e, s)'
      BY DEF CountInv
    <3>2. CountAt(e, s) /\ CountAt(e, k)
      BY <1>1, <1>2, <1>6, <3>1 DEF IInv, CountInv
    <3>3. CASE e # d
      BY <1>3, <1>4, <2>1, <2>2, <3>2, <3>3 DEF CountAt, Taken, MovedUp
    <3>4. CASE e = d
      <4>1. \A u \in Threads : pc'[u] \in Shifting => u = t
        BY <1>3, <2>1
      <4>2. /\ name[d][s] # NoFile <=> MovedUp(d, s, k)
            /\ name[d][k] # NoFile <=> MovedUp(d, k, k)
        BY <1>1, <3>2, <3>4 DEF CountAt, Taken
      <4>3. name'[d][s] # NoFile <=> MovedUp(d, s, k - 1)
        <5>1. s \in Nat /\ s # 0 /\ k \in Nat /\ k # 0
          BY <1>1, <1>2
        <5>2. rotated[d] \in Nat
          BY <1>1 DEF TypeOK
        <5>3. name'[d][s] = IF s = k THEN NoFile
                            ELSE IF s = k + 1 /\ name[d][k] # NoFile THEN name[d][k]
                            ELSE name[d][s]
          BY <1>1, <2>2
        <5>. QED  BY <4>2, <5>1, <5>2, <5>3 DEF MovedUp
      <4>. QED  BY <1>1, <1>4, <2>1, <3>4, <4>1, <4>3 DEF CountAt, MovedUp, Taken
    <3>. QED  BY <3>3, <3>4
  <2>8. DescInv'
    <3>1. name'[d][0] = name[d][0]
      BY <1>1, <1>2, <2>2
    <3>2. \A u \in Threads : pc[u] \notin {"closeOld", "date", "open"}
                              /\ pc'[u] \notin {"closeOld", "date", "open"}
      BY <1>1, <1>3, <2>1
    <3>. QED  BY <1>4, <1>6, <3>1, <3>2 DEF IInv, DescInv, OpenFds
  <2>. QED  BY <2>2, <2>3, <2>4, <2>5, <2>6, <2>7, <2>8 DEF IInv
<1>. QED  BY <1>5, <1>6 DEF Shift

\* The current file is moved aside.
LEMMA Shift0Step ==
  ASSUME IInv, NEW t \in Threads, Shift0(t)
  PROVE  IInv'
<1>. DEFINE d == m_strDate
<1>1. /\ TypeOK /\ RotationExclusive /\ d \in Days /\ pc[t] = "shift0"
      /\ i[t] = 0 /\ created < MaxFiles
  BY DEF IInv, TypeOK, PcInv, Shift0, Fail
<1>2. 0 \in Slots /\ 1 \in Slots /\ MaxCount \in Nat
  BY LogAssumption DEF LogAssumption
<1>3. m_pLock = t /\ \A u \in Threads : u # t => pc[u] \notin Locked
  BY Alone, <1>1
<1>4. UNCHANGED <<day, created, size, m_strDate, fdFile, m_fd, m_pLock, i, fd, nTmpFd>>
  BY DEF Shift0
<1>5. CASE Fail(t, "shift0") /\ UNCHANGED <<name, history>>
  <2>1. TypeOK'
    <3>1. pc' \in [Threads -> Pcs] /\ nRs' \in [Threads -> Outcomes]
      BY <1>1, <1>5 DEF Fail, TypeOK, Pcs, Outcomes
    <3>. QED  BY <1>1, <1>4, <1>5, <3>1 DEF Fail, TypeOK
  <2>. QED  BY <1>1, <1>4, <1>5, <2>1, FailStep DEF Fail
<1>6. CASE /\ Goto(t, "shift0", "date") /\ UNCHANGED <<nRs, faulty>>
           /\ name[d][0] # NoFile
           /\ Rename(d, 0, 1)
           /\ rotated' = [rotated EXCEPT ![d] = @ + 1]
  <2>1. pc'[t] = "date" /\ \A u \in Threads : u # t => pc'[u] = pc[u]
    BY <1>1, <1>6 DEF TypeOK
  <2>2. /\ \A e \in Days, s \in Slots :
             name'[e][s] = IF e = d /\ s = 0 THEN NoFile
                           ELSE IF e = d /\ s = 1 THEN name[d][0] ELSE name[e][s]
        /\ name' \in [Days -> [Slots -> Files \cup {NoFile}]]
        /\ deleted' \subseteq Files
        /\ NameInv'
    <3>1. 0 + 1 = 1
      OBVIOUS
    <3>2. Rename(d, 0, 0 + 1) /\ 0 + 1 \in Slots
      BY <1>2, <1>6, <3>1
    <3>3. Moved(d, 0)
      BY <1>1, <1>2, <1>4, <3>2, RenameMoves, Zenon
    <3>. QED  BY <3>1, <3>3 DEF Moved
  <2>3. TypeOK'
    <3>1. pc' \in [Threads -> Pcs]
      BY <1>1, <1>6 DEF TypeOK, Pcs
    <3>2. rotated' \in [Days -> Nat]
      <4>1. rotated \in [Days -> Nat]
        BY <1>1 DEF TypeOK
      <4>2. rotated[d] \in Nat
        BY <1>1, <4>1
      <4>3. rotated[d] + 1 \in Nat
        BY <4>2
      <4>. QED  BY <1>1, <1>6, <4>1, <4>3
    <3>. QED  BY <1>1, <1>4, <1>6, <2>2, <3>1, <3>2 DEF TypeOK
  <2>4. RotationExclusive'
    BY <1>1, <1>3, <1>4, <2>1 DEF RotationExclusive
  <2>5. PcInv' /\ VacantInv'
    BY <1>1, <1>3, <1>4, <2>1 DEF PcInv, VacantInv
  <2>6. CountInv'
    <3>1. SUFFICES ASSUME ~faulty', NEW e \in Days, NEW s \in Slots \ {0}
                   PROVE  CountAt(e, s)'
      BY DEF CountInv
    <3>2. CountAt(e, s)
      BY <1>6, <3>1 DEF IInv, CountInv
    <3>3. \A u \in Threads : pc'[u] \notin Shifting
      BY <1>3, <2>1
    <3>4. CASE e # d
      <4>1. rotated'[e] = rotated[e]
        BY <1>1, <1>6, <3>4 DEF TypeOK
      <4>. QED  BY <1>3, <1>1, <1>4, <2>2, <3>2, <3>3, <3>4, <4>1 DEF CountAt, Taken
    <3>5. CASE e = d
      <4>1. rotated[d] \in Nat /\ rotated'[d] = rotated[d] + 1
        BY <1>1, <1>6 DEF TypeOK
      <4>2. Taken(d, s) <=> MovedUp(d, s, 0)
        BY <1>1, <3>2, <3>5 DEF CountAt
      <4>3. Taken(d, s)' <=> s = 1 \/ Taken(d, s)
        BY <1>1, <1>4, <1>6, <2>2 DEF Taken
      <4>4. Taken(d, s)' <=> s <= rotated'[d]
        BY <4>1, <4>2, <4>3 DEF MovedUp
      <4>. QED  BY <1>4, <3>3, <3>5, <4>4 DEF CountAt
    <3>. QED  BY <3>4, <3>5
  <2>7. DescInv'
    <3>1. \A u \in Threads : pc[u] \notin {"closeOld", "date", "open"} /\ pc'[u] # "closeOld"
      BY <1>1, <1>3, <2>1
    <3>. QED  BY <1>4, <1>6, <2>1, <3>1 DEF IInv, DescInv, OpenFds
  <2>. QED  BY <2>2, <2>3, <2>4, <2>5, <2>6, <2>7 DEF IInv
<1>. QED  BY <1>5, <1>6 DEF Shift0

\* The date is stored, before the directory is there.
LEMMA SetDateStep ==
  ASSUME IInv, NEW t \in Threads, SetDate(t)
  PROVE  IInv'
<1>1. TypeOK /\ RotationExclusive /\ pc[t] = "date" /\ created < MaxFiles
  BY DEF IInv, SetDate, Fail, PcInv
<1>2. m_pLock = t /\ \A u \in Threads : u # t => pc[u] \notin Locked
  BY Alone, <1>1
<1>3. /\ UNCHANGED <<name, created, size, fdFile, m_fd, m_pLock, i, fd, nTmpFd, deleted, rotated>>
      /\ day' = day /\ m_strDate' = day
  BY DEF SetDate
<1>4. TypeOK'
  BY <1>1, <1>3 DEF SetDate, Fail, TypeOK, Pcs, Outcomes
<1>5. CASE Fail(t, "date")
  BY <1>1, <1>3, <1>4, <1>5, FailStep DEF Fail
<1>6. CASE Goto(t, "date", "open") /\ UNCHANGED <<nRs, faulty>>
  <2>1. pc'[t] = "open" /\ \A u \in Threads : u # t => pc'[u] = pc[u]
    BY <1>1, <1>6 DEF TypeOK
  <2>2. RotationExclusive' /\ PcInv' /\ VacantInv'
    BY <1>1, <1>2, <1>3, <2>1 DEF IInv, RotationExclusive, PcInv, VacantInv
  <2>3. NameInv'
    BY <1>3 DEF IInv, NameInv
  <2>4. CountInv'
    <3>1. \A u \in Threads : pc[u] \notin Shifting /\ pc'[u] \notin Shifting
      BY <1>1, <1>2, <2>1
    <3>. QED  BY <1>3, <1>6, <3>1 DEF IInv, CountInv, CountAt, Taken
  <2>5. DescInv'
    <3>1. \A u \in Threads : pc[u] # "closeOld" /\ pc'[u] # "closeOld"
      BY <1>1, <1>2, <2>1
    <3>. QED  BY <1>3, <1>6, <2>1, <3>1 DEF IInv, DescInv, OpenFds
  <2>. QED  BY <1>4, <2>2, <2>3, <2>4, <2>5 DEF IInv
<1>. QED  BY <1>5, <1>6 DEF SetDate

\* A set of numbers that is not empty has a lowest.
LEMMA LowestIn ==
  ASSUME NEW S \in SUBSET Nat, S # {}
  PROVE  Lowest(S) \in S
<1>1. PICK x \in S : \A y \in Nat : <<y, x>> \in OpToRel(<, Nat) => y \notin S
  BY NatLessThanWellFounded, WFMin
<1>2. \A y \in S : x <= y
  <2>1. SUFFICES ASSUME NEW y \in S, y < x PROVE FALSE
    BY DEF Lowest
  <2>2. <<y, x>> \in OpToRel(<, Nat)
    BY <2>1 DEF OpToRel
  <2>. QED  BY <1>1, <2>2
<1>. QED  BY <1>2 DEF Lowest

\* The new file is opened; for a moment there are two descriptors.
LEMMA OpenStep ==
  ASSUME IInv, NEW t \in Threads, Open(t)
  PROVE  IInv'
<1>. DEFINE d == m_strDate
            f == IF name[d][0] # NoFile THEN name[d][0] ELSE created + 1
            new == Lowest(Fds \ OpenFds)
<1>1. TypeOK /\ RotationExclusive /\ pc[t] = "open" /\ d \in Days /\ created < MaxFiles
  BY DEF IInv, TypeOK, Open, Fail, PcInv
<1>2. m_pLock = t /\ \A u \in Threads : u # t => pc[u] \notin Locked
  BY Alone, <1>1
<1>3. UNCHANGED <<day, size, m_strDate, m_pLock, i, fd, history>>
  BY DEF Open
<1>4. CASE /\ Fail(t, "open")
           /\ m_fd' = NoFd
           /\ UNCHANGED <<name, created, fdFile, nTmpFd>>
  <2>1. TypeOK'
    BY <1>1, <1>3, <1>4 DEF Fail, TypeOK, Pcs, Outcomes
  <2>. QED  BY <1>1, <1>3, <1>4, <2>1, FailStep DEF Fail
<1>5. CASE /\ Goto(t, "open", "closeOld") /\ UNCHANGED <<nRs, faulty>>
           /\ OpenFds # Fds
           /\ name' = Put(d, 0, f)
           /\ created' = IF f > created THEN f ELSE created
           /\ fdFile' = [fdFile EXCEPT ![new] = f]
           /\ m_fd' = new
           /\ nTmpFd' = [nTmpFd EXCEPT ![t] = m_fd]
  <2>1. pc'[t] = "closeOld" /\ \A u \in Threads : u # t => pc'[u] = pc[u]
    BY <1>1, <1>5 DEF TypeOK
  <2>2. new \in Fds /\ fdFile[new] = NoFile
    <3>1. Fds \ OpenFds # {} /\ Fds \ OpenFds \in SUBSET Nat
      BY <1>5 DEF OpenFds
    <3>2. new \in Fds \ OpenFds
      BY <3>1, LowestIn
    <3>. QED  BY <3>2 DEF OpenFds
  <2>3. /\ 0 \in Slots
        /\ name \in [Days -> [Slots -> Files \cup {NoFile}]]
        /\ created \in Files
    BY <1>1, LogAssumption DEF LogAssumption, TypeOK
  <2>4. name[d][0] \in Files \cup {NoFile} /\ name[d][0] <= created
    <3>1. name[d] \in [Slots -> Files \cup {NoFile}]
      BY <1>1, <2>3
    <3>2. name[d][0] <= created
      BY <1>1, <2>3 DEF IInv, NameInv
    <3>. QED  BY <2>3, <3>1, <3>2
  <2>5. /\ f \in Files /\ created' \in Files /\ created <= created' /\ f <= created'
        /\ name[d][0] # f => f = created + 1 /\ created' = created + 1
    BY <1>1, <1>5, <2>3, <2>4, LogAssumption DEF LogAssumption
  <2>6. /\ \A e \in Days, s \in Slots :
             name'[e][s] = IF e = d /\ s = 0 THEN f ELSE name[e][s]
        /\ name' \in [Days -> [Slots -> Files \cup {NoFile}]]
    BY <1>1, <1>5, <2>3, <2>5 DEF Put
  <2>7. /\ fdFile \in [Fds -> Files \cup {NoFile}]
        /\ fdFile' \in [Fds -> Files \cup {NoFile}]
        /\ \A x \in Fds : fdFile'[x] = IF x = new THEN f ELSE fdFile[x]
    BY <1>1, <1>5, <2>2, <2>5 DEF TypeOK
  <2>8. TypeOK'
    <3>1. m_fd' \in Fds /\ nTmpFd' \in [Threads -> Fds \cup {NoFd}] /\ pc' \in [Threads -> Pcs]
      BY <1>1, <1>5, <2>2 DEF TypeOK, Pcs
    <3>. QED  BY <1>1, <1>3, <1>5, <2>5, <2>6, <2>7, <3>1 DEF TypeOK
  <2>9. RotationExclusive'
    BY <1>1, <1>2, <1>3, <2>1 DEF RotationExclusive
  <2>10. PcInv' /\ VacantInv'
    <3>1. \A u \in Threads :
            pc'[u] \notin {"need", "unlinkLast", "shift", "shift0", "date", "open"}
      BY <1>2, <2>1
    <3>. QED  BY <3>1 DEF PcInv, VacantInv
  <2>11. NameInv'
    <3>1. NameInv /\ created \in Int /\ f \in Int /\ created' \in Int
      BY <2>3, <2>5 DEF IInv
    <3>2. CASE name[d][0] = f
      <4>1. \A e \in Days, s \in Slots : name'[e][s] = name[e][s]
        BY <2>6, <3>2
      <4>2. created' = created
        BY <1>5, <2>4, <3>1, <3>2
      <4>. QED  BY <3>1, <4>1, <4>2 DEF NameInv
    <3>3. CASE name[d][0] # f
      <4>1. /\ f = created + 1 /\ created' = created + 1 /\ name[d][0] = NoFile
        BY <2>5, <3>3
      <4>2. \A e \in Days, s \in Slots : name[e][s] < f /\ name[e][s] \in Int
        <5>1. SUFFICES ASSUME NEW e \in Days, NEW s \in Slots
                       PROVE  name[e][s] < f /\ name[e][s] \in Int
          OBVIOUS
        <5>2. name[e] \in [Slots -> Files \cup {NoFile}] /\ name[e][s] <= created
          BY <2>3, <3>1 DEF NameInv
        <5>3. name[e][s] \in Files \cup {NoFile}
          BY <5>1, <5>2
        <5>. QED  BY <3>1, <4>1, <5>2, <5>3
      <4>3. \A e \in Days, s \in Slots : name'[e][s] <= created'
        BY <2>6, <3>1, <4>1, <4>2
      <4>4. \A e, g \in Days : \A s, u \in Slots :
              name'[e][s] # NoFile /\ name'[e][s] = name'[g][u] => e = g /\ s = u
        BY <2>6, <3>1, <4>2 DEF NameInv
      <4>5. \A e \in Days : \A s, u \in Slots :
              s < u /\ name'[e][s] # NoFile /\ name'[e][u] # NoFile => name'[e][s] > name'[e][u]
        BY <2>6, <3>1, <4>2 DEF NameInv
      <4>. QED  BY <4>3, <4>4, <4>5 DEF NameInv
    <3>. QED  BY <3>2, <3>3
  <2>12. CountInv'
    <3>1. \A u \in Threads : pc[u] \notin Shifting /\ pc'[u] \notin Shifting
      BY <1>1, <1>2, <2>1
    <3>2. \A e \in Days, s \in Slots \ {0} : name'[e][s] = name[e][s]
      BY <2>6
    <3>. QED  BY <1>3, <1>5, <3>1, <3>2 DEF IInv, CountInv, CountAt, Taken
  <2>13. DescInv'
    <3>1. SUFFICES ASSUME ~faulty'
                   PROVE  /\ m_fd' \in OpenFds'
                          /\ nTmpFd'[t] # m_fd' /\ OpenFds' = {m_fd', nTmpFd'[t]}
                          /\ fdFile'[m_fd'] = name'[m_strDate'][0]
      BY <1>2, <2>1 DEF DescInv
    <3>2. OpenFds = {m_fd} /\ m_fd \in OpenFds
      <4>1. \A u \in Threads : pc[u] # "closeOld"
        BY <1>1, <1>2
      <4>. QED  BY <1>5, <3>1, <4>1 DEF IInv, DescInv
    <3>3. nTmpFd'[t] = m_fd /\ m_fd' = new /\ m_fd # new
      BY <1>1, <1>5, <2>2, <3>2 DEF TypeOK, OpenFds
    <3>4. OpenFds' = OpenFds \cup {new}
      BY <2>2, <2>5, <2>7 DEF OpenFds
    <3>5. fdFile'[new] = name'[d][0]
      BY <1>1, <2>2, <2>3, <2>6, <2>7
    <3>. QED  BY <1>3, <3>2, <3>3, <3>4, <3>5
  <2>. QED  BY <2>8, <2>9, <2>10, <2>11, <2>12, <2>13 DEF IInv
<1>. QED  BY <1>4, <1>5 DEF Open

\* The old descriptor is closed.
LEMMA CloseOldStep ==
  ASSUME IInv, NEW t \in Threads, CloseOld(t)
  PROVE  IInv'
<1>1. TypeOK /\ RotationExclusive /\ pc[t] = "closeOld"
  BY DEF IInv, CloseOld
<1>2. m_pLock = t /\ \A u \in Threads : u # t => pc[u] \notin Locked
  BY Alone, <1>1
<1>3. UNCHANGED <<day, name, created, size, log, i, fd, history, faulty>>
  BY DEF CloseOld
<1>4. pc'[t] = "unlock" /\ \A u \in Threads : u # t => pc'[u] = pc[u]
  BY <1>1 DEF TypeOK, CloseOld
<1>5. fdFile' \in [Fds -> Files \cup {NoFile}]
  BY <1>1 DEF TypeOK, CloseOld
<1>6. TypeOK'
  BY <1>1, <1>3, <1>5 DEF CloseOld, TypeOK, Pcs, Outcomes
<1>7. RotationExclusive' /\ PcInv' /\ VacantInv'
  BY <1>1, <1>2, <1>3, <1>4 DEF RotationExclusive, PcInv, VacantInv
<1>8. NameInv' /\ CountInv'
  <2>1. \A u \in Threads : pc[u] \notin Shifting /\ pc'[u] \notin Shifting
    BY <1>1, <1>2, <1>4
  <2>. QED  BY <1>3, <2>1 DEF IInv, NameInv, CountInv, CountAt, Taken
<1>9. DescInv'
  <2>1. SUFFICES ASSUME ~faulty'
                 PROVE  /\ m_fd' \in OpenFds' /\ OpenFds' = {m_fd'}
                        /\ fdFile'[m_fd'] = name'[m_strDate'][0]
    BY <1>2, <1>4 DEF DescInv
  <2>2. /\ m_fd \in OpenFds /\ nTmpFd[t] # m_fd /\ OpenFds = {m_fd, nTmpFd[t]}
        /\ fdFile[m_fd] = name[m_strDate][0]
    <3>1. \A u \in Threads : pc[u] \notin {"date", "open"}
      BY <1>1, <1>2
    <3>. QED  BY <1>1, <1>3, <2>1, <3>1 DEF IInv, DescInv
  <2>3. \A x \in Fds : fdFile'[x] = IF x = nTmpFd[t] THEN NoFile ELSE fdFile[x]
    BY DEF CloseOld
  <2>4. m_fd \in Fds /\ fdFile'[m_fd] = fdFile[m_fd]
    BY <2>2, <2>3 DEF OpenFds
  <2>5. OpenFds' = OpenFds \ {nTmpFd[t]}
    BY <2>3 DEF OpenFds
  <2>. QED  BY <1>3, <2>2, <2>4, <2>5
<1>. QED  BY <1>6, <1>7, <1>8, <1>9 DEF IInv

\* The date changes.
LEMMA NextDayStep ==
  ASSUME IInv, NextDay
  PROVE  IInv'
<1>1. TypeOK'
  <2>1. day' \in Days
    BY LogAssumption DEF LogAssumption, IInv, NextDay, TypeOK
  <2>. QED  BY <2>1 DEF IInv, NextDay, TypeOK
<1>2. RotationExclusive' /\ PcInv' /\ VacantInv'
  BY DEF IInv, NextDay, RotationExclusive, PcInv, VacantInv
<1>3. NameInv' /\ CountInv' /\ DescInv'
  BY Untouched DEF NextDay
<1>. QED  BY <1>1, <1>2, <1>3 DEF IInv

\* Every step keeps the invariant.
LEMMA Inductive == IInv /\ [Next]_vars => IInv'
<1>. SUFFICES ASSUME IInv, [Next]_vars PROVE IInv'
  OBVIOUS
<1>1. CASE NextDay
  BY <1>1, NextDayStep
<1>2. ASSUME NEW t \in Threads, Call(t) \/ LogR(t)
      PROVE  IInv'
  BY <1>2, CallStep, LockStep, CheckAgainStep, NeedChangeLogStep, UnLockStep, ReadFdStep,
     WriteStep, UnlinkLastStep, ShiftStep, Shift0Step, SetDateStep, OpenStep, CloseOldStep
     DEF LogR
<1>3. CASE UNCHANGED vars
  <2>1. TypeOK'
    BY <1>3 DEF IInv, TypeOK
  <2>2. RotationExclusive' /\ PcInv' /\ VacantInv'
    BY <1>3 DEF IInv, RotationExclusive, PcInv, VacantInv
  <2>3. NameInv' /\ CountInv' /\ DescInv'
    BY <1>3, Untouched
  <2>. QED  BY <2>1, <2>2, <2>3 DEF IInv
<1>. QED  BY <1>1, <1>2, <1>3 DEF Next

\* The strengthened invariant holds of every behaviour.
THEOREM Invariance == Spec => []IInv
BY InitInv, Inductive, PTL DEF Spec

\* The members, the locals and the kernel's tables keep their types; in
\* particular every slot number and every descriptor is in range.
THEOREM LogTypeOK == Spec => []TypeOK
BY Invariance, PTL DEF IInv

\* One thread at a time rotates, whatever fails, and m_pLock is held exactly
\* in the locked part (myLog.cpp:204-226).
THEOREM OneRotates == Spec => []RotationExclusive
BY Invariance, PTL DEF IInv

\* Renaming from the oldest down destroys the oldest file of the day and no
\* other (myLog.cpp:278-305), failures and concurrent writers included.
THEOREM DestroysTheOldest == Spec => OnlyOldestGoes
<1>1. ASSUME IInv, [Next]_vars, NEW f \in deleted' \ deleted, NEW d \in Days,
             f \in Named(d), NEW g \in Named(d)
      PROVE  f <= g
  <2>0. MaxCount - 1 \in Slots
    BY LogAssumption DEF LogAssumption
  <2>1. /\ TypeOK /\ NameInv /\ m_strDate \in Days /\ d \in Days
        /\ MaxCount - 1 \in Slots
    BY <1>1, <2>0 DEF IInv, TypeOK
  <2>2. PICK s \in Slots, u \in Slots : f = name[d][s] /\ g = name[d][u]
                                         /\ f # NoFile /\ g # NoFile
    BY <1>1 DEF Named
  <2>3. f \in Int /\ g \in Int
    <3>1. name[d] \in [Slots -> Files \cup {NoFile}]
      BY <2>1 DEF TypeOK
    <3>2. name[d][s] \in Files \cup {NoFile} /\ name[d][u] \in Files \cup {NoFile}
      BY <2>2, <3>1
    <3>. QED  BY <2>2, <3>2
  <2>4. ASSUME NEW t \in Threads, UnlinkLast(t)
        PROVE  f <= g
    <3>1. f = name[m_strDate][MaxCount - 1]
      BY <1>1, <2>4 DEF UnlinkLast
    <3>2. d = m_strDate /\ s = MaxCount - 1
      <4>1. name[d][s] # NoFile /\ name[d][s] = name[m_strDate][MaxCount - 1]
        BY <2>2, <3>1
      <4>. QED  BY <2>1, <4>1 DEF NameInv
    <3>3. u = s \/ u < s
      BY <2>2, <3>2, LogAssumption DEF LogAssumption
    <3>. QED  BY <2>1, <2>2, <2>3, <3>3 DEF NameInv
  <2>5. ASSUME NEW t \in Threads, Shift(t)
        PROVE  f <= g
    <3>1. /\ Rename(m_strDate, i[t], i[t] + 1) /\ pc[t] = "shift"
          /\ i[t] \in 1 .. MaxCount - 2
      BY <1>1, <2>5 DEF Shift, IInv, PcInv
    <3>2. f = name[m_strDate][i[t] + 1] /\ i[t] + 1 \in Slots
      BY <1>1, <3>1, LogAssumption DEF LogAssumption, Rename
    <3>3. i[t] = MaxCount - 2
      BY <1>1, <2>2, <3>1, <3>2, LogAssumption DEF LogAssumption, IInv, VacantInv
    <3>4. d = m_strDate /\ s = MaxCount - 1
      <4>1. i[t] + 1 = MaxCount - 1
        BY <3>3, LogAssumption DEF LogAssumption
      <4>2. name[d][s] # NoFile /\ name[d][s] = name[m_strDate][MaxCount - 1]
        BY <2>2, <3>2, <4>1
      <4>. QED  BY <2>1, <4>2 DEF NameInv
    <3>5. u = s \/ u < s
      BY <2>2, <3>4, LogAssumption DEF LogAssumption
    <3>. QED  BY <2>1, <2>2, <2>3, <3>5 DEF NameInv
  <2>6. ASSUME NEW t \in Threads, Shift0(t)
        PROVE  f <= g
    <3>1. Rename(m_strDate, 0, 1) /\ pc[t] = "shift0" /\ i[t] = 0
      BY <1>1, <2>6 DEF Shift0, IInv, PcInv
    <3>2. f = name[m_strDate][1] /\ 1 \in Slots /\ f # NoFile
      BY <1>1, <2>2, <3>1, LogAssumption DEF LogAssumption, Rename
    <3>3. MaxCount = 2
      BY <1>1, <3>1, <3>2, LogAssumption DEF LogAssumption, IInv, VacantInv
    <3>4. d = m_strDate /\ s = 1
      <4>1. name[d][s] # NoFile /\ name[d][s] = name[m_strDate][1]
        BY <2>2, <3>2
      <4>. QED  BY <2>1, <3>2, <4>1 DEF NameInv
    <3>5. u = s \/ u < s
      BY <2>2, <3>3, <3>4
    <3>. QED  BY <2>1, <2>2, <2>3, <3>5 DEF NameInv
  <2>7. ASSUME NEW t \in Threads,
               \/ Call(t) \/ Lock(t) \/ CheckAgain(t) \/ NeedChangeLog(t) \/ UnLock(t)
               \/ ReadFd(t) \/ Write(t) \/ SetDate(t) \/ Open(t) \/ CloseOld(t)
        PROVE  f <= g
    BY <1>1, <2>7 DEF Call, Lock, CheckAgain, NeedChangeLog, UnLock, ReadFd, Write,
         SetDate, Open, CloseOld
  <2>8. CASE NextDay \/ UNCHANGED vars
    BY <1>1, <2>8 DEF NextDay
  <2>. QED  BY <1>1, <2>4, <2>5, <2>6, <2>7, <2>8 DEF Next, LogR
<1>2. IInv /\ [Next]_vars =>
        [\A f \in deleted' \ deleted : \A d \in Days :
           f \in Named(d) => \A g \in Named(d) : f <= g]_vars
  BY <1>1
<1>. QED  BY Invariance, <1>2, PTL DEF Spec, OnlyOldestGoes

\* While nothing fails, between two rotations the old files of a day are in
\* the first slots and as many as there were rotations, MaxCount - 1 at most
\* (myLog.cpp:278-318): none goes that there was room for.
THEOREM NoneTooMany == Spec => []KeepsLatest
<1>1. ASSUME IInv, m_pLock = NoThread, ~faulty, NEW d \in Days
      PROVE  Cardinality({s \in Slots \ {0} : name[d][s] # NoFile}) =
               (IF rotated[d] < MaxCount THEN rotated[d] ELSE MaxCount - 1)
  <2>. DEFINE n == IF rotated[d] < MaxCount THEN rotated[d] ELSE MaxCount - 1
  <2>1. rotated[d] \in Nat /\ n \in Nat /\ n < MaxCount /\ MaxCount \in Nat
    BY <1>1, LogAssumption DEF LogAssumption, IInv, TypeOK
  <2>2. \A t \in Threads : pc[t] \notin Shifting
    BY <1>1, LogAssumption DEF LogAssumption, IInv, RotationExclusive
  <2>3. \A s \in Slots \ {0} : name[d][s] # NoFile <=> s <= rotated[d]
    BY <1>1, <2>2 DEF IInv, CountInv, CountAt, Taken
  <2>4. {s \in Slots \ {0} : name[d][s] # NoFile} = 1 .. n
    BY <2>1, <2>3
  <2>5. Cardinality(1 .. n) = n
    <3>1. PICK k \in Nat : k = n
      BY <2>1
    <3>2. Cardinality(1 .. k) = IF 1 > k THEN 0 ELSE k - 1 + 1
      BY FS_Interval
    <3>. QED  BY <3>1, <3>2
  <2>. QED  BY <2>4, <2>5
<1>2. IInv => KeepsLatest
  BY <1>1 DEF KeepsLatest
<1>. QED  BY Invariance, <1>2, PTL

\* While nothing fails, between two rotations m_fd is the only descriptor and
\* is open on the file that the next rotation will move aside
\* (myLog.cpp:308-336): no message goes to a file that is not rotated.
THEOREM DescriptorIsCurrent == Spec => []FdIsCurrent
<1>1. IInv => FdIsCurrent
  <2>. SUFFICES ASSUME IInv, m_pLock = NoThread, ~faulty
                PROVE  OpenFds = {m_fd} /\ fdFile[m_fd] = name[m_strDate][0]
    BY DEF FdIsCurrent
  <2>1. \A t \in Threads : pc[t] \notin Locked
    BY LogAssumption DEF LogAssumption, IInv, RotationExclusive
  <2>. QED  BY <2>1 DEF IInv, DescInv
<1>. QED  BY Invariance, <1>1, PTL

=============================================================================
