-------------------------------- MODULE Log --------------------------------
(***************************************************************************)
(* TLog (myLog.cpp, the Linux build): threads of one process share a log   *)
(* of one file per day, rotated when it is full.  m_pLock covers the       *)
(* rotation; the write reads m_fd outside it.  The kernel's part is a      *)
(* table of descriptors and the names in the log directory.                *)
(* Time is abstract: m_curTV and m_tv are written without a lock by every  *)
(* thread, so CheckChangeInter may come out either way, each time.         *)
(***************************************************************************)
EXTENDS Integers, FiniteSets

CONSTANTS Threads,
          MaxDay,      \* days the clock goes through
          MaxCount,    \* LOG_MAX_COUNT: the current file and MaxCount - 1 old ones
          MaxSize,     \* LOG_DEF_MAX_SIZE, in messages; sizes are counted up to it
          MaxFiles,    \* bound on the files ever created
          MaxFd,       \* descriptors are 0 .. MaxFd
          NoThread

ASSUME LogAssumption ==
  /\ MaxDay \in Nat \ {0} /\ MaxCount \in Nat \ {0, 1} /\ MaxSize \in Nat \ {0}
  /\ MaxFiles \in Nat \ {0} /\ MaxFd \in Nat \ {0}
  /\ NoThread \notin Threads

Days  == 1 .. MaxDay
Slots == 0 .. MaxCount - 1  \* 0: ".log", i: ".log.i"
Files == 1 .. MaxFiles      \* in the order of their creation
NoFile == 0
Fds   == 0 .. MaxFd
NoFd  == -1

VARIABLES
  day,        \* the date, as GetDate reads it
  name,       \* name[d][i]: the file of day d in slot i
  created,    \* how many files have been created
  size,       \* size of each file
  fdFile,     \* the file each descriptor is open on
  \* members of TLog
  m_fd, m_strDate, m_pLock,
  \* locals of LogR and the functions it calls
  pc, nRs, i, fd, nTmpFd,
  \* history
  deleted,    \* the files whose last name is gone
  rotated,    \* rotations for size that got past the renaming, by day
  faulty      \* whether mkdir, open, rename or unlink has ever failed

kernel == <<name, created, size, fdFile>>
log    == <<m_fd, m_strDate, m_pLock>>
locals == <<pc, nRs, i, fd, nTmpFd>>
history == <<deleted, rotated>>
vars   == <<day, kernel, log, locals, history, faulty>>

Pcs == {"out", "lock", "check", "need", "unlinkLast", "shift", "shift0", "date", "open",
        "closeOld", "unlock", "readFd", "write"}

\* What the locked part has come to; b of LogR.
Outcomes == {"ok", "fail"}

TypeOK ==
  /\ day \in Days
  /\ name \in [Days -> [Slots -> Files \cup {NoFile}]]
  /\ created \in Files
  /\ size \in [Files -> 0 .. MaxSize]
  /\ fdFile \in [Fds -> Files \cup {NoFile}]
  /\ m_fd \in Fds \cup {NoFd} /\ m_strDate \in Days /\ m_pLock \in Threads \cup {NoThread}
  /\ pc \in [Threads -> Pcs] /\ nRs \in [Threads -> Outcomes]
  /\ i \in [Threads -> Slots] /\ fd \in [Threads -> Fds \cup {NoFd}]
  /\ nTmpFd \in [Threads -> Fds \cup {NoFd}]
  /\ deleted \subseteq Files /\ rotated \in [Days -> Nat] /\ faulty \in BOOLEAN

Put(d, s, f) == [name EXCEPT ![d][s] = f]

\* The state a successful Init leaves: today's file exists and is open.
Init ==
  /\ day = 1 /\ m_strDate = 1 /\ created = 1
  /\ name = [d \in Days |-> [s \in Slots |-> IF d = 1 /\ s = 0 THEN 1 ELSE NoFile]]
  /\ size = [f \in Files |-> 0]
  /\ fdFile = [x \in Fds |-> IF x = 0 THEN 1 ELSE NoFile]
  /\ m_fd = 0 /\ m_pLock = NoThread
  /\ pc = [t \in Threads |-> "out"] /\ nRs = [t \in Threads |-> "ok"]
  /\ i = [t \in Threads |-> 0]
  /\ fd = [t \in Threads |-> NoFd] /\ nTmpFd = [t \in Threads |-> NoFd]
  /\ deleted = {} /\ rotated = [d \in Days |-> 0] /\ faulty = FALSE

Goto(t, from, to) == pc[t] = from /\ pc' = [pc EXCEPT ![t] = to]

\* A call fails: `goto unlock_out' with b false.
Fail(t, from) ==
  /\ Goto(t, from, "unlock")
  /\ nRs' = [nRs EXCEPT ![t] = "fail"]
  /\ faulty' = TRUE

OpenFds == {x \in Fds : fdFile[x] # NoFile}

----------------------------------------------------------------------------
\* LogR

Call(t) ==
  /\ \/ Goto(t, "out", "lock")
     \/ Goto(t, "out", "readFd")
  /\ UNCHANGED <<day, kernel, log, nRs, i, fd, nTmpFd, history, faulty>>

Lock(t) ==
  /\ Goto(t, "lock", "check")
  /\ m_pLock = NoThread /\ m_pLock' = t
  /\ UNCHANGED <<day, kernel, m_fd, m_strDate, nRs, i, fd, nTmpFd, history, faulty>>

\* Another thread may have rotated since: look at the time again.  Once the
\* last of the MaxFiles files exists, the interval never seems over.
CheckAgain(t) ==
  /\ \/ Goto(t, "check", "need") /\ created < MaxFiles /\ UNCHANGED nRs
     \/ Goto(t, "check", "unlock") /\ nRs' = [nRs EXCEPT ![t] = "ok"]
  /\ UNCHANGED <<day, kernel, log, i, fd, nTmpFd, history, faulty>>

\* GetFileSize(m_fd), -1 if there is no such descriptor.
FdSize == IF m_fd \in OpenFds THEN size[fdFile[m_fd]] ELSE -1

NeedChangeLog(t) ==
  /\ \/ Goto(t, "need", "unlinkLast") /\ FdSize >= MaxSize /\ UNCHANGED nRs
     \/ Goto(t, "need", "date") /\ FdSize < MaxSize /\ m_strDate # day /\ UNCHANGED nRs
     \/ /\ Goto(t, "need", "unlock") /\ FdSize < MaxSize /\ m_strDate = day
        /\ nRs' = [nRs EXCEPT ![t] = "ok"]
  /\ UNCHANGED <<day, kernel, log, i, fd, nTmpFd, history, faulty>>

UnlockNot(t) ==
  /\ pc[t] = "unlock"
  /\ pc' = [pc EXCEPT ![t] = IF nRs[t] = "ok" THEN "readFd" ELSE "out"]
  /\ nRs' = [nRs EXCEPT ![t] = "ok"]
  /\ m_pLock' = IF nRs[t] = "ok" THEN NoThread ELSE m_pLock
  /\ UNCHANGED <<day, kernel, m_fd, m_strDate, i, fd, nTmpFd, history, faulty>>

UnLock(t) ==
  /\ pc[t] = "unlock"
  /\ pc' = [pc EXCEPT ![t] = IF nRs[t] = "ok" THEN "readFd" ELSE "out"]
  /\ nRs' = [nRs EXCEPT ![t] = "ok"]
  /\ m_pLock' = NoThread
  /\ UNCHANGED <<day, kernel, m_fd, m_strDate, i, fd, nTmpFd, history, faulty>>

\* The argument m_fd of write is read ...
ReadFd(t) ==
  /\ Goto(t, "readFd", "write")
  /\ fd' = [fd EXCEPT ![t] = m_fd]
  /\ UNCHANGED <<day, kernel, log, nRs, i, nTmpFd, history, faulty>>

WriteOk(t) == fd[t] \in OpenFds

\* ... before the system call, which fails when that descriptor is closed.
Write(t) ==
  /\ Goto(t, "write", "out")
  /\ \/ /\ WriteOk(t)
        /\ size' = [size EXCEPT ![fdFile[fd[t]]] = IF @ < MaxSize THEN @ + 1 ELSE @]
     \/ ~WriteOk(t) /\ UNCHANGED size
  /\ fd' = [fd EXCEPT ![t] = NoFd]
  /\ UNCHANGED <<day, name, created, fdFile, log, nRs, i, nTmpFd, history, faulty>>

----------------------------------------------------------------------------
\* RenameHistoryLog

\* unlink of the oldest; its result is not looked at.
UnlinkLast(t) ==
  LET last == name[m_strDate][MaxCount - 1] IN
  /\ Goto(t, "unlinkLast", IF MaxCount = 2 THEN "shift0" ELSE "shift")
  /\ i' = [i EXCEPT ![t] = MaxCount - 2]
  /\ \/ /\ name' = Put(m_strDate, MaxCount - 1, NoFile)
        /\ deleted' = deleted \cup ({last} \ {NoFile})
        /\ UNCHANGED faulty
     \/ faulty' = TRUE /\ UNCHANGED <<name, deleted>>
  /\ UNCHANGED <<day, created, size, fdFile, log, nRs, fd, nTmpFd, rotated>>

\* rename(2): the file that had the new name loses it.
Rename(d, from, to) ==
  /\ name' = [name EXCEPT ![d][to] = name[d][from], ![d][from] = NoFile]
  /\ deleted' = deleted \cup ({name[d][to]} \ {NoFile})

\* Bottom up, every file would land on the next.
ShiftUp(t) ==
  LET k == MaxCount - 1 - i[t] IN
  /\ Goto(t, "shift", IF i[t] = 1 THEN "shift0" ELSE "shift")
  /\ i' = [i EXCEPT ![t] = @ - 1]
  /\ \/ name[m_strDate][k] # NoFile /\ Rename(m_strDate, k, k + 1)
     \/ name[m_strDate][k] = NoFile /\ UNCHANGED <<name, deleted>>
  /\ UNCHANGED <<day, created, size, fdFile, log, nRs, fd, nTmpFd, rotated, faulty>>

\* `i >= 0' for the loop's `i > 0'.
ShiftToZero(t) ==
  /\ Goto(t, "shift", IF i[t] = 0 THEN "shift0" ELSE "shift")
  /\ i' = [i EXCEPT ![t] = @ - 1]
  /\ \/ name[m_strDate][i[t]] # NoFile /\ Rename(m_strDate, i[t], i[t] + 1)
     \/ name[m_strDate][i[t]] = NoFile /\ UNCHANGED <<name, deleted>>
  /\ UNCHANGED <<day, created, size, fdFile, log, nRs, fd, nTmpFd, rotated, faulty>>

\* The failure of rename ignored, as the comment at 298 advises.
ShiftIgnoringFailure(t) ==
  /\ Goto(t, "shift", IF i[t] = 1 THEN "shift0" ELSE "shift")
  /\ i' = [i EXCEPT ![t] = @ - 1]
  /\ \/ name[m_strDate][i[t]] # NoFile /\ Rename(m_strDate, i[t], i[t] + 1)
     \/ name[m_strDate][i[t]] = NoFile /\ UNCHANGED <<name, deleted>>
     \/ UNCHANGED <<name, deleted>>
  /\ UNCHANGED <<day, created, size, fdFile, log, nRs, fd, nTmpFd, rotated, faulty>>

\* One turn of the loop: slot i moves to i + 1.
Shift(t) ==
  /\ \/ /\ Goto(t, "shift", IF i[t] = 1 THEN "shift0" ELSE "shift")
        /\ i' = [i EXCEPT ![t] = @ - 1]
        /\ \/ name[m_strDate][i[t]] # NoFile /\ Rename(m_strDate, i[t], i[t] + 1)
           \/ name[m_strDate][i[t]] = NoFile /\ UNCHANGED <<name, deleted>>
        /\ UNCHANGED <<nRs, faulty>>
     \/ /\ Fail(t, "shift")
        /\ i' = [i EXCEPT ![t] = 0]
        /\ UNCHANGED <<name, deleted>>
  /\ UNCHANGED <<day, created, size, fdFile, log, fd, nTmpFd, rotated>>

\* The current file becomes the first old one; it fails when there is none.
Shift0(t) ==
  /\ \/ /\ Goto(t, "shift0", "date") /\ UNCHANGED <<nRs, faulty>>
        /\ name[m_strDate][0] # NoFile
        /\ Rename(m_strDate, 0, 1)
        /\ rotated' = [rotated EXCEPT ![m_strDate] = @ + 1]
     \/ /\ Fail(t, "shift0")
        /\ UNCHANGED <<name, history>>
  /\ UNCHANGED <<day, created, size, fdFile, log, i, fd, nTmpFd>>

----------------------------------------------------------------------------
\* CreateLog

\* The date is taken before DirExist and MkDir, which may fail.
SetDate(t) ==
  /\ m_strDate' = day
  /\ \/ Goto(t, "date", "open") /\ UNCHANGED <<nRs, faulty>>
     \/ Fail(t, "date")
  /\ UNCHANGED <<day, kernel, m_fd, m_pLock, i, fd, nTmpFd, history>>

Lowest(S) == CHOOSE x \in S : \A y \in S : x <= y

\* open creates the file if it has to and returns the lowest free number.
\* When it fails, m_fd is -1 and nTmpFd is lost with the call.
Open(t) ==
  /\ \/ /\ Goto(t, "open", "closeOld") /\ UNCHANGED <<nRs, faulty>>
        /\ OpenFds # Fds
        /\ LET f   == IF name[m_strDate][0] # NoFile THEN name[m_strDate][0] ELSE created + 1
               new == Lowest(Fds \ OpenFds)
           IN /\ name' = Put(m_strDate, 0, f)
              /\ created' = IF f > created THEN f ELSE created
              /\ fdFile' = [fdFile EXCEPT ![new] = f]
              /\ m_fd' = new
        /\ nTmpFd' = [nTmpFd EXCEPT ![t] = m_fd]
     \/ /\ Fail(t, "open")
        /\ m_fd' = NoFd
        /\ UNCHANGED <<name, created, fdFile, nTmpFd>>
  /\ UNCHANGED <<day, size, m_strDate, m_pLock, i, fd, history>>

CloseNothing(t) ==
  /\ Goto(t, "closeOld", "unlock")
  /\ nRs' = [nRs EXCEPT ![t] = "ok"]
  /\ nTmpFd' = [nTmpFd EXCEPT ![t] = NoFd]
  /\ UNCHANGED <<day, kernel, log, i, fd, history, faulty>>

\* close(m_fd), the new descriptor, for close(nTmpFd).
CloseNew(t) ==
  /\ Goto(t, "closeOld", "unlock")
  /\ nRs' = [nRs EXCEPT ![t] = "ok"]
  /\ fdFile' = [fdFile EXCEPT ![m_fd] = NoFile]
  /\ nTmpFd' = [nTmpFd EXCEPT ![t] = NoFd]
  /\ UNCHANGED <<day, name, created, size, log, i, fd, history, faulty>>

CloseOld(t) ==
  /\ Goto(t, "closeOld", "unlock")
  /\ nRs' = [nRs EXCEPT ![t] = "ok"]
  /\ fdFile' = [x \in Fds |-> IF x = nTmpFd[t] THEN NoFile ELSE fdFile[x]]
  /\ nTmpFd' = [nTmpFd EXCEPT ![t] = NoFd]
  /\ UNCHANGED <<day, name, created, size, log, i, fd, history, faulty>>

----------------------------------------------------------------------------
NextDay ==
  /\ day < MaxDay
  /\ day' = day + 1
  /\ UNCHANGED <<kernel, log, locals, history, faulty>>

LogR(t) ==
  \/ Lock(t) \/ CheckAgain(t) \/ NeedChangeLog(t) \/ UnLock(t) \/ ReadFd(t) \/ Write(t)
  \/ UnlinkLast(t) \/ Shift(t) \/ Shift0(t) \/ SetDate(t) \/ Open(t) \/ CloseOld(t)

Next == NextDay \/ \E t \in Threads : Call(t) \/ LogR(t)

Spec == Init /\ [][Next]_vars

\* A thread inside LogR keeps running; pthread_mutex_lock is given to one of
\* those who wait for it, so a waiter needs strong fairness to be served.
FairSpec == Spec /\ \A t \in Threads : WF_vars(LogR(t)) /\ SF_vars(Lock(t))

----------------------------------------------------------------------------
\* Properties

Locked == {"check", "need", "unlinkLast", "shift", "shift0", "date", "open", "closeOld",
           "unlock"}

\* Rotation has one thread at a time, and every way out of it, the failures
\* included, gives m_pLock back.
RotationExclusive == \A t \in Threads : pc[t] \in Locked <=> m_pLock = t

Named(d) == {name[d][s] : s \in Slots} \ {NoFile}

\* Only the oldest file of the day ever goes; no rename lands on another.
OnlyOldestGoes ==
  [][\A f \in deleted' \ deleted : \A d \in Days :
       f \in Named(d) => \A g \in Named(d) : f <= g]_vars

\* While no system call of a rotation fails, rotation throws a file away only
\* when it needs the room: after n rotations of a day all n files moved aside
\* are there, up to MaxCount - 1.
KeepsLatest ==
  m_pLock = NoThread /\ ~faulty => \A d \in Days :
    Cardinality({s \in Slots \ {0} : name[d][s] # NoFile}) =
      (IF rotated[d] < MaxCount THEN rotated[d] ELSE MaxCount - 1)

\* While no system call of a rotation fails, the only descriptor open between
\* rotations is m_fd, on the file named ".log" of m_strDate, so that the next
\* rotation moves the file that is written to, and none leaks.
FdIsCurrent ==
  m_pLock = NoThread /\ ~faulty =>
    OpenFds = {m_fd} /\ fdFile[m_fd] = name[m_strDate][0]

\* Every call of Log returns, also when rotation fails over and over.
LogReturns == \A t \in Threads : pc[t] # "out" ~> pc[t] = "out"

=============================================================================
