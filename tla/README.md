# Verification of haobiCode

haobiCode is a C++ library of independent helpers for Linux programs: locks between
threads and processes, a worker thread, a rotating log, shared memory, mapped files, file
operations, and small parsers. There is no main program and no test. This directory holds
TLA+ models of the parts that keep state or have loops that matter, the TLC runs that check them on
small instances, and TLAPS proofs that what the runs show of safety holds for every instance. Paths and line numbers are
those of `haobiCode/src` and `haobiCode/inc` (files are GB18030 with CRLF ends). The
makefile builds with `g++ -c -g`, without optimisation, and only the Linux branches.

## The system's parts

| Part | State it keeps | Operations | What is hard | What makes it correct |
|---|---|---|---|---|
| TWRLock (myLock.cpp) | one System V set of two semaphores, shared by processes; `m_semid`, `m_key` per object | Init, Destroy, LockR/W, UnLockR/W, SemOtime | processes interleave between any two semops, die holding the lock, destroy and re-create it | exclusion, write preference, no leak after a crash, no use before initialisation |
| TThreadTask, TThread (myThread.cpp) | `m_nTicket`, `m_nStatus`, `m_bEnd`, `m_pTask`, `m_notify`, `m_pArg`, a mutex and a condition variable; per task `m_bEnd`, `m_nResult` | Init, Run, StartTask, TerminalTask, TerminalThread, WaitThreadEnd | controller and worker share the members without the mutex; signals can be lost; wakeups can be spurious; cancellation | each started task run once, waits that mean what they say, calls that return |
| TLog (myLog.cpp) | `m_fd`, `m_strDate`, `m_tv`, `m_curTV`, a TThreadLock; the files of the log directory | Init, Log/LogR, NeedChangeLog, RenameHistoryLog, CreateLog, Close | writes outside the lock while another thread rotates; every system call of a rotation may fail | nothing but the surplus old file is lost, one descriptor open, the lock always released |
| TThreadLock (myLock.cpp) | a pthread mutex | Init, Destroy, Lock, UnLock | - | it is the mutex |
| TSem (mysem.cpp) | a System V set, one shared `sembuf` | sem_create, sem_get, sem_lock, sem_try_lock, sem_unlock, sem_delete | as TWRLock; sem_unlock takes | no use before initialisation, conservation of the resources |
| TMemReg (myMemReg.cpp) | a map of allocations under a TThreadLock | Add, Del, ShowMemInfo | early returns under the lock; lazy creation of the lock | the register is exact, every call gives the lock back |
| TShm (myshm.cpp) | segment id, key, address | ShmInit, ShmConnect, ShmReconnect, ShmDisconnect, ShmDelete, ShmExtend | delete and re-create under one key, processes that exit | an object is attached to what it says; an extension keeps the contents |
| TMapFile (mapfile.cpp) | descriptor, address, size | Open, Close, Flush, Extend | failures between unmap and map | an object has exactly the memory and the descriptor it says |
| File operations (myfdcntl.cpp) | the file system | CpFile, MovFile, MkDir, DelDir, WriteFile, CheckOneInstance, file_lock, pipes | check-then-act against other processes, failing calls, crashes | the contents survive under some name; true means copied |
| Crc32 dump (myCrc32.cpp) | a file with a checksum at its end | DumpFileWithCrc32, CheckFileWithCrc32 | two separate writes, a check in between | a torn file is noticed |
| BinarySearch, TSplit, TFileSearchRule, MyEtc, mystr | buffers | pure algorithms | bounds, growth, loops that must end | functional correctness |
| myTime, myDef | none | conversions | - | left to unit tests |

TLog and TMemReg use a TThreadLock as `m_pLock`; TLog also calls GetFileSize, DirExist,
FileExist and MkDir of the file operations. CpFile across file systems uses TMapFile, and
the Crc32 files use it and WriteFile/AppendFile. Everything else meets in client code.

## Modules

| Module | Models |
|---|---|
| `SysVSem` | semget, semop, semctl and exit of Linux, as the library uses them (external) |
| `WRLock` | TWRLock |
| `RWLock` | the abstract write-preferring lock TWRLock implements |
| `WRLockProofs` | the theorems about WRLock |
| `Thread` | TThread and TThreadTask |
| `TaskRunner` | the abstract runner of one task at a time TThread implements |
| `ThreadProofs` | the theorems about Thread |
| `Log` | TLog with its TThreadLock |
| `LogProofs` | the theorems about Log |
| `Sem` | TSem, on `SysVSem` |
| `SemProofs` | the theorems about Sem |
| `Shm` | TShm |
| `ShmProofs` | the theorems about Shm |
| `MemReg` | TMemReg with its TThreadLock, under the macros of myMemReg.h |
| `MemRegProofs` | the theorems about MemReg |
| `MapFile` | TMapFile |
| `Copy` | CpFile, MovFile and the two ways to copy across file systems |
| `Crc32` | DumpFileWithCrc32, CheckFileWithCrc32, WriteFile, AppendFile |
| `FileProofs` | the theorems about MapFile, Copy and Crc32 |
| `Search`, `Split`, `Replace`, `Etc` | BinarySearch; TSplit; strreplace; MyEtc |
| `TextProofs` | the theorems about Search, Etc, Replace and Split |
| `MCWRLock`, `MCThread`, `MCSem` | symmetry sets and constants for TLC |
| `MCHelpers` | `MapFile`, `Copy`, `Search`, `Split`, `Replace`, `Etc` and `MemReg` in one state space, one of them active in a behaviour |
| `MCShared` | `Shm` and `Crc32`, likewise |

`MCHelpers` and `MCShared` compose modules that do not interact, so that a behaviour is one of the
first, or of the second, and so on: the variable `job` chooses at the start. The variables of these modules have names of
their own for that reason (`mapPc`, `copyPc`, `regPc`, `etcPc`, ...).

### WRLock

A process is the number of a slot; `Exit` frees the slot for the next process. Each semop is
one atomic step, as it is in the kernel. A blocking call waits at a pc of its own (`lockR`,
`lockW0`, `lockW1`), and `EINTR`, which the code answers with `goto redo`, is a stutter.
Init is split where another process can get in: `InitCreate` (semget), `InitOp` (the semop
that gives semaphore 1 its value), or `InitNoCreate`, `Connect`, and one `Poll` per turn of the
loop on `sem_otime`. LockW and UnLockW are two steps each. A semop on a removed set fails
(`SemopFails`) and the method returns. `Exit` may happen anywhere and applies the SEM_UNDO
entries. `SemIds` bounds how often the set is created; an id is never used twice (the kernel
reuses them only after a long sequence wraps). Abstractions: `sem_otime` is a flag; SEMVMX and the
limits on undo entries are not reached (MAX_RESOURCE is 1024); a process uses one TWRLock, takes
one lock at a time, and unlocks only what it locked. In particular LockW while reading,
which waits for itself, is not a behaviour of the model. `Connect` does not repeat after `ENOENT`; neither does the code.

### Thread

The controller is one thread (myThread.h:57 excludes more). Both threads have a pc, and each
access to a member the other thread uses is a step; so `m_pTask`, `m_notify` and `m_pArg` are three
steps of StartTask, and `TerminalTask` tests `m_pTask` in one step and dereferences it in a
later one (an unoptimised build loads it twice; it may be NULL by then, and the program
ends in `crashed`). `m_Mutex` is only ever locked by the worker, so it blocks nobody and is left out; the
condition variable is the worker's pc `wait`: `Signal` moves it on, or is lost. POSIX lets
pthread_cond_wait return without a signal (`SpuriousWakeup`). TaskInit, TaskLoop and the callback
belong to the client and may return anything; TThreadTask::GetEnd is tested between turns.
`pthread_create` may fail, with an errno value. `Cancelled` may happen at each
cancellation point after TerminalThread(true). `taken`, `early`, `outcome` and `waited` are history
variables: `outcome` is what the last TaskLoop of the running task returned, and `IdleMeansDone` says that the client, which reads
`m_nStatus` and then the result, finds it there, for the task it gave and no other. `m_bEnd` of a task is set and never reset
(myThread.cpp:30): a task that was ended and is started again makes no turn of its loop. Abstractions: memory is sequentially consistent; `TicketModulus` stands for
2^32; a callback and its argument are named by the task they were given with; a cancelled worker inside a task keeps its
status (then the polling loops may not end, as myThread.h:69 warns), and the destructor is not modelled.

### Log

The kernel is a table of descriptors, handed out lowest first, and for each day the files in the
slots `.log`, `.log.1`, ... . Each system call of a rotation is a step. The two threads go through
LogR: the first CheckChangeInter outside the lock is the choice in `Call`, then
`Lock`, `CheckAgain`, `NeedChangeLog`, the renaming, CreateLog, `UnLock`; the write reads `m_fd` in one step
(`ReadFd`) and calls write(2) in the next (`Write`). `m_curTV` and `m_tv` are written by all threads without a lock,
so whether the interval is over is a nondeterministic choice each time. Every mkdir,
open, rename and unlink may fail; `faulty` remembers whether one has, for the properties that hold only up to then. Abstractions: a file is the number of its creation, its size is
counted in messages up to the threshold, the day only moves forward. TLog's Init is the
initial state. Close, other processes rotating the same files, and a short write are left out.

### Sem

As in WRLock a semop is one step and a blocked one waits at its pc. `sem_create` is semget, `Fill` the one semop that gives the
set its values; `sem_get` and `Poll` are sem_get with its loop on `sem_otime`; `set_op` is sem_lock, sem_try_lock and
sem_unlock, whose code differs only in the count's name: each subtracts it with `SEM_UNDO` (a count of 0 waits for zero
without), so a program gives a resource back with a negative count, by mistake or by design. Counts -1, 0, 1 and 2 are passed.
`held` is history: what the successful calls of a process have taken. An exit that undoes more giving than the set has left stops
at 0 in the kernel (`clamped`). Abstractions: one object per process, not shared by threads; a process that had the id of a
removed set keeps it (`SemGone`).

### Shm

`keyed` is the segment under the key, `attached` who is attached to which; IPC_RMID frees the key at once and the segment when the
last process detaches. ShmInit, ShmConnect, ShmReconnect, ShmDelete and ShmExtend are entry actions followed by the system calls they make,
one step each (`Shmdt`, `Rmid`, `Create`, `Find`, `Shmat`, `Restore`); ShmExtend goes through ShmDelete and ShmInit as the code does. Create
falls back to Find when the key is taken. Each call may fail where another process can make it fail, shmget and shmat also for want of memory. `Exit` may happen
anywhere and `Store` writes to the memory. `raced` and `lost` are history: they name the two races after which the code promises nothing. Abstractions: contents are the set of cells that hold data; a memcpy of more
cells than the segment found has (possible after a race only) is cut at its end; ids are not reused; a Store made by another process during
an extension is lost with the old segment, which `ExtendKeeps` does not exclude.

### MemReg

MM_ALLOC is `Alloc` (calloc) then `Lock` and `Add`; MM_FREE and MM_DELETE are `Free`, `Lock`, `Del`, `FreePt`; the allocator gives
any free address, also one freed a moment ago. `Pass` lets one thread free what another allocated. Del of a pointer that is not
registered returns with the lock held (myMemReg.cpp:65), after which the whole program comes to a stop; hence `unknown` in `LockGivenBack`, and the stutter `Stopped` in
`MCHelpers`, which keeps the deadlock check of that run for everything else.
MM_INIT is taken to have succeeded and MM_DESTROY to come after all threads.

### MapFile

The memory of the process is a row of pages, each with the object that mapped it; munmap takes whatever lies in the range, and mmap gives any free
range. Open is `Open` (which begins with Close) and then `Open4Linux` or `OpenFails`; Extend is `Extend` (munmap), `Ftruncate`, `Reopen` and the
end of Open. `unmapped` holds the objects whose m_Addr points to memory that Flush or Extend has given back; `reused` says that an mmap has landed there. One step covers the system calls that only the
calling thread can see. Abstractions: two objects may map one file, but access to the memory (and SIGBUS) is not modelled; Flush of a part of the mapping is not modelled apart.

### Copy

A client copies or moves `a` to `b`, or to `a` itself, with or without overwriting, on one file system or across two; `b` may be absent, a file or a
directory. Each of link, unlink, rename, open, the mapped copy, each turn of CpBig's loop and the clean-up at `out` is a step. Any call may
fail, unlink included (a directory that is not to be written, a name in a sticky one), the client may die at any step, and another process may create `b` when it is not there (twice). So the clean-up at
`out` may leave a torn destination (617, 668), and CpFile, which goes back to link whatever unlink has said (550-551), may go round for ever over a destination it cannot remove. The mapped copy of
CpFileCrossFileSystem is one step: a crash in the middle leaves a torn destination beside an intact source, as the step before it does. `spoiled` marks the three cases in which the code loses contents without telling (below). Files are
sequences of blocks; 0 is a block that a short write has not written.

### Crc32

Dumpers write data and then the checksum, two opens and two writes, into one file. A write goes block by block (`DumpWrite`) and may end short
(`DumpWritten`), the appending may fail, and the process may die anywhere in between. The checker maps the file as long as it is then (`CheckOpen`), sums it up one block per step (`CheckCrc`) and compares
(`CheckCompare`). What it reads is what the file has at that moment: old blocks, new ones, or, when the file has become shorter, the zeros that fill its last page; only a page
wholly behind the end of the file, or any page of an empty one, is SIGBUS (`CheckDies`). `PageBlocks` is the length of a page. So the check of a file that is being dumped
anew goes on, as it does in the code, with `DataLen` and `PageBlocks` such that the end of the data and the checksum share a page. Abstractions: a block is as long as a checksum and is written and read whole, and files
are whole numbers of blocks (so a write cut short within a block is not told from one cut before it). GetCrc32 is taken to tell data apart. It indexes `crctab` with a plain char (myCrc32.h:54), which for
a byte of 0x80 or more is negative and reads far outside the table: undefined, and not modelled. Files shorter than a checksum are left out (myCrc32.cpp:41 reads before them).

### Search, Split, Replace, Etc

`Search` chooses an array sorted one way or the other and a key (`BinarySearch`) and takes one turn of the loop per step (`Probe`), with the
compare function that mySearch.h gives as its example (1 when the first is the greater); low + high wraps at
`IntMax`, and what lies outside the array compares in any way. With this function the code needs an array that ascends, and that is what `SearchRight` asks for; the header
says the array is sorted from large to small (27), which `search_documented` refutes. `Split` and `Replace` see a text as strstr does: an occurrence of the token, or another character; a call may be followed by
further ones in the same object, calloc and realloc may fail, and capacities are counted as in the code. `Etc` reads a file line by line; a line is of
one of the seven kinds the parser tells apart, and `seg` and `value` live across lines as the locals of AnalyseText do. The key of the map is the string `seg|item`, as it is in the code, so that a `|` in a name lets two items share an entry: the run has
such names, and `EtcRight` is about items for whose key no other line of the file is responsible (`Clear`). `Spin` is the inner loop that never advances (myetc.cpp:147). The buffers for names, values and
lines are taken to be long enough; an empty token or strSrc is left out (strstr then finds it for ever in the same place: both loops never end).

## Runs

| Run | Question | Bounds |
|---|---|---|
| `wrlock_safety` | Typing, `Exclusion`, `Conservation`, `InitialisedBeforeUse`, `WriterPreference`, refinement of RWLock | 3 processes, so that two conflict while a third dies or destroys; 2 set ids, so that a set is destroyed and re-created; 2 resources, so that readers share and a writer must collect more than one; 2 polls |
| `wrlock_live` | `ClaimedWriterEnters`, `WriterGetsClaim` under `FairSpec` | 3 processes (two can keep passing a third), 1 set |
| `wrlock_orphan` | violated: the comment at myLock.cpp:141 that there is a creator to wait for | 2 processes |
| `thread_safety` | Typing, `TaskStable`, `StartMeansTaken`, `TakenOnce`, `TerminalWaits`, `WaitMeansDone`, `NotifyExact`, `IdleMeansDone`, refinement of TaskRunner | 2 tasks, so that one can be mistaken for the other; ticket modulus 2, the hardest case: it wraps at every second count |
| `thread_live` | `ParkedStartReturns`, `TerminalTaskReturns`, `StopEnds` under `FairSpec` | 1 task, which may be started again and again |
| `thread_start_hangs` | violated: myThread.h:73, a started task is handled at once | 1 task |
| `thread_stop_hangs` | violated: myThread.h:68, the thread ends when the current task has been handled | 1 task |
| `log` | `RotationExclusive`, `KeepsLatest`, `FdIsCurrent`, `OnlyOldestGoes`, `LogReturns` (under `FairSpec`), with failing calls | 2 threads, 2 days, 4 slots (so that old files move through two renames of the loop and fall off the end), 5 files, 3 descriptors |
| `sem` | `SemBalance` | 3 processes, so that one dies while another blocks and a third gives; 2 sets; 1 semaphore of 2 resources (the methods act on one semaphore at a time, only `Fill` on all); 2 polls; at most 2 taken or given by a process |
| `shared` | `AttachExact`, `ExtendKeeps`, `CrcDetects` | 2 processes: one extends while the other deletes, connects, creates or extends; 3 segments, 2 sizes. 2 dumpers of 3 blocks of data and one of checksum, in pages of 2: the check can be in front of zeros in the page it needs or of a page that is gone; a file of up to 4 blocks, which is all that one dump needs |
| `helpers` | `MapExact`, `SourceKept`, `CopyComplete`, `CopyReturns`, `SearchRight`, `SplitRight`, `ReplaceRight`, `EtcRight`, `EtcReturns`, `Registered`, `LockGivenBack` | 2 objects, 2 files of up to 2 pages in 4 pages of memory (both mappings fit exactly, so freed memory is reused); a source of up to 2 blocks, 2 intrusions; arrays of up to 5 of 3 values with IntMax 7 (5 elements overflow, 4 do not); texts of up to 5 with capacity 1, doubled three times; texts of up to 4, strSrc up to 2 and strDst up to 3 long with a first buffer of 2, so that it grows in the middle and at the end; files of up to 4 lines of 2 segments and 2 items, two of whose pairs share a key; 3 threads, so that one holds the lock, one waits and one reuses an address, and 2 addresses |
| `search_documented` | violated: mySearch.h:27, the order of the array for a compare function that returns 1 | arrays of up to 5 of 3 values |

Each property of a passing run is broken by a named mutation of the module, a slip that
the code could plausibly have; the mutated operator stands just before the one it mutates (`LockW1OneResource`
before `LockW1`, and so on).

**Deadlock** is checked in all runs but those of Thread, where the program really may stop: in
`crashed`, or with the worker waiting for ever after a lost signal and the controller joining it.

**Fairness.** WRLock: a process inside a method runs on, and a semop that is possible from some point on is
served (weak); the kernel scans the queue of a set in order of arrival at every change, so a
semop that is possible again and again is served too (strong, needed for the first semop of a writer only). Nobody
has to call a method, except that holders unlock. Thread: both threads are scheduled and the client's code returns (weak); no call need be made,
no wakeup is spurious by obligation, and a cancellation may stay pending. Log: a thread inside LogR runs on, and a
waiter for the pthread mutex is not passed over for ever (strong on `Lock`). Copy and Etc: a call that has begun goes on (weak on `CopyStep`, `AnalyseText`);
the other process of Copy creates files a bounded number of times, for without a bound link and unlink could be outrun for ever. Nothing that calls a function is fair.

What the passing liveness runs leave out is said in the properties: `ParkedStartReturns` needs the worker to be waiting already,
`StopEnds` excludes the gap between the test of `m_bEnd` and the wait (`wpc = "enter"`), in which the signal of
TerminalThread is lost (`thread_stop_hangs` shows that), and both exclude a cancelled worker. `CopyReturns` excepts unlink leaving, again and again, what CpFile wants removed; `EtcReturns`
excepts malformed files.

## Divergences found

Shown by a run:

1. Init of TWRLock: a creator that dies between semget and semop leaves a set that every later Init polls in vain (`wrlock_orphan`).
2. StartTask spins for ever when its signal comes before the worker waits (`thread_start_hangs`).
3. TerminalThread(false) and WaitThreadEnd: the signal falls between the worker's test of `m_bEnd` and its wait, the worker waits for ever and the join too (`thread_stop_hangs`), against myThread.h:68.
4. BinarySearch wants an ascending array with a compare function that returns 1 for the greater, against mySearch.h:27, which wants it sorted from large to small (`search_documented`).

Seen while modelling; the models take these steps, and the properties name them as exceptions where they would be violated:

- TThread: Init compares the result of pthread_create with -1 and spins when it fails (myThread.cpp:127); a task that ends in TASK_ERROR keeps an older result (33);
  TerminalThread(true) writes `m_nStatus` in the controlling thread, against myThread.h:107, and returns before the worker is gone, against myThread.h:68; a spurious wakeup between the
  assignments of StartTask runs the task without its callback, against myThread.h:74 (the hypothesis `~early` of `NotifyExact`); a task that was ended is not run again, for nothing resets its `m_bEnd` (30); TerminalTask may dereference NULL (300).
- TLog: a message is lost when another thread rotates between the read of `m_fd` and the write (myLog.cpp:232; CHANGE.txt:35-37 mentions size and date only); after a failed
  mkdir the change of date is forgotten and a whole day goes to an older file (263); a retried rotation unlinks one more old file each time; when open fails the old descriptor is leaked. `KeepsLatest` and
  `FdIsCurrent` therefore hold up to the first failing call.
- TSem: sem_unlock takes and sem_try_lock blocks (mysem.cpp:117, 109); the exit of a process that gave more than it took undoes the giving and may find less than that (`clamped`); `m_ptr` is shared by the threads of an object (125).
- TShm: a ShmDelete that finds the segment already removed leaves m_Addr pointing nowhere, and only ShmReconnect helps (`lost`); ShmExtend can end on a segment another process has created in between, perhaps a smaller one that the memcpy then overruns (`raced`).
  A successful ShmExtend leaves every other process on the old segment.
- TMemReg: Del of an unknown pointer, NULL included, keeps the lock (myMemReg.cpp:65); Add without MM_INIT makes a lock it does not initialise (32-34).
- TMapFile: Flush and Extend unmap a range and keep its address; the munmap of the next Close may hit memory another object has got since (`reused`).
- CpFile and MovFile: CpFile(x, x) with overwriting loses the file; CpBig returns -1, which is true, when calloc fails, and MovFile then removes the source (myfdcntl.cpp:640); a short
  write is not noticed (659) - the three cases of `spoiled`. A destination that unlink does not remove, a directory or a name in a directory that must not be written to, is linked and unlinked for ever (550-551; the exception in `CopyReturns`); a copy that must not overwrite and loses the race for O_EXCL unlinks the other process's file (617, 668); the
  rename of two links to one file leaves both names.
- Crc32: the data of two dumps at a time can be mixed so that the check accepts a file that was never whole (`overlapped`). `crctab` is indexed with a signed char (myCrc32.h:54).
- TSplit: an empty field at the end of the text is written without room when the others fill the array (mySplit.cpp:48, against mySplit.h:27-28; the exception in `SplitRight`); after a failed realloc the next call writes through NULL (74).
- MyEtc: a name without `=` takes the value of an earlier line (myetc.cpp:164, 243); a malformed file is read for ever (147); GetValue2Bool ignores its default, against myetc.h:33 and 41, and gives true for an item without a value (`EtcRight` leaves a bool without a value out);
  a `|` in a name can make two items one (170).
- BinarySearch: low + high overflows in arrays of more than half of INT_MAX elements (mySearch.cpp:13).
- CheckOneInstance passes command 0, which is F_DUPFD, to fcntl where F_SETLK is meant (myfdcntl.cpp:396). Read in the code, not modelled.

## Proofs

`WRLockProofs` proves, for every set of processes and ids, every MaxResource and MaxTries, and under
`WRLockAssumption` alone (finitely many processes, two semaphores, positive limits):

| Theorem | Property |
|---|---|
| `Typing` | `[]TypeOK` |
| `WriterAlone` | `[]Exclusion` |
| `NothingLeaks` | `[]Conservation` |
| `InitWaits` | `[]InitialisedBeforeUse` |
| `ReadersYield` | `WriterPreference` |
| `Refinement` | `RWSpec`, TWRLock implements RWLock |
| `Inductive` | `[]IInv`, from which the others follow |

`Exclusion` is not inductive: it holds because the semaphore values account for the holders (`Conservation`), and
these survive an exit only because the SEM_UNDO entries of a process are exactly what it took. `IInv` therefore adds to `TypeOK`, `Conservation` and
`InitialisedBeforeUse`: `SemidInv` (past Init a process has the id of a set that has existed), `CreatorInv` (a process about to give a set its value is the only one
that can), `ClaimInv` (one claimant per set), `AdjInv` (the undo entries, by pc) and `FreshInv` (an unused set is zero). The lemmas take the semop once (`SemopCommon`), then each method's step (`LockRStep`, ... `ExitStep`), then `Next`.
The refinement shows every step of WRLock to be one of EnterR, Claim, EnterW, LeaveW, Drop or a stutter of RWLock; Destroy is a stutter, because the holders of a removed set still believe they hold it and drop it one by one.

`ThreadProofs` proves, for every set of tasks, under `ThreadAssumption` alone (NULL is no task, and the ticket has at
least one bit):

| Theorem | Property |
|---|---|
| `Typing` | `[]TypeOK` |
| `NoOtherTask` | `[]TaskStable` |
| `WaitsForEnd` | `[]WaitMeansDone` |
| `CallbackExact` | `[]NotifyExact` |
| `IdleAgain` | `[]IdleMeansDone` |
| `StartTaskTaken` | `StartMeansTaken` |
| `OneRunPerStart` | `TakenOnce` |
| `TerminalWaitsForTask` | `TerminalWaits` |
| `Refinement` | `RunnerSpec`, TThread implements TaskRunner |
| `Inductive` | `[]IInv`, from which the others follow |

The heart of `IInv` is `StartInv`: while StartTask is in progress the task is either `NotTaken`, and then the ticket is the one StartTask read, or
`IsTaken`, and then the ticket moves once, at line 166, after the task was taken; a ticket that wraps is enough, because nothing moves it again before StartTask has returned
(`CountChanges` is all the proof uses of it). `CreateInv` says the same of Init. `StatusInv` bounds how far m_nStatus lags behind the worker, which is what the
unlocked tests of IDLE and BUSY rely on; `TaskInv` says that outside StartTask m_pTask is there exactly while it runs; `WaitInv` and `NotifyInv` carry the parameters of TerminalTask and StartTask to
the steps that use them. `ResultInv` says which task a StartTask has led to a run of, and what that run has recorded. There is one lemma per action (`ThreadStartStep`, ... `TerminalTaskStep`); `WhoMoves` picks out the steps the action properties are about. In the refinement SetTask is Give, GetTask is Take, ClearTask is Finish, the end of the
loop and a cancellation are Stop, and the rest stutters.

The other components have one inductive invariant each (`IInv`, `MapInv`, `CopyInv`, ... ), one lemma per action or per conjunct that an
action disturbs, and these theorems:

| Module | Theorem | Property | For every |
|---|---|---|---|
| `LogProofs` | `LogTypeOK` | `[]TypeOK` | number of threads, days, slots, files and descriptors |
| | `OneRotates` | `[]RotationExclusive` | |
| | `DestroysTheOldest` | `OnlyOldestGoes` | |
| | `NoneTooMany` | `[]KeepsLatest` | |
| | `DescriptorIsCurrent` | `[]FdIsCurrent` | |
| `SemProofs` | `SemTypes` | `[]TypeOK` | finite set of processes, sets of semaphores and ids, initial values and counts |
| | `UndoIsExact` | `[](held = adj)` | |
| | `UnitsAreKept` | `[]SemBalance` | |
| `ShmProofs` | `AttachedToWhatItNames` | `[]AttachExact` | set of processes, number of segments and sizes |
| | `ExtensionKeeps` | `[]ExtendKeeps` | |
| `MemRegProofs` | `RegisterExact` | `[]Registered` | set of threads and addresses |
| | `LockIsGivenBack` | `[]LockGivenBack` | |
| | `OnlyNullUnknown` | Del is given no unknown pointer but NULL | |
| `FileProofs` | `MappingsExact` | `[]MapExact` | finite set of objects, set of files and memory |
| | `SourceIsKept` | `[]SourceKept` | size of file and number of intrusions |
| | `CopyIsComplete` | `[]CopyComplete` | |
| | `CheckIsWorthIt` | `[]CrcDetects` | set of dumpers, length of data, of pages and of the file |
| `TextProofs` | `SearchFinds` | `[]SearchRight` | length, order, range of elements and IntMax |
| | `ReadsWhatIsMeant` | `[]EtcRight` | number of lines and set of names |
| | `ReplacesAll` | `[]ReplaceRight` | length of text, strSrc, strDst and first buffer |
| | `CutsAtTheTokens` | `[]SplitRight` | length of text and first capacity |

Each rests on the assumption its module states (`LogAssumption`, `SemAssumption`, ...), which TLC evaluates in the module's run, and on no other.
The assumptions give types and positive limits and keep the model values for "none" apart from real ones. `SemAssumption` and `MapFileAssumption` say besides that processes and
objects are finitely many, since the properties sum or count over them.

- **Log.** That the mutex excludes is inductive with typing alone. `OnlyOldestGoes` is not: what goes is in the last slot or is renamed over, and is the oldest because of
  `NameInv` (a file has one name; the higher the slot, the older) and `VacantInv` (the slot a rename is about to fill was emptied by the one before, but the last). Both hold with failing calls, for a
  failed rename only leaves a gap. `CountInv` is about the middle of a rotation: the slots taken are the first `rotated[d]`, and beyond `i` the same moved up by one (`MovedUp`); `KeepsLatest` is what it says
  when no one rotates. `DescInv` gives the descriptors by pc. `PcInv` keeps `i` in range.
- **Sem.** A unit balances because `held` is `adj` (`UndoInv`), so that an exit gives back what its process took, but where the kernel stops at 0 (`clamped`); `FillInv` (the process that fills a set is the only
  one) and `FreshInv` (before that it is empty and nobody has taken of it) start the balance; `UseInv` says that an object past Init has a filled set.
- **Shm.** `AtInv` says who is attached to what at every pc: to `m_Addr`, but between shmdt and IPC_RMID and after a removal that was lost. `CallInv` and `ExtendInv` give the members and the locals at each step of a call.
  `OwnerInv` is why an extension that has not raced keeps its contents: it has created its segment itself, and no other such extension has the same one.
- **MemReg.** `OwnInv` (a block belongs to one thread, and is allocated as long as that thread has it) and `HeldInv` (only the holder of the lock is at the register) make `Registered` inductive.
- **MapFile.** `FdsInv` counts descriptors by the objects that hold them; `AreaInv` says, of each page, that it is an object's own exactly if it lies in its area, and that an area unmapped under an object is nobody's, until `reused`.
- **Copy.** `SourceInv`: "a" is never made again, and when it is gone "b" is whole. `ProgressInv` says how far the client is: only "b" is written or unlinked, CpBig has copied the first `nRead` blocks, and the source goes only when "b" is whole. Both up to `spoiled`.
- **Crc32.** `DumpInv`: without overlapping dumps the file is a beginning of one dumper's data, as long as its write has come, with or without its checksum, and one with the checksum behind all of the data has been
  whole. The comparison, whatever blocks were summed up before it, finds a checksum only in a file that has one (zeros are none), at the place `mapped`; if the sum matches, the blocks read are
  that dumper's data, all of them, and the file there now has been whole (`CheckInv`).
- **Search, Etc, Replace, Split.** Loop invariants, stated of the data and not of the loop: an element equal to the key is not outside low .. high (`Excluded`); the map is what the lines read so far mean (`MeantIn`);
  what has been copied is the text before `left`, replaced, and `nPos` the bytes of it (`Copied`, `Bytes`), with `nPos < nReplaceLen`; the array holds the fields up to the place the loop stands at, which is the start or a token (`SplitTo`).

The library's induction theorems take a predicate as a parameter, which these provers cannot instantiate. Where a fact about all finite sets was needed (the sum in `SemBalance`, which the
community modules define by a recursive function) it is proved by a smallest counterexample in the well-founded order of the subsets of a finite set (`Smallest` in SemProofs, then
`SumUnique`, `SumExists`, `SumChange`); counts of positions are cardinalities, and one position more is one more (`CountMore`, `ToksFacts` in TextProofs). No operator of the modules is RECURSIVE.

What is only model-checked is liveness: `ClaimedWriterEnters`, `WriterGetsClaim`, `ParkedStartReturns`, `TerminalTaskReturns`, `StopEnds`, `LogReturns`, `CopyReturns` and
`EtcReturns`, because the installed provers do not handle fairness and ENABLED; and the four violations, which are counterexamples. Every invariant, action property and refinement a passing run checks is a theorem.

## Plan

Done: the modules above, and the proofs of their safety. Next:

1. Abstract specifications of further components, as `RWLock` and `TaskRunner` are for the first two, with the refinement checked and proved: a register that is a set changed under a lock for MemReg, a store of segments by key for Shm.
2. The safety core of the liveness arguments, as far as it can be stated without fairness: which steps a waiting writer of WRLock, a parked StartTask of Thread and a rotation of Log can still be delayed by.
3. Lemmas for the hazards that no property covers yet (PROJECT.json lists them), where a history variable makes them states.

## Not modelled

- TFileSearchRule: on Linux it opens `"<dir>/*"` as a directory, which fails, so its list is always empty; nothing can be said of it.
- MkDir, DelDir and DelFile for themselves, CheckOneInstance, the file locks, pipes and the paths of the program (myfdcntl.cpp): one system call each, or a loop over names; the way MkDir fails is part of `Log`.
- TLog's Init and Close, several processes on one log, and the formatting of messages. `Log` starts in the state Init leaves.
- TMemReg without MM_INIT, and MM_DESTROY under running threads: undefined from the first step.
- The rest of mystr.cpp (loops over one string; chomp reads before an empty line at 71), myTime.cpp, myDef.h and the signal wrapper: conversions without state.
- The Windows branches, which the makefile does not build, and the spare code (备用代码.cpp), which nothing compiles.
