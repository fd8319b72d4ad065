------------------------------- MODULE Thread ------------------------------
(***************************************************************************)
(* TThread and TThreadTask (myThread.cpp, the pthread build): a worker     *)
(* thread and the one thread that controls it (myThread.h:56-58).  They    *)
(* share the members of TThread without locking: the worker alone locks    *)
(* m_Mutex, around pthread_cond_wait and the task, so the mutex blocks     *)
(* nobody and is left out.  Each access to a shared member is a step.      *)
(***************************************************************************)
EXTENDS Naturals

CONSTANTS Tasks,         \* the TThreadTask objects of the program
          NoTask,        \* NULL
          TicketModulus  \* 2^w, w the bits of m_nTicket

ASSUME ThreadAssumption ==
  /\ NoTask \notin Tasks
  /\ TicketModulus \in Nat \ {0, 1}

VARIABLES
  \* members of TThread
  m_nTicket, m_nStatus, m_bEnd, m_pTask,
  m_notify, m_pArg,     \* callback and argument, named by the task they go with
  \* members of the tasks, by task
  taskEnd,              \* m_bEnd
  m_nResult,
  \* the controlling thread and its locals
  cpc, nTmpTicket,
  arg, withNotify,      \* parameters of StartTask
  wait, ret,            \* bWait of TerminalTask, and the pc it returns to
  \* the worker thread
  wpc, self,            \* self: `this' of the TThreadTask::Run in progress
  cancel,               \* a pthread_cancel is pending
  \* history
  taken,                \* the task the worker took since the last StartTask
  outcome,              \* how the last turn of that task ended, "none" if none has
  early,                \* the worker once took a task StartTask had not signalled yet
  waited                \* WaitThreadEnd has returned 0

shared  == <<m_nTicket, m_nStatus, m_bEnd, m_pTask, m_notify, m_pArg>>
tasks   == <<taskEnd, m_nResult>>
control == <<cpc, nTmpTicket, arg, withNotify, wait, ret, waited>>
worker  == <<wpc, self>>
history == <<taken, outcome, early>>
vars    == <<shared, tasks, control, worker, cancel, history>>

Statuses == {"UNINITIAL", "IDLE", "BUSY", "TERMINAL"}
Results  == {"ERROR", "SUCCEED", "FAIL", "UNFINISH"}
RunPcs   == {"busy", "count", "taskInit", "loop", "body", "notify", "reset", "clear"}
Ended    == {"gone", "joined"}
WorkerPcs  == RunPcs \cup Ended
              \cup {"none", "start", "count0", "test", "enter", "wait", "get", "idle", "end"}
ControlPcs == {"free", "initSpin", "setTask", "setNotify", "setArg", "signal",
               "startSpin", "setEnd", "endSpin", "force", "stop", "stopSignal",
               "join", "crashed"}

MaybeTask == Tasks \cup {NoTask}

TypeOK ==
  /\ m_nTicket \in 0 .. TicketModulus - 1 /\ nTmpTicket \in 0 .. TicketModulus - 1
  /\ m_nStatus \in Statuses
  /\ {m_bEnd, withNotify, wait, cancel, waited, early} \subseteq BOOLEAN
  /\ {m_pTask, m_notify, m_pArg, arg, self, taken} \subseteq MaybeTask
  /\ taskEnd \in [Tasks -> BOOLEAN]
  /\ m_nResult \in [Tasks -> Results] /\ outcome \in Results \cup {"none"}
  /\ cpc \in ControlPcs /\ ret \in {"free", "stop"}
  /\ wpc \in WorkerPcs
  /\ wpc \in {"loop", "body"} => self \in Tasks

Init ==
  /\ m_nTicket = 0 /\ m_nStatus = "UNINITIAL" /\ m_bEnd = FALSE
  /\ m_pTask = NoTask /\ m_notify = NoTask /\ m_pArg = NoTask
  /\ taskEnd = [t \in Tasks |-> FALSE]
  /\ m_nResult = [t \in Tasks |-> "ERROR"]
  /\ cpc = "free" /\ nTmpTicket = 0 /\ arg = NoTask /\ withNotify = FALSE
  /\ wait = FALSE /\ ret = "free"
  /\ wpc = "none" /\ self = NoTask /\ cancel = FALSE
  /\ taken = NoTask /\ outcome = "none" /\ early = FALSE /\ waited = FALSE

Worker(from, to)  == cpc # "crashed" /\ wpc = from /\ wpc' = to
Control(from, to) == cpc = from /\ cpc' = to

\* pthread_cond_signal: wakes the worker if it waits, and is lost otherwise.
Signal == wpc' = IF wpc = "wait" THEN "get" ELSE wpc

----------------------------------------------------------------------------
\* TThread::Run

ThreadStart ==
  /\ Worker("start", "count0")
  /\ m_nStatus' = "IDLE"
  /\ UNCHANGED <<m_nTicket, m_bEnd, m_pTask, m_notify, m_pArg, tasks, control, self,
                 cancel, history>>

CountUp ==
  /\ m_nTicket' = (m_nTicket + 1) % TicketModulus
  /\ UNCHANGED <<m_nStatus, m_bEnd, m_pTask, m_notify, m_pArg, tasks, control, self,
                 cancel, history>>

CountStart == Worker("count0", "test") /\ CountUp

TestEnd ==
  /\ \/ m_bEnd  /\ Worker("test", "end")
     \/ ~m_bEnd /\ Worker("test", "enter")
  /\ UNCHANGED <<shared, tasks, control, self, cancel, history>>

\* From here on, and no sooner, a signal finds the worker.
CondWait ==
  /\ Worker("enter", "wait")
  /\ UNCHANGED <<shared, tasks, control, self, cancel, history>>

\* pthread_cond_wait may return without a signal (POSIX).
SpuriousWakeup ==
  /\ Worker("wait", "get")
  /\ UNCHANGED <<shared, tasks, control, self, cancel, history>>

\* Any wakeup counted, as in the line that is commented out at 162.
CountOnWakeup ==
  /\ \/ m_pTask # NoTask /\ Worker("get", "busy")
     \/ m_pTask = NoTask /\ Worker("get", "idle")
  /\ CountUp

\* m_pTask not tested: a wakeup without a task runs NULL.
GetTaskUnchecked ==
  Worker("get", "busy") /\ UNCHANGED <<shared, tasks, control, self, cancel, history>>

GetTask ==
  /\ \/ m_pTask # NoTask /\ Worker("get", "busy")
     \/ m_pTask = NoTask /\ Worker("get", "idle")
  /\ UNCHANGED <<shared, tasks, control, self, cancel, history>>

Take ==
  /\ taken' = m_pTask
  /\ early' = (early \/ cpc \in {"setNotify", "setArg", "signal"})
  /\ UNCHANGED outcome

BusyWithoutStatus ==
  /\ Worker("busy", "count")
  /\ Take
  /\ UNCHANGED <<shared, tasks, control, self, cancel>>

Busy ==
  /\ Worker("busy", "count")
  /\ m_nStatus' = "BUSY"
  /\ Take
  /\ UNCHANGED <<m_nTicket, m_bEnd, m_pTask, m_notify, m_pArg, tasks, control, self, cancel>>

CountBusyNever ==
  Worker("count", "taskInit") /\ UNCHANGED <<shared, tasks, control, self, cancel, history>>

CountBusy == Worker("count", "taskInit") /\ CountUp

\* TThreadTask::Run: TaskInit, overridden by the client.
TaskInit ==
  /\ \/ /\ Worker("taskInit", "notify")
        /\ m_nResult' = [m_nResult EXCEPT ![m_pTask] = "ERROR"]
        /\ outcome' = "ERROR"
     \/ /\ Worker("taskInit", "loop")
        /\ UNCHANGED <<m_nResult, outcome>>
  /\ self' = m_pTask
  /\ UNCHANGED <<shared, taskEnd, control, cancel, taken, early>>

TestTaskEnd ==
  /\ \/ Worker("loop", "notify") /\ taskEnd[self]
     \/ Worker("loop", "body") /\ ~taskEnd[self]
  /\ UNCHANGED <<shared, tasks, control, self, cancel, history>>

\* TaskLoop, the client's: an ERROR leaves Run before SetResult.
TaskLoop ==
  /\ \E rs \in Results :
       /\ Worker("body", IF rs = "UNFINISH" THEN "loop" ELSE "notify")
       /\ outcome' = rs
       /\ m_nResult' = IF rs = "ERROR" THEN m_nResult ELSE [m_nResult EXCEPT ![self] = rs]
  /\ UNCHANGED <<shared, taskEnd, control, self, cancel, taken, early>>

\* m_notify(m_pArg), if there is one; both are reset after it.
Notify ==
  /\ \/ m_notify # NoTask /\ Worker("notify", "reset")
     \/ m_notify = NoTask /\ Worker("notify", "clear")
  /\ UNCHANGED <<shared, tasks, control, self, cancel, history>>

ResetNotify ==
  /\ Worker("reset", "clear")
  /\ m_notify' = NoTask /\ m_pArg' = NoTask
  /\ UNCHANGED <<m_nTicket, m_nStatus, m_bEnd, m_pTask, tasks, control, self, cancel, history>>

ClearNothing ==
  Worker("clear", "idle") /\ UNCHANGED <<shared, tasks, control, self, cancel, history>>

ClearTask ==
  /\ Worker("clear", "idle")
  /\ m_pTask' = NoTask /\ self' = NoTask
  /\ UNCHANGED <<m_nTicket, m_nStatus, m_bEnd, m_notify, m_pArg, tasks, control, cancel, history>>

SetIdleNever ==
  Worker("idle", "test") /\ UNCHANGED <<shared, tasks, control, self, cancel, history>>

SetIdle ==
  /\ Worker("idle", "test")
  /\ m_nStatus' = "IDLE"
  /\ UNCHANGED <<m_nTicket, m_bEnd, m_pTask, m_notify, m_pArg, tasks, control, self,
                 cancel, history>>

ThreadEnd ==
  /\ Worker("end", "gone")
  /\ m_nStatus' = "TERMINAL"
  /\ UNCHANGED <<m_nTicket, m_bEnd, m_pTask, m_notify, m_pArg, tasks, control, self,
                 cancel, history>>

\* The pending cancellation is acted on at a cancellation point: cond_wait,
\* the printf calls, whatever the task or the callback calls.
Cancelled ==
  /\ cancel
  /\ \E at \in {"wait", "get", "taskInit", "body", "notify", "reset", "test"} :
       Worker(at, "gone")
  /\ UNCHANGED <<shared, tasks, control, self, cancel, history>>

----------------------------------------------------------------------------
\* Init, StartTask

\* pthread_create returns an errno value when it fails, never the -1 that
\* Init tests for, so a failure goes unnoticed.
CallInit ==
  /\ Control("free", "initSpin")
  /\ m_nStatus = "UNINITIAL"
  /\ nTmpTicket' = m_nTicket
  /\ wpc' \in {"start", "none"}
  /\ UNCHANGED <<shared, tasks, arg, withNotify, wait, ret, waited, self, cancel, history>>

InitReturn ==
  /\ Control("initSpin", "free")
  /\ m_nTicket # nTmpTicket /\ nTmpTicket' = 0
  /\ UNCHANGED <<shared, tasks, arg, withNotify, wait, ret, waited, worker,
                 cancel, history>>

\* Nothing moves the ticket between the test for IDLE and its reading.
StartTask(t, n) ==
  /\ Control("free", "setTask")
  /\ m_nStatus = "IDLE"
  /\ nTmpTicket' = m_nTicket /\ arg' = t /\ withNotify' = n
  /\ taken' = NoTask /\ outcome' = "none"
  /\ UNCHANGED <<shared, tasks, wait, ret, waited, worker, cancel, early>>

SetTask ==
  /\ Control("setTask", "setNotify")
  /\ m_pTask' = arg
  /\ UNCHANGED <<m_nTicket, m_nStatus, m_bEnd, m_notify, m_pArg, tasks, nTmpTicket, arg,
                 withNotify, wait, ret, waited, worker, cancel, history>>

SetNotify ==
  /\ Control("setNotify", "setArg")
  /\ m_notify' = IF withNotify THEN arg ELSE NoTask
  /\ UNCHANGED <<m_nTicket, m_nStatus, m_bEnd, m_pTask, m_pArg, tasks, nTmpTicket, arg,
                 withNotify, wait, ret, waited, worker, cancel, history>>

SetArgForgotten ==
  /\ Control("setArg", "signal")
  /\ UNCHANGED <<shared, tasks, nTmpTicket, arg, withNotify, wait, ret, waited, worker,
                 cancel, history>>

SetArg ==
  /\ Control("setArg", "signal")
  /\ m_pArg' = IF withNotify THEN arg ELSE NoTask
  /\ UNCHANGED <<m_nTicket, m_nStatus, m_bEnd, m_pTask, m_notify, tasks, nTmpTicket, arg,
                 withNotify, wait, ret, waited, worker, cancel, history>>

SignalTask ==
  /\ Control("signal", "startSpin")
  /\ Signal
  /\ UNCHANGED <<shared, tasks, nTmpTicket, arg, withNotify, wait, ret, waited, self,
                 cancel, history>>

StartReturn ==
  /\ Control("startSpin", "free")
  /\ m_nTicket # nTmpTicket /\ nTmpTicket' = 0
  /\ UNCHANGED <<shared, tasks, arg, withNotify, wait, ret, waited, worker,
                 cancel, history>>

----------------------------------------------------------------------------
\* TerminalTask, TerminalThread, WaitThreadEnd

\* m_pTask is tested here and read again by SetEnd.
TestTask(w, r) ==
  /\ Control("free", "setEnd")
  /\ m_pTask # NoTask
  /\ wait' = w /\ ret' = r
  /\ UNCHANGED <<shared, tasks, nTmpTicket, arg, withNotify, waited, worker, cancel, history>>

TerminalTask(w) == TestTask(w, "free")

\* The build has no optimisation, so the second read is a load of its own
\* and may find NULL: the program ends there.
SetEnd ==
  /\ \/ /\ m_pTask # NoTask
        /\ Control("setEnd", IF wait THEN "endSpin" ELSE ret)
        /\ taskEnd' = [taskEnd EXCEPT ![m_pTask] = TRUE]
     \/ /\ m_pTask = NoTask
        /\ Control("setEnd", "crashed")
        /\ UNCHANGED taskEnd
  /\ UNCHANGED <<shared, m_nResult, nTmpTicket, arg, withNotify, wait, ret, waited,
                 worker, cancel, history>>

EndSpin ==
  /\ Control("endSpin", ret)
  /\ m_nStatus # "BUSY"
  /\ UNCHANGED <<shared, tasks, nTmpTicket, arg, withNotify, wait, ret, waited, worker,
                 cancel, history>>

TerminalThread ==
  \/ TestTask(TRUE, "stop")
  \/ /\ Control("free", "stop")
     /\ m_pTask = NoTask
     /\ UNCHANGED <<shared, tasks, nTmpTicket, arg, withNotify, wait, ret, waited, worker,
                    cancel, history>>

\* TerminalThread(true), of a thread that exists.
TerminalThreadForce ==
  /\ Control("free", "force")
  /\ wpc \notin {"none", "joined"}
  /\ cancel' = TRUE
  /\ UNCHANGED <<shared, tasks, nTmpTicket, arg, withNotify, wait, ret, waited, worker, history>>

ForceStatus ==
  /\ Control("force", "stop")
  /\ m_nStatus' = "TERMINAL"
  /\ UNCHANGED <<m_nTicket, m_bEnd, m_pTask, m_notify, m_pArg, tasks, nTmpTicket, arg,
                 withNotify, wait, ret, waited, worker, cancel, history>>

SetThreadEnd ==
  /\ Control("stop", "stopSignal")
  /\ m_bEnd' = TRUE
  /\ UNCHANGED <<m_nTicket, m_nStatus, m_pTask, m_notify, m_pArg, tasks, nTmpTicket, arg,
                 withNotify, wait, ret, waited, worker, cancel, history>>

SignalWhenBusy ==
  /\ Control("stopSignal", "free")
  /\ \/ m_nStatus = "BUSY" /\ Signal
     \/ m_nStatus # "BUSY" /\ UNCHANGED wpc
  /\ UNCHANGED <<shared, tasks, nTmpTicket, arg, withNotify, wait, ret, waited, self,
                 cancel, history>>

SignalEnd ==
  /\ Control("stopSignal", "free")
  /\ \/ m_nStatus = "IDLE" /\ Signal
     \/ m_nStatus # "IDLE" /\ UNCHANGED wpc
  /\ UNCHANGED <<shared, tasks, nTmpTicket, arg, withNotify, wait, ret, waited, self,
                 cancel, history>>

WaitReturnsOnFlag ==
  /\ \/ m_nStatus = "TERMINAL" \/ m_bEnd
  /\ Control("free", "free") /\ waited' = TRUE
  /\ UNCHANGED <<shared, tasks, nTmpTicket, arg, withNotify, wait, ret, worker, cancel, history>>

WaitThreadEnd ==
  /\ \/ m_nStatus = "TERMINAL" /\ Control("free", "free") /\ waited' = TRUE
     \/ /\ m_nStatus \in {"IDLE", "BUSY"} /\ wpc # "joined"
        /\ Control("free", "join") /\ UNCHANGED waited
  /\ UNCHANGED <<shared, tasks, nTmpTicket, arg, withNotify, wait, ret, worker, cancel, history>>

Join ==
  /\ Control("join", "free")
  /\ wpc = "gone" /\ wpc' = "joined" /\ waited' = TRUE
  /\ UNCHANGED <<shared, tasks, nTmpTicket, arg, withNotify, wait, ret, self, cancel, history>>

----------------------------------------------------------------------------
WorkerStep ==
  \/ ThreadStart \/ CountStart \/ TestEnd \/ CondWait \/ GetTask \/ Busy \/ CountBusy
  \/ TaskInit \/ TestTaskEnd \/ TaskLoop \/ Notify \/ ResetNotify \/ ClearTask
  \/ SetIdle \/ ThreadEnd

\* What the controller's calls do once they are made.
CallStep ==
  \/ InitReturn \/ SetTask \/ SetNotify \/ SetArg \/ SignalTask \/ StartReturn
  \/ SetEnd \/ EndSpin \/ ForceStatus \/ SetThreadEnd \/ SignalEnd \/ Join

Call ==
  \/ CallInit
  \/ \E t \in Tasks, n \in BOOLEAN : StartTask(t, n)
  \/ \E w \in BOOLEAN : TerminalTask(w)
  \/ TerminalThread \/ TerminalThreadForce \/ WaitThreadEnd

Next == WorkerStep \/ SpuriousWakeup \/ Cancelled \/ CallStep \/ Call

Spec == Init /\ [][Next]_vars

\* Both threads are scheduled, and TaskInit, TaskLoop and the callback
\* return.  No call need be made, no wakeup be spurious, and a cancellation
\* may stay pending.
FairSpec == Spec /\ WF_vars(WorkerStep) /\ WF_vars(CallStep)

----------------------------------------------------------------------------
\* Properties

Running == wpc \in RunPcs

\* While the worker runs a task, m_pTask is that task: StartTask's unlocked
\* test of m_nStatus keeps a second task out, so the worker never names,
\* notifies for or clears another one.
TaskStable == Running => m_pTask # NoTask /\ self \in {NoTask, m_pTask}

\* StartTask returns 0 only when the worker has taken the very task it was
\* given, though all it looks at is a ticket.
StartMeansTaken ==
  [][cpc = "startSpin" /\ cpc' = "free" => taken = arg]_vars

\* One StartTask, at most one run: no wakeup finds the task again.
TakenOnce == [][wpc = "busy" /\ wpc' = "count" => taken = NoTask]_vars

\* TerminalTask(true), and TerminalThread(false) before it sets the flag, go
\* on only when the task is over (myThread.h:68-71), but for a cancelled
\* worker.
TerminalWaits ==
  [][cpc' # cpc /\ (cpc = "endSpin" \/ cpc' = "stop") /\ ~cancel => ~Running]_vars

\* WaitThreadEnd returns 0 only when the worker is through with the object,
\* but for a cancelled worker.
WaitMeansDone == waited /\ ~cancel => wpc \in Ended

\* The callback is called exactly when StartTask was given one, after the
\* task it was given with and with its argument, as long as no wakeup makes
\* the worker overtake StartTask.
Given == IF withNotify THEN arg ELSE NoTask

NotifyExact == wpc = "notify" /\ ~early => m_notify = Given /\ m_pArg = Given

\* A client that finds the thread IDLE again after its StartTask may rely on
\* it, though nothing is locked: the task it gave was taken and is over, and
\* GetResult says what its TaskLoop returned last (an ERROR is not recorded).
IdleMeansDone ==
  cpc = "free" /\ m_nStatus = "IDLE" /\ arg # NoTask =>
    /\ ~Running /\ taken = arg
    /\ outcome \notin {"none", "ERROR"} => m_nResult[arg] = outcome

\* TThread implements TaskRunner.
Runner == INSTANCE TaskRunner WITH
  phase <- IF wpc \in Ended \cup {"end"} THEN "stopped"
           ELSE IF Running THEN "running"
           ELSE IF m_pTask # NoTask THEN "given" ELSE "idle",
  job   <- IF wpc \in Ended \cup {"end"} THEN NoTask ELSE m_pTask

RunnerSpec == Runner!Spec

\* StartTask returns if the worker was waiting when it signalled.
ParkedStartReturns == cpc = "signal" /\ wpc = "wait" /\ ~cancel ~> cpc = "free"

\* TerminalTask(true) does not spin for ever.
TerminalTaskReturns == cpc = "endSpin" /\ ~cancel ~> cpc # "endSpin"

\* TerminalThread(false) ends the thread, unless its signal falls between the
\* worker's test of m_bEnd and its pthread_cond_wait, or the controller
\* goes on to start another task.
StopEnds ==
  cpc = "stopSignal" /\ wpc \notin {"none", "enter"} /\ ~cancel
    ~> wpc \in Ended \/ Running \/ cpc = "crashed"

----------------------------------------------------------------------------
\* What the header and the comments say, and the code does not do

\* "Once set, the thread handles the task at once" (myThread.h:73), nothing
\* having told the thread to end.
StartTaskRuns == cpc = "signal" /\ ~m_bEnd /\ ~cancel ~> cpc = "free"

\* "false waits until the current task has been handled, then ends"
\* (myThread.h:68), a task that goes on for ever excepted, and a thread that is
\* cancelled in the end.
EndsAfterTask ==
  cpc = "stopSignal" /\ wpc # "none"
    ~> wpc \in Ended \/ Running \/ cpc = "crashed" \/ cancel
=============================================================================
