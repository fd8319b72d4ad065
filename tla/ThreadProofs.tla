---------------------------- MODULE ThreadProofs ----------------------------
(***************************************************************************)
(* TThread for every set of tasks and every width of the ticket: the       *)
(* unlocked hand-over between StartTask and the worker.                    *)
(***************************************************************************)
EXTENDS Thread, TLAPS

Starting == {"setTask", "setNotify", "setArg", "signal", "startSpin"}
Idling   == {"test", "enter", "wait", "get", "idle"}
InTask   == {"loop", "body", "notify", "reset", "clear"}
Over     == Ended \cup {"end"}

\* The worker exists once Init has made it, and Init keeps the controller
\* until the worker has counted.
CreateInv ==
  /\ m_nStatus = "UNINITIAL" => wpc \in {"none", "start"}
  /\ wpc \in {"none", "start"} => m_nStatus = "UNINITIAL"
  /\ wpc = "none" => cpc \in {"free", "initSpin", "stop", "stopSignal"}
  /\ wpc \in {"start", "count0"} => cpc = "initSpin" /\ m_nTicket = nTmpTicket
  /\ wpc \in {"none", "start", "count0"} => m_pTask = NoTask

\* The status lags behind the worker, but a worker past line 165 is not IDLE,
\* and TERMINAL is said of a worker that is gone or being cancelled.
StatusInv ==
  /\ wpc \in RunPcs \ {"busy"} => m_nStatus \in {"BUSY", "TERMINAL"}
  /\ m_nStatus = "TERMINAL" /\ ~cancel => wpc \in Ended
  /\ cpc = "force" => cancel

\* The task StartTask was given, before and after the worker takes it.
NotTaken ==
  /\ m_nTicket = nTmpTicket /\ taken = NoTask
  /\ wpc \in Idling \cup Over \cup {"busy"}
  /\ wpc \notin Over => m_pTask = IF cpc = "setTask" THEN NoTask ELSE arg
  /\ wpc = "busy" => cpc # "setTask"

IsTaken ==
  /\ taken = arg /\ cpc # "setTask"
  /\ \/ wpc = "count" /\ m_nTicket = nTmpTicket /\ m_pTask = arg
     \/ /\ m_nTicket # nTmpTicket
        /\ wpc \in Idling \cup Over \cup (RunPcs \ {"busy", "count"})
        /\ wpc \in Idling => m_pTask = NoTask
        /\ wpc \in RunPcs => m_pTask = arg

StartInv == cpc \in Starting => arg \in Tasks /\ (NotTaken \/ IsTaken)

\* Outside StartTask a task is there exactly while it runs.
TaskInv ==
  /\ cpc \notin Starting =>
       /\ wpc \notin {"busy", "count"}
       /\ wpc \in RunPcs => m_pTask \in Tasks
       /\ wpc \in Idling => m_pTask = NoTask
  /\ wpc \in InTask => self = m_pTask
  /\ wpc \notin InTask \cup Ended => self = NoTask

\* TerminalThread(false) waits for the task.
WaitInv == cpc \in {"setEnd", "endSpin"} /\ ret = "stop" => wait

\* What StartTask has set, unless the worker overtook it.
NotifyInv == ~early =>
  /\ cpc \in {"setArg", "signal", "startSpin"} /\ taken = NoTask => m_notify = Given
  /\ cpc \in {"signal", "startSpin"} /\ taken = NoTask => m_pArg = Given
  /\ cpc \in Starting \ {"startSpin"} => taken = NoTask
  /\ wpc \in {"count", "taskInit", "loop", "body", "notify"}
       => m_notify = Given /\ m_pArg = Given

\* The last StartTask, the run it led to and what that run has recorded.
ResultInv ==
  /\ wpc \in RunPcs \ {"busy"} => m_pTask = taken /\ taken \in Tasks
  /\ wpc = "busy" => taken = NoTask
  /\ outcome # "none" => taken \in Tasks
  /\ outcome \notin {"none", "ERROR"} => m_nResult[taken] = outcome
  /\ cpc \notin Starting /\ arg # NoTask => taken = arg

IInv == TypeOK /\ CreateInv /\ StatusInv /\ StartInv /\ TaskInv /\ WaitInv
        /\ WaitMeansDone /\ NotifyInv /\ ResultInv
----------------------------------------------------------------------------
\* Sets of program points, tuples of variables and the form of a step are
\* expanded everywhere.
USE DEF Starting, Idling, InTask, Over, Ended, RunPcs, Worker, Control,
        shared, tasks, control, worker, history, vars

\* One step of the ticket is seen, whatever its width.
LEMMA CountChanges ==
  ASSUME NEW t \in 0 .. TicketModulus - 1
  PROVE  (t + 1) % TicketModulus \in 0 .. TicketModulus - 1 /\ (t + 1) % TicketModulus # t
<1>1. CASE t + 1 < TicketModulus
  BY <1>1, ThreadAssumption DEF ThreadAssumption
<1>2. CASE t + 1 = TicketModulus
  BY <1>2, ThreadAssumption DEF ThreadAssumption
<1>. QED  BY <1>1, <1>2, ThreadAssumption DEF ThreadAssumption

\* The worker sets IDLE.
LEMMA ThreadStartStep ==
  ASSUME IInv, ThreadStart
  PROVE  IInv'
<1>1. TypeOK'
  BY DEF IInv, ThreadStart, TypeOK, WorkerPcs, ControlPcs, MaybeTask, Results,
       Statuses
<1>2. CreateInv' /\ StatusInv' /\ StartInv' /\ TaskInv' /\ WaitInv' /\ WaitMeansDone' /\
        NotifyInv' /\ ResultInv'
  BY DEF IInv, ThreadStart, CreateInv, StatusInv, StartInv, NotTaken, IsTaken,
       TaskInv, WaitInv, WaitMeansDone, NotifyInv, Given, ResultInv
<1>. QED  BY <1>1, <1>2 DEF IInv

\* The first count: Init can return.
LEMMA CountStartStep ==
  ASSUME IInv, CountStart
  PROVE  IInv'
<1>1. TypeOK'
  BY CountChanges DEF IInv, CountStart, CountUp, TypeOK, WorkerPcs, ControlPcs,
       MaybeTask, Results, Statuses
<1>2. CreateInv' /\ StatusInv' /\ StartInv' /\ WaitInv' /\ WaitMeansDone' /\ NotifyInv'
        /\ ResultInv'
  BY DEF IInv, CountStart, CountUp, CreateInv, StatusInv, StartInv, NotTaken, IsTaken,
       WaitInv, WaitMeansDone, NotifyInv, Given, ResultInv
<1>3. TaskInv'
  BY DEF IInv, CountStart, CountUp, CreateInv, TaskInv
<1>. QED  BY <1>1, <1>2, <1>3 DEF IInv

\* The test of m_bEnd.
LEMMA TestEndStep ==
  ASSUME IInv, TestEnd
  PROVE  IInv'
<1>1. TypeOK'
  BY DEF IInv, TestEnd, TypeOK, WorkerPcs, ControlPcs, MaybeTask, Results, Statuses
<1>2. CreateInv' /\ StatusInv' /\ StartInv' /\ TaskInv' /\ WaitInv' /\ WaitMeansDone' /\
        NotifyInv' /\ ResultInv'
  BY DEF IInv, TestEnd, CreateInv, StatusInv, StartInv, NotTaken, IsTaken, TaskInv,
       WaitInv, WaitMeansDone, NotifyInv, Given, ResultInv
<1>. QED  BY <1>1, <1>2 DEF IInv

\* The worker waits.
LEMMA CondWaitStep ==
  ASSUME IInv, CondWait
  PROVE  IInv'
<1>1. TypeOK'
  BY DEF IInv, CondWait, TypeOK, WorkerPcs, ControlPcs, MaybeTask, Results, Statuses
<1>2. CreateInv' /\ StatusInv' /\ StartInv' /\ TaskInv' /\ WaitInv' /\ WaitMeansDone' /\
        NotifyInv' /\ ResultInv'
  BY DEF IInv, CondWait, CreateInv, StatusInv, StartInv, NotTaken, IsTaken, TaskInv,
       WaitInv, WaitMeansDone, NotifyInv, Given, ResultInv
<1>. QED  BY <1>1, <1>2 DEF IInv

\* Woken, the worker looks for a task.
LEMMA GetTaskStep ==
  ASSUME IInv, GetTask
  PROVE  IInv'
<1>1. TypeOK'
  BY DEF IInv, GetTask, TypeOK, WorkerPcs, ControlPcs, MaybeTask, Results, Statuses
<1>2. CreateInv' /\ StatusInv' /\ StartInv' /\ TaskInv' /\ WaitInv' /\ WaitMeansDone' /\
        NotifyInv' /\ ResultInv'
  BY DEF IInv, GetTask, CreateInv, StatusInv, StartInv, NotTaken, IsTaken, TaskInv,
       WaitInv, WaitMeansDone, NotifyInv, Given, ResultInv
<1>. QED  BY <1>1, <1>2 DEF IInv

\* The worker takes the task.
LEMMA BusyStep ==
  ASSUME IInv, Busy
  PROVE  IInv'
<1>1. TypeOK'
  BY DEF IInv, Busy, Take, TypeOK, WorkerPcs, ControlPcs, MaybeTask, Results, Statuses
<1>2. CreateInv' /\ StatusInv' /\ StartInv' /\ TaskInv' /\ WaitInv' /\ WaitMeansDone'
  BY DEF IInv, Busy, Take, CreateInv, StatusInv, StartInv, NotTaken, IsTaken, TaskInv,
       WaitInv, WaitMeansDone
<1>3. NotifyInv'
  BY DEF IInv, Busy, Take, StartInv, NotTaken, IsTaken, TaskInv, NotifyInv, Given
<1>4. ResultInv'
  <2>1. cpc \in Starting /\ m_pTask = arg /\ arg \in Tasks
    BY DEF IInv, Busy, StartInv, NotTaken, IsTaken, TaskInv
  <2>2. outcome = "none"
    BY ThreadAssumption DEF ThreadAssumption, IInv, Busy, ResultInv
  <2>. QED  BY <2>1, <2>2 DEF Busy, Take, ResultInv
<1>. QED  BY <1>1, <1>2, <1>3, <1>4 DEF IInv

\* The ticket moves: StartTask can return.
LEMMA CountBusyStep ==
  ASSUME IInv, CountBusy
  PROVE  IInv'
<1>1. TypeOK'
  BY CountChanges DEF IInv, CountBusy, CountUp, TypeOK, WorkerPcs, ControlPcs,
       MaybeTask, Results, Statuses
<1>2. CreateInv' /\ StatusInv' /\ TaskInv' /\ WaitInv' /\ WaitMeansDone' /\ NotifyInv'
        /\ ResultInv'
  BY DEF IInv, CountBusy, CountUp, CreateInv, StatusInv, TaskInv, WaitInv,
       WaitMeansDone, NotifyInv, Given, ResultInv
<1>3. StartInv'
  BY CountChanges DEF IInv, CountBusy, CountUp, TypeOK, MaybeTask, Results, Statuses,
       StartInv, NotTaken, IsTaken
<1>. QED  BY <1>1, <1>2, <1>3 DEF IInv

\* The client's TaskInit.
LEMMA TaskInitStep ==
  ASSUME IInv, TaskInit
  PROVE  IInv'
<1>1. TypeOK'
  BY DEF IInv, TaskInit, TypeOK, WorkerPcs, ControlPcs, MaybeTask, Results, Statuses,
       ResultInv
<1>2. CreateInv' /\ StatusInv' /\ StartInv' /\ TaskInv' /\ WaitInv' /\ WaitMeansDone' /\
        NotifyInv' /\ ResultInv'
  BY DEF IInv, TaskInit, CreateInv, StatusInv, StartInv, NotTaken, IsTaken, TaskInv,
       WaitInv, WaitMeansDone, NotifyInv, Given, ResultInv
<1>. QED  BY <1>1, <1>2 DEF IInv

\* The test of the task's m_bEnd.
LEMMA TestTaskEndStep ==
  ASSUME IInv, TestTaskEnd
  PROVE  IInv'
<1>1. TypeOK'
  BY DEF IInv, TestTaskEnd, TypeOK, WorkerPcs, ControlPcs, MaybeTask, Results,
       Statuses
<1>2. CreateInv' /\ StatusInv' /\ StartInv' /\ TaskInv' /\ WaitInv' /\ WaitMeansDone' /\
        NotifyInv'
  BY DEF IInv, TestTaskEnd, CreateInv, StatusInv, StartInv, NotTaken, IsTaken,
       TaskInv, WaitInv, WaitMeansDone, NotifyInv, Given
<1>3. ResultInv'
  BY DEF IInv, TestTaskEnd, TaskInv, ResultInv
<1>. QED  BY <1>1, <1>2, <1>3 DEF IInv

\* The client's TaskLoop.
LEMMA TaskLoopStep ==
  ASSUME IInv, TaskLoop
  PROVE  IInv'
<1>1. TypeOK'
  BY DEF IInv, TaskLoop, TypeOK, WorkerPcs, ControlPcs, MaybeTask, Results, Statuses,
       StartInv, NotTaken, IsTaken, TaskInv
<1>2. CreateInv' /\ StatusInv' /\ StartInv' /\ TaskInv' /\ WaitInv' /\ WaitMeansDone' /\
        NotifyInv'
  BY DEF IInv, TaskLoop, CreateInv, StatusInv, StartInv, NotTaken, IsTaken, TaskInv,
       WaitInv, WaitMeansDone, NotifyInv, Given
<1>3. ResultInv'
  BY DEF IInv, TaskLoop, TypeOK, MaybeTask, Results, Statuses, StartInv, NotTaken,
       IsTaken, TaskInv, ResultInv
<1>. QED  BY <1>1, <1>2, <1>3 DEF IInv

\* The callback, if there is one.
LEMMA NotifyStep ==
  ASSUME IInv, Notify
  PROVE  IInv'
<1>1. TypeOK'
  BY DEF IInv, Notify, TypeOK, WorkerPcs, ControlPcs, MaybeTask, Results, Statuses
<1>2. CreateInv' /\ StatusInv' /\ StartInv' /\ TaskInv' /\ WaitInv' /\ WaitMeansDone' /\
        NotifyInv' /\ ResultInv'
  BY DEF IInv, Notify, CreateInv, StatusInv, StartInv, NotTaken, IsTaken, TaskInv,
       WaitInv, WaitMeansDone, NotifyInv, Given, ResultInv
<1>. QED  BY <1>1, <1>2 DEF IInv

\* The callback is forgotten.
LEMMA ResetNotifyStep ==
  ASSUME IInv, ResetNotify
  PROVE  IInv'
<1>1. TypeOK'
  BY DEF IInv, ResetNotify, TypeOK, WorkerPcs, ControlPcs, MaybeTask, Results,
       Statuses
<1>2. CreateInv' /\ StatusInv' /\ StartInv' /\ TaskInv' /\ WaitInv' /\ WaitMeansDone' /\
        ResultInv'
  BY DEF IInv, ResetNotify, CreateInv, StatusInv, StartInv, NotTaken, IsTaken,
       TaskInv, WaitInv, WaitMeansDone, ResultInv
<1>3. NotifyInv'
  BY DEF IInv, ResetNotify, StartInv, NotTaken, IsTaken, NotifyInv, Given
<1>. QED  BY <1>1, <1>2, <1>3 DEF IInv

\* The task is forgotten.
LEMMA ClearTaskStep ==
  ASSUME IInv, ClearTask
  PROVE  IInv'
<1>1. TypeOK'
  BY DEF IInv, ClearTask, TypeOK, WorkerPcs, ControlPcs, MaybeTask, Results, Statuses
<1>2. CreateInv' /\ StatusInv' /\ StartInv' /\ TaskInv' /\ WaitInv' /\ WaitMeansDone' /\
        NotifyInv' /\ ResultInv'
  BY DEF IInv, ClearTask, CreateInv, StatusInv, StartInv, NotTaken, IsTaken, TaskInv,
       WaitInv, WaitMeansDone, NotifyInv, Given, ResultInv
<1>. QED  BY <1>1, <1>2 DEF IInv

\* IDLE again.
LEMMA SetIdleStep ==
  ASSUME IInv, SetIdle
  PROVE  IInv'
<1>1. TypeOK'
  BY DEF IInv, SetIdle, TypeOK, WorkerPcs, ControlPcs, MaybeTask, Results, Statuses
<1>2. CreateInv' /\ StatusInv' /\ StartInv' /\ TaskInv' /\ WaitInv' /\ WaitMeansDone' /\
        NotifyInv' /\ ResultInv'
  BY DEF IInv, SetIdle, CreateInv, StatusInv, StartInv, NotTaken, IsTaken, TaskInv,
       WaitInv, WaitMeansDone, NotifyInv, Given, ResultInv
<1>. QED  BY <1>1, <1>2 DEF IInv

\* The worker leaves its loop.
LEMMA ThreadEndStep ==
  ASSUME IInv, ThreadEnd
  PROVE  IInv'
<1>1. TypeOK'
  BY DEF IInv, ThreadEnd, TypeOK, WorkerPcs, ControlPcs, MaybeTask, Results, Statuses
<1>2. CreateInv' /\ StatusInv' /\ StartInv' /\ TaskInv' /\ WaitInv' /\ WaitMeansDone' /\
        NotifyInv' /\ ResultInv'
  BY DEF IInv, ThreadEnd, CreateInv, StatusInv, StartInv, NotTaken, IsTaken, TaskInv,
       WaitInv, WaitMeansDone, NotifyInv, Given, ResultInv
<1>. QED  BY <1>1, <1>2 DEF IInv

\* A wakeup nobody sent.
LEMMA SpuriousWakeupStep ==
  ASSUME IInv, SpuriousWakeup
  PROVE  IInv'
<1>1. TypeOK'
  BY DEF IInv, SpuriousWakeup, TypeOK, WorkerPcs, ControlPcs, MaybeTask, Results,
       Statuses
<1>2. CreateInv' /\ StatusInv' /\ StartInv' /\ TaskInv' /\ WaitInv' /\ WaitMeansDone' /\
        NotifyInv' /\ ResultInv'
  BY DEF IInv, SpuriousWakeup, CreateInv, StatusInv, StartInv, NotTaken, IsTaken,
       TaskInv, WaitInv, WaitMeansDone, NotifyInv, Given, ResultInv
<1>. QED  BY <1>1, <1>2 DEF IInv

\* The cancellation takes effect.
LEMMA CancelledStep ==
  ASSUME IInv, Cancelled
  PROVE  IInv'
<1>1. TypeOK'
  BY DEF IInv, Cancelled, TypeOK, WorkerPcs, ControlPcs, MaybeTask, Results, Statuses
<1>2. CreateInv' /\ StatusInv' /\ StartInv' /\ TaskInv' /\ WaitInv' /\ WaitMeansDone' /\
        NotifyInv' /\ ResultInv'
  BY DEF IInv, Cancelled, CreateInv, StatusInv, StartInv, NotTaken, IsTaken, TaskInv,
       WaitInv, WaitMeansDone, NotifyInv, Given, ResultInv
<1>. QED  BY <1>1, <1>2 DEF IInv

\* Init sees the ticket move.
LEMMA InitReturnStep ==
  ASSUME IInv, InitReturn
  PROVE  IInv'
<1>1. TypeOK'
  BY ThreadAssumption DEF IInv, InitReturn, TypeOK, WorkerPcs, ControlPcs, MaybeTask,
       Results, Statuses, ThreadAssumption
<1>2. CreateInv' /\ StatusInv' /\ StartInv' /\ TaskInv' /\ WaitInv' /\ WaitMeansDone' /\
        NotifyInv' /\ ResultInv'
  BY DEF IInv, InitReturn, CreateInv, StatusInv, StartInv, NotTaken, IsTaken, TaskInv,
       WaitInv, WaitMeansDone, NotifyInv, Given, ResultInv
<1>. QED  BY <1>1, <1>2 DEF IInv

\* StartTask sets m_pTask.
LEMMA SetTaskStep ==
  ASSUME IInv, SetTask
  PROVE  IInv'
<1>1. TypeOK'
  BY DEF IInv, SetTask, TypeOK, WorkerPcs, ControlPcs, MaybeTask, Results, Statuses
<1>2. CreateInv' /\ StatusInv' /\ StartInv' /\ WaitInv' /\ WaitMeansDone' /\ NotifyInv'
  BY DEF IInv, SetTask, CreateInv, StatusInv, StartInv, NotTaken, IsTaken, WaitInv,
       WaitMeansDone, NotifyInv, Given
<1>3. TaskInv'
  BY DEF IInv, SetTask, StartInv, NotTaken, IsTaken, TaskInv
<1>4. ResultInv'
  BY DEF IInv, SetTask, StartInv, NotTaken, IsTaken, ResultInv
<1>. QED  BY <1>1, <1>2, <1>3, <1>4 DEF IInv

\* StartTask sets m_notify.
LEMMA SetNotifyStep ==
  ASSUME IInv, SetNotify
  PROVE  IInv'
<1>1. TypeOK'
  BY DEF IInv, SetNotify, TypeOK, WorkerPcs, ControlPcs, MaybeTask, Results, Statuses
<1>2. CreateInv' /\ StatusInv' /\ StartInv' /\ TaskInv' /\ WaitInv' /\ WaitMeansDone' /\
        NotifyInv' /\ ResultInv'
  BY DEF IInv, SetNotify, CreateInv, StatusInv, StartInv, NotTaken, IsTaken, TaskInv,
       WaitInv, WaitMeansDone, NotifyInv, Given, ResultInv
<1>. QED  BY <1>1, <1>2 DEF IInv

\* StartTask sets m_pArg.
LEMMA SetArgStep ==
  ASSUME IInv, SetArg
  PROVE  IInv'
<1>1. TypeOK'
  BY DEF IInv, SetArg, TypeOK, WorkerPcs, ControlPcs, MaybeTask, Results, Statuses
<1>2. CreateInv' /\ StatusInv' /\ StartInv' /\ TaskInv' /\ WaitInv' /\ WaitMeansDone' /\
        NotifyInv' /\ ResultInv'
  BY DEF IInv, SetArg, CreateInv, StatusInv, StartInv, NotTaken, IsTaken, TaskInv,
       WaitInv, WaitMeansDone, NotifyInv, Given, ResultInv
<1>. QED  BY <1>1, <1>2 DEF IInv

\* StartTask signals.
LEMMA SignalTaskStep ==
  ASSUME IInv, SignalTask
  PROVE  IInv'
<1>1. TypeOK'
  BY DEF IInv, SignalTask, Signal, TypeOK, WorkerPcs, ControlPcs, MaybeTask, Results,
       Statuses
<1>2. CreateInv' /\ StatusInv' /\ StartInv' /\ TaskInv' /\ WaitInv' /\ WaitMeansDone' /\
        NotifyInv' /\ ResultInv'
  BY DEF IInv, SignalTask, Signal, CreateInv, StatusInv, StartInv, NotTaken, IsTaken,
       TaskInv, WaitInv, WaitMeansDone, NotifyInv, Given, ResultInv
<1>. QED  BY <1>1, <1>2 DEF IInv

\* StartTask sees the ticket move.
LEMMA StartReturnStep ==
  ASSUME IInv, StartReturn
  PROVE  IInv'
<1>1. TypeOK'
  BY ThreadAssumption DEF IInv, StartReturn, TypeOK, WorkerPcs, ControlPcs, MaybeTask,
       Results, Statuses, ThreadAssumption
<1>2. CreateInv' /\ StatusInv' /\ StartInv' /\ WaitInv' /\ WaitMeansDone' /\ NotifyInv'
        /\ ResultInv'
  BY DEF IInv, StartReturn, CreateInv, StatusInv, StartInv, NotTaken, IsTaken,
       WaitInv, WaitMeansDone, NotifyInv, Given, ResultInv
<1>3. TaskInv'
  BY DEF IInv, StartReturn, StartInv, NotTaken, IsTaken, TaskInv
<1>. QED  BY <1>1, <1>2, <1>3 DEF IInv

\* TerminalTask sets the task's m_bEnd.
LEMMA SetEndStep ==
  ASSUME IInv, SetEnd
  PROVE  IInv'
<1>1. TypeOK'
  <2>1. taskEnd' \in [Tasks -> BOOLEAN]
    BY DEF IInv, SetEnd, TypeOK
  <2>2. cpc' \in ControlPcs
    BY DEF IInv, SetEnd, TypeOK, ControlPcs
  <2>3. UNCHANGED <<shared, m_nResult, outcome, nTmpTicket, arg, withNotify, wait, ret,
                    waited, worker, cancel, history>>
    BY DEF SetEnd
  <2>. QED  BY <2>1, <2>2, <2>3 DEF IInv, TypeOK
<1>2. CreateInv' /\ TaskInv' /\ WaitInv' /\ WaitMeansDone' /\ ResultInv'
  BY DEF IInv, SetEnd, CreateInv, TaskInv, WaitInv, WaitMeansDone, ResultInv
<1>3. StatusInv'
  BY DEF IInv, SetEnd, TypeOK, MaybeTask, Results, Statuses, ControlPcs, StatusInv
<1>4. StartInv'
  BY DEF IInv, SetEnd, TypeOK, MaybeTask, Results, Statuses, ControlPcs, StartInv,
       NotTaken, IsTaken
<1>5. NotifyInv'
  BY DEF IInv, SetEnd, TypeOK, MaybeTask, Results, Statuses, ControlPcs, NotifyInv,
       Given
<1>. QED  BY <1>1, <1>2, <1>3, <1>4, <1>5 DEF IInv

\* TerminalTask waits no more.
LEMMA EndSpinStep ==
  ASSUME IInv, EndSpin
  PROVE  IInv'
<1>1. TypeOK'
  BY DEF IInv, EndSpin, TypeOK, WorkerPcs, ControlPcs, MaybeTask, Results, Statuses
<1>2. CreateInv' /\ TaskInv' /\ WaitInv' /\ WaitMeansDone' /\ ResultInv'
  BY DEF IInv, EndSpin, CreateInv, TaskInv, WaitInv, WaitMeansDone, ResultInv
<1>3. StatusInv'
  BY DEF IInv, EndSpin, TypeOK, MaybeTask, Results, Statuses, ControlPcs, StatusInv
<1>4. StartInv'
  BY DEF IInv, EndSpin, TypeOK, MaybeTask, Results, Statuses, ControlPcs, StartInv,
       NotTaken, IsTaken
<1>5. NotifyInv'
  BY DEF IInv, EndSpin, TypeOK, MaybeTask, Results, Statuses, ControlPcs, NotifyInv,
       Given
<1>. QED  BY <1>1, <1>2, <1>3, <1>4, <1>5 DEF IInv

\* TerminalThread(true) sets the status.
LEMMA ForceStatusStep ==
  ASSUME IInv, ForceStatus
  PROVE  IInv'
<1>1. TypeOK'
  BY DEF IInv, ForceStatus, TypeOK, WorkerPcs, ControlPcs, MaybeTask, Results,
       Statuses
<1>2. CreateInv' /\ StatusInv' /\ StartInv' /\ TaskInv' /\ WaitInv' /\ WaitMeansDone' /\
        NotifyInv' /\ ResultInv'
  BY DEF IInv, ForceStatus, CreateInv, StatusInv, StartInv, NotTaken, IsTaken,
       TaskInv, WaitInv, WaitMeansDone, NotifyInv, Given, ResultInv
<1>. QED  BY <1>1, <1>2 DEF IInv

\* TerminalThread sets m_bEnd.
LEMMA SetThreadEndStep ==
  ASSUME IInv, SetThreadEnd
  PROVE  IInv'
<1>1. TypeOK'
  BY DEF IInv, SetThreadEnd, TypeOK, WorkerPcs, ControlPcs, MaybeTask, Results,
       Statuses
<1>2. CreateInv' /\ StatusInv' /\ StartInv' /\ TaskInv' /\ WaitInv' /\ WaitMeansDone' /\
        NotifyInv' /\ ResultInv'
  BY DEF IInv, SetThreadEnd, CreateInv, StatusInv, StartInv, NotTaken, IsTaken,
       TaskInv, WaitInv, WaitMeansDone, NotifyInv, Given, ResultInv
<1>. QED  BY <1>1, <1>2 DEF IInv

\* TerminalThread signals.
LEMMA SignalEndStep ==
  ASSUME IInv, SignalEnd
  PROVE  IInv'
<1>1. TypeOK'
  BY DEF IInv, SignalEnd, Signal, TypeOK, WorkerPcs, ControlPcs, MaybeTask, Results,
       Statuses
<1>2. CreateInv' /\ StatusInv' /\ StartInv' /\ TaskInv' /\ WaitInv' /\ WaitMeansDone' /\
        NotifyInv' /\ ResultInv'
  BY DEF IInv, SignalEnd, Signal, CreateInv, StatusInv, StartInv, NotTaken, IsTaken,
       TaskInv, WaitInv, WaitMeansDone, NotifyInv, Given, ResultInv
<1>. QED  BY <1>1, <1>2 DEF IInv

\* pthread_join returns.
LEMMA JoinStep ==
  ASSUME IInv, Join
  PROVE  IInv'
<1>1. TypeOK'
  BY DEF IInv, Join, TypeOK, WorkerPcs, ControlPcs, MaybeTask, Results, Statuses
<1>2. CreateInv' /\ StatusInv' /\ StartInv' /\ TaskInv' /\ WaitInv' /\ WaitMeansDone' /\
        NotifyInv' /\ ResultInv'
  BY DEF IInv, Join, CreateInv, StatusInv, StartInv, NotTaken, IsTaken, TaskInv,
       WaitInv, WaitMeansDone, NotifyInv, Given, ResultInv
<1>. QED  BY <1>1, <1>2 DEF IInv

\* Init is called.
LEMMA CallInitStep ==
  ASSUME IInv, CallInit
  PROVE  IInv'
<1>1. TypeOK'
  BY DEF IInv, CallInit, TypeOK, WorkerPcs, ControlPcs, MaybeTask, Results, Statuses
<1>2. CreateInv' /\ StatusInv' /\ StartInv' /\ WaitInv' /\ NotifyInv' /\ ResultInv'
  BY DEF IInv, CallInit, CreateInv, StatusInv, StartInv, NotTaken, IsTaken, WaitInv,
       NotifyInv, Given, ResultInv
<1>3. TaskInv'
  BY DEF IInv, CallInit, CreateInv, TaskInv
<1>4. WaitMeansDone'
  BY DEF IInv, CallInit, CreateInv, WaitMeansDone
<1>. QED  BY <1>1, <1>2, <1>3, <1>4 DEF IInv

\* TerminalThread(false) is called.
LEMMA TerminalThreadStep ==
  ASSUME IInv, TerminalThread
  PROVE  IInv'
<1>1. TypeOK'
  <2>1. CASE TestTask(TRUE, "stop")
    BY <2>1 DEF IInv, TerminalThread, TestTask, TypeOK, WorkerPcs, ControlPcs,
         MaybeTask, Results, Statuses
  <2>2. CASE Control("free", "stop")
    BY <2>2 DEF IInv, TerminalThread, TestTask, TypeOK, WorkerPcs, ControlPcs,
         MaybeTask, Results, Statuses
  <2>. QED  BY <2>1, <2>2 DEF TerminalThread, TestTask
<1>2. CreateInv' /\ StatusInv' /\ StartInv' /\ TaskInv' /\ WaitInv' /\ NotifyInv' /\
        ResultInv'
  BY DEF IInv, TerminalThread, TestTask, CreateInv, StatusInv, StartInv, NotTaken,
       IsTaken, TaskInv, WaitInv, NotifyInv, Given, ResultInv
<1>3. WaitMeansDone'
  <2>1. CASE TestTask(TRUE, "stop")
    BY <2>1 DEF IInv, TerminalThread, TestTask, WaitMeansDone
  <2>2. CASE Control("free", "stop")
    BY <2>2 DEF IInv, TerminalThread, TestTask, WaitMeansDone
  <2>. QED  BY <2>1, <2>2 DEF TerminalThread, TestTask
<1>. QED  BY <1>1, <1>2, <1>3 DEF IInv

\* TerminalThread(true) is called.
LEMMA TerminalThreadForceStep ==
  ASSUME IInv, TerminalThreadForce
  PROVE  IInv'
<1>1. TypeOK'
  BY DEF IInv, TerminalThreadForce, TypeOK, WorkerPcs, ControlPcs, MaybeTask, Results,
       Statuses
<1>2. CreateInv' /\ StatusInv' /\ StartInv' /\ TaskInv' /\ WaitInv' /\ WaitMeansDone' /\
        NotifyInv' /\ ResultInv'
  BY DEF IInv, TerminalThreadForce, CreateInv, StatusInv, StartInv, NotTaken, IsTaken,
       TaskInv, WaitInv, WaitMeansDone, NotifyInv, Given, ResultInv
<1>. QED  BY <1>1, <1>2 DEF IInv

\* WaitThreadEnd is called.
LEMMA WaitThreadEndStep ==
  ASSUME IInv, WaitThreadEnd
  PROVE  IInv'
<1>1. TypeOK'
  <2>1. CASE Control("free", "free")
    BY <2>1 DEF IInv, WaitThreadEnd, TypeOK, WorkerPcs, ControlPcs, MaybeTask,
         Results, Statuses
  <2>2. CASE Control("free", "join")
    BY <2>2 DEF IInv, WaitThreadEnd, TypeOK, WorkerPcs, ControlPcs, MaybeTask,
         Results, Statuses
  <2>. QED  BY <2>1, <2>2 DEF WaitThreadEnd
<1>2. CreateInv' /\ StatusInv' /\ StartInv' /\ TaskInv' /\ WaitInv' /\ NotifyInv' /\
        ResultInv'
  BY DEF IInv, WaitThreadEnd, CreateInv, StatusInv, StartInv, NotTaken, IsTaken,
       TaskInv, WaitInv, NotifyInv, Given, ResultInv
<1>3. WaitMeansDone'
  <2>1. CASE Control("free", "free")
    BY <2>1 DEF IInv, WaitThreadEnd, StatusInv, WaitMeansDone
  <2>2. CASE Control("free", "join")
    BY <2>2 DEF IInv, WaitThreadEnd, StatusInv, WaitMeansDone
  <2>. QED  BY <2>1, <2>2 DEF WaitThreadEnd
<1>. QED  BY <1>1, <1>2, <1>3 DEF IInv

\* StartTask is called.
LEMMA StartTaskStep ==
  ASSUME IInv, NEW t \in Tasks, NEW n \in BOOLEAN, StartTask(t, n)
  PROVE  IInv'
<1>1. TypeOK'
  BY DEF IInv, StartTask, TypeOK, WorkerPcs, ControlPcs, MaybeTask, Results, Statuses
<1>2. CreateInv' /\ StatusInv' /\ TaskInv' /\ WaitInv' /\ WaitMeansDone' /\
        ResultInv'
  BY DEF IInv, StartTask, CreateInv, StatusInv, TaskInv, WaitInv, WaitMeansDone,
       ResultInv
<1>3. StartInv'
  BY DEF IInv, StartTask, TypeOK, MaybeTask, Results, Statuses, WorkerPcs, CreateInv,
       StatusInv, StartInv, NotTaken, IsTaken, TaskInv
<1>4. NotifyInv'
  BY DEF IInv, StartTask, StatusInv, NotifyInv, Given
<1>. QED  BY <1>1, <1>2, <1>3, <1>4 DEF IInv

\* TerminalTask is called.
LEMMA TerminalTaskStep ==
  ASSUME IInv, NEW w \in BOOLEAN, TerminalTask(w)
  PROVE  IInv'
<1>1. TypeOK'
  BY DEF IInv, TerminalTask, TestTask, TypeOK, WorkerPcs, ControlPcs, MaybeTask,
       Results, Statuses
<1>2. CreateInv' /\ StatusInv' /\ StartInv' /\ TaskInv' /\ WaitInv' /\ WaitMeansDone' /\
        NotifyInv' /\ ResultInv'
  BY DEF IInv, TerminalTask, TestTask, CreateInv, StatusInv, StartInv, NotTaken,
       IsTaken, TaskInv, WaitInv, WaitMeansDone, NotifyInv, Given, ResultInv
<1>. QED  BY <1>1, <1>2 DEF IInv
----------------------------------------------------------------------------
LEMMA InitIInv == Init => IInv
<1>. SUFFICES ASSUME Init  PROVE IInv
  OBVIOUS
<1>1. TypeOK
  <2>1. 0 \in 0 .. TicketModulus - 1
    BY ThreadAssumption DEF ThreadAssumption
  <2>2. taskEnd \in [Tasks -> BOOLEAN] /\ m_nResult \in [Tasks -> Results]
    BY DEF Init, Results
  <2>. QED  BY <2>1, <2>2 DEF Init, TypeOK, WorkerPcs, ControlPcs, MaybeTask, Results, Statuses
<1>2. CreateInv /\ StatusInv /\ StartInv /\ TaskInv /\ WaitInv /\ WaitMeansDone
      /\ NotifyInv /\ ResultInv
  BY DEF Init, CreateInv, StatusInv, StartInv, TaskInv, WaitInv, WaitMeansDone, NotifyInv,
     ResultInv
<1>. QED  BY <1>1, <1>2 DEF IInv

LEMMA NextIInv == IInv /\ [Next]_vars => IInv'
<1>. SUFFICES ASSUME IInv, [Next]_vars  PROVE IInv'
  OBVIOUS
<1>1. CASE WorkerStep
  BY <1>1, ThreadStartStep, CountStartStep, TestEndStep, CondWaitStep, GetTaskStep, BusyStep,
     CountBusyStep, TaskInitStep, TestTaskEndStep, TaskLoopStep, NotifyStep, ResetNotifyStep,
     ClearTaskStep, SetIdleStep, ThreadEndStep DEF WorkerStep
<1>2. CASE CallStep
  BY <1>2, InitReturnStep, SetTaskStep, SetNotifyStep, SetArgStep, SignalTaskStep,
     StartReturnStep, SetEndStep, EndSpinStep, ForceStatusStep, SetThreadEndStep,
     SignalEndStep, JoinStep DEF CallStep
<1>3. CASE Call
  BY <1>3, CallInitStep, StartTaskStep, TerminalTaskStep, TerminalThreadStep,
     TerminalThreadForceStep, WaitThreadEndStep DEF Call
<1>4. CASE UNCHANGED vars
  BY <1>4 DEF IInv, TypeOK, CreateInv, StatusInv, StartInv, NotTaken, IsTaken, TaskInv,
     WaitInv, WaitMeansDone, NotifyInv, Given, ResultInv
<1>. QED  BY <1>1, <1>2, <1>3, <1>4, SpuriousWakeupStep, CancelledStep DEF Next

\* What every reachable state satisfies: the hand-over of a task to the
\* worker is in one of two stages, and only the worker ends the second.
THEOREM Inductive == Spec => []IInv
  BY InitIInv, NextIInv, PTL DEF Spec

\* Type correctness of the members of TThread and of both threads' locals.
THEOREM Typing == Spec => []TypeOK
  BY Inductive, PTL DEF IInv

\* The task in m_pTask stays the one the worker runs, for the whole run.
THEOREM NoOtherTask == Spec => []TaskStable
<1>1. IInv => TaskStable
  BY ThreadAssumption DEF ThreadAssumption, IInv, TaskStable, Running, TaskInv, StartInv,
     NotTaken, IsTaken
<1>. QED  BY <1>1, Inductive, PTL

\* WaitThreadEnd does not return 0 before the worker is through.
THEOREM WaitsForEnd == Spec => []WaitMeansDone
  BY Inductive, PTL DEF IInv

\* The callback called is the one StartTask was given for this task.
THEOREM CallbackExact == Spec => []NotifyExact
<1>1. IInv => NotifyExact
  BY DEF IInv, NotifyInv, NotifyExact
<1>. QED  BY <1>1, Inductive, PTL

\* A thread that is IDLE again is through with the task it was given, and the
\* task's result is the one its TaskLoop returned last.
THEOREM IdleAgain == Spec => []IdleMeansDone
<1>1. IInv => IdleMeansDone
  BY DEF IInv, IdleMeansDone, Running, StatusInv, TaskInv, ResultInv
<1>. QED  BY <1>1, Inductive, PTL
----------------------------------------------------------------------------

\* The steps by which the controller leaves a spinning loop or reaches the
\* line that sets m_bEnd, and the one by which the worker takes a task.
LEMMA WhoMoves ==
  ASSUME [Next]_vars
  PROVE  /\ cpc = "startSpin" /\ cpc' # cpc => StartReturn
         /\ cpc = "endSpin" /\ cpc' # cpc => EndSpin
         /\ cpc # "stop" /\ cpc' = "stop" =>
              EndSpin \/ (SetEnd /\ ~wait) \/ ForceStatus \/ (TerminalThread /\ m_pTask = NoTask)
         /\ wpc = "busy" /\ wpc' = "count" => Busy
<1>1. CASE WorkerStep
  BY <1>1 DEF WorkerStep, ThreadStart, CountStart, TestEnd, CondWait, GetTask, Busy, CountBusy,
     TaskInit, TestTaskEnd, TaskLoop, Notify, ResetNotify, ClearTask, SetIdle, ThreadEnd,
     CountUp
<1>2. CASE CallStep
  BY <1>2 DEF CallStep, InitReturn, SetTask, SetNotify, SetArg, SignalTask, StartReturn,
     SetEnd, EndSpin, ForceStatus, SetThreadEnd, SignalEnd, Join, Signal
<1>3. CASE Call
  BY <1>3 DEF Call, CallInit, StartTask, TerminalTask, TestTask, TerminalThread,
     TerminalThreadForce, WaitThreadEnd
<1>4. CASE SpuriousWakeup \/ Cancelled \/ UNCHANGED vars
  BY <1>4 DEF SpuriousWakeup, Cancelled
<1>. QED  BY <1>1, <1>2, <1>3, <1>4 DEF Next

\* StartTask returns 0 only after the worker has taken the task it was given.
THEOREM StartTaskTaken == Spec => StartMeansTaken
<1>1. IInv /\ [Next]_vars => [cpc = "startSpin" /\ cpc' = "free" => taken = arg]_vars
  BY WhoMoves DEF IInv, StartInv, NotTaken, IsTaken, StartReturn
<1>. QED  BY <1>1, Inductive, PTL DEF Spec, StartMeansTaken

\* The worker takes a task once for each StartTask.
THEOREM OneRunPerStart == Spec => TakenOnce
<1>1. IInv /\ [Next]_vars => [wpc = "busy" /\ wpc' = "count" => taken = NoTask]_vars
  BY DEF IInv, StartInv, NotTaken, IsTaken, TaskInv
<1>. QED  BY <1>1, Inductive, PTL DEF Spec, TakenOnce

\* TerminalTask(true) and TerminalThread(false) go on only when no task runs.
THEOREM TerminalWaitsForTask == Spec => TerminalWaits
<1>1. ASSUME IInv, [Next]_vars, cpc' # cpc, cpc = "endSpin" \/ cpc' = "stop", ~cancel
      PROVE  ~Running
  <2>1. CASE EndSpin
    BY <1>1, <2>1 DEF EndSpin, Running, IInv, StatusInv, TaskInv
  <2>2. CASE SetEnd /\ ~wait
    BY <1>1, <2>2 DEF SetEnd, IInv, WaitInv
  <2>3. CASE ForceStatus
    BY <1>1, <2>3 DEF ForceStatus, IInv, StatusInv
  <2>4. CASE TerminalThread /\ m_pTask = NoTask
    BY <1>1, <2>4, ThreadAssumption
       DEF ThreadAssumption, TerminalThread, TestTask, Running, IInv, TaskInv
  <2>. QED  BY <1>1, <2>1, <2>2, <2>3, <2>4, WhoMoves
<1>2. IInv /\ [Next]_vars =>
        [cpc' # cpc /\ (cpc = "endSpin" \/ cpc' = "stop") /\ ~cancel => ~Running]_vars
  BY <1>1
<1>. QED  BY <1>2, Inductive, PTL DEF Spec, TerminalWaits
----------------------------------------------------------------------------
\* A step that changes neither m_pTask nor the worker's part of the loop
\* leaves the abstract runner alone.
LEMMA RunnerStutters ==
  ASSUME m_pTask' = m_pTask, Running' = Running, (wpc \in Over)' = (wpc \in Over)
  PROVE  UNCHANGED Runner!vars
  BY DEF Runner!vars

\* Every step of TThread is a step of TaskRunner or leaves it alone.
LEMMA NextRunner == IInv /\ [Next]_vars => [Runner!Next]_Runner!vars
<1>. SUFFICES ASSUME IInv, [Next]_vars  PROVE [Runner!Next]_Runner!vars
  OBVIOUS
<1>1. CASE SetTask
  <2>1. wpc \in Over => UNCHANGED Runner!vars
    BY <1>1 DEF SetTask, Runner!vars, Running
  <2>2. wpc \notin Over => arg \in Tasks /\ Runner!Give(arg)
    BY <1>1, ThreadAssumption DEF ThreadAssumption, SetTask, Runner!Give, Running, IInv,
       StartInv, NotTaken, IsTaken
  <2>. QED  BY <2>1, <2>2 DEF Runner!Next
<1>2. CASE GetTask
  <2>1. m_pTask # NoTask => Runner!Take
    BY <1>2 DEF GetTask, Running, Runner!Take
  <2>2. m_pTask = NoTask => UNCHANGED Runner!vars
    BY <1>2 DEF GetTask, Running, Runner!vars
  <2>. QED  BY <2>1, <2>2 DEF Runner!Next
<1>3. CASE ClearTask
  <2>1. Runner!Finish
    BY <1>3 DEF ClearTask, Running, Runner!Finish
  <2>. QED  BY <2>1 DEF Runner!Next
<1>4. CASE TestEnd
  <2>1. m_bEnd => Runner!Stop
    BY <1>4 DEF TestEnd, Running, Runner!Stop
  <2>2. ~m_bEnd => UNCHANGED Runner!vars
    BY <1>4 DEF TestEnd, Running, Runner!vars
  <2>. QED  BY <2>1, <2>2 DEF Runner!Next
<1>5. CASE Cancelled
  <2>1. Runner!Stop
    BY <1>5 DEF Cancelled, Running, Runner!Stop
  <2>. QED  BY <2>1 DEF Runner!Next
<1>6. CASE WorkerStep /\ ~(GetTask \/ ClearTask \/ TestEnd)
  BY <1>6, RunnerStutters DEF WorkerStep, ThreadStart, CountStart, CondWait, Busy, CountBusy,
     TaskInit, TestTaskEnd, TaskLoop, Notify, ResetNotify, SetIdle, ThreadEnd, CountUp, Running
<1>7. CASE CallStep /\ ~SetTask
  BY <1>7, RunnerStutters DEF CallStep, InitReturn, SetNotify, SetArg, SignalTask, StartReturn,
     SetEnd, EndSpin, ForceStatus, SetThreadEnd, SignalEnd, Join, Signal, Running
<1>8. CASE Call
  <2>1. CallInit => wpc = "none" /\ wpc' \in {"none", "start"} /\ m_pTask' = m_pTask
    BY DEF CallInit, IInv, CreateInv
  <2>2. ~CallInit => wpc' = wpc /\ m_pTask' = m_pTask
    BY <1>8 DEF Call, StartTask, TerminalTask, TestTask, TerminalThread, TerminalThreadForce,
       WaitThreadEnd
  <2>. QED  BY <2>1, <2>2, RunnerStutters DEF Running
<1>9. CASE SpuriousWakeup \/ UNCHANGED vars
  BY <1>9, RunnerStutters DEF SpuriousWakeup, Running
<1>. QED  BY <1>1, <1>2, <1>3, <1>4, <1>5, <1>6, <1>7, <1>8, <1>9 DEF Next

\* TThread implements TaskRunner: tasks run one at a time, each of them given
\* by StartTask, taken once and run to its end, unless the worker stops.
THEOREM Refinement == Spec => RunnerSpec
<1>1. Init => Runner!Init
  BY DEF Init, Runner!Init, Running
<1>. QED  BY <1>1, NextRunner, Inductive, PTL DEF Spec, RunnerSpec, Runner!Spec
=============================================================================
