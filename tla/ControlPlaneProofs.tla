------------------------- MODULE ControlPlaneProofs -------------------------
(***************************************************************************)
(* Proofs about ControlPlane: every reachable state is well typed, what is *)
(* shown as completed, delivered or ended is so, and the table and those   *)
(* who execute tasks go through the life cycle of TaskLifecycle.  The type *)
(* invariant includes that agents and unfinished handlers only ever work   *)
(* on tasks that are in the table, which typing the table itself needs.    *)
(* Nothing is assumed of operators, messages or processes: every theorem   *)
(* is about Spec as it is.                                                 *)
(***************************************************************************)
EXTENDS ControlPlane, TLAPS

\* Tasks stay well typed and none disappears.
TasksGrow ==
  /\ task' \in [TaskIds -> Task \cup {NoTask}]
  /\ \A t \in TaskIds : task[t] # NoTask => task'[t] # NoTask

\* A task without a state is no task.
LEMMA StateOfTask ==
  ASSUME WellTyped, NEW t \in TaskIds
  PROVE  /\ task[t] # NoTask <=> task[t] \in Task
         /\ task[t] # NoTask <=> task[t].state # "none"
         /\ task[t] \in Task => task[t].target \in Nodes /\ task[t].detail \in Details
  BY DEF WellTyped, DatabaseOK, Task, NoTask, JobStates

\* Scheduling a task keeps the table well typed.
LEMMA ScheduleGrows ==
  ASSUME WellTyped, NEW t \in TaskIds, NEW s \in Nodes, NEW n \in Nodes, NEW d \in Details,
         ScheduleTask(t, s, n, d)
  PROVE  TasksGrow /\ task'[t] # NoTask
<1>1. [state |-> "queued", source |-> s, target |-> n, detail |-> d] \in Task
  BY DEF Task, JobStates
<1>2. [state |-> "queued", source |-> s, target |-> n, detail |-> d] # NoTask
  BY DEF NoTask
<1> QED
  BY <1>1, <1>2 DEF TasksGrow, ScheduleTask, WellTyped, DatabaseOK

\* Updating an existing task keeps the table well typed.
LEMMA UpdateGrows ==
  ASSUME WellTyped, NEW t \in TaskIds, task[t] # NoTask, NEW s \in JobStates, NEW d \in Details,
         UpdateTaskState(t, s, d)
  PROVE  /\ TasksGrow /\ task'[t] # NoTask
         /\ task' = [task EXCEPT ![t] = [state |-> s, source |-> task[t].source,
                                         target |-> task[t].target, detail |-> d]]
<1>1. task[t] \in Task
  BY StateOfTask
<1>2. task' = [task EXCEPT ![t] = [state |-> s, source |-> task[t].source,
                                   target |-> task[t].target, detail |-> d]]
  BY DEF UpdateTaskState
<1>3. [state |-> s, source |-> task[t].source, target |-> task[t].target, detail |-> d] \in Task
  BY <1>1 DEF Task
<1>4. [state |-> s, source |-> task[t].source, target |-> task[t].target, detail |-> d] # NoTask
  BY DEF NoTask, JobStates
<1> QED
  BY <1>2, <1>3, <1>4 DEF TasksGrow, WellTyped, DatabaseOK

\* Parts of the type invariant that a step leaves alone.
LEMMA UnchangedTypes ==
  ASSUME WellTyped
  PROVE  /\ UNCHANGED task => TasksGrow
         /\ TasksGrow /\ UNCHANGED handler => HandlerOK'
         /\ TasksGrow /\ UNCHANGED agents => AgentsOK'
         /\ TasksGrow /\ UNCHANGED <<device, request, recipient, expired, removed>> => DatabaseOK'
         /\ UNCHANGED environment => CountersOK'
         /\ UNCHANGED process => control' \in {"up", "down"} /\ (control' = "down" => handler' = Idle)
<1>1. UNCHANGED task => TasksGrow
  BY DEF TasksGrow, WellTyped, DatabaseOK
<1>2. TasksGrow /\ UNCHANGED handler => HandlerOK'
  <2> SUFFICES ASSUME TasksGrow, UNCHANGED handler PROVE HandlerOK'
    OBVIOUS
  <2>1. handler.id \in Restores /\ task[handler.id] # NoTask => task'[handler.id] # NoTask
    BY DEF TasksGrow, TaskIds
  <2> QED
    BY <2>1 DEF HandlerOK, WellTyped
<1>3. TasksGrow /\ UNCHANGED agents => AgentsOK'
  <2> SUFFICES ASSUME TasksGrow, UNCHANGED agents PROVE AgentsOK'
    OBVIOUS
  <2>1. \A n \in Agents : \A c \in batch[n] : task'[c.id] # NoTask
    BY DEF TasksGrow, WellTyped, AgentsOK, Copy
  <2>2. \A n \in Agents : agent[n] \in Working => task'[job[n].id] # NoTask
    BY DEF TasksGrow, WellTyped, AgentsOK, Copy
  <2> QED
    BY <2>1, <2>2 DEF agents, WellTyped, AgentsOK
<1>4. TasksGrow /\ UNCHANGED <<device, request, recipient, expired, removed>> => DatabaseOK'
  BY DEF TasksGrow, WellTyped, DatabaseOK
<1>5. UNCHANGED environment => CountersOK'
  BY DEF environment, WellTyped, CountersOK
<1>6. UNCHANGED process => control' \in {"up", "down"} /\ (control' = "down" => handler' = Idle)
  BY DEF process, WellTyped
<1> QED
  BY <1>1, <1>2, <1>3, <1>4, <1>5, <1>6

\* The type invariant holds initially.
LEMMA InitTypes == Init => WellTyped
<1> SUFFICES ASSUME Init PROVE WellTyped
  OBVIOUS
<1>1. DatabaseOK
  BY DEF Init, DatabaseOK
<1>2. HandlerOK /\ CountersOK /\ control = "up"
  BY DEF Init, HandlerOK, CountersOK
<1>3. AgentsOK
  BY DEF Init, AgentsOK, Working
<1> QED
  BY <1>1, <1>2, <1>3 DEF WellTyped

\* The commands of operators preserve the types.
LEMMA OperatorTypes ==
  ASSUME WellTyped, Operators
  PROVE  WellTyped'
<1> USE DEF TaskIds, Transfers, Details
<1>1. ASSUME NEW t \in Backups, NEW n \in Nodes, NEW p \in Paths, SubmitBackup(t, n, p)
      PROVE  WellTyped'
  <2>1. TasksGrow
    BY <1>1, ScheduleGrows DEF SubmitBackup
  <2>2. DatabaseOK'
    BY <1>1, <2>1 DEF SubmitBackup, TasksGrow, WellTyped, DatabaseOK
  <2>3. HandlerOK' /\ AgentsOK' /\ control' \in {"up", "down"} /\ (control' = "down" => handler' = Idle)
    BY <1>1, <2>1, UnchangedTypes DEF SubmitBackup, Submission, process
  <2>4. CountersOK'
    BY <1>1 DEF SubmitBackup, Submission, WellTyped, CountersOK
  <2> QED
    BY <2>2, <2>3, <2>4 DEF WellTyped
<1>2. ASSUME NEW r \in Restores, NEW s \in Sources, NEW n \in Nodes, SubmitRestore(r, s, n)
      PROVE  WellTyped'
  <2>1. TasksGrow
    BY <1>2, ScheduleGrows, NodesAssumption DEF SubmitRestore
  <2>2. DatabaseOK' /\ AgentsOK'
    BY <1>2, <2>1, UnchangedTypes DEF SubmitRestore, Submission
  <2>3. HandlerOK'
    BY <1>2 DEF SubmitRestore, Then, HandlerOK, JobStates
  <2>4. CountersOK' /\ control' \in {"up", "down"} /\ (control' = "down" => handler' = Idle)
    BY <1>2 DEF SubmitRestore, Submission, Serving, WellTyped, CountersOK
  <2> QED
    BY <2>2, <2>3, <2>4 DEF WellTyped
<1>3. ASSUME NEW e \in Entries, NEW n \in Nodes, CreateReceiveTask(e, n)
      PROVE  WellTyped'
  <2>1. TasksGrow
    BY <1>3, ScheduleGrows, NodesAssumption DEF CreateReceiveTask
  <2>2. DatabaseOK' /\ AgentsOK'
    BY <1>3, <2>1, UnchangedTypes DEF CreateReceiveTask, Submission
  <2>3. HandlerOK'
    BY <1>3 DEF CreateReceiveTask, Then, HandlerOK
  <2>4. CountersOK' /\ control' \in {"up", "down"} /\ (control' = "down" => handler' = Idle)
    BY <1>3 DEF CreateReceiveTask, Submission, Serving, WellTyped, CountersOK
  <2> QED
    BY <2>2, <2>3, <2>4 DEF WellTyped
<1>4. ASSUME NEW t \in TaskIds, NEW d \in RetryDetails, RetryTask(t, d)
      PROVE  WellTyped'
  <2>1. TasksGrow
    BY <1>4, UpdateGrows, StateOfTask DEF RetryTask, Retry, JobStates
  <2>2. DatabaseOK' /\ AgentsOK' /\ HandlerOK'
    BY <1>4, <2>1, UnchangedTypes DEF RetryTask, Retry
  <2>3. CountersOK' /\ control' \in {"up", "down"} /\ (control' = "down" => handler' = Idle)
    BY <1>4 DEF RetryTask, Retry, Serving, WellTyped, CountersOK
  <2> QED
    BY <2>2, <2>3 DEF WellTyped
<1>5. ASSUME NEW r \in Restores, RetryRestore(r)
      PROVE  WellTyped'
  <2>1. TasksGrow /\ task'[r] # NoTask
    BY <1>5, UpdateGrows, StateOfTask DEF RetryRestore, Retry, JobStates
  <2>2. DatabaseOK' /\ AgentsOK'
    BY <1>5, <2>1, UnchangedTypes DEF RetryRestore, Retry
  <2>3. HandlerOK'
    BY <1>5, <2>1 DEF RetryRestore, Then, HandlerOK, JobStates
  <2>4. CountersOK' /\ control' \in {"up", "down"} /\ (control' = "down" => handler' = Idle)
    BY <1>5 DEF RetryRestore, Retry, Serving, WellTyped, CountersOK
  <2> QED
    BY <2>2, <2>3, <2>4 DEF WellTyped
<1>6. ASSUME NEW e \in Entries, CleanupExpired(e)
      PROVE  WellTyped'
  <2>1. HandlerOK' /\ AgentsOK' /\ control' \in {"up", "down"} /\ (control' = "down" => handler' = Idle)
    BY <1>6, UnchangedTypes DEF CleanupExpired, process
  <2>2. DatabaseOK' /\ CountersOK'
    BY <1>6 DEF CleanupExpired, WellTyped, DatabaseOK, CountersOK
  <2> QED
    BY <2>1, <2>2 DEF WellTyped
<1> QED
  BY <1>1, <1>2, <1>3, <1>4, <1>5, <1>6 DEF Operators

\* The remaining writes of a handler preserve the types.
LEMMA HandlerTypes ==
  ASSUME WellTyped, HandlerStep
  PROVE  WellTyped'
<1> USE DEF TaskIds, Transfers, Details, process
<1>1. HandlerOK /\ control = "up"
  BY DEF WellTyped, HandlerStep, SaveRequest, SaveInvitation, SaveRecipient, RequeueRequest,
         ExecuteWithoutMetadata, ExecuteRestore, StartRestore, SettleRequest, SettleTask, AtStep
<1>2. CASE SaveRequest \/ RequeueRequest \/ ExecuteRestore \/ \E outcome \in Ended : SettleRequest(outcome)
  <2>1. PICK s \in JobStates : request' = [request EXCEPT ![handler.id] = s]
    BY <1>1, <1>2 DEF SaveRequest, RequeueRequest, ExecuteRestore, SettleRequest, AtStep,
       HandlerOK, Idle, JobStates, Ended
  <2>2. /\ UNCHANGED <<device, task, recipient, expired, removed, control>>
        /\ UNCHANGED agents /\ UNCHANGED environment
    BY <1>2 DEF SaveRequest, RequeueRequest, ExecuteRestore, SettleRequest
  <2>3. handler.id \in Restores
    BY <1>1, <1>2 DEF SaveRequest, RequeueRequest, ExecuteRestore, SettleRequest, AtStep,
       HandlerOK, Idle
  <2>4. DatabaseOK'
    BY <2>1, <2>2, <2>3 DEF WellTyped, DatabaseOK
  <2>5. HandlerOK'
    <3>1. CASE SaveRequest
      BY <3>1 DEF SaveRequest, HandlerOK
    <3>2. CASE RequeueRequest \/ ExecuteRestore \/ \E outcome \in Ended : SettleRequest(outcome)
      <4>1. task[handler.id] # NoTask
        BY <1>1, <3>2 DEF RequeueRequest, ExecuteRestore, SettleRequest, AtStep, HandlerOK, Idle
      <4>2. /\ handler'.step \in {"execute", "start", "settle"}
            /\ handler'.id = handler.id /\ handler'.state \in JobStates
        BY <3>2 DEF RequeueRequest, ExecuteRestore, SettleRequest, Then, JobStates, Ended
      <4> QED
        BY <2>2, <2>3, <4>1, <4>2 DEF HandlerOK
    <3> QED
      BY <1>2, <3>1, <3>2
  <2> QED
    BY <1>1, <2>2, <2>4, <2>5, UnchangedTypes DEF WellTyped
<1>3. CASE SaveInvitation \/ SaveRecipient
  <2>1. handler.id \in Transfers /\ handler.target \in Nodes
        /\ handler.state \in {"pending", "delivered", "failed"}
    BY <1>1, <1>3 DEF SaveInvitation, SaveRecipient, AtStep, HandlerOK, Idle
  <2>2. /\ UNCHANGED <<device, task, request, removed, control>>
        /\ expired' \subseteq expired /\ handler' = Idle /\ SetRecipient
        /\ UNCHANGED agents /\ UNCHANGED environment
    BY <1>3 DEF SaveInvitation, SaveRecipient
  <2>3. handler.id[1] \in Entries
    BY <2>1
  <2>4. DatabaseOK'
    BY <2>1, <2>2, <2>3 DEF SetRecipient, WellTyped, DatabaseOK
  <2> QED
    BY <1>1, <2>2, <2>4, UnchangedTypes DEF WellTyped, HandlerOK
<1>4. CASE ExecuteWithoutMetadata \/ StartRestore \/ SettleTask
  <2>1. handler.id \in Restores /\ handler.state \in JobStates /\ task[handler.id] # NoTask
    BY <1>1, <1>4 DEF ExecuteWithoutMetadata, StartRestore, SettleTask, AtStep, HandlerOK, Idle
  <2>2. TasksGrow /\ task'[handler.id] # NoTask
    BY <1>4, <2>1, UpdateGrows DEF ExecuteWithoutMetadata, StartRestore, SettleTask, JobStates
  <2>3. /\ UNCHANGED <<device, request, recipient, expired, removed, control>>
        /\ UNCHANGED agents /\ UNCHANGED environment
    BY <1>4 DEF ExecuteWithoutMetadata, StartRestore, SettleTask
  <2>4. HandlerOK'
    BY <1>4, <2>1, <2>2 DEF ExecuteWithoutMetadata, StartRestore, SettleTask, Then, HandlerOK,
       JobStates
  <2> QED
    BY <1>1, <2>2, <2>3, <2>4, UnchangedTypes DEF WellTyped
<1> QED
  BY <1>2, <1>3, <1>4 DEF HandlerStep

\* Deaths and restarts preserve the types.
LEMMA FailureTypes ==
  ASSUME WellTyped, Failures \/ RestartControl
  PROVE  WellTyped'
<1> USE DEF process
<1>1. CASE ServeReturns \/ ControlCrash \/ RestartControl
  <2>1. /\ DatabaseOK' /\ AgentsOK'
    BY <1>1, UnchangedTypes DEF ServeReturns, ControlCrash, RestartControl, database
  <2>2. CountersOK' /\ control' \in {"up", "down"} /\ (control' = "down" => handler' = Idle)
    BY <1>1 DEF ServeReturns, ControlCrash, RestartControl, Serving, environment, WellTyped, CountersOK
  <2>3. HandlerOK'
    BY <1>1, UnchangedTypes DEF ServeReturns, ControlCrash, RestartControl, database, HandlerOK
  <2> QED
    BY <2>1, <2>2, <2>3 DEF WellTyped
<1>2. ASSUME NEW n \in Agents, AgentCrash(n)
      PROVE  WellTyped'
  <2>1. DatabaseOK' /\ HandlerOK' /\ control' \in {"up", "down"} /\ (control' = "down" => handler' = Idle)
    BY <1>2, UnchangedTypes DEF AgentCrash, database
  <2>2. CountersOK'
    BY <1>2 DEF AgentCrash, WellTyped, CountersOK
  <2>3. UNCHANGED task
    BY <1>2 DEF AgentCrash, database
  <2>4. AgentsOK'
    BY <1>2, <2>3 DEF AgentCrash, Goto, WellTyped, AgentsOK, Working
  <2> QED
    BY <2>1, <2>2, <2>4 DEF WellTyped
<1> QED
  BY <1>1, <1>2 DEF Failures

\* The cycle of an agent preserves the types.
LEMMA AgentTypes ==
  ASSUME WellTyped, NEW n \in Agents, AgentStep(n)
  PROVE  WellTyped'
<1> USE DEF process, Details
<1>0. n \in Nodes
  BY NodesAssumption
<1>1. CASE AgentStart(n) \/ AgentSleep(n) \/ Heartbeat(n) \/ ExecuteFails(n) \/ FetchFails(n)
  <2>1. UNCHANGED database /\ UNCHANGED process /\ UNCHANGED batch /\ UNCHANGED job
    BY <1>1 DEF AgentStart, AgentSleep, Heartbeat, ExecuteFails, FetchFails
  <2>2. CountersOK'
    BY <1>1 DEF AgentStart, AgentSleep, Heartbeat, ExecuteFails, FetchFails, Answered,
       NotDelivered, environment, WellTyped, CountersOK
  <2>3. AgentsOK'
    <3>1. CASE AgentStart(n) \/ AgentSleep(n) \/ Heartbeat(n)
      BY <2>1, <3>1 DEF AgentStart, AgentSleep, Heartbeat, Goto, database, WellTyped, AgentsOK, Working
    <3>2. CASE ExecuteFails(n) \/ FetchFails(n)
      BY <2>1, <3>2 DEF ExecuteFails, FetchFails, Goto, database, WellTyped, AgentsOK, Working, Ended
    <3> QED
      BY <1>1, <3>1, <3>2
  <2> QED
    BY <2>1, <2>2, <2>3, UnchangedTypes DEF WellTyped, database
<1>2. CASE Register(n)
  <2>1. HandlerOK' /\ control' \in {"up", "down"} /\ (control' = "down" => handler' = Idle)
    BY <1>2, UnchangedTypes DEF Register
  <2>2. DatabaseOK' /\ CountersOK'
    BY <1>0, <1>2 DEF Register, Answered, ReplyLost, WellTyped, DatabaseOK, CountersOK
  <2>3. AgentsOK'
    BY <1>2 DEF Register, Goto, WellTyped, AgentsOK, Working
  <2> QED
    BY <2>1, <2>2, <2>3 DEF WellTyped
<1>3. CASE PullTasks(n)
  <2>1. /\ HandlerOK' /\ control' \in {"up", "down"} /\ (control' = "down" => handler' = Idle)
        /\ DatabaseOK' /\ UNCHANGED task
    BY <1>3, UnchangedTypes DEF PullTasks, database
  <2>2. CountersOK'
    BY <1>3 DEF PullTasks, Answered, NotDelivered, WellTyped, CountersOK
  <2>3. \A t \in Queued(n) : /\ [id |-> t, detail |-> task[t].detail, expired |-> FALSE] \in Copy
                             /\ task[t] # NoTask
    BY StateOfTask DEF Queued, ListTasksForNode, Copy
  <2>4. AgentsOK'
    BY <1>3, <2>1, <2>3 DEF PullTasks, Goto, WellTyped, AgentsOK, Working
  <2> QED
    BY <2>1, <2>2, <2>4 DEF WellTyped
<1>4. ASSUME NEW c \in batch[n], AckTask(n, c) \/ AckFails(n, c)
      PROVE  WellTyped'
  <2>1. c \in Copy /\ c.id \in TaskIds /\ task[c.id] # NoTask
    BY DEF WellTyped, AgentsOK, Copy
  <2>2. TasksGrow
    BY <1>4, <2>1, UpdateGrows, UnchangedTypes DEF AckTask, AckFails, JobStates
  <2>3. HandlerOK' /\ DatabaseOK' /\ control' \in {"up", "down"} /\ (control' = "down" => handler' = Idle)
    BY <1>4, <2>2, UnchangedTypes DEF AckTask, AckFails
  <2>4. CountersOK'
    BY <1>4 DEF AckTask, AckFails, Answered, ReplyLost, NotDelivered, WellTyped, CountersOK
  <2>5. \A m \in Agents : \A d \in batch[m] : task'[d.id] # NoTask
    BY <2>2 DEF TasksGrow, WellTyped, AgentsOK, Copy
  <2>6. \A m \in Agents : agent[m] \in Working => task'[job[m].id] # NoTask
    BY <2>2 DEF TasksGrow, WellTyped, AgentsOK, Copy
  <2>7. /\ batch' \in [Agents -> SUBSET Copy] /\ UNCHANGED result
        /\ \A m \in Agents : batch'[m] \subseteq batch[m]
    BY <1>4 DEF AckTask, AckFails, WellTyped, AgentsOK
  <2>8. AgentsOK'
    <3>1. CASE AckTask(n, c)
      <4>1. /\ job' = [job EXCEPT ![n] = c]
            /\ \E pc \in {"execute", "fetch"} : agent' = [agent EXCEPT ![n] = pc]
        BY <3>1 DEF AckTask, Goto
      <4>2. task'[c.id] # NoTask
        BY <2>1, <2>2 DEF TasksGrow
      <4> QED
        BY <2>1, <2>5, <2>6, <2>7, <4>1, <4>2 DEF WellTyped, AgentsOK, Working
    <3>2. CASE AckFails(n, c)
      BY <2>5, <2>6, <2>7, <3>2 DEF AckFails, WellTyped, AgentsOK
    <3> QED
      BY <1>4, <3>1, <3>2
  <2> QED
    BY <2>3, <2>4, <2>8 DEF WellTyped
<1>5. CASE Fetch(n) \/ ExecuteOk(n)
  <2>1. /\ HandlerOK' /\ control' \in {"up", "down"} /\ (control' = "down" => handler' = Idle)
        /\ DatabaseOK' /\ UNCHANGED task /\ UNCHANGED batch
    BY <1>5, UnchangedTypes DEF Fetch, ExecuteOk, database
  <2>2. job[n] \in Copy /\ job[n].id \in TaskIds /\ agent[n] \in Working
    BY <1>5 DEF Fetch, ExecuteOk, Working, WellTyped, AgentsOK, Copy
  <2>3. CountersOK'
    BY <1>5 DEF Fetch, ExecuteOk, Answered, environment, WellTyped, CountersOK
  <2>4. AgentsOK'
    <3>1. CASE Fetch(n)
      <4>1. PICK x \in BOOLEAN : job' = [job EXCEPT ![n].expired = x]
        BY <3>1 DEF Fetch
      <4>2. /\ job'[n] \in Copy /\ job'[n].id = job[n].id
            /\ job' \in [Agents -> Copy \cup {NoJob}]
            /\ \A m \in Agents : m # n => job'[m] = job[m]
        BY <2>2, <4>1 DEF WellTyped, AgentsOK, Copy
      <4> QED
        BY <2>1, <2>2, <3>1, <4>2 DEF Fetch, Goto, WellTyped, AgentsOK, Working
    <3>2. CASE ExecuteOk(n)
      BY <2>1, <3>2 DEF ExecuteOk, Goto, WellTyped, AgentsOK, Working, Ended
    <3> QED
      BY <1>5, <3>1, <3>2
  <2> QED
    BY <2>1, <2>3, <2>4 DEF WellTyped
<1>6. CASE ReportTask(n) \/ ReportLost(n)
  <2>1. /\ job[n] \in Copy /\ job[n].id \in TaskIds /\ agent[n] \in Working
        /\ task[job[n].id] # NoTask /\ job[n].detail \in Details /\ result[n] \in Ended
    BY <1>6 DEF ReportTask, ReportLost, Working, WellTyped, AgentsOK, Copy
  <2>2. TasksGrow
    BY <1>6, <2>1, UpdateGrows, UnchangedTypes DEF ReportTask, ReportLost, JobStates, Ended
  <2>3. EndJob(n)
    BY <1>6 DEF ReportTask, ReportLost
  <2>4. DatabaseOK' /\ control' = control
    BY <2>2, <2>3, UnchangedTypes DEF EndJob
  <2>5. CountersOK'
    BY <1>6, <2>3 DEF ReportTask, ReportLost, NotDelivered, EndJob, WellTyped, CountersOK
  <2>6. HandlerOK'
    <3>1. CASE UNCHANGED handler
      BY <2>2, <3>1, UnchangedTypes
    <3>2. CASE ReportTask(n) /\ job[n].id \in Restores /\ Then("request", job[n].id, Text, result[n])
      BY <2>1, <3>2 DEF Then, HandlerOK, JobStates, Ended
    <3>3. CASE /\ ReportTask(n) /\ job[n].id \in Transfers
               /\ Then("recipient", job[n].id, task[job[n].id].target, RecipientState(result[n]))
      BY <2>1, <3>3, StateOfTask DEF Then, HandlerOK, RecipientState
    <3> QED
      BY <1>6, <3>1, <3>2, <3>3 DEF ReportTask, ReportLost
  <2>7. control' = "down" => handler' = Idle
    BY <1>6, <2>4 DEF ReportTask, ReportLost, Serving, WellTyped
  <2>8. AgentsOK'
    <3>1. \A m \in Agents : \A d \in batch[m] : task'[d.id] # NoTask
      BY <2>2 DEF TasksGrow, WellTyped, AgentsOK, Copy
    <3>2. \A m \in Agents : agent[m] \in Working => task'[job[m].id] # NoTask
      BY <2>2 DEF TasksGrow, WellTyped, AgentsOK, Copy
    <3> QED
      BY <2>3, <3>1, <3>2 DEF EndJob, Goto, WellTyped, AgentsOK, Working
  <2> QED
    BY <2>4, <2>5, <2>6, <2>7, <2>8 DEF WellTyped
<1> QED
  BY <1>1, <1>2, <1>3, <1>4, <1>5, <1>6 DEF AgentStep

\* Every step preserves the types.
LEMMA NextTypes == WellTyped /\ [Next]_vars => WellTyped'
<1> SUFFICES ASSUME WellTyped, [Next]_vars PROVE WellTyped'
  OBVIOUS
<1>1. CASE UNCHANGED vars
  BY <1>1, UnchangedTypes DEF vars, database, process, WellTyped
<1>2. CASE Next
  BY <1>2, OperatorTypes, HandlerTypes, FailureTypes, AgentTypes DEF Next
<1> QED
  BY <1>1, <1>2

\* No step takes the row of a node away, and an agent leaves "idle" only with
\* its registration.
LEMMA NextRegistered == WellTyped /\ Registered /\ [Next]_vars => Registered'
<1> SUFFICES ASSUME WellTyped, Registered, [Next]_vars PROVE Registered'
  OBVIOUS
<1> USE DEF Registered
<1>0. device \in [Nodes -> {"unknown", "placeholder", "registered"}] /\ agent \in [Agents -> Working \cup {"off", "idle", "beat", "pull", "work"}]
  BY DEF WellTyped, DatabaseOK, AgentsOK
<1>1. CASE UNCHANGED <<device, agent>>
  BY <1>1
<1>2. ASSUME NEW t \in Backups, NEW n \in Nodes, NEW p \in Paths, SubmitBackup(t, n, p)
      PROVE  Registered'
  BY <1>0, <1>2, NodesAssumption DEF SubmitBackup, Submission, agents
<1>3. CASE Operators
  <2>1. CASE UNCHANGED <<device, agent>>
    BY <1>1, <2>1
  <2>2. CASE ~UNCHANGED <<device, agent>>
    BY <1>2, <1>3, <2>2 DEF Operators, SubmitRestore, CreateReceiveTask, RetryTask, RetryRestore,
       CleanupExpired, Submission, Retry, agents
  <2> QED
    BY <2>1, <2>2
<1>4. CASE HandlerStep \/ RestartControl \/ ServeReturns \/ ControlCrash
  <2>1. UNCHANGED <<device, agent>>
    BY <1>4 DEF HandlerStep, SaveRequest, SaveInvitation, SaveRecipient, RequeueRequest,
       ExecuteWithoutMetadata, ExecuteRestore, StartRestore, SettleRequest, SettleTask,
       RestartControl, ServeReturns, ControlCrash, database, agents
  <2> QED
    BY <1>1, <2>1
<1>5. ASSUME NEW n \in Agents, AgentCrash(n) \/ AgentStart(n) \/ AgentSleep(n)
      PROVE  Registered'
  BY <1>0, <1>5 DEF AgentCrash, AgentStart, AgentSleep, Goto, database
<1>6. ASSUME NEW n \in Agents, Register(n)
      PROVE  Registered'
  BY <1>0, <1>6, NodesAssumption DEF Register, Goto
<1>7. ASSUME NEW n \in Agents, AgentStep(n), ~Register(n), ~AgentStart(n), ~AgentSleep(n)
      PROVE  Registered'
  <2>1. UNCHANGED device
    BY <1>7 DEF AgentStep, Heartbeat, PullTasks, AckTask, AckFails, Fetch, FetchFails, ExecuteOk,
       ExecuteFails, ReportTask, ReportLost, EndJob, database
  <2>2. agent[n] \notin {"off", "idle"} /\ \A m \in Agents \ {n} : agent'[m] = agent[m]
    BY <1>0, <1>7 DEF AgentStep, Heartbeat, PullTasks, AckTask, AckFails, Fetch, FetchFails, ExecuteOk,
       ExecuteFails, ReportTask, ReportLost, EndJob, Goto
  <2> QED
    BY <2>1, <2>2
<1>8. CASE Failures
  BY <1>4, <1>5, <1>8 DEF Failures
<1>9. CASE \E n \in Agents : AgentStep(n)
  BY <1>5, <1>6, <1>7, <1>9
<1> QED
  BY <1>1, <1>3, <1>4, <1>8, <1>9 DEF Next, vars, database, agents

\* The histories only record tasks, nodes and details there are.
LEMMA NextHistory == WellTyped /\ HistoryOK /\ [Next]_vars => HistoryOK'
<1> SUFFICES ASSUME WellTyped, HistoryOK, [Next]_vars PROVE HistoryOK'
  OBVIOUS
<1> USE DEF HistoryOK
<1>1. CASE UNCHANGED history
  BY <1>1 DEF history
<1>2. CASE Operators
  <2> USE DEF TaskIds, Transfers, Details
  <2>1. ASSUME NEW t \in Backups, NEW n \in Nodes, NEW p \in Paths, SubmitBackup(t, n, p)
        PROVE  HistoryOK'
    BY <2>1 DEF SubmitBackup, Submission, ScheduleTask
  <2>2. ASSUME NEW r \in Restores, NEW s \in Sources, NEW n \in Nodes, SubmitRestore(r, s, n)
        PROVE  HistoryOK'
    BY <2>2, NodesAssumption DEF SubmitRestore, Submission, ScheduleTask
  <2>3. ASSUME NEW e \in Entries, NEW n \in Nodes, CreateReceiveTask(e, n)
        PROVE  HistoryOK'
    BY <2>3, NodesAssumption DEF CreateReceiveTask, Submission, ScheduleTask
  <2>4. ASSUME NEW t \in TaskIds, NEW d \in RetryDetails, RetryTask(t, d)
        PROVE  HistoryOK'
    BY <2>4 DEF RetryTask, Retry
  <2>5. ASSUME NEW r \in Restores, RetryRestore(r)
        PROVE  HistoryOK'
    BY <2>5 DEF RetryRestore, Retry
  <2> QED
    BY <1>1, <1>2, <2>1, <2>2, <2>3, <2>4, <2>5 DEF Operators, CleanupExpired
<1>3. CASE HandlerStep
  <2>1. ASSUME NEW outcome \in Ended, SettleRequest(outcome)
        PROVE  HistoryOK'
    <3>1. handler.id \in TaskIds
      BY <2>1 DEF SettleRequest, AtStep, WellTyped, HandlerOK, Idle, TaskIds
    <3> QED
      BY <2>1, <3>1 DEF SettleRequest
  <2>2. CASE ExecuteWithoutMetadata
    <3>1. handler.id \in Restores
      BY <2>2 DEF ExecuteWithoutMetadata, AtStep, WellTyped, HandlerOK, Idle
    <3> QED
      BY <2>2, <3>1 DEF ExecuteWithoutMetadata
  <2>3. CASE SaveRequest \/ SettleTask
    BY <2>3 DEF SaveRequest, SettleTask, RestoreFinished
  <2> QED
    BY <1>1, <1>3, <2>1, <2>2, <2>3 DEF HandlerStep, SaveInvitation, SaveRecipient, RequeueRequest,
       ExecuteRestore, StartRestore
<1>4. CASE Failures \/ RestartControl
  BY <1>1, <1>4 DEF Failures, RestartControl, ServeReturns, ControlCrash, AgentCrash
<1>5. ASSUME NEW n \in Agents, AgentStep(n)
      PROVE  HistoryOK'
  <2>1. CASE ExecuteOk(n)
    <3>1. job[n].id \in TaskIds /\ n \in Nodes
      BY <2>1, NodesAssumption DEF ExecuteOk, Working, WellTyped, AgentsOK, Copy
    <3> QED
      BY <2>1, <3>1 DEF ExecuteOk
  <2> QED
    BY <1>1, <1>5, <2>1 DEF AgentStep, AgentStart, Register, Heartbeat, PullTasks, AckTask, AckFails,
       Fetch, FetchFails, ExecuteFails, ReportTask, ReportLost, EndJob, AgentSleep
<1> QED
  BY <1>1, <1>2, <1>3, <1>4, <1>5 DEF Next, vars

\* Types of all variables; agents and handlers only ever work on tasks that
\* exist, and a heartbeat always finds its row, whatever is lost, retried or
\* killed.
THEOREM ControlTypes == Spec => []TypeOK
<1>1. Init => TypeOK
  BY InitTypes DEF Init, Registered, HistoryOK, TypeOK
<1>2. TypeOK /\ [Next]_vars => TypeOK'
  BY NextTypes, NextHistory, NextRegistered DEF TypeOK
<1> QED
  BY <1>1, <1>2, PTL DEF Spec

(***************************************************************************)
(* What a step does to the table of tasks.                                 *)
(***************************************************************************)
\* What the table says of each task after an update.
LEMMA AfterUpdate ==
  ASSUME WellTyped, NEW t \in TaskIds, NEW state, NEW d, UpdateTaskState(t, state, d)
  PROVE  /\ task'[t].state = state /\ task'[t].detail = d
         /\ task'[t].source = task[t].source /\ task'[t].target = task[t].target
         /\ \A u \in TaskIds : u # t => task'[u] = task[u]
BY DEF WellTyped, DatabaseOK, UpdateTaskState

\* What it says after a task was scheduled.
LEMMA AfterSchedule ==
  ASSUME WellTyped, NEW t \in TaskIds, NEW s, NEW n, NEW d, ScheduleTask(t, s, n, d)
  PROVE  /\ task'[t].state = "queued" /\ task'[t].detail = d
         /\ task'[t].source = s /\ task'[t].target = n
         /\ \A u \in TaskIds : u # t => task'[u] = task[u]
         /\ named' = named \cup {<<t, s>>, <<t, n>>} /\ given' = given \cup {<<t, d>>}
BY DEF WellTyped, DatabaseOK, ScheduleTask

\* The kinds of task are apart.
LEMMA KindsApart ==
  /\ Backups \subseteq TaskIds /\ Restores \subseteq TaskIds /\ Transfers \subseteq TaskIds
  /\ \A t \in Restores : t \notin Backups /\ t \notin Transfers
  /\ \A t \in Transfers : t \notin Backups /\ t \notin Restores
  /\ \A e \in Entries, n \in Nodes : <<e, n>> \in Transfers
  /\ \A t \in Transfers : t = <<t[1], t[2]>> /\ t[1] \in Entries /\ t[2] \in Nodes
BY IdsAssumption DEF TaskIds, Transfers

\* What an agent has pulled and works on is a task.
LEMMA CopiesAreTasks ==
  ASSUME WellTyped, NEW n \in Agents
  PROVE  /\ \A c \in batch[n] : c \in Copy /\ c.id \in TaskIds /\ task[c.id] # NoTask
         /\ agent[n] \in Working =>
              job[n] \in Copy /\ job[n].id \in TaskIds /\ task[job[n].id] # NoTask
BY DEF WellTyped, AgentsOK, Copy

-----------------------------------------------------------------------------
(***************************************************************************)
(* Backups.                                                                *)
(***************************************************************************)
QueuedAsGiven ==
  \A t \in Backups : task[t].state = "queued" => <<t, task[t].detail>> \in given

GivenInv == QueuedAsGiven /\ PulledAsGiven

\* Commands that queue a backup give it what the operator gave.
LEMMA OperatorGives ==
  ASSUME WellTyped, GivenInv, Operators
  PROVE  GivenInv'
<1> USE KindsApart DEF GivenInv, QueuedAsGiven
<1>0. UNCHANGED batch /\ given \subseteq given'
  BY DEF Operators, SubmitBackup, SubmitRestore, CreateReceiveTask, RetryTask, RetryRestore,
         CleanupExpired, Submission, Retry, ScheduleTask, agents, history
<1>1. ASSUME NEW t \in Backups, NEW n \in Nodes, NEW p \in Paths, SubmitBackup(t, n, p)
      PROVE  QueuedAsGiven'
  BY <1>0, <1>1, AfterSchedule DEF SubmitBackup
<1>2. ASSUME NEW r \in Restores, NEW s \in Sources, NEW n \in Nodes, SubmitRestore(r, s, n)
      PROVE  QueuedAsGiven'
  BY <1>0, <1>2, AfterSchedule DEF SubmitRestore
<1>3. ASSUME NEW e \in Entries, NEW n \in Nodes, CreateReceiveTask(e, n)
      PROVE  QueuedAsGiven'
  BY <1>0, <1>3, AfterSchedule DEF CreateReceiveTask
<1>4. ASSUME NEW t \in TaskIds, NEW d \in RetryDetails, RetryTask(t, d)
      PROVE  QueuedAsGiven'
  BY <1>0, <1>4, AfterUpdate DEF RetryTask
<1>5. ASSUME NEW r \in Restores, RetryRestore(r)
      PROVE  QueuedAsGiven'
  BY <1>0, <1>5, AfterUpdate DEF RetryRestore
<1>6. ASSUME NEW e \in Entries, CleanupExpired(e)
      PROVE  QueuedAsGiven'
  BY <1>0, <1>6 DEF CleanupExpired
<1>7. QueuedAsGiven'
  BY <1>1, <1>2, <1>3, <1>4, <1>5, <1>6 DEF Operators
<1> QED
  BY <1>0, <1>7 DEF PulledAsGiven

\* Handlers go on with restores and transfers only.
LEMMA HandlerGives ==
  ASSUME WellTyped, GivenInv, HandlerStep
  PROVE  GivenInv'
<1> USE KindsApart DEF GivenInv, QueuedAsGiven
<1>0. UNCHANGED <<batch, given>>
  BY DEF HandlerStep, SaveRequest, SaveInvitation, SaveRecipient, RequeueRequest,
         ExecuteWithoutMetadata, ExecuteRestore, StartRestore, SettleRequest, SettleTask, agents,
         history
<1>1. CASE ExecuteWithoutMetadata \/ StartRestore \/ SettleTask
  <2>1. handler.id \in Restores
    BY <1>1 DEF ExecuteWithoutMetadata, StartRestore, SettleTask, AtStep, WellTyped, HandlerOK, Idle
  <2> QED
    BY <1>0, <1>1, <2>1, AfterUpdate DEF ExecuteWithoutMetadata, StartRestore, SettleTask,
       PulledAsGiven
<1>2. CASE UNCHANGED task
  BY <1>0, <1>2 DEF PulledAsGiven
<1> QED
  BY <1>1, <1>2 DEF HandlerStep, SaveRequest, SaveInvitation, SaveRecipient, RequeueRequest,
     ExecuteRestore, SettleRequest

\* Agents pull what is queued and queue nothing.
LEMMA AgentGives ==
  ASSUME WellTyped, GivenInv, NEW n \in Agents, AgentStep(n)
  PROVE  GivenInv'
<1> USE KindsApart DEF GivenInv, QueuedAsGiven, PulledAsGiven
<1>0. batch \in [Agents -> SUBSET Copy] /\ UNCHANGED given
  BY DEF WellTyped, AgentsOK, AgentStep, AgentStart, Register, Heartbeat, PullTasks, AckTask,
         AckFails, Fetch, FetchFails, ExecuteOk, ExecuteFails, ReportTask, ReportLost, EndJob,
         AgentSleep, history
<1>1. CASE PullTasks(n)
  <2>1. UNCHANGED task
    BY <1>1 DEF PullTasks, database
  <2>2. \A t \in Queued(n) : t \in Backups => <<t, task[t].detail>> \in given
    BY DEF Queued, ListTasksForNode
  <2> QED
    BY <1>0, <1>1, <2>1, <2>2 DEF PullTasks
<1>2. ASSUME NEW c \in batch[n], AckTask(n, c) \/ AckFails(n, c)
      PROVE  GivenInv'
  <2>1. c.id \in TaskIds /\ \A m \in Agents : batch'[m] \subseteq batch[m]
    BY <1>0, <1>2, CopiesAreTasks DEF AckTask, AckFails
  <2>2. QueuedAsGiven'
    BY <1>0, <1>2, <2>1, AfterUpdate DEF AckTask, AckFails
  <2> QED
    BY <1>0, <2>1, <2>2
<1>3. CASE ReportTask(n)
  <2>1. job[n].id \in TaskIds /\ result[n] \in Ended /\ UNCHANGED batch
    BY <1>3, CopiesAreTasks DEF ReportTask, EndJob, Working, WellTyped, AgentsOK
  <2> QED
    BY <1>0, <1>3, <2>1, AfterUpdate DEF ReportTask, Ended
<1>4. CASE UNCHANGED <<task, batch>>
  BY <1>0, <1>4
<1> QED
  BY <1>1, <1>2, <1>3, <1>4 DEF AgentStep, AgentStart, Register, Heartbeat, Fetch, FetchFails,
     ExecuteOk, ExecuteFails, ReportLost, EndJob, AgentSleep, database

\* Failures only take pulled tasks away.
LEMMA FailureGives ==
  ASSUME WellTyped, GivenInv, Failures \/ RestartControl
  PROVE  GivenInv'
<1>1. batch \in [Agents -> SUBSET Copy]
  BY DEF WellTyped, AgentsOK
<1>2. UNCHANGED <<task, given>> /\ \A n \in Agents : batch'[n] \subseteq batch[n]
  BY <1>1 DEF Failures, RestartControl, ServeReturns, ControlCrash, AgentCrash, database, agents,
     history
<1> QED
  BY <1>2 DEF GivenInv, QueuedAsGiven, PulledAsGiven

\* What agents are told to back up was given by an operator for that task,
\* although acknowledgements, reports and failures write to the column that
\* carries it, and although the operator may have given a text that is no path.
THEOREM BackupsAsGiven == Spec => []PulledAsGiven
<1>1. Init => GivenInv
  BY KindsApart DEF Init, GivenInv, QueuedAsGiven, PulledAsGiven, NoTask
<1>2. TypeOK /\ GivenInv /\ [Next]_vars => GivenInv'
  <2> SUFFICES ASSUME WellTyped, GivenInv, [Next]_vars PROVE GivenInv'
    BY DEF TypeOK
  <2>1. CASE UNCHANGED vars
    BY <2>1 DEF vars, database, agents, history, GivenInv, QueuedAsGiven, PulledAsGiven
  <2>2. CASE Next
    BY <2>2, OperatorGives, HandlerGives, AgentGives, FailureGives DEF Next
  <2> QED
    BY <2>1, <2>2
<1>3. GivenInv => PulledAsGiven
  BY DEF GivenInv
<1> QED
  BY <1>1, <1>2, <1>3, ControlTypes, PTL DEF Spec

-----------------------------------------------------------------------------
(***************************************************************************)
(* What the steps leave alone.                                             *)
(***************************************************************************)
\* No task comes or goes, and none is given to other nodes.
SamePlaces ==
  \A t \in TaskIds : /\ task'[t] # NoTask <=> task[t] # NoTask
                     /\ task'[t].source = task[t].source
                     /\ task'[t].target = task[t].target

\* An update leaves a task where it is.
LEMMA UpdatePlaces ==
  ASSUME WellTyped, NEW t \in TaskIds, task[t] # NoTask, NEW s \in JobStates, NEW d,
         UpdateTaskState(t, s, d)
  PROVE  SamePlaces
<1>1. task'[t] # NoTask
  BY AfterUpdate DEF NoTask, JobStates
<1> QED
  BY <1>1, AfterUpdate DEF SamePlaces

\* Commands of operators leave the agents alone; a retry leaves tasks where
\* they are.
LEMMA OperatorFrame ==
  /\ Operators => UNCHANGED <<agent, batch, job, result, succeeded, recipient>>
  /\ Operators => named \subseteq named'
  /\ \A t \in TaskIds, d \in RetryDetails : WellTyped /\ RetryTask(t, d) => SamePlaces
  /\ \A r \in Restores : WellTyped /\ RetryRestore(r) => SamePlaces
<1>1. /\ Operators => UNCHANGED <<agent, batch, job, result, succeeded, recipient>>
      /\ Operators => named \subseteq named'
  BY DEF Operators, SubmitBackup, SubmitRestore, CreateReceiveTask, RetryTask, RetryRestore,
         CleanupExpired, Submission, Retry, ScheduleTask, agents, history
<1>2. ASSUME NEW t \in TaskIds, NEW d \in RetryDetails, WellTyped, RetryTask(t, d)
      PROVE  SamePlaces
  BY <1>2, UpdatePlaces, StateOfTask DEF RetryTask, Retry, JobStates
<1>3. ASSUME NEW r \in Restores, WellTyped, RetryRestore(r)
      PROVE  SamePlaces
  BY <1>3, UpdatePlaces, StateOfTask, KindsApart DEF RetryRestore, Retry, JobStates
<1> QED
  BY <1>1, <1>2, <1>3

\* So do the remaining writes of handlers, and leave tasks where they are.
LEMMA HandlerFrame ==
  ASSUME WellTyped, HandlerStep
  PROVE  /\ SamePlaces /\ UNCHANGED <<agent, batch, job, result, named>>
         /\ succeeded \subseteq succeeded'
<1>1. UNCHANGED <<agent, batch, job, result, named>> /\ succeeded \subseteq succeeded'
  BY DEF HandlerStep, SaveRequest, SaveInvitation, SaveRecipient, RequeueRequest,
         ExecuteWithoutMetadata, ExecuteRestore, StartRestore, SettleRequest, SettleTask,
         agents, history
<1>2. CASE UNCHANGED task
  BY <1>1, <1>2 DEF SamePlaces
<1>3. CASE ExecuteWithoutMetadata \/ StartRestore \/ SettleTask
  <2>1. handler.id \in TaskIds /\ task[handler.id] # NoTask /\ handler.state \in JobStates
    BY <1>3, KindsApart DEF ExecuteWithoutMetadata, StartRestore, SettleTask, AtStep, WellTyped,
       HandlerOK, Idle
  <2> QED
    BY <1>1, <1>3, <2>1, UpdatePlaces DEF ExecuteWithoutMetadata, StartRestore, SettleTask,
       JobStates
<1> QED
  BY <1>1, <1>2, <1>3 DEF HandlerStep, SaveRequest, SaveInvitation, SaveRecipient, RequeueRequest,
     ExecuteRestore, SettleRequest

SameAgent(n) == /\ agent'[n] = agent[n] /\ batch'[n] = batch[n]
                /\ job'[n] = job[n] /\ result'[n] = result[n]

OnlyAgent(n) == /\ UNCHANGED <<request, recipient, named>> /\ succeeded \subseteq succeeded'
                /\ \A m \in Agents \ {n} : SameAgent(m)

\* An agent leaves the other agents, the requests and the recipients alone,
\* and tasks where they are.
LEMMA AgentFrame ==
  ASSUME WellTyped, NEW n \in Agents, AgentStep(n)
  PROVE  SamePlaces /\ OnlyAgent(n)
<1>0. /\ agent \in [Agents -> Working \cup {"off", "idle", "beat", "pull", "work"}]
      /\ batch \in [Agents -> SUBSET Copy] /\ job \in [Agents -> Copy \cup {NoJob}]
      /\ result \in [Agents -> Ended \cup {"none"}]
  BY DEF WellTyped, AgentsOK
<1>1. OnlyAgent(n)
  <2> USE DEF OnlyAgent, SameAgent
  <2>1. CASE AgentStart(n) \/ Register(n) \/ Heartbeat(n) \/ PullTasks(n) \/ AgentSleep(n)
    BY <1>0, <2>1 DEF AgentStart, Register, Heartbeat, PullTasks, AgentSleep, Goto, database,
       history
  <2>2. ASSUME NEW c \in batch[n], AckTask(n, c) \/ AckFails(n, c)
        PROVE  OnlyAgent(n)
    BY <1>0, <2>2 DEF AckTask, AckFails, Goto, history
  <2>3. CASE Fetch(n) \/ FetchFails(n) \/ ExecuteOk(n) \/ ExecuteFails(n)
    BY <1>0, <2>3 DEF Fetch, FetchFails, ExecuteOk, ExecuteFails, Goto, database, history
  <2>4. CASE ReportTask(n) \/ ReportLost(n)
    BY <1>0, <2>4 DEF ReportTask, ReportLost, EndJob, Goto, history
  <2> QED
    BY <2>1, <2>2, <2>3, <2>4 DEF AgentStep
<1>2. SamePlaces
  <2>1. ASSUME NEW c \in batch[n], AckTask(n, c) \/ AckFails(n, c)
        PROVE  SamePlaces
    <3>1. CASE UNCHANGED task
      BY <3>1 DEF SamePlaces
    <3> QED
      BY <2>1, <3>1, CopiesAreTasks, UpdatePlaces DEF AckTask, AckFails, JobStates
  <2>2. CASE ReportTask(n)
    <3>1. job[n].id \in TaskIds /\ task[job[n].id] # NoTask /\ result[n] \in JobStates
      BY <2>2, CopiesAreTasks DEF ReportTask, Working, WellTyped, AgentsOK, Ended, JobStates
    <3> QED
      BY <2>2, <3>1, UpdatePlaces DEF ReportTask
  <2>3. CASE UNCHANGED task
    BY <2>3 DEF SamePlaces
  <2> QED
    BY <2>1, <2>2, <2>3 DEF AgentStep, AgentStart, Register, Heartbeat, PullTasks, Fetch,
       FetchFails, ExecuteOk, ExecuteFails, ReportLost, AgentSleep, database
<1> QED
  BY <1>1, <1>2

OnlyForgets ==
  /\ UNCHANGED <<task, request, recipient, named, succeeded>> /\ handler' \in {handler, Idle}
  /\ \A n \in Agents : SameAgent(n) \/ (agent'[n] = "off" /\ batch'[n] = {})

\* A process that dies or comes back leaves the database alone, and an agent
\* that dies forgets what it pulled.
LEMMA FailureFrame ==
  ASSUME WellTyped, Failures \/ RestartControl
  PROVE  OnlyForgets
<1> USE DEF OnlyForgets, SameAgent
<1>0. /\ agent \in [Agents -> Working \cup {"off", "idle", "beat", "pull", "work"}]
      /\ batch \in [Agents -> SUBSET Copy] /\ job \in [Agents -> Copy \cup {NoJob}]
      /\ result \in [Agents -> Ended \cup {"none"}]
  BY DEF WellTyped, AgentsOK
<1>1. CASE RestartControl \/ ServeReturns \/ ControlCrash
  BY <1>1 DEF RestartControl, ServeReturns, ControlCrash, database, agents, history
<1>2. ASSUME NEW n \in Agents, AgentCrash(n)
      PROVE  OnlyForgets
  BY <1>0, <1>2 DEF AgentCrash, Goto, database, process, history
<1> QED
  BY <1>1, <1>2 DEF Failures

-----------------------------------------------------------------------------
(***************************************************************************)
(* Who executes tasks.  Several agents and the control node can hold the   *)
(* same task, and what they report arrives late or not at all; but nobody  *)
(* holds a task an operator did not name it for, and nobody reports a      *)
(* success that has not happened.                                          *)
(***************************************************************************)
Placed ==
  \A t \in TaskIds :
    task[t] # NoTask => <<t, task[t].source>> \in named /\ <<t, task[t].target>> \in named

\* Receive tasks go from the owner to the target in their name.
TransfersPlaced ==
  \A t \in Transfers :
    /\ task[t] # NoTask => task[t].target = t[2]
    /\ \A n \in Nodes : <<t, n>> \in named => n \in {t[2], Owner[t[1]]}

PulledByNamed ==
  \A n \in Agents :
    /\ \A c \in batch[n] : <<c.id, n>> \in named
    /\ agent[n] \in Working => <<job[n].id, n>> \in named

\* An agent that reports success has executed the task.
Reported ==
  \A n \in Agents :
    agent[n] = "report" /\ result[n] = "completed" => <<job[n].id, n>> \in succeeded

ByEntitled == \A t \in TaskIds : \A x : <<t, x>> \in succeeded => x \in Entitled(t)

\* So does a handler that is about to save success.
HandlerTruthful ==
  /\ handler.step = "settle" /\ handler.state = "completed" =>
       <<handler.id, ControlNode>> \in succeeded
  /\ handler.step \in {"invite", "recipient"} =>
       /\ handler.target = handler.id[2]
       /\ handler.state = "delivered" => \E x : <<handler.id, x>> \in succeeded

CompletedInv == \A t \in TaskIds : task[t].state = "completed" => \E x : <<t, x>> \in succeeded

DeliveredInv ==
  \A e \in Entries, n \in Nodes :
    recipient[e][n] = "delivered" => \E x : <<<<e, n>>, x>> \in succeeded

ExecutionInv == /\ Placed /\ TransfersPlaced /\ PulledByNamed /\ Reported /\ ByEntitled
                /\ HandlerTruthful /\ CompletedInv /\ DeliveredInv

\* What was named or executed stays so.
LEMMA HistoryGrows ==
  WellTyped /\ [Next]_vars => named \subseteq named' /\ succeeded \subseteq succeeded'
BY OperatorFrame, HandlerFrame, AgentFrame, FailureFrame DEF Next, OnlyAgent, OnlyForgets, vars,
   history

\* Tasks are only given to nodes that are named with them.
LEMMA PlacedStep ==
  WellTyped /\ Placed /\ TransfersPlaced /\ [Next]_vars => Placed' /\ TransfersPlaced'
<1> SUFFICES ASSUME WellTyped, Placed, TransfersPlaced, [Next]_vars
             PROVE  Placed' /\ TransfersPlaced'
  OBVIOUS
<1> USE KindsApart
<1>1. CASE (SamePlaces \/ UNCHANGED task) /\ UNCHANGED named
  BY <1>1 DEF SamePlaces, Placed, TransfersPlaced
<1>2. ASSUME NEW t \in TaskIds, NEW s \in Nodes, NEW n \in Nodes, NEW d, ScheduleTask(t, s, n, d),
             t \in Transfers => n = t[2] /\ s = Owner[t[1]]
      PROVE  Placed' /\ TransfersPlaced'
  <2>1. /\ task'[t].source = s /\ task'[t].target = n
        /\ \A u \in TaskIds : u # t => task'[u] = task[u]
        /\ named' = named \cup {<<t, s>>, <<t, n>>}
    BY <1>2, AfterSchedule
  <2>2. Placed'
    BY <2>1 DEF Placed
  <2>3. TransfersPlaced'
    BY <1>2, <2>1 DEF TransfersPlaced
  <2> QED
    BY <2>2, <2>3
<1>3. ASSUME NEW t \in Backups, NEW n \in Nodes, NEW p \in Paths, SubmitBackup(t, n, p)
      PROVE  Placed' /\ TransfersPlaced'
  <2>1. t \in TaskIds /\ t \notin Transfers /\ ScheduleTask(t, n, n, p)
    BY <1>3 DEF SubmitBackup
  <2> QED
    BY <1>2, <2>1
<1>4. ASSUME NEW r \in Restores, NEW s \in Sources, NEW n \in Nodes, SubmitRestore(r, s, n)
      PROVE  Placed' /\ TransfersPlaced'
  <2>1. r \in TaskIds /\ r \notin Transfers /\ s \in Nodes /\ ScheduleTask(r, s, n, Text)
    BY <1>4, NodesAssumption DEF SubmitRestore
  <2> QED
    BY <1>2, <2>1
<1>5. ASSUME NEW e \in Entries, NEW n \in Nodes, CreateReceiveTask(e, n)
      PROVE  Placed' /\ TransfersPlaced'
  <2>1. /\ <<e, n>> \in TaskIds /\ <<e, n>>[1] = e /\ <<e, n>>[2] = n /\ Owner[e] \in Nodes
        /\ ScheduleTask(<<e, n>>, Owner[e], n, Text)
    BY <1>5, NodesAssumption DEF CreateReceiveTask
  <2> QED
    BY <1>2, <2>1
<1>6. ASSUME NEW t \in TaskIds, NEW d \in RetryDetails, RetryTask(t, d)
      PROVE  Placed' /\ TransfersPlaced'
  BY <1>1, <1>6, OperatorFrame DEF RetryTask, Retry
<1>7. ASSUME NEW r \in Restores, RetryRestore(r)
      PROVE  Placed' /\ TransfersPlaced'
  BY <1>1, <1>7, OperatorFrame DEF RetryRestore, Retry
<1>8. CASE Operators
  BY <1>1, <1>3, <1>4, <1>5, <1>6, <1>7, <1>8 DEF Operators, CleanupExpired, history
<1> QED
  BY <1>1, <1>8, HandlerFrame, AgentFrame, FailureFrame DEF Next, OnlyAgent, OnlyForgets, vars,
     database, history

\* An agent pulls only what it is named for.
LEMMA PulledStep ==
  WellTyped /\ Placed /\ PulledByNamed /\ [Next]_vars => PulledByNamed'
<1> SUFFICES ASSUME WellTyped, Placed, PulledByNamed, [Next]_vars
             PROVE  PulledByNamed'
  OBVIOUS
<1> USE DEF PulledByNamed
<1>0. named \subseteq named'
  BY HistoryGrows
<1>1. CASE UNCHANGED <<agent, batch, job>>
  BY <1>0, <1>1
<1>2. CASE Failures \/ RestartControl
  BY <1>0, <1>2, FailureFrame DEF OnlyForgets, SameAgent, Working
<1>3. ASSUME NEW n \in Agents, AgentStep(n)
      PROVE  PulledByNamed'
  <2>0. /\ agent \in [Agents -> Working \cup {"off", "idle", "beat", "pull", "work"}]
        /\ batch \in [Agents -> SUBSET Copy] /\ job \in [Agents -> Copy \cup {NoJob}]
        /\ UNCHANGED named
    BY <1>3, AgentFrame DEF WellTyped, AgentsOK, OnlyAgent
  <2> SUFFICES /\ \A c \in batch'[n] : <<c.id, n>> \in named
               /\ agent'[n] \in Working => <<job'[n].id, n>> \in named
    BY <1>3, <2>0, AgentFrame DEF OnlyAgent, SameAgent
  <2>1. CASE PullTasks(n)
    <3>1. \A t \in Queued(n) : <<t, n>> \in named
      BY StateOfTask DEF Queued, ListTasksForNode, Placed
    <3> QED
      BY <2>0, <2>1, <3>1 DEF PullTasks, Goto, Working
  <2>2. ASSUME NEW c \in batch[n], AckTask(n, c) \/ AckFails(n, c)
        PROVE  /\ \A d \in batch'[n] : <<d.id, n>> \in named
               /\ agent'[n] \in Working => <<job'[n].id, n>> \in named
    BY <2>0, <2>2 DEF AckTask, AckFails, Goto, Working
  <2>3. CASE Fetch(n)
    <3>1. job[n] \in Copy
      BY <2>3, CopiesAreTasks DEF Fetch, Working
    <3>2. job'[n].id = job[n].id
      BY <2>0, <2>3, <3>1 DEF Fetch, Copy
    <3> QED
      BY <2>0, <2>3, <3>2 DEF Fetch, Goto, Working
  <2>4. CASE FetchFails(n) \/ ExecuteOk(n) \/ ExecuteFails(n)
    BY <2>0, <2>4 DEF FetchFails, ExecuteOk, ExecuteFails, Goto, Working
  <2>5. CASE AgentStart(n) \/ Register(n) \/ Heartbeat(n) \/ AgentSleep(n)
    BY <2>0, <2>5 DEF AgentStart, Register, Heartbeat, AgentSleep, Goto, Working
  <2>6. CASE ReportTask(n) \/ ReportLost(n)
    BY <2>0, <2>6 DEF ReportTask, ReportLost, EndJob, Goto, Working
  <2> QED
    BY <1>3, <2>1, <2>2, <2>3, <2>4, <2>5, <2>6 DEF AgentStep
<1> QED
  BY <1>1, <1>2, <1>3, OperatorFrame, HandlerFrame DEF Next, vars, agents

\* Success is reported only after the execution it is about.
LEMMA ReportedStep == WellTyped /\ Reported /\ [Next]_vars => Reported'
<1> SUFFICES ASSUME WellTyped, Reported, [Next]_vars PROVE Reported'
  OBVIOUS
<1> USE DEF Reported
<1>0. succeeded \subseteq succeeded'
  BY HistoryGrows
<1>1. CASE UNCHANGED <<agent, job, result>>
  BY <1>0, <1>1
<1>2. CASE Failures \/ RestartControl
  BY <1>0, <1>2, FailureFrame DEF OnlyForgets, SameAgent
<1>3. ASSUME NEW n \in Agents, AgentStep(n)
      PROVE  Reported'
  <2>0. /\ agent \in [Agents -> Working \cup {"off", "idle", "beat", "pull", "work"}]
        /\ job \in [Agents -> Copy \cup {NoJob}] /\ result \in [Agents -> Ended \cup {"none"}]
    BY DEF WellTyped, AgentsOK
  <2>1. CASE ExecuteOk(n)
    BY <2>0, <2>1 DEF ExecuteOk, Goto
  <2>2. CASE ~ExecuteOk(n)
    <3>1. agent'[n] = "report" => result'[n] = "failed"
      BY <1>3, <2>0, <2>2 DEF AgentStep, AgentStart, Register, Heartbeat, PullTasks, AckTask,
         AckFails, Fetch, FetchFails, ExecuteFails, ReportTask, ReportLost, EndJob, AgentSleep, Goto
    <3> QED
      BY <1>0, <1>3, <3>1, AgentFrame DEF OnlyAgent, SameAgent
  <2> QED
    BY <2>1, <2>2
<1> QED
  BY <1>1, <1>2, <1>3, OperatorFrame, HandlerFrame DEF Next, vars, agents

\* Agents execute what they pulled, the control node restores.
LEMMA EntitledStep ==
  WellTyped /\ PulledByNamed /\ ByEntitled /\ [Next]_vars => ByEntitled'
<1> SUFFICES ASSUME WellTyped, PulledByNamed, ByEntitled, [Next]_vars
             PROVE  ByEntitled'
  OBVIOUS
<1>0. \A t \in TaskIds : Entitled(t) \subseteq Entitled(t)'
  BY HistoryGrows DEF Entitled
<1>1. CASE UNCHANGED succeeded
  BY <1>0, <1>1 DEF ByEntitled
<1>2. ASSUME NEW outcome \in Ended, SettleRequest(outcome)
      PROVE  ByEntitled'
  <2>1. handler.id \in Restores
    BY <1>2 DEF SettleRequest, AtStep, WellTyped, HandlerOK, Idle
  <2>2. \A t \in TaskIds : \A x : <<t, x>> \in succeeded' =>
          <<t, x>> \in succeeded \/ (t = handler.id /\ x = ControlNode)
    BY <1>2 DEF SettleRequest
  <2>3. ControlNode \in Entitled(handler.id)
    BY <2>1 DEF Entitled
  <2> QED
    BY <1>0, <2>2, <2>3 DEF ByEntitled
<1>3. ASSUME NEW n \in Agents, ExecuteOk(n)
      PROVE  ByEntitled'
  <2>1. n \in Entitled(job[n].id)
    BY <1>3, NodesAssumption DEF ExecuteOk, PulledByNamed, Working, Entitled
  <2>2. \A t \in TaskIds : \A x : <<t, x>> \in succeeded' =>
          <<t, x>> \in succeeded \/ (t = job[n].id /\ x = n)
    BY <1>3 DEF ExecuteOk
  <2> QED
    BY <1>0, <2>1, <2>2 DEF ByEntitled
<1>4. CASE HandlerStep
  BY <1>1, <1>2, <1>4 DEF HandlerStep, SaveRequest, SaveInvitation, SaveRecipient, RequeueRequest,
     ExecuteWithoutMetadata, ExecuteRestore, StartRestore, SettleTask, history
<1>5. ASSUME NEW n \in Agents, AgentStep(n)
      PROVE  ByEntitled'
  BY <1>1, <1>3, <1>5 DEF AgentStep, AgentStart, Register, Heartbeat, PullTasks, AckTask, AckFails,
     Fetch, FetchFails, ExecuteFails, ReportTask, ReportLost, EndJob, AgentSleep, history
<1> QED
  BY <1>1, <1>4, <1>5, OperatorFrame, FailureFrame DEF Next, OnlyForgets, vars, history

\* A handler that is about to save success has been told so by who executed.
LEMMA TruthfulStep ==
  WellTyped /\ TransfersPlaced /\ Reported /\ HandlerTruthful /\ [Next]_vars => HandlerTruthful'
<1> SUFFICES ASSUME WellTyped, TransfersPlaced, Reported, HandlerTruthful, [Next]_vars
             PROVE  HandlerTruthful'
  OBVIOUS
<1>0. succeeded \subseteq succeeded'
  BY HistoryGrows
<1>1. CASE UNCHANGED handler
  BY <1>0, <1>1 DEF HandlerTruthful
<1>2. CASE handler'.step \notin {"settle", "invite", "recipient"}
  BY <1>2 DEF HandlerTruthful
<1>3. CASE Operators
  <2>1. ASSUME NEW e \in Entries, NEW n \in Nodes, CreateReceiveTask(e, n)
        PROVE  HandlerTruthful'
    BY <2>1 DEF CreateReceiveTask, Then, HandlerTruthful
  <2> QED
    BY <1>1, <1>2, <1>3, <2>1 DEF Operators, SubmitBackup, SubmitRestore, RetryTask, RetryRestore,
       CleanupExpired, Then, process
<1>4. CASE HandlerStep
  <2>1. ASSUME NEW outcome \in Ended, SettleRequest(outcome)
        PROVE  HandlerTruthful'
    BY <2>1 DEF SettleRequest, Then, HandlerTruthful
  <2> QED
    BY <1>1, <1>2, <1>4, <2>1 DEF HandlerStep, SaveRequest, SaveInvitation, SaveRecipient,
       RequeueRequest, ExecuteWithoutMetadata, ExecuteRestore, StartRestore, SettleTask, Then, Idle
<1>5. ASSUME NEW n \in Agents, ReportTask(n)
      PROVE  HandlerTruthful'
  <2>1. CASE job[n].id \in Transfers
    <3> DEFINE t == job[n].id
    <3>1. task[t] # NoTask /\ task[t].target = t[2]
      BY <1>5, <2>1, CopiesAreTasks DEF ReportTask, Working, TransfersPlaced
    <3>2. result[n] = "completed" => <<t, n>> \in succeeded
      BY <1>5 DEF ReportTask, Reported
    <3>3. handler' = [step |-> "recipient", id |-> t, target |-> task[t].target,
                      state |-> RecipientState(result[n])]
      BY <1>5, <2>1, KindsApart DEF ReportTask, Then
    <3> QED
      BY <1>0, <3>1, <3>2, <3>3 DEF HandlerTruthful, RecipientState
  <2>2. CASE job[n].id \notin Transfers
    BY <1>1, <1>2, <1>5, <2>2 DEF ReportTask, Then
  <2> QED
    BY <2>1, <2>2
<1>6. ASSUME NEW n \in Agents, AgentStep(n)
      PROVE  HandlerTruthful'
  BY <1>1, <1>5, <1>6 DEF AgentStep, AgentStart, Register, Heartbeat, PullTasks, AckTask, AckFails,
     Fetch, FetchFails, ExecuteOk, ExecuteFails, ReportLost, AgentSleep, process
<1>7. CASE Failures \/ RestartControl
  BY <1>1, <1>2, <1>7, FailureFrame DEF OnlyForgets, Idle
<1> QED
  BY <1>1, <1>3, <1>4, <1>6, <1>7 DEF Next, vars, process

\* A task is completed by the report of an agent, or by the control node after
\* its own restore.
LEMMA CompletedStep ==
  WellTyped /\ Reported /\ HandlerTruthful /\ CompletedInv /\ [Next]_vars => CompletedInv'
<1> SUFFICES ASSUME WellTyped, Reported, HandlerTruthful, CompletedInv, [Next]_vars
             PROVE  CompletedInv'
  OBVIOUS
<1> USE KindsApart
<1>0. succeeded \subseteq succeeded'
  BY HistoryGrows
<1>1. CASE UNCHANGED task
  BY <1>0, <1>1 DEF CompletedInv
<1>2. ASSUME NEW t \in TaskIds, task'[t].state = "completed" => \E x : <<t, x>> \in succeeded,
             \A u \in TaskIds : u # t => task'[u] = task[u]
      PROVE  CompletedInv'
  BY <1>0, <1>2 DEF CompletedInv
<1>3. CASE Operators
  <2>1. ASSUME NEW t \in Backups, NEW n \in Nodes, NEW p \in Paths, SubmitBackup(t, n, p)
        PROVE  CompletedInv'
    BY <1>2, <2>1, AfterSchedule DEF SubmitBackup
  <2>2. ASSUME NEW r \in Restores, NEW s \in Sources, NEW n \in Nodes, SubmitRestore(r, s, n)
        PROVE  CompletedInv'
    BY <1>2, <2>2, AfterSchedule DEF SubmitRestore
  <2>3. ASSUME NEW e \in Entries, NEW n \in Nodes, CreateReceiveTask(e, n)
        PROVE  CompletedInv'
    BY <1>2, <2>3, AfterSchedule DEF CreateReceiveTask
  <2>4. ASSUME NEW t \in TaskIds, NEW d \in RetryDetails, RetryTask(t, d)
        PROVE  CompletedInv'
    BY <1>2, <2>4, AfterUpdate DEF RetryTask
  <2>5. ASSUME NEW r \in Restores, RetryRestore(r)
        PROVE  CompletedInv'
    BY <1>2, <2>5, AfterUpdate DEF RetryRestore
  <2> QED
    BY <1>1, <1>3, <2>1, <2>2, <2>3, <2>4, <2>5 DEF Operators, CleanupExpired
<1>4. CASE HandlerStep
  <2>1. CASE ExecuteWithoutMetadata \/ StartRestore \/ SettleTask
    <3>1. handler.id \in TaskIds
      BY <2>1 DEF ExecuteWithoutMetadata, StartRestore, SettleTask, AtStep, WellTyped, HandlerOK,
         Idle
    <3>2. CASE ExecuteWithoutMetadata \/ StartRestore
      BY <1>2, <3>1, <3>2, AfterUpdate DEF ExecuteWithoutMetadata, StartRestore
    <3>3. CASE SettleTask
      <4>1. /\ handler.step = "settle" /\ task'[handler.id].state = handler.state
            /\ \A u \in TaskIds : u # handler.id => task'[u] = task[u]
        BY <3>1, <3>3, AfterUpdate DEF SettleTask, AtStep
      <4>2. handler.state = "completed" => \E x : <<handler.id, x>> \in succeeded
        BY <4>1 DEF HandlerTruthful
      <4> QED
        BY <1>2, <3>1, <4>1, <4>2
    <3> QED
      BY <2>1, <3>2, <3>3
  <2> QED
    BY <1>1, <1>4, <2>1 DEF HandlerStep, SaveRequest, SaveInvitation, SaveRecipient, RequeueRequest,
       ExecuteRestore, SettleRequest
<1>5. ASSUME NEW n \in Agents, AgentStep(n)
      PROVE  CompletedInv'
  <2>1. ASSUME NEW c \in batch[n], AckTask(n, c) \/ AckFails(n, c)
        PROVE  CompletedInv'
    <3>1. CASE UpdateTaskState(c.id, "running", Text)
      BY <1>2, <3>1, CopiesAreTasks, AfterUpdate
    <3> QED
      BY <1>1, <2>1, <3>1 DEF AckTask, AckFails
  <2>2. CASE ReportTask(n)
    <3>1. job[n].id \in TaskIds
      BY <2>2, CopiesAreTasks DEF ReportTask, Working
    <3>2. result[n] = "completed" => <<job[n].id, n>> \in succeeded
      BY <2>2 DEF ReportTask, Reported
    <3>3. /\ task'[job[n].id].state = result[n]
          /\ \A u \in TaskIds : u # job[n].id => task'[u] = task[u]
      BY <2>2, <3>1, AfterUpdate DEF ReportTask
    <3> QED
      BY <1>2, <3>1, <3>2, <3>3
  <2> QED
    BY <1>1, <1>5, <2>1, <2>2 DEF AgentStep, AgentStart, Register, Heartbeat, PullTasks, Fetch,
       FetchFails, ExecuteOk, ExecuteFails, ReportLost, AgentSleep, database
<1> QED
  BY <1>1, <1>3, <1>4, <1>5, FailureFrame DEF Next, OnlyForgets, vars, database

\* Only a truthful handler shows a delivery.
LEMMA DeliveredStep ==
  WellTyped /\ HandlerTruthful /\ DeliveredInv /\ [Next]_vars => DeliveredInv'
<1> SUFFICES ASSUME WellTyped, HandlerTruthful, DeliveredInv, [Next]_vars PROVE DeliveredInv'
  OBVIOUS
<1>0. succeeded \subseteq succeeded'
  BY HistoryGrows
<1>1. CASE UNCHANGED recipient
  BY <1>0, <1>1 DEF DeliveredInv
<1>2. CASE SaveInvitation \/ SaveRecipient
  <2>1. handler.step \in {"invite", "recipient"} /\ SetRecipient
    BY <1>2 DEF SaveInvitation, SaveRecipient, AtStep
  <2>2. handler.id \in Transfers
    BY <2>1 DEF WellTyped, HandlerOK, Idle
  <2>3. recipient \in [Entries -> [Nodes -> {"none", "pending", "delivered", "failed"}]]
    BY DEF WellTyped, DatabaseOK
  <2>4. /\ handler.target = handler.id[2]
        /\ handler.state = "delivered" => \E x : <<handler.id, x>> \in succeeded
    BY <2>1 DEF HandlerTruthful
  <2> SUFFICES ASSUME NEW e \in Entries, NEW n \in Nodes, recipient'[e][n] = "delivered"
               PROVE  \E x : <<<<e, n>>, x>> \in succeeded
    BY <1>0 DEF DeliveredInv
  <2>5. CASE handler.id = <<e, n>>
    <3>1. handler.id[1] = e /\ handler.target = n
      BY <2>4, <2>5
    <3>2. recipient'[e][n] = handler.state
      BY <2>1, <2>3, <3>1 DEF SetRecipient
    <3> QED
      BY <2>4, <2>5, <3>2
  <2>6. CASE handler.id # <<e, n>>
    <3>1. e # handler.id[1] \/ n # handler.target
      BY <2>2, <2>4, <2>6, KindsApart
    <3>2. recipient'[e][n] = recipient[e][n]
      BY <2>1, <2>3, <3>1 DEF SetRecipient
    <3> QED
      BY <3>2 DEF DeliveredInv
  <2> QED
    BY <2>5, <2>6
<1>3. CASE HandlerStep
  BY <1>1, <1>2, <1>3 DEF HandlerStep, SaveRequest, RequeueRequest,
     ExecuteWithoutMetadata, ExecuteRestore, StartRestore, SettleRequest, SettleTask
<1> QED
  BY <1>1, <1>3, OperatorFrame, AgentFrame, FailureFrame DEF Next, OnlyAgent, OnlyForgets, vars,
     database

\* The invariant of this section is inductive.
LEMMA ExecutionInductive == Spec => []ExecutionInv
<1>1. Init => ExecutionInv
  BY KindsApart DEF Init, Idle, NoTask, Working, ExecutionInv, Placed, TransfersPlaced,
     PulledByNamed, Reported, ByEntitled, HandlerTruthful, CompletedInv, DeliveredInv
<1>2. TypeOK /\ ExecutionInv /\ [Next]_vars => ExecutionInv'
  BY PlacedStep, PulledStep, ReportedStep, EntitledStep, TruthfulStep, CompletedStep, DeliveredStep
  DEF TypeOK, ExecutionInv
<1> QED
  BY <1>1, <1>2, ControlTypes, PTL DEF Spec

\* A task shown as completed was executed with success by a device that an
\* operator named for it or, if it is a restore, by the control node: whoever
\* else holds a copy, whenever operators submit and retry it, whatever arrives
\* late or is lost, and whichever process is killed.
THEOREM CompletionsAreExecuted == Spec => []CompletedMeansExecuted
<1>1. ExecutionInv => CompletedMeansExecuted
  BY DEF ExecutionInv, CompletedInv, ByEntitled, CompletedMeansExecuted
<1> QED
  BY <1>1, ExecutionInductive, PTL

\* A recipient is shown as having received an entry only after its agent, or
\* the agent of the node that published the entry, has received it, whatever
\* is lost, retried, repeated or killed.
THEOREM DeliveriesAreReceived == Spec => []DeliveredMeansReceived
<1>1. TypeOK /\ ExecutionInv => DeliveredMeansReceived
  <2> SUFFICES ASSUME TypeOK, ExecutionInv, NEW e \in Entries, NEW n \in Nodes,
                      recipient[e][n] = "delivered"
               PROVE  \E m \in {n, Owner[e]} : <<<<e, n>>, m>> \in succeeded
    BY DEF DeliveredMeansReceived
  <2> DEFINE t == <<e, n>>
  <2>1. t \in Transfers /\ t \in TaskIds /\ t \notin Restores /\ t[1] = e /\ t[2] = n
    BY KindsApart
  <2>2. PICK x : <<t, x>> \in succeeded
    BY DEF ExecutionInv, DeliveredInv
  <2>3. x \in Nodes /\ <<t, x>> \in named
    BY <2>1, <2>2 DEF ExecutionInv, ByEntitled, Entitled
  <2> QED
    BY <2>1, <2>2, <2>3 DEF ExecutionInv, TransfersPlaced
<1> QED
  BY <1>1, ExecutionInductive, ControlTypes, PTL

-----------------------------------------------------------------------------
(***************************************************************************)
(* The life cycle of tasks.  The abstract state is the state of each task  *)
(* and who holds which; every step of a component is one step of one       *)
(* executor there, or none.                                                *)
(***************************************************************************)
States == [t \in TaskIds |-> task[t].state]

AgentWaiting(n) == {c.id : c \in batch[n]}
AgentAccepted(n) == {t \in TaskIds : t = job[n].id /\ agent[n] \in Working}

ControlWaiting ==
  {t \in Restores : t = handler.id /\ handler.step \in {"requeue", "execute", "start"}}
ControlAccepted == {t \in Restores : t = handler.id /\ handler.step \in {"restore", "settle"}}

\* A batch has no task twice, and none is left when the cycle is over; the
\* control node saves how its restore ended.
HoldInv ==
  /\ \A n \in Agents :
       /\ \A c, d \in batch[n] : c.id = d.id => c = d
       /\ agent[n] \notin Working \cup {"work"} => batch[n] = {}
  /\ handler.step = "settle" => handler.state \in Ended

\* Task t goes to state s, and no other task changes its state.
Becomes(t, s) ==
  task'[t].state = s /\ \A u \in TaskIds : u # t => task'[u].state = task[u].state

LEMMA StatesAfter ==
  ASSUME NEW t \in TaskIds, NEW s, Becomes(t, s)
  PROVE  States' = [States EXCEPT ![t] = s]
BY DEF States, Becomes

LEMMA UpdateBecomes ==
  ASSUME WellTyped, NEW t \in TaskIds, NEW s, NEW d, UpdateTaskState(t, s, d)
  PROVE  States' = [States EXCEPT ![t] = s]
BY AfterUpdate, StatesAfter DEF Becomes

LEMMA ScheduleBecomes ==
  ASSUME WellTyped, NEW t \in TaskIds, NEW s, NEW n, NEW d, ScheduleTask(t, s, n, d)
  PROVE  States' = [States EXCEPT ![t] = "queued"]
BY AfterSchedule, StatesAfter DEF Becomes

\* The control node is none of the agents.
LEMMA Apart == ControlNode \notin Agents
BY ControlAssumption, NodesAssumption

\* Only agent n, or only the control node, changes what it holds.
LEMMA AgentMoves ==
  ASSUME NEW n \in Agents,
         \A m \in Agents \ {n} : agent'[m] = agent[m] /\ batch'[m] = batch[m] /\ job'[m] = job[m],
         ControlWaiting' = ControlWaiting, ControlAccepted' = ControlAccepted
  PROVE  /\ n \in Executors
         /\ Waiting[n] = AgentWaiting(n) /\ Accepted[n] = AgentAccepted(n)
         /\ Waiting' = [Waiting EXCEPT ![n] = AgentWaiting(n)']
         /\ Accepted' = [Accepted EXCEPT ![n] = AgentAccepted(n)']
<1> USE DEF Executors
<1>1. Waiting[n] = AgentWaiting(n) /\ Waiting' = [Waiting EXCEPT ![n] = AgentWaiting(n)']
  BY DEF Waiting, AgentWaiting, ControlWaiting
<1>2. Accepted[n] = AgentAccepted(n) /\ Accepted' = [Accepted EXCEPT ![n] = AgentAccepted(n)']
  BY DEF Accepted, AgentAccepted, ControlAccepted
<1> QED
  BY <1>1, <1>2

LEMMA ControlMoves ==
  ASSUME UNCHANGED <<agent, batch, job>>
  PROVE  /\ ControlNode \in Executors
         /\ Waiting[ControlNode] = ControlWaiting /\ Accepted[ControlNode] = ControlAccepted
         /\ Waiting' = [Waiting EXCEPT ![ControlNode] = ControlWaiting']
         /\ Accepted' = [Accepted EXCEPT ![ControlNode] = ControlAccepted']
<1> USE Apart DEF Executors
<1>1. /\ Waiting[ControlNode] = ControlWaiting
      /\ Waiting' = [Waiting EXCEPT ![ControlNode] = ControlWaiting']
  BY DEF Waiting, ControlWaiting
<1>2. /\ Accepted[ControlNode] = ControlAccepted
      /\ Accepted' = [Accepted EXCEPT ![ControlNode] = ControlAccepted']
  BY DEF Accepted, ControlAccepted
<1> QED
  BY <1>1, <1>2

SameHolders == Waiting' = Waiting /\ Accepted' = Accepted

LEMMA NobodyMoves ==
  ASSUME UNCHANGED <<agent, batch, job>>,
         ControlWaiting' = ControlWaiting, ControlAccepted' = ControlAccepted
  PROVE  SameHolders
<1>1. Waiting' = Waiting
  BY DEF Waiting, ControlWaiting
<1>2. Accepted' = Accepted
  BY DEF Accepted, ControlAccepted
<1> QED
  BY <1>1, <1>2 DEF SameHolders

\* A step of the life cycle, or none.
LifeStep == Lifecycle!Next \/ (States' = States /\ SameHolders)

LEMMA ExecutorStep ==
  ASSUME NEW x \in Executors, NEW t \in TaskIds,
         \/ Lifecycle!QueueFor(x, t) \/ Lifecycle!Accept(x, t)
         \/ Lifecycle!Refuse(x, t) \/ Lifecycle!End(x, t)
  PROVE  LifeStep
<1>1. Lifecycle!Next
  BY DEF Lifecycle!Next
<1> QED
  BY <1>1 DEF LifeStep

\* Commands queue a task again, or have the control node start.
LEMMA OperatorLife ==
  ASSUME WellTyped, Operators
  PROVE  LifeStep
<1> USE KindsApart
<1>0. UNCHANGED <<agent, batch, job>>
  BY OperatorFrame
<1>1. ASSUME NEW t \in TaskIds, States' = [States EXCEPT ![t] = "queued"],
             ControlWaiting' = ControlWaiting, ControlAccepted' = ControlAccepted
      PROVE  LifeStep
  <2>1. Lifecycle!Queue(t)
    BY <1>0, <1>1, NobodyMoves DEF Lifecycle!Queue, States, SameHolders
  <2> QED
    BY <2>1 DEF Lifecycle!Next, LifeStep
<1>2. ASSUME NEW t \in Backups, NEW n \in Nodes, NEW p \in Paths, SubmitBackup(t, n, p)
      PROVE  LifeStep
  <2>1. States' = [States EXCEPT ![t] = "queued"] /\ UNCHANGED handler
    BY <1>2, ScheduleBecomes DEF SubmitBackup
  <2> QED
    BY <1>1, <2>1 DEF ControlWaiting, ControlAccepted
<1>3. ASSUME NEW r \in Restores, NEW s \in Sources, NEW n \in Nodes, SubmitRestore(r, s, n)
      PROVE  LifeStep
  <2>1. States' = [States EXCEPT ![r] = "queued"]
    BY <1>3, ScheduleBecomes DEF SubmitRestore
  <2>2. handler.step = "idle" /\ handler'.step = "request"
    BY <1>3 DEF SubmitRestore, Submission, Serving, Idle, Then
  <2> QED
    BY <1>1, <2>1, <2>2 DEF ControlWaiting, ControlAccepted
<1>4. ASSUME NEW e \in Entries, NEW n \in Nodes, CreateReceiveTask(e, n)
      PROVE  LifeStep
  <2>1. States' = [States EXCEPT ![<<e, n>>] = "queued"]
    BY <1>4, ScheduleBecomes DEF CreateReceiveTask
  <2>2. handler.step = "idle" /\ handler'.step = "invite"
    BY <1>4 DEF CreateReceiveTask, Submission, Serving, Idle, Then
  <2> QED
    BY <1>1, <2>1, <2>2 DEF ControlWaiting, ControlAccepted
<1>5. ASSUME NEW t \in TaskIds, NEW d \in RetryDetails, RetryTask(t, d)
      PROVE  LifeStep
  <2>1. States' = [States EXCEPT ![t] = "queued"] /\ UNCHANGED handler
    BY <1>5, UpdateBecomes DEF RetryTask
  <2> QED
    BY <1>1, <2>1 DEF ControlWaiting, ControlAccepted
<1>6. ASSUME NEW r \in Restores, RetryRestore(r)
      PROVE  LifeStep
  <2>1. States' = [States EXCEPT ![r] = "queued"]
    BY <1>6, UpdateBecomes DEF RetryRestore
  <2>2. /\ handler.step = "idle"
        /\ handler' = [step |-> "requeue", id |-> r, target |-> Text, state |-> "queued"]
    BY <1>6 DEF RetryRestore, Retry, Serving, Idle, Then
  <2>3. ControlWaiting = {} /\ ControlAccepted = {} /\ ControlWaiting' = {r} /\ ControlAccepted' = {}
    BY <2>2 DEF ControlWaiting, ControlAccepted
  <2>4. Lifecycle!QueueFor(ControlNode, r)
    <3>1. Lifecycle!Free(ControlNode)
      BY <1>0, <2>3, ControlMoves DEF Lifecycle!Free
    <3>2. Accepted' = Accepted
      BY <1>0, <2>3, ControlMoves DEF Accepted
    <3> QED
      BY <1>0, <2>1, <2>3, <3>1, <3>2, ControlMoves DEF Lifecycle!QueueFor, States
  <2> QED
    BY <2>4, ExecutorStep DEF Executors
<1>7. ASSUME NEW e \in Entries, CleanupExpired(e)
      PROVE  LifeStep
  BY <1>0, <1>7, NobodyMoves DEF CleanupExpired, process, States, ControlWaiting, ControlAccepted,
     LifeStep
<1> QED
  BY <1>2, <1>3, <1>4, <1>5, <1>6, <1>7 DEF Operators

\* The control node accepts, refuses or ends the restore it is about.
LEMMA HandlerLife ==
  ASSUME WellTyped, HoldInv, HandlerStep
  PROVE  LifeStep
<1> PICK h : h = handler.id
  OBVIOUS
<1>0. UNCHANGED <<agent, batch, job>>
  BY HandlerFrame
<1>1. handler.step \in {"requeue", "execute", "start", "restore", "settle"} =>
        h \in Restores /\ h \in TaskIds
  BY KindsApart DEF WellTyped, HandlerOK, Idle
<1>2. CASE SaveRequest \/ SaveInvitation \/ SaveRecipient
  <2>1. /\ handler.step \in {"request", "invite", "recipient"} /\ handler'.step = "idle"
        /\ UNCHANGED task
    BY <1>2 DEF SaveRequest, SaveInvitation, SaveRecipient, AtStep, Idle
  <2> QED
    BY <1>0, <2>1, NobodyMoves DEF States, ControlWaiting, ControlAccepted, LifeStep
<1>3. CASE RequeueRequest \/ ExecuteRestore
  <2>1. /\ handler.step \in {"requeue", "execute"} /\ handler'.step \in {"execute", "start"}
        /\ handler'.id = handler.id /\ UNCHANGED task
    BY <1>3 DEF RequeueRequest, ExecuteRestore, AtStep, Then
  <2> QED
    BY <1>0, <2>1, NobodyMoves DEF States, ControlWaiting, ControlAccepted, LifeStep
<1>4. ASSUME NEW outcome \in Ended, SettleRequest(outcome)
      PROVE  LifeStep
  <2>1. /\ handler.step = "restore" /\ handler'.step = "settle"
        /\ handler'.id = handler.id /\ UNCHANGED task
    BY <1>4 DEF SettleRequest, AtStep, Then
  <2> QED
    BY <1>0, <2>1, NobodyMoves DEF States, ControlWaiting, ControlAccepted, LifeStep
<1>5. CASE ExecuteWithoutMetadata
  <2>1. /\ handler.step = "execute" /\ handler'.step = "idle" /\ h \in Restores /\ h \in TaskIds
        /\ States' = [States EXCEPT ![h] = "failed"]
    BY <1>1, <1>5, UpdateBecomes DEF ExecuteWithoutMetadata, AtStep, Idle
  <2>2. /\ ControlWaiting = {h} /\ ControlWaiting' = {}
        /\ ControlAccepted = {} /\ ControlAccepted' = {}
    BY <2>1 DEF ControlWaiting, ControlAccepted
  <2>3. h \in Waiting[ControlNode] /\ Waiting' = [Waiting EXCEPT ![ControlNode] = @ \ {h}]
    BY <1>0, <2>2, ControlMoves
  <2>4. Accepted' = Accepted
    BY <1>0, <2>2, ControlMoves DEF Accepted
  <2>5. Lifecycle!Refuse(ControlNode, h)
    BY <2>1, <2>3, <2>4 DEF Lifecycle!Refuse, States
  <2> QED
    BY <2>1, <2>5, ExecutorStep DEF Executors
<1>6. CASE StartRestore
  <2>1. /\ handler.step = "start" /\ handler'.step = "restore" /\ handler'.id = h
        /\ h \in Restores /\ h \in TaskIds
        /\ States' = [States EXCEPT ![h] = "running"]
    BY <1>1, <1>6, UpdateBecomes DEF StartRestore, AtStep, Then
  <2>2. /\ ControlWaiting = {h} /\ ControlWaiting' = {}
        /\ ControlAccepted = {} /\ ControlAccepted' = {h}
    BY <2>1 DEF ControlWaiting, ControlAccepted
  <2>3. h \in Waiting[ControlNode] /\ Waiting' = [Waiting EXCEPT ![ControlNode] = @ \ {h}]
    BY <1>0, <2>2, ControlMoves
  <2>4. Accepted[ControlNode] = {} /\ Accepted' = [Accepted EXCEPT ![ControlNode] = {h}]
    BY <1>0, <2>2, ControlMoves
  <2>5. Lifecycle!Accept(ControlNode, h)
    BY <2>1, <2>3, <2>4 DEF Lifecycle!Accept, States
  <2> QED
    BY <2>1, <2>5, ExecutorStep DEF Executors
<1>7. CASE SettleTask
  <2>1. /\ handler.step = "settle" /\ handler'.step = "idle" /\ h \in Restores /\ h \in TaskIds
        /\ handler.state \in {"completed", "failed"}
        /\ States' = [States EXCEPT ![h] = handler.state]
    BY <1>1, <1>7, UpdateBecomes DEF SettleTask, AtStep, Idle, HoldInv, Ended
  <2>2. /\ ControlWaiting = {} /\ ControlWaiting' = {}
        /\ ControlAccepted = {h} /\ ControlAccepted' = {}
    BY <2>1 DEF ControlWaiting, ControlAccepted
  <2>3. h \in Accepted[ControlNode] /\ Accepted' = [Accepted EXCEPT ![ControlNode] = {}]
    BY <1>0, <2>2, ControlMoves
  <2>4. Waiting' = Waiting
    BY <1>0, <2>2, ControlMoves DEF Waiting
  <2>5. Lifecycle!End(ControlNode, h)
    BY <2>1, <2>3, <2>4 DEF Lifecycle!End, States
  <2> QED
    BY <2>1, <2>5, ExecutorStep DEF Executors
<1> QED
  BY <1>2, <1>3, <1>4, <1>5, <1>6, <1>7 DEF HandlerStep

\* An agent takes tasks, accepts them one at a time, and ends them; what it
\* skips or cannot report it forgets.
LEMMA AgentLife ==
  ASSUME WellTyped, HoldInv, NEW n \in Agents, AgentStep(n)
  PROVE  LifeStep
<1>0. /\ agent \in [Agents -> Working \cup {"off", "idle", "beat", "pull", "work"}]
      /\ batch \in [Agents -> SUBSET Copy] /\ job \in [Agents -> Copy \cup {NoJob}]
  BY DEF WellTyped, AgentsOK
<1>1. \A m \in Agents \ {n} : agent'[m] = agent[m] /\ batch'[m] = batch[m] /\ job'[m] = job[m]
  BY AgentFrame DEF OnlyAgent, SameAgent
<1>2. ControlWaiting' = ControlWaiting /\ ControlAccepted' = ControlAccepted
  <2>1. CASE UNCHANGED handler
    BY <2>1 DEF ControlWaiting, ControlAccepted
  <2>2. CASE handler.step = "idle" /\ handler'.step \in {"request", "recipient"}
    BY <2>2 DEF ControlWaiting, ControlAccepted
  <2>3. CASE ReportTask(n)
    BY <2>1, <2>2, <2>3 DEF ReportTask, Serving, Idle, Then
  <2> QED
    BY <2>1, <2>3 DEF AgentStep, AgentStart, Register, Heartbeat, PullTasks, AckTask, AckFails,
       Fetch, FetchFails, ExecuteOk, ExecuteFails, ReportLost, AgentSleep, process
<1>3. /\ n \in Executors /\ Waiting[n] = AgentWaiting(n) /\ Accepted[n] = AgentAccepted(n)
      /\ Waiting' = [Waiting EXCEPT ![n] = AgentWaiting(n)']
      /\ Accepted' = [Accepted EXCEPT ![n] = AgentAccepted(n)']
  BY <1>1, <1>2, AgentMoves
<1>4. AgentAccepted(n)' = AgentAccepted(n) => Accepted' = Accepted
  BY <1>3 DEF Accepted
<1>5. AgentWaiting(n)' = AgentWaiting(n) => Waiting' = Waiting
  BY <1>3 DEF Waiting
<1>6. CASE /\ UNCHANGED task /\ AgentWaiting(n)' = AgentWaiting(n)
           /\ AgentAccepted(n)' = AgentAccepted(n)
  BY <1>4, <1>5, <1>6 DEF States, SameHolders, LifeStep
<1>7. CASE AgentStart(n) \/ Register(n) \/ Heartbeat(n) \/ AgentSleep(n)
  <2>1. agent'[n] \notin Working /\ agent[n] \notin Working /\ UNCHANGED <<task, batch>>
    BY <1>0, <1>7 DEF AgentStart, Register, Heartbeat, AgentSleep, Goto, Working, database
  <2> QED
    BY <1>6, <2>1 DEF AgentWaiting, AgentAccepted
<1>8. CASE Fetch(n) \/ FetchFails(n) \/ ExecuteOk(n) \/ ExecuteFails(n)
  <2>1. agent'[n] \in Working /\ agent[n] \in Working /\ UNCHANGED <<task, batch>>
    BY <1>0, <1>8 DEF Fetch, FetchFails, ExecuteOk, ExecuteFails, Goto, Working, database
  <2>2. job[n] \in Copy
    BY <2>1, CopiesAreTasks
  <2>3. job'[n].id = job[n].id
    BY <1>0, <1>8, <2>2 DEF Fetch, FetchFails, ExecuteOk, ExecuteFails, Copy
  <2> QED
    BY <1>6, <2>1, <2>3 DEF AgentWaiting, AgentAccepted
<1>9. CASE PullTasks(n)
  <2>1. agent[n] = "pull" /\ agent'[n] \notin Working /\ batch[n] = {} /\ UNCHANGED task
    BY <1>0, <1>9 DEF PullTasks, Goto, Working, HoldInv, database
  <2>2. AgentWaiting(n) = {} /\ AgentAccepted(n) = {} /\ AgentAccepted(n)' = {}
    BY <2>1 DEF AgentWaiting, AgentAccepted, Working
  <2>3. CASE UNCHANGED batch
    BY <1>6, <2>1, <2>2, <2>3 DEF AgentWaiting
  <2>4. CASE batch'[n] = {[id |-> t, detail |-> task[t].detail, expired |-> FALSE] :
                            t \in Queued(n)}
    <3>1. AgentWaiting(n)' \in SUBSET {t \in TaskIds : States[t] = "queued"}
      BY <2>4 DEF AgentWaiting, Queued, ListTasksForNode, States
    <3>2. Lifecycle!Free(n)
      BY <1>3, <2>2 DEF Lifecycle!Free
    <3>3. Accepted' = Accepted /\ States' = States
      BY <1>4, <2>1, <2>2 DEF States
    <3>4. Lifecycle!Take(n)
      BY <1>3, <3>1, <3>2, <3>3 DEF Lifecycle!Take, States
    <3> QED
      BY <1>3, <3>4 DEF Lifecycle!Next, LifeStep
  <2> QED
    BY <1>0, <1>9, <2>3, <2>4 DEF PullTasks
<1>10. ASSUME NEW c \in batch[n], AckTask(n, c) \/ AckFails(n, c)
       PROVE  LifeStep
  <2>1. c \in Copy /\ c.id \in TaskIds /\ agent[n] = "work"
    BY <1>10, CopiesAreTasks DEF AckTask, AckFails
  <2>2. batch'[n] = batch[n] \ {c}
    BY <1>0, <1>10 DEF AckTask, AckFails
  <2>3. AgentWaiting(n)' = AgentWaiting(n) \ {c.id} /\ c.id \in AgentWaiting(n)
    BY <2>2 DEF AgentWaiting, HoldInv
  <2>4. AgentAccepted(n) = {} /\ Accepted[n] = {}
    BY <1>3, <2>1 DEF AgentAccepted, Working
  <2>5. CASE AckTask(n, c)
    <3>1. AgentAccepted(n)' = {c.id}
      BY <1>0, <2>1, <2>5 DEF AckTask, Goto, Working, AgentAccepted
    <3>2. States' = [States EXCEPT ![c.id] = "running"]
      BY <2>1, <2>5, UpdateBecomes DEF AckTask
    <3>3. Lifecycle!Accept(n, c.id)
      BY <1>3, <2>3, <2>4, <3>1, <3>2 DEF Lifecycle!Accept, States
    <3> QED
      BY <1>3, <2>1, <3>3, ExecutorStep
  <2>6. CASE AckFails(n, c)
    <3>1. AgentAccepted(n)' = {}
      BY <2>1, <2>6 DEF AckFails, AgentAccepted, Working
    <3>2. Accepted' = Accepted
      BY <1>4, <2>4, <3>1
    <3>3. CASE UpdateTaskState(c.id, "running", Text)
      <4>1. States' = [States EXCEPT ![c.id] = "running"]
        BY <2>1, <3>3, UpdateBecomes
      <4>2. Lifecycle!Accept(n, c.id)
        BY <1>3, <2>3, <2>4, <3>2, <4>1 DEF Lifecycle!Accept, States
      <4> QED
        BY <1>3, <2>1, <4>2, ExecutorStep
    <3>4. CASE UNCHANGED task
      <4>1. AgentWaiting(n)' \in SUBSET Waiting[n]
        BY <1>3, <2>3
      <4>2. Lifecycle!Forget(n)
        BY <1>3, <3>2, <3>4, <4>1 DEF Lifecycle!Forget
      <4> QED
        BY <1>3, <4>2 DEF Lifecycle!Next, LifeStep
    <3> QED
      BY <2>6, <3>3, <3>4 DEF AckFails
  <2> QED
    BY <1>10, <2>5, <2>6
<1>11. CASE ReportTask(n) \/ ReportLost(n)
  <2> PICK t : t = job[n].id
    OBVIOUS
  <2>1. /\ agent[n] = "report" /\ agent'[n] = "work" /\ UNCHANGED batch
        /\ t \in TaskIds /\ result[n] \in Ended
    BY <1>0, <1>11, CopiesAreTasks DEF ReportTask, ReportLost, EndJob, Goto, Working, WellTyped,
       AgentsOK
  <2>2. AgentAccepted(n) = {t} /\ AgentAccepted(n)' = {} /\ Waiting' = Waiting
    BY <1>5, <2>1 DEF AgentAccepted, AgentWaiting, Working
  <2>3. CASE ReportTask(n)
    <3>1. States' = [States EXCEPT ![t] = result[n]]
      BY <2>1, <2>3, UpdateBecomes DEF ReportTask
    <3>2. Lifecycle!End(n, t)
      BY <1>3, <2>1, <2>2, <3>1 DEF Lifecycle!End, States, Ended
    <3> QED
      BY <1>3, <2>1, <3>2, ExecutorStep
  <2>4. CASE ReportLost(n)
    <3>1. UNCHANGED task
      BY <2>4 DEF ReportLost
    <3>2. AgentWaiting(n)' \in SUBSET Waiting[n]
      BY <1>3, <2>1 DEF AgentWaiting
    <3>3. Lifecycle!Forget(n)
      BY <1>3, <2>2, <3>1, <3>2 DEF Lifecycle!Forget
    <3> QED
      BY <1>3, <3>3 DEF Lifecycle!Next, LifeStep
  <2> QED
    BY <1>11, <2>3, <2>4
<1> QED
  BY <1>7, <1>8, <1>9, <1>10, <1>11 DEF AgentStep

\* Who dies forgets what it held.
LEMMA FailureLife ==
  ASSUME WellTyped, Failures \/ RestartControl
  PROVE  LifeStep
<1>0. UNCHANGED task
  BY FailureFrame DEF OnlyForgets
<1>1. CASE ServeReturns \/ RestartControl
  BY <1>0, <1>1, NobodyMoves DEF ServeReturns, RestartControl, agents, States, ControlWaiting,
     ControlAccepted, LifeStep
<1>2. CASE ControlCrash
  <2>1. UNCHANGED <<agent, batch, job>> /\ handler'.step = "idle"
    BY <1>2 DEF ControlCrash, agents, Idle
  <2>2. ControlWaiting' = {} /\ ControlAccepted' = {}
    BY <2>1 DEF ControlWaiting, ControlAccepted
  <2>3. Lifecycle!Forget(ControlNode)
    BY <1>0, <2>1, <2>2, ControlMoves DEF Lifecycle!Forget
  <2> QED
    BY <2>1, <2>3, ControlMoves DEF Lifecycle!Next, LifeStep
<1>3. ASSUME NEW n \in Agents, AgentCrash(n)
      PROVE  LifeStep
  <2>0. /\ agent \in [Agents -> Working \cup {"off", "idle", "beat", "pull", "work"}]
        /\ batch \in [Agents -> SUBSET Copy] /\ job \in [Agents -> Copy \cup {NoJob}]
    BY DEF WellTyped, AgentsOK
  <2>1. /\ UNCHANGED handler /\ agent'[n] = "off" /\ batch'[n] = {}
        /\ \A m \in Agents \ {n} :
             agent'[m] = agent[m] /\ batch'[m] = batch[m] /\ job'[m] = job[m]
    BY <1>3, <2>0 DEF AgentCrash, Goto, process
  <2>2. AgentWaiting(n)' = {} /\ AgentAccepted(n)' = {}
    BY <2>1 DEF AgentWaiting, AgentAccepted, Working
  <2>3. ControlWaiting' = ControlWaiting /\ ControlAccepted' = ControlAccepted
    BY <2>1 DEF ControlWaiting, ControlAccepted
  <2>4. Lifecycle!Forget(n) /\ n \in Executors
    BY <1>0, <2>1, <2>2, <2>3, AgentMoves DEF Lifecycle!Forget
  <2> QED
    BY <2>4 DEF Lifecycle!Next, LifeStep
<1> QED
  BY <1>1, <1>2, <1>3 DEF Failures

\* A batch is one answer of the control node, which lists a task once.
LEMMA HoldStep == WellTyped /\ HoldInv /\ [Next]_vars => HoldInv'
<1> SUFFICES ASSUME WellTyped, HoldInv, [Next]_vars PROVE HoldInv'
  OBVIOUS
<1> USE DEF HoldInv
<1>0. /\ agent \in [Agents -> Working \cup {"off", "idle", "beat", "pull", "work"}]
      /\ batch \in [Agents -> SUBSET Copy]
  BY DEF WellTyped, AgentsOK
<1>1. handler'.step = "settle" => handler'.state \in Ended
  <2>1. CASE UNCHANGED handler \/ handler'.step # "settle"
    BY <2>1
  <2>2. ASSUME NEW outcome \in Ended, SettleRequest(outcome)
        PROVE  handler'.state \in Ended
    BY <2>2 DEF SettleRequest, Then
  <2>3. HandlerStep => handler'.step # "settle" \/ \E outcome \in Ended : SettleRequest(outcome)
    BY DEF HandlerStep, SaveRequest, SaveInvitation, SaveRecipient, RequeueRequest,
       ExecuteWithoutMetadata, ExecuteRestore, StartRestore, SettleTask, Then, Idle
  <2>4. Operators => UNCHANGED handler \/ handler'.step # "settle"
    <3>1. \A step, t, n, state : Then(step, t, n, state) => handler'.step = step
      BY DEF Then
    <3> QED
      BY <3>1 DEF Operators, SubmitBackup, SubmitRestore, CreateReceiveTask, RetryTask,
         RetryRestore, CleanupExpired, process
  <2>5. \A n \in Agents : AgentStep(n) => UNCHANGED handler \/ handler'.step # "settle"
    BY DEF AgentStep, AgentStart, Register, Heartbeat, PullTasks, AckTask, AckFails,
       Fetch, FetchFails, ExecuteOk, ExecuteFails, ReportTask, ReportLost, AgentSleep, process, Then
  <2>6. Failures \/ RestartControl => UNCHANGED handler \/ handler'.step # "settle"
    BY FailureFrame DEF OnlyForgets, Idle
  <2> QED
    BY <2>1, <2>2, <2>3, <2>4, <2>5, <2>6 DEF Next, vars, process
<1>2. CASE UNCHANGED <<agent, batch>>
  BY <1>1, <1>2
<1>3. CASE Failures \/ RestartControl
  BY <1>1, <1>3, FailureFrame DEF OnlyForgets, SameAgent
<1>4. ASSUME NEW n \in Agents, AgentStep(n)
      PROVE  HoldInv'
  <2> SUFFICES /\ \A c, d \in batch'[n] : c.id = d.id => c = d
               /\ agent'[n] \notin Working \cup {"work"} => batch'[n] = {}
    BY <1>1, <1>4, AgentFrame DEF OnlyAgent, SameAgent
  <2>1. CASE PullTasks(n)
    <3>1. batch[n] = {}
      BY <2>1 DEF PullTasks, Working
    <3>2. CASE UNCHANGED batch
      BY <3>1, <3>2
    <3>3. CASE /\ agent'[n] = "work"
               /\ batch'[n] = {[id |-> t, detail |-> task[t].detail, expired |-> FALSE] :
                                 t \in Queued(n)}
      <4>1. \A c \in batch'[n] : c = [id |-> c.id, detail |-> task[c.id].detail, expired |-> FALSE]
        BY <3>3
      <4> QED
        BY <3>3, <4>1
    <3> QED
      BY <1>0, <2>1, <3>2, <3>3 DEF PullTasks, Goto
  <2>2. ASSUME NEW c \in batch[n], AckTask(n, c) \/ AckFails(n, c)
        PROVE  /\ \A d, e \in batch'[n] : d.id = e.id => d = e
               /\ agent'[n] \notin Working \cup {"work"} => batch'[n] = {}
    BY <1>0, <2>2 DEF AckTask, AckFails, Goto, Working
  <2>3. CASE AgentStart(n) \/ Register(n) \/ Heartbeat(n) \/ AgentSleep(n)
    BY <1>0, <2>3 DEF AgentStart, Register, Heartbeat, AgentSleep, Goto, Working
  <2>4. CASE \/ Fetch(n) \/ FetchFails(n) \/ ExecuteOk(n) \/ ExecuteFails(n)
             \/ ReportTask(n) \/ ReportLost(n)
    BY <1>0, <2>4 DEF Fetch, FetchFails, ExecuteOk, ExecuteFails, ReportTask, ReportLost, EndJob,
       Goto, Working
  <2> QED
    BY <1>4, <2>1, <2>2, <2>3, <2>4 DEF AgentStep
<1> QED
  BY <1>2, <1>3, <1>4, OperatorFrame, HandlerFrame DEF Next, vars, agents

\* The control node and the agents implement TaskLifecycle, however many
\* hold a task, whatever is retried, late or lost, and whoever is killed.
THEOREM ControlRefinesLifecycle == Spec => ImplementsLifecycle
<1>1. Init => HoldInv
  BY DEF Init, HoldInv, Idle
<1>2. Init => Lifecycle!Init
  <2> SUFFICES ASSUME Init PROVE Lifecycle!Init
    OBVIOUS
  <2>1. [t \in TaskIds |-> task[t].state] = [t \in TaskIds |-> "none"]
    BY DEF Init, NoTask
  <2>2. Waiting = [x \in Executors |-> {}]
    BY DEF Init, Idle, Waiting
  <2>3. Accepted = [x \in Executors |-> {}]
    BY DEF Init, Idle, Accepted, Working
  <2> QED
    BY <2>1, <2>2, <2>3 DEF Lifecycle!Init
<1>3. TypeOK /\ HoldInv /\ [Next]_vars => [Lifecycle!Next]_(Lifecycle!vars)
  <2> SUFFICES ASSUME WellTyped, HoldInv, [Next]_vars PROVE [Lifecycle!Next]_(Lifecycle!vars)
    BY DEF TypeOK
  <2>1. LifeStep
    <3>1. CASE UNCHANGED vars
      BY <3>1, NobodyMoves DEF vars, database, process, agents, States, ControlWaiting,
         ControlAccepted, LifeStep
    <3> QED
      BY <3>1, OperatorLife, HandlerLife, AgentLife, FailureLife DEF Next
  <2> QED
    BY <2>1 DEF LifeStep, States, SameHolders, Lifecycle!vars
<1> QED
  BY <1>1, <1>2, <1>3, HoldStep, ControlTypes, PTL DEF Spec, ImplementsLifecycle, Lifecycle!Spec, TypeOK

-----------------------------------------------------------------------------
(***************************************************************************)
(* Restore requests and their tasks.                                       *)
(***************************************************************************)
\* A handler is about to write the request or the task of restore r.
Pending(r) == handler.step # "idle" /\ handler.id = r

\* How far the control node is with the restore a handler is about.
HandlerAgrees ==
  /\ handler.step = "request" => task[handler.id].state = handler.state
  /\ handler.step \in {"requeue", "execute", "start"} => task[handler.id].state = "queued"
  /\ handler.step \in {"restore", "settle"} => task[handler.id].state = "running"
  /\ handler.step \in {"requeue", "start", "restore"} => request[handler.id] # "none"
  /\ handler.step = "execute" => request[handler.id] = "queued"
  /\ handler.step = "settle" => request[handler.id] = handler.state

\* The two disagree only after a handler was killed or has given up; only a
\* handler that was killed leaves a task without its request.
RequestAgrees(r) ==
  ~Pending(r) =>
    /\ task[r].state # "none" => request[r] # "none" \/ r \in torn
    /\ task[r].state \in Ended =>
         \/ request[r] = task[r].state
         \/ r \in torn
         \/ r \in givenUp /\ task[r].state = "failed" /\ request[r] = "queued"

RestoreInv == HandlerAgrees /\ \A r \in Restores : RequestAgrees(r)

\* Commands find no handler at work, and leave one behind for what they began.
LEMMA OperatorRestores ==
  ASSUME WellTyped, RestoreInv, Operators
  PROVE  RestoreInv'
<1> USE KindsApart
<1>0. UNCHANGED <<torn, givenUp>>
  BY DEF Operators, SubmitBackup, SubmitRestore, CreateReceiveTask, RetryTask, RetryRestore,
     CleanupExpired, Submission, Retry, history
<1>1. ASSUME NEW t \in Backups, NEW n \in Nodes, NEW p \in Paths, SubmitBackup(t, n, p)
      PROVE  RestoreInv'
  <2>1. UNCHANGED <<request, handler>> /\ handler = Idle
    BY <1>1 DEF SubmitBackup, Submission, Serving
  <2>2. \A r \in Restores : task'[r] = task[r]
    BY <1>1, AfterSchedule DEF SubmitBackup
  <2> QED
    BY <1>0, <2>1, <2>2 DEF RestoreInv, HandlerAgrees, RequestAgrees, Pending, Idle
<1>2. ASSUME NEW r \in Restores, NEW s \in Sources, NEW n \in Nodes, SubmitRestore(r, s, n)
      PROVE  RestoreInv'
  <2>1. /\ UNCHANGED request /\ handler = Idle
        /\ handler' = [step |-> "request", id |-> r, target |-> n, state |-> "queued"]
    BY <1>2 DEF SubmitRestore, Submission, Serving, Then
  <2>2. task'[r].state = "queued" /\ \A q \in Restores : q # r => task'[q] = task[q]
    BY <1>2, AfterSchedule DEF SubmitRestore
  <2> QED
    BY <1>0, <2>1, <2>2 DEF RestoreInv, HandlerAgrees, RequestAgrees, Pending, Idle
<1>3. ASSUME NEW e \in Entries, NEW n \in Nodes, CreateReceiveTask(e, n)
      PROVE  RestoreInv'
  <2>1. /\ UNCHANGED request /\ handler = Idle
        /\ handler' = [step |-> "invite", id |-> <<e, n>>, target |-> n, state |-> "pending"]
    BY <1>3 DEF CreateReceiveTask, Submission, Serving, Then
  <2>2. \A r \in Restores : task'[r] = task[r]
    BY <1>3, AfterSchedule DEF CreateReceiveTask
  <2> QED
    BY <1>0, <2>1, <2>2 DEF RestoreInv, HandlerAgrees, RequestAgrees, Pending, Idle
<1>4. ASSUME NEW t \in TaskIds, NEW d \in RetryDetails, RetryTask(t, d)
      PROVE  RestoreInv'
  <2>1. UNCHANGED <<request, handler>> /\ handler = Idle /\ task[t].state # "none"
    BY <1>4 DEF RetryTask, Retry, Serving
  <2>2. task'[t].state = "queued" /\ \A r \in Restores : r # t => task'[r] = task[r]
    BY <1>4, AfterUpdate DEF RetryTask
  <2> QED
    BY <1>0, <2>1, <2>2 DEF RestoreInv, HandlerAgrees, RequestAgrees, Pending, Idle, Ended
<1>5. ASSUME NEW r \in Restores, RetryRestore(r)
      PROVE  RestoreInv'
  <2>1. /\ UNCHANGED request /\ handler = Idle /\ request[r] # "none"
        /\ handler' = [step |-> "requeue", id |-> r, target |-> Text, state |-> "queued"]
    BY <1>5 DEF RetryRestore, Retry, Serving, Then
  <2>2. task'[r].state = "queued" /\ \A q \in Restores : q # r => task'[q] = task[q]
    BY <1>5, AfterUpdate DEF RetryRestore
  <2> QED
    BY <1>0, <2>1, <2>2 DEF RestoreInv, HandlerAgrees, RequestAgrees, Pending, Idle
<1>6. ASSUME NEW e \in Entries, CleanupExpired(e)
      PROVE  RestoreInv'
  BY <1>0, <1>6 DEF CleanupExpired, process, RestoreInv, HandlerAgrees, RequestAgrees, Pending
<1> QED
  BY <1>1, <1>2, <1>3, <1>4, <1>5, <1>6 DEF Operators

\* Handlers bring request and task to the same end.
LEMMA HandlerRestores ==
  ASSUME WellTyped, RestoreInv, HandlerStep
  PROVE  RestoreInv'
<1> DEFINE h == handler.id
<1> USE KindsApart DEF RestoreInv, HandlerAgrees, RequestAgrees, Pending
<1>0. request \in [Restores -> JobStates \cup {"none"}]
  BY DEF WellTyped, DatabaseOK
<1>1. CASE SaveRequest
  <2>1. h \in Restores /\ handler.state \in JobStates /\ task[h].state = handler.state
    BY <1>1 DEF SaveRequest, AtStep, WellTyped, HandlerOK, Idle
  <2> QED
    BY <1>0, <1>1, <2>1 DEF SaveRequest, RestoreFinished, Idle, JobStates
<1>2. CASE SaveInvitation \/ SaveRecipient
  <2>1. h \in Transfers
    BY <1>2 DEF SaveInvitation, SaveRecipient, AtStep, WellTyped, HandlerOK, Idle
  <2> QED
    BY <1>2, <2>1 DEF SaveInvitation, SaveRecipient, Idle, history
<1>3. handler.step \in {"requeue", "execute", "start", "restore", "settle"} =>
        h \in Restores /\ handler.state \in JobStates
  BY DEF WellTyped, HandlerOK, Idle
<1>4. CASE RequeueRequest \/ ExecuteRestore
  BY <1>0, <1>3, <1>4 DEF RequeueRequest, ExecuteRestore, AtStep, Then, history
<1>5. CASE ExecuteWithoutMetadata
  <2>1. h \in Restores /\ request[h] = "queued" /\ UNCHANGED request
    BY <1>3, <1>5 DEF ExecuteWithoutMetadata, AtStep
  <2>2. task'[h].state = "failed" /\ \A r \in Restores : r # h => task'[r] = task[r]
    BY <1>5, <2>1, AfterUpdate DEF ExecuteWithoutMetadata
  <2> QED
    BY <1>5, <2>1, <2>2 DEF ExecuteWithoutMetadata, AtStep, Idle
<1>6. CASE StartRestore
  <2>1. h \in Restores /\ request[h] # "none" /\ UNCHANGED request
    BY <1>3, <1>6 DEF StartRestore, AtStep
  <2>2. task'[h].state = "running" /\ \A r \in Restores : r # h => task'[r] = task[r]
    BY <1>6, <2>1, AfterUpdate DEF StartRestore
  <2> QED
    BY <1>6, <2>1, <2>2 DEF StartRestore, AtStep, Then, history
<1>7. ASSUME NEW outcome \in Ended, SettleRequest(outcome)
      PROVE  RestoreInv'
  BY <1>0, <1>3, <1>7 DEF SettleRequest, AtStep, Then
<1>8. CASE SettleTask
  <2>1. h \in Restores /\ request[h] = handler.state /\ handler.state # "none" /\ UNCHANGED request
    BY <1>3, <1>8 DEF SettleTask, AtStep, JobStates
  <2>2. task'[h].state = handler.state /\ \A r \in Restores : r # h => task'[r] = task[r]
    BY <1>8, <2>1, AfterUpdate DEF SettleTask
  <2> QED
    BY <1>8, <2>1, <2>2 DEF SettleTask, RestoreFinished, AtStep, Idle
<1> QED
  BY <1>1, <1>2, <1>4, <1>5, <1>6, <1>7, <1>8 DEF HandlerStep

\* While a handler is at work the control node takes nothing from agents.
LEMMA AgentRestores ==
  ASSUME WellTyped, RestoreInv, NEW n \in Agents, AgentStep(n)
  PROVE  RestoreInv'
<1> USE KindsApart
<1>0. UNCHANGED <<request, torn, givenUp>>
  BY DEF AgentStep, AgentStart, Register, Heartbeat, PullTasks, AckTask, AckFails, Fetch,
     FetchFails, ExecuteOk, ExecuteFails, ReportTask, ReportLost, EndJob, AgentSleep, database,
     history
<1>1. ASSUME NEW c \in batch[n], AckTask(n, c) \/ AckFails(n, c)
      PROVE  RestoreInv'
  <2>1. UNCHANGED handler
    BY <1>1 DEF AckTask, AckFails, process
  <2>2. CASE UNCHANGED task
    BY <1>0, <2>1, <2>2 DEF RestoreInv, HandlerAgrees, RequestAgrees, Pending
  <2>3. CASE Serving /\ UpdateTaskState(c.id, "running", Text)
    <3>1. c.id \in TaskIds /\ task[c.id].state # "none" /\ handler = Idle
      BY <2>3, CopiesAreTasks, StateOfTask DEF Serving
    <3>2. task'[c.id].state = "running" /\ \A r \in Restores : r # c.id => task'[r] = task[r]
      BY <2>3, <3>1, AfterUpdate
    <3> QED
      BY <1>0, <2>1, <3>1, <3>2 DEF RestoreInv, HandlerAgrees, RequestAgrees, Pending, Idle, Ended
  <2> QED
    BY <1>1, <2>2, <2>3 DEF AckTask, AckFails, Answered, ReplyLost
<1>2. CASE ReportTask(n)
  <2> DEFINE t == job[n].id
  <2>1. /\ t \in TaskIds /\ task[t].state # "none" /\ handler = Idle
        /\ result[n] \in Ended /\ UNCHANGED control
    BY <1>2, CopiesAreTasks, StateOfTask DEF ReportTask, Working, WellTyped, AgentsOK, Serving,
       EndJob
  <2>2. task'[t].state = result[n] /\ \A r \in Restores : r # t => task'[r] = task[r]
    BY <1>2, <2>1, AfterUpdate DEF ReportTask
  <2>3. CASE t \in Restores /\ request[t] # "none"
    <3>1. handler' = [step |-> "request", id |-> t, target |-> Text, state |-> result[n]]
      BY <1>2, <2>3 DEF ReportTask, Then
    <3> QED
      BY <1>0, <2>1, <2>2, <2>3, <3>1 DEF RestoreInv, HandlerAgrees, RequestAgrees, Pending, Idle
  <2>4. CASE t \in Restores /\ request[t] = "none"
    <3>1. UNCHANGED handler
      BY <1>2, <2>4 DEF ReportTask
    <3>2. t \in torn
      BY <2>1, <2>4 DEF RestoreInv, RequestAgrees, Pending, Idle
    <3> QED
      BY <1>0, <2>1, <2>2, <2>4, <3>1, <3>2
      DEF RestoreInv, HandlerAgrees, RequestAgrees, Pending, Idle
  <2>5. CASE t \notin Restores
    <3>1. handler' = handler \/ handler'.step = "recipient"
      BY <1>2, <2>5 DEF ReportTask, Then
    <3> QED
      BY <1>0, <2>1, <2>2, <2>5, <3>1 DEF RestoreInv, HandlerAgrees, RequestAgrees, Pending, Idle
  <2> QED
    BY <2>3, <2>4, <2>5
<1>3. CASE UNCHANGED <<task, handler>>
  BY <1>0, <1>3 DEF RestoreInv, HandlerAgrees, RequestAgrees, Pending
<1> QED
  BY <1>1, <1>2, <1>3 DEF AgentStep, AgentStart, Register, Heartbeat, PullTasks, Fetch, FetchFails,
     ExecuteOk, ExecuteFails, ReportLost, AgentSleep, database, process

\* A killed handler marks the restore it was about.
LEMMA FailureRestores ==
  ASSUME WellTyped, RestoreInv, Failures \/ RestartControl
  PROVE  RestoreInv'
<1>0. UNCHANGED <<task, request>>
  BY FailureFrame DEF OnlyForgets
<1>1. CASE UNCHANGED <<handler, torn, givenUp>>
  BY <1>0, <1>1 DEF RestoreInv, HandlerAgrees, RequestAgrees, Pending
<1>2. CASE ControlCrash
  <2>1. /\ handler' = Idle /\ UNCHANGED givenUp
        /\ torn \subseteq torn' /\ \A r \in Restores : r = handler.id => r \in torn'
    BY <1>2 DEF ControlCrash
  <2> QED
    BY <1>0, <2>1 DEF RestoreInv, HandlerAgrees, RequestAgrees, Pending, Idle
<1>3. ServeReturns \/ RestartControl \/ (\E n \in Agents : AgentCrash(n)) =>
        UNCHANGED <<handler, torn, givenUp>>
  BY DEF ServeReturns, RestartControl, AgentCrash, process, history
<1> QED
  BY <1>1, <1>2, <1>3 DEF Failures

\* However the agents, the operators that retry, and the control node that
\* restores by itself get in each other's way, a restore request and its task
\* agree on how they ended.  They disagree only where the handler that was to
\* write both was killed between the two and none has finished since, or where
\* the control node gave up a retry without the metadata of the file.
THEOREM RequestsAgree == Spec => []RestoreAgrees
<1>1. Init => RestoreInv
  BY KindsApart DEF Init, NoTask, Idle, Ended, RestoreInv, HandlerAgrees, RequestAgrees
<1>2. TypeOK /\ RestoreInv /\ [Next]_vars => RestoreInv'
  <2> SUFFICES ASSUME WellTyped, RestoreInv, [Next]_vars PROVE RestoreInv'
    BY DEF TypeOK
  <2>1. CASE UNCHANGED vars
    BY <2>1 DEF vars, database, process, history, RestoreInv, HandlerAgrees, RequestAgrees, Pending
  <2> QED
    BY <2>1, OperatorRestores, HandlerRestores, AgentRestores, FailureRestores DEF Next
<1>3. RestoreInv => RestoreAgrees
  BY DEF RestoreInv, RequestAgrees, Pending, RestoreAgrees, Idle
<1> QED
  BY <1>1, <1>2, <1>3, ControlTypes, PTL DEF Spec
=============================================================================
