---------------------------- MODULE ControlPlane ----------------------------
(***************************************************************************)
(* The control node and the device agents: tasks are submitted to the      *)
(* control node, pulled by the agents of the nodes they name, acknowledged,*)
(* executed, and reported back.                                            *)
(*                                                                         *)
(* The control node serves one connection after the other, so a request is *)
(* handled without interference; but a handler writes several tables, one  *)
(* after the other, and the process can die in between.  An agent keeps    *)
(* the tasks it pulled in memory.  Requests and replies can be lost.       *)
(*                                                                         *)
(* The detail column of a task is abstracted to what matters: a backup     *)
(* task is told there which path to back up, everything else is Text.      *)
(***************************************************************************)
EXTENDS Naturals

CONSTANTS
  Nodes,         \* devices
  Agents,        \* those that run device_agent
  Backups,       \* ids of backup tasks
  Restores,      \* ids of restore requests and their tasks
  Entries,       \* published entries of the shared library
  Owner,         \* Owner[e]: the node that published entry e
  Sources,       \* nodes that restore requests name as their source
  Paths,         \* paths that exist on the devices
  Text,          \* any detail the programs write
  RetryDetails,  \* details operators give when they retry a task
  ControlNode,   \* the control node, where it executes a restore itself
  MaxSubmits, MaxRetries, MaxFaults   \* bounds

\* A receive task is named after the entry and the target node.
Transfers == Entries \X Nodes
TaskIds == Backups \cup Restores \cup Transfers

ASSUME NodesAssumption == /\ Agents \subseteq Nodes /\ Sources \subseteq Nodes
                          /\ Owner \in [Entries -> Nodes]
ASSUME IdsAssumption == /\ Backups \cap Restores = {}
                        /\ (Backups \cup Restores) \cap Transfers = {}
ASSUME DetailsAssumption == Text \notin Paths
ASSUME ControlAssumption == ControlNode \notin Nodes
ASSUME LimitsAssumption == MaxSubmits \in Nat /\ MaxRetries \in Nat /\ MaxFaults \in Nat

VARIABLES
  \* Database of the control node.
  device,     \* who wrote the row of each node last
  task,       \* scheduled_tasks
  request,    \* state of each restore request
  recipient,  \* state of each recipient of each shared entry
  expired,    \* entries marked as expired
  removed,    \* entries whose file was removed from the library
  \* Control node process.
  control, handler,
  \* Device agents.
  agent, batch, job, result,
  \* Counters of the bounds.
  submits, retries, faults,
  \* History, which only the properties look at.
  named,      \* <<task, node>>: an operator named the node for the task
  given,      \* <<task, detail>>: an operator gave this detail for the task
  succeeded,  \* <<task, executor>> of every successful execution
  torn,       \* restores whose handler was killed and that none finished since
  givenUp     \* restores the control node gave up without the file's metadata

database == <<device, task, request, recipient, expired, removed>>
process == <<control, handler>>
agents == <<agent, batch, job, result>>
environment == <<submits, retries, faults>>
history == <<named, given, succeeded, torn, givenUp>>
vars == <<database, process, agents, environment, history>>

NoTask == [state |-> "none", source |-> Text, target |-> Text, detail |-> Text]
NoJob == [id |-> Text, detail |-> Text, expired |-> FALSE]
Idle == [step |-> "idle", id |-> Text, target |-> Text, state |-> "none"]

JobStates == {"queued", "running", "completed", "failed"}
Ended == {"completed", "failed"}

Init ==
  /\ device = [n \in Nodes |-> "unknown"]
  /\ task = [t \in TaskIds |-> NoTask]
  /\ request = [r \in Restores |-> "none"]
  /\ recipient = [e \in Entries |-> [n \in Nodes |-> "none"]]
  /\ expired = {} /\ removed = {}
  /\ control = "up" /\ handler = Idle
  /\ agent = [n \in Agents |-> "off"]
  /\ batch = [n \in Agents |-> {}]
  /\ job = [n \in Agents |-> NoJob]
  /\ result = [n \in Agents |-> "none"]
  /\ submits = 0 /\ retries = 0 /\ faults = 0
  /\ named = {} /\ given = {} /\ succeeded = {} /\ torn = {} /\ givenUp = {}

-----------------------------------------------------------------------------
(***************************************************************************)
(* TaskScheduler.                                                          *)
(***************************************************************************)
ScheduleTask(t, source, target, detail) ==
  /\ task' = [task EXCEPT ![t] = [state |-> "queued", source |-> source,
                                  target |-> target, detail |-> detail]]
  /\ named' = named \cup {<<t, source>>, <<t, target>>}
  /\ given' = given \cup {<<t, detail>>}

\* Whatever the state was.
UpdateTaskState(t, state, detail) ==
  task' = [task EXCEPT ![t] = [state |-> state, source |-> task[t].source,
                               target |-> task[t].target, detail |-> detail]]

ListTasksForNode(n) ==
  {t \in TaskIds : task[t].state # "none" /\ (task[t].source = n \/ task[t].target = n)}

-----------------------------------------------------------------------------
(***************************************************************************)
(* The control node: commands of operators.                                *)
(***************************************************************************)
Serving == control = "up" /\ handler = Idle

Submission ==
  /\ Serving /\ submits < MaxSubmits
  /\ submits' = submits + 1
  /\ UNCHANGED <<control, agents, retries, faults, succeeded, torn, givenUp>>

\* The rest of a handler, after its first write.
Then(step, t, target, state) ==
  handler' = [step |-> step, id |-> t, target |-> target, state |-> state]

\* SUBMIT_BACKUP first writes a row for the node, with a placeholder for its
\* address and the current time as the time it was last seen.
SubmitBackup(t, n, path) ==
  /\ t \in Backups /\ Submission
  /\ device' = [device EXCEPT ![n] = "placeholder"]
  /\ ScheduleTask(t, n, n, path)
  /\ UNCHANGED <<request, recipient, expired, removed, handler>>

SubmitRestore(r, source, target) ==
  /\ r \in Restores /\ Submission
  /\ ScheduleTask(r, source, target, Text)
  /\ Then("request", r, target, "queued")
  /\ UNCHANGED <<device, request, recipient, expired, removed>>

\* SUBMIT_SHARE_RECEIVE and RETRY_SHARE.
CreateReceiveTask(e, n) ==
  /\ Submission
  /\ e \notin expired /\ recipient[e][n] # "delivered"
  /\ ScheduleTask(<<e, n>>, Owner[e], n, Text)
  /\ Then("invite", <<e, n>>, n, "pending")
  /\ UNCHANGED <<device, request, recipient, expired, removed>>

Retry(t) ==
  /\ Serving /\ retries < MaxRetries
  /\ task[t].state # "none"
  /\ retries' = retries + 1
  /\ UNCHANGED <<control, agents, submits, faults, named, succeeded, torn, givenUp>>

\* Mutant: the task is only queued again.
RetryKeepsDetail(t, detail) ==
  /\ Retry(t)
  /\ UpdateTaskState(t, "queued", task[t].detail)
  /\ given' = given \cup {<<t, detail>>}
  /\ UNCHANGED <<device, request, recipient, expired, removed, handler>>

\* RETRY_TASK.
RetryTask(t, detail) ==
  /\ Retry(t)
  /\ UpdateTaskState(t, "queued", detail)
  /\ given' = given \cup {<<t, detail>>}
  /\ UNCHANGED <<device, request, recipient, expired, removed, handler>>

\* RETRY_RESTORE, first write; the rest of the handler executes the restore
\* on the control node itself.
RetryRestore(r) ==
  /\ r \in Restores /\ request[r] # "none" /\ Retry(r)
  /\ UpdateTaskState(r, "queued", Text)
  /\ Then("requeue", r, Text, "queued")
  /\ UNCHANGED <<device, request, recipient, expired, removed, given>>

\* The cleanup runs in a process of its own, on the same database.
CleanupExpired(e) ==
  /\ e \notin expired /\ submits < MaxSubmits
  /\ submits' = submits + 1
  /\ expired' = expired \cup {e} /\ removed' = removed \cup {e}
  /\ UNCHANGED <<device, task, request, recipient, process, agents,
                 retries, faults, history>>

-----------------------------------------------------------------------------
(***************************************************************************)
(* The control node: the remaining writes of a handler.                    *)
(***************************************************************************)
AtStep(step) == control = "up" /\ handler.step = step

\* Task and request have both been written.
RestoreFinished == torn' = torn \ {handler.id} /\ givenUp' = givenUp \ {handler.id}

\* Mutant: only success is saved.
SaveCompletedOnly ==
  /\ AtStep("request")
  /\ request' = [request EXCEPT ![handler.id] = IF handler.state = "failed" THEN @ ELSE handler.state]
  /\ handler' = Idle /\ RestoreFinished
  /\ UNCHANGED <<device, task, recipient, expired, removed, control, agents, environment,
                 named, given, succeeded>>

SaveRequest ==
  /\ AtStep("request")
  /\ request' = [request EXCEPT ![handler.id] = handler.state]
  /\ handler' = Idle /\ RestoreFinished
  /\ UNCHANGED <<device, task, recipient, expired, removed, control, agents, environment,
                 named, given, succeeded>>

SetRecipient == recipient' = [recipient EXCEPT ![handler.id[1]][handler.target] = handler.state]

\* CreateReceiveTask saves the entry as it was read before the task was
\* written: not expired.
SaveInvitation ==
  /\ AtStep("invite")
  /\ SetRecipient
  /\ expired' = expired \ {handler.id[1]}
  /\ handler' = Idle
  /\ UNCHANGED <<device, task, request, removed, control, agents, environment, history>>

SaveRecipient ==
  /\ AtStep("recipient")
  /\ SetRecipient
  /\ handler' = Idle
  /\ UNCHANGED <<device, task, request, expired, removed, control, agents, environment, history>>

\* RetryRestore, second write.
RequeueRequest ==
  /\ AtStep("requeue")
  /\ request' = [request EXCEPT ![handler.id] = "queued"]
  /\ Then("execute", handler.id, Text, "queued")
  /\ UNCHANGED <<device, task, recipient, expired, removed, control, agents, environment, history>>

\* ExecuteRestore gives up without the metadata; the request stays queued.
ExecuteWithoutMetadata ==
  /\ AtStep("execute")
  /\ UpdateTaskState(handler.id, "failed", Text)
  /\ handler' = Idle
  /\ torn' = torn \ {handler.id} /\ givenUp' = givenUp \cup {handler.id}
  /\ UNCHANGED <<device, request, recipient, expired, removed, control, agents, environment,
                 named, given, succeeded>>

ExecuteRestore ==
  /\ AtStep("execute")
  /\ request' = [request EXCEPT ![handler.id] = "running"]
  /\ Then("start", handler.id, Text, "running")
  /\ UNCHANGED <<device, task, recipient, expired, removed, control, agents, environment, history>>

StartRestore ==
  /\ AtStep("start")
  /\ UpdateTaskState(handler.id, "running", Text)
  /\ Then("restore", handler.id, Text, "running")
  /\ UNCHANGED <<device, request, recipient, expired, removed, control, agents, environment, history>>

\* The file is restored on the control node, or that fails.
SettleRequest(outcome) ==
  /\ AtStep("restore")
  /\ request' = [request EXCEPT ![handler.id] = outcome]
  /\ Then("settle", handler.id, Text, outcome)
  /\ succeeded' = IF outcome = "completed" THEN succeeded \cup {<<handler.id, ControlNode>>}
                                           ELSE succeeded
  /\ UNCHANGED <<device, task, recipient, expired, removed, control, agents, environment,
                 named, given, torn, givenUp>>

SettleTask ==
  /\ AtStep("settle")
  /\ UpdateTaskState(handler.id, handler.state, Text)
  /\ handler' = Idle /\ RestoreFinished
  /\ UNCHANGED <<device, request, recipient, expired, removed, control, agents, environment,
                 named, given, succeeded>>

-----------------------------------------------------------------------------
(***************************************************************************)
(* The control node process.                                               *)
(***************************************************************************)
\* A broken connection makes recv or send fail, and Serve returns.
ServeReturns ==
  /\ Serving /\ faults < MaxFaults
  /\ control' = "down" /\ faults' = faults + 1
  /\ UNCHANGED <<database, handler, agents, submits, retries, history>>

\* The process dies, be it within a handler.
ControlCrash ==
  /\ control = "up" /\ faults < MaxFaults
  /\ control' = "down" /\ handler' = Idle /\ faults' = faults + 1
  /\ torn' = torn \cup (Restores \cap {handler.id})
  /\ UNCHANGED <<database, agents, submits, retries, named, given, succeeded, givenUp>>

RestartControl ==
  /\ control = "down"
  /\ control' = "up"
  /\ UNCHANGED <<database, handler, agents, environment, history>>

-----------------------------------------------------------------------------
(***************************************************************************)
(* A device agent.  Each request to the control node is answered; or it is *)
(* handled but the reply is lost; or it does not arrive.                   *)
(***************************************************************************)
Answered == Serving /\ UNCHANGED faults

ReplyLost == Serving /\ faults < MaxFaults /\ faults' = faults + 1

NotDelivered == \/ control = "down" /\ UNCHANGED faults
                \/ control = "up" /\ faults < MaxFaults /\ faults' = faults + 1

Goto(n, pc) == agent' = [agent EXCEPT ![n] = pc]

AgentStart(n) ==
  /\ agent[n] = "off"
  /\ Goto(n, "idle")
  /\ UNCHANGED <<database, process, batch, job, result, environment, history>>

AgentCrash(n) ==
  /\ agent[n] # "off" /\ faults < MaxFaults
  /\ Goto(n, "off") /\ faults' = faults + 1
  /\ batch' = [batch EXCEPT ![n] = {}]
  /\ job' = [job EXCEPT ![n] = NoJob]
  /\ result' = [result EXCEPT ![n] = "none"]
  /\ UNCHANGED <<database, process, submits, retries, history>>

\* Mutant: a device that has a row is not registered again.
RegisterOnce(n) ==
  /\ agent[n] = "idle"
  /\ \/ Answered /\ Goto(n, "beat")
     \/ ReplyLost /\ UNCHANGED agent
  /\ device' = [device EXCEPT ![n] = IF @ = "unknown" THEN "registered" ELSE @]
  /\ UNCHANGED <<task, request, recipient, expired, removed, process, batch, job, result,
                 submits, retries, history>>

\* RunBootstrap: REGISTER, HEARTBEAT, PULL_TASKS.  An error ends the cycle.
Register(n) ==
  /\ agent[n] = "idle"
  /\ \/ Answered /\ Goto(n, "beat")
     \/ ReplyLost /\ UNCHANGED agent
  /\ device' = [device EXCEPT ![n] = "registered"]
  /\ UNCHANGED <<task, request, recipient, expired, removed, process, batch, job, result,
                 submits, retries, history>>

\* The time stamp moves, the rest of the row, which must exist, stays.
Heartbeat(n) ==
  /\ agent[n] = "beat"
  /\ \/ Answered /\ device[n] # "unknown" /\ Goto(n, "pull")
     \/ NotDelivered /\ Goto(n, "idle")
  /\ UNCHANGED <<database, process, batch, job, result,
                 submits, retries, history>>

Queued(n) == {t \in ListTasksForNode(n) : task[t].state = "queued"}

PullTasks(n) ==
  /\ agent[n] = "pull"
  /\ \/ /\ Answered /\ Goto(n, "work")
        /\ batch' = [batch EXCEPT ![n] =
             {[id |-> t, detail |-> task[t].detail, expired |-> FALSE] : t \in Queued(n)}]
     \/ NotDelivered /\ Goto(n, "idle") /\ UNCHANGED batch
  /\ UNCHANGED <<database, process, job, result, submits, retries, history>>

\* Mutant: the loop goes on with the task before.
AckWithoutTaking(n, c) ==
  /\ agent[n] = "work" /\ c \in batch[n] /\ Answered
  /\ UpdateTaskState(c.id, "running", Text)
  /\ batch' = [batch EXCEPT ![n] = @ \ {c}]
  /\ Goto(n, IF c.id \in Backups THEN "execute" ELSE "fetch")
  /\ UNCHANGED <<device, request, recipient, expired, removed, process, job, result,
                 submits, retries, history>>

\* Mutant: the acknowledgement does not change the state.
AckNotRecorded(n, c) ==
  /\ agent[n] = "work" /\ c \in batch[n] /\ Answered
  /\ batch' = [batch EXCEPT ![n] = @ \ {c}]
  /\ job' = [job EXCEPT ![n] = c]
  /\ Goto(n, IF c.id \in Backups THEN "execute" ELSE "fetch")
  /\ UNCHANGED <<database, process, result, submits, retries, history>>

\* ExecuteTasks, for each task of the batch: it is acknowledged first.
AckTask(n, c) ==
  /\ agent[n] = "work" /\ c \in batch[n] /\ Answered
  /\ UpdateTaskState(c.id, "running", Text)
  /\ batch' = [batch EXCEPT ![n] = @ \ {c}]
  /\ job' = [job EXCEPT ![n] = c]
  /\ Goto(n, IF c.id \in Backups THEN "execute" ELSE "fetch")
  /\ UNCHANGED <<device, request, recipient, expired, removed, process, result,
                 submits, retries, history>>

\* Without an answer to the acknowledgement the task is skipped.
AckFails(n, c) ==
  /\ agent[n] = "work" /\ c \in batch[n]
  /\ \/ ReplyLost /\ UpdateTaskState(c.id, "running", Text)
     \/ NotDelivered /\ UNCHANGED task
  /\ batch' = [batch EXCEPT ![n] = @ \ {c}]
  /\ UNCHANGED <<device, request, recipient, expired, removed, process, agent, job, result,
                 submits, retries, history>>

\* GET_RESTORE and GET_SHARED_ENTRY.
Known(t) == t \in Restores => request[t] # "none"

Fetch(n) ==
  /\ agent[n] = "fetch" /\ Answered /\ Known(job[n].id)
  /\ job' = [job EXCEPT ![n].expired = job[n].id \in Transfers /\ job[n].id[1] \in expired]
  /\ Goto(n, "execute")
  /\ UNCHANGED <<database, process, batch, result, submits, retries, history>>

\* Mutant: the failure is not reported.
FetchFailsSilently(n) ==
  /\ agent[n] = "fetch"
  /\ \/ Answered /\ job[n].id \in Restores
     \/ NotDelivered
  /\ job' = [job EXCEPT ![n] = NoJob]
  /\ Goto(n, "work")
  /\ UNCHANGED <<database, process, batch, result, submits, retries, history>>

\* There is no request, or the control node lacks the metadata of its file.
FetchFails(n) ==
  /\ agent[n] = "fetch"
  /\ \/ Answered /\ job[n].id \in Restores
     \/ NotDelivered
  /\ result' = [result EXCEPT ![n] = "failed"]
  /\ Goto(n, "report")
  /\ UNCHANGED <<database, process, batch, job, submits, retries, history>>

\* ExecuteBackup, ExecuteRestore or ReceiveEntry on the device: what it needs
\* to succeed is there.
Executable(c) ==
  /\ c.id \in Backups => c.detail \in Paths
  /\ c.id \in Transfers => ~c.expired /\ c.id[1] \notin removed

ExecuteOk(n) ==
  /\ agent[n] = "execute" /\ Executable(job[n])
  /\ succeeded' = succeeded \cup {<<job[n].id, n>>}
  /\ result' = [result EXCEPT ![n] = "completed"]
  /\ Goto(n, "report")
  /\ UNCHANGED <<database, process, batch, job, environment, named, given, torn, givenUp>>

\* Mutant: the status of the execution is ignored.
ExecuteFailsUnnoticed(n) ==
  /\ agent[n] = "execute"
  /\ result' = [result EXCEPT ![n] = "completed"]
  /\ Goto(n, "report")
  /\ UNCHANGED <<database, process, batch, job, environment, history>>

ExecuteFails(n) ==
  /\ agent[n] = "execute"
  /\ result' = [result EXCEPT ![n] = "failed"]
  /\ Goto(n, "report")
  /\ UNCHANGED <<database, process, batch, job, environment, history>>

EndJob(n) ==
  /\ job' = [job EXCEPT ![n] = NoJob]
  /\ result' = [result EXCEPT ![n] = "none"]
  /\ Goto(n, "work")
  /\ UNCHANGED <<device, request, recipient, expired, removed, control, batch,
                 submits, retries, history>>

\* Mutant: any report counts as delivery.
AlwaysDelivered(state) == "delivered"

RecipientState(state) == IF state = "completed" THEN "delivered" ELSE "failed"

\* REPORT_TASK: the task, whatever its state, and then what it belongs to.
\* The agent does not look at the reply.
ReportTask(n) ==
  LET t == job[n].id
  IN /\ agent[n] = "report" /\ Serving
     /\ UpdateTaskState(t, result[n],
          IF t \in Backups /\ result[n] = "completed" THEN job[n].detail ELSE Text)
     /\ \/ t \in Restores /\ request[t] # "none" /\ Then("request", t, Text, result[n])
        \/ t \in Transfers /\ Then("recipient", t, task[t].target, RecipientState(result[n]))
        \/ t \in Backups /\ UNCHANGED handler
        \/ t \in Restores /\ request[t] = "none" /\ UNCHANGED handler
     /\ UNCHANGED faults
     /\ EndJob(n)

ReportLost(n) ==
  /\ agent[n] = "report" /\ NotDelivered
  /\ UNCHANGED <<task, handler>>
  /\ EndJob(n)

\* The cycle is over; the agent sleeps until the next one.
AgentSleep(n) ==
  /\ agent[n] = "work" /\ batch[n] = {}
  /\ Goto(n, "idle")
  /\ UNCHANGED <<database, process, batch, job, result, environment, history>>

-----------------------------------------------------------------------------
Operators ==
  \/ \E t \in Backups, n \in Nodes, p \in Paths : SubmitBackup(t, n, p)
  \/ \E r \in Restores, s \in Sources, n \in Nodes : SubmitRestore(r, s, n)
  \/ \E e \in Entries, n \in Nodes : CreateReceiveTask(e, n)
  \/ \E t \in TaskIds, d \in RetryDetails : RetryTask(t, d)
  \/ \E r \in Restores : RetryRestore(r)
  \/ \E e \in Entries : CleanupExpired(e)

HandlerStep ==
  \/ SaveRequest \/ SaveInvitation \/ SaveRecipient
  \/ RequeueRequest \/ ExecuteWithoutMetadata \/ ExecuteRestore \/ StartRestore
  \/ \E outcome \in Ended : SettleRequest(outcome)
  \/ SettleTask

AgentStep(n) ==
  \/ AgentStart(n) \/ Register(n) \/ Heartbeat(n) \/ PullTasks(n)
  \/ \E c \in batch[n] : AckTask(n, c) \/ AckFails(n, c)
  \/ Fetch(n) \/ FetchFails(n) \/ ExecuteOk(n) \/ ExecuteFails(n)
  \/ ReportTask(n) \/ ReportLost(n) \/ AgentSleep(n)

Failures == ServeReturns \/ ControlCrash \/ \E n \in Agents : AgentCrash(n)

Next == \/ Operators \/ HandlerStep \/ RestartControl \/ Failures
        \/ \E n \in Agents : AgentStep(n)

Spec == Init /\ [][Next]_vars

(***************************************************************************)
(* The control node finishes its handlers and is restarted when it is      *)
(* down; agents are started and run their cycles.                          *)
(***************************************************************************)
Fairness == /\ WF_vars(HandlerStep) /\ WF_vars(RestartControl)
            /\ \A n \in Agents : WF_vars(AgentStep(n))

FairSpec == Spec /\ Fairness

-----------------------------------------------------------------------------
(***************************************************************************)
(* Properties.                                                             *)
(***************************************************************************)
Details == Paths \cup RetryDetails \cup {Text}

Task == [state : JobStates, source : Nodes, target : Nodes, detail : Details]

Copy == [id : TaskIds, detail : Details, expired : BOOLEAN]

Working == {"fetch", "execute", "report"}

DatabaseOK ==
  /\ device \in [Nodes -> {"unknown", "placeholder", "registered"}]
  /\ task \in [TaskIds -> Task \cup {NoTask}]
  /\ request \in [Restores -> JobStates \cup {"none"}]
  /\ recipient \in [Entries -> [Nodes -> {"none", "pending", "delivered", "failed"}]]
  /\ expired \subseteq Entries /\ removed \subseteq Entries

HandlerOK ==
  \/ handler = Idle
  \/ /\ handler.step = "request"
     /\ handler.id \in Restores /\ handler.state \in JobStates
  \/ /\ handler.step \in {"invite", "recipient"}
     /\ handler.id \in Transfers /\ handler.target \in Nodes
     /\ handler.state \in {"pending", "delivered", "failed"}
  \/ /\ handler.step \in {"requeue", "execute", "start", "restore", "settle"}
     /\ handler.id \in Restores /\ handler.state \in JobStates
     /\ task[handler.id] # NoTask

AgentsOK ==
  /\ agent \in [Agents -> Working \cup {"off", "idle", "beat", "pull", "work"}]
  /\ batch \in [Agents -> SUBSET Copy]
  /\ job \in [Agents -> Copy \cup {NoJob}]
  /\ result \in [Agents -> Ended \cup {"none"}]
  /\ \A n \in Agents :
       /\ \A c \in batch[n] : task[c.id] # NoTask
       /\ agent[n] \in Working => job[n] \in Copy /\ task[job[n].id] # NoTask
       /\ agent[n] = "report" => result[n] \in Ended

CountersOK ==
  submits \in Nat /\ retries \in Nat /\ faults \in Nat

HistoryOK ==
  /\ named \subseteq TaskIds \X Nodes /\ given \subseteq TaskIds \X Details
  /\ succeeded \subseteq TaskIds \X (Nodes \cup {ControlNode})
  /\ torn \subseteq Restores /\ givenUp \subseteq Restores

WellTyped ==
  /\ DatabaseOK /\ HandlerOK /\ AgentsOK /\ CountersOK
  /\ control \in {"up", "down"} /\ (control = "down" => handler = Idle)

Registered == \A n \in Agents : agent[n] \notin {"off", "idle"} => device[n] # "unknown"

\* Types of all variables.  Agents and handlers work on tasks that exist, and
\* an agent past its registration has a row for its heartbeat to update.
TypeOK == WellTyped /\ HistoryOK /\ Registered

\* Who may execute a task: the devices an operator named for it, and the
\* control node, which executes the restores it is told to retry.
Entitled(t) ==
  {n \in Nodes : <<t, n>> \in named} \cup (IF t \in Restores THEN {ControlNode} ELSE {})

\* A task that the control node shows as completed was executed with success
\* by a device that an operator named for it, or by the control node itself,
\* whoever else has a copy of the task, and whatever arrives late or is lost.
CompletedMeansExecuted ==
  \A t \in TaskIds :
    task[t].state = "completed" => \E x \in Entitled(t) : <<t, x>> \in succeeded

\* A recipient that is shown as having received an entry has received it, or
\* the node that published it has, whose agent is handed the task as well.
DeliveredMeansReceived ==
  \A e \in Entries, n \in Nodes :
    recipient[e][n] = "delivered" =>
      \E m \in {n, Owner[e]} : <<<<e, n>>, m>> \in succeeded

\* What an agent is told to back up is what an operator gave for that task,
\* never one of the texts that acknowledgements and reports write to the same
\* column.
PulledAsGiven ==
  \A n \in Agents : \A c \in batch[n] : c.id \in Backups => <<c.id, c.detail>> \in given

\* "A failed task can be retried" (README.md:315): the retried backup has a
\* path to back up.
PulledBackupHasSource ==
  \A n \in Agents : \A c \in batch[n] : c.id \in Backups => c.detail \in Paths

\* "The state of a task must be clear": between handlers, the request of a
\* restore task that ended shows the same end.  There are two exceptions: the
\* handler of the restore was killed and no other has finished since, or the
\* control node, told to retry it, gave up without the metadata and left the
\* request queued.
RestoreAgrees ==
  handler = Idle =>
    \A r \in Restores :
      task[r].state \in Ended =>
        \/ request[r] = task[r].state
        \/ r \in torn
        \/ r \in givenUp /\ task[r].state = "failed" /\ request[r] = "queued"

\* A queued task whose agents keep running is executed and its end reported.
TasksEnd == \A t \in TaskIds : task[t].state = "queued" ~> task[t].state \in Ended

\* A backup submitted for a device writes a row of its own making over the
\* one its agent wrote (control_node_server.cpp:257); the agent, which
\* registers in every cycle, gets its row back while it runs.
RegistrationRecovers ==
  \A n \in Agents : device[n] = "placeholder" ~> device[n] = "registered"

\* Who holds which tasks: what it was handed and has not accepted, and what
\* it has accepted and not ended.
Executors == Agents \cup {ControlNode}

Waiting == [x \in Executors |->
  IF x \in Agents THEN {c.id : c \in batch[x]}
  ELSE {t \in Restores : t = handler.id /\ handler.step \in {"requeue", "execute", "start"}}]

Accepted == [x \in Executors |->
  IF x \in Agents THEN {t \in TaskIds : t = job[x].id /\ agent[x] \in Working}
  ELSE {t \in Restores : t = handler.id /\ handler.step \in {"restore", "settle"}}]

Lifecycle == INSTANCE TaskLifecycle WITH Tasks <- TaskIds,
                                         state <- [t \in TaskIds |-> task[t].state],
                                         waiting <- Waiting, working <- Accepted

\* The task table and those who execute tasks keep the promises of
\* TaskLifecycle: a task runs only because someone it was handed to accepted
\* it, and ends only because someone who had accepted it ended it, each once.
ImplementsLifecycle == Lifecycle!Spec
=============================================================================
