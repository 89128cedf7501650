------------------------ MODULE SharedLibraryProofs ------------------------
(***************************************************************************)
(* Proofs about the shared library, for any entries, nodes, contents,      *)
(* processes and bounds, with every race and fault of the model.           *)
(*                                                                         *)
(* A process saves an entry as a whole that it has read earlier, so that   *)
(* the invariant is about all copies of an entry: the one in the table and *)
(* those that processes hold (RowsBacked, Grounded).  What they say stays  *)
(* true until they are saved because tasks and received files are never    *)
(* removed (Grows).                                                        *)
(***************************************************************************)
EXTENDS SharedLibrary, TLAPS

ProcessRecords ==
  [cmd : CommandNames, step : StepNames, e : Entries \cup {None}, n : Nodes \cup {None},
   got : Rows, read : FileIds \cup {None}, ok : BOOLEAN, list : SUBSET (Entries \X Rows)]

(***************************************************************************)
(* An entry, in the table or read by a process, says only what has a task  *)
(* and a file: nobody removes either, so that what was true when it was    *)
(* read is true when it is saved.                                          *)
(***************************************************************************)
Backed(e, entry, rcv, tsk) ==
  /\ \A n \in Nodes : entry.to[n] # "none" => tsk[e][n] # "none"
  /\ \A n \in Nodes : entry.to[n] = "delivered" => rcv[e][n] # Missing
  /\ entry.delivered /\ ~entry.expired => \E n \in Nodes : rcv[e][n] # Missing

NodeSteps == {"retry", "reset", "pend", "create", "invite", "open", "fail", "copy", "record",
              "hold", "complete", "mark", "deliver", "ack", "fetch", "report"}
TaskSteps == NodeSteps \ {"retry", "create"}

\* What a process knows of its arguments and of what it has read.
Formed(r) ==
  /\ r.step \notin {"idle", "list", "remove"} => r.e \in Entries
  /\ r.step \in NodeSteps \/ r.cmd = "share" => r.n \in Nodes
  /\ r.step = "hash" => r.got = NoEntry
  /\ r.step \in {"verify", "store", "stored", "index", "publish"} =>
       r.got.file \in Contents /\ r.got.to = NoEntry.to /\ ~r.got.delivered
  /\ r.step \in {"stored", "copy"} => r.read \in FileIds
  /\ r.step \in {"ack", "fetch"} \/ ~r.ok => r.cmd = "agent"

\* What has happened before a process is where it is.
Grounded(r, rcv, tsk) ==
  /\ r.step \in TaskSteps => tsk[r.e][r.n] # "none"
  /\ r.step \in {"record", "hold", "complete"} => rcv[r.e][r.n] # Missing
  /\ r.step \in {"report", "mark", "deliver"} /\ r.ok => rcv[r.e][r.n] # Missing
  /\ r.e \in Entries => Backed(r.e, r.got, rcv, tsk)
  /\ \A x \in r.list : Backed(x[1], x[2], rcv, tsk)

Good(r, rcv, tsk) == r \in ProcessRecords /\ Formed(r) /\ Grounded(r, rcv, tsk)

ProcessesGood == /\ pr \in [Procs -> ProcessRecords]
                 /\ \A p \in Procs : Good(pr[p], received, task)
RowsBacked == \A e \in Entries : Backed(e, row[e], received, task)
CompletedBacked ==
  \A e \in Entries, n \in Nodes : task[e][n] = "completed" => received[e][n] # Missing

Inv == /\ FilesTyped /\ TablesTyped /\ EnvironmentTyped
       /\ ProcessesGood /\ RowsBacked /\ CompletedBacked

\* No step removes a task or a received file.
Grows(rcv, tsk, rcv2, tsk2) ==
  \A e \in Entries, n \in Nodes :
    /\ tsk[e][n] # "none" => tsk2[e][n] # "none"
    /\ rcv[e][n] # Missing => rcv2[e][n] # Missing

\* What an entry says stays true.
LEMMA BackedGrows ==
  ASSUME NEW e \in Entries, NEW x, NEW rcv, NEW tsk, NEW rcv2, NEW tsk2,
         Grows(rcv, tsk, rcv2, tsk2), Backed(e, x, rcv, tsk)
  PROVE  Backed(e, x, rcv2, tsk2)
BY DEF Grows, Backed

\* So does what a process knows.
LEMMA GoodGrows ==
  ASSUME NEW r, NEW rcv, NEW tsk, NEW rcv2, NEW tsk2,
         Grows(rcv, tsk, rcv2, tsk2), Good(r, rcv, tsk)
  PROVE  Good(r, rcv2, tsk2)
<1>1. r \in ProcessRecords /\ Formed(r) /\ Grounded(r, rcv, tsk)
  BY DEF Good
<1>2. r.list \subseteq Entries \X Rows
  BY <1>1 DEF ProcessRecords
<1>3. \A x \in r.list : Backed(x[1], x[2], rcv2, tsk2)
  <2> SUFFICES ASSUME NEW x \in r.list PROVE Backed(x[1], x[2], rcv2, tsk2)
    OBVIOUS
  <2>1. x[1] \in Entries
    BY <1>2
  <2> QED
    BY <2>1, <1>1, BackedGrows DEF Grounded
<1>4. r.e \in Entries => Backed(r.e, r.got, rcv2, tsk2)
  BY <1>1, BackedGrows DEF Grounded
<1>5. r.step \in TaskSteps => tsk2[r.e][r.n] # "none"
  BY <1>1 DEF Grounded, Formed, TaskSteps, NodeSteps, Grows
<1>6. /\ r.step \in {"record", "hold", "complete"} => rcv2[r.e][r.n] # Missing
      /\ r.step \in {"report", "mark", "deliver"} /\ r.ok => rcv2[r.e][r.n] # Missing
  BY <1>1 DEF Grounded, Formed, NodeSteps, Grows
<1> QED
  BY <1>1, <1>3, <1>4, <1>5, <1>6 DEF Good, Grounded

\* A step of one process leaves the others good.
LEMMA OthersStayGood ==
  ASSUME Inv, NEW p \in Procs, NEW r,
         Grows(received, task, received', task'),
         pr' = [pr EXCEPT ![p] = r], Good(r, received', task')
  PROVE  ProcessesGood'
<1>1. r \in ProcessRecords
  BY DEF Good
<1>2. pr' \in [Procs -> ProcessRecords]
  BY <1>1 DEF Inv, ProcessesGood
<1>3. ASSUME NEW q \in Procs PROVE Good(pr'[q], received', task')
  <2>1. CASE q = p
    BY <2>1 DEF Inv, ProcessesGood
  <2>2. CASE q # p
    <3>1. pr'[q] = pr[q] /\ Good(pr[q], received, task)
      BY <2>2 DEF Inv, ProcessesGood
    <3> QED
      BY <3>1, GoodGrows
  <2> QED
    BY <2>1, <2>2
<1> QED
  BY <1>2, <1>3 DEF ProcessesGood

\* What is in the tables stays backed where the tables are left alone.
LEMMA RowsStayBacked ==
  ASSUME Inv, Grows(received, task, received', task'), UNCHANGED row
  PROVE  RowsBacked'
BY BackedGrows DEF Inv, RowsBacked

LEMMA TablesLeftAlone ==
  ASSUME UNCHANGED <<received, task>>
  PROVE  Grows(received, task, received', task')
BY DEF Grows

(***************************************************************************)
(* The writes.                                                             *)
(***************************************************************************)
\* A task of a state that its file allows.
LEMMA TaskSet ==
  ASSUME Inv, NEW e \in Entries, NEW n \in Nodes, NEW st \in TaskStates \ {"none"},
         SetTask(e, n, st), UNCHANGED received,
         st = "completed" => received[e][n] # Missing
  PROVE  /\ task' \in [Entries -> [Nodes -> TaskStates]]
         /\ task'[e][n] # "none"
         /\ Grows(received, task, received', task')
         /\ CompletedBacked'
<1>1. task \in [Entries -> [Nodes -> TaskStates]]
  BY DEF Inv, TablesTyped
<1>2. \A d \in Entries, m \in Nodes :
        task'[d][m] = IF d = e /\ m = n THEN st ELSE task[d][m]
  BY <1>1 DEF SetTask
<1>3. task' \in [Entries -> [Nodes -> TaskStates]]
  BY <1>1 DEF SetTask
<1>4. Grows(received, task, received', task') /\ task'[e][n] # "none"
  BY <1>2 DEF Grows
<1>5. CompletedBacked'
  BY <1>2 DEF Inv, CompletedBacked
<1> QED
  BY <1>3, <1>4, <1>5

LEMMA ReceivedSet ==
  ASSUME Inv, NEW e \in Entries, NEW n \in Nodes, NEW b \in FileIds,
         received' = [received EXCEPT ![e][n] = b], UNCHANGED task
  PROVE  /\ received' \in [Entries -> [Nodes -> Bytes]]
         /\ received'[e][n] # Missing
         /\ Grows(received, task, received', task')
         /\ CompletedBacked'
<1>1. received \in [Entries -> [Nodes -> Bytes]] /\ b \in Bytes /\ b # Missing
  BY ContentsAssumption DEF Inv, FilesTyped, Bytes, FileIds
<1>2. \A d \in Entries, m \in Nodes :
        received'[d][m] = IF d = e /\ m = n THEN b ELSE received[d][m]
  BY <1>1
<1>3. received' \in [Entries -> [Nodes -> Bytes]]
  BY <1>1
<1>4. Grows(received, task, received', task') /\ received'[e][n] # Missing
  BY <1>1, <1>2 DEF Grows
<1>5. CompletedBacked'
  BY <1>1, <1>2 DEF Inv, CompletedBacked
<1> QED
  BY <1>3, <1>4, <1>5

\* An entry that is backed.
LEMMA RowSet ==
  ASSUME Inv, NEW e \in Entries, NEW x \in Rows, UpsertSharedLibraryEntry(e, x),
         UNCHANGED <<received, task>>, Backed(e, x, received, task)
  PROVE  row' \in [Entries -> Rows] /\ RowsBacked'
<1>1. row \in [Entries -> Rows] /\ row' = [row EXCEPT ![e] = x]
  BY DEF Inv, TablesTyped, UpsertSharedLibraryEntry
<1>2. row' \in [Entries -> Rows]
  BY <1>1
<1>3. \A d \in Entries : row'[d] = IF d = e THEN x ELSE row[d]
  BY <1>1
<1>4. RowsBacked'
  BY <1>3 DEF Inv, RowsBacked
<1> QED
  BY <1>2, <1>4

LEMMA RecipientSet ==
  ASSUME NEW e \in Entries, NEW n \in Nodes, NEW x \in Rows, NEW st \in RecipientStates,
         NEW rcv, NEW tsk, Backed(e, x, rcv, tsk), tsk[e][n] # "none",
         st = "delivered" => rcv[e][n] # Missing
  PROVE  SetRecipient(x, n, st) \in Rows /\ Backed(e, SetRecipient(x, n, st), rcv, tsk)
<1> DEFINE y == SetRecipient(x, n, st)
<1>1. /\ x.to \in [Nodes -> RecipientStates]
      /\ y = [x EXCEPT !.to = [x.to EXCEPT ![n] = st]]
  BY DEF Rows, SetRecipient
<1>2. [x.to EXCEPT ![n] = st] \in [Nodes -> RecipientStates]
  BY <1>1
<1>3. y \in Rows
  BY <1>1, <1>2 DEF Rows
<1>4. /\ y.to = [x.to EXCEPT ![n] = st]
      /\ y.delivered = x.delivered /\ y.expired = x.expired
  BY <1>1 DEF Rows
<1>5. \A m \in Nodes : y.to[m] = IF m = n THEN st ELSE x.to[m]
  BY <1>1, <1>4
<1>6. Backed(e, y, rcv, tsk)
  BY <1>4, <1>5 DEF Backed
<1> QED
  BY <1>3, <1>6

LEMMA KnownTyped ==
  ASSUME Inv, NEW place \in Places, NEW f \in FileIds, UpsertFile(place, f)
  PROVE  known' \in [FileIds -> Places \cup {None}]
BY DEF Inv, TablesTyped, UpsertFile

(***************************************************************************)
(* Processes that begin and end.                                           *)
(***************************************************************************)
LEMMA NoneIsNoEntry == None \notin Entries
BY ContentsAssumption DEF Places

LEMMA NoEntryTyped ==
  /\ NoEntry \in Rows
  /\ NoEntry.to = [n \in Nodes |-> "none"] /\ ~NoEntry.delivered
  /\ \A e \in Entries : \A rcv, tsk : Backed(e, NoEntry, rcv, tsk)
BY DEF NoEntry, Rows, RecipientStates, Backed

LEMMA IdleGood == \A rcv, tsk : Good(Idle, rcv, tsk)
<1>1. Idle \in ProcessRecords
  BY NoEntryTyped DEF Idle, ProcessRecords, CommandNames, StepNames
<1>2. Formed(Idle)
  BY DEF Idle, Formed, NodeSteps
<1>3. \A rcv, tsk : Grounded(Idle, rcv, tsk)
  BY NoneIsNoEntry DEF Idle, Grounded, NodeSteps, TaskSteps
<1> QED
  BY <1>1, <1>2, <1>3 DEF Good

LEMMA EndGood ==
  ASSUME Inv, NEW p \in Procs, Grows(received, task, received', task'), End(p)
  PROVE  ProcessesGood'
BY IdleGood, OthersStayGood DEF End

\* What a process at some step knows.
LEMMA AtHand ==
  ASSUME Inv, NEW p \in Procs
  PROVE  /\ Good(pr[p], received, task)
         /\ pr[p] \in ProcessRecords /\ Formed(pr[p]) /\ Grounded(pr[p], received, task)
         /\ pr[p].got \in Rows
         /\ pr[p].step \notin {"idle", "list", "remove"} => Entry(p) \in Entries
         /\ pr[p].step \in NodeSteps => Node(p) \in Nodes
         /\ pr[p].step \in TaskSteps => task[Entry(p)][Node(p)] # "none"
         /\ pr[p].e \in Entries => Backed(Entry(p), pr[p].got, received, task)
<1>1. Good(pr[p], received, task)
  BY DEF Inv, ProcessesGood
<1>2. pr[p] \in ProcessRecords /\ Formed(pr[p]) /\ Grounded(pr[p], received, task)
  BY <1>1 DEF Good
<1>3. pr[p].got \in Rows
  BY <1>2 DEF ProcessRecords
<1> QED
  BY <1>1, <1>2, <1>3 DEF Formed, Grounded, Entry, Node

\* A process that goes on to a step that asks nothing new of it.
LEMMA GotoGood ==
  ASSUME Inv, NEW p \in Procs, NEW s \in StepNames, Goto(p, s),
         Grows(received, task, received', task'),
         s \notin {"idle", "list", "remove"} => Entry(p) \in Entries,
         s \in NodeSteps => Node(p) \in Nodes,
         s # "hash",
         s \in {"verify", "store", "stored", "index", "publish"} =>
           pr[p].step \in {"verify", "store", "stored", "index", "publish"},
         s \in {"stored", "copy"} => pr[p].read \in FileIds,
         s \in {"ack", "fetch"} => pr[p].cmd = "agent",
         s \in TaskSteps => task'[Entry(p)][Node(p)] # "none",
         s \in {"record", "hold", "complete", "report", "mark", "deliver"} /\ pr[p].ok =>
           received'[Entry(p)][Node(p)] # Missing,
         s \in {"record", "hold", "complete"} => received'[Entry(p)][Node(p)] # Missing
  PROVE  ProcessesGood'
<1> DEFINE r == [pr[p] EXCEPT !.step = s]
<1>1. pr' = [pr EXCEPT ![p] = r]
  BY DEF Goto
<1>2. /\ pr[p] \in ProcessRecords /\ Formed(pr[p])
      /\ Good(pr[p], received', task')
  BY AtHand, GoodGrows
<1>3. r \in ProcessRecords
  BY <1>2 DEF ProcessRecords
<1>4. /\ r.step = s /\ r.e = Entry(p) /\ r.n = Node(p) /\ r.got = pr[p].got
      /\ r.read = pr[p].read /\ r.ok = pr[p].ok /\ r.list = pr[p].list /\ r.cmd = pr[p].cmd
  BY <1>2 DEF ProcessRecords, Entry, Node
<1>5. Formed(r)
  BY <1>2, <1>4 DEF Formed, Entry, Node
<1>6. Grounded(r, received', task')
  BY <1>2, <1>4 DEF Good, Grounded, Entry
<1> QED
  BY <1>1, <1>3, <1>5, <1>6, OthersStayGood DEF Good

(***************************************************************************)
(* What is left alone.                                                     *)
(***************************************************************************)
LEMMA EnvironmentLeft ==
  ASSUME Inv, UNCHANGED environment
  PROVE  EnvironmentTyped'
BY DEF Inv, EnvironmentTyped, environment

LEMMA FilesLeft ==
  ASSUME Inv, UNCHANGED files
  PROVE  FilesTyped' /\ UNCHANGED received
BY DEF Inv, FilesTyped, files, arrived

LEMMA TablesLeft ==
  ASSUME Inv, UNCHANGED tables, UNCHANGED received
  PROVE  /\ TablesTyped' /\ RowsBacked' /\ CompletedBacked'
         /\ Grows(received, task, received', task')
         /\ UNCHANGED task
BY DEF Inv, TablesTyped, RowsBacked, CompletedBacked, Grows, tables

\* A step that writes no table and no file.
LEMMA OnlyProcess ==
  ASSUME Inv, NEW p \in Procs, NEW r, pr' = [pr EXCEPT ![p] = r],
         Good(r, received, task), UNCHANGED <<files, tables, environment>>
  PROVE  Inv'
<1>1. FilesTyped' /\ UNCHANGED received
  BY FilesLeft
<1>2. /\ TablesTyped' /\ RowsBacked' /\ CompletedBacked'
      /\ Grows(received, task, received', task') /\ UNCHANGED task
  BY <1>1, TablesLeft
<1>3. ProcessesGood'
  BY <1>1, <1>2, OthersStayGood
<1> QED
  BY <1>1, <1>2, <1>3, EnvironmentLeft DEF Inv

\* A step that writes files of the library or none.
LEMMA LibrarySet ==
  ASSUME Inv, NEW p \in Procs, library' \in [Entries -> Bytes],
         UNCHANGED <<source, arrived, tables, environment>>,
         NEW r, pr' = [pr EXCEPT ![p] = r], Good(r, received, task)
  PROVE  Inv'
<1>1. FilesTyped' /\ UNCHANGED received
  BY DEF Inv, FilesTyped, arrived
<1>2. /\ TablesTyped' /\ RowsBacked' /\ CompletedBacked'
      /\ Grows(received, task, received', task') /\ UNCHANGED task
  BY <1>1, TablesLeft
<1>3. ProcessesGood'
  BY <1>1, <1>2, OthersStayGood
<1> QED
  BY <1>1, <1>2, <1>3, EnvironmentLeft DEF Inv

\* A process that saves an entry.
LEMMA EntrySaved ==
  ASSUME Inv, NEW e \in Entries, NEW x \in Rows, UpsertSharedLibraryEntry(e, x),
         Backed(e, x, received, task), UNCHANGED <<files, task, known, holder, environment>>,
         Grows(received, task, received', task') => ProcessesGood'
  PROVE  Inv'
<1>1. FilesTyped' /\ UNCHANGED received
  BY FilesLeft
<1>2. row' \in [Entries -> Rows] /\ RowsBacked'
  BY <1>1, RowSet
<1>3. TablesTyped' /\ CompletedBacked' /\ Grows(received, task, received', task')
  BY <1>1, <1>2 DEF Inv, TablesTyped, CompletedBacked, Grows
<1> QED
  BY <1>1, <1>2, <1>3, EnvironmentLeft DEF Inv

\* A process that sets the state of a task.
LEMMA TaskSaved ==
  ASSUME Inv, NEW e \in Entries, NEW n \in Nodes, NEW st \in TaskStates \ {"none"},
         SetTask(e, n, st), st = "completed" => received[e][n] # Missing,
         UNCHANGED <<files, row, known, holder, environment>>,
         Grows(received, task, received', task') /\ task'[e][n] # "none" => ProcessesGood'
  PROVE  Inv'
<1>1. FilesTyped' /\ UNCHANGED received
  BY FilesLeft
<1>2. /\ task' \in [Entries -> [Nodes -> TaskStates]] /\ task'[e][n] # "none"
      /\ Grows(received, task, received', task') /\ CompletedBacked'
  BY <1>1, TaskSet
<1>3. TablesTyped'
  BY <1>2 DEF Inv, TablesTyped
<1> QED
  BY <1>1, <1>2, <1>3, RowsStayBacked, EnvironmentLeft DEF Inv

(***************************************************************************)
(* PublishFile.                                                            *)
(***************************************************************************)
LEMMA HashSourceKeeps ==
  ASSUME Inv, NEW p \in Procs, HashSource(p)
  PROVE  Inv'
<1>1. UNCHANGED <<files, tables, environment>> /\ pr[p].step = "hash"
  BY DEF HashSource, At
<1>2. CASE source[Entry(p)] = Missing
  BY <1>1, <1>2, IdleGood, OnlyProcess DEF HashSource, End
<1>3. CASE source[Entry(p)] # Missing
  <2> DEFINE x == [pr[p].got EXCEPT !.file = source[Entry(p)], !.expires = clock + Retention]
             r == [pr[p] EXCEPT !.step = "verify", !.got = x]
  <2>1. /\ pr[p] \in ProcessRecords /\ Formed(pr[p]) /\ Grounded(pr[p], received, task)
        /\ pr[p].got \in Rows /\ Entry(p) \in Entries
    BY <1>1, AtHand
  <2>2. pr[p].got = NoEntry
    BY <1>1, <2>1 DEF Formed
  <2>3. source[Entry(p)] \in Contents /\ clock + Retention \in Nat
    BY <1>3, <2>1, LimitsAssumption DEF Inv, FilesTyped, EnvironmentTyped
  <2>4. /\ x \in Rows /\ x.file \in Contents /\ x.to = NoEntry.to /\ ~x.delivered
    BY <2>1, <2>2, <2>3, NoEntryTyped DEF Rows
  <2>5. Backed(Entry(p), x, received, task)
    BY <2>1, <2>4, NoEntryTyped DEF Backed
  <2>6. r \in ProcessRecords
    BY <2>1, <2>4 DEF ProcessRecords, StepNames
  <2>7. /\ r.step = "verify" /\ r.got = x /\ r.e = pr[p].e /\ r.n = pr[p].n
        /\ r.cmd = pr[p].cmd /\ r.list = pr[p].list /\ r.ok = pr[p].ok
    BY <2>1 DEF ProcessRecords
  <2>8. Formed(r)
    BY <1>1, <2>1, <2>4, <2>7 DEF Formed, NodeSteps
  <2>9. Grounded(r, received, task)
    BY <2>1, <2>5, <2>7 DEF Grounded, Entry, TaskSteps, NodeSteps
  <2>10. pr' = [pr EXCEPT ![p] = r]
    <3>1. pr \in [Procs -> ProcessRecords]
      BY DEF Inv, ProcessesGood
    <3>2. pr' = [pr EXCEPT ![p].step = "verify", ![p].got.file = source[Entry(p)],
                           ![p].got.expires = clock + Retention]
      BY <1>3 DEF HashSource
    <3>3. [pr[p] EXCEPT !.step = "verify", !.got.file = source[Entry(p)],
                        !.got.expires = clock + Retention] = r
      BY <2>1 DEF ProcessRecords, Rows
    <3> QED
      BY <3>1, <3>2, <3>3
  <2> QED
    BY <1>1, <2>6, <2>8, <2>9, <2>10, OnlyProcess DEF Good
<1> QED
  BY <1>2, <1>3

\* A process that goes on without writing anything.
LEMMA OnlyGoto ==
  ASSUME Inv, UNCHANGED <<files, tables, environment>>,
         UNCHANGED <<received, task>> => ProcessesGood'
  PROVE  Inv'
BY FilesLeft, TablesLeft, EnvironmentLeft DEF Inv

LEMMA VerifySourceKeeps ==
  ASSUME Inv, NEW p \in Procs, VerifySource(p)
  PROVE  Inv'
<1>1. UNCHANGED <<files, tables, environment>> /\ pr[p].step = "verify"
  BY DEF VerifySource, At
<1>2. CASE End(p)
  BY <1>1, <1>2, IdleGood, OnlyProcess DEF End
<1>3. CASE Goto(p, "store")
  <2>1. Entry(p) \in Entries
    BY <1>1, AtHand
  <2>2. UNCHANGED <<received, task>> => ProcessesGood'
    BY <1>1, <1>3, <2>1, GotoGood, TablesLeftAlone DEF StepNames, NodeSteps, TaskSteps
  <2> QED
    BY <1>1, <2>2, OnlyGoto
<1> QED
  BY <1>2, <1>3 DEF VerifySource

\* The reading of another process is torn, which it cannot tell.
LEMMA TornReadGood ==
  ASSUME NEW r, NEW rcv, NEW tsk, Good(r, rcv, tsk)
  PROVE  Good([r EXCEPT !.read = Torn], rcv, tsk)
<1> DEFINE t == [r EXCEPT !.read = Torn]
<1>1. r \in ProcessRecords /\ Formed(r) /\ Grounded(r, rcv, tsk) /\ Torn \in FileIds
  BY DEF Good, FileIds
<1>2. /\ t \in ProcessRecords /\ t.read = Torn /\ t.step = r.step /\ t.e = r.e /\ t.n = r.n
      /\ t.got = r.got /\ t.ok = r.ok /\ t.list = r.list /\ t.cmd = r.cmd
  BY <1>1 DEF ProcessRecords
<1> QED
  BY <1>1, <1>2 DEF Good, Formed, Grounded

LEMMA StoreInLibraryKeeps ==
  ASSUME Inv, NEW p \in Procs, StoreInLibrary(p)
  PROVE  Inv'
<1>1. UNCHANGED <<source, arrived, tables, environment>> /\ pr[p].step = "store"
  BY DEF StoreInLibrary, At
<1>2. /\ pr[p] \in ProcessRecords /\ Formed(pr[p]) /\ Grounded(pr[p], received, task)
      /\ Entry(p) \in Entries
  BY <1>1, AtHand
<1>3. CASE source[Entry(p)] = Missing
  <2>1. UNCHANGED library /\ End(p)
    BY <1>3 DEF StoreInLibrary
  <2> QED
    BY <1>1, <2>1, IdleGood, OnlyProcess DEF End, files
<1>4. CASE source[Entry(p)] # Missing
  <2> DEFINE r == [pr[p] EXCEPT !.step = "stored", !.read = source[Entry(p)]]
  <2>1. source[Entry(p)] \in FileIds
    BY <1>2, <1>4 DEF Inv, FilesTyped, FileIds
  <2>2. /\ r \in ProcessRecords /\ r.step = "stored" /\ r.read = source[Entry(p)]
        /\ r.e = pr[p].e /\ r.n = pr[p].n /\ r.got = pr[p].got /\ r.list = pr[p].list
        /\ r.cmd = pr[p].cmd /\ r.ok = pr[p].ok
    BY <1>2, <2>1 DEF ProcessRecords, StepNames
  <2>3. Good(r, received, task)
    BY <1>1, <1>2, <2>1, <2>2 DEF Good, Formed, Grounded, NodeSteps, TaskSteps
  <2>4. PICK tear \in BOOLEAN :
          pr' = [q \in Procs |->
                   CASE q = p -> r
                     [] tear /\ pr[q].step = "copy" /\ Entry(q) = Entry(p)
                          -> [pr[q] EXCEPT !.read = Torn]
                     [] OTHER -> pr[q]]
    BY <1>4 DEF StoreInLibrary
  <2>5. \A q \in Procs : \/ pr'[q] = r
                         \/ pr'[q] = [pr[q] EXCEPT !.read = Torn]
                         \/ pr'[q] = pr[q]
    BY <1>1, <2>4
  <2>6. ASSUME NEW q \in Procs PROVE Good(pr'[q], received, task)
    <3>1. Good(pr[q], received, task)
      BY AtHand
    <3>2. Good([pr[q] EXCEPT !.read = Torn], received, task)
      BY <3>1, TornReadGood
    <3> HIDE DEF r
    <3> QED
      BY <2>3, <2>5, <3>1, <3>2
  <2>7. FilesTyped' /\ UNCHANGED received
    BY <1>1, <1>4 DEF StoreInLibrary, Inv, FilesTyped, Bytes, arrived
  <2>8. TablesTyped' /\ RowsBacked' /\ CompletedBacked' /\ UNCHANGED task
    BY <1>1, <2>7, TablesLeft
  <2>9. pr' \in [Procs -> ProcessRecords]
    BY <2>4, <2>6 DEF Good
  <2>10. ProcessesGood'
    BY <2>6, <2>7, <2>8, <2>9 DEF ProcessesGood
  <2> QED
    BY <1>1, <2>7, <2>8, <2>10, EnvironmentLeft DEF Inv
<1> QED
  BY <1>3, <1>4

LEMMA EndStoreKeeps ==
  ASSUME Inv, NEW p \in Procs, EndStore(p)
  PROVE  Inv'
<1>1. /\ UNCHANGED <<source, arrived, tables, environment>> /\ pr[p].step = "stored"
      /\ Goto(p, "index")
  BY DEF EndStore, At
<1>2. Formed(pr[p]) /\ Entry(p) \in Entries
  BY <1>1, AtHand
<1>3. FilesTyped' /\ UNCHANGED received
  BY <1>1, <1>2 DEF EndStore, Inv, FilesTyped, Bytes, FileIds, arrived, Formed
<1>4. /\ TablesTyped' /\ RowsBacked' /\ CompletedBacked'
      /\ Grows(received, task, received', task')
  BY <1>1, <1>3, TablesLeft
<1>5. ProcessesGood'
  BY <1>1, <1>2, <1>4, GotoGood DEF StepNames, NodeSteps, TaskSteps
<1> QED
  BY <1>1, <1>3, <1>4, <1>5, EnvironmentLeft DEF Inv

LEMMA IndexSourceKeeps ==
  ASSUME Inv, NEW p \in Procs, IndexSource(p)
  PROVE  Inv'
<1>1. /\ UNCHANGED <<files, row, task, holder, environment>> /\ pr[p].step = "index"
      /\ Goto(p, "publish") /\ UpsertFile(Entry(p), pr[p].got.file)
  BY DEF IndexSource, At
<1>2. Formed(pr[p]) /\ Entry(p) \in Entries
  BY <1>1, AtHand
<1>3. FilesTyped' /\ UNCHANGED received
  BY <1>1, FilesLeft
<1>4. known' \in [FileIds -> Places \cup {None}]
  BY <1>1, <1>2, KnownTyped DEF Formed, Places, FileIds
<1>5. Grows(received, task, received', task') /\ TablesTyped' /\ CompletedBacked'
  BY <1>1, <1>3, <1>4 DEF Inv, TablesTyped, CompletedBacked, Grows
<1>6. ProcessesGood'
  BY <1>1, <1>2, <1>5, GotoGood DEF StepNames, NodeSteps, TaskSteps
<1> QED
  BY <1>1, <1>3, <1>5, <1>6, RowsStayBacked, EnvironmentLeft DEF Inv

LEMMA PublishEntryKeeps ==
  ASSUME Inv, NEW p \in Procs, PublishEntry(p)
  PROVE  Inv'
<1>1. /\ UNCHANGED <<files, task, known, holder, environment>> /\ pr[p].step = "publish"
      /\ UpsertSharedLibraryEntry(Entry(p), pr[p].got)
  BY DEF PublishEntry, At
<1>2. /\ Formed(pr[p]) /\ Entry(p) \in Entries /\ pr[p].got \in Rows
      /\ Backed(Entry(p), pr[p].got, received, task)
  BY <1>1, AtHand DEF Entry
<1>3. Grows(received, task, received', task') => ProcessesGood'
  <2>1. CASE End(p)
    BY <2>1, EndGood
  <2>2. CASE pr[p].cmd = "share" /\ Goto(p, "create")
    BY <1>1, <1>2, <2>2, GotoGood DEF StepNames, NodeSteps, TaskSteps, Formed, Node
  <2> QED
    BY <2>1, <2>2 DEF PublishEntry
<1> QED
  BY <1>1, <1>2, <1>3, EntrySaved

(***************************************************************************)
(* RetryReceive, CreateReceiveTask and ReceiveEntry.                       *)
(***************************************************************************)
LEMMA RetryTaskKeeps ==
  ASSUME Inv, NEW p \in Procs, RetryTask(p)
  PROVE  Inv'
<1>1. UNCHANGED <<files, row, known, holder, environment>> /\ pr[p].step = "retry"
  BY DEF RetryTask, At
<1>2. Entry(p) \in Entries /\ Node(p) \in Nodes
  BY <1>1, AtHand DEF NodeSteps
<1>3. CASE End(p) /\ UNCHANGED task
  BY <1>1, <1>3, IdleGood, OnlyProcess DEF End, tables
<1>4. CASE SetTask(Entry(p), Node(p), "queued") /\ Goto(p, "reset")
  <2>1. Grows(received, task, received', task') /\ task'[Entry(p)][Node(p)] # "none"
          => ProcessesGood'
    BY <1>2, <1>4, GotoGood DEF StepNames, NodeSteps, TaskSteps
  <2> QED
    BY <1>1, <1>2, <1>4, <2>1, TaskSaved DEF TaskStates
<1> QED
  BY <1>3, <1>4 DEF RetryTask

\* A process that reads the entry and goes on.
LEMMA EntryRead ==
  ASSUME Inv, NEW p \in Procs, NEW r, NEW rcv, NEW tsk,
         Grows(received, task, rcv, tsk),
         r \in ProcessRecords, Formed(r), r.e = Entry(p), r.n = Node(p),
         Entry(p) \in Entries, Node(p) \in Nodes, r.got = row[Entry(p)], r.list = pr[p].list,
         r.step \notin {"record", "hold", "complete"},
         r.step \in TaskSteps => tsk[Entry(p)][Node(p)] # "none",
         r.step \in {"report", "mark", "deliver"} /\ r.ok => rcv[Entry(p)][Node(p)] # Missing
  PROVE  Good(r, rcv, tsk)
<1>1. Good(pr[p], rcv, tsk)
  BY AtHand, GoodGrows
<1>2. Backed(Entry(p), row[Entry(p)], rcv, tsk)
  BY BackedGrows DEF Inv, RowsBacked
<1>3. Grounded(r, rcv, tsk)
  BY <1>1, <1>2 DEF Good, Grounded
<1> QED
  BY <1>3 DEF Good

LEMMA FindRecipientKeeps ==
  ASSUME Inv, NEW p \in Procs, FindRecipient(p)
  PROVE  Inv'
<1> DEFINE s == IF row[Entry(p)].to[Node(p)] = "none" THEN "create" ELSE "pend"
           r == [pr[p] EXCEPT !.got = row[Entry(p)], !.step = s]
<1>1. UNCHANGED <<files, tables, environment>> /\ pr[p].step = "reset"
  BY DEF FindRecipient, At
<1>2. /\ Entry(p) \in Entries /\ Node(p) \in Nodes /\ task[Entry(p)][Node(p)] # "none"
      /\ pr[p] \in ProcessRecords /\ Formed(pr[p])
  BY <1>1, AtHand DEF NodeSteps, TaskSteps
<1>3. s \in {"create", "pend"} /\ row[Entry(p)] \in Rows
  BY <1>2 DEF Inv, TablesTyped
<1>4. pr' = [pr EXCEPT ![p] = r]
  <2>1. pr \in [Procs -> ProcessRecords]
    BY DEF Inv, ProcessesGood
  <2> QED
    BY <2>1 DEF FindRecipient, ProcessRecords
<1> HIDE DEF s
<1>5. /\ r \in ProcessRecords /\ r.step = s /\ r.e = Entry(p) /\ r.n = Node(p)
      /\ r.got = row[Entry(p)] /\ r.list = pr[p].list /\ r.cmd = pr[p].cmd /\ r.ok = pr[p].ok
  BY <1>2, <1>3 DEF ProcessRecords, StepNames, Entry, Node
<1>6. Formed(r)
  BY <1>1, <1>2, <1>3, <1>5 DEF Formed
<1> HIDE DEF r
<1>7. Grows(received, task, received, task)
  BY DEF Grows
<1>8. Good(r, received, task)
  BY <1>2, <1>3, <1>5, <1>6, <1>7, EntryRead
<1> QED
  BY <1>1, <1>4, <1>8, OnlyProcess

\* A process that sets its recipient in the entry it has read.
LEMMA RecipientSaved ==
  ASSUME Inv, NEW p \in Procs, NEW st \in {"pending", "failed"},
         pr[p].step \in TaskSteps,
         UpsertSharedLibraryEntry(Entry(p), SetRecipient(pr[p].got, Node(p), st)),
         UNCHANGED <<files, task, known, holder, environment>>,
         Grows(received, task, received', task') => ProcessesGood'
  PROVE  Inv'
<1>1. /\ Entry(p) \in Entries /\ Node(p) \in Nodes /\ task[Entry(p)][Node(p)] # "none"
      /\ pr[p].got \in Rows /\ Backed(Entry(p), pr[p].got, received, task)
  BY AtHand DEF NodeSteps, TaskSteps, Entry
<1>2. /\ SetRecipient(pr[p].got, Node(p), st) \in Rows
      /\ Backed(Entry(p), SetRecipient(pr[p].got, Node(p), st), received, task)
  BY <1>1, RecipientSet DEF RecipientStates
<1> QED
  BY <1>1, <1>2, EntrySaved

LEMMA ResetRecipientKeeps ==
  ASSUME Inv, NEW p \in Procs, ResetRecipient(p)
  PROVE  Inv'
<1>1. /\ UNCHANGED <<files, task, known, holder, environment>> /\ pr[p].step = "pend"
      /\ Goto(p, "create")
  BY DEF ResetRecipient, At
<1>2. Entry(p) \in Entries /\ Node(p) \in Nodes
  BY <1>1, AtHand DEF NodeSteps
<1>3. Grows(received, task, received', task') => ProcessesGood'
  BY <1>1, <1>2, GotoGood DEF StepNames, NodeSteps, TaskSteps
<1> QED
  BY <1>1, <1>3, RecipientSaved DEF ResetRecipient, TaskSteps, NodeSteps

LEMMA CreateReceiveTaskKeeps ==
  ASSUME Inv, NEW p \in Procs, CreateReceiveTask(p)
  PROVE  Inv'
<1>1. UNCHANGED <<files, row, known, holder, environment>> /\ pr[p].step = "create"
  BY DEF CreateReceiveTask, At
<1>2. Entry(p) \in Entries /\ Node(p) \in Nodes /\ pr[p] \in ProcessRecords /\ Formed(pr[p])
  BY <1>1, AtHand DEF NodeSteps
<1>3. CASE End(p) /\ UNCHANGED task
  BY <1>1, <1>3, IdleGood, OnlyProcess DEF End, tables
<1>4. CASE row[Entry(p)].to[Node(p)] = "delivered" /\ Goto(p, "open") /\ UNCHANGED task
  <2>1. task[Entry(p)][Node(p)] # "none"
    BY <1>2, <1>4 DEF Inv, RowsBacked, Backed
  <2>2. UNCHANGED <<received, task>> => ProcessesGood'
    BY <1>2, <1>4, <2>1, GotoGood, TablesLeftAlone DEF StepNames, NodeSteps, TaskSteps
  <2> QED
    BY <1>1, <1>4, <2>2, OnlyGoto DEF tables
<1>5. CASE /\ SetTask(Entry(p), Node(p), "queued")
           /\ pr' = [pr EXCEPT ![p].step = "invite", ![p].got = row[Entry(p)]]
  <2> DEFINE r == [pr[p] EXCEPT !.step = "invite", !.got = row[Entry(p)]]
  <2>1. row[Entry(p)] \in Rows
    BY <1>2 DEF Inv, TablesTyped
  <2>2. pr' = [pr EXCEPT ![p] = r]
    <3>1. pr \in [Procs -> ProcessRecords]
      BY DEF Inv, ProcessesGood
    <3> QED
      BY <1>5, <3>1 DEF ProcessRecords
  <2>3. /\ r \in ProcessRecords /\ r.step = "invite" /\ r.e = Entry(p) /\ r.n = Node(p)
        /\ r.got = row[Entry(p)] /\ r.list = pr[p].list /\ r.cmd = pr[p].cmd /\ r.ok = pr[p].ok
    BY <1>2, <2>1 DEF ProcessRecords, StepNames, Entry, Node
  <2>4. Formed(r)
    BY <1>2, <2>3 DEF Formed
  <2> HIDE DEF r
  <2>5. ASSUME Grows(received, task, received', task'), task'[Entry(p)][Node(p)] # "none"
        PROVE  ProcessesGood'
    <3>1. Good(r, received', task')
      BY <1>2, <2>3, <2>4, <2>5, EntryRead
    <3> QED
      BY <2>2, <2>5, <3>1, OthersStayGood
  <2> QED
    BY <1>1, <1>2, <1>5, <2>5, TaskSaved DEF TaskStates
<1> QED
  BY <1>3, <1>4, <1>5 DEF CreateReceiveTask

LEMMA SaveInvitationKeeps ==
  ASSUME Inv, NEW p \in Procs, SaveInvitation(p)
  PROVE  Inv'
<1>1. UNCHANGED <<files, task, known, holder, environment>> /\ pr[p].step = "invite"
  BY DEF SaveInvitation, At
<1>2. Entry(p) \in Entries /\ Node(p) \in Nodes /\ task[Entry(p)][Node(p)] # "none"
  BY <1>1, AtHand DEF NodeSteps, TaskSteps
<1>3. Grows(received, task, received', task') => ProcessesGood'
  <2>1. CASE End(p)
    BY <2>1, EndGood
  <2>2. CASE Goto(p, "open")
    BY <1>1, <1>2, <2>2, GotoGood DEF StepNames, NodeSteps, TaskSteps
  <2> QED
    BY <2>1, <2>2 DEF SaveInvitation
<1> QED
  BY <1>1, <1>3, RecipientSaved DEF SaveInvitation, TaskSteps, NodeSteps

\* A receive that fails, of the entry it has read.
LEMMA FailGood ==
  ASSUME Inv, NEW p \in Procs, NEW x \in Rows, pr[p].step \in {"open", "copy"},
         Backed(Entry(p), x, received, task), Fail(p, x), UNCHANGED <<received, task>>
  PROVE  ProcessesGood'
<1>1. /\ pr[p] \in ProcessRecords /\ Formed(pr[p]) /\ Grounded(pr[p], received, task)
      /\ Entry(p) \in Entries /\ Node(p) \in Nodes
  BY AtHand DEF NodeSteps
<1>2. pr \in [Procs -> ProcessRecords] /\ Grows(received, task, received', task')
  BY TablesLeftAlone DEF Inv, ProcessesGood
<1>3. CASE /\ pr[p].cmd = "agent"
           /\ pr' = [pr EXCEPT ![p].step = "report", ![p].ok = FALSE]
  <2> DEFINE r == [pr[p] EXCEPT !.step = "report", !.ok = FALSE]
  <2>1. pr' = [pr EXCEPT ![p] = r]
    BY <1>2, <1>3 DEF ProcessRecords
  <2>2. /\ r \in ProcessRecords /\ r.step = "report" /\ ~r.ok /\ r.e = pr[p].e /\ r.n = pr[p].n
        /\ r.got = pr[p].got /\ r.list = pr[p].list /\ r.cmd = "agent"
    BY <1>1, <1>3 DEF ProcessRecords, StepNames
  <2>3. Formed(r) /\ Grounded(r, received', task')
    BY <1>1, <2>2 DEF Formed, Grounded, NodeSteps, TaskSteps, Node
  <2> QED
    BY <1>2, <2>1, <2>2, <2>3, OthersStayGood DEF Good
<1>4. CASE End(p)
  BY <1>2, <1>4, EndGood
<1>5. CASE pr' = [pr EXCEPT ![p].step = "fail", ![p].got = x]
  <2> DEFINE r == [pr[p] EXCEPT !.step = "fail", !.got = x]
  <2>1. pr' = [pr EXCEPT ![p] = r]
    BY <1>2, <1>5 DEF ProcessRecords
  <2>2. /\ r \in ProcessRecords /\ r.step = "fail" /\ r.e = pr[p].e /\ r.n = pr[p].n
        /\ r.got = x /\ r.list = pr[p].list /\ r.cmd = pr[p].cmd /\ r.ok = pr[p].ok
    BY <1>1 DEF ProcessRecords, StepNames
  <2>3. Formed(r) /\ Grounded(r, received', task')
    BY <1>1, <2>2 DEF Formed, Grounded, NodeSteps, TaskSteps, Entry, Node
  <2> QED
    BY <1>2, <2>1, <2>2, <2>3, OthersStayGood DEF Good
<1> QED
  BY <1>3, <1>4, <1>5 DEF Fail

LEMMA OpenLibraryFileKeeps ==
  ASSUME Inv, NEW p \in Procs, OpenLibraryFile(p)
  PROVE  Inv'
<1> DEFINE x == IF pr[p].cmd = "agent" THEN pr[p].got ELSE row[Entry(p)]
<1>1. UNCHANGED <<source, library, byAgent, tables, environment>> /\ pr[p].step = "open"
  BY DEF OpenLibraryFile, At
<1>2. /\ pr[p] \in ProcessRecords /\ Formed(pr[p]) /\ Grounded(pr[p], received, task)
      /\ Entry(p) \in Entries /\ Node(p) \in Nodes /\ pr[p].got \in Rows
  BY <1>1, AtHand DEF NodeSteps
<1>3. x \in Rows /\ Backed(Entry(p), x, received, task)
  BY <1>2 DEF Inv, TablesTyped, RowsBacked, Grounded, Entry
<1>4. CASE library[Entry(p)] = Missing
  <2>1. Fail(p, x) /\ UNCHANGED received
    BY <1>4 DEF OpenLibraryFile
  <2> HIDE DEF x
  <2>2. UNCHANGED <<files, task>>
    BY <1>1, <2>1 DEF files, arrived, tables
  <2>3. ProcessesGood'
    BY <1>1, <1>3, <2>1, <2>2, FailGood
  <2> QED
    BY <1>1, <2>2, <2>3, OnlyGoto
<1>5. CASE library[Entry(p)] # Missing
  <2> DEFINE r == [pr[p] EXCEPT !.step = "copy", !.read = library[Entry(p)], !.got = x]
  <2>1. /\ received' = [received EXCEPT ![Entry(p)][Node(p)] = Torn]
        /\ pr' = [pr EXCEPT ![p].step = "copy", ![p].read = library[Entry(p)], ![p].got = x]
    BY <1>5 DEF OpenLibraryFile
  <2> HIDE DEF x
  <2>2. library[Entry(p)] \in FileIds /\ Torn \in FileIds
    BY <1>2, <1>5 DEF Inv, FilesTyped, Bytes, FileIds
  <2>3. UNCHANGED task
    BY <1>1 DEF tables
  <2>4. /\ received' \in [Entries -> [Nodes -> Bytes]]
        /\ Grows(received, task, received', task') /\ CompletedBacked'
    BY <1>2, <2>1, <2>2, <2>3, ReceivedSet
  <2>5. pr' = [pr EXCEPT ![p] = r]
    <3>1. pr \in [Procs -> ProcessRecords]
      BY DEF Inv, ProcessesGood
    <3> QED
      BY <2>1, <3>1 DEF ProcessRecords
  <2>6. /\ r \in ProcessRecords /\ r.step = "copy" /\ r.read = library[Entry(p)]
        /\ r.e = pr[p].e /\ r.n = pr[p].n /\ r.got = x /\ r.list = pr[p].list
        /\ r.cmd = pr[p].cmd /\ r.ok = pr[p].ok
    BY <1>2, <1>3, <2>2 DEF ProcessRecords, StepNames
  <2>7. Formed(r)
    BY <1>2, <2>2, <2>6 DEF Formed, Entry, Node
  <2>8. Grounded(r, received, task)
    BY <1>1, <1>2, <1>3, <2>6 DEF Grounded, TaskSteps, NodeSteps, Entry
  <2> HIDE DEF r
  <2>9. Good(r, received', task')
    BY <2>4, <2>6, <2>7, <2>8, GoodGrows DEF Good
  <2>10. ProcessesGood'
    BY <2>4, <2>5, <2>9, OthersStayGood
  <2>11. FilesTyped' /\ TablesTyped'
    BY <1>1, <2>4 DEF Inv, FilesTyped, TablesTyped, tables
  <2>12. RowsBacked'
    BY <1>1, <2>4, RowsStayBacked DEF tables
  <2> QED
    BY <1>1, <2>4, <2>10, <2>11, <2>12, EnvironmentLeft DEF Inv
<1> QED
  BY <1>4, <1>5

LEMMA MarkFailedKeeps ==
  ASSUME Inv, NEW p \in Procs, MarkFailed(p)
  PROVE  Inv'
<1>1. UNCHANGED <<files, task, known, holder, environment>> /\ pr[p].step = "fail" /\ End(p)
  BY DEF MarkFailed, At
<1>2. Grows(received, task, received', task') => ProcessesGood'
  BY <1>1, EndGood
<1> QED
  BY <1>1, <1>2, RecipientSaved DEF MarkFailed, TaskSteps, NodeSteps

LEMMA EndCopyKeeps ==
  ASSUME Inv, NEW p \in Procs, EndCopy(p)
  PROVE  Inv'
<1>1. /\ UNCHANGED <<source, library, tables, environment>> /\ pr[p].step = "copy"
      /\ received' = [received EXCEPT ![Entry(p)][Node(p)] = pr[p].read]
  BY DEF EndCopy, At
<1>2. /\ Formed(pr[p]) /\ Entry(p) \in Entries /\ Node(p) \in Nodes
      /\ task[Entry(p)][Node(p)] # "none"
  BY <1>1, AtHand DEF NodeSteps, TaskSteps
<1>3. pr[p].read \in FileIds /\ UNCHANGED task
  BY <1>1, <1>2 DEF Formed, tables
<1>4. /\ received' \in [Entries -> [Nodes -> Bytes]] /\ received'[Entry(p)][Node(p)] # Missing
      /\ Grows(received, task, received', task') /\ CompletedBacked'
  BY <1>1, <1>2, <1>3, ReceivedSet
<1>5. ProcessesGood'
  <2>1. CASE Goto(p, "report")
    BY <1>2, <1>3, <1>4, <2>1, GotoGood DEF StepNames, NodeSteps, TaskSteps
  <2>2. CASE Goto(p, "record")
    BY <1>2, <1>3, <1>4, <2>2, GotoGood DEF StepNames, NodeSteps, TaskSteps
  <2> QED
    BY <2>1, <2>2 DEF EndCopy
<1>6. byAgent' \subseteq Entries \X Nodes
  BY <1>2 DEF EndCopy, Inv, FilesTyped
<1>7. FilesTyped' /\ TablesTyped'
  BY <1>1, <1>4, <1>6 DEF Inv, FilesTyped, TablesTyped, tables
<1>8. RowsBacked'
  BY <1>1, <1>4, RowsStayBacked DEF tables
<1> QED
  BY <1>1, <1>4, <1>5, <1>7, <1>8, EnvironmentLeft DEF Inv

\* What is recorded is a file.
LEMMA ReceivedIsFile ==
  ASSUME Inv, NEW e \in Entries, NEW n \in Nodes, received[e][n] # Missing
  PROVE  received[e][n] \in FileIds
BY DEF Inv, FilesTyped, Bytes, FileIds

LEMMA RecordReceivedKeeps ==
  ASSUME Inv, NEW p \in Procs, RecordReceived(p)
  PROVE  Inv'
<1>1. /\ UNCHANGED <<files, row, task, holder, environment>> /\ pr[p].step = "record"
      /\ Goto(p, "hold")
      /\ UpsertFile(<<Entry(p), Node(p)>>, received[Entry(p)][Node(p)])
  BY DEF RecordReceived, At
<1>2. /\ Grounded(pr[p], received, task) /\ Entry(p) \in Entries /\ Node(p) \in Nodes
      /\ task[Entry(p)][Node(p)] # "none"
  BY <1>1, AtHand DEF NodeSteps, TaskSteps
<1>3. received[Entry(p)][Node(p)] # Missing
  BY <1>1, <1>2 DEF Grounded, Entry, Node
<1>4. received[Entry(p)][Node(p)] \in FileIds /\ <<Entry(p), Node(p)>> \in Places
  BY <1>2, <1>3, ReceivedIsFile DEF Places
<1>5. FilesTyped' /\ UNCHANGED received
  BY <1>1, FilesLeft
<1>6. known' \in [FileIds -> Places \cup {None}]
  BY <1>1, <1>4, KnownTyped
<1>7. Grows(received, task, received', task') /\ TablesTyped' /\ CompletedBacked'
  BY <1>1, <1>5, <1>6 DEF Inv, TablesTyped, CompletedBacked, Grows
<1>8. ProcessesGood'
  BY <1>1, <1>2, <1>3, <1>5, <1>7, GotoGood DEF StepNames, NodeSteps, TaskSteps
<1> QED
  BY <1>1, <1>5, <1>7, <1>8, RowsStayBacked, EnvironmentLeft DEF Inv

LEMMA UpsertDeviceFileKeeps ==
  ASSUME Inv, NEW p \in Procs, UpsertDeviceFile(p)
  PROVE  Inv'
<1>1. /\ UNCHANGED <<files, row, task, known, environment>> /\ pr[p].step = "hold"
      /\ Goto(p, "complete")
      /\ holder' = [holder EXCEPT ![Entry(p)][Node(p)] = received[Entry(p)][Node(p)]]
  BY DEF UpsertDeviceFile, At
<1>2. /\ Grounded(pr[p], received, task) /\ Entry(p) \in Entries /\ Node(p) \in Nodes
      /\ task[Entry(p)][Node(p)] # "none"
  BY <1>1, AtHand DEF NodeSteps, TaskSteps
<1>3. received[Entry(p)][Node(p)] # Missing
  BY <1>1, <1>2 DEF Grounded, Entry, Node
<1>4. received[Entry(p)][Node(p)] \in FileIds
  BY <1>2, <1>3, ReceivedIsFile
<1>5. FilesTyped' /\ UNCHANGED received
  BY <1>1, FilesLeft
<1>6. holder' \in [Entries -> [Nodes -> FileIds \cup {None}]]
  BY <1>1, <1>2, <1>4 DEF Inv, TablesTyped
<1>7. Grows(received, task, received', task') /\ TablesTyped' /\ CompletedBacked'
  BY <1>1, <1>5, <1>6 DEF Inv, TablesTyped, CompletedBacked, Grows
<1>8. ProcessesGood'
  BY <1>1, <1>2, <1>3, <1>5, <1>7, GotoGood DEF StepNames, NodeSteps, TaskSteps
<1> QED
  BY <1>1, <1>5, <1>7, <1>8, RowsStayBacked, EnvironmentLeft DEF Inv

LEMMA CompleteTaskKeeps ==
  ASSUME Inv, NEW p \in Procs, CompleteTask(p)
  PROVE  Inv'
<1>1. /\ UNCHANGED <<files, row, known, holder, environment>> /\ pr[p].step = "complete"
      /\ SetTask(Entry(p), Node(p), "completed") /\ Goto(p, "mark")
  BY DEF CompleteTask, At
<1>2. Grounded(pr[p], received, task) /\ Entry(p) \in Entries /\ Node(p) \in Nodes
  BY <1>1, AtHand DEF NodeSteps
<1>3. received[Entry(p)][Node(p)] # Missing /\ UNCHANGED received
  BY <1>1, <1>2, FilesLeft DEF Grounded, Entry, Node
<1>4. Grows(received, task, received', task') /\ task'[Entry(p)][Node(p)] # "none"
        => ProcessesGood'
  BY <1>1, <1>2, <1>3, GotoGood DEF StepNames, NodeSteps, TaskSteps
<1> QED
  BY <1>1, <1>2, <1>3, <1>4, TaskSaved DEF TaskStates

LEMMA ReadForMarkKeeps ==
  ASSUME Inv, NEW p \in Procs, ReadForMark(p)
  PROVE  Inv'
<1> DEFINE r == [pr[p] EXCEPT !.step = "deliver", !.got = row[Entry(p)]]
<1>1. UNCHANGED <<files, tables, environment>> /\ pr[p].step = "mark"
  BY DEF ReadForMark, At
<1>2. /\ pr[p] \in ProcessRecords /\ Formed(pr[p]) /\ Grounded(pr[p], received, task)
      /\ Entry(p) \in Entries /\ Node(p) \in Nodes /\ task[Entry(p)][Node(p)] # "none"
  BY <1>1, AtHand DEF NodeSteps, TaskSteps
<1>3. row[Entry(p)] \in Rows
  BY <1>2 DEF Inv, TablesTyped
<1>4. pr' = [pr EXCEPT ![p] = r]
  <2>1. pr \in [Procs -> ProcessRecords]
    BY DEF Inv, ProcessesGood
  <2> QED
    BY <2>1 DEF ReadForMark, ProcessRecords
<1>5. /\ r \in ProcessRecords /\ r.step = "deliver" /\ r.e = Entry(p) /\ r.n = Node(p)
      /\ r.got = row[Entry(p)] /\ r.list = pr[p].list /\ r.ok = pr[p].ok
      /\ r.cmd = pr[p].cmd
  BY <1>2, <1>3 DEF ProcessRecords, StepNames, Entry, Node
<1>6. Formed(r)
  BY <1>2, <1>5 DEF Formed
<1>7. r.ok => received[Entry(p)][Node(p)] # Missing
  BY <1>1, <1>2, <1>5 DEF Grounded, Entry, Node
<1> HIDE DEF r
<1>8. Grows(received, task, received, task)
  BY DEF Grows
<1>9. Good(r, received, task)
  BY <1>2, <1>5, <1>6, <1>7, <1>8, EntryRead
<1> QED
  BY <1>1, <1>4, <1>9, OnlyProcess

LEMMA MarkDeliveredKeeps ==
  ASSUME Inv, NEW p \in Procs, MarkDelivered(p)
  PROVE  Inv'
<1> DEFINE st == IF pr[p].ok THEN "delivered" ELSE "failed"
           y == SetRecipient(pr[p].got, Node(p), st)
           flag == pr[p].cmd # "agent" \/ \A n \in Nodes : y.to[n] \in {"none", "delivered"}
           z == [y EXCEPT !.delivered = flag]
<1>1. /\ UNCHANGED <<files, task, known, holder, environment>> /\ pr[p].step = "deliver"
      /\ End(p) /\ UpsertSharedLibraryEntry(Entry(p), z)
  BY DEF MarkDelivered, At
<1>2. /\ pr[p] \in ProcessRecords /\ Formed(pr[p]) /\ Grounded(pr[p], received, task)
      /\ Entry(p) \in Entries /\ Node(p) \in Nodes /\ task[Entry(p)][Node(p)] # "none"
      /\ pr[p].got \in Rows /\ Backed(Entry(p), pr[p].got, received, task)
  BY <1>1, AtHand DEF NodeSteps, TaskSteps, Entry
<1>3. pr[p].ok => received[Entry(p)][Node(p)] # Missing
  BY <1>1, <1>2 DEF Grounded, Entry, Node
<1>4. st \in RecipientStates /\ (st = "delivered" => received[Entry(p)][Node(p)] # Missing)
  BY <1>3 DEF RecipientStates
<1> HIDE DEF st
<1>5. y \in Rows /\ Backed(Entry(p), y, received, task)
  BY <1>2, <1>4, RecipientSet
<1> HIDE DEF y
<1>6. flag \in BOOLEAN
  OBVIOUS
<1>7. flag => received[Entry(p)][Node(p)] # Missing
  <2>1. CASE pr[p].ok
    BY <1>3, <2>1
  <2>2. CASE ~pr[p].ok
    <3>1. pr[p].cmd = "agent"
      BY <1>2, <2>2 DEF Formed
    <3>2. y.to[Node(p)] = "failed"
      BY <1>2, <2>2 DEF y, st, SetRecipient, Rows
    <3> QED
      BY <1>2, <3>1, <3>2
  <2> QED
    BY <2>1, <2>2
<1> HIDE DEF flag
<1>8. z \in Rows /\ z.to = y.to /\ z.delivered = flag /\ z.expired = y.expired
  BY <1>5, <1>6 DEF Rows
<1>9. Backed(Entry(p), z, received, task)
  BY <1>7, <1>2, <1>5, <1>8 DEF Backed
<1> HIDE DEF z
<1>10. Grows(received, task, received', task') => ProcessesGood'
  BY <1>1, EndGood
<1> QED
  BY <1>1, <1>2, <1>8, <1>9, <1>10, EntrySaved

(***************************************************************************)
(* A receive by an agent.                                                  *)
(***************************************************************************)
LEMMA AckTaskKeeps ==
  ASSUME Inv, NEW p \in Procs, AckTask(p)
  PROVE  Inv'
<1>1. /\ UNCHANGED <<files, row, known, holder, environment>> /\ pr[p].step = "ack"
      /\ SetTask(Entry(p), Node(p), "running") /\ Goto(p, "fetch")
  BY DEF AckTask, At
<1>2. /\ Entry(p) \in Entries /\ Node(p) \in Nodes /\ pr[p].cmd = "agent"
  BY <1>1, AtHand DEF NodeSteps, Formed
<1>3. Grows(received, task, received', task') /\ task'[Entry(p)][Node(p)] # "none"
        => ProcessesGood'
  BY <1>1, <1>2, GotoGood DEF StepNames, NodeSteps, TaskSteps
<1> QED
  BY <1>1, <1>2, <1>3, TaskSaved DEF TaskStates

LEMMA FetchSharedEntryKeeps ==
  ASSUME Inv, NEW p \in Procs, FetchSharedEntry(p)
  PROVE  Inv'
<1> DEFINE s == IF row[Entry(p)].expired THEN "report" ELSE "open"
           r == [pr[p] EXCEPT !.got = row[Entry(p)], !.step = s, !.ok = ~row[Entry(p)].expired]
<1>1. UNCHANGED <<files, tables, environment>> /\ pr[p].step = "fetch"
  BY DEF FetchSharedEntry, At
<1>2. /\ Entry(p) \in Entries /\ Node(p) \in Nodes /\ task[Entry(p)][Node(p)] # "none"
      /\ pr[p] \in ProcessRecords /\ pr[p].cmd = "agent"
  BY <1>1, AtHand DEF NodeSteps, TaskSteps, Formed
<1>3. /\ \/ s = "report" /\ row[Entry(p)].expired
         \/ s = "open" /\ ~row[Entry(p)].expired
      /\ row[Entry(p)] \in Rows
  <2>1. row[Entry(p)] \in Rows
    BY <1>2 DEF Inv, TablesTyped
  <2>2. CASE row[Entry(p)].expired
    BY <2>1, <2>2
  <2>3. CASE ~row[Entry(p)].expired
    BY <2>1, <2>3
  <2> QED
    BY <2>2, <2>3
<1>4. pr' = [pr EXCEPT ![p] = r]
  <2>1. pr \in [Procs -> ProcessRecords]
    BY DEF Inv, ProcessesGood
  <2> QED
    BY <2>1 DEF FetchSharedEntry, ProcessRecords
<1> HIDE DEF s
<1>5. /\ r \in ProcessRecords /\ r.step = s /\ r.e = Entry(p) /\ r.n = Node(p)
      /\ r.got = row[Entry(p)] /\ r.list = pr[p].list /\ r.cmd = "agent"
      /\ r.ok = ~row[Entry(p)].expired
  BY <1>2, <1>3 DEF ProcessRecords, StepNames, Entry, Node
<1>6. Formed(r)
  BY <1>2, <1>3, <1>5 DEF Formed
<1>7. /\ r.step \notin {"record", "hold", "complete", "mark", "deliver"}
      /\ ~(r.step = "report" /\ r.ok)
  BY <1>3, <1>5
<1> HIDE DEF r
<1>8. Grows(received, task, received, task)
  BY DEF Grows
<1>9. Good(r, received, task)
  BY <1>2, <1>5, <1>6, <1>7, <1>8, EntryRead
<1> QED
  BY <1>1, <1>4, <1>9, OnlyProcess

LEMMA ReportTaskResultKeeps ==
  ASSUME Inv, NEW p \in Procs, ReportTaskResult(p)
  PROVE  Inv'
<1> DEFINE st == IF pr[p].ok THEN "completed" ELSE "failed"
<1>1. /\ UNCHANGED <<files, row, known, holder, environment>> /\ pr[p].step = "report"
      /\ SetTask(Entry(p), Node(p), st) /\ Goto(p, "mark")
  BY DEF ReportTaskResult, At
<1>2. Grounded(pr[p], received, task) /\ Entry(p) \in Entries /\ Node(p) \in Nodes
  BY <1>1, AtHand DEF NodeSteps
<1>3. (pr[p].ok => received[Entry(p)][Node(p)] # Missing) /\ UNCHANGED received
  BY <1>1, <1>2, FilesLeft DEF Grounded, Entry, Node
<1>4. st \in TaskStates \ {"none"} /\ (st = "completed" => received[Entry(p)][Node(p)] # Missing)
  BY <1>3 DEF TaskStates
<1>5. Grows(received, task, received', task') /\ task'[Entry(p)][Node(p)] # "none"
        => ProcessesGood'
  BY <1>1, <1>2, <1>3, GotoGood DEF StepNames, NodeSteps, TaskSteps
<1> HIDE DEF st
<1> QED
  BY <1>1, <1>2, <1>4, <1>5, TaskSaved

(***************************************************************************)
(* CleanupExpired.                                                         *)
(***************************************************************************)
LEMMA ListExpiredKeeps ==
  ASSUME Inv, NEW p \in Procs, ListExpired(p)
  PROVE  Inv'
<1>1. UNCHANGED <<files, tables, environment>> /\ pr[p].step = "list"
  BY DEF ListExpired, At
<1>2. CASE End(p)
  BY <1>1, <1>2, IdleGood, OnlyProcess DEF End
<1>3. CASE ~End(p)
  <2> DEFINE due == {<<e, row[e]>> : e \in {d \in Entries : Due(d)}}
             r == [pr[p] EXCEPT !.step = "remove", !.list = due]
  <2>1. pr[p] \in ProcessRecords /\ Formed(pr[p]) /\ Grounded(pr[p], received, task)
    BY AtHand
  <2>2. due \in SUBSET (Entries \X Rows) /\ \A x \in due : Backed(x[1], x[2], received, task)
    BY DEF Inv, TablesTyped, RowsBacked
  <2>3. pr' = [pr EXCEPT ![p].step = "remove", ![p].list = due]
    BY <1>3 DEF ListExpired
  <2> HIDE DEF due
  <2>4. pr' = [pr EXCEPT ![p] = r]
    <3>1. pr \in [Procs -> ProcessRecords]
      BY DEF Inv, ProcessesGood
    <3> QED
      BY <2>3, <3>1 DEF ProcessRecords
  <2>5. /\ r \in ProcessRecords /\ r.step = "remove" /\ r.e = pr[p].e /\ r.n = pr[p].n
        /\ r.got = pr[p].got /\ r.list = due /\ r.cmd = pr[p].cmd /\ r.ok = pr[p].ok
    BY <2>1, <2>2 DEF ProcessRecords, StepNames
  <2>6. Formed(r) /\ Grounded(r, received, task)
    BY <1>1, <2>1, <2>2, <2>5 DEF Formed, Grounded, NodeSteps, TaskSteps
  <2> QED
    BY <1>1, <2>4, <2>5, <2>6, OnlyProcess DEF Good
<1> QED
  BY <1>2, <1>3

LEMMA RemoveLibraryFileKeeps ==
  ASSUME Inv, NEW p \in Procs, RemoveLibraryFile(p)
  PROVE  Inv'
<1>1. UNCHANGED <<source, arrived, tables, environment>> /\ pr[p].step = "remove"
  BY DEF RemoveLibraryFile, At
<1>2. PICK x \in pr[p].list : library' = [library EXCEPT ![x[1]] = Missing] /\ TakeFromList(p, x)
  BY DEF RemoveLibraryFile
<1> DEFINE r == [pr[p] EXCEPT !.step = "expire", !.e = x[1], !.got = x[2], !.list = @ \ {x}]
<1>3. pr[p] \in ProcessRecords /\ Formed(pr[p]) /\ Grounded(pr[p], received, task)
  BY AtHand
<1>4. x[1] \in Entries /\ x[2] \in Rows /\ Backed(x[1], x[2], received, task)
  BY <1>3 DEF ProcessRecords, Grounded
<1>5. library' \in [Entries -> Bytes]
  BY <1>2, <1>4 DEF Inv, FilesTyped, Bytes
<1>6. pr' = [pr EXCEPT ![p] = r]
  <2>1. pr \in [Procs -> ProcessRecords]
    BY DEF Inv, ProcessesGood
  <2> QED
    BY <1>2, <2>1 DEF TakeFromList, ProcessRecords
<1>7. /\ r \in ProcessRecords /\ r.step = "expire" /\ r.e = x[1] /\ r.n = pr[p].n
      /\ r.got = x[2] /\ r.list = pr[p].list \ {x} /\ r.cmd = pr[p].cmd /\ r.ok = pr[p].ok
  BY <1>3, <1>4 DEF ProcessRecords, StepNames
<1>8. Formed(r) /\ Grounded(r, received, task)
  BY <1>1, <1>3, <1>4, <1>7 DEF Formed, Grounded, NodeSteps, TaskSteps
<1> QED
  BY <1>1, <1>5, <1>6, <1>7, <1>8, LibrarySet DEF Good

LEMMA MarkExpiredKeeps ==
  ASSUME Inv, NEW p \in Procs, MarkExpired(p)
  PROVE  Inv'
<1> DEFINE x == [pr[p].got EXCEPT !.expired = TRUE, !.delivered = TRUE]
<1>1. /\ UNCHANGED <<files, task, known, holder, environment>> /\ pr[p].step = "expire"
      /\ UpsertSharedLibraryEntry(Entry(p), x)
  BY DEF MarkExpired, At
<1>2. /\ Entry(p) \in Entries /\ pr[p].got \in Rows
      /\ Backed(Entry(p), pr[p].got, received, task)
  BY <1>1, AtHand DEF Entry
<1>3. x \in Rows /\ x.to = pr[p].got.to /\ x.expired
  BY <1>2 DEF Rows
<1>4. Backed(Entry(p), x, received, task)
  BY <1>2, <1>3 DEF Backed
<1>5. Grows(received, task, received', task') => ProcessesGood'
  <2>1. CASE End(p)
    BY <2>1, EndGood
  <2>2. CASE Goto(p, "remove")
    BY <1>1, <2>2, GotoGood DEF StepNames, NodeSteps, TaskSteps
  <2> QED
    BY <2>1, <2>2 DEF MarkExpired
<1> HIDE DEF x
<1> QED
  BY <1>1, <1>2, <1>3, <1>4, <1>5, EntrySaved

(***************************************************************************)
(* Commands and the environment.                                           *)
(***************************************************************************)
LEMMA StartKeeps ==
  ASSUME Inv, NEW p \in Procs, NEW cmd \in CommandNames, NEW step \in StepNames,
         NEW e \in Entries \cup {None}, NEW n \in Nodes \cup {None},
         Start(p, cmd, step, e, n),
         step \in {"hash", "create", "retry", "list", "ack"},
         step # "list" => e \in Entries,
         step \in {"create", "retry", "ack"} \/ cmd = "share" => n \in Nodes,
         step = "ack" => cmd = "agent" /\ task[e][n] # "none"
  PROVE  Inv'
<1> DEFINE r == [Idle EXCEPT !.cmd = cmd, !.step = step, !.e = e, !.n = n]
<1>1. /\ UNCHANGED <<files, tables, clock, edits, kills, losses>>
      /\ pr' = [pr EXCEPT ![p] = r]
      /\ commands < MaxCommands /\ commands' = commands + 1
  BY DEF Start
<1>2. /\ r \in ProcessRecords /\ r.cmd = cmd /\ r.step = step /\ r.e = e /\ r.n = n
      /\ r.got = NoEntry /\ r.list = {} /\ r.ok = TRUE
  BY NoEntryTyped DEF Idle, ProcessRecords
<1>3. Formed(r)
  BY <1>2 DEF Formed, NodeSteps
<1>4. Grounded(r, received, task)
  BY <1>2, NoEntryTyped DEF Grounded, TaskSteps, NodeSteps
<1> HIDE DEF r
<1>5. FilesTyped' /\ UNCHANGED received
  BY <1>1, FilesLeft
<1>6. /\ TablesTyped' /\ RowsBacked' /\ CompletedBacked'
      /\ Grows(received, task, received', task') /\ UNCHANGED task
  BY <1>1, <1>5, TablesLeft
<1>7. ProcessesGood'
  BY <1>1, <1>2, <1>3, <1>4, <1>5, <1>6, OthersStayGood DEF Good
<1>8. disturbed' \in {"no", "some", "publisher"}
  <2>1. disturbed \in {"no", "some", "publisher"}
    BY DEF Inv, EnvironmentTyped
  <2> QED
    BY <2>1 DEF Start, Disturb
<1>9. EnvironmentTyped'
  BY <1>1, <1>8, LimitsAssumption DEF Inv, EnvironmentTyped
<1> QED
  BY <1>5, <1>6, <1>7, <1>9 DEF Inv

LEMMA CommandsKeep ==
  ASSUME Inv, NEW p \in Procs, Commands(p)
  PROVE  Inv'
<1>1. CASE RunShareCleanup(p)
  BY <1>1, StartKeeps DEF RunShareCleanup, CommandNames, StepNames
<1>2. CASE \E e \in Entries : RunSharePublish(p, e)
  BY <1>2, StartKeeps DEF RunSharePublish, CommandNames, StepNames
<1>3. ASSUME NEW e \in Entries, NEW n \in Nodes, RunShare(p, e, n)
      PROVE  Inv'
  BY <1>3, StartKeeps DEF RunShare, CommandNames, StepNames
<1>4. ASSUME NEW e \in Entries, NEW n \in Nodes, RunShareReceive(p, e, n)
      PROVE  Inv'
  BY <1>4, StartKeeps DEF RunShareReceive, CommandNames, StepNames
<1>5. ASSUME NEW e \in Entries, NEW n \in Nodes, RunShareRetry(p, e, n)
      PROVE  Inv'
  BY <1>5, StartKeeps DEF RunShareRetry, CommandNames, StepNames
<1>6. ASSUME NEW e \in Entries, NEW n \in Nodes, SubmitShareReceive(p, e, n)
      PROVE  Inv'
  BY <1>6, StartKeeps DEF SubmitShareReceive, CommandNames, StepNames
<1>7. ASSUME NEW e \in Entries, NEW n \in Nodes, RunTransfer(p, e, n)
      PROVE  Inv'
  BY <1>7, StartKeeps DEF RunTransfer, CommandNames, StepNames
<1> QED
  BY <1>1, <1>2, <1>3, <1>4, <1>5, <1>6, <1>7 DEF Commands

LEMMA DisturbTyped ==
  ASSUME Inv, Disturb \/ UNCHANGED disturbed
  PROVE  disturbed' \in {"no", "some", "publisher"}
BY DEF Inv, EnvironmentTyped, Disturb

\* A step that leaves the tables, what was received and the processes alone.
LEMMA NothingReceived ==
  ASSUME Inv, FilesTyped', EnvironmentTyped', UNCHANGED <<received, tables, pr>>
  PROVE  Inv'
<1>1. TablesTyped' /\ RowsBacked' /\ CompletedBacked' /\ UNCHANGED task
  BY TablesLeft
<1>2. ProcessesGood'
  BY <1>1 DEF Inv, ProcessesGood
<1> QED
  BY <1>1, <1>2 DEF Inv

LEMMA TickKeeps ==
  ASSUME Inv, Tick
  PROVE  Inv'
<1>1. FilesTyped' /\ UNCHANGED received
  BY FilesLeft DEF Tick
<1>2. EnvironmentTyped'
  BY LimitsAssumption DEF Tick, Inv, EnvironmentTyped
<1> QED
  BY <1>1, <1>2, NothingReceived DEF Tick

LEMMA EditKeeps ==
  ASSUME Inv, NEW e \in Entries, NEW c \in Contents \cup {Missing}, Edit(e, c)
  PROVE  Inv'
<1>1. FilesTyped' /\ UNCHANGED received
  BY DEF Edit, Inv, FilesTyped, arrived
<1>2. disturbed' \in {"no", "some", "publisher"}
  BY DisturbTyped DEF Edit
<1>3. EnvironmentTyped'
  BY <1>2, LimitsAssumption DEF Edit, Inv, EnvironmentTyped
<1> QED
  BY <1>1, <1>3, NothingReceived DEF Edit

LEMMA FaultTyped ==
  ASSUME Inv, Fault
  PROVE  /\ FilesTyped' /\ TablesTyped' /\ EnvironmentTyped' /\ RowsBacked' /\ CompletedBacked'
         /\ UNCHANGED <<received, task>> /\ Grows(received, task, received', task')
<1>1. FilesTyped' /\ UNCHANGED received
  BY FilesLeft DEF Fault
<1>2. disturbed' \in {"no", "some", "publisher"}
  BY DisturbTyped DEF Fault
<1>3. EnvironmentTyped'
  BY <1>2, LimitsAssumption DEF Fault, Inv, EnvironmentTyped
<1>4. /\ TablesTyped' /\ RowsBacked' /\ CompletedBacked' /\ UNCHANGED task
      /\ Grows(received, task, received', task')
  BY <1>1, TablesLeft DEF Fault
<1> QED
  BY <1>1, <1>3, <1>4

LEMMA KillKeeps ==
  ASSUME Inv, NEW p \in Procs, Kill(p)
  PROVE  Inv'
BY FaultTyped, EndGood DEF Kill, Inv

LEMMA CopyFailsKeeps ==
  ASSUME Inv, NEW p \in Procs, CopyFails(p)
  PROVE  Inv'
<1>1. /\ FilesTyped' /\ TablesTyped' /\ EnvironmentTyped' /\ RowsBacked' /\ CompletedBacked'
      /\ UNCHANGED <<received, task>> /\ Grows(received, task, received', task')
  BY FaultTyped DEF CopyFails
<1>2. ProcessesGood'
  <2>1. CASE End(p)
    BY <1>1, <2>1, EndGood
  <2>2. CASE pr[p].step = "copy" /\ Fail(p, pr[p].got)
    <3>1. pr[p].got \in Rows /\ Backed(Entry(p), pr[p].got, received, task)
      BY <2>2, AtHand DEF Entry
    <3> QED
      BY <1>1, <2>2, <3>1, FailGood
  <2> QED
    BY <2>1, <2>2 DEF CopyFails
<1> QED
  BY <1>1, <1>2 DEF Inv

LEMMA LoseFileKeeps ==
  ASSUME Inv, NEW e \in Entries, LoseFile(e)
  PROVE  Inv'
<1>1. FilesTyped' /\ UNCHANGED received
  BY DEF LoseFile, Inv, FilesTyped, Bytes, arrived
<1>2. EnvironmentTyped'
  BY LimitsAssumption DEF LoseFile, Inv, EnvironmentTyped
<1> QED
  BY <1>1, <1>2, NothingReceived DEF LoseFile

LEMMA PutFileBackKeeps ==
  ASSUME Inv, NEW e \in Entries, PutFileBack(e)
  PROVE  Inv'
<1>1. row[e].file \in Contents
  BY DEF PutFileBack, Published, Inv, TablesTyped, Rows
<1>2. FilesTyped' /\ UNCHANGED received
  BY <1>1 DEF PutFileBack, Inv, FilesTyped, Bytes, arrived
<1>3. EnvironmentTyped'
  BY EnvironmentLeft DEF PutFileBack
<1> QED
  BY <1>2, <1>3, NothingReceived DEF PutFileBack

(***************************************************************************)
(* The invariant.                                                          *)
(***************************************************************************)
LEMMA InitInv == Init => Inv
<1> SUFFICES ASSUME Init PROVE Inv
  OBVIOUS
<1>1. FilesTyped
  BY DEF Init, FilesTyped, Bytes
<1>2. TablesTyped
  BY NoEntryTyped DEF Init, TablesTyped, TaskStates
<1>3. EnvironmentTyped
  BY LimitsAssumption DEF Init, EnvironmentTyped
<1>4. ProcessesGood
  BY IdleGood DEF Init, ProcessesGood, Good
<1>5. RowsBacked /\ CompletedBacked
  BY NoEntryTyped DEF Init, RowsBacked, CompletedBacked
<1> QED
  BY <1>1, <1>2, <1>3, <1>4, <1>5 DEF Inv

LEMMA StepKeeps ==
  ASSUME Inv, NEW p \in Procs, Step(p)
  PROVE  Inv'
<1>1. CASE PublishFile(p)
  BY <1>1, HashSourceKeeps, VerifySourceKeeps, StoreInLibraryKeeps, EndStoreKeeps,
     IndexSourceKeeps, PublishEntryKeeps DEF PublishFile
<1>2. CASE ReceiveEntry(p)
  BY <1>2, RetryTaskKeeps, FindRecipientKeeps, ResetRecipientKeeps, CreateReceiveTaskKeeps,
     SaveInvitationKeeps, OpenLibraryFileKeeps, MarkFailedKeeps, EndCopyKeeps,
     RecordReceivedKeeps, UpsertDeviceFileKeeps, CompleteTaskKeeps, ReadForMarkKeeps,
     MarkDeliveredKeeps DEF ReceiveEntry
<1>3. CASE ExecuteTransfer(p)
  BY <1>3, AckTaskKeeps, FetchSharedEntryKeeps, ReportTaskResultKeeps DEF ExecuteTransfer
<1>4. CASE CleanupExpired(p)
  BY <1>4, ListExpiredKeeps, RemoveLibraryFileKeeps, MarkExpiredKeeps DEF CleanupExpired
<1> QED
  BY <1>1, <1>2, <1>3, <1>4 DEF Step

LEMMA NextInv == Inv /\ [Next]_vars => Inv'
<1> SUFFICES ASSUME Inv, [Next]_vars PROVE Inv'
  OBVIOUS
<1>1. ASSUME NEW p \in Procs, Commands(p) \/ Step(p) \/ Kill(p) \/ CopyFails(p)
      PROVE  Inv'
  BY <1>1, CommandsKeep, StepKeeps, KillKeeps, CopyFailsKeeps
<1>2. ASSUME NEW e \in Entries, LoseFile(e) \/ PutFileBack(e)
      PROVE  Inv'
  BY <1>2, LoseFileKeeps, PutFileBackKeeps
<1>3. ASSUME NEW e \in Entries, NEW c \in Contents \cup {Missing}, Edit(e, c)
      PROVE  Inv'
  BY <1>3, EditKeeps
<1>4. CASE UNCHANGED vars
  <2>1. /\ UNCHANGED <<files, tables, pr, environment>>
    BY <1>4 DEF vars
  <2>2. FilesTyped' /\ UNCHANGED received
    BY <2>1, FilesLeft
  <2> QED
    BY <2>1, <2>2, EnvironmentLeft, NothingReceived
<1> QED
  BY <1>1, <1>2, <1>3, <1>4, TickKeeps DEF Next

\* The invariant that the theorems rest on, however commands overlap, are
\* killed, fail, and files are edited and lost.
THEOREM InvHolds == Spec => []Inv
BY InitInv, NextInv, PTL DEF Spec

\* Files, tables and processes of the shared library have their shape: what
\* is copied into the library, received and recorded in the index is a file.
THEOREM SharedTypes == Spec => []TypeOK
<1>1. Inv => TypeOK
  BY DEF Inv, TypeOK, ProcessesGood, ProcessesTyped, ProcessRecords
<1> QED
  BY <1>1, InvHolds, PTL

\* A recipient that an entry shows has a task, so that share-retry finds it:
\* CreateReceiveTask schedules the task before it saves the recipient, and an
\* entry that another process read earlier shows no recipient without one.
THEOREM RecipientsHaveTasks == Spec => []RecipientsRetryable
<1>1. Inv => RecipientsRetryable
  BY DEF Inv, RowsBacked, Backed, RecipientsRetryable
<1> QED
  BY <1>1, InvHolds, PTL

\* What ReceiveEntry, MarkDelivered and REPORT_TASK show as received has a
\* file at the node, whichever copies of an entry overwrite each other.
THEOREM DeliveriesBacked == Spec => []DeliveredIsBacked
<1>1. Inv => DeliveredIsBacked
  BY DEF Inv, RowsBacked, CompletedBacked, Backed, DeliveredIsBacked
<1> QED
  BY <1>1, InvHolds, PTL
=============================================================================
