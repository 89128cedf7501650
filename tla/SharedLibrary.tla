--------------------------- MODULE SharedLibrary ---------------------------
(***************************************************************************)
(* The shared library: share-publish, share-run, share-receive,            *)
(* share-retry and share-cleanup of netdisk_cli, the invitations of the    *)
(* control node and the receives of device agents, over one metadata       *)
(* database and one library directory.                                     *)
(*                                                                         *)
(* Every command is a process of its own, and can be killed between any    *)
(* two of its steps; a writer that finds the database locked throws, which *)
(* ends it in the same way.  An entry is read as a whole, changed in       *)
(* memory and saved as a whole, recipients included, in a later step: what *)
(* other processes saved in between is lost.                               *)
(*                                                                         *)
(* Files are identified by the hash of their content, so contents and file *)
(* ids are the same set; a partly written file, Torn, has an id too.  The  *)
(* rows that commands write for their nodes and for the transfer policy    *)
(* are left out: nothing here reads them.                                  *)
(***************************************************************************)
EXTENDS Naturals

CONSTANTS
  Entries,   \* ids of entries; each has one library file and one display name
  Nodes,     \* nodes that receive, each into one directory
  Contents,  \* what the files that are published can contain
  Procs,     \* processes that can run at the same time
  Missing, Torn, None,  \* no file, a partly written file, no value
  Retention, \* what RunSharePublish adds to the time of publication
  MaxClock, MaxCommands, MaxEdits, MaxKills, MaxLosses  \* bounds

Bytes == Contents \cup {Missing, Torn}
FileIds == Contents \cup {Torn}

\* Where a file can be: the file an entry is published from, and the place
\* below the directory of a node that it is received into.
Places == Entries \cup (Entries \X Nodes)

ASSUME ContentsAssumption == /\ Missing \notin FileIds /\ Torn \notin Contents
                             /\ None \notin FileIds \cup Places
ASSUME PlacesAssumption == Entries \cap (Entries \X Nodes) = {}
ASSUME LimitsAssumption == /\ Retention \in Nat /\ MaxClock \in Nat /\ MaxCommands \in Nat
                           /\ MaxEdits \in Nat /\ MaxKills \in Nat /\ MaxLosses \in Nat

VARIABLES
  \* Files.
  source,     \* the file that each entry is published from
  library,    \* the file of each entry in the library
  received,   \* what each node has received
  \* Tables of the database.
  row,        \* shared_library_entries with shared_library_recipients
  task,       \* state of the receive task of each entry and node
  known,      \* file_records: the place of each file id
  holder,     \* device_file_records: the file id at each place of each node
  \* Processes.
  pr,
  \* Environment.
  clock, commands, edits, kills, losses,
  \* What only the properties look at.
  byAgent,    \* what was last received by an agent
  disturbed   \* "no"; "some": commands overlapped, were killed or failed to
              \* write a file, or a file was edited while one ran; "publisher":
              \* a command that publishes overlapped another one

arrived == <<received, byAgent>>
files == <<source, library, arrived>>
tables == <<row, task, known, holder>>
environment == <<clock, commands, edits, kills, losses, disturbed>>
vars == <<files, tables, pr, environment>>

NoEntry == [file |-> None, expires |-> 0, expired |-> FALSE, delivered |-> FALSE,
            to |-> [n \in Nodes |-> "none"]]
Idle == [cmd |-> "none", step |-> "idle", e |-> None, n |-> None, got |-> NoEntry,
         read |-> None, ok |-> TRUE, list |-> {}]

Init ==
  /\ source \in [Entries -> Contents]
  /\ library = [e \in Entries |-> Missing]
  /\ received = [e \in Entries |-> [n \in Nodes |-> Missing]]
  /\ row = [e \in Entries |-> NoEntry]
  /\ task = [e \in Entries |-> [n \in Nodes |-> "none"]]
  /\ known = [f \in FileIds |-> None]
  /\ holder = [e \in Entries |-> [n \in Nodes |-> None]]
  /\ pr = [p \in Procs |-> Idle]
  /\ clock = 0 /\ commands = 0 /\ edits = 0 /\ kills = 0 /\ losses = 0
  /\ byAgent = {} /\ disturbed = "no"

-----------------------------------------------------------------------------
(***************************************************************************)
(* Processes.                                                              *)
(***************************************************************************)
Busy(p) == pr[p] # Idle
Quiet == \A p \in Procs : ~Busy(p)

Entry(p) == pr[p].e
Node(p) == pr[p].n

At(p, step) == pr[p].step = step /\ UNCHANGED environment
Goto(p, step) == pr' = [pr EXCEPT ![p].step = step]
End(p) == pr' = [pr EXCEPT ![p] = Idle]

Publishing == {"publish", "share"}
Receiving == {"share", "receive", "retry", "agent"}

\* One command publishes at a time, and a node receives one file at a time.
Free(cmd, n) ==
  \A p \in Procs :
    /\ ~(cmd \in Publishing /\ pr[p].cmd \in Publishing)
    /\ ~(cmd \in Receiving /\ pr[p].cmd \in Receiving /\ pr[p].n = n)

Disturb == disturbed' = IF disturbed = "no" THEN "some" ELSE disturbed

Start(p, cmd, step, e, n) ==
  /\ ~Busy(p) /\ Free(cmd, n)
  /\ commands < MaxCommands /\ commands' = commands + 1
  /\ pr' = [pr EXCEPT ![p] = [Idle EXCEPT !.cmd = cmd, !.step = step, !.e = e, !.n = n]]
  /\ CASE Quiet -> UNCHANGED disturbed
       [] ~Quiet /\ cmd \notin Publishing /\ \A q \in Procs : pr[q].cmd \notin Publishing -> Disturb
       [] OTHER -> disturbed' = "publisher"
  /\ UNCHANGED <<files, tables, clock, edits, kills, losses>>

RunSharePublish(p, e) == Start(p, "publish", "hash", e, None)
\* share-run publishes the entry and goes on with ReceiveEntry.
RunShare(p, e, n) == Start(p, "share", "hash", e, n)
RunShareReceive(p, e, n) == Start(p, "receive", "create", e, n)
RunShareRetry(p, e, n) == Start(p, "retry", "retry", e, n)
RunShareCleanup(p) == Start(p, "cleanup", "list", None, None)
\* SUBMIT_SHARE_RECEIVE of the control node.
SubmitShareReceive(p, e, n) == Start(p, "invite", "create", e, n)
\* The agent of node n has pulled the task.
RunTransfer(p, e, n) == task[e][n] = "queued" /\ Start(p, "agent", "ack", e, n)

-----------------------------------------------------------------------------
(***************************************************************************)
(* The metadata store and the task scheduler.                              *)
(***************************************************************************)
UpsertSharedLibraryEntry(e, entry) == row' = [row EXCEPT ![e] = entry]

SetRecipient(entry, n, state) == [entry EXCEPT !.to[n] = state]

\* The row of another file at this place is removed, and a row of the same
\* file at another place is redirected.
UpsertFile(place, f) ==
  known' = [g \in FileIds |-> CASE g = f -> place
                                [] g # f /\ known[g] = place -> None
                                [] OTHER -> known[g]]

SetTask(e, n, state) == task' = [task EXCEPT ![e][n] = state]

-----------------------------------------------------------------------------
(***************************************************************************)
(* PublishFile.                                                            *)
(***************************************************************************)
\* The command sets the time of expiry; BuildFileRecord of the source file,
\* which must exist.
HashSource(p) ==
  /\ At(p, "hash")
  /\ IF source[Entry(p)] = Missing
       THEN End(p)
       ELSE pr' = [pr EXCEPT ![p].step = "verify", ![p].got.file = source[Entry(p)],
                             ![p].got.expires = clock + Retention]
  /\ UNCHANGED <<files, tables>>

VerifySource(p) ==
  /\ At(p, "verify")
  /\ IF source[Entry(p)] = pr[p].got.file THEN Goto(p, "store") ELSE End(p)
  /\ UNCHANGED <<files, tables>>

\* The file is read again to be copied over the library file.  A process that
\* is copying the library file gets a part of it or all of it.
StoreInLibrary(p) ==
  /\ At(p, "store")
  /\ IF source[Entry(p)] = Missing
       THEN End(p) /\ UNCHANGED library
       ELSE /\ library' = [library EXCEPT ![Entry(p)] = Torn]
            /\ \E tear \in BOOLEAN :
                 pr' = [q \in Procs |->
                   CASE q = p -> [pr[p] EXCEPT !.step = "stored", !.read = source[Entry(p)]]
                     [] tear /\ pr[q].step = "copy" /\ Entry(q) = Entry(p)
                          -> [pr[q] EXCEPT !.read = Torn]
                     [] OTHER -> pr[q]]
  /\ UNCHANGED <<source, arrived, tables>>

EndStore(p) ==
  /\ At(p, "stored")
  /\ library' = [library EXCEPT ![Entry(p)] = pr[p].read]
  /\ Goto(p, "index")
  /\ UNCHANGED <<source, arrived, tables>>

IndexSource(p) ==
  /\ At(p, "index")
  /\ UpsertFile(Entry(p), pr[p].got.file)
  /\ Goto(p, "publish")
  /\ UNCHANGED <<files, row, task, holder>>

\* Mutant: the recipients of the entry that is replaced are kept.
PublishKeepsRecipients(p) ==
  /\ At(p, "publish")
  /\ UpsertSharedLibraryEntry(Entry(p),
       [row[Entry(p)] EXCEPT !.file = pr[p].got.file, !.expires = pr[p].got.expires,
                             !.expired = FALSE])
  /\ IF pr[p].cmd = "share" THEN Goto(p, "create") ELSE End(p)
  /\ UNCHANGED <<files, task, known, holder>>

\* PublishEntry: an entry with this id is replaced, and with it its recipients.
PublishEntry(p) ==
  /\ At(p, "publish")
  /\ UpsertSharedLibraryEntry(Entry(p), pr[p].got)
  /\ IF pr[p].cmd = "share" THEN Goto(p, "create") ELSE End(p)
  /\ UNCHANGED <<files, task, known, holder>>

PublishFile(p) ==
  \/ HashSource(p) \/ VerifySource(p) \/ StoreInLibrary(p) \/ EndStore(p)
  \/ IndexSource(p) \/ PublishEntry(p)

-----------------------------------------------------------------------------
(***************************************************************************)
(* CreateReceiveTask, ReceiveEntry and RetryReceive.                       *)
(***************************************************************************)
Published(e) == row[e].file # None

\* RetryReceive: the task must exist.
RetryTask(p) ==
  /\ At(p, "retry")
  /\ IF task[Entry(p)][Node(p)] = "none"
       THEN End(p) /\ UNCHANGED task
       ELSE SetTask(Entry(p), Node(p), "queued") /\ Goto(p, "reset")
  /\ UNCHANGED <<files, row, known, holder>>

FindRecipient(p) ==
  /\ At(p, "reset")
  /\ pr' = [pr EXCEPT ![p].got = row[Entry(p)],
                      ![p].step = IF row[Entry(p)].to[Node(p)] = "none" THEN "create" ELSE "pend"]
  /\ UNCHANGED <<files, tables>>

ResetRecipient(p) ==
  /\ At(p, "pend")
  /\ UpsertSharedLibraryEntry(Entry(p), SetRecipient(pr[p].got, Node(p), "pending"))
  /\ Goto(p, "create")
  /\ UNCHANGED <<files, task, known, holder>>

\* Mutant: a node that was invited before is not invited again.
CreateOnlyOnce(p) ==
  LET entry == row[Entry(p)]
  IN /\ At(p, "create")
     /\ \/ /\ ~Published(Entry(p)) \/ entry.expired \/ entry.to[Node(p)] # "none"
           /\ End(p)
           /\ UNCHANGED task
        \/ /\ Published(Entry(p)) /\ ~entry.expired /\ entry.to[Node(p)] = "none"
           /\ SetTask(Entry(p), Node(p), "queued")
           /\ pr' = [pr EXCEPT ![p].step = "invite", ![p].got = entry]
     /\ UNCHANGED <<files, row, known, holder>>

\* Mutant: the task is not scheduled.
CreateWithoutTask(p) ==
  LET entry == row[Entry(p)]
  IN /\ At(p, "create")
     /\ IF ~Published(Entry(p)) \/ entry.expired THEN End(p)
        ELSE pr' = [pr EXCEPT ![p].step = "invite", ![p].got = entry]
     /\ UNCHANGED <<files, tables>>

\* ReceiveEntry and CreateReceiveTask look the entry up: it must have been
\* published and not be expired.  A receive of what was delivered goes on
\* without a new task, an invitation does not.
CreateReceiveTask(p) ==
  LET entry == row[Entry(p)]
  IN /\ At(p, "create")
     /\ \/ /\ ~Published(Entry(p)) \/ entry.expired
           /\ End(p)
           /\ UNCHANGED task
        \/ /\ Published(Entry(p)) /\ ~entry.expired /\ entry.to[Node(p)] = "delivered"
           /\ IF pr[p].cmd = "invite" THEN End(p) ELSE Goto(p, "open")
           /\ UNCHANGED task
        \/ /\ Published(Entry(p)) /\ ~entry.expired /\ entry.to[Node(p)] # "delivered"
           /\ SetTask(Entry(p), Node(p), "queued")
           /\ pr' = [pr EXCEPT ![p].step = "invite", ![p].got = entry]
     /\ UNCHANGED <<files, row, known, holder>>

\* The entry is saved as it was read before the task was.
SaveInvitation(p) ==
  /\ At(p, "invite")
  /\ UpsertSharedLibraryEntry(Entry(p), SetRecipient(pr[p].got, Node(p), "pending"))
  /\ IF pr[p].cmd = "invite" THEN End(p) ELSE Goto(p, "open")
  /\ UNCHANGED <<files, task, known, holder>>

\* What a receive that fails does next: the agent reports it, a command marks
\* the recipient if there is one.
Fail(p, entry) ==
  IF pr[p].cmd = "agent"
    THEN pr' = [pr EXCEPT ![p].step = "report", ![p].ok = FALSE]
    ELSE IF entry.to[Node(p)] = "none" THEN End(p)
    ELSE pr' = [pr EXCEPT ![p].step = "fail", ![p].got = entry]

\* Mutant: the library file is not looked for.
OpenUnchecked(p) ==
  /\ At(p, "open")
  /\ received' = [received EXCEPT ![Entry(p)][Node(p)] = Torn]
  /\ pr' = [pr EXCEPT ![p].step = "copy", ![p].read = library[Entry(p)], ![p].got = row[Entry(p)]]
  /\ UNCHANGED <<source, library, byAgent, tables>>

\* Mutant: the status of the copy is ignored.
OpenIgnoresStatus(p) ==
  /\ At(p, "open")
  /\ IF library[Entry(p)] = Missing
       THEN Goto(p, "complete") /\ UNCHANGED received
       ELSE /\ received' = [received EXCEPT ![Entry(p)][Node(p)] = Torn]
            /\ pr' = [pr EXCEPT ![p].step = "copy", ![p].read = library[Entry(p)],
                                ![p].got = row[Entry(p)]]
  /\ UNCHANGED <<source, library, byAgent, tables>>

\* The entry is read once more, not whether it has expired meanwhile; an agent
\* uses the entry it has fetched.  What was received before is overwritten.
OpenLibraryFile(p) ==
  LET entry == IF pr[p].cmd = "agent" THEN pr[p].got ELSE row[Entry(p)]
  IN /\ At(p, "open")
     /\ IF library[Entry(p)] = Missing
          THEN Fail(p, entry) /\ UNCHANGED received
          ELSE /\ received' = [received EXCEPT ![Entry(p)][Node(p)] = Torn]
               /\ pr' = [pr EXCEPT ![p].step = "copy", ![p].read = library[Entry(p)],
                                   ![p].got = entry]
     /\ UNCHANGED <<source, library, byAgent, tables>>

MarkFailed(p) ==
  /\ At(p, "fail")
  /\ UpsertSharedLibraryEntry(Entry(p), SetRecipient(pr[p].got, Node(p), "failed"))
  /\ End(p)
  /\ UNCHANGED <<files, task, known, holder>>

\* The end of copy_file.
EndCopy(p) ==
  /\ At(p, "copy")
  /\ received' = [received EXCEPT ![Entry(p)][Node(p)] = pr[p].read]
  /\ IF pr[p].cmd = "agent"
       THEN Goto(p, "report") /\ byAgent' = byAgent \cup {<<Entry(p), Node(p)>>}
       ELSE Goto(p, "record") /\ byAgent' = byAgent \ {<<Entry(p), Node(p)>>}
  /\ UNCHANGED <<source, library, tables>>

\* BuildFileRecord and VerifyFile of the copy, which is compared with itself
\* and not with the file id of the entry; UpsertFile ...
RecordReceived(p) ==
  /\ At(p, "record")
  /\ UpsertFile(<<Entry(p), Node(p)>>, received[Entry(p)][Node(p)])
  /\ Goto(p, "hold")
  /\ UNCHANGED <<files, row, task, holder>>

\* ... and UpsertDeviceFile.
UpsertDeviceFile(p) ==
  /\ At(p, "hold")
  /\ holder' = [holder EXCEPT ![Entry(p)][Node(p)] = received[Entry(p)][Node(p)]]
  /\ Goto(p, "complete")
  /\ UNCHANGED <<files, row, task, known>>

CompleteTask(p) ==
  /\ At(p, "complete")
  /\ SetTask(Entry(p), Node(p), "completed")
  /\ Goto(p, "mark")
  /\ UNCHANGED <<files, row, known, holder>>

\* MarkDelivered, and the last part of REPORT_TASK, read the entry again ...
ReadForMark(p) ==
  /\ At(p, "mark")
  /\ pr' = [pr EXCEPT ![p].step = "deliver", ![p].got = row[Entry(p)]]
  /\ UNCHANGED <<files, tables>>

\* ... and save it.  The flag of the entry is set whatever the states of the
\* other recipients, by a report only if the file was delivered to all.
MarkDelivered(p) ==
  LET entry == SetRecipient(pr[p].got, Node(p), IF pr[p].ok THEN "delivered" ELSE "failed")
  IN /\ At(p, "deliver")
     /\ UpsertSharedLibraryEntry(Entry(p),
          [entry EXCEPT !.delivered = \/ pr[p].cmd # "agent"
                                      \/ \A n \in Nodes : entry.to[n] \in {"none", "delivered"}])
     /\ End(p)
     /\ UNCHANGED <<files, task, known, holder>>

ReceiveEntry(p) ==
  \/ RetryTask(p) \/ FindRecipient(p) \/ ResetRecipient(p)
  \/ CreateReceiveTask(p) \/ SaveInvitation(p) \/ OpenLibraryFile(p) \/ MarkFailed(p)
  \/ EndCopy(p) \/ RecordReceived(p) \/ UpsertDeviceFile(p)
  \/ CompleteTask(p) \/ ReadForMark(p) \/ MarkDelivered(p)

-----------------------------------------------------------------------------
(***************************************************************************)
(* A receive by the agent of the node.  It keeps tables of its own, which  *)
(* are left out.                                                           *)
(***************************************************************************)
AckTask(p) ==
  /\ At(p, "ack")
  /\ SetTask(Entry(p), Node(p), "running")
  /\ Goto(p, "fetch")
  /\ UNCHANGED <<files, row, known, holder>>

FetchSharedEntry(p) ==
  /\ At(p, "fetch")
  /\ pr' = [pr EXCEPT ![p].got = row[Entry(p)],
                      ![p].step = IF row[Entry(p)].expired THEN "report" ELSE "open",
                      ![p].ok = ~row[Entry(p)].expired]
  /\ UNCHANGED <<files, tables>>

ReportTaskResult(p) ==
  /\ At(p, "report")
  /\ SetTask(Entry(p), Node(p), IF pr[p].ok THEN "completed" ELSE "failed")
  /\ Goto(p, "mark")
  /\ UNCHANGED <<files, row, known, holder>>

ExecuteTransfer(p) == AckTask(p) \/ FetchSharedEntry(p) \/ ReportTaskResult(p)

-----------------------------------------------------------------------------
(***************************************************************************)
(* CleanupExpired: the list is read once, and what it holds is saved.      *)
(***************************************************************************)
\* Mutant: the time is not looked at.
DueAtOnce(e) == Published(e) /\ ~row[e].expired

Due(e) == Published(e) /\ ~row[e].expired /\ row[e].expires <= clock

ListExpired(p) ==
  /\ At(p, "list")
  /\ IF \E e \in Entries : Due(e)
       THEN pr' = [pr EXCEPT ![p].step = "remove",
                             ![p].list = {<<e, row[e]>> : e \in {d \in Entries : Due(d)}}]
       ELSE End(p)
  /\ UNCHANGED <<files, tables>>

TakeFromList(p, x) ==
  pr' = [pr EXCEPT ![p].step = "expire", ![p].e = x[1], ![p].got = x[2], ![p].list = @ \ {x}]

\* Mutant: the file is left in the library.
RemoveNothing(p) ==
  /\ At(p, "remove")
  /\ \E x \in pr[p].list : TakeFromList(p, x)
  /\ UNCHANGED <<files, tables>>

RemoveLibraryFile(p) ==
  /\ At(p, "remove")
  /\ \E x \in pr[p].list : /\ library' = [library EXCEPT ![x[1]] = Missing]
                           /\ TakeFromList(p, x)
  /\ UNCHANGED <<source, arrived, tables>>

MarkExpired(p) ==
  /\ At(p, "expire")
  /\ UpsertSharedLibraryEntry(Entry(p), [pr[p].got EXCEPT !.expired = TRUE, !.delivered = TRUE])
  /\ IF pr[p].list = {} THEN End(p) ELSE Goto(p, "remove")
  /\ UNCHANGED <<files, task, known, holder>>

CleanupExpired(p) == ListExpired(p) \/ RemoveLibraryFile(p) \/ MarkExpired(p)

-----------------------------------------------------------------------------
(***************************************************************************)
(* The environment.                                                        *)
(***************************************************************************)
Tick ==
  /\ clock < MaxClock /\ clock' = clock + 1
  /\ UNCHANGED <<files, tables, pr, commands, edits, kills, losses, disturbed>>

\* The user replaces or removes a file that is or will be published.
Edit(e, c) ==
  /\ edits < MaxEdits /\ edits' = edits + 1
  /\ c # source[e] /\ source' = [source EXCEPT ![e] = c]
  /\ IF Quiet THEN UNCHANGED disturbed ELSE Disturb
  /\ UNCHANGED <<library, arrived, tables, pr, clock, commands, kills, losses>>

Fault ==
  /\ kills < MaxKills /\ kills' = kills + 1 /\ Disturb
  /\ UNCHANGED <<files, tables, clock, commands, edits, losses>>

Kill(p) == Fault /\ Busy(p) /\ End(p)

\* A copy that fails half-way leaves what it has written.
CopyFails(p) == Fault /\ \/ pr[p].step = "stored" /\ End(p)
                         \/ pr[p].step = "copy" /\ Fail(p, pr[p].got)

\* A library file is lost; the user may put it back.
LoseFile(e) ==
  /\ losses < MaxLosses /\ losses' = losses + 1
  /\ library[e] # Missing /\ \A p \in Procs : pr[p].step # "stored"
  /\ library' = [library EXCEPT ![e] = Missing]
  /\ UNCHANGED <<source, arrived, tables, pr, clock, commands, edits, kills, disturbed>>

PutFileBack(e) ==
  /\ losses > 0 /\ Quiet /\ library[e] = Missing /\ Published(e) /\ ~row[e].expired
  /\ library' = [library EXCEPT ![e] = row[e].file]
  /\ UNCHANGED <<source, arrived, tables, pr, environment>>

Step(p) == PublishFile(p) \/ ReceiveEntry(p) \/ ExecuteTransfer(p) \/ CleanupExpired(p)

Commands(p) ==
  \/ RunShareCleanup(p)
  \/ \E e \in Entries : RunSharePublish(p, e)
  \/ \E e \in Entries, n \in Nodes :
       \/ RunShare(p, e, n) \/ RunShareReceive(p, e, n) \/ RunShareRetry(p, e, n)
       \/ SubmitShareReceive(p, e, n) \/ RunTransfer(p, e, n)

Next ==
  \/ \E p \in Procs : Commands(p) \/ Step(p) \/ Kill(p) \/ CopyFails(p)
  \/ Tick \/ \E e \in Entries : LoseFile(e) \/ PutFileBack(e)
  \/ \E e \in Entries, c \in Contents \cup {Missing} : Edit(e, c)

Spec == Init /\ [][Next]_vars

\* A command that was started goes on.
FairSpec == Spec /\ \A p \in Procs : WF_vars(Step(p))

-----------------------------------------------------------------------------
(***************************************************************************)
(* Properties.                                                             *)
(***************************************************************************)
RecipientStates == {"none", "pending", "delivered", "failed"}
TaskStates == {"none", "queued", "running", "completed", "failed"}
CommandNames == {"none", "publish", "share", "receive", "retry", "cleanup", "invite", "agent"}
StepNames == {"idle", "hash", "verify", "store", "stored", "index", "publish", "retry", "reset",
              "pend", "create", "invite", "open", "fail", "copy", "record", "hold", "complete",
              "mark", "deliver", "ack", "fetch", "report", "list", "remove", "expire"}

Rows == [file : Contents \cup {None}, expires : Nat, expired : BOOLEAN, delivered : BOOLEAN,
         to : [Nodes -> RecipientStates]]

FilesTyped ==
  /\ source \in [Entries -> Contents \cup {Missing}]
  /\ library \in [Entries -> Bytes]
  /\ received \in [Entries -> [Nodes -> Bytes]]
  /\ byAgent \subseteq Entries \X Nodes

TablesTyped ==
  /\ row \in [Entries -> Rows]
  /\ task \in [Entries -> [Nodes -> TaskStates]]
  /\ known \in [FileIds -> Places \cup {None}]
  /\ holder \in [Entries -> [Nodes -> FileIds \cup {None}]]

ProcessesTyped ==
  pr \in [Procs -> [cmd : CommandNames, step : StepNames, e : Entries \cup {None},
                    n : Nodes \cup {None}, got : Rows, read : FileIds \cup {None},
                    ok : BOOLEAN, list : SUBSET (Entries \X Rows)]]

EnvironmentTyped ==
  /\ clock \in 0 .. MaxClock /\ commands \in 0 .. MaxCommands /\ edits \in 0 .. MaxEdits
  /\ kills \in 0 .. MaxKills /\ losses \in 0 .. MaxLosses
  /\ disturbed \in {"no", "some", "publisher"}

\* The files, the tables and the processes have the shape the code gives them:
\* what is copied and recorded is always a file.
TypeOK == FilesTyped /\ TablesTyped /\ ProcessesTyped /\ EnvironmentTyped

\* Nothing is shown as received where there is no file, however commands
\* overlap and wherever they are killed: not a recipient as delivered, not a
\* task as completed, and not an active entry as delivered when no node has it.
DeliveredIsBacked ==
  \A e \in Entries :
    /\ \A n \in Nodes : row[e].to[n] = "delivered" \/ task[e][n] = "completed"
                          => received[e][n] # Missing
    /\ row[e].delivered /\ ~row[e].expired => \E n \in Nodes : received[e][n] # Missing

\* Every recipient that is shown can be retried: share-retry finds its task,
\* whichever step of an invitation or a publication was the last.
RecipientsRetryable ==
  \A e \in Entries, n \in Nodes : row[e].to[n] # "none" => task[e][n] # "none"

\* An entry that was saved as it was read before a cleanup is active again and
\* has no file.  It is overdue, so that the next cleanup takes it back; only an
\* entry that is published again during a cleanup can lose its new file.
MissingIsOverdue ==
  Quiet /\ losses = 0 /\ disturbed # "publisher" =>
    \A e \in Entries : Published(e) /\ library[e] = Missing => row[e].expires <= clock

\* Undisturbed commands leave this behind.
Settled == Quiet /\ disturbed = "no"

\* A recipient's state tells the truth.  A node that is shown as having
\* received an entry holds the version that is published now, its task is
\* completed, and if it was received by a command the device view says so (the
\* tables of an agent are its own); where one is waiting the task is too.
RecipientAgrees ==
  Settled => \A e \in Entries, n \in Nodes :
    /\ row[e].to[n] = "delivered" =>
         /\ received[e][n] = row[e].file
         /\ task[e][n] = "completed"
         /\ <<e, n>> \notin byAgent => holder[e][n] = row[e].file
    /\ row[e].to[n] = "pending" => task[e][n] \in {"queued", "running"}

\* "Expired entries are cleaned, and their files removed from the library": an
\* active entry has its file, unless it was lost, an expired one has none and
\* is expired for its age.
LibraryAgrees ==
  Settled => \A e \in Entries :
    IF row[e].expired
      THEN library[e] = Missing /\ row[e].expires <= clock
      ELSE \/ library[e] = row[e].file
           \/ library[e] = Missing /\ (Published(e) => losses > 0)

Intact(e) == Published(e) /\ ~row[e].expired /\ library[e] = row[e].file

\* "After the file was put back, share-retry takes the state to delivered":
\* a retry that begins when the library file is there delivers it.
RetryDelivers ==
  \A e \in Entries, n \in Nodes :
    /\ \E p \in Procs : pr[p].step = "reset" /\ Entry(p) = e /\ Node(p) = n
    /\ Intact(e)
    ~> row[e].to[n] = "delivered" \/ ~Intact(e) \/ kills > 0
=============================================================================
