# NodeDisk in TLA+

A verification project for NodeDisk ("NetDisk V1"), a personal distributed disk
in C++. Modules model the code, TLC checks them on small instances, TLAPS
proves the safety properties for all instances. Section 5 names the hypotheses where a
theorem needs one. Paths below are relative to the repository. `PROJECT.json` maps every definition to its source lines and
lists runs, mutants, hazards, findings and theorems.

    tlc -workers 2 -config SyncCrash.cfg MCSyncV1     # any run: its cfg and its MC module
    tlapm SyncV1Proofs.tla                            # any module of proofs

## 1. Inventory of the system

| Component (source) | State it keeps | Operations |
|---|---|---|
| sync engine (`apps/sync_v1/main.cpp`, `src/sync/`) | two directory trees, `<file>.part`, rows of `file_records`, `sync_tasks`, `sync_task_chunks` | scan, chunk, compare, request, receive, resume, append, mark, verify, rename, refresh |
| control node (`src/control_plane/control_node_server.cpp`, `apps/control_node/main.cpp`) | the shared database; one thread, one connection at a time | register, heartbeat, pull, acknowledge, fetch, report, submit backup/restore, receive, retry |
| task scheduler (`src/control_plane/task_scheduler.cpp`) | `scheduled_tasks` | schedule, update state, retry, list per node |
| device agent (`apps/device_agent/main.cpp`) | in memory only: the tasks pulled in this cycle | register, then cycles of heartbeat, pull and, per task, acknowledge, fetch, execute, report |
| device manager, policies, summary (`src/control_plane/`) | `devices`, `policies` | register, heartbeat, list online, pass-through writes |
| backup service (`src/backup/backup_service.cpp`) | `file_records`, `stored_objects`, `backup_records`, `device_file_records`, `scheduled_tasks` | scan, verify, store, record |
| recovery service (`src/backup/recovery_service.cpp`) | `restore_requests`, `scheduled_tasks`, the destination file | submit, run, retry, restore latest |
| shared library (`src/transfer/shared_library_service.cpp`) | `shared_library_entries` with recipients and expiry, the library files, what each node received | publish, invite, receive, retry, mark delivered, clean up |
| metadata store (`src/metadata/metadata_store.cpp`) | all tables (SQLite, or in memory) | upserts with their keys and conflict clauses, queries |
| storage backends (`src/storage/storage_backend.cpp`) | mirror directory, or nothing, or FastDFS | store, restore, remove |
| integrity checker (`src/storage/integrity_checker.cpp`) | none | compare size and hash |
| protocol codec, transport (`src/network/`) | a TCP connection; or two queues in memory | encode, decode, send, receive, close |
| command line tool (`apps/netdisk_cli/main.cpp`) | none; each command is a process on the same database | backup and restore commands, share commands, queries |
| file index, replica manager, audit log, sessions, peers, runtime, demo | rows or memory of their own | queries, appends, wiring |

**Interaction.** `sync_v1` is one process: a server thread announces the remote
root and serves chunks over one TCP connection to a client thread, which pulls
into the local root. The control node is the only server of the second half.
Agents poll it, execute tasks by the services of *their own* runtime, and
report. The tool runs the same services directly on a database, beside
everything else. The SQLite tables are the only shared state and no operation
spans a transaction: each upsert commits alone.

**What is hard here.** Crashes between two of the many single writes; the
`.part` file that several versions share; a source that changes while it is
read; rows keyed by content, so that equal files compete for one row; one
column (`detail`) that carries an argument first and a message later; states
overwritten whatever they were; a task that two agents can pull; messages lost
after they took effect; commands overlapping on one database; entries read,
changed and saved as a whole by several processes; times in seconds; frames cut
anywhere by the socket, and two threads that both block in it.

**What makes each part correct.**

* Sync: a final file is never partial or mixed; a task is committed only after
  its rename; what is recorded can be resumed, and a run that nothing disturbs
  resumes it or fails for one of four reasons; only what differs is asked for; a
  successful run has synced; runs converge.
* Control plane: what is shown as completed or delivered happened on the node
  it is for; a task and its request tell the same; an agent is told what the
  operator gave; tasks follow one life cycle, whoever holds them, and end.
* Backup and recovery: the history names only what was stored; a completed
  backup is whole; a completed restore is exact; the latest version is found;
  what was recorded can be restored.
* Shared library: what is shown as delivered was received, whole and in the
  published version; an active entry has its file until it is overdue; every
  recipient can be retried, and a retry that finds the file delivers it.
* Transport: each direction is a queue of frames; a session ends, and both
  threads agree on how.

## 2. Plan

1. **Sync engine** (done): `SyncChunks`, `SyncV1`, abstract `AtomicPull`;
   proofs of every safety property and of the refinement.
2. **Control plane** (done): `ControlPlane`, abstract `TaskLifecycle`; proofs of
   every safety property and of the refinement.
3. **Backup and recovery** (done): `BackupRecovery`; proofs of every safety
   property.
4. **Shared library** (done): `SharedLibrary`; proofs of every safety property.
5. **Wire** (done): `ProtocolMessages`, `ProtocolCodec`, `SocketTransport`, the
   abstract `FrameQueue`, and their composition with the threads, `SyncSession`;
   proofs of every safety property and of the refinement.
6. **Left**: the in-memory store against the SQLite one; the clock of the
   device registry; policies.

`AtomicPull`, `TaskLifecycle` and `FrameQueue` are the abstract specifications. Modules that
are proved about use no `RECURSIVE` operator. Operators whose comment begins
with "Mutant:" are changed versions of the definition after them, as a
plausible bug would leave it; no specification uses them, they show that
the properties can fail.

## 3. Modules

### Sync engine

`SyncChunks` has the pure parts: files as sequences of bytes, chunks, the
comparison of a file with an announced version (`DiffEngine::Compare`), prefix
counts and prefix bytes, and the upsert of `file_records` with both its keys.
A hash is the content it is of.

`SyncV1` has one action per durable step of `sync_v1`. `cli` and `srv` are the
program counters of the two threads; `cur` is what the client keeps of a request
(with `hashed`, the running hash of `SyncWriter`). Its field `kept` is history, which
only a property looks at: whether, when the task began, the `.part` file was what was
recorded of it.

| Actions | Code |
|---|---|
| `ServerScan`, `ServerListen`, `ServerSendChunk`, `ServerEnd` | server thread: scan, manifest, `accept`, chunk loop, errors |
| `ClientScan`, `ClientScanned`, `ClientConnect`, `ClientGiveUp`, `ClientCompare`, `ClientDone` | client thread up to its list of requests, and its end |
| `BeginTask`, `ReceiveChunks`, `ReceiveFails` | task row, request trimmed to the chunks after the recorded prefix, reply |
| `OpenResume`, `OpenMismatch`, `OpenFresh`, `ClearTaskChunks`, `ResetTask`, `WriterBegin` | `SyncWriter::Resume` or, when it refuses, the reset |
| `AppendChunk`, `ChunkUnavailable`, `MarkChunk`, `SaveProgress` | the chunk loop |
| `EnterVerify`, `CommitFile`, `CommitRefused`, `CatchFailure` | `VerifyAndCommit` and the catch clause |
| `UnmarkChunks`, `FinishTask`, `RefreshRecord`, `StoreTruncate`, `StoreCopy`, `UpsertStoredObject` | after the rename |
| `StartRun`, `MainReturns`, `KillHungRun`, `Crash`, `CrashDuringAppend`, `AppendFails`, `AppendLost`, `RemoteEdit`, `LocalEdit` | the process, the disk, the users |

`AtomicPull` is what the user is promised: a local file changes by its user, or
is replaced in one step by the complete announced version of its path.

### Control plane

`ControlPlane` has the database of the control node, the handler it is in
(`handler`: what is still to be written by the request being served), and every
agent (`agent` is its program counter, `batch` the copies it pulled, `job` the
copy it works on). Requests that the single thread serves in one go are one
action when they write one table; `Then` leaves the second write to a step of
its own, so that a crash (`ControlCrash`) falls between. `Register`,
`Heartbeat`, `PullTasks`, `AckTask`, `Fetch`, `ExecuteOk`, `ExecuteFails`,
`ReportTask`, `AgentSleep` are an agent's cycle; `AckFails`, `FetchFails`,
`ReportLost` what it does when the control node is down, a request is lost or
the reply is. `SubmitBackup`, `SubmitRestore`, `CreateReceiveTask`, `RetryTask`,
`RetryRestore`, `CleanupExpired` are the operators' commands.

The restore that the control node executes itself when it is told to retry one is
the handler's steps `RequeueRequest`, `ExecuteRestore` or `ExecuteWithoutMetadata`,
`StartRestore`, `SettleRequest`, `SettleTask`. Kills and lost messages share one
bound, `MaxFaults`. Five history variables remember what the tables overwrite:
which nodes and details operators gave for a task (`named`, `given`), who executed
it with success (`succeeded`), and which restores have a handler that was killed
(`torn`) or that gave up without the file's metadata (`givenUp`).

`TaskLifecycle` is the promise, seen with those who execute tasks (the agents and
the control node): an executor is handed queued tasks, accepts them one at a time,
ends or forgets each; a state only changes so, or because an operator queues the
task again. Operators may do that at any time, so that several executors can hold
one task.

### Backup and recovery

`BackupRecovery` is one device: the commands `backup-run`, `restore-submit`,
`restore-run`, `restore-retry` and `restore-latest` as processes `bk` and `rs`
over one database, a mirror and the files. A backup goes through `StartBackup`,
`OpenSource`, `ScanFile`, `EndScan`, and per file `VerifyFile`, `StoreFile`
(truncates the object), `EndCopy`, `UpsertStoredObject`, `UpsertBackupRecord`,
`UpsertDeviceFile`, then `CompleteBackup`; a restore through `CheckRestore`,
`RestoreFile`, `EndRestoreFile`, `VerifyRestoredFile`. Users edit files
(`Edit`), processes are killed, copies fail half-way, objects are lost and put
back. Two history variables are for the properties: `newest`, the version of each
name that was backed up last, and `safe`, the files recorded in a mirror from
verified bytes, until another version is scanned at the path their row stands for
or they are stored again.

### Shared library

`SharedLibrary` has the commands as processes `pr[p]` over one database (`row`,
`task`, `known`, `holder`), the source files, the library files and what the
nodes received. A process carries the entry it has read (`got`); saving it is a
later step, so that what others saved in between is overwritten, as in the code.

| Actions | Code |
|---|---|
| `HashSource`, `VerifySource`, `StoreInLibrary`, `EndStore`, `IndexSource`, `PublishEntry` | `PublishFile`: hash, verify, copy over the library file (torn while it lasts), file record, entry without recipients |
| `RetryTask`, `FindRecipient`, `ResetRecipient` | `RetryReceive` up to its call of `ReceiveEntry` |
| `CreateReceiveTask`, `SaveInvitation` | task, then the entry with its recipient |
| `OpenLibraryFile`, `EndCopy`, `MarkFailed`, `RecordReceived`, `UpsertDeviceFile`, `CompleteTask`, `ReadForMark`, `MarkDelivered` | `ReceiveEntry` and `MarkDelivered` |
| `AckTask`, `FetchSharedEntry`, `ReportTaskResult` | the same receive by an agent, with the control node's handlers |
| `ListExpired`, `RemoveLibraryFile`, `MarkExpired` | `CleanupExpired` over the list it read once |
| `RunSharePublish`, `RunShare`, `RunShareReceive`, `RunShareRetry`, `RunShareCleanup`, `SubmitShareReceive`, `RunTransfer` | the commands that start a process |
| `Tick`, `Edit`, `Kill`, `CopyFails`, `LoseFile`, `PutFileBack` | time, users, faults |

`ControlPlane` keeps its own, coarser view of entries, as the control node and
the agents see them among the other tasks.

### Wire

`ProtocolMessages` has what codec and transport share, bytes and the numbers of
the message types. `ProtocolCodec` encodes and decodes messages byte by byte from one table of
their layouts (`Layout`): numbers as digits with a line feed, strings with their
length before them, lists with their count. A decoder that fails yields
`"thrown"`; a frame of an unknown type is passed over undecoded. `SocketTransport` is one TCP connection: `Send` is the frame put
into `out`, `WriteAll` moves what fits into the kernel's buffer (`net`), `Receive`
and `ReadSome` are `ReadExact` over type, size and payload with reads of any
length, `ReadEnd` is the end of the stream. `SyncSession` is `RunServer` and
`RunClient` on top: listen, accept, hello, manifest, requests and chunks, ack,
close, retries to connect, errors on either side. What the client does with its
files is `SyncV1`'s; here any set of files differs, and any set of their chunks
is missing. `FrameQueue` is `InMemoryTransportEndpoint`, a queue of frames:
what each direction of the socket promises.

`SocketTransport` and `SyncSession` know the codec only as two constants,
`Payload` and `Message`; `SyncWire.cfg` gives them the codec's `EncodeMessage` and
`Decode`. What they need of it is `CodecAssumption`: each message of a session is
decoded as it was encoded, and its size fits a word. TLC evaluates it on the
messages of `SyncWire`, and with it what is assumed of the announced files
(`ManifestsAreLists`, and `ChunksAreNumbered`: a chunk's index is its place).

## 4. Runs

| Run | Question | Result |
|---|---|---|
| `SyncCrash` | one file, three versions, two remote edits, two crashes or torn appends anywhere | types, `NeverPartial`, `CommittedInstalled`, `RecordedIsPrefix`, `ProgressMatchesPart`; implements `AtomicPull` |
| `SyncFaulty` | two files of up to two one-byte chunks that may become equal, an edit or deletion on each side, the mirror inside the scanned root, a crash or a failing disk | `RowsAreKeyed`, `FailuresAreExplained`, `UnchangedNotRequested` |
| `SyncQuiet` | nothing crashes, nothing is deleted, contents differ | `DoneMeansSynced`, `ManifestComplete`, `BoundFaithful` |
| `SyncLive` | a crash or exhausted connects, a remote edit, then peace | `Converges` |
| `ControlTasks` | two agents, one of them the owner's; a backup, a restore, a shared entry; submitted and retried at any time; a lost message or a kill | types, `CompletedMeansExecuted`, `DeliveredMeansReceived`, `PulledAsGiven`, `RestoreAgrees`; implements `TaskLifecycle` |
| `ControlRetry` | a backup retried as documented, with a text | **violated**: `PulledBackupHasSource`, the retried backup has no path to back up |
| `ControlLive` | backups and restores pulled twice, retries (with a path or a text) racing executions, missing metadata; no losses | `TasksEnd`, `RegistrationRecovers` |
| `BackupRaces` | equal contents, backups of both files or of one, overlapping commands, an edit, a kill, a full disk, a lost object | types, `HistoryIsGrounded`, `RecordedIsRestorable`, `CompletedBackupIsWhole`, `CompletedRestoreIsExact` |
| `BackupOrderly` | commands one after the other and a second apart, two edits between them, a lost object | `LatestIsNewest`, `RestoreCompletes` |
| `ShareRaces` | two of three commands at a time on one entry and two nodes, a kill or a failing copy, a lost file | types, `DeliveredIsBacked`, `RecipientsRetryable`, `MissingIsOverdue` |
| `ShareOrderly` | three commands one after the other, a retention time that passes, edits between them, a lost file that may be put back | `RecipientAgrees`, `LibraryAgrees`, `RetryDelivers` |
| `SyncWire` | sessions of up to two files with line feeds and digits in the strings, buffers of six bytes, reads and writes cut anywhere, a server or a client that fails | `ChunksAsAsked`, `NothingForTheClosed`, `OutcomesAgree`; implements `FrameQueue` both ways; `SessionEnds` |

**Bounds, and why they are enough.** Chunks have two bytes, files up to two
chunks: empty, a short last chunk, exact multiples, a shared and a differing
chunk, and a version that is the prefix of another all occur. Two remote edits
and two crashes are what the longest known hazard needs (a crash leaves a
`.part` file, the version changes, the resumed transfer is interrupted again);
two files are what sharing a row needs. `SyncFaulty` has chunks of one byte: the
second file, both databases and every fault are in it, and two chunks per file
still put a crash between the append and the mark of each. In the control plane
two nodes are source and target in either role, and both run agents, so that each
task can be held twice; one task of each kind exercises each handler, and one
fault, a lost message or a kill, falls on each step of a request or its retry.
In the backups two files and two or three contents cover
equal contents, a new version, and a return to the old one. In the shared library
one entry with two nodes and three commands, two at a time, is what a lost update
needs (an invitation, a cleanup or publication across it, and a receive); three
commands in a row reach publish, receive, publish again, and a receive that fails
for a lost file, which is put back, and is retried. The end of receive tasks is
`RetryDelivers`', that of the other tasks `ControlLive`'s. On the wire
`Base = 2` keeps bytes at two digits and the line feed, and six bytes of buffer
are fewer than any frame. All counters
(`Max...`) are guards of the environment's actions only; the theorems hold for
every value of them.

**Deadlock** is checked except in `BackupOrderly`, `ShareRaces`, `ShareOrderly`
and `SyncWire`: there all edits, seconds and commands may be used up with nothing
running, which is a user who has stopped, or the one session is over, which
`SessionEnds` tells from a deadlock.

**Symmetry** is used in `BackupRaces` and `ShareRaces` only (contents, nodes or
processes that nothing tells apart; their properties are invariants or speak of
one step).

**Fairness.** `SyncV1`: each thread goes on when it can, the operator starts the
program again and kills one that hangs. That is the scheduler's promise and the
documented use; nothing is assumed of crashes, edits and lost connects.
`ControlPlane`: the control node finishes handlers and is restarted, agents run
their loop; operators' commands are not fair. `BackupRecovery`: a command that
was started goes on; starting one is not fair. `SharedLibrary`: likewise.
`SyncSession`: both threads are scheduled and the kernel moves bytes where there
is room.

## 5. Proofs

Everything here holds for all sets of files, nodes, tasks and contents and for
all bounds, from the named assumptions of the modules. Most theorems have no
hypothesis: where the code keeps a promise with exceptions, the property names
the states that are excepted. Where a theorem has hypotheses they are named below,
they are the circumstances of the run that checks the property, and section 6
shows how it fails without them.

* `SyncV1Proofs`. `SyncInv` is inductive: types and `RecordedIsPrefix`, with
  `Handshake` (the client has requests only after it connected), `Position`
  (at each program counter the recorded chunks are exactly those before the
  next one; without it `MarkChunk` could leave a gap), `WriterOpen` (in the
  states of the writer the `.part` file exists and, on a disk that loses
  nothing, holds what was hashed) and `RowRefreshed` (there is a row to name
  the object). Theorems `TypeCorrect`, `RecordedPrefix`.

  From `SyncInv` follow `CommitAfterRename` (with which task the
  client has renamed), `RowsKeyed`; and, for `~DiskFaults`, `ProgressAgrees`
  (by the length of the `.part` file), `FilesNeverPartial` (`HashMatches` and
  `WriterOpen` make the renamed bytes those announced) and `Refinement`: every
  step of `SyncV1` is a step of `AtomicPull` or leaves its variables alone,
  which needs that everything in `remoteRows` was published. `~DiskFaults` is
  needed: the property fails without it (section 6).
* `SyncV1Runs`, what one run promises. Everything is stated for a run while
  nothing disturbed it; what came before it is arbitrary.
  * `ManifestIsComplete`, if no two files have the same content (`Distinct`).
    `AnnounceInv` adds that the rows of the server hold versions of their paths
    (so that the scan of one file cannot take over another's row) and that the
    files scanned so far have their row.
  * `SuccessMeansSynced`, for `~AllowDelete` only: crashes, lost bytes, local
    edits and equal files included. `DoneInv` follows the run: a row belongs to
    a file that exists, the rows of the scanned paths are fresh, what was hashed
    is what was written, and each announced file is in place, in a request, or
    being written (`Pending`).
  * `OnlyChangesAreAsked` (an action property), without hypotheses. `CompareInv`
    says of every file found by the scan that its row is in the table when the
    comparison reads it, or that another scanned path with the same bytes took
    the row: an equal file, or the object in a mirror below the root.
  * `ObjectsAreFaithful`, without crashes and local edits: a bound object holds
    its bytes except between truncation and copy (`BoundInv`), and what is
    copied is the file that was just renamed.
  * `FailuresHaveCauses`, without hypotheses: whatever crashes, edits and lost
    bytes left, an undisturbed run fails for one of the reasons
    `FailuresAreExplained` names. `FailureInv` says that the server stays up and
    why no step of the client can fail otherwise: the manifest is what the remote
    root holds (`RemoteCurrent`), the server waits for what the client sends next
    (`ServerWaits`), what is asked is what the local file lacks, once per file
    (`AskedOnce`, `RequestsAtHand`, `CurAtHand`), a `.part` file that was what was
    recorded stays so (`PartKept`), and what was hashed, resumed bytes included,
    is the beginning of the announced version (`HashedSoFar`), since a chunk that
    was not asked for is found in the `.part` or in the local file. That there is
    a first chunk a file lacks is an induction, which the library's theorem on
    well-founded minima replaces.
* `ControlPlaneProofs`.
  * `ControlTypes`. The types depend on a fact about processes: agents and
    unfinished handlers only name tasks in the table, which no step removes.
  * `BackupsAsGiven`: the detail of a queued backup is one that an operator gave
    for that task (`QueuedAsGiven`), although acknowledgements, reports and retries
    write to the same column.
  * `CompletionsAreExecuted` and `DeliveriesAreReceived`, from `ExecutionInv`: nobody
    holds a task an operator did not name it for (`Placed`, `PulledByNamed`), no
    success is reported that did not happen (`Reported`, and `HandlerTruthful` for
    the rest of a handler), however late and often a report arrives.
  * `ControlRefinesLifecycle`. `HoldInv` says of each agent and of the handler that
    what is in the batch or in work is what `TaskLifecycle` has waiting and working;
    every step is then one of `TaskLifecycle`, although pulls, acknowledgements and
    reports are lost, repeated and overtaken by retries.
  * `RequestsAgree`. The request and the task are written by separate steps;
    `RestoreInv` says for each step of a handler what is written already
    (`HandlerAgrees`), and between handlers what the two tables show
    (`RequestAgrees`), with the killed and the given up restores as the exceptions.
* `BackupRecoveryProofs`. `Sound` (types; the file at hand was scanned; a
  running restore has its request; an object that was looked up has its key) is
  inductive and gives `BackupTypes` and `RestoresAreExact`, since a request is
  completed only by the verification. `Grounded` and `Progress` (the rows of
  what was scanned point to paths already visited; the files before the current
  one have their record) give `HistoryHolds` and `BackupsAreWhole`. The second
  is subtle: the scan of one file can remove another's row, and only the order
  of the scan (a path visited is not visited again) keeps it.
  `RecordedStaysRestorable` follows from `SafeInv`: a safe file has its row and an
  object that holds it or was lost; the file a backup is about to store is not
  safe, and once it is copied its object holds it or was lost. It has no hypothesis:
  equal files, kills, a full disk and overlapping commands are all in it.
* `BackupRecoveryLatest`: `LatestFound`, for commands that do not overlap and a
  second between backups (`Orderly`), with every fault, if each path is always backed
  up under one name (`OneName`). The property alone is not inductive, because an old
  version that comes back replaces its record: `LatestInv` says that a backup visits
  a path once, that what it records is later than every record it has not written
  itself, and that the newest version of a name has a record later than its others.
* `SharedLibraryProofs`. Neither property of the table is inductive, because a
  process saves an entry it has read earlier over what others saved since. `Inv`
  therefore says of every copy of an entry, in the table (`RowsBacked`), read by
  a process or in the list of a cleanup (`Grounded`), that it is `Backed`: its
  recipients have tasks, and what it shows as delivered has a file. Tasks and
  received files are never removed (`Grows`), so that a stale copy is still
  backed when it is saved. `Formed` and `Grounded` also say what has happened
  before each step of a process: a file before its record, its completed task
  and its delivered recipient; a receive that failed is an agent's, so that a
  report of failure cannot set the flag of the entry. Theorems `SharedTypes`,
  `RecipientsHaveTasks`, `DeliveriesBacked`.

* `SharedLibraryAgreement`. The properties name in the variable `disturbed` what
  they do not stand, so that these theorems have no hypotheses.
  * `MissingEntriesAreOverdue`, for overlapping and killed commands. Entries are
    saved late, but as long as no publication overlaps another command all
    copies of an entry have the file and the time of expiry of the table
    (`ProcessesCurrent`); a cleanup holds only what is overdue, so that every
    other copy of it is overdue too (`OverdueInv`).
  * `RecipientsAgree` and `LibraryFilesAgree`, for commands that run one at a
    time to their end. `SettledInv` says of each recipient and each library file
    that it agrees, or that the command at work is in the steps in which it is
    not yet done (`RecipientsSettled`, `LibrarySettled`), and what that command
    has done at each step: stored what it hashed, received what the entry names
    before recording it, completed the task before marking the recipient
    (`OnCourse`).
* `SyncSessionProofs`, for every buffer, every manifest and every codec that
  satisfies `CodecAssumption`. `Inv` has two halves.
  * `Link` says of each direction that the bytes partly read, in the buffer and
    still to be written are, put together, those of the frames sent and not yet
    received. To put frames together is a recursion, which the provers cannot
    follow; `Cuts` says it by the places where one frame ends and the next
    begins. Each step of the transport then puts a frame into the queue, takes
    the first one out, or leaves the queue alone, wherever writes and reads cut
    the bytes. This is `FramesInOrder`, the refinement of `FrameQueue`.
  * `SessionInv` says where the two threads can be and which frames are on their
    way then (`Conversation`). While chunks are fetched, either none has to come,
    or the request is on its way, or the answers on their way and those still to
    be sent are the last of the chunks asked for, in their order (`Fetching`). Its
    parts were checked on `SyncWire` before they were proved.

  `AskedReceived` follows from `Fetched` (the chunks that came are the first ones
  asked for, with their hashes), `ClosedIsDrained` and `AgreedOutcomes` from
  what can be on its way when a thread closes or fails.

**Only model-checked**: liveness (`Converges`, `TasksEnd`, `RegistrationRecovers`,
`RestoreCompletes`, `RetryDelivers`, `SessionEnds`), which TLAPS does not reach,
and the codec itself, which is recursive as the format is: TLC checks
`CodecAssumption` on the messages of `SyncWire`, the proofs start from it. Every
safety property, action property and refinement the runs check has its theorem.

## 6. Where the code does not keep a promise

`ControlRetry` shows the one disagreement with a documented command. `README.md:315`
says that a failed task can be retried, `README.md:278` how: with a text. The text
replaces the path in the task's `detail` (`src/control_plane/task_scheduler.cpp:30`;
without one the handler writes a default, `src/control_plane/control_node_server.cpp:311`),
and the agent takes it for the path to back up (`apps/device_agent/main.cpp:56`).

**Exceptions a property names.** These states are in the runs, and the property says
of each that nothing else may be wrong. Each exception is needed: without it TLC
finds a counterexample in the same run.

* `FailuresAreExplained`: a crash or a lost append between append and mark leaves a
  `.part` file that is not what was recorded; the next run trims its request, resets
  the transfer and fails for the chunks it did not ask for
  (`apps/sync_v1/main.cpp:291`). `SyncLive` shows that the run after that succeeds. A
  deleted file that is still recorded, and one whose row an equal file took
  (`src/metadata/metadata_store.cpp:838`), fail too.
* `UnchangedNotRequested`: two paths with the same bytes compete for one row, and one
  is fetched again; with the default mirror, inside the scanned root
  (`apps/sync_v1/main.cpp:395`), a file competes with its own object.
* `CompletedMeansExecuted`, `DeliveredMeansReceived`: source and target are both
  handed a task (`src/control_plane/task_scheduler.cpp:56`). When the agent of an
  entry's owner pulls the receive task it receives for itself, and the target is shown
  as delivered, where `docs/nodedisk_3_0_plan.md:237` has the target's agent execute.
  A retried restore is executed by the control node
  (`src/backup/recovery_service.cpp:209`).
* `RestoreAgrees`: a kill between the two writes of a handler leaves task and request
  apart until another handler finishes (`src/control_plane/control_node_server.cpp:347`);
  an early return fails the task but not the request
  (`src/backup/recovery_service.cpp:123`).
* `RecordedIsRestorable`: a backup that is killed after its scan has replaced the row of
  the version that is stored (`src/metadata/metadata_store.cpp:829`), and that version
  can no longer be restored; a backup of an equal file moves the row they share. The
  property excludes exactly the file whose row was at the scanned path.

**Circumstances a run leaves out.** Each of these can be shown again by changing the
constants named in the run's cfg and checking that property alone:

| Change | Property that fails | Why |
|---|---|---|
| `SyncCrash`, `DiskFaults = TRUE` | `NeverPartial` | bytes lost when the stream closes were already hashed, a short file is renamed into place (`src/sync/sync_writer.cpp:72`); `docs/phase1_sync_engine.md:52`: "The final file hash must match metadata before commit." |
| `SyncQuiet`, `MaxFaults = 1`, `MaxLocalEdits = 1` | `BoundFaithful` | an object overwritten in place is torn by a crash (`src/storage/storage_backend.cpp:69`) |
| `SyncQuiet`, `AllowDelete = TRUE`, `MaxLocalEdits = 1` | `DoneMeansSynced` | the row of a deleted file stays, the file is taken for identical (`src/sync/scanner.cpp:32`) |
| `SyncQuiet`, `Content <- Shared`, `Versions <- SharedVersions` | `ManifestComplete` | equal files share a row, one is not announced (`src/metadata/metadata_store.cpp:838`) |
| `ControlLive`, `MaxFaults = 1` | `TasksEnd` | a task whose agent died stays running (`src/control_plane/control_node_server.cpp:501`) |
| `BackupOrderly`, `Orderly = FALSE` | `LatestIsNewest` | two backups in one second tie (`src/backup/recovery_service.cpp:32`) |
| `BackupOrderly`, `Nested = {p1}`, `Sources <- AnySource` | `LatestIsNewest` | a backup of the single file relabels its record with its bare name |
| `ShareOrderly`, `SPECIFICATION Spec`, `Procs = {p1, p2}`, `MaxCommands = 3`, `MaxEdits = 0`, `MaxLosses = 0`, without `disturbed = "no"` in `Settled` | `LibraryAgrees` | an invitation saves the entry it read before a cleanup: active again without a file (`src/transfer/shared_library_service.cpp:172`); `docs/system_design_v2.md:220` promises that cleanup removes the file |
| the same | `RecipientAgrees` | an invitation saves the entry it read before an agent's report: pending, while the task is completed (`src/transfer/shared_library_service.cpp:172`) |
| the same with `MaxEdits = 1` | `RecipientAgrees` | an edit between verification and copy: what is delivered is not `file_id` (`src/transfer/shared_library_service.cpp:124`) |
| `ShareRaces`, without `disturbed # "publisher"` | `MissingIsOverdue` | an entry published again during a cleanup loses its new file (`src/transfer/shared_library_service.cpp:373`) |

Seen in the models, with no property stated:

* a submitted backup overwrites the device row its agent wrote
  (`src/control_plane/control_node_server.cpp:257`); `RegistrationRecovers`
  shows that the agent writes it again;
* a file edited between its verification and its copy spoils its object (the
  restore notices); a failed restore has overwritten its destination; only the
  newest version of a path has a row, so older backup records can never be
  restored;
* a receive that fails leaves its task queued, or completed when it was a replay
  (`src/transfer/shared_library_service.cpp:210`), where
  `docs/distributed_architecture_draft.md:393` wants a task's state to be clear;
  a replay that is killed while it copies leaves a torn file that is still shown
  as delivered;
* what an agent receives is never in the device view of the control node, and
  a new version received on one node removes the file record another node's view
  refers to (`docs/distributed_architecture_draft.md:395`);
* publishing again under an id forgets the recipients and keeps their tasks; the
  entry's `delivered` flag is set by `MarkDelivered` whatever the other
  recipients' states, by a report only when all have it;
* a client that connects to the control node and stays silent blocks it, since
  `Serve` has one thread (`src/control_plane/control_node_server.cpp:190`).

## 7. Limits

* Edits replace a file at once; no power loss (what a process wrote survives
  its crash); errors of SQLite and failures to open or create a `.part` file
  are not modelled; `SQLITE_BUSY` is a kill. Hashes do not collide.
* Sync: only the mirror backend; the order of requests is open, though the code
  goes by path; `retry_count`, messages and error texts are left out, as are
  error replies of the server that its own client cannot provoke.
* Control plane: a service is its success or failure; ids of backups, restores
  and transfers are distinct; of the tool's processes only the cleanup runs
  beside the control node, and it is one step, as are the report's read and
  write of a shared entry and the first writes of a submitted backup. The order
  within a batch is open. The `delivered` flag of an entry is `SharedLibrary`'s;
  policies, the audit log and the clock are left out, and so are clients that
  connect and stay silent.
* Shared library: one library, one display name per entry; one publication at a
  time and one receive per node at a time; the two selects of
  `GetSharedLibraryEntry` are one read; the time handed to the cleanup is the
  clock's; the rows of policies and nodes are left out. An agent's own database
  is left out: nothing reads it back.
* Wire: digits to base two, words of four bytes that are digits or the line feed.
  A payload that does not fit a word is cut by `Send`; `CodecAssumption` says that
  there is none (in the code, of 4 GiB). No connection is reset on the loopback,
  and `NothingForTheClosed` shows that none of the two threads would cause it.
  The hash of a chunk stands for its bytes.
* Backup: one device, at most one backup and one restore at a time, destinations
  apart from sources; a directory is listed at once; which of two tied records
  is taken is open. A command's first writes and its last are one step each.
* Not modelled: the in-memory metadata store (no program reads it), FastDFS and
  other third-party code, file index, replica manager, policies, summary,
  sessions, peers, audit log and demo (no control flow of their own).
