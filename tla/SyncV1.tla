------------------------------- MODULE SyncV1 -------------------------------
(***************************************************************************)
(* sync_v1: one process whose server thread announces the files of the     *)
(* remote root and whose client thread pulls them into the local root.     *)
(*                                                                         *)
(* Every durable write of the client (a row of the local database, bytes   *)
(* of a .part file, a rename, a store object) is a step of its own, so     *)
(* that a crash can fall between any two.  Files on both sides may change  *)
(* at any moment.  The operator runs the program again and again.          *)
(***************************************************************************)
EXTENDS SyncChunks

CONSTANTS
  Content,        \* the contents users put into files
  Versions,       \* Versions[p]: those that file p can have
  AllowDelete,    \* users also delete files
  StoreInRoot,    \* mirror backend with its default place, <local_root>/.sync_store
  DiskFaults,     \* the local disk can fill up or refuse a rename
  MaxRemoteEdits, MaxLocalEdits, MaxFaults   \* bounds on the environment

ASSUME ContentAssumption == Content \subseteq Bytes
ASSUME VersionsAssumption == Versions \in [Paths -> SUBSET Content]
ASSUME FlagsAssumption == /\ AllowDelete \in BOOLEAN
                          /\ StoreInRoot \in BOOLEAN
                          /\ DiskFaults \in BOOLEAN
ASSUME BoundsAssumption == /\ MaxRemoteEdits \in Nat
                           /\ MaxLocalEdits \in Nat
                           /\ MaxFaults \in Nat

VARIABLES
  \* Files.
  remote, final, part,   \* remote root, local root, and p.part beside p
  store,                 \* objects of the mirror backend, by file_id
  \* Databases.
  remoteRows, localRows, \* file_records of the two databases
  task,                  \* sync_tasks of the local database
  taskChunks,            \* sync_task_chunks of the local database
  bound,                 \* file_ids with a stored_objects row
  \* Server thread.
  srv, srvTodo, manifest,
  outstanding,           \* chunks of the current request still to be sent
  \* Client thread.
  cli, cliTodo, requests,
  cur,                   \* the request being worked on
  \* Environment, and what only the properties look at.
  remoteEdits, localEdits, faults,
  disturbed,             \* a file changed, or something failed, during this run
  published,             \* <<content, path>> of every file the remote root ever had
  installed              \* <<content, path>> of every rename onto a final path

files == <<remote, final, part, store>>
localDb == <<localRows, task, taskChunks, bound>>
server == <<remoteRows, srv, srvTodo, manifest, outstanding>>
client == <<cli, cliTodo, requests, cur>>
environment == <<remoteEdits, localEdits, faults, disturbed, published, installed>>
vars == <<files, localDb, server, client, environment>>

TaskIds == Content \X Paths
Announced == Content \cup {NoFile}
NoTask == [state |-> "none", completed |-> 0]
TaskStates == {"none", "running", "verifying", "committed", "failed"}

\* Where the mirror backend puts the object of a file_id.
StoreKey(content) == <<"sync_store", content>>
LocalPaths ==
  IF StoreInRoot THEN Paths \cup {StoreKey(c) : c \in DOMAIN store} ELSE Paths

NoRequest == [path |-> NoFile, content |-> <<>>, missing |-> {}, prefix |-> 0,
              next |-> 0, hashed |-> <<>>, source |-> <<>>, kept |-> TRUE]

\* Program counters of the client from the first write of a request on; in
\* the states of Writing the SyncWriter is active.
Writing == {"write", "mark", "progress", "commit"}
InRequest == Writing \cup {"recv", "open", "clear", "reset", "create", "catch",
                           "unmark", "finish", "refresh", "store", "copy", "bind"}
CliStates == InRequest \cup {"off", "scan", "connect", "hello", "next", "done", "failed"}
SrvStates == {"off", "scan", "listen", "serve", "done", "dead"}

Init ==
  /\ remote \in {f \in [Paths -> Announced] : \A p \in Paths : f[p] \in Versions[p] \cup {NoFile}}
  /\ final \in {f \in [Paths -> Announced] : \A p \in Paths : f[p] \in Versions[p] \cup {NoFile}}
  /\ part = [p \in Paths |-> NoFile]
  /\ store = [c \in {} |-> <<>>]
  /\ remoteRows = {} /\ localRows = {}
  /\ task = [t \in TaskIds |-> NoTask]
  /\ taskChunks = [t \in TaskIds |-> {}]
  /\ bound = {}
  /\ srv = "off" /\ srvTodo = {} /\ outstanding = {}
  /\ manifest = [p \in Paths |-> NoFile]
  /\ cli = "off" /\ cliTodo = {} /\ requests = {} /\ cur = NoRequest
  /\ remoteEdits = 0 /\ localEdits = 0 /\ faults = 0
  /\ disturbed = FALSE /\ installed = {}
  /\ published = {<<remote[p], p>> : p \in {q \in Paths : remote[q] # NoFile}}

-----------------------------------------------------------------------------
(***************************************************************************)
(* The process.                                                            *)
(***************************************************************************)
StartRun ==
  /\ cli = "off"
  /\ cli' = "scan" /\ cliTodo' = LocalPaths
  /\ srv' = "scan" /\ srvTodo' = Paths
  /\ UNCHANGED <<files, localDb, environment, remoteRows, manifest, outstanding,
                 requests, cur>>

\* Everything the two threads hold in memory is gone.
StopProcess ==
  /\ cli' = "off" /\ cliTodo' = {} /\ requests' = {} /\ cur' = NoRequest
  /\ srv' = "off" /\ srvTodo' = {} /\ outstanding' = {}
  /\ manifest' = [p \in Paths |-> NoFile]
  /\ disturbed' = FALSE
  /\ UNCHANGED <<remoteRows, remoteEdits, localEdits, published, installed>>

\* main returns once the server thread has been joined.
MainReturns ==
  /\ cli \in {"done", "failed"} /\ srv \in {"done", "dead"}
  /\ StopProcess
  /\ UNCHANGED <<files, localDb, faults>>

\* The client gave up before the server listened: the server waits in accept
\* and main in join, until the operator ends the process.
KillHungRun ==
  /\ cli = "failed" /\ srv = "listen"
  /\ StopProcess
  /\ UNCHANGED <<files, localDb, faults>>

Crash ==
  /\ cli # "off" /\ faults < MaxFaults
  /\ faults' = faults + 1
  /\ StopProcess
  /\ UNCHANGED <<files, localDb>>

-----------------------------------------------------------------------------
(***************************************************************************)
(* Server thread: RunServer.                                               *)
(***************************************************************************)
\* Mutant: a path that has a row is not scanned again.
ServerScanNewOnly(p) ==
  /\ srv = "scan" /\ p \in srvTodo
  /\ srvTodo' = srvTodo \ {p}
  /\ remoteRows' = IF remote[p] = NoFile \/ HasRow(remoteRows, p) THEN remoteRows
                   ELSE UpsertFile(remoteRows, FileRow(remote[p], p))
  /\ UNCHANGED <<files, localDb, client, environment, srv, manifest, outstanding>>

ServerScan(p) ==
  /\ srv = "scan" /\ p \in srvTodo
  /\ srvTodo' = srvTodo \ {p}
  /\ remoteRows' = IF remote[p] = NoFile THEN remoteRows
                   ELSE UpsertFile(remoteRows, FileRow(remote[p], p))
  /\ UNCHANGED <<files, localDb, client, environment, srv, manifest, outstanding>>

ServerListen ==
  /\ srv = "scan" /\ srvTodo = {}
  /\ manifest' = BuildManifest(remoteRows)
  /\ srv' = "listen"
  /\ UNCHANGED <<files, localDb, client, environment, remoteRows, srvTodo, outstanding>>

\* One chunk of the current request, in order; a source file that no longer
\* holds the announced chunk makes ReadAndVerify throw and ends the thread.
ServerSendChunk ==
  /\ srv = "serve" /\ outstanding # {}
  /\ LET i == CHOOSE j \in outstanding : \A k \in outstanding : j <= k
     IN IF ReadAndVerify(remote[cur.path], cur.content, i)
        THEN outstanding' = outstanding \ {i} /\ srv' = srv
        ELSE srv' = "dead" /\ UNCHANGED outstanding
  /\ UNCHANGED <<files, localDb, client, environment, remoteRows, srvTodo, manifest>>

\* The client's ack, or the end of its connection.
ServerEnd ==
  /\ srv = "serve" /\ cli \in {"done", "failed"}
  /\ srv' = "done"
  /\ UNCHANGED <<files, localDb, client, environment, remoteRows, srvTodo, manifest, outstanding>>

-----------------------------------------------------------------------------
(***************************************************************************)
(* Client thread: RunClient up to the list of requests.                    *)
(***************************************************************************)
LocalFile(path) == IF path \in Paths THEN final[path] ELSE store[path[2]]

ClientScan(path) ==
  /\ cli = "scan" /\ path \in cliTodo
  /\ cliTodo' = cliTodo \ {path}
  /\ localRows' = IF LocalFile(path) = NoFile THEN localRows
                  ELSE UpsertFile(localRows, FileRow(LocalFile(path), path))
  /\ UNCHANGED <<files, task, taskChunks, bound, server, environment, cli, requests, cur>>

ClientScanned ==
  /\ cli = "scan" /\ cliTodo = {}
  /\ cli' = "connect"
  /\ UNCHANGED <<files, localDb, server, environment, cliTodo, requests, cur>>

ClientConnect ==
  /\ cli = "connect" /\ srv = "listen"
  /\ srv' = "serve" /\ cli' = "hello"
  /\ UNCHANGED <<files, localDb, environment, remoteRows, srvTodo, manifest, outstanding,
                 cliTodo, requests, cur>>

\* ConnectWithRetry uses up its attempts while the server is still scanning.
ClientGiveUp ==
  /\ cli = "connect" /\ srv = "scan" /\ faults < MaxFaults
  /\ faults' = faults + 1 /\ disturbed' = TRUE
  /\ cli' = "failed"
  /\ UNCHANGED <<files, localDb, server, cliTodo, requests, cur,
                 remoteEdits, localEdits, published, installed>>

ClientCompare ==
  /\ cli = "hello"
  /\ requests' = Compare(localRows, manifest)
  /\ cli' = "next"
  /\ UNCHANGED <<files, localDb, server, environment, cliTodo, cur>>

\* No request left: the ack is sent and RunClient returns.
ClientDone ==
  /\ cli = "next" /\ requests = {}
  /\ cli' = "done"
  /\ UNCHANGED <<files, localDb, server, environment, cliTodo, requests, cur>>

-----------------------------------------------------------------------------
(***************************************************************************)
(* Client thread: one request.                                             *)
(***************************************************************************)
CurTask == <<cur.content, cur.path>>

SetTask(t, state, completed) ==
  task' = [task EXCEPT ![t] = [state |-> state, completed |-> completed]]

\* The task is saved as running before its recorded chunks are read and the
\* chunks beyond the resumable prefix are asked for.  Only the properties look
\* at kept: does the .part file hold the recorded prefix?
BeginTask(r) ==
  LET content == manifest[r.path]
      t       == <<content, r.path>>
      prefix  == ComputeResumePrefixCount(taskChunks[t], content)
      trimmed == TrimCompletedChunks(r.missing, prefix)
  IN /\ cli = "next" /\ r \in requests
     /\ SetTask(t, "running", task[t].completed)
     /\ outstanding' = trimmed
     /\ cur' = [path |-> r.path, content |-> content, missing |-> trimmed,
                prefix |-> prefix, next |-> 0, hashed |-> <<>>, source |-> <<>>,
                kept |-> prefix = 0 \/ part[r.path] = FirstBytes(content, prefix)]
     /\ requests' = requests \ {r}
     /\ cli' = "recv"
     /\ UNCHANGED <<files, localRows, taskChunks, bound, environment,
                    remoteRows, srv, srvTodo, manifest, cliTodo>>

ReceiveChunks ==
  /\ cli = "recv" /\ outstanding = {}
  /\ cli' = "open"
  /\ UNCHANGED <<files, localDb, server, environment, cliTodo, requests, cur>>

\* End of stream instead of a chunk: thrown outside the try block, so the
\* task stays as it is.
ReceiveFails ==
  /\ cli = "recv" /\ outstanding # {} /\ srv = "dead"
  /\ cli' = "failed"
  /\ UNCHANGED <<files, localDb, server, environment, cliTodo, requests, cur>>

\* What Resume finds in the .part file (an absent one is created empty).
ResumedBytes == IF part[cur.path] = NoFile THEN <<>> ELSE part[cur.path]

\* Mutant: the bytes found are not hashed.
OpenResumeUnhashed ==
  /\ cli = "open" /\ cur.prefix > 0
  /\ Len(ResumedBytes) = ComputePrefixBytes(cur.content, cur.prefix)
  /\ part' = [part EXCEPT ![cur.path] = ResumedBytes]
  /\ SetTask(CurTask, "running", cur.prefix)
  /\ cur' = [cur EXCEPT !.next = cur.prefix]
  /\ cli' = "write"
  /\ UNCHANGED <<remote, final, store, localRows, taskChunks, bound, server, environment,
                 cliTodo, requests>>

\* The .part file is as long as the recorded prefix: carry on behind it.
OpenResume ==
  /\ cli = "open" /\ cur.prefix > 0
  /\ Len(ResumedBytes) = ComputePrefixBytes(cur.content, cur.prefix)
  /\ part' = [part EXCEPT ![cur.path] = ResumedBytes]
  /\ SetTask(CurTask, "running", cur.prefix)
  /\ cur' = [cur EXCEPT !.hashed = ResumedBytes, !.next = cur.prefix]
  /\ cli' = "write"
  /\ UNCHANGED <<remote, final, store, localRows, taskChunks, bound, server, environment,
                 cliTodo, requests>>

\* Mutant: the exception of Resume is not handled.
OpenMismatchThrows ==
  /\ cli = "open" /\ cur.prefix > 0
  /\ Len(ResumedBytes) # ComputePrefixBytes(cur.content, cur.prefix)
  /\ cli' = "failed"
  /\ UNCHANGED <<files, localDb, server, environment, cliTodo, requests, cur>>

\* It is not: remove it and start from chunk 0, though the chunks below the
\* old prefix have not been asked for.
OpenMismatch ==
  /\ cli = "open" /\ cur.prefix > 0
  /\ Len(ResumedBytes) # ComputePrefixBytes(cur.content, cur.prefix)
  /\ part' = [part EXCEPT ![cur.path] = NoFile]
  /\ cli' = "clear"
  /\ UNCHANGED <<remote, final, store, localDb, server, environment, cliTodo, requests, cur>>

OpenFresh ==
  /\ cli = "open" /\ cur.prefix = 0
  /\ cli' = "clear"
  /\ UNCHANGED <<files, localDb, server, environment, cliTodo, requests, cur>>

\* Mutant: the recorded chunks stay.
ClearNothing ==
  /\ cli = "clear"
  /\ cli' = "reset"
  /\ UNCHANGED <<files, localDb, server, environment, cliTodo, requests, cur>>

ClearTaskChunks ==
  /\ cli = "clear"
  /\ taskChunks' = [taskChunks EXCEPT ![CurTask] = {}]
  /\ cli' = "reset"
  /\ UNCHANGED <<files, localRows, task, bound, server, environment, cliTodo, requests, cur>>

ResetTask ==
  /\ cli = "reset"
  /\ SetTask(CurTask, "running", 0)
  /\ cli' = "create"
  /\ UNCHANGED <<files, localRows, taskChunks, bound, server, environment,
                 cliTodo, requests, cur>>

WriterBegin ==
  /\ cli = "create"
  /\ part' = [part EXCEPT ![cur.path] = <<>>]
  /\ cur' = [cur EXCEPT !.hashed = <<>>, !.next = 0, !.prefix = 0]
  /\ cli' = "write"
  /\ UNCHANGED <<remote, final, store, localDb, server, environment, cliTodo, requests>>

-----------------------------------------------------------------------------
(***************************************************************************)
(* Client thread: reconstruction of the file in the .part file.            *)
(***************************************************************************)
MoreToWrite == cli = "write" /\ cur.next < NumChunks(cur.content)

\* The chunk was received, or the local file still holds it.
HaveNextChunk ==
  \/ cur.next \in cur.missing
  \/ /\ HasRow(localRows, cur.path)
     /\ SameChunk(RowOf(localRows, cur.path).file_id, cur.content, cur.next)
     /\ ReadAndVerify(final[cur.path], cur.content, cur.next)

NextChunk == Chunk(cur.content, cur.next)

AppendPart(bytes) == part' = [part EXCEPT ![cur.path] = @ \o bytes]

\* Only a beginning of the chunk reaches the disk.
AppendTorn == \E n \in 0..(Len(NextChunk) - 1) : AppendPart(SubSeq(NextChunk, 1, n))

AppendChunk ==
  /\ MoreToWrite /\ HaveNextChunk
  /\ AppendPart(NextChunk)
  /\ cur' = [cur EXCEPT !.hashed = @ \o NextChunk]
  /\ cli' = "mark"
  /\ UNCHANGED <<remote, final, store, localDb, server, environment, cliTodo, requests>>

ChunkUnavailable ==
  /\ MoreToWrite /\ ~HaveNextChunk
  /\ cli' = "catch"
  /\ UNCHANGED <<files, localDb, server, environment, cliTodo, requests, cur>>

CrashDuringAppend ==
  /\ MoreToWrite /\ HaveNextChunk /\ faults < MaxFaults
  /\ faults' = faults + 1
  /\ AppendTorn
  /\ StopProcess
  /\ UNCHANGED <<remote, final, store, localDb>>

DiskFault == /\ DiskFaults /\ faults < MaxFaults
             /\ faults' = faults + 1 /\ disturbed' = TRUE

\* output.write reports the error: Append throws, the .part file stays.
AppendFails ==
  /\ DiskFault /\ MoreToWrite /\ HaveNextChunk
  /\ AppendTorn
  /\ cli' = "catch"
  /\ UNCHANGED <<remote, final, store, localDb, server, cliTodo, requests, cur,
                 remoteEdits, localEdits, published, installed>>

\* A chunk that fits the stream's buffer is only written when the stream is
\* closed, after output.good() was consulted: the loss goes unnoticed.
AppendLost ==
  /\ DiskFault /\ MoreToWrite /\ HaveNextChunk
  /\ AppendTorn
  /\ cur' = [cur EXCEPT !.hashed = @ \o NextChunk]
  /\ cli' = "mark"
  /\ UNCHANGED <<remote, final, store, localDb, server, cliTodo, requests,
                 remoteEdits, localEdits, published, installed>>

MarkChunk ==
  /\ cli = "mark"
  /\ taskChunks' = [taskChunks EXCEPT ![CurTask] =
                      MarkTaskChunkComplete(@, cur.content, cur.next)]
  /\ cli' = "progress"
  /\ UNCHANGED <<files, localRows, task, bound, server, environment, cliTodo, requests, cur>>

\* Mutant: one chunk too many.
SaveProgressAhead ==
  /\ cli = "progress"
  /\ SetTask(CurTask, "running", cur.next + 2)
  /\ cur' = [cur EXCEPT !.next = @ + 1]
  /\ cli' = "write"
  /\ UNCHANGED <<files, localRows, taskChunks, bound, server, environment, cliTodo, requests>>

SaveProgress ==
  /\ cli = "progress"
  /\ SetTask(CurTask, "running", cur.next + 1)
  /\ cur' = [cur EXCEPT !.next = @ + 1]
  /\ cli' = "write"
  /\ UNCHANGED <<files, localRows, taskChunks, bound, server, environment, cliTodo, requests>>

\* Mutant: committed before the rename.
EnterVerifyCommitted ==
  /\ cli = "write" /\ cur.next = NumChunks(cur.content)
  /\ SetTask(CurTask, "committed", NumChunks(cur.content))
  /\ cli' = "commit"
  /\ UNCHANGED <<files, localRows, taskChunks, bound, server, environment,
                 cliTodo, requests, cur>>

EnterVerify ==
  /\ cli = "write" /\ cur.next = NumChunks(cur.content)
  /\ SetTask(CurTask, "verifying", task[CurTask].completed)
  /\ cli' = "commit"
  /\ UNCHANGED <<files, localRows, taskChunks, bound, server, environment,
                 cliTodo, requests, cur>>

\* Mutant: only the size is verified.
SizeMatches == Len(cur.hashed) = Len(cur.content)

HashMatches == cur.hashed = cur.content

\* VerifyAndCommit: the rename replaces the final file in one step.
CommitFile ==
  /\ cli = "commit" /\ HashMatches
  /\ final' = [final EXCEPT ![cur.path] = part[cur.path]]
  /\ part' = [part EXCEPT ![cur.path] = NoFile]
  /\ installed' = installed \cup {CurTask}
  /\ cli' = "unmark"
  /\ UNCHANGED <<remote, store, localDb, server, cliTodo, requests, cur,
                 remoteEdits, localEdits, faults, disturbed, published>>

CommitRefused ==
  /\ cli = "commit"
  /\ \/ ~HashMatches /\ UNCHANGED <<faults, disturbed>>
     \/ DiskFault
  /\ part' = [part EXCEPT ![cur.path] = NoFile]
  /\ cli' = "catch"
  /\ UNCHANGED <<remote, final, store, localDb, server, cliTodo, requests, cur,
                 remoteEdits, localEdits, published, installed>>

\* catch (...): the task is saved as failed and the run ends.
CatchFailure ==
  /\ cli = "catch"
  /\ SetTask(CurTask, "failed", task[CurTask].completed)
  /\ cli' = "failed"
  /\ UNCHANGED <<files, localRows, taskChunks, bound, server, environment,
                 cliTodo, requests, cur>>

-----------------------------------------------------------------------------
(***************************************************************************)
(* Client thread: after the rename.                                        *)
(***************************************************************************)
UnmarkChunks ==
  /\ cli = "unmark"
  /\ taskChunks' = [taskChunks EXCEPT ![CurTask] = {}]
  /\ cli' = "finish"
  /\ UNCHANGED <<files, localRows, task, bound, server, environment, cliTodo, requests, cur>>

FinishTask ==
  /\ cli = "finish"
  /\ SetTask(CurTask, "committed", NumChunks(cur.content))
  /\ cli' = "refresh"
  /\ UNCHANGED <<files, localRows, taskChunks, bound, server, environment,
                 cliTodo, requests, cur>>

\* Mutant: an existing record is not refreshed.
RefreshNewOnly ==
  /\ cli = "refresh"
  /\ IF final[cur.path] = NoFile
     THEN cli' = "failed" /\ UNCHANGED localRows
     ELSE /\ localRows' = IF HasRow(localRows, cur.path) THEN localRows
                          ELSE UpsertFile(localRows, FileRow(final[cur.path], cur.path))
          /\ cli' = "store"
  /\ UNCHANGED <<files, task, taskChunks, bound, server, environment, cliTodo, requests, cur>>

\* The record is built from what is on disk now; without a file this throws.
RefreshRecord ==
  /\ cli = "refresh"
  /\ IF final[cur.path] = NoFile
     THEN cli' = "failed" /\ UNCHANGED localRows
     ELSE /\ localRows' = UpsertFile(localRows, FileRow(final[cur.path], cur.path))
          /\ cli' = "store"
  /\ UNCHANGED <<files, task, taskChunks, bound, server, environment, cliTodo, requests, cur>>

\* The file_id of the refreshed record names the object.
ObjectId == RowOf(localRows, cur.path).file_id

SetObject(id, bytes) ==
  store' = [c \in DOMAIN store \cup {id} |-> IF c = id THEN bytes ELSE store[c]]

\* copy_file opens the file, truncates the object, and then fills it.
StoreTruncate ==
  /\ cli = "store"
  /\ IF final[cur.path] = NoFile
     THEN cli' = "failed" /\ UNCHANGED <<store, cur>>
     ELSE /\ SetObject(ObjectId, <<>>)
          /\ cur' = [cur EXCEPT !.source = final[cur.path]]
          /\ cli' = "copy"
  /\ UNCHANGED <<remote, final, part, localDb, server, environment, cliTodo, requests>>

StoreCopy ==
  /\ cli = "copy"
  /\ SetObject(ObjectId, cur.source)
  /\ cli' = "bind"
  /\ UNCHANGED <<remote, final, part, localDb, server, environment, cliTodo, requests, cur>>

UpsertStoredObject ==
  /\ cli = "bind"
  /\ bound' = bound \cup {ObjectId}
  /\ cli' = "next" /\ cur' = NoRequest
  /\ UNCHANGED <<files, localRows, task, taskChunks, server, environment, cliTodo, requests>>

-----------------------------------------------------------------------------
(***************************************************************************)
(* Users of the two roots.                                                 *)
(***************************************************************************)
NewContent(p) == Versions[p] \cup (IF AllowDelete THEN {NoFile} ELSE {})

RemoteEdit(p) ==
  /\ remoteEdits < MaxRemoteEdits
  /\ \E c \in NewContent(p) \ {remote[p]} :
       /\ remote' = [remote EXCEPT ![p] = c]
       /\ published' = IF c = NoFile THEN published ELSE published \cup {<<c, p>>}
  /\ remoteEdits' = remoteEdits + 1
  /\ disturbed' = (cli # "off")
  /\ UNCHANGED <<final, part, store, localDb, server, client, localEdits, faults, installed>>

LocalEdit(p) ==
  /\ localEdits < MaxLocalEdits
  /\ \E c \in NewContent(p) \ {final[p]} : final' = [final EXCEPT ![p] = c]
  /\ localEdits' = localEdits + 1
  /\ disturbed' = (cli # "off")
  /\ UNCHANGED <<remote, part, store, localDb, server, client,
                 remoteEdits, faults, published, installed>>

-----------------------------------------------------------------------------
ServerStep == ServerListen \/ ServerSendChunk \/ ServerEnd \/ \E p \in Paths : ServerScan(p)

ClientSetup ==
  \/ \E path \in cliTodo : ClientScan(path)
  \/ ClientScanned \/ ClientConnect \/ ClientCompare \/ ClientDone

ClientTransfer ==
  \/ \E r \in requests : BeginTask(r)
  \/ ReceiveChunks \/ ReceiveFails
  \/ OpenResume \/ OpenMismatch \/ OpenFresh
  \/ ClearTaskChunks \/ ResetTask \/ WriterBegin

ClientWrite ==
  \/ AppendChunk \/ ChunkUnavailable \/ MarkChunk \/ SaveProgress
  \/ EnterVerify \/ CommitFile \/ CommitRefused \/ CatchFailure

ClientPublish ==
  \/ UnmarkChunks \/ FinishTask \/ RefreshRecord
  \/ StoreTruncate \/ StoreCopy \/ UpsertStoredObject

ClientStep == ClientSetup \/ ClientTransfer \/ ClientWrite \/ ClientPublish

Faults == ClientGiveUp \/ Crash \/ CrashDuringAppend \/ AppendFails \/ AppendLost

Users == \E p \in Paths : RemoteEdit(p) \/ LocalEdit(p)

Next == StartRun \/ MainReturns \/ KillHungRun \/ ServerStep \/ ClientStep \/ Faults \/ Users

Spec == Init /\ [][Next]_vars

(***************************************************************************)
(* Both threads run when they can, and the operator keeps starting the     *)
(* program and ends one that hangs.  Crashes, edits, disk faults and the   *)
(* exhaustion of the connect attempts are never obliged to happen.         *)
(***************************************************************************)
Fairness == /\ WF_vars(ServerStep) /\ WF_vars(ClientStep)
            /\ WF_vars(StartRun) /\ WF_vars(MainReturns) /\ WF_vars(KillHungRun)

FairSpec == Spec /\ Fairness

-----------------------------------------------------------------------------
(***************************************************************************)
(* Properties.                                                             *)
(***************************************************************************)
MaybeBytes == Bytes \cup {NoFile}

Request == [path : Paths, missing : SUBSET Nat]

Work == [path : Paths, content : Content, missing : SUBSET Nat, prefix : Nat,
         next : Nat, hashed : Bytes, source : Bytes, kept : BOOLEAN]

FilesOK ==
  /\ remote \in [Paths -> Announced]
  /\ final \in [Paths -> MaybeBytes]
  /\ part \in [Paths -> MaybeBytes]
  /\ DOMAIN store \subseteq Bytes /\ \A c \in DOMAIN store : store[c] \in Bytes

LocalDbOK ==
  /\ \A r \in localRows : r.file_id \in Bytes
  /\ task \in [TaskIds -> [state : TaskStates, completed : Nat]]
  /\ \A t \in TaskIds : task[t].completed <= NumChunks(t[1])
  /\ taskChunks \in [TaskIds -> SUBSET (Nat \X Bytes)]
  /\ bound \subseteq Bytes

ServerOK ==
  /\ \A r \in remoteRows : r.file_id \in Content
  /\ srv \in SrvStates /\ srvTodo \subseteq Paths
  /\ manifest \in [Paths -> Announced]
  /\ outstanding \subseteq Nat

ScanOK ==
  \A path \in cliTodo : path \in Paths \/ \E c \in DOMAIN store : path = StoreKey(c)

ClientOK ==
  /\ cli \in CliStates
  /\ requests \subseteq Request
  /\ \A r \in requests : manifest[r.path] \in Content
  /\ cli \in InRequest => cur \in Work /\ cur.content = manifest[cur.path]

EnvironmentOK ==
  /\ remoteEdits \in Nat /\ localEdits \in Nat /\ faults \in Nat
  /\ disturbed \in BOOLEAN
  /\ published \subseteq TaskIds /\ installed \subseteq TaskIds

\* Types of all variables.  A task never reports more completed chunks than
\* its file has, and the client works on an announced version of a file.
TypeOK == FilesOK /\ LocalDbOK /\ ServerOK /\ ScanOK /\ ClientOK /\ EnvironmentOK

\* "No file corruption if a node exits during transfer": whatever crashes,
\* version changes and interrupted transfers came before, a file in the local
\* root is one that a user made, never a torn or mixed one.
NeverPartial == \A p \in Paths : final[p] \in Announced

\* "Metadata is updated to ready only after rename succeeds": a task that is
\* recorded as committed has put its version in place.
CommittedInstalled ==
  \A t \in TaskIds : task[t].state = "committed" => t \in installed

\* In either database a path and a file_id identify at most one row, although
\* rows are redirected when the same content turns up at another path.
RowsAreKeyed ==
  \A rows \in {remoteRows, localRows} : \A r, s \in rows :
    r.path = s.path \/ r.file_id = s.file_id => r = s

\* The first n chunks of content, as sync_task_chunks records them.
FirstChunks(content, n) == {<<i, Chunk(content, i)>> : i \in 0..(n - 1)}

\* The chunks recorded for a task are, whatever was interrupted, the first few
\* chunks of its file without a gap, so that counting them up to the first
\* absent one (ComputeResumePrefixCount) never skips recorded work.
RecordedIsPrefix ==
  \A t \in TaskIds : \E n \in 0..NumChunks(t[1]) : taskChunks[t] = FirstChunks(t[1], n)

\* While the client writes, the recorded chunks are exactly those before the
\* next one (or up to it, just after it was marked), and the .part file is
\* as long as they are together, so an interruption here can be resumed.
ProgressMatchesPart ==
  cli \in {"write", "progress"} =>
    LET n == IF cli = "write" THEN cur.next ELSE cur.next + 1
    IN /\ ComputeResumePrefixCount(taskChunks[CurTask], cur.content) = n
       /\ Len(part[cur.path]) = ComputePrefixBytes(cur.content, n)

\* A run that reports success has every announced file in the local root,
\* unless users changed files while it ran.
DoneMeansSynced ==
  cli = "done" /\ ~disturbed =>
    \A p \in Paths : manifest[p] # NoFile => final[p] = manifest[p]

\* "Only the missing parts are transferred": an undisturbed run asks for a
\* file that the local root already has in the announced version only if what
\* it scanned holds the same bytes at another path, too, which took the row of
\* the file over: an equal file, or its own object in a mirror below the root.
UnchangedNotRequested ==
  [][cli = "hello" /\ cli' = "next" /\ ~disturbed =>
       \A r \in requests' : final[r.path] = manifest[r.path] =>
         \E x \in LocalPaths \ {r.path} : LocalFile(x) = final[r.path]]_vars

\* "An interrupted transfer can be resumed": whatever crashes, edits and lost
\* bytes came before, a run during which nothing changes and nothing breaks
\* fails only over a file whose .part is not what was recorded of it (an
\* append whose mark was lost), which was deleted from one of the roots but is
\* still recorded there, or whose bytes another local file has as well.
FailuresAreExplained ==
  cli = "failed" /\ ~disturbed =>
    \/ ~cur.kept
    \/ NoFile \in {final[cur.path], remote[cur.path]}
    \/ \E q \in Paths \ {cur.path} : final[q] = final[cur.path]

\* "Scanner ... builds a file manifest": what the server announces contains
\* every file of the remote root.
ManifestComplete ==
  srv \in {"listen", "serve"} /\ ~disturbed =>
    \A p \in Paths : remote[p] # NoFile => manifest[p] = remote[p]

\* Between runs, every stored_objects row names an object that holds the bytes
\* of its file_id.
BoundFaithful == cli = "off" => \A c \in bound : c \in DOMAIN store /\ store[c] = c

\* Once files stop changing and crashes stop, repeated runs bring every remote
\* file into the local root, whatever half-done state the crashes left.
Converges == <>[](\A p \in Paths : remote[p] # NoFile => final[p] = remote[p])

\* The files behave as AtomicPull promises: a final file is replaced only by
\* the complete announced version of its path, in one step.
Pull == INSTANCE AtomicPull WITH local <- final, offered <- manifest

ImplementsAtomicPull == Pull!Spec
=============================================================================
