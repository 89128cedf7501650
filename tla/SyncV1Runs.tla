----------------------------- MODULE SyncV1Runs -----------------------------
(***************************************************************************)
(* Proofs of what one run of sync_v1 promises: the manifest is complete, a *)
(* run that reports success has synchronised every announced file, what is *)
(* up to date is not asked for, the stored objects are those of their      *)
(* file_ids, and a run that nothing disturbs fails only for the reasons    *)
(* that are named.  Where a theorem has hypotheses, they are circumstances *)
(* without which the code does not keep the promise.                       *)
(***************************************************************************)
EXTENDS SyncV1Proofs, WellFoundedInduction

\* No two files of the two roots ever have the same content, so that no two
\* files share a row of file_records.
Distinct == \A p, q \in Paths : p # q => Versions[p] \cap Versions[q] = {}

VersionsOf(p) == Versions[p] \cup {NoFile}

\* A version is never the absence of a file.
LEMMA VersionsAreFiles ==
  ASSUME NEW p \in Paths
  PROVE  Versions[p] \subseteq Content /\ NoFile \notin Versions[p] /\ NoFile \notin Content
  BY VersionsAssumption, ContentAssumption, NoFileAssumption DEF Bytes

\* A user's edit leaves one of the versions, or nothing.
LEMMA EditsAreVersions ==
  ASSUME NEW p \in Paths
  PROVE  NewContent(p) \subseteq VersionsOf(p)
  BY DEF NewContent, VersionsOf

\* The ways in which the process ends.
Stops == MainReturns \/ KillHungRun \/ Crash \/ CrashDuringAppend

\* The end of the process leaves the databases, the objects and both roots as
\* they are; only a .part file can be torn.
LEMMA StopsLeave ==
  ASSUME Stops
  PROVE  /\ StopProcess
         /\ UNCHANGED <<remote, final, store, localRows, task, taskChunks, bound>>
  BY DEF Stops, MainReturns, KillHungRun, Crash, CrashDuringAppend, files, localDb

\* Besides the steps named here, none changes what the server thread knows
\* and the remote root, and none makes a disturbed run an undisturbed one.
LEMMA ServerFrame ==
  ASSUME [Next]_vars, ~StartRun, ~Stops, ~ServerListen, ~ServerSendChunk, ~ServerEnd,
         ~ClientConnect, ~(\E p \in Paths : ServerScan(p) \/ RemoteEdit(p) \/ LocalEdit(p))
  PROVE  /\ UNCHANGED <<srv, srvTodo, remote, remoteRows, manifest>>
         /\ disturbed' = disturbed \/ disturbed' = TRUE
<1> USE DEF files, environment, server
<1>1. CASE MainReturns \/ KillHungRun
  BY <1>1 DEF Stops
<1>2. CASE ServerStep
  BY <1>2 DEF ServerStep
<1>3. CASE ClientSetup
  BY <1>3 DEF ClientSetup, ClientScan, ClientScanned, ClientCompare, ClientDone
<1>4. CASE ClientTransfer
  BY <1>4 DEF ClientTransfer, BeginTask, OpenResume, ResetTask, ReceiveChunks, ReceiveFails,
     OpenMismatch, OpenFresh, ClearTaskChunks, WriterBegin
<1>5. CASE ClientWrite
  BY <1>5 DEF ClientWrite, AppendChunk, ChunkUnavailable, MarkChunk, SaveProgress, EnterVerify,
     CommitFile, CommitRefused, CatchFailure, DiskFault
<1>6. CASE ClientPublish
  BY <1>6 DEF ClientPublish, UnmarkChunks, FinishTask, RefreshRecord, StoreTruncate, StoreCopy,
     UpsertStoredObject
<1>7. CASE Faults
  BY <1>7 DEF Faults, Stops, ClientGiveUp, AppendFails, AppendLost, DiskFault
<1>8. CASE Users
  BY <1>8 DEF Users
<1>9. CASE UNCHANGED vars
  BY <1>9 DEF vars
<1> QED
  BY <1>1, <1>2, <1>3, <1>4, <1>5, <1>6, <1>7, <1>8, <1>9 DEF Next, ClientStep

-----------------------------------------------------------------------------
(***************************************************************************)
(* The manifest.                                                           *)
(***************************************************************************)
RemoteVersions ==
  /\ \A p \in Paths : remote[p] \in VersionsOf(p)
  /\ \A r \in remoteRows : r.path \in Paths /\ r.file_id \in Versions[r.path]

\* In an undisturbed run each file that was scanned has its row.
RemoteScanned ==
  srv = "scan" /\ ~disturbed =>
    \A p \in Paths \ srvTodo : remote[p] # NoFile => FileRow(remote[p], p) \in remoteRows

AnnounceInv == RemoteVersions /\ RemoteScanned /\ ManifestComplete

\* UpsertFile keeps the row of a file with another path and another content.
LEMMA UpsertKeepsOthers ==
  ASSUME NEW rows, NEW c, NEW d, NEW p, NEW q, FileRow(c, p) \in rows, p # q, c # d
  PROVE  FileRow(c, p) \in UpsertFile(rows, FileRow(d, q))
  BY DEF FileRow, UpsertFile

\* Where paths identify rows, the row of a path is the one that is there.
LEMMA RowIsFound ==
  ASSUME NEW rows, Keyed(rows), NEW c, NEW p, FileRow(c, p) \in rows
  PROVE  HasRow(rows, p) /\ RowOf(rows, p).file_id = c
<1>1. FileRow(c, p).path = p /\ FileRow(c, p).file_id = c
  BY DEF FileRow
<1>2. HasRow(rows, p)
  BY <1>1 DEF HasRow
<1>3. RowOf(rows, p) \in rows /\ RowOf(rows, p).path = p
  BY <1>2 DEF HasRow, RowOf
<1> QED
  BY <1>1, <1>2, <1>3 DEF Keyed

\* The scan of a file writes its row and leaves those of the other files.
LEMMA ServerScanAdds ==
  ASSUME Distinct, AnnounceInv, NEW p \in Paths, ServerScan(p)
  PROVE  AnnounceInv'
<1>1. /\ srv = "scan" /\ srvTodo' = srvTodo \ {p}
      /\ UNCHANGED <<remote, srv, manifest, disturbed>>
      /\ remoteRows' = IF remote[p] = NoFile THEN remoteRows
                       ELSE UpsertFile(remoteRows, FileRow(remote[p], p))
  BY DEF ServerScan, files, environment
<1>2. RemoteVersions'
  <2>1. \A r \in remoteRows' : r \in remoteRows \/ (remote[p] # NoFile /\ r = FileRow(remote[p], p))
    BY <1>1 DEF UpsertFile
  <2>2. FileRow(remote[p], p).path = p /\ FileRow(remote[p], p).file_id = remote[p]
    BY DEF FileRow
  <2> QED
    BY <1>1, <2>1, <2>2 DEF AnnounceInv, RemoteVersions, VersionsOf
<1>3. ASSUME NEW q \in Paths, q \notin srvTodo', remote[q] # NoFile, ~disturbed
      PROVE  FileRow(remote[q], q) \in remoteRows'
  <2>1. CASE q = p
    BY <1>1, <1>3, <2>1 DEF UpsertFile
  <2>2. CASE q # p
    <3>1. FileRow(remote[q], q) \in remoteRows
      BY <1>1, <1>3, <2>2 DEF AnnounceInv, RemoteScanned
    <3>2. remote[q] # remote[p]
      BY <1>3, <2>2 DEF Distinct, AnnounceInv, RemoteVersions, VersionsOf
    <3> QED
      BY <1>1, <2>2, <3>1, <3>2, UpsertKeepsOthers
  <2> QED
    BY <2>1, <2>2
<1> QED
  BY <1>1, <1>2, <1>3 DEF AnnounceInv, RemoteScanned, ManifestComplete

\* The manifest is built from the rows when every path has been scanned.
LEMMA ServerListenAnnounces ==
  ASSUME AnnounceInv, Keyed(remoteRows), ServerListen
  PROVE  AnnounceInv'
<1>1. /\ srv = "scan" /\ srvTodo = {} /\ srv' = "listen"
      /\ UNCHANGED <<remote, remoteRows, disturbed>>
      /\ manifest' = BuildManifest(remoteRows)
  BY DEF ServerListen, files, environment
<1>2. ASSUME NEW p \in Paths, ~disturbed, remote[p] # NoFile
      PROVE  manifest'[p] = remote[p]
  <2>1. FileRow(remote[p], p) \in remoteRows
    BY <1>1, <1>2 DEF AnnounceInv, RemoteScanned
  <2>2. HasRow(remoteRows, p) /\ RowOf(remoteRows, p).file_id = remote[p]
    BY <2>1, RowIsFound
  <2> QED
    BY <1>1, <2>2 DEF BuildManifest
<1> QED
  BY <1>1, <1>2 DEF AnnounceInv, RemoteVersions, RemoteScanned, ManifestComplete

\* Edits disturb a run; between runs there is nothing to disturb.
LEMMA EditsKeepAnnounceInv ==
  ASSUME SyncInv, AnnounceInv, NEW p \in Paths, RemoteEdit(p) \/ LocalEdit(p)
  PROVE  AnnounceInv'
<1>1. /\ UNCHANGED <<remoteRows, srv, srvTodo, manifest, cli>>
      /\ disturbed' = (cli # "off")
  BY DEF RemoteEdit, LocalEdit, server, client
<1>2. disturbed' \/ srv' = "off"
  BY <1>1 DEF SyncInv, IndInv, Handshake
<1>3. \A q \in Paths : remote'[q] \in VersionsOf(q)
  <2>1. CASE RemoteEdit(p)
    <3>1. PICK c \in NewContent(p) : remote' = [remote EXCEPT ![p] = c]
      BY <2>1 DEF RemoteEdit
    <3> QED
      BY <3>1, EditsAreVersions DEF AnnounceInv, RemoteVersions, SyncInv, IndInv, TypeOK, FilesOK
  <2>2. CASE LocalEdit(p)
    BY <2>2 DEF LocalEdit, AnnounceInv, RemoteVersions
  <2> QED
    BY <2>1, <2>2
<1> QED
  BY <1>1, <1>2, <1>3 DEF AnnounceInv, RemoteVersions, RemoteScanned, ManifestComplete

\* Every step keeps the invariant of the announcement.
LEMMA NextAnnounce ==
  ASSUME Distinct
  PROVE  SyncInv /\ RowsAreKeyed /\ AnnounceInv /\ [Next]_vars => AnnounceInv'
<1> SUFFICES ASSUME SyncInv, RowsAreKeyed, AnnounceInv, [Next]_vars
             PROVE  AnnounceInv'
  OBVIOUS
<1>1. CASE StartRun
  <2>1. UNCHANGED <<remote, remoteRows>> /\ srvTodo' = Paths /\ srv' = "scan"
    BY <1>1 DEF StartRun, files
  <2> QED
    BY <2>1 DEF AnnounceInv, RemoteVersions, RemoteScanned, ManifestComplete
<1>2. CASE Stops
  <2>1. remoteRows' = remoteRows /\ srv' = "off" /\ remote' = remote
    BY <1>2, StopsLeave DEF StopProcess
  <2> QED
    BY <2>1 DEF AnnounceInv, RemoteVersions, RemoteScanned, ManifestComplete
<1>3. CASE ServerListen
  BY <1>3, ServerListenAnnounces DEF RowsAreKeyed, Keyed
<1>4. CASE ServerSendChunk \/ ServerEnd \/ ClientConnect
  <2>1. /\ UNCHANGED <<remote, remoteRows, manifest, disturbed>>
        /\ srv' \in {"serve", "dead", "done"} /\ srv \in {"listen", "serve"}
    BY <1>4 DEF ServerSendChunk, ServerEnd, ClientConnect, files, environment
  <2> QED
    BY <2>1 DEF AnnounceInv, RemoteVersions, RemoteScanned, ManifestComplete
<1>5. ASSUME NEW p \in Paths, ServerScan(p) \/ RemoteEdit(p) \/ LocalEdit(p)
      PROVE  AnnounceInv'
  BY <1>5, ServerScanAdds, EditsKeepAnnounceInv
<1>6. CASE /\ UNCHANGED <<srv, srvTodo, remote, remoteRows, manifest>>
           /\ disturbed' = disturbed \/ disturbed' = TRUE
  BY <1>6 DEF AnnounceInv, RemoteVersions, RemoteScanned, ManifestComplete
<1> QED
  BY <1>1, <1>2, <1>3, <1>4, <1>5, <1>6, ServerFrame

\* The announcement invariant holds initially.
LEMMA InitAnnounce == Init => AnnounceInv
  BY DEF Init, AnnounceInv, RemoteVersions, RemoteScanned, ManifestComplete, VersionsOf

\* When no two files have the same content, what the server announces in an
\* undisturbed run contains every file of the remote root, whatever earlier
\* versions and deleted files left in its database.
THEOREM ManifestIsComplete ==
  ASSUME Distinct
  PROVE  Spec => []ManifestComplete
<1>1. AnnounceInv => ManifestComplete
  BY DEF AnnounceInv
<1> QED
  BY <1>1, InitAnnounce, NextAnnounce, SyncInvariant, RowsKeyed, PTL DEF Spec

-----------------------------------------------------------------------------
(***************************************************************************)
(* Steps of the client.                                                    *)
(***************************************************************************)
Comparing == {"scan", "connect", "hello"}
BeforeCommit == Writing \cup {"recv", "open", "clear", "reset", "create", "catch"}
AfterCommit == {"unmark", "finish", "refresh", "store", "copy", "bind"}

\* Nobody has changed the local root during this run.
Steady == ~disturbed \/ MaxLocalEdits = 0

AllScanned == cli \in {"connect", "hello"} => cliTodo = {}

\* The steps of a request on its way to the rename, the rename excepted.
Carries ==
  \/ ReceiveChunks \/ OpenResume \/ OpenMismatch \/ OpenFresh
  \/ ClearTaskChunks \/ ResetTask \/ WriterBegin
  \/ AppendChunk \/ ChunkUnavailable \/ MarkChunk \/ SaveProgress \/ EnterVerify
  \/ CommitRefused \/ AppendFails \/ AppendLost

\* The steps with which a run fails.
Fails == ClientGiveUp \/ ReceiveFails \/ CatchFailure

\* After the rename, the steps that neither fail nor write the record.
Tidies == UnmarkChunks \/ FinishTask \/ StoreTruncate \/ StoreCopy

\* Steps that leave the client's variables and the local root alone.
Elsewhere == ServerStep \/ UNCHANGED vars

\* On its way to the rename a request stays the one being worked on.
LEMMA CarriesKeeps ==
  ASSUME SyncInv, Carries
  PROVE  /\ cli \in BeforeCommit /\ cli' \in BeforeCommit
         /\ cur'.path = cur.path /\ cur'.content = cur.content /\ cur'.missing = cur.missing
         /\ cur'.kept = cur.kept
         /\ UNCHANGED <<remote, final, store, localRows, bound, manifest, remoteRows, srv,
                        outstanding, cliTodo, requests, localEdits, remoteEdits>>
         /\ disturbed' = disturbed \/ disturbed' = TRUE
<1> USE DEF BeforeCommit, Writing, InRequest, files, localDb, server, environment, DiskFault
<1>1. cli \in BeforeCommit /\ cur \in Work
  BY CurIsTyped DEF SyncInv, Carries, ReceiveChunks, OpenResume, OpenMismatch, OpenFresh,
     ClearTaskChunks, ResetTask, WriterBegin, AppendChunk, ChunkUnavailable, MarkChunk,
     SaveProgress, EnterVerify, CommitRefused, AppendFails, AppendLost, MoreToWrite
<1>2. CASE ReceiveChunks \/ OpenResume \/ OpenMismatch \/ OpenFresh
           \/ ClearTaskChunks \/ ResetTask \/ WriterBegin
  BY <1>1, <1>2 DEF ReceiveChunks, OpenResume, OpenMismatch, OpenFresh, ClearTaskChunks, ResetTask,
     WriterBegin, Work
<1>3. CASE AppendChunk \/ ChunkUnavailable \/ MarkChunk \/ SaveProgress \/ EnterVerify
  BY <1>1, <1>3 DEF AppendChunk, ChunkUnavailable, MarkChunk, SaveProgress, EnterVerify, Work
<1>4. CASE CommitRefused \/ AppendFails \/ AppendLost
  BY <1>1, <1>4 DEF CommitRefused, AppendFails, AppendLost, Work
<1> QED
  BY <1>2, <1>3, <1>4 DEF Carries

\* A run that fails stops working on its requests and changes no file.
LEMMA FailsKeeps ==
  ASSUME Fails
  PROVE  /\ cli' = "failed"
         /\ cli \in {"connect", "recv", "catch"}
         /\ UNCHANGED <<remote, final, part, store, localRows, taskChunks, bound, manifest,
                        remoteRows, srv, outstanding, cliTodo, requests, cur>>
         /\ disturbed' = disturbed \/ disturbed' = TRUE
  BY DEF Fails, ClientGiveUp, ReceiveFails, CatchFailure, files, localDb, server, environment

\* The steps after the rename.
LEMMA TidiesKeeps ==
  ASSUME SyncInv, Tidies
  PROVE  /\ cli \in AfterCommit
         /\ cli' \in AfterCommit \cup {"failed"}
         /\ cur'.path = cur.path /\ cur'.content = cur.content
         /\ UNCHANGED <<remote, final, part, localRows, bound, manifest, remoteRows, srv,
                        outstanding, cliTodo, requests, disturbed>>
<1> USE DEF AfterCommit, InRequest, files, localDb, server, environment
<1>1. cli \in AfterCommit /\ cur \in Work
  BY CurIsTyped DEF SyncInv, Tidies, UnmarkChunks, FinishTask, StoreTruncate, StoreCopy
<1> QED
  BY <1>1 DEF Tidies, UnmarkChunks, FinishTask, StoreTruncate, StoreCopy, Work

\* Steps of the server and stuttering.
LEMMA ElsewhereKeeps ==
  ASSUME SyncInv, Elsewhere
  PROVE  /\ UNCHANGED <<remote, final, part, store, localRows, taskChunks, bound, cli, cliTodo,
                        requests, cur, disturbed>>
         /\ srv \in {"listen", "serve", "done", "dead"} => manifest' = manifest
         /\ cli \in InRequest \cup {"next", "hello", "done"} => manifest' = manifest
<1> USE DEF files, localDb, server, client, environment
<1>1. CASE ServerStep
  <2>1. /\ UNCHANGED <<remote, final, part, store, localRows, taskChunks, bound, cli, cliTodo,
                       requests, cur, disturbed>>
        /\ srv # "scan" => manifest' = manifest
    BY <1>1 DEF ServerStep, ServerScan, ServerListen, ServerSendChunk, ServerEnd
  <2>2. cli \in InRequest \cup {"next", "hello", "done"} => srv # "scan"
    BY DEF SyncInv, IndInv, Handshake, InRequest, Writing
  <2> QED
    BY <2>1, <2>2
<1>2. CASE UNCHANGED vars
  BY <1>2 DEF vars
<1> QED
  BY <1>1, <1>2 DEF Elsewhere

\* All steps, by what they do to the client and the local root.
LEMMA ClientCases ==
  ASSUME [Next]_vars
  PROVE  \/ StartRun \/ Stops \/ Elsewhere \/ Carries \/ Fails \/ Tidies
         \/ \E path \in cliTodo : ClientScan(path)
         \/ ClientScanned \/ ClientConnect \/ ClientCompare \/ ClientDone
         \/ \E r \in requests : BeginTask(r)
         \/ CommitFile \/ RefreshRecord \/ UpsertStoredObject
         \/ \E p \in Paths : RemoteEdit(p) \/ LocalEdit(p)
  BY DEF Next, ClientStep, ClientSetup, ClientTransfer, ClientWrite, ClientPublish, Faults, Users,
     Stops, Elsewhere, Carries, Fails, Tidies

-----------------------------------------------------------------------------
(***************************************************************************)
(* A run that reports success.                                             *)
(***************************************************************************)
\* A file that has a row exists.
RowsHaveFiles == \A r \in localRows : r.path \in Paths => final[r.path] # NoFile

\* The row of a path that was scanned is that of the file.
RowsAreFresh ==
  cli \in Comparing /\ Steady =>
    \A r \in localRows : r.path \in Paths \ cliTodo => r.file_id = final[r.path]

\* Lost bytes disturb the run; otherwise what was hashed is what was written.
HashedIsPart == cli \in Writing /\ ~disturbed => part[cur.path] = cur.hashed

StillAsked(p) == (\E r \in requests : r.path = p) \/ (cli \in BeforeCommit /\ cur.path = p)

\* What is announced is in place or will be asked for.
Pending ==
  cli \in InRequest \cup {"next"} /\ ~disturbed =>
    \A p \in Paths : manifest[p] # NoFile => final[p] = manifest[p] \/ StillAsked(p)

DoneInv ==
  /\ AllScanned /\ RowsHaveFiles /\ RowsAreFresh
  /\ HashedIsPart /\ Pending /\ DoneMeansSynced

\* The scan of a path replaces its row by that of the file.
LEMMA ClientScanRefreshes ==
  ASSUME DoneInv, NEW path \in cliTodo, ClientScan(path)
  PROVE  DoneInv'
<1>1. /\ cli = "scan" /\ cli' = "scan" /\ cliTodo' = cliTodo \ {path}
      /\ UNCHANGED <<final, disturbed>>
      /\ localRows' = IF LocalFile(path) = NoFile THEN localRows
                      ELSE UpsertFile(localRows, FileRow(LocalFile(path), path))
  BY DEF ClientScan, files, environment
<1>2. path \in Paths => LocalFile(path) = final[path]
  BY DEF LocalFile
<1>3. \A r \in localRows' : \/ r \in localRows /\ (LocalFile(path) # NoFile => r.path # path)
                            \/ /\ LocalFile(path) # NoFile
                               /\ r.path = path /\ r.file_id = LocalFile(path)
  BY <1>1 DEF UpsertFile, FileRow
<1>4. RowsHaveFiles'
  BY <1>1, <1>2, <1>3 DEF DoneInv, RowsHaveFiles
<1>5. RowsAreFresh'
  BY <1>1, <1>2, <1>3 DEF DoneInv, RowsHaveFiles, RowsAreFresh, Steady, Comparing
<1> QED
  BY <1>1, <1>4, <1>5
     DEF DoneInv, AllScanned, HashedIsPart, Pending, DoneMeansSynced, InRequest, Writing

\* What the comparison does not ask for is there already.
LEMMA ComparePends ==
  ASSUME DoneInv, ClientCompare
  PROVE  DoneInv'
<1>1. /\ cli = "hello" /\ cli' = "next" /\ requests' = Compare(localRows, manifest)
      /\ UNCHANGED <<final, localRows, manifest, disturbed>>
  BY DEF ClientCompare, files, localDb, server, environment
<1>2. cliTodo = {}
  BY <1>1 DEF DoneInv, AllScanned
<1>3. ASSUME NEW p \in Paths, manifest[p] # NoFile, ~disturbed
      PROVE  final[p] = manifest[p] \/ \E r \in requests' : r.path = p
  <2>1. CASE NeedsRequest(localRows, p, manifest[p])
    <3>1. [path |-> p, missing |-> MissingChunks(localRows, p, manifest[p])] \in requests'
      BY <1>1, <2>1 DEF Compare
    <3> QED
      BY <3>1
  <2>2. CASE ~NeedsRequest(localRows, p, manifest[p])
    <3>1. HasRow(localRows, p) /\ RowOf(localRows, p).file_id = manifest[p]
      BY <1>3, <2>2 DEF NeedsRequest
    <3>2. RowOf(localRows, p) \in localRows /\ RowOf(localRows, p).path = p
      BY <3>1 DEF HasRow, RowOf
    <3> QED
      BY <1>1, <1>2, <1>3, <3>1, <3>2 DEF DoneInv, RowsAreFresh, Steady, Comparing
  <2> QED
    BY <2>1, <2>2
<1>4. Pending'
  BY <1>1, <1>3 DEF Pending, StillAsked
<1> QED
  BY <1>1, <1>4
     DEF DoneInv, AllScanned, RowsHaveFiles, RowsAreFresh, HashedIsPart, DoneMeansSynced, Comparing,
         InRequest, Writing

\* The request that is begun is the one being worked on.
LEMMA BeginPends ==
  ASSUME SyncInv, DoneInv, NEW r \in requests, BeginTask(r)
  PROVE  DoneInv'
<1>1. /\ cli = "next" /\ cli' = "recv" /\ requests' = requests \ {r} /\ cur'.path = r.path
      /\ UNCHANGED <<final, localRows, manifest, disturbed>>
  BY DEF BeginTask, files, server, environment
<1>2. Pending'
  BY <1>1 DEF DoneInv, Pending, StillAsked, BeforeCommit, InRequest, Writing
<1> QED
  BY <1>1, <1>2
     DEF DoneInv, AllScanned, RowsHaveFiles, RowsAreFresh, HashedIsPart, DoneMeansSynced, Comparing,
         InRequest, Writing

\* The writer hashes what it writes.
LEMMA CarriesHashes ==
  ASSUME SyncInv, HashedIsPart, Carries
  PROVE  HashedIsPart'
<1> USE DEF HashedIsPart, Writing
<1>1. cur \in Work /\ cur.path \in Paths /\ part \in [Paths -> MaybeBytes]
  <2>1. cli \in InRequest
    BY CarriesKeeps DEF BeforeCommit, InRequest, Writing
  <2> QED
    BY <2>1, CurIsTyped DEF SyncInv, IndInv, TypeOK, FilesOK
<1>2. CASE OpenResume
  <2>1. part'[cur.path] = ResumedBytes /\ cur'.hashed = ResumedBytes /\ cur'.path = cur.path
    BY <1>1, <1>2 DEF OpenResume, Work
  <2> QED
    BY <2>1
<1>3. CASE WriterBegin
  <2>1. part'[cur.path] = <<>> /\ cur'.hashed = <<>> /\ cur'.path = cur.path
    BY <1>1, <1>3 DEF WriterBegin, Work
  <2> QED
    BY <2>1
<1>4. CASE AppendChunk
  <2>1. /\ part'[cur.path] = part[cur.path] \o NextChunk
        /\ cur'.hashed = cur.hashed \o NextChunk /\ cur'.path = cur.path
    BY <1>1, <1>4 DEF AppendChunk, AppendPart, Work
  <2>2. cli = "write" /\ disturbed' = disturbed
    BY <1>4 DEF AppendChunk, MoreToWrite, environment
  <2> QED
    BY <2>1, <2>2
<1>5. CASE AppendLost
  BY <1>5 DEF AppendLost, DiskFault
<1>6. CASE MarkChunk \/ SaveProgress \/ EnterVerify
  <2>1. /\ cli \in Writing /\ part' = part /\ disturbed' = disturbed
        /\ cur'.path = cur.path /\ cur'.hashed = cur.hashed
    BY <1>1, <1>6 DEF MarkChunk, SaveProgress, EnterVerify, Work, files, environment
  <2> QED
    BY <2>1
<1>7. CASE ReceiveChunks \/ OpenMismatch \/ OpenFresh \/ ClearTaskChunks \/ ResetTask
           \/ ChunkUnavailable \/ CommitRefused \/ AppendFails
  <2>1. cli' \in {"open", "clear", "reset", "create", "catch"}
    BY <1>7 DEF ReceiveChunks, OpenMismatch, OpenFresh, ClearTaskChunks, ResetTask,
       ChunkUnavailable, CommitRefused, AppendFails
  <2> QED
    BY <2>1
<1> QED
  BY <1>2, <1>3, <1>4, <1>5, <1>6, <1>7 DEF Carries

\* The rename puts the announced version in place.
LEMMA CommitPends ==
  ASSUME SyncInv, DoneInv, CommitFile
  PROVE  DoneInv'
<1>1. /\ cli = "commit" /\ cli' = "unmark" /\ cur.hashed = cur.content
      /\ final' = [final EXCEPT ![cur.path] = part[cur.path]]
      /\ UNCHANGED <<localRows, manifest, requests, cur, disturbed>>
  BY DEF CommitFile, HashMatches, localDb, server
<1>2. cur.path \in Paths /\ cur.content = manifest[cur.path] /\ final \in [Paths -> MaybeBytes]
  BY <1>1, CurIsTyped DEF SyncInv, IndInv, TypeOK, FilesOK, InRequest, Writing
<1>3. part[cur.path] # NoFile
  BY <1>1 DEF SyncInv, WriterOpen, Writing
<1>4. ~disturbed => part[cur.path] = manifest[cur.path]
  BY <1>1, <1>2 DEF DoneInv, HashedIsPart, Writing
<1>5. RowsHaveFiles'
  BY <1>1, <1>2, <1>3 DEF DoneInv, RowsHaveFiles
<1>6. Pending'
  <2> SUFFICES ASSUME NEW p \in Paths, manifest[p] # NoFile, ~disturbed
               PROVE  final'[p] = manifest[p] \/ StillAsked(p)'
    BY <1>1 DEF Pending
  <2>1. final[p] = manifest[p] \/ StillAsked(p)
    BY <1>1 DEF DoneInv, Pending, InRequest, Writing
  <2> QED
    BY <1>1, <1>2, <1>4, <2>1 DEF StillAsked
<1> QED
  BY <1>1, <1>5, <1>6
     DEF DoneInv, AllScanned, RowsAreFresh, HashedIsPart, DoneMeansSynced, Comparing, Writing

\* A local edit disturbs a run, and without deletion a file stays a file.
LEMMA EditsKeepDoneInv ==
  ASSUME ~AllowDelete, SyncInv, DoneInv, NEW p \in Paths, RemoteEdit(p) \/ LocalEdit(p)
  PROVE  DoneInv'
<1>1. /\ UNCHANGED <<localRows, manifest, cli, cliTodo, requests, cur, part>>
      /\ disturbed' = (cli # "off")
  BY DEF RemoteEdit, LocalEdit, localDb, server, client
<1>2. CASE RemoteEdit(p)
  <2>1. final' = final
    BY <1>2 DEF RemoteEdit
  <2> QED
    BY <1>1, <2>1
       DEF DoneInv, AllScanned, RowsHaveFiles, RowsAreFresh, HashedIsPart, Pending, DoneMeansSynced,
           Steady, Comparing, InRequest, Writing
<1>3. CASE LocalEdit(p)
  <2>1. MaxLocalEdits # 0
    BY <1>3, BoundsAssumption DEF LocalEdit, SyncInv, IndInv, TypeOK, EnvironmentOK
  <2>2. PICK c \in NewContent(p) : final' = [final EXCEPT ![p] = c]
    BY <1>3 DEF LocalEdit
  <2>3. c # NoFile
    BY VersionsAreFiles DEF NewContent
  <2>4. RowsHaveFiles'
    BY <1>1, <2>2, <2>3 DEF DoneInv, RowsHaveFiles, SyncInv, IndInv, TypeOK, FilesOK
  <2> QED
    BY <1>1, <2>1, <2>4
       DEF DoneInv, AllScanned, RowsAreFresh, HashedIsPart, Pending, DoneMeansSynced,
           Steady, Comparing, InRequest, Writing
<1> QED
  BY <1>2, <1>3

\* Every step keeps the invariant of a successful run.
LEMMA NextDone ==
  ASSUME ~AllowDelete
  PROVE  SyncInv /\ DoneInv /\ [Next]_vars => DoneInv'
<1> SUFFICES ASSUME SyncInv, DoneInv, [Next]_vars
             PROVE  DoneInv'
  OBVIOUS
<1> USE DEF Comparing, InRequest, Writing
<1>1. CASE StartRun
  <2>1. /\ cli' = "scan" /\ Paths \subseteq cliTodo'
        /\ UNCHANGED <<final, localRows>>
    BY <1>1 DEF StartRun, LocalPaths, files, localDb
  <2> QED
    BY <2>1 DEF DoneInv, AllScanned, RowsHaveFiles, RowsAreFresh, HashedIsPart, Pending,
       DoneMeansSynced
<1>2. CASE Stops
  <2>1. cli' = "off" /\ UNCHANGED <<final, localRows>>
    BY <1>2, StopsLeave DEF StopProcess
  <2> QED
    BY <2>1 DEF DoneInv, AllScanned, RowsHaveFiles, RowsAreFresh, HashedIsPart, Pending,
       DoneMeansSynced
<1>3. CASE Elsewhere
  BY <1>3, ElsewhereKeeps
     DEF DoneInv, AllScanned, RowsHaveFiles, RowsAreFresh, HashedIsPart, Pending, StillAsked,
         DoneMeansSynced, Steady
<1>4. CASE Carries
  <2>1. /\ cli \in BeforeCommit /\ cli' \in BeforeCommit /\ cur'.path = cur.path
        /\ UNCHANGED <<final, localRows, manifest, requests>>
        /\ disturbed' = disturbed \/ disturbed' = TRUE
    BY <1>4, CarriesKeeps
  <2>2. Pending'
    BY <2>1 DEF DoneInv, Pending, StillAsked, BeforeCommit
  <2> QED
    BY <1>4, <2>1, <2>2, CarriesHashes
       DEF DoneInv, AllScanned, RowsHaveFiles, RowsAreFresh, DoneMeansSynced, BeforeCommit
<1>5. CASE Fails
  BY <1>5, FailsKeeps
     DEF DoneInv, AllScanned, RowsHaveFiles, RowsAreFresh, HashedIsPart, Pending, DoneMeansSynced
<1>6. CASE Tidies
  <2>1. /\ cli \in AfterCommit /\ cli' \in AfterCommit \cup {"failed"} /\ cur'.path = cur.path
        /\ UNCHANGED <<final, localRows, manifest, requests, disturbed>>
    BY <1>6, TidiesKeeps
  <2> QED
    BY <2>1
       DEF DoneInv, AllScanned, RowsHaveFiles, RowsAreFresh, HashedIsPart, Pending, StillAsked,
           DoneMeansSynced, AfterCommit, BeforeCommit
<1>7. CASE ClientScanned \/ ClientConnect
  <2>1. /\ cli \in Comparing /\ cli' \in {"connect", "hello"} /\ cliTodo = {}
        /\ UNCHANGED <<final, localRows, cliTodo, disturbed>>
    BY <1>7 DEF ClientScanned, ClientConnect, DoneInv, AllScanned, files, localDb, environment
  <2> QED
    BY <2>1 DEF DoneInv, AllScanned, RowsHaveFiles, RowsAreFresh, HashedIsPart, Pending,
       DoneMeansSynced, Steady
<1>8. CASE ClientDone
  <2>1. /\ cli = "next" /\ cli' = "done" /\ requests = {}
        /\ UNCHANGED <<final, localRows, manifest, disturbed>>
    BY <1>8 DEF ClientDone, files, localDb, server, environment
  <2> QED
    BY <2>1 DEF DoneInv, AllScanned, RowsHaveFiles, RowsAreFresh, HashedIsPart, Pending, StillAsked,
       DoneMeansSynced, BeforeCommit
<1>9. CASE RefreshRecord
  <2>1. /\ cli = "refresh" /\ cli' \in {"failed", "store"}
        /\ UNCHANGED <<final, manifest, requests, disturbed>>
        /\ \A r \in localRows' : r \in localRows \/ (r.path = cur.path /\ final[cur.path] # NoFile)
    BY <1>9 DEF RefreshRecord, UpsertFile, FileRow, files, server, environment
  <2> QED
    BY <2>1 DEF DoneInv, AllScanned, RowsHaveFiles, RowsAreFresh, HashedIsPart, Pending, StillAsked,
       DoneMeansSynced, BeforeCommit
<1>10. CASE UpsertStoredObject
  <2>1. /\ cli = "bind" /\ cli' = "next"
        /\ UNCHANGED <<final, localRows, manifest, requests, disturbed>>
    BY <1>10 DEF UpsertStoredObject, files, server, environment
  <2> QED
    BY <2>1 DEF DoneInv, AllScanned, RowsHaveFiles, RowsAreFresh, HashedIsPart, Pending, StillAsked,
       DoneMeansSynced, BeforeCommit
<1> QED
  BY <1>1, <1>2, <1>3, <1>4, <1>5, <1>6, <1>7, <1>8, <1>9, <1>10, ClientScanRefreshes,
     ComparePends, BeginPends, CommitPends, EditsKeepDoneInv, ClientCases

\* The invariant of a successful run holds initially.
LEMMA InitDone == Init => DoneInv
  BY DEF Init, DoneInv, AllScanned, RowsHaveFiles, RowsAreFresh, HashedIsPart, Pending,
     DoneMeansSynced, Comparing, InRequest, Writing

\* When users delete no file, a run that reports success and that nothing
\* disturbed has every announced file in the local root, in the announced
\* version: whatever crashes, lost bytes and interrupted runs came before.
THEOREM SuccessMeansSynced ==
  ASSUME ~AllowDelete
  PROVE  Spec => []DoneMeansSynced
<1>1. DoneInv => DoneMeansSynced
  BY DEF DoneInv
<1> QED
  BY <1>1, InitDone, NextDone, SyncInvariant, PTL DEF Spec

-----------------------------------------------------------------------------
(***************************************************************************)
(* What the comparison asks for.                                           *)
(***************************************************************************)
\* The row of a file is there.
OwnRow(p) == \E r \in localRows : r.path = p /\ r.file_id = final[p]

\* Undisturbed, the row of a path that was scanned is that of its file; a file
\* without a row has lost it to a path that was scanned later and holds the
\* same bytes.
ScannedRows ==
  cli \in Comparing /\ ~disturbed =>
    /\ cliTodo \subseteq LocalPaths
    /\ \A p \in Paths \ cliTodo :
         /\ \A r \in localRows : r.path = p => final[p] \in {NoFile, r.file_id}
         /\ \/ final[p] = NoFile \/ OwnRow(p)
            \/ \E x \in LocalPaths \ {p} : LocalFile(x) = final[p]

CompareInv == AllScanned /\ ScannedRows

\* The scan of a path writes its row and takes that of a file with the same
\* bytes.
LEMMA ClientScanAdds ==
  ASSUME CompareInv, NEW path \in cliTodo, ClientScan(path)
  PROVE  CompareInv'
<1>1. /\ cli = "scan" /\ cli' = "scan" /\ cliTodo' = cliTodo \ {path}
      /\ UNCHANGED <<final, store, disturbed>>
      /\ localRows' = IF LocalFile(path) = NoFile THEN localRows
                      ELSE UpsertFile(localRows, FileRow(LocalFile(path), path))
  BY DEF ClientScan, files, environment
<1>2. LocalPaths' = LocalPaths /\ \A x : LocalFile(x)' = LocalFile(x)
  BY <1>1 DEF LocalPaths, LocalFile
<1>3. ASSUME ~disturbed, NEW p \in Paths, p \notin cliTodo'
      PROVE  /\ \A r \in localRows' : r.path = p => final[p] \in {NoFile, r.file_id}
             /\ \/ final[p] = NoFile
                \/ \E r \in localRows' : r.path = p /\ r.file_id = final[p]
                \/ \E x \in LocalPaths \ {p} : LocalFile(x) = final[p]
  <2>1. FileRow(LocalFile(path), path).path = path
        /\ FileRow(LocalFile(path), path).file_id = LocalFile(path)
    BY DEF FileRow
  <2>2. CASE p = path
    <3>1. LocalFile(path) = final[p]
      BY <2>2 DEF LocalFile
    <3>2. CASE final[p] = NoFile
      BY <3>2
    <3>3. CASE final[p] # NoFile
      <4>1. localRows' = UpsertFile(localRows, FileRow(LocalFile(path), path))
        BY <1>1, <3>1, <3>3
      <4> QED
        BY <2>1, <2>2, <3>1, <4>1 DEF UpsertFile
    <3> QED
      BY <3>2, <3>3
  <2>3. CASE p # path
    <3>1. path \in LocalPaths /\ p \notin cliTodo
      BY <1>1, <1>3, <2>3 DEF CompareInv, ScannedRows, Comparing
    <3>2. /\ \A r \in localRows : r.path = p => final[p] \in {NoFile, r.file_id}
          /\ final[p] = NoFile \/ OwnRow(p) \/ \E x \in LocalPaths \ {p} : LocalFile(x) = final[p]
      BY <1>1, <1>3, <3>1 DEF CompareInv, ScannedRows, Comparing
    <3>3. \A r \in localRows' : r.path = p => r \in localRows
      BY <1>1, <2>1, <2>3 DEF UpsertFile
    <3>4. ASSUME NEW r \in localRows, r.path = p, r.file_id = final[p], LocalFile(path) # final[p]
          PROVE  r \in localRows'
      BY <1>1, <2>1, <2>3, <3>4 DEF UpsertFile
    <3>5. OwnRow(p) => \/ \E r \in localRows' : r.path = p /\ r.file_id = final[p]
                       \/ \E x \in LocalPaths \ {p} : LocalFile(x) = final[p]
      BY <2>3, <3>1, <3>4 DEF OwnRow
    <3> QED
      BY <3>2, <3>3, <3>5
  <2> QED
    BY <2>2, <2>3
<1>4. ~disturbed => cliTodo' \subseteq LocalPaths
  BY <1>1 DEF CompareInv, ScannedRows, Comparing
<1>5. ScannedRows'
  BY <1>1, <1>2, <1>3, <1>4 DEF ScannedRows, OwnRow
<1> QED
  BY <1>1, <1>5 DEF CompareInv, AllScanned

\* Between the scan and the comparison the rows and the local root stay.
LEMMA ScannedRowsKept ==
  ASSUME ScannedRows, cli \in Comparing, disturbed' = disturbed,
         UNCHANGED <<final, store, localRows, cliTodo>>
  PROVE  ScannedRows'
<1>1. LocalPaths' = LocalPaths /\ \A x : LocalFile(x)' = LocalFile(x)
  BY DEF LocalPaths, LocalFile
<1> QED
  BY <1>1 DEF ScannedRows, OwnRow

\* Every step keeps the invariant of the comparison.
LEMMA NextCompare ==
  ASSUME SyncInv, CompareInv, [Next]_vars
  PROVE  CompareInv'
<1>0. AllScanned /\ ScannedRows
  BY DEF CompareInv
<1> USE DEF Comparing
<1>1. CASE StartRun
  <2>1. /\ cli' = "scan" /\ cliTodo' = LocalPaths /\ UNCHANGED store
    BY <1>1 DEF StartRun, files
  <2>2. LocalPaths' = LocalPaths /\ Paths \subseteq LocalPaths
    BY <2>1 DEF LocalPaths
  <2> QED
    BY <2>1, <2>2 DEF CompareInv, AllScanned, ScannedRows
<1>2. CASE Stops
  BY <1>2, StopsLeave DEF StopProcess, CompareInv, AllScanned, ScannedRows
<1>3. CASE Elsewhere
  <2>1. UNCHANGED <<final, store, localRows, cli, cliTodo, disturbed>>
    BY <1>3, ElsewhereKeeps
  <2> QED
    BY <1>0, <2>1, ScannedRowsKept DEF CompareInv, AllScanned, ScannedRows
<1>4. CASE Carries \/ Fails \/ Tidies
  <2>1. cli' \notin Comparing
    BY <1>4, CarriesKeeps, FailsKeeps, TidiesKeeps DEF BeforeCommit, AfterCommit, Writing
  <2> QED
    BY <2>1 DEF CompareInv, AllScanned, ScannedRows
<1>5. CASE ClientScanned \/ ClientConnect
  <2>1. /\ cli \in Comparing /\ cliTodo = {}
        /\ UNCHANGED <<final, store, localRows, cliTodo, disturbed>>
    BY <1>0, <1>5 DEF ClientScanned, ClientConnect, AllScanned, files, localDb, environment
  <2> QED
    BY <1>0, <2>1, ScannedRowsKept DEF CompareInv, AllScanned
<1>6. ASSUME \/ ClientCompare \/ ClientDone \/ UpsertStoredObject \/ CommitFile \/ RefreshRecord
             \/ \E r \in requests : BeginTask(r)
      PROVE  CompareInv'
  <2>1. cli' \notin Comparing
    BY <1>6 DEF ClientCompare, ClientDone, UpsertStoredObject, CommitFile, RefreshRecord, BeginTask
  <2> QED
    BY <2>1 DEF CompareInv, AllScanned, ScannedRows
<1>7. ASSUME NEW p \in Paths, RemoteEdit(p) \/ LocalEdit(p)
      PROVE  CompareInv'
  <2>1. UNCHANGED <<cli, cliTodo>> /\ disturbed' = (cli # "off")
    BY <1>7 DEF RemoteEdit, LocalEdit, client
  <2> QED
    BY <1>0, <2>1 DEF CompareInv, AllScanned, ScannedRows
<1> QED
  BY <1>1, <1>2, <1>3, <1>4, <1>5, <1>6, <1>7, ClientScanAdds, ClientCases

\* The comparison invariant holds initially.
LEMMA InitCompare == Init => CompareInv
  BY DEF Init, CompareInv, AllScanned, ScannedRows, Comparing

\* Where paths identify rows, the row that is there is the one of its path.
LEMMA OwnRowIsFound ==
  ASSUME Keyed(localRows), NEW p, OwnRow(p)
  PROVE  HasRow(localRows, p) /\ RowOf(localRows, p).file_id = final[p]
<1>1. PICK r \in localRows : r.path = p /\ r.file_id = final[p]
  BY DEF OwnRow
<1>2. HasRow(localRows, p)
  BY <1>1 DEF HasRow
<1>3. RowOf(localRows, p) \in localRows /\ RowOf(localRows, p).path = p
  BY <1>2 DEF HasRow, RowOf
<1> QED
  BY <1>1, <1>2, <1>3 DEF Keyed

\* Only the comparison leads from the greeting to the requests.
LEMMA OnlyCompare ==
  ASSUME SyncInv, [Next]_vars, cli = "hello", cli' = "next"
  PROVE  ClientCompare
<1>1. ~StartRun /\ ~Stops /\ ~ClientScanned /\ ~ClientConnect /\ ~ClientDone
      /\ ~CommitFile /\ ~RefreshRecord /\ ~UpsertStoredObject
  BY StopsLeave DEF StartRun, StopProcess, ClientScanned, ClientConnect, ClientDone, CommitFile,
     RefreshRecord, UpsertStoredObject
<1>2. /\ ~(\E path \in cliTodo : ClientScan(path)) /\ ~(\E r \in requests : BeginTask(r))
      /\ ~(\E p \in Paths : RemoteEdit(p) \/ LocalEdit(p))
  BY DEF ClientScan, BeginTask, RemoteEdit, LocalEdit, client
<1>3. ~Elsewhere /\ ~Carries /\ ~Fails /\ ~Tidies
  BY ElsewhereKeeps, CarriesKeeps, FailsKeeps, TidiesKeeps DEF BeforeCommit, AfterCommit, Writing
<1> QED
  BY <1>1, <1>2, <1>3, ClientCases

\* Whatever the contents of the files, wherever the store lies and whatever
\* the disk loses: an undisturbed run asks for a file that the local root has
\* in the announced version only if the scan found the same bytes at another
\* path, too.
THEOREM OnlyChangesAreAsked == Spec => UnchangedNotRequested
<1>1. SyncInv /\ RowsAreKeyed /\ CompareInv /\ [Next]_vars =>
        [cli = "hello" /\ cli' = "next" /\ ~disturbed =>
           \A r \in requests' : final[r.path] = manifest[r.path] =>
             \E x \in LocalPaths \ {r.path} : LocalFile(x) = final[r.path]]_vars
  <2> SUFFICES ASSUME SyncInv, Keyed(localRows), CompareInv, [Next]_vars,
                      cli = "hello", cli' = "next", ~disturbed, NEW r \in requests',
                      final[r.path] = manifest[r.path]
               PROVE  \E x \in LocalPaths \ {r.path} : LocalFile(x) = final[r.path]
    BY DEF RowsAreKeyed, Keyed
  <2>1. requests' = Compare(localRows, manifest)
    BY OnlyCompare DEF ClientCompare
  <2>2. PICK p \in Paths : NeedsRequest(localRows, p, manifest[p]) /\ r.path = p
    BY <2>1 DEF Compare
  <2>3. manifest[p] # NoFile /\ cliTodo = {}
    BY <2>2 DEF NeedsRequest, CompareInv, AllScanned
  <2>4. ~OwnRow(p)
    BY <2>2, OwnRowIsFound DEF NeedsRequest
  <2> QED
    BY <2>2, <2>3, <2>4 DEF CompareInv, ScannedRows, Comparing
<1> QED
  BY <1>1, InitCompare, NextCompare, SyncInvariant, RowsKeyed, PTL DEF Spec, UnchangedNotRequested

-----------------------------------------------------------------------------
(***************************************************************************)
(* Stored objects.                                                         *)
(***************************************************************************)
\* The refreshed row is that of the file, and the object being filled is the
\* one that it names.
ObjectFilled ==
  /\ cli \in {"store", "copy", "bind"} => ObjectId = final[cur.path]
  /\ cli = "copy" => cur.source = ObjectId
  /\ cli = "bind" => ObjectId \in DOMAIN store /\ store[ObjectId] = ObjectId

\* A bound object holds its bytes, unless it is just being filled again.
BoundKept ==
  \A c \in bound : c \in DOMAIN store /\ (store[c] = c \/ (cli = "copy" /\ c = ObjectId))

BoundInv == ObjectFilled /\ BoundKept

\* Away from the filling of an object its state says nothing.
LEMMA BoundUntouched ==
  ASSUME BoundInv, cli # "copy", cli' \notin {"store", "copy", "bind"}, UNCHANGED <<store, bound>>
  PROVE  BoundInv'
  BY DEF BoundInv, ObjectFilled, BoundKept

\* Every step keeps the bound objects.
LEMMA NextBound ==
  ASSUME MaxFaults = 0, MaxLocalEdits = 0
  PROVE  SyncInv /\ RowsAreKeyed /\ BoundInv /\ [Next]_vars => BoundInv'
<1> SUFFICES ASSUME SyncInv, Keyed(localRows), BoundInv, [Next]_vars
             PROVE  BoundInv'
  BY DEF RowsAreKeyed, Keyed
<1>0. faults \in Nat /\ localEdits \in Nat
  BY DEF SyncInv, IndInv, TypeOK, EnvironmentOK
<1>1. CASE StartRun
  BY <1>1, BoundUntouched DEF StartRun, files, localDb
<1>2. CASE Stops
  <2>1. cli # "copy"
    BY <1>0, <1>2 DEF Stops, MainReturns, KillHungRun, Crash, CrashDuringAppend
  <2> QED
    BY <1>2, <2>1, StopsLeave, BoundUntouched DEF StopProcess
<1>3. CASE Elsewhere
  BY <1>3, ElsewhereKeeps DEF BoundInv, ObjectFilled, BoundKept, ObjectId
<1>4. CASE Carries \/ Fails
  <2>1. /\ cli # "copy" /\ cli' \notin {"store", "copy", "bind"} /\ UNCHANGED <<store, bound>>
    BY <1>4, CarriesKeeps, FailsKeeps DEF BeforeCommit, Writing
  <2> QED
    BY <2>1, BoundUntouched
<1>5. CASE UnmarkChunks \/ FinishTask
  BY <1>5, BoundUntouched DEF UnmarkChunks, FinishTask, files
<1>6. CASE StoreTruncate
  <2>1. CASE cli' = "failed"
    BY <1>6, <2>1, BoundUntouched DEF StoreTruncate, localDb
  <2>2. CASE cli' # "failed"
    <3>1. /\ cli = "store" /\ cli' = "copy" /\ UNCHANGED <<bound, final, localRows>>
          /\ store' = [c \in DOMAIN store \cup {ObjectId} |->
                         IF c = ObjectId THEN <<>> ELSE store[c]]
          /\ cur' = [cur EXCEPT !.source = final[cur.path]]
      BY <1>6, <2>2 DEF StoreTruncate, SetObject, localDb
    <3>2. cur'.source = final[cur.path] /\ cur'.path = cur.path
      BY <3>1, CurIsTyped DEF SyncInv, InRequest, Work
    <3>3. ObjectId' = ObjectId /\ ObjectId = final[cur.path]
      BY <3>1, <3>2 DEF ObjectId, BoundInv, ObjectFilled
    <3> QED
      BY <3>1, <3>2, <3>3 DEF BoundInv, ObjectFilled, BoundKept
  <2> QED
    BY <2>1, <2>2
<1>7. CASE StoreCopy
  <2>1. /\ cli = "copy" /\ cli' = "bind" /\ UNCHANGED <<bound, final, localRows, cur>>
        /\ store' = [c \in DOMAIN store \cup {ObjectId} |->
                       IF c = ObjectId THEN cur.source ELSE store[c]]
    BY <1>7 DEF StoreCopy, SetObject, localDb
  <2>2. ObjectId' = ObjectId /\ ObjectId = final[cur.path] /\ cur.source = ObjectId
    BY <2>1 DEF ObjectId, BoundInv, ObjectFilled
  <2> QED
    BY <2>1, <2>2 DEF BoundInv, ObjectFilled, BoundKept
<1>8. CASE UpsertStoredObject
  <2>1. cli = "bind" /\ cli' = "next" /\ store' = store /\ bound' = bound \cup {ObjectId}
    BY <1>8 DEF UpsertStoredObject, files
  <2> QED
    BY <2>1 DEF BoundInv, ObjectFilled, BoundKept
<1>9. CASE RefreshRecord
  <2>1. CASE cli' = "failed"
    BY <1>9, <2>1, BoundUntouched DEF RefreshRecord, files
  <2>2. CASE cli' # "failed"
    <3>1. /\ cli = "refresh" /\ cli' = "store" /\ UNCHANGED <<final, store, bound, cur>>
          /\ localRows' = UpsertFile(localRows, FileRow(final[cur.path], cur.path))
      BY <1>9, <2>2 DEF RefreshRecord, files
    <3>2. Keyed(localRows') /\ FileRow(final[cur.path], cur.path) \in localRows'
      BY <3>1, UpsertKeepsKeys DEF UpsertFile
    <3>3. ObjectId' = final[cur.path]
      BY <3>1, <3>2, RowIsFound DEF ObjectId
    <3> QED
      BY <3>1, <3>3 DEF BoundInv, ObjectFilled, BoundKept
  <2> QED
    BY <2>1, <2>2
<1>10. ASSUME \/ ClientScanned \/ ClientConnect \/ ClientCompare \/ ClientDone \/ CommitFile
              \/ \E path \in cliTodo : ClientScan(path)
              \/ \E r \in requests : BeginTask(r)
       PROVE  BoundInv'
  <2>1. /\ cli # "copy" /\ cli' \notin {"store", "copy", "bind"} /\ UNCHANGED <<store, bound>>
    BY <1>10 DEF ClientScanned, ClientConnect, ClientCompare, ClientDone, CommitFile, ClientScan,
       BeginTask, files, localDb
  <2> QED
    BY <2>1, BoundUntouched
<1>11. ASSUME NEW p \in Paths, RemoteEdit(p) \/ LocalEdit(p)
       PROVE  BoundInv'
  <2>1. ~LocalEdit(p)
    BY <1>0 DEF LocalEdit
  <2>2. UNCHANGED <<store, bound, localRows, final, cli, cur>>
    BY <1>11, <2>1 DEF RemoteEdit, localDb, client
  <2> QED
    BY <2>2 DEF BoundInv, ObjectFilled, BoundKept, ObjectId
<1> QED
  BY <1>1, <1>2, <1>3, <1>4, <1>5, <1>6, <1>7, <1>8, <1>9, <1>10, <1>11, ClientCases DEF Tidies

\* Without crashes and without edits of the local root, every stored_objects
\* row names an object with the bytes of its file_id between runs, however
\* often an object is written again in place.
THEOREM ObjectsAreFaithful ==
  ASSUME MaxFaults = 0, MaxLocalEdits = 0
  PROVE  Spec => []BoundFaithful
<1>1. Init => BoundInv
  BY DEF Init, BoundInv, ObjectFilled, BoundKept
<1>2. BoundInv => BoundFaithful
  BY DEF BoundInv, BoundKept, BoundFaithful
<1> QED
  BY <1>1, <1>2, NextBound, SyncInvariant, RowsKeyed, PTL DEF Spec

-----------------------------------------------------------------------------
(***************************************************************************)
(* The failures of a run that nothing disturbs: facts about chunks.        *)
(***************************************************************************)
\* Where a chunk lies.
LEMMA ChunkLies ==
  ASSUME NEW s \in Bytes, NEW i \in ChunkIndexes(s)
  PROVE  /\ i \in Nat /\ i < NumChunks(s)
         /\ i * ChunkSize \in Nat /\ i * ChunkSize < Len(s)
         /\ ChunkEnd(s, i) \in (i * ChunkSize)..Len(s)
         /\ Len(Chunk(s, i)) = ChunkEnd(s, i) - i * ChunkSize
<1>0. i \in Nat /\ i < NumChunks(s)
  BY NumChunksIsCeiling DEF ChunkIndexes
<1>1. i * ChunkSize \in Nat /\ i * ChunkSize < Len(s)
  BY <1>0, ChunkStartsInside, ChunkSizeAssumption
<1>2. (i + 1) * ChunkSize \in Nat /\ (i + 1) * ChunkSize >= i * ChunkSize
  BY <1>0, ChunkSizeAssumption
<1>3. ChunkEnd(s, i) \in (i * ChunkSize)..Len(s)
  BY <1>1, <1>2 DEF ChunkEnd, Bytes
<1>4. Len(Chunk(s, i)) = ChunkEnd(s, i) - i * ChunkSize
  BY <1>1, <1>3, SubSeqProperties DEF Chunk, Bytes
<1> QED
  BY <1>0, <1>1, <1>3, <1>4

\* A file that has a chunk in common with another verifies for it.
LEMMA SameChunkVerifies ==
  ASSUME NEW s \in Bytes, NEW c \in Bytes, NEW i, SameChunk(s, c, i)
  PROVE  ReadAndVerify(s, c, i)
<1>1. i \in ChunkIndexes(s) /\ i \in ChunkIndexes(c) /\ Chunk(s, i) = Chunk(c, i)
  BY DEF SameChunk
<1>2. ChunkEnd(s, i) = ChunkEnd(c, i) /\ ChunkEnd(s, i) <= Len(s)
  BY <1>1, ChunkLies DEF Bytes
<1> QED
  BY <1>1, <1>2, NoFileAssumption DEF ReadAndVerify, Chunk, Bytes

\* A file verifies for itself.
LEMMA FileVerifies ==
  ASSUME NEW c \in Bytes, NEW i \in Nat
  PROVE  ReadAndVerify(c, c, i)
<1>1. (i + 1) * ChunkSize \in Nat /\ Len(c) \in Nat
  BY ChunkSizeAssumption DEF Bytes
<1>2. ChunkEnd(c, i) <= Len(c)
  BY <1>1 DEF ChunkEnd
<1> QED
  BY <1>2, NoFileAssumption DEF ReadAndVerify, Chunk, Bytes

\* The next chunk continues the bytes before it.
LEMMA ChunkContinues ==
  ASSUME NEW c \in Bytes, NEW n \in Nat, n < NumChunks(c)
  PROVE  FirstBytes(c, n) \o Chunk(c, n) = FirstBytes(c, n + 1)
<1>0. n \in ChunkIndexes(c)
  BY NumChunksIsCeiling DEF ChunkIndexes
<1>1. /\ n * ChunkSize \in Nat /\ n * ChunkSize < Len(c)
      /\ ChunkEnd(c, n) \in (n * ChunkSize)..Len(c)
  BY <1>0, ChunkLies
<1>2. ComputePrefixBytes(c, n) = n * ChunkSize /\ ComputePrefixBytes(c, n + 1) = ChunkEnd(c, n)
  <2>1. CASE n = 0
    BY <2>1, ChunkSizeAssumption DEF ComputePrefixBytes
  <2>2. CASE n # 0
    <3>1. (n - 1) + 1 = n
      OBVIOUS
    <3> QED
      BY <2>2, <3>1, <1>1 DEF ComputePrefixBytes, ChunkEnd
  <2> QED
    BY <2>1, <2>2
<1>3. SubSeq(c, 1, n * ChunkSize) \o SubSeq(c, n * ChunkSize + 1, ChunkEnd(c, n))
        = SubSeq(c, 1, ChunkEnd(c, n))
  <2> DEFINE m == n * ChunkSize
             k == ChunkEnd(c, n)
  <2>1. c \in Seq(Byte) /\ 1 \in 1 .. Len(c) + 1 /\ m \in 1 - 1 .. Len(c) /\ k \in m .. Len(c)
    BY <1>1 DEF Bytes
  <2> HIDE DEF m, k
  <2>2. SubSeq(c, 1, m) \o SubSeq(c, m + 1, k) = SubSeq(c, 1, k)
    BY <2>1, ConcatAdjacentSubSeq, Zenon
  <2> QED
    BY <2>2 DEF m, k
<1> QED
  BY <1>2, <1>3 DEF FirstBytes, Chunk

\* No chunks are no bytes.
LEMMA NoBytes ==
  ASSUME NEW c \in Bytes
  PROVE  FirstBytes(c, 0) = <<>>
  BY SubSeqEmpty DEF FirstBytes, ComputePrefixBytes, Bytes

\* All chunks are the whole content.
LEMMA AllBytes ==
  ASSUME NEW c \in Bytes
  PROVE  FirstBytes(c, NumChunks(c)) = c
<1>1. /\ NumChunks(c) \in Nat /\ Len(c) \in Nat /\ Len(c) <= NumChunks(c) * ChunkSize
      /\ NumChunks(c) * ChunkSize < Len(c) + ChunkSize
  BY NumChunksIsCeiling DEF Bytes
<1>2. ComputePrefixBytes(c, NumChunks(c)) = Len(c)
  <2>1. CASE NumChunks(c) = 0
    BY <1>1, <2>1, ChunkSizeAssumption DEF ComputePrefixBytes
  <2>2. CASE NumChunks(c) # 0
    <3>1. (NumChunks(c) - 1) + 1 = NumChunks(c) /\ NumChunks(c) * ChunkSize \in Nat
      BY <1>1, ChunkSizeAssumption
    <3> QED
      BY <1>1, <2>2, <3>1 DEF ComputePrefixBytes, ChunkEnd
  <2> QED
    BY <2>1, <2>2
<1> QED
  BY <1>2, SubSeqFull DEF FirstBytes, Bytes

\* A set of indexes that is not empty has a first one.
LEMMA FirstOutstanding ==
  ASSUME NEW S \in SUBSET Nat, S # {}
  PROVE  (CHOOSE j \in S : \A k \in S : j <= k) \in S
<1>1. PICK j \in S : \A k \in S : ~(<<k, j>> \in OpToRel(<, Nat))
  BY NatLessThanWellFounded, WFMin, Zenon
<1>2. ASSUME NEW k \in S, k < j
      PROVE  <<k, j>> \in OpToRel(<, Nat)
  <2>1. <<k, j>> \in Nat \X Nat /\ <<k, j>>[1] < <<k, j>>[2]
    BY <1>2
  <2> QED
    BY <2>1, Zenon DEF OpToRel
<1>3. \A k \in S : ~(k < j)
  BY <1>1, <1>2, Zenon
<1>4. \A k \in S : j <= k
  BY <1>3
<1> QED
  BY <1>4

-----------------------------------------------------------------------------
(***************************************************************************)
(* The failures of a run that nothing disturbs: the server.                *)
(***************************************************************************)
\* Undisturbed, what is recorded and announced of a file of the remote root is
\* the file as it is, unless it was deleted before the run.
RemoteCurrent ==
  ~disturbed =>
    /\ srv = "scan" =>
         \A p \in Paths \ srvTodo : \A r \in remoteRows :
           r.path = p => remote[p] \in {NoFile, r.file_id}
    /\ srv \notin {"off", "scan"} =>
         \A p \in Paths : manifest[p] = NoFile \/ remote[p] \in {NoFile, manifest[p]}

\* Chunks are outstanding only while the client waits for them or has seen the
\* server end; and undisturbed, the server ends only over a deleted file.
ServerWaits ==
  /\ outstanding # {} => cli = "recv" \/ (cli = "failed" /\ srv = "dead")
  /\ srv = "dead" /\ ~disturbed => outstanding # {} /\ remote[cur.path] = NoFile

\* Every step keeps the announcement up to date.
LEMMA NextRemoteCurrent ==
  ASSUME SyncInv, RemoteCurrent, [Next]_vars
  PROVE  RemoteCurrent'
<1>1. CASE StartRun
  BY <1>1 DEF StartRun, RemoteCurrent
<1>2. CASE Stops
  BY <1>2, StopsLeave DEF StopProcess, RemoteCurrent
<1>3. CASE ServerListen
  <2>1. /\ srv = "scan" /\ srvTodo = {} /\ srv' = "listen"
        /\ UNCHANGED <<remote, disturbed>> /\ manifest' = BuildManifest(remoteRows)
    BY <1>3 DEF ServerListen, files, environment
  <2>2. ASSUME NEW p \in Paths, ~disturbed, manifest'[p] # NoFile
        PROVE  remote[p] \in {NoFile, manifest'[p]}
    <3>1. HasRow(remoteRows, p) /\ manifest'[p] = RowOf(remoteRows, p).file_id
      BY <2>1, <2>2 DEF BuildManifest
    <3>2. RowOf(remoteRows, p) \in remoteRows /\ RowOf(remoteRows, p).path = p
      BY <3>1 DEF HasRow, RowOf
    <3> QED
      BY <2>1, <2>2, <3>1, <3>2 DEF RemoteCurrent
  <2> QED
    BY <2>1, <2>2 DEF RemoteCurrent
<1>4. ASSUME NEW p \in Paths, ServerScan(p)
      PROVE  RemoteCurrent'
  <2>1. /\ srv = "scan" /\ srvTodo' = srvTodo \ {p} /\ UNCHANGED <<remote, srv, disturbed>>
        /\ remoteRows' = IF remote[p] = NoFile THEN remoteRows
                         ELSE UpsertFile(remoteRows, FileRow(remote[p], p))
    BY <1>4 DEF ServerScan, files, environment
  <2>2. \A r \in remoteRows' : \/ r \in remoteRows /\ (r.path = p => remote[p] = NoFile)
                               \/ r.path = p /\ r.file_id = remote[p]
    BY <2>1 DEF UpsertFile, FileRow
  <2> QED
    BY <2>1, <2>2 DEF RemoteCurrent
<1>5. CASE ServerSendChunk \/ ServerEnd \/ ClientConnect
  <2>1. /\ srv \in {"listen", "serve"} /\ srv' \in {"serve", "dead", "done"}
        /\ UNCHANGED <<remote, manifest, disturbed>>
    BY <1>5 DEF ServerSendChunk, ServerEnd, ClientConnect, files, environment
  <2> QED
    BY <2>1 DEF RemoteCurrent
<1>6. ASSUME NEW p \in Paths, RemoteEdit(p) \/ LocalEdit(p)
      PROVE  RemoteCurrent'
  <2>1. srv' = srv /\ disturbed' = (cli # "off")
    BY <1>6 DEF RemoteEdit, LocalEdit, server
  <2> QED
    BY <2>1 DEF RemoteCurrent, SyncInv, IndInv, Handshake
<1>7. CASE /\ UNCHANGED <<srv, srvTodo, remote, remoteRows, manifest>>
           /\ disturbed' = disturbed \/ disturbed' = TRUE
  BY <1>7 DEF RemoteCurrent
<1> QED
  BY <1>1, <1>2, <1>3, <1>4, <1>5, <1>6, <1>7, ServerFrame

\* Undisturbed, the server finds every chunk it is asked for, or no file.
LEMMA ServerSends ==
  ASSUME SyncInv, RemoteCurrent, ServerWaits, ServerSendChunk, ~disturbed,
         remote[cur.path] # NoFile
  PROVE  srv' = "serve"
<1> DEFINE i == CHOOSE j \in outstanding : \A k \in outstanding : j <= k
<1>1. /\ srv = "serve" /\ outstanding # {} /\ cli = "recv"
  BY DEF ServerSendChunk, ServerWaits
<1>2. cur.path \in Paths /\ cur.content \in Bytes /\ cur.content = manifest[cur.path]
  BY <1>1, CurIsTyped DEF SyncInv, InRequest
<1>3. cur.content # NoFile
  BY <1>2, NoFileAssumption DEF Bytes
<1>4. remote[cur.path] = cur.content
  BY <1>1, <1>2, <1>3 DEF RemoteCurrent
<1>5. i \in Nat
  <2>1. outstanding \in SUBSET Nat
    BY DEF SyncInv, IndInv, TypeOK, ServerOK
  <2> QED
    BY <1>1, <2>1, FirstOutstanding
<1>6. ReadAndVerify(remote[cur.path], cur.content, i)
  BY <1>2, <1>4, <1>5, FileVerifies
<1> QED
  BY <1>1, <1>6 DEF ServerSendChunk

\* Every step keeps what the server waits for.
LEMMA NextServerWaits ==
  ASSUME SyncInv, RemoteCurrent, ServerWaits, [Next]_vars
  PROVE  ServerWaits'
<1>1. CASE StartRun
  BY <1>1 DEF StartRun, ServerWaits
<1>2. CASE Stops
  BY <1>2, StopsLeave DEF StopProcess, ServerWaits
<1>3. CASE ServerSendChunk
  <2>1. /\ srv = "serve" /\ outstanding # {} /\ outstanding' \subseteq outstanding
        /\ srv' = "dead" => outstanding' = outstanding
        /\ UNCHANGED <<cli, cur, remote, disturbed>>
    BY <1>3 DEF ServerSendChunk, files, client, environment
  <2>2. ~disturbed /\ srv' = "dead" => remote[cur.path] = NoFile
    BY <1>3, ServerSends
  <2> QED
    BY <2>1, <2>2 DEF ServerWaits
<1>4. CASE Elsewhere /\ ~ServerSendChunk
  <2>1. /\ UNCHANGED <<outstanding, cli, cur, remote, disturbed>>
        /\ srv' = srv \/ (srv # "dead" /\ srv' # "dead")
    BY <1>4 DEF Elsewhere, ServerStep, ServerScan, ServerListen, ServerEnd, vars, files, client,
       server, environment
  <2> QED
    BY <2>1 DEF ServerWaits
<1>5. CASE Carries
  <2>1. /\ cli \in BeforeCommit /\ cli' \in BeforeCommit
        /\ UNCHANGED <<srv, outstanding, remote>> /\ cur'.path = cur.path
        /\ disturbed' = disturbed \/ disturbed' = TRUE
    BY <1>5, CarriesKeeps
  <2>2. cli = "recv" => outstanding = {}
    BY <1>5 DEF Carries, ReceiveChunks, OpenResume, OpenMismatch, OpenFresh, ClearTaskChunks,
       ResetTask, WriterBegin, AppendChunk, ChunkUnavailable, MarkChunk, SaveProgress, EnterVerify,
       CommitRefused, AppendFails, AppendLost, MoreToWrite
  <2>3. outstanding = {}
    BY <2>1, <2>2 DEF ServerWaits, BeforeCommit, Writing
  <2> QED
    BY <2>1, <2>3 DEF ServerWaits
<1>6. CASE Fails
  <2>1. /\ UNCHANGED <<srv, outstanding, remote, cur>> /\ cli' = "failed"
        /\ disturbed' = disturbed \/ disturbed' = TRUE
        /\ cli \in {"connect", "catch"} \/ (cli = "recv" /\ srv = "dead")
    BY <1>6, FailsKeeps DEF Fails, ClientGiveUp, ReceiveFails, CatchFailure
  <2> QED
    BY <2>1 DEF ServerWaits
<1>7. ASSUME NEW r \in requests, BeginTask(r)
      PROVE  ServerWaits'
  <2>1. cli = "next" /\ cli' = "recv" /\ UNCHANGED <<srv, disturbed>>
    BY <1>7 DEF BeginTask, environment
  <2> QED
    BY <2>1 DEF ServerWaits
<1>8. ASSUME NEW p \in Paths, RemoteEdit(p) \/ LocalEdit(p)
      PROVE  ServerWaits'
  <2>1. UNCHANGED <<srv, outstanding, cli>> /\ disturbed' = (cli # "off")
    BY <1>8 DEF RemoteEdit, LocalEdit, server, client
  <2> QED
    BY <2>1 DEF ServerWaits, SyncInv, IndInv, Handshake
<1>9. ASSUME \/ Tidies \/ ClientScanned \/ ClientConnect \/ ClientCompare \/ ClientDone
             \/ CommitFile \/ RefreshRecord \/ UpsertStoredObject
             \/ \E path \in cliTodo : ClientScan(path)
      PROVE  ServerWaits'
  <2>1. /\ UNCHANGED <<outstanding, disturbed>> /\ cli \notin {"recv", "failed"}
        /\ srv' = "dead" => srv = "dead"
    BY <1>9 DEF Tidies, UnmarkChunks, FinishTask, StoreTruncate, StoreCopy, ClientScanned,
       ClientConnect, ClientCompare, ClientDone, CommitFile, RefreshRecord, UpsertStoredObject,
       ClientScan, server, environment
  <2>2. outstanding = {} /\ (srv = "dead" => disturbed)
    BY <2>1 DEF ServerWaits
  <2> QED
    BY <2>1, <2>2 DEF ServerWaits
<1> QED
  BY <1>1, <1>2, <1>3, <1>4, <1>5, <1>6, <1>7, <1>8, <1>9, ClientCases

-----------------------------------------------------------------------------
(***************************************************************************)
(* The failures of a run that nothing disturbs: the client.                *)
(***************************************************************************)
\* The old file p is gone, or another one that is no longer worked on holds
\* the same bytes and so may have taken its row.
Spoiled(p) ==
  final[p] = NoFile \/ \E q \in Paths \ {p} : final[q] = final[p] /\ ~StillAsked(q)

\* From chunk n on, what is not missing is a chunk of the old file.
AtHand(p, content, missing, n) ==
  \A i \in ChunkIndexes(content) :
    i >= n => i \in missing \/ Spoiled(p) \/ (OwnRow(p) /\ SameChunk(final[p], content, i))

\* Each file is asked for once.
AskedOnce ==
  /\ \A r, s \in requests : r.path = s.path => r = s
  /\ cli \in InRequest => \A r \in requests : r.path # cur.path

RequestsAtHand ==
  cli \in InRequest \cup {"next"} /\ ~disturbed =>
    \A r \in requests : AtHand(r.path, manifest[r.path], r.missing, 0)

CurAtHand ==
  cli \in BeforeCommit /\ cur.kept /\ ~disturbed =>
    AtHand(cur.path, cur.content, cur.missing, cur.prefix)

\* The .part file holds the recorded prefix until it is opened, and where there
\* is none the file is written from its first chunk on.
PartKept ==
  cur.kept /\ ~disturbed =>
    /\ cli \in {"recv", "open"} =>
         cur.prefix = 0 \/ part[cur.path] = FirstBytes(cur.content, cur.prefix)
    /\ cli \in {"clear", "reset", "create"} => cur.prefix = 0

\* What was hashed is the beginning of the announced version.
HashedSoFar ==
  cur.kept /\ ~disturbed =>
    /\ cli \in {"write", "mark", "progress"} => cur.prefix <= cur.next
    /\ cli = "write" => cur.hashed = FirstBytes(cur.content, cur.next)
    /\ cli \in {"mark", "progress"} => cur.hashed = FirstBytes(cur.content, cur.next + 1)
    /\ cli = "commit" => cur.hashed = cur.content

InPlace == cli \in AfterCommit /\ ~disturbed => final[cur.path] # NoFile

\* What may make the work on a file fail.
Cause ==
  \/ ~cur.kept
  \/ NoFile \in {final[cur.path], remote[cur.path]}
  \/ \E q \in Paths \ {cur.path} : final[q] = final[cur.path]

CausesFound == cli \in {"catch", "failed"} /\ ~disturbed => Cause

WorkInv ==
  /\ AskedOnce /\ RequestsAtHand /\ CurAtHand /\ PartKept /\ HashedSoFar
  /\ InPlace /\ CausesFound

\* The first chunks are bytes, and as many as ComputePrefixBytes says.
LEMMA FirstBytesAre ==
  ASSUME NEW c \in Bytes, NEW n \in Nat, n <= NumChunks(c)
  PROVE  FirstBytes(c, n) \in Bytes /\ Len(FirstBytes(c, n)) = ComputePrefixBytes(c, n)
<1>1. CASE n = 0
  <2>1. Len(<<>>) = 0
    OBVIOUS
  <2> QED
    BY <1>1, <2>1, NoBytes, EmptyIsBytes DEF ComputePrefixBytes
<1>2. CASE n # 0
  <2>1. n - 1 \in ChunkIndexes(c)
    BY <1>2, NumChunksIsCeiling DEF ChunkIndexes
  <2>2. ComputePrefixBytes(c, n) \in 0..Len(c)
    BY <1>2, <2>1, ChunkLies DEF ComputePrefixBytes, Bytes
  <2> QED
    BY <2>2, SubSeqProperties DEF FirstBytes, Bytes
<1> QED
  BY <1>1, <1>2

\* The requests of the comparison: what the old file does not hold, once for
\* each file.
LEMMA CompareAsks ==
  ASSUME SyncInv, Keyed(localRows), CompareInv, WorkInv, ClientCompare
  PROVE  WorkInv'
<1>1. /\ cli = "hello" /\ cli' = "next" /\ requests' = Compare(localRows, manifest)
      /\ UNCHANGED <<final, localRows, manifest, disturbed>> /\ cliTodo = {}
  BY DEF ClientCompare, files, localDb, server, environment, CompareInv, AllScanned
<1>2. \A r \in requests' : r.path \in Paths
                           /\ r.missing = MissingChunks(localRows, r.path, manifest[r.path])
                           /\ r = [path |-> r.path, missing |-> r.missing]
  BY <1>1 DEF Compare
<1>3. AskedOnce'
  BY <1>1, <1>2 DEF AskedOnce, InRequest, Writing
<1>4. ASSUME NEW r \in requests', ~disturbed, NEW i \in ChunkIndexes(manifest[r.path]),
             i \notin r.missing, final[r.path] # NoFile
      PROVE  OwnRow(r.path) /\ SameChunk(final[r.path], manifest[r.path], i)
  <2> DEFINE old == RowOf(localRows, r.path)
  <2>1. HasRow(localRows, r.path) /\ SameChunk(old.file_id, manifest[r.path], i)
    BY <1>2, <1>4 DEF MissingChunks, DifferingChunks
  <2>2. old \in localRows /\ old.path = r.path
    BY <2>1 DEF HasRow, RowOf
  <2>3. old.file_id = final[r.path]
    BY <1>1, <1>2, <1>4, <2>2 DEF CompareInv, ScannedRows, Comparing
  <2> QED
    BY <2>1, <2>2, <2>3 DEF OwnRow
<1>5. RequestsAtHand'
  BY <1>1, <1>4 DEF RequestsAtHand, AtHand, Spoiled, OwnRow
<1> QED
  BY <1>1, <1>3, <1>5
     DEF WorkInv, CurAtHand, PartKept, HashedSoFar, InPlace, CausesFound, BeforeCommit, AfterCommit,
         Writing

\* The work on a request begins: what is recorded of its file is not asked for.
LEMMA BeginAsks ==
  ASSUME SyncInv, WorkInv, NEW r \in requests, BeginTask(r)
  PROVE  WorkInv'
<1> DEFINE content == manifest[r.path]
           prefix  == ComputeResumePrefixCount(taskChunks[<<content, r.path>>], content)
<1>1. /\ cli = "next" /\ cli' = "recv" /\ requests' = requests \ {r}
      /\ UNCHANGED <<final, part, localRows, manifest, disturbed>>
      /\ cur'.path = r.path /\ cur'.content = content /\ cur'.prefix = prefix
      /\ cur'.missing = TrimCompletedChunks(r.missing, prefix)
      /\ cur'.kept = (prefix = 0 \/ part[r.path] = FirstBytes(content, prefix))
  BY DEF BeginTask, files, environment
<1>2. prefix \in Nat
  <2>1. cur' \in Work
    BY BeginTaskStep, <1>1 DEF SyncInv, IndInv, TypeOK, ClientOK, InRequest
  <2> QED
    BY <1>1, <2>1 DEF Work
<1> HIDE DEF prefix
<1>3. AskedOnce'
  BY <1>1 DEF WorkInv, AskedOnce
<1>4. \A q \in Paths : StillAsked(q)' <=> StillAsked(q)
  BY <1>1 DEF StillAsked, BeforeCommit, Writing
<1>5. \A q : OwnRow(q)' <=> OwnRow(q)
  BY <1>1 DEF OwnRow
<1>6. \A q : Spoiled(q)' <=> Spoiled(q)
  BY <1>1, <1>4 DEF Spoiled
<1>7. RequestsAtHand'
  BY <1>1, <1>5, <1>6 DEF WorkInv, RequestsAtHand, AtHand
<1>8. CurAtHand'
  <2>1. ~disturbed => AtHand(r.path, content, r.missing, 0)
    BY <1>1 DEF WorkInv, RequestsAtHand
  <2>2. ASSUME ~disturbed, NEW i \in ChunkIndexes(content), i >= prefix, i \notin cur'.missing
        PROVE  Spoiled(r.path) \/ (OwnRow(r.path) /\ SameChunk(final[r.path], content, i))
    <3>1. i \notin r.missing
      BY <1>1, <2>2 DEF TrimCompletedChunks
    <3>2. i >= 0
      BY <2>2 DEF ChunkIndexes
    <3> QED
      BY <2>1, <2>2, <3>1, <3>2 DEF AtHand
  <2> QED
    BY <1>1, <1>5, <1>6, <2>2 DEF CurAtHand, AtHand
<1>9. PartKept'
  BY <1>1 DEF PartKept
<1> QED
  BY <1>1, <1>3, <1>7, <1>8, <1>9
     DEF WorkInv, HashedSoFar, InPlace, CausesFound, AfterCommit

\* On its way to the rename a request leaves open what the others need.
LEMMA CarriesAsks ==
  ASSUME SyncInv, WorkInv, Carries
  PROVE  /\ AskedOnce' /\ RequestsAtHand' /\ InPlace'
         /\ cur'.prefix = cur.prefix => CurAtHand'
<1>1. /\ cli \in BeforeCommit /\ cli' \in BeforeCommit
      /\ cur'.path = cur.path /\ cur'.content = cur.content /\ cur'.missing = cur.missing
      /\ cur'.kept = cur.kept
      /\ UNCHANGED <<final, localRows, manifest, requests>>
      /\ ~disturbed' => ~disturbed
  BY CarriesKeeps DEF SyncInv, IndInv, TypeOK, EnvironmentOK
<1>2. cli \in InRequest /\ cli' \in InRequest
  BY <1>1 DEF BeforeCommit, InRequest
<1>3. AskedOnce'
  BY <1>1, <1>2 DEF WorkInv, AskedOnce
<1>4. \A q : (Spoiled(q)' <=> Spoiled(q)) /\ (OwnRow(q)' <=> OwnRow(q))
  BY <1>1 DEF Spoiled, OwnRow, StillAsked
<1>5. RequestsAtHand'
  BY <1>1, <1>2, <1>4 DEF WorkInv, RequestsAtHand, AtHand
<1>6. cur'.prefix = cur.prefix => CurAtHand'
  BY <1>1, <1>4 DEF WorkInv, CurAtHand, AtHand
<1>7. InPlace'
  BY <1>1 DEF InPlace, BeforeCommit, AfterCommit, Writing
<1> QED
  BY <1>3, <1>5, <1>6, <1>7

\* The next chunk is there, or there is a cause for its absence.
LEMMA NextChunkIsThere ==
  ASSUME SyncInv, Keyed(localRows), WorkInv, MoreToWrite, ~HaveNextChunk, ~disturbed
  PROVE  Cause
<1>1. cli = "write" /\ cli \in BeforeCommit /\ cur.next < NumChunks(cur.content)
  BY DEF MoreToWrite, BeforeCommit, Writing
<1>2. /\ cur \in Work /\ cur.path \in Paths /\ cur.content \in Bytes /\ cur.next \in Nat
      /\ NumChunks(cur.content) \in Nat /\ final \in [Paths -> MaybeBytes]
  BY <1>1, CurIsTyped DEF SyncInv, IndInv, TypeOK, FilesOK, InRequest, Writing, Work
<1>3. cur.next \in ChunkIndexes(cur.content)
  BY <1>1, <1>2 DEF ChunkIndexes
<1> SUFFICES ASSUME cur.kept, ~Spoiled(cur.path)
             PROVE  FALSE
  BY <1>2 DEF Cause, Spoiled
<1>4. cur.next >= cur.prefix /\ cur.next \notin cur.missing
  BY <1>1, <1>2 DEF WorkInv, HashedSoFar, HaveNextChunk, Work
<1>5. OwnRow(cur.path) /\ SameChunk(final[cur.path], cur.content, cur.next)
  BY <1>1, <1>3, <1>4 DEF WorkInv, CurAtHand, AtHand
<1>6. final[cur.path] \in Bytes
  BY <1>2 DEF Spoiled, MaybeBytes
<1>7. ReadAndVerify(final[cur.path], cur.content, cur.next)
  BY <1>2, <1>5, <1>6, SameChunkVerifies
<1> QED
  BY <1>5, <1>7, OwnRowIsFound DEF HaveNextChunk

\* The file is rebuilt from its recorded beginning, the chunks received and
\* the chunks of the old file.
LEMMA CarriesWorks ==
  ASSUME SyncInv, Keyed(localRows), WorkInv, Carries
  PROVE  WorkInv'
<1>1. /\ cli \in BeforeCommit /\ cli' \in BeforeCommit
      /\ cur'.path = cur.path /\ cur'.content = cur.content /\ cur'.kept = cur.kept
      /\ UNCHANGED <<final, remote>> /\ (~disturbed' => ~disturbed)
  BY CarriesKeeps DEF SyncInv, IndInv, TypeOK, EnvironmentOK
<1>2. /\ cur \in Work /\ cur.content \in Bytes /\ cur.path \in Paths
      /\ NumChunks(cur.content) \in Nat /\ part \in [Paths -> MaybeBytes]
  <2>1. cli \in InRequest
    BY <1>1 DEF BeforeCommit, InRequest
  <2> QED
    BY <2>1, CurIsTyped DEF SyncInv, IndInv, TypeOK, FilesOK, Work
<1>3. AskedOnce' /\ RequestsAtHand' /\ InPlace' /\ (cur'.prefix = cur.prefix => CurAtHand')
  BY CarriesAsks
<1>4. CASE disturbed'
  BY <1>3, <1>4 DEF WorkInv, CurAtHand, PartKept, HashedSoFar, CausesFound
<1>5. CASE ~disturbed' /\ (ReceiveChunks \/ OpenFresh \/ ClearTaskChunks \/ ResetTask)
  <2>1. /\ cur' = cur /\ part' = part
        /\ \/ cli = "recv" /\ cli' = "open"
           \/ cli = "open" /\ cli' = "clear" /\ cur.prefix = 0
           \/ cli \in {"clear", "reset"} /\ cli' \in {"reset", "create"}
    BY <1>5 DEF ReceiveChunks, OpenFresh, ClearTaskChunks, ResetTask, files
  <2>2. PartKept' /\ HashedSoFar' /\ CausesFound'
    BY <1>1, <1>5, <2>1 DEF WorkInv, PartKept, HashedSoFar, CausesFound
  <2> QED
    BY <1>3, <2>1, <2>2 DEF WorkInv
<1>6. CASE ~disturbed' /\ OpenResume
  <2>1. /\ cli = "open" /\ cli' = "write" /\ cur.prefix > 0
        /\ cur'.hashed = ResumedBytes /\ cur'.next = cur.prefix /\ cur'.prefix = cur.prefix
    BY <1>2, <1>6 DEF OpenResume, Work
  <2>2. cur.kept => part[cur.path] = FirstBytes(cur.content, cur.prefix)
    BY <1>1, <1>6, <2>1 DEF WorkInv, PartKept
  <2>3. cur.kept => part[cur.path] # NoFile
    <3>1. cur.prefix \in Nat /\ cur.prefix <= NumChunks(cur.content)
      BY <1>2, <2>1 DEF SyncInv, IndInv, Position, Work
    <3> QED
      BY <1>2, <2>2, <3>1, FirstBytesAre, NoFileAssumption DEF Bytes
  <2>4. PartKept' /\ HashedSoFar' /\ CausesFound'
    BY <1>1, <1>2, <2>1, <2>2, <2>3
       DEF PartKept, HashedSoFar, CausesFound, ResumedBytes, Work
  <2> QED
    BY <1>3, <2>1, <2>4 DEF WorkInv
<1>7. CASE ~disturbed' /\ OpenMismatch
  <2>1. /\ cli = "open" /\ cli' = "clear" /\ cur.prefix > 0 /\ cur' = cur
        /\ Len(ResumedBytes) # ComputePrefixBytes(cur.content, cur.prefix)
    BY <1>7 DEF OpenMismatch
  <2>2. ~cur.kept
    <3>1. cur.prefix \in Nat /\ cur.prefix <= NumChunks(cur.content)
      BY <1>2, <2>1 DEF SyncInv, IndInv, Position, Work
    <3>2. /\ FirstBytes(cur.content, cur.prefix) # NoFile
          /\ Len(FirstBytes(cur.content, cur.prefix)) = ComputePrefixBytes(cur.content, cur.prefix)
      BY <1>2, <3>1, FirstBytesAre, NoFileAssumption DEF Bytes
    <3> QED
      BY <1>1, <1>7, <2>1, <3>2 DEF WorkInv, PartKept, ResumedBytes
  <2> QED
    BY <1>3, <2>1, <2>2 DEF WorkInv, PartKept, HashedSoFar, CausesFound
<1>8. CASE ~disturbed' /\ WriterBegin
  <2>1. /\ cli = "create" /\ cli' = "write"
        /\ cur'.hashed = <<>> /\ cur'.next = 0 /\ cur'.prefix = 0
    BY <1>2, <1>8 DEF WriterBegin, Work
  <2>2. cur.kept => cur.prefix = 0
    BY <1>1, <1>8, <2>1 DEF WorkInv, PartKept
  <2>3. CurAtHand'
    BY <1>1, <1>3, <2>1, <2>2 DEF CurAtHand
  <2>4. PartKept' /\ HashedSoFar' /\ CausesFound'
    BY <1>1, <1>2, <2>1, NoBytes DEF PartKept, HashedSoFar, CausesFound
  <2> QED
    BY <1>3, <2>3, <2>4 DEF WorkInv
<1>9. CASE ~disturbed' /\ AppendChunk
  <2>1. /\ cli = "write" /\ cli' = "mark" /\ cur.next < NumChunks(cur.content) /\ cur.next \in Nat
        /\ cur'.hashed = cur.hashed \o NextChunk
        /\ cur'.next = cur.next /\ cur'.prefix = cur.prefix
    BY <1>2, <1>9 DEF AppendChunk, MoreToWrite, Work
  <2>2. FirstBytes(cur.content, cur.next) \o NextChunk = FirstBytes(cur.content, cur.next + 1)
    BY <1>2, <2>1, ChunkContinues DEF NextChunk
  <2>3. PartKept' /\ HashedSoFar' /\ CausesFound'
    BY <1>1, <1>9, <2>1, <2>2 DEF WorkInv, PartKept, HashedSoFar, CausesFound
  <2> QED
    BY <1>3, <2>1, <2>3 DEF WorkInv
<1>10. CASE ~disturbed' /\ MarkChunk
  <2>1. cli = "mark" /\ cli' = "progress" /\ cur' = cur
    BY <1>10 DEF MarkChunk
  <2>2. PartKept' /\ HashedSoFar' /\ CausesFound'
    BY <1>1, <1>10, <2>1 DEF WorkInv, PartKept, HashedSoFar, CausesFound
  <2> QED
    BY <1>3, <2>1, <2>2 DEF WorkInv
<1>11. CASE ~disturbed' /\ SaveProgress
  <2>1. /\ cli = "progress" /\ cli' = "write"
        /\ cur'.hashed = cur.hashed /\ cur'.next = cur.next + 1 /\ cur'.prefix = cur.prefix
        /\ cur.next \in Nat /\ cur.prefix \in Nat
    BY <1>2, <1>11 DEF SaveProgress, Work
  <2>2. PartKept' /\ HashedSoFar' /\ CausesFound'
    BY <1>1, <1>11, <2>1 DEF WorkInv, PartKept, HashedSoFar, CausesFound
  <2> QED
    BY <1>3, <2>1, <2>2 DEF WorkInv
<1>12. CASE ~disturbed' /\ EnterVerify
  <2>1. cli = "write" /\ cli' = "commit" /\ cur' = cur /\ cur.next = NumChunks(cur.content)
    BY <1>12 DEF EnterVerify
  <2>2. PartKept' /\ HashedSoFar' /\ CausesFound'
    BY <1>1, <1>2, <1>12, <2>1, AllBytes DEF WorkInv, PartKept, HashedSoFar, CausesFound
  <2> QED
    BY <1>3, <2>1, <2>2 DEF WorkInv
<1>13. CASE ~disturbed' /\ (ChunkUnavailable \/ CommitRefused)
  <2>1. cli' = "catch" /\ cur' = cur
    BY <1>13 DEF ChunkUnavailable, CommitRefused
  <2>2. Cause
    <3>1. CASE ChunkUnavailable
      BY <1>1, <1>13, <3>1, NextChunkIsThere DEF ChunkUnavailable
    <3>2. CASE CommitRefused
      <4>1. cli = "commit" /\ cur.hashed # cur.content
        BY <1>13, <3>2 DEF CommitRefused, HashMatches, DiskFault
      <4> QED
        BY <1>1, <1>13, <4>1 DEF WorkInv, HashedSoFar, Cause
    <3> QED
      BY <1>13, <3>1, <3>2
  <2>3. PartKept' /\ HashedSoFar' /\ CausesFound'
    BY <1>1, <2>1, <2>2 DEF PartKept, HashedSoFar, CausesFound, Cause
  <2> QED
    BY <1>3, <2>1, <2>3 DEF WorkInv
<1>14. CASE AppendFails \/ AppendLost
  BY <1>4, <1>14 DEF AppendFails, AppendLost, DiskFault
<1> QED
  BY <1>4, <1>5, <1>6, <1>7, <1>8, <1>9, <1>10, <1>11, <1>12, <1>13, <1>14 DEF Carries

\* The rename changes the one file that no request is left for, and does not
\* hide a file with the same bytes that was done before.
LEMMA CommitWorks ==
  ASSUME SyncInv, WorkInv, CommitFile
  PROVE  WorkInv'
<1>1. /\ cli = "commit" /\ cli' = "unmark"
      /\ final' = [final EXCEPT ![cur.path] = part[cur.path]]
      /\ UNCHANGED <<localRows, manifest, requests, cur, disturbed>>
  BY DEF CommitFile, localDb, server
<1>2. cur.path \in Paths /\ final \in [Paths -> MaybeBytes] /\ part[cur.path] # NoFile
  BY <1>1, CurIsTyped DEF SyncInv, IndInv, TypeOK, FilesOK, WriterOpen, InRequest, Writing
<1>3. /\ StillAsked(cur.path)
      /\ \A q \in Paths : StillAsked(q)' => StillAsked(q)
      /\ \A q \in Paths \ {cur.path} : final'[q] = final[q]
  BY <1>1, <1>2 DEF StillAsked, BeforeCommit, Writing
<1>4. ASSUME NEW r \in requests
      PROVE  /\ r.path \in Paths /\ r.path # cur.path /\ final'[r.path] = final[r.path]
             /\ Spoiled(r.path) => Spoiled(r.path)'
             /\ OwnRow(r.path) => OwnRow(r.path)'
  <2>1. r.path \in Paths /\ r.path # cur.path /\ final'[r.path] = final[r.path]
    BY <1>1, <1>3
       DEF WorkInv, AskedOnce, InRequest, Writing, SyncInv, IndInv, TypeOK, ClientOK, Request
  <2>2. OwnRow(r.path) => OwnRow(r.path)'
    BY <1>1, <2>1 DEF OwnRow
  <2>3. Spoiled(r.path) => Spoiled(r.path)'
    BY <1>3, <2>1 DEF Spoiled
  <2> QED
    BY <2>1, <2>2, <2>3
<1>5. RequestsAtHand'
  <2> SUFFICES ASSUME NEW r \in requests, ~disturbed, NEW i \in ChunkIndexes(manifest[r.path]),
                      i >= 0, i \notin r.missing, ~Spoiled(r.path)'
               PROVE  OwnRow(r.path)' /\ SameChunk(final'[r.path], manifest[r.path], i)
    BY <1>1 DEF RequestsAtHand, AtHand
  <2>1. OwnRow(r.path) /\ SameChunk(final[r.path], manifest[r.path], i)
    BY <1>1, <1>4 DEF WorkInv, RequestsAtHand, AtHand, InRequest, Writing
  <2> QED
    BY <1>4, <2>1
<1>6. AskedOnce' /\ InPlace'
  BY <1>1, <1>2 DEF WorkInv, AskedOnce, InPlace, InRequest, Writing
<1> QED
  BY <1>1, <1>5, <1>6
     DEF WorkInv, CurAtHand, PartKept, HashedSoFar, CausesFound, BeforeCommit, Writing

\* After the rename the other requests keep what they need.
LEMMA AfterwardsAsks ==
  ASSUME WorkInv, cli \in AfterCommit, cli' \in AfterCommit \cup {"next"}, ~disturbed' => ~disturbed,
         cli' # "next" => cur'.path = cur.path,
         UNCHANGED <<final, localRows, manifest, requests>>
  PROVE  WorkInv'
<1> USE DEF AfterCommit, BeforeCommit, InRequest, Writing
<1>1. \A q : (Spoiled(q)' <=> Spoiled(q)) /\ (OwnRow(q)' <=> OwnRow(q))
  BY DEF Spoiled, OwnRow, StillAsked
<1>2. RequestsAtHand'
  BY <1>1 DEF WorkInv, RequestsAtHand, AtHand
<1>3. AskedOnce' /\ InPlace'
  BY DEF WorkInv, AskedOnce, InPlace
<1> QED
  BY <1>2, <1>3 DEF WorkInv, CurAtHand, PartKept, HashedSoFar, CausesFound

\* The steps after the rename do not fail in an undisturbed run.
LEMMA TidiesWorks ==
  ASSUME SyncInv, WorkInv, Tidies
  PROVE  WorkInv'
<1>1. /\ cli \in AfterCommit /\ cur'.path = cur.path
      /\ cli' \in AfterCommit \cup {"failed"}
      /\ UNCHANGED <<final, localRows, manifest, requests, disturbed>>
  BY TidiesKeeps
<1>2. CASE cli' = "failed"
  <2>1. disturbed
    BY <1>1, <1>2
       DEF Tidies, UnmarkChunks, FinishTask, StoreTruncate, StoreCopy, WorkInv, InPlace
  <2> QED
    BY <1>1, <1>2, <2>1
       DEF WorkInv, AskedOnce, RequestsAtHand, CurAtHand, PartKept, HashedSoFar, InPlace, CausesFound,
           InRequest, BeforeCommit, AfterCommit, Writing
<1>3. CASE cli' # "failed"
  BY <1>1, <1>3, AfterwardsAsks
<1> QED
  BY <1>2, <1>3

\* The refreshed record takes the row of a file with the same bytes.
LEMMA RefreshWorks ==
  ASSUME SyncInv, WorkInv, RefreshRecord
  PROVE  WorkInv'
<1> USE DEF AfterCommit, BeforeCommit, InRequest, Writing
<1>1. /\ cli = "refresh" /\ cli' \in {"failed", "store"}
      /\ UNCHANGED <<final, manifest, requests, cur, disturbed>>
      /\ cur.path \in Paths
  BY CurIsTyped DEF RefreshRecord, SyncInv, files, server, environment
<1>2. CASE cli' = "failed"
  <2>1. disturbed
    BY <1>1, <1>2 DEF RefreshRecord, WorkInv, InPlace
  <2> QED
    BY <1>1, <1>2, <2>1
       DEF WorkInv, AskedOnce, RequestsAtHand, CurAtHand, PartKept, HashedSoFar, InPlace, CausesFound
<1>3. CASE cli' # "failed"
  <2>1. localRows' = UpsertFile(localRows, FileRow(final[cur.path], cur.path))
    BY <1>1, <1>3 DEF RefreshRecord
  <2>2. FileRow(final[cur.path], cur.path).path = cur.path
        /\ FileRow(final[cur.path], cur.path).file_id = final[cur.path]
    BY DEF FileRow
  <2>3. ASSUME NEW r \in requests
        PROVE  /\ r.path \in Paths \ {cur.path}
               /\ Spoiled(r.path) => Spoiled(r.path)'
               /\ OwnRow(r.path) => OwnRow(r.path)' \/ Spoiled(r.path)'
    <3>1. r.path \in Paths \ {cur.path} /\ ~StillAsked(cur.path)'
      BY <1>1, <1>3 DEF WorkInv, AskedOnce, StillAsked, SyncInv, IndInv, TypeOK, ClientOK, Request
    <3>2. Spoiled(r.path) => Spoiled(r.path)'
      BY <1>1, <1>3 DEF Spoiled, StillAsked
    <3>3. CASE final[cur.path] = final[r.path]
      BY <1>1, <3>1, <3>2, <3>3 DEF Spoiled
    <3>4. CASE final[cur.path] # final[r.path]
      BY <1>1, <2>1, <2>2, <3>1, <3>2, <3>4 DEF OwnRow, UpsertFile
    <3> QED
      BY <3>1, <3>2, <3>3, <3>4
  <2>4. RequestsAtHand'
    <3> SUFFICES ASSUME NEW r \in requests, ~disturbed, NEW i \in ChunkIndexes(manifest[r.path]),
                        i >= 0, i \notin r.missing, ~Spoiled(r.path)'
                 PROVE  OwnRow(r.path)' /\ SameChunk(final[r.path], manifest[r.path], i)
      BY <1>1 DEF RequestsAtHand, AtHand
    <3>1. OwnRow(r.path) /\ SameChunk(final[r.path], manifest[r.path], i)
      BY <1>1, <2>3 DEF WorkInv, RequestsAtHand, AtHand
    <3> QED
      BY <2>3, <3>1
  <2>5. AskedOnce' /\ InPlace'
    BY <1>1, <1>3 DEF WorkInv, AskedOnce, InPlace
  <2> QED
    BY <1>1, <1>3, <2>4, <2>5 DEF WorkInv, CurAtHand, PartKept, HashedSoFar, CausesFound
<1> QED
  BY <1>2, <1>3

\* Away from the requests and the transfer, nothing is in progress.
LEMMA IdleWorks ==
  ASSUME WorkInv, cli' \notin InRequest \cup {"next", "failed"},
         requests' = {} \/ requests' = requests
  PROVE  WorkInv'
  BY DEF WorkInv, AskedOnce, RequestsAtHand, CurAtHand, PartKept, HashedSoFar, InPlace, CausesFound,
     InRequest, BeforeCommit, AfterCommit, Writing

\* A failing run has a cause, or was disturbed.
LEMMA FailsWorks ==
  ASSUME SyncInv, ServerWaits, WorkInv, Fails
  PROVE  WorkInv'
<1>1. /\ cli' = "failed" /\ UNCHANGED <<final, remote, requests, cur>>
      /\ ~disturbed' => ~disturbed
  BY FailsKeeps DEF SyncInv, IndInv, TypeOK, EnvironmentOK
<1>2. ~disturbed' => Cause
  <2>1. CASE ClientGiveUp
    BY <2>1 DEF ClientGiveUp
  <2>2. CASE ReceiveFails
    BY <1>1, <2>2 DEF ReceiveFails, ServerWaits, Cause
  <2>3. CASE CatchFailure
    BY <1>1, <2>3 DEF CatchFailure, WorkInv, CausesFound
  <2> QED
    BY <2>1, <2>2, <2>3 DEF Fails
<1>3. CausesFound'
  BY <1>1, <1>2 DEF CausesFound, Cause
<1> QED
  BY <1>1, <1>3
     DEF WorkInv, AskedOnce, RequestsAtHand, CurAtHand, PartKept, HashedSoFar, InPlace,
         InRequest, BeforeCommit, AfterCommit, Writing

\* Every step keeps the client at work.
LEMMA NextWorks ==
  ASSUME SyncInv, RowsAreKeyed, CompareInv, ServerWaits, WorkInv, [Next]_vars
  PROVE  WorkInv'
<1>0. Keyed(localRows)
  BY DEF RowsAreKeyed, Keyed
<1>1. CASE Stops
  <2>1. cli' = "off" /\ requests' = {}
    BY <1>1, StopsLeave DEF StopProcess
  <2> QED
    BY <2>1, IdleWorks DEF InRequest, Writing
<1>2. CASE Elsewhere
  <2>1. /\ UNCHANGED <<remote, final, part, localRows, cli, requests, cur, disturbed>>
        /\ cli \in InRequest \cup {"next"} => manifest' = manifest
    BY <1>2, ElsewhereKeeps
  <2>2. \A q : (Spoiled(q)' <=> Spoiled(q)) /\ (OwnRow(q)' <=> OwnRow(q))
    BY <2>1 DEF Spoiled, OwnRow, StillAsked
  <2>3. RequestsAtHand' /\ CurAtHand'
    BY <2>1, <2>2 DEF WorkInv, RequestsAtHand, CurAtHand, AtHand
  <2> QED
    BY <2>1, <2>3
       DEF WorkInv, AskedOnce, PartKept, HashedSoFar, InPlace, CausesFound, Cause
<1>3. ASSUME \/ StartRun \/ ClientScanned \/ ClientConnect \/ ClientDone
             \/ \E path \in cliTodo : ClientScan(path)
      PROVE  WorkInv'
  <2>1. cli' \in {"scan", "connect", "hello", "done"} /\ requests' = requests
    BY <1>3 DEF StartRun, ClientScanned, ClientConnect, ClientDone, ClientScan
  <2> QED
    BY <2>1, IdleWorks DEF InRequest, Writing
<1>4. CASE UpsertStoredObject
  <2>1. /\ cli = "bind" /\ cli' = "next"
        /\ UNCHANGED <<final, localRows, manifest, requests, disturbed>>
    BY <1>4 DEF UpsertStoredObject, files, server, environment
  <2> QED
    BY <2>1, AfterwardsAsks DEF AfterCommit
<1>5. ASSUME NEW p \in Paths, RemoteEdit(p) \/ LocalEdit(p)
      PROVE  WorkInv'
  <2>1. UNCHANGED <<cli, requests, cur>> /\ disturbed' = (cli # "off")
    BY <1>5 DEF RemoteEdit, LocalEdit, client
  <2>2. AskedOnce'
    BY <2>1 DEF WorkInv, AskedOnce
  <2> QED
    BY <2>1, <2>2
       DEF WorkInv, RequestsAtHand, CurAtHand, PartKept, HashedSoFar, InPlace, CausesFound,
           InRequest, BeforeCommit, AfterCommit, Writing
<1> QED
  BY <1>0, <1>1, <1>2, <1>3, <1>4, <1>5, CarriesWorks, TidiesWorks, FailsWorks, CompareAsks,
     BeginAsks, CommitWorks, RefreshWorks, ClientCases

FailureInv == CompareInv /\ RemoteCurrent /\ ServerWaits /\ WorkInv

\* Whatever crashes, edits and lost bytes came before: when a run fails that
\* nothing disturbed, the .part file of the file being worked on was not what
\* had been recorded of it, or the file was deleted from one of the roots, or
\* another local file has its bytes.  In particular every transfer whose .part
\* file was kept is resumed, and ends with the announced hash.
THEOREM FailuresHaveCauses == Spec => []FailuresAreExplained
<1>1. Init => FailureInv
  <2>1. Init => RemoteCurrent /\ ServerWaits /\ WorkInv
    BY DEF Init, RemoteCurrent, ServerWaits, WorkInv, AskedOnce, RequestsAtHand, CurAtHand, PartKept,
       HashedSoFar, InPlace, CausesFound, InRequest, BeforeCommit, AfterCommit, Writing
  <2> QED
    BY <2>1, InitCompare DEF FailureInv
<1>2. SyncInv /\ RowsAreKeyed /\ FailureInv /\ [Next]_vars => FailureInv'
  BY NextCompare, NextRemoteCurrent, NextServerWaits, NextWorks DEF FailureInv
<1>3. FailureInv => FailuresAreExplained
  BY DEF FailureInv, WorkInv, CausesFound, Cause, FailuresAreExplained
<1> QED
  BY <1>1, <1>2, <1>3, SyncInvariant, RowsKeyed, PTL DEF Spec
=============================================================================
