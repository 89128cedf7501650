---------------------------- MODULE SyncV1Proofs ----------------------------
(***************************************************************************)
(* The inductive invariant of SyncV1, its parts, and one lemma per group   *)
(* of actions that preserves it; and, from it, that SyncV1 implements      *)
(* AtomicPull.                                                             *)
(***************************************************************************)
EXTENDS SyncV1, SequenceTheorems, TLAPS

\* NumChunks rounds up: it is the least number of chunks that hold the content.
LEMMA NumChunksIsCeiling ==
  ASSUME NEW s \in Bytes
  PROVE  /\ NumChunks(s) \in Nat
         /\ Len(s) <= NumChunks(s) * ChunkSize
         /\ NumChunks(s) * ChunkSize < Len(s) + ChunkSize
  BY ChunkSizeAssumption DEF NumChunks, Bytes

\* Every chunk starts inside the content.
LEMMA ChunkStartsInside ==
  ASSUME NEW s \in Bytes, NEW i \in Nat, i < NumChunks(s)
  PROVE  i * ChunkSize < Len(s)
<1>1. NumChunks(s) \in Nat /\ NumChunks(s) * ChunkSize < Len(s) + ChunkSize
  BY NumChunksIsCeiling
<1>2. (i + 1) * ChunkSize <= NumChunks(s) * ChunkSize
  BY <1>1, ChunkSizeAssumption
<1>3. (i + 1) * ChunkSize = i * ChunkSize + ChunkSize
  BY ChunkSizeAssumption
<1> QED
  BY <1>1, <1>2, <1>3, ChunkSizeAssumption DEF Bytes

\* A chunk is a sequence of bytes.
LEMMA ChunkIsBytes ==
  ASSUME NEW s \in Bytes, NEW i \in Nat, i < NumChunks(s)
  PROVE  Chunk(s, i) \in Bytes
<1>1. i * ChunkSize \in Nat /\ i * ChunkSize < Len(s)
  BY ChunkStartsInside, ChunkSizeAssumption
<1>2. (i + 1) * ChunkSize \in Nat /\ (i + 1) * ChunkSize >= i * ChunkSize
  BY ChunkSizeAssumption
<1>3. ChunkEnd(s, i) \in (i * ChunkSize)..Len(s)
  BY <1>1, <1>2 DEF ChunkEnd, Bytes
<1> QED
  BY <1>1, <1>3, SubSeqProperties DEF Chunk, Bytes

\* Chunk indexes are natural numbers.
LEMMA ChunkIndexesAreNat ==
  ASSUME NEW s \in Bytes
  PROVE  ChunkIndexes(s) \subseteq Nat
  BY NumChunksIsCeiling DEF ChunkIndexes

\* When the first n chunks are recorded, ComputeResumePrefixCount returns n.
LEMMA PrefixCountIsExact ==
  ASSUME NEW c \in Bytes, NEW n \in 0..NumChunks(c), NEW rows, rows = FirstChunks(c, n)
  PROVE  ComputeResumePrefixCount(rows, c) = n
<1>0. NumChunks(c) \in Nat
  BY NumChunksIsCeiling
<1>1. \A i \in Nat : Recorded(rows, c, i) <=> i < n
  BY <1>0 DEF Recorded, FirstChunks
<1>2. \A m \in 0..NumChunks(c) :
         (/\ \A i \in 0..(m - 1) : Recorded(rows, c, i)
          /\ m < NumChunks(c) => ~Recorded(rows, c, m)) <=> m = n
  BY <1>0, <1>1
<1> QED
  BY <1>0, <1>2 DEF ComputeResumePrefixCount

\* Marking the chunk behind a recorded prefix makes the prefix one longer.
LEMMA MarkingExtendsPrefix ==
  ASSUME NEW c \in Bytes, NEW n \in Nat
  PROVE  MarkTaskChunkComplete(FirstChunks(c, n), c, n) = FirstChunks(c, n + 1)
<1>1. \A i \in 0..((n + 1) - 1) : i \in 0..(n - 1) \/ i = n
  OBVIOUS
<1>2. \A r \in FirstChunks(c, n) : r[1] # n
  BY DEF FirstChunks
<1> QED
  BY <1>1, <1>2 DEF FirstChunks, MarkTaskChunkComplete

\* The prefix of length 0 is empty.
LEMMA NoChunks ==
  ASSUME NEW c
  PROVE  FirstChunks(c, 0) = {}
  BY DEF FirstChunks

\* The empty file is a file.
LEMMA EmptyIsBytes == <<>> \in Bytes
  BY DEF Bytes

-----------------------------------------------------------------------------
\* Both threads start together, and the client has requests only after it
\* connected.
Handshake ==
  /\ cli = "off" => srv = "off"
  /\ srv \in {"off", "scan", "listen"} =>
       cli \in {"off", "scan", "connect", "failed"} /\ requests = {}

\* Where the client stands in the recorded chunks of its task: up to the
\* moment a chunk is marked they are the chunks before the next one.
Position ==
  /\ cli \in {"recv", "open"} =>
       /\ cur.prefix <= NumChunks(cur.content)
       /\ taskChunks[CurTask] = FirstChunks(cur.content, cur.prefix)
  /\ cli \in {"reset", "create"} => taskChunks[CurTask] = {}
  /\ cli = "write" =>
       /\ cur.next <= NumChunks(cur.content)
       /\ taskChunks[CurTask] = FirstChunks(cur.content, cur.next)
  /\ cli = "mark" =>
       /\ cur.next < NumChunks(cur.content)
       /\ taskChunks[CurTask] = FirstChunks(cur.content, cur.next)
  /\ cli = "progress" =>
       /\ cur.next < NumChunks(cur.content)
       /\ taskChunks[CurTask] = FirstChunks(cur.content, cur.next + 1)

IndInv == TypeOK /\ RecordedIsPrefix /\ Handshake /\ Position

\* A part of the invariant whose variables a step leaves alone is preserved.
LEMMA UnchangedParts ==
  ASSUME IndInv
  PROVE  /\ UNCHANGED files => FilesOK'
         /\ UNCHANGED localDb => LocalDbOK'
         /\ UNCHANGED server => ServerOK'
         /\ UNCHANGED environment => EnvironmentOK'
         /\ UNCHANGED <<cliTodo, store>> => ScanOK'
         /\ UNCHANGED taskChunks => RecordedIsPrefix'
         /\ UNCHANGED <<srv, cli, requests>> => Handshake'
         /\ UNCHANGED <<manifest, cli, requests, cur>> => ClientOK'
         /\ UNCHANGED <<taskChunks, cli, cur>> => Position'
<1> USE DEF IndInv, TypeOK
<1>1. UNCHANGED files => FilesOK'
  BY DEF files, FilesOK
<1>2. UNCHANGED localDb => LocalDbOK'
  BY DEF localDb, LocalDbOK
<1>3. UNCHANGED server => ServerOK'
  BY DEF server, ServerOK
<1>4. UNCHANGED environment => EnvironmentOK'
  BY DEF environment, EnvironmentOK
<1>5. UNCHANGED taskChunks => RecordedIsPrefix'
  BY DEF RecordedIsPrefix
<1>6. UNCHANGED <<srv, cli, requests>> => Handshake'
  BY DEF Handshake
<1>7. UNCHANGED <<manifest, cli, requests, cur>> => ClientOK'
  BY DEF ClientOK
<1>8. UNCHANGED <<taskChunks, cli, cur>> => Position'
  BY DEF Position, CurTask
<1>9. UNCHANGED <<cliTodo, store>> => ScanOK'
  BY DEF ScanOK
<1> QED
  BY <1>1, <1>2, <1>3, <1>4, <1>5, <1>6, <1>7, <1>8, <1>9

\* What the invariant says about the request being worked on.
LEMMA CurIsTyped ==
  ASSUME IndInv, cli \in InRequest
  PROVE  /\ cur \in Work /\ cur.path \in Paths /\ cur.content \in Content
         /\ cur.content \in Bytes /\ CurTask \in TaskIds
         /\ NumChunks(cur.content) \in Nat
         /\ cur.content = manifest[cur.path]
<1>1. cur \in Work /\ cur.content = manifest[cur.path]
  BY DEF IndInv, TypeOK, ClientOK
<1>2. cur.path \in Paths /\ cur.content \in Content /\ cur.content \in Bytes
  BY <1>1, ContentAssumption DEF Work
<1>3. NumChunks(cur.content) \in Nat
  BY <1>2, NumChunksIsCeiling
<1> QED
  BY <1>1, <1>2, <1>3 DEF CurTask, TaskIds

\* The file of a task has a natural number of chunks.
LEMMA NumChunksOfTask ==
  ASSUME NEW t \in TaskIds
  PROVE  NumChunks(t[1]) \in Nat /\ t[1] \in Bytes
  BY NumChunksIsCeiling, ContentAssumption DEF TaskIds

\* Saving the task of the request being worked on.
LEMMA SetTaskKeepsTypes ==
  ASSUME IndInv, NEW t \in TaskIds, NEW st \in TaskStates, NEW n \in Nat,
         n <= NumChunks(t[1]), SetTask(t, st, n), UNCHANGED <<localRows, taskChunks, bound>>
  PROVE  LocalDbOK'
<1>1. task' \in [TaskIds -> [state : TaskStates, completed : Nat]]
  BY DEF IndInv, TypeOK, LocalDbOK, SetTask
<1>2. \A u \in TaskIds : task'[u].completed <= NumChunks(u[1])
  BY DEF IndInv, TypeOK, LocalDbOK, SetTask
<1> QED
  BY <1>1, <1>2 DEF IndInv, TypeOK, LocalDbOK

\* Deleting the recorded chunks of a task leaves a prefix: the empty one.
LEMMA ClearedChunks ==
  ASSUME IndInv, NEW t \in TaskIds, taskChunks' = [taskChunks EXCEPT ![t] = {}],
         UNCHANGED <<localRows, task, bound>>
  PROVE  LocalDbOK' /\ RecordedIsPrefix' /\ taskChunks'[t] = {}
<1>1. /\ taskChunks' \in [TaskIds -> SUBSET (Nat \X Bytes)] /\ taskChunks'[t] = {}
      /\ \A u \in TaskIds : u # t => taskChunks'[u] = taskChunks[u]
  BY DEF IndInv, TypeOK, LocalDbOK
<1>2. LocalDbOK'
  BY <1>1 DEF IndInv, TypeOK, LocalDbOK
<1>3. 0 \in 0..NumChunks(t[1]) /\ taskChunks'[t] = FirstChunks(t[1], 0)
  BY <1>1, NumChunksOfTask, NoChunks
<1>4. RecordedIsPrefix'
  BY <1>1, <1>3 DEF IndInv, RecordedIsPrefix
<1> QED
  BY <1>1, <1>2, <1>4

-----------------------------------------------------------------------------
\* The invariant holds initially.
LEMMA InitEstablishes == Init => IndInv
<1> SUFFICES ASSUME Init PROVE IndInv
  OBVIOUS
<1> USE DEF Init
<1>1. FilesOK
  BY EmptyIsBytes, ContentAssumption DEF FilesOK, Announced, MaybeBytes
<1>2. LocalDbOK
  <2>1. task \in [TaskIds -> [state : TaskStates, completed : Nat]]
    BY DEF NoTask, TaskStates
  <2>2. \A t \in TaskIds : task[t].completed <= NumChunks(t[1])
    BY NumChunksOfTask DEF NoTask
  <2> QED
    BY <2>1, <2>2 DEF LocalDbOK
<1>3. ServerOK
  BY DEF ServerOK, SrvStates, Announced
<1>4. ClientOK
  BY DEF ClientOK, CliStates, InRequest, Writing
<1>5. EnvironmentOK
  <2>1. \A p \in Paths : remote[p] # NoFile => <<remote[p], p>> \in TaskIds
    BY <1>1 DEF FilesOK, Announced, TaskIds
  <2>2. published = {<<remote[p], p>> : p \in {q \in Paths : remote[q] # NoFile}}
    OBVIOUS
  <2>3. published \subseteq TaskIds
    BY Zenon, <2>1, <2>2
  <2> QED
    BY <2>3 DEF EnvironmentOK
<1>6. RecordedIsPrefix
  <2> SUFFICES ASSUME NEW t \in TaskIds
               PROVE  \E n \in 0..NumChunks(t[1]) : taskChunks[t] = FirstChunks(t[1], n)
    BY DEF RecordedIsPrefix
  <2>1. taskChunks[t] = FirstChunks(t[1], 0) /\ 0 \in 0..NumChunks(t[1])
    BY NoChunks, NumChunksOfTask
  <2> QED
    BY <2>1
<1>7. Handshake /\ Position /\ ScanOK
  BY DEF Handshake, Position, ScanOK
<1> QED
  BY <1>1, <1>2, <1>3, <1>4, <1>5, <1>6, <1>7 DEF IndInv, TypeOK

\* The end of the process, orderly or not.
LEMMA StopStep ==
  ASSUME IndInv, StopProcess, faults' \in Nat, FilesOK', UNCHANGED localDb
  PROVE  IndInv'
<1>1. LocalDbOK' /\ RecordedIsPrefix'
  BY UnchangedParts DEF localDb
<1>2. ServerOK' /\ ScanOK' /\ ClientOK' /\ Handshake' /\ Position'
  BY DEF StopProcess, IndInv, TypeOK, ServerOK, ScanOK, ClientOK, Handshake, Position, SrvStates,
         CliStates, InRequest, Writing, Announced
<1>3. disturbed' \in BOOLEAN
  BY Zenon DEF StopProcess
<1>4. EnvironmentOK'
  BY <1>3 DEF StopProcess, IndInv, TypeOK, EnvironmentOK
<1> QED
  BY <1>1, <1>2, <1>4 DEF IndInv, TypeOK

\* Starting, ending and killing the process preserve the invariant.
LEMMA ProcessSteps ==
  ASSUME IndInv, StartRun \/ MainReturns \/ KillHungRun \/ Crash
  PROVE  IndInv'
<1>1. CASE StartRun
  <2>1. FilesOK' /\ LocalDbOK' /\ EnvironmentOK' /\ RecordedIsPrefix'
    BY <1>1, UnchangedParts DEF StartRun, localDb
  <2>2. ServerOK'
    BY <1>1 DEF StartRun, IndInv, TypeOK, ServerOK, SrvStates
  <2>3. ScanOK'
    BY <1>1 DEF StartRun, LocalPaths, ScanOK, files
  <2>4. ClientOK' /\ Handshake' /\ Position'
    BY <1>1 DEF StartRun, IndInv, TypeOK, ClientOK, Handshake, Position, CliStates, InRequest,
                Writing, SrvStates, ServerOK
  <2> QED
    BY <2>1, <2>2, <2>3, <2>4 DEF IndInv, TypeOK
<1>2. CASE MainReturns
  BY <1>2, StopStep, UnchangedParts DEF MainReturns, IndInv, TypeOK, EnvironmentOK
<1>3. CASE KillHungRun
  BY <1>3, StopStep, UnchangedParts DEF KillHungRun, IndInv, TypeOK, EnvironmentOK
<1>4. CASE Crash
  BY <1>4, StopStep, UnchangedParts DEF Crash, IndInv, TypeOK, EnvironmentOK
<1> QED
  BY <1>1, <1>2, <1>3, <1>4

\* The steps of the server thread preserve the invariant.
LEMMA ServerSteps ==
  ASSUME IndInv, ServerStep
  PROVE  IndInv'
<1>1. ASSUME NEW p \in Paths, ServerScan(p)
      PROVE  IndInv'
  <2>1. /\ FilesOK' /\ LocalDbOK' /\ ScanOK' /\ EnvironmentOK'
        /\ RecordedIsPrefix' /\ Handshake' /\ ClientOK' /\ Position'
    BY <1>1, UnchangedParts DEF ServerScan, files, localDb, client
  <2>2. \A r \in remoteRows' : r.file_id \in Content
    BY <1>1 DEF ServerScan, UpsertFile, FileRow, IndInv, TypeOK, ServerOK, FilesOK, Announced
  <2>3. ServerOK'
    BY <1>1, <2>2 DEF ServerScan, IndInv, TypeOK, ServerOK
  <2> QED
    BY <2>1, <2>3 DEF IndInv, TypeOK
<1>2. CASE ServerListen
  <2>1. FilesOK' /\ LocalDbOK' /\ ScanOK' /\ EnvironmentOK' /\ RecordedIsPrefix'
    BY <1>2, UnchangedParts DEF ServerListen, files, localDb, client
  <2>2. manifest' \in [Paths -> Announced]
    <3>1. \A p \in Paths : HasRow(remoteRows, p) => RowOf(remoteRows, p) \in remoteRows
      BY DEF HasRow, RowOf
    <3> QED
      BY <1>2, <3>1 DEF ServerListen, BuildManifest, IndInv, TypeOK, ServerOK, Announced
  <2>3. ServerOK'
    BY <1>2, <2>2 DEF ServerListen, IndInv, TypeOK, ServerOK, SrvStates
  <2>4. cli \in {"off", "scan", "connect", "failed"} /\ requests = {}
    BY <1>2 DEF ServerListen, IndInv, Handshake
  <2>5. ClientOK' /\ Handshake'
    BY <1>2, <2>4 DEF ServerListen, client, IndInv, TypeOK, ClientOK, Handshake, InRequest, Writing
  <2>6. Position'
    BY <1>2, UnchangedParts DEF ServerListen, localDb, client
  <2> QED
    BY <2>1, <2>3, <2>5, <2>6 DEF IndInv, TypeOK
<1>3. CASE ServerSendChunk
  <2>1. /\ outstanding' \subseteq outstanding /\ srv = "serve" /\ srv' \in {"serve", "dead"}
        /\ UNCHANGED <<files, localDb, client, environment, remoteRows, srvTodo, manifest>>
    BY <1>3 DEF ServerSendChunk
  <2>2. /\ FilesOK' /\ LocalDbOK' /\ ScanOK' /\ EnvironmentOK'
        /\ RecordedIsPrefix' /\ ClientOK' /\ Position'
    BY <2>1, UnchangedParts DEF files, localDb, client
  <2>3. ServerOK' /\ Handshake'
    BY <2>1 DEF client, IndInv, TypeOK, ServerOK, SrvStates, Handshake
  <2> QED
    BY <2>2, <2>3 DEF IndInv, TypeOK
<1>4. CASE ServerEnd
  <2>1. /\ FilesOK' /\ LocalDbOK' /\ ScanOK' /\ EnvironmentOK'
        /\ RecordedIsPrefix' /\ ClientOK' /\ Position'
    BY <1>4, UnchangedParts DEF ServerEnd, files, localDb, client
  <2>2. ServerOK' /\ Handshake'
    BY <1>4 DEF ServerEnd, client, IndInv, TypeOK, ServerOK, SrvStates, Handshake
  <2> QED
    BY <2>1, <2>2 DEF IndInv, TypeOK
<1> QED
  BY <1>1, <1>2, <1>3, <1>4 DEF ServerStep

-----------------------------------------------------------------------------
\* The client's scan, connect, compare and end preserve the invariant.
LEMMA SetupSteps ==
  ASSUME IndInv, ClientSetup \/ ClientGiveUp
  PROVE  IndInv'
<1>1. ASSUME NEW path \in cliTodo, ClientScan(path)
      PROVE  IndInv'
  <2>1. /\ FilesOK' /\ ServerOK' /\ EnvironmentOK'
        /\ RecordedIsPrefix' /\ Handshake' /\ ClientOK' /\ Position'
    BY <1>1, UnchangedParts DEF ClientScan, server
  <2>2. LocalFile(path) # NoFile => LocalFile(path) \in Bytes
    BY DEF LocalFile, StoreKey, IndInv, TypeOK, ScanOK, FilesOK, MaybeBytes
  <2>3. \A r \in localRows' : r.file_id \in Bytes
    BY <1>1, <2>2 DEF ClientScan, UpsertFile, FileRow, IndInv, TypeOK, LocalDbOK
  <2>4. LocalDbOK'
    BY <1>1, <2>3 DEF ClientScan, IndInv, TypeOK, LocalDbOK
  <2>5. ScanOK'
    BY <1>1 DEF ClientScan, files, IndInv, TypeOK, ScanOK
  <2> QED
    BY <2>1, <2>4, <2>5 DEF IndInv, TypeOK
<1>2. CASE ClientScanned
  <2>1. FilesOK' /\ LocalDbOK' /\ ServerOK' /\ ScanOK' /\ EnvironmentOK' /\ RecordedIsPrefix'
    BY <1>2, UnchangedParts DEF ClientScanned, files, localDb
  <2>2. ClientOK' /\ Handshake' /\ Position'
    BY <1>2 DEF ClientScanned, server, IndInv, TypeOK, ClientOK, Handshake, Position, CliStates,
                InRequest, Writing
  <2> QED
    BY <2>1, <2>2 DEF IndInv, TypeOK
<1>3. CASE ClientConnect
  <2>1. FilesOK' /\ LocalDbOK' /\ ScanOK' /\ EnvironmentOK' /\ RecordedIsPrefix'
    BY <1>3, UnchangedParts DEF ClientConnect, files, localDb
  <2>2. ServerOK'
    BY <1>3 DEF ClientConnect, IndInv, TypeOK, ServerOK, SrvStates
  <2>3. ClientOK' /\ Handshake' /\ Position'
    BY <1>3 DEF ClientConnect, IndInv, TypeOK, ClientOK, Handshake, Position, CliStates,
                InRequest, Writing
  <2> QED
    BY <2>1, <2>2, <2>3 DEF IndInv, TypeOK
<1>4. CASE ClientGiveUp
  <2>1. FilesOK' /\ LocalDbOK' /\ ServerOK' /\ ScanOK' /\ RecordedIsPrefix'
    BY <1>4, UnchangedParts DEF ClientGiveUp, files, localDb
  <2>2. ClientOK' /\ Handshake' /\ Position'
    BY <1>4 DEF ClientGiveUp, server, IndInv, TypeOK, ClientOK, Handshake, Position, CliStates,
                InRequest, Writing
  <2>3. disturbed' \in BOOLEAN
    BY <1>4, Zenon DEF ClientGiveUp
  <2>4. EnvironmentOK'
    BY <1>4, <2>3 DEF ClientGiveUp, IndInv, TypeOK, EnvironmentOK
  <2> QED
    BY <2>1, <2>2, <2>4 DEF IndInv, TypeOK
<1>5. CASE ClientCompare
  <2>1. FilesOK' /\ LocalDbOK' /\ ServerOK' /\ ScanOK' /\ EnvironmentOK' /\ RecordedIsPrefix'
    BY <1>5, UnchangedParts DEF ClientCompare, files, localDb
  <2>2. ASSUME NEW r \in requests'
        PROVE  r \in Request /\ manifest'[r.path] \in Content
    <3>1. PICK p \in Paths : /\ NeedsRequest(localRows, p, manifest[p])
                             /\ r = [path |-> p,
                                     missing |-> MissingChunks(localRows, p, manifest[p])]
      BY <1>5, <2>2 DEF ClientCompare, Compare
    <3>2. manifest[p] \in Content /\ manifest[p] \in Bytes
      BY <3>1, ContentAssumption DEF NeedsRequest, IndInv, TypeOK, ServerOK, Announced
    <3>3. MissingChunks(localRows, p, manifest[p]) \subseteq ChunkIndexes(manifest[p])
      BY DEF MissingChunks, DifferingChunks
    <3>4. r.path \in Paths /\ r.missing \subseteq Nat
      BY <3>1, <3>2, <3>3, ChunkIndexesAreNat
    <3> QED
      BY <1>5, <3>1, <3>2, <3>4 DEF ClientCompare, server, Request
  <2>3. srv \notin {"off", "scan", "listen"}
    BY <1>5 DEF ClientCompare, IndInv, Handshake
  <2>4. ClientOK' /\ Handshake' /\ Position'
    BY <1>5, <2>2, <2>3 DEF ClientCompare, server, ClientOK, Handshake, Position, CliStates,
                            InRequest, Writing
  <2> QED
    BY <2>1, <2>4 DEF IndInv, TypeOK
<1>6. CASE ClientDone
  <2>1. FilesOK' /\ LocalDbOK' /\ ServerOK' /\ ScanOK' /\ EnvironmentOK' /\ RecordedIsPrefix'
    BY <1>6, UnchangedParts DEF ClientDone, files, localDb
  <2>2. ClientOK' /\ Handshake' /\ Position'
    BY <1>6 DEF ClientDone, server, IndInv, TypeOK, ClientOK, Handshake, Position, CliStates,
                InRequest, Writing
  <2> QED
    BY <2>1, <2>2 DEF IndInv, TypeOK
<1> QED
  BY <1>1, <1>2, <1>3, <1>4, <1>5, <1>6 DEF ClientSetup

-----------------------------------------------------------------------------
\* A step of the client inside a request leaves the server, the other
\* requests and the identity of the request alone.
LEMMA RequestStep ==
  ASSUME IndInv, cli \in InRequest, UNCHANGED <<server, cliTodo, requests>>,
         cli' \in CliStates \ {"off"},
         cli' \in InRequest => /\ cur' \in Work
                               /\ cur'.path = cur.path /\ cur'.content = cur.content
  PROVE  ServerOK' /\ ClientOK' /\ Handshake'
<1>1. ServerOK'
  BY UnchangedParts
<1>2. ClientOK'
  BY DEF server, IndInv, TypeOK, ClientOK
<1>3. Handshake'
  BY DEF server, IndInv, Handshake, InRequest, Writing
<1> QED
  BY <1>1, <1>2, <1>3

\* Beginning a request preserves the invariant.
LEMMA BeginTaskStep ==
  ASSUME IndInv, NEW r \in requests, BeginTask(r)
  PROVE  IndInv'
<1> DEFINE content == manifest[r.path]
           t       == <<content, r.path>>
           prefix  == ComputeResumePrefixCount(taskChunks[t], content)
           trimmed == TrimCompletedChunks(r.missing, prefix)
           kept    == prefix = 0 \/ part[r.path] = FirstBytes(content, prefix)
<1>1. r.path \in Paths /\ r.missing \subseteq Nat /\ content \in Content
  BY DEF IndInv, TypeOK, ClientOK, Request
<1>2. t \in TaskIds /\ t[1] = content /\ content \in Bytes /\ NumChunks(content) \in Nat
  BY <1>1, ContentAssumption, NumChunksIsCeiling DEF TaskIds
<1>3. PICK n \in 0..NumChunks(content) : taskChunks[t] = FirstChunks(content, n)
  BY <1>2 DEF IndInv, RecordedIsPrefix
<1>4. prefix = n
  BY <1>2, <1>3, PrefixCountIsExact
<1>5. /\ cur' = [path |-> r.path, content |-> content, missing |-> trimmed,
                 prefix |-> prefix, next |-> 0, hashed |-> <<>>, source |-> <<>>,
                 kept |-> kept]
      /\ outstanding' = trimmed /\ requests' = requests \ {r}
      /\ cli = "next" /\ cli' = "recv"
      /\ SetTask(t, "running", task[t].completed)
      /\ UNCHANGED <<files, localRows, taskChunks, bound, environment,
                     remoteRows, srv, srvTodo, manifest, cliTodo>>
  BY DEF BeginTask
<1>6. trimmed \subseteq Nat
  BY <1>1 DEF TrimCompletedChunks
<1>7. FilesOK' /\ ScanOK' /\ EnvironmentOK' /\ RecordedIsPrefix'
  BY <1>5, UnchangedParts DEF files
<1>8. LocalDbOK'
  <2>1. task[t].completed \in Nat /\ task[t].completed <= NumChunks(t[1])
    BY <1>2 DEF IndInv, TypeOK, LocalDbOK
  <2> QED
    BY <1>2, <1>5, <2>1, SetTaskKeepsTypes DEF TaskStates
<1>9. ServerOK' /\ Handshake'
  BY <1>5, <1>6 DEF IndInv, TypeOK, ServerOK, Handshake
<1>10. cur' \in Work /\ cur'.content = manifest'[cur'.path]
  <2>1. prefix \in Nat /\ kept \in BOOLEAN /\ manifest' = manifest
    BY <1>2, <1>3, <1>4, <1>5
  <2> HIDE DEF kept, prefix, trimmed
  <2> QED
    BY <1>1, <1>2, <1>5, <1>6, <2>1, EmptyIsBytes DEF Work
<1>11. ClientOK'
  BY <1>5, <1>10 DEF IndInv, TypeOK, ClientOK, CliStates, InRequest
<1>12. Position'
  BY <1>2, <1>3, <1>4, <1>5 DEF Position, CurTask
<1> QED
  BY <1>7, <1>8, <1>9, <1>11, <1>12 DEF IndInv, TypeOK

\* Receiving chunks and opening the .part file preserve the invariant.
LEMMA TransferSteps ==
  ASSUME IndInv, ClientTransfer
  PROVE  IndInv'
<1> USE DEF CliStates, InRequest, Writing
<1>1. CASE \E r \in requests : BeginTask(r)
  BY <1>1, BeginTaskStep
<1>2. CASE ReceiveChunks
  <2>1. FilesOK' /\ LocalDbOK' /\ ScanOK' /\ EnvironmentOK' /\ RecordedIsPrefix'
    BY <1>2, UnchangedParts DEF ReceiveChunks, files, localDb
  <2>2. ServerOK' /\ ClientOK' /\ Handshake'
    BY <1>2, CurIsTyped, RequestStep DEF ReceiveChunks
  <2>3. Position'
    BY <1>2 DEF ReceiveChunks, localDb, IndInv, Position, CurTask
  <2> QED
    BY <2>1, <2>2, <2>3 DEF IndInv, TypeOK
<1>3. CASE ReceiveFails
  <2>1. FilesOK' /\ LocalDbOK' /\ ScanOK' /\ EnvironmentOK' /\ RecordedIsPrefix'
    BY <1>3, UnchangedParts DEF ReceiveFails, files, localDb
  <2>2. ServerOK' /\ ClientOK' /\ Handshake'
    BY <1>3, RequestStep DEF ReceiveFails
  <2>3. Position'
    BY <1>3 DEF ReceiveFails, Position
  <2> QED
    BY <2>1, <2>2, <2>3 DEF IndInv, TypeOK
<1>4. CASE OpenResume
  <2>1. ScanOK' /\ EnvironmentOK' /\ RecordedIsPrefix'
    BY <1>4, UnchangedParts DEF OpenResume
  <2>2. ResumedBytes \in Bytes /\ cur.path \in Paths
    BY <1>4, CurIsTyped, EmptyIsBytes DEF OpenResume, ResumedBytes, IndInv, TypeOK, FilesOK, MaybeBytes
  <2>3. FilesOK'
    BY <1>4, <2>2 DEF OpenResume, IndInv, TypeOK, FilesOK, MaybeBytes
  <2>4. cur.prefix \in Nat /\ cur.prefix <= NumChunks(cur.content)
    BY <1>4, CurIsTyped DEF OpenResume, IndInv, Position, Work
  <2>5. LocalDbOK'
    BY <1>4, <2>4, CurIsTyped, SetTaskKeepsTypes DEF OpenResume, CurTask, TaskStates
  <2>6. cur' \in Work /\ cur'.path = cur.path /\ cur'.content = cur.content
    BY <1>4, <2>2, <2>4, CurIsTyped DEF OpenResume, Work
  <2>7. ServerOK' /\ ClientOK' /\ Handshake'
    BY <1>4, <2>6, RequestStep DEF OpenResume
  <2>8. cur'.next = cur.prefix
    BY <1>4, CurIsTyped DEF OpenResume, Work
  <2>9. Position'
    BY <1>4, <2>4, <2>6, <2>8 DEF OpenResume, IndInv, Position, CurTask
  <2> QED
    BY <2>1, <2>3, <2>5, <2>7, <2>9 DEF IndInv, TypeOK
<1>5. CASE OpenMismatch
  <2>1. LocalDbOK' /\ ScanOK' /\ EnvironmentOK' /\ RecordedIsPrefix'
    BY <1>5, UnchangedParts DEF OpenMismatch, localDb
  <2>2. FilesOK'
    BY <1>5, CurIsTyped DEF OpenMismatch, IndInv, TypeOK, FilesOK, MaybeBytes
  <2>3. ServerOK' /\ ClientOK' /\ Handshake'
    BY <1>5, CurIsTyped, RequestStep DEF OpenMismatch
  <2>4. Position'
    BY <1>5 DEF OpenMismatch, Position
  <2> QED
    BY <2>1, <2>2, <2>3, <2>4 DEF IndInv, TypeOK
<1>6. CASE OpenFresh
  <2>1. FilesOK' /\ LocalDbOK' /\ ScanOK' /\ EnvironmentOK' /\ RecordedIsPrefix'
    BY <1>6, UnchangedParts DEF OpenFresh, files, localDb
  <2>2. ServerOK' /\ ClientOK' /\ Handshake'
    BY <1>6, CurIsTyped, RequestStep DEF OpenFresh
  <2>3. Position'
    BY <1>6 DEF OpenFresh, Position
  <2> QED
    BY <2>1, <2>2, <2>3 DEF IndInv, TypeOK
<1>7. CASE ClearTaskChunks
  <2>1. FilesOK' /\ ScanOK' /\ EnvironmentOK'
    BY <1>7, UnchangedParts DEF ClearTaskChunks, files
  <2>2. LocalDbOK' /\ RecordedIsPrefix' /\ taskChunks'[CurTask] = {}
    BY <1>7, CurIsTyped, ClearedChunks DEF ClearTaskChunks
  <2>3. ServerOK' /\ ClientOK' /\ Handshake'
    BY <1>7, CurIsTyped, RequestStep DEF ClearTaskChunks
  <2>4. Position'
    BY <1>7, <2>2 DEF ClearTaskChunks, Position, CurTask
  <2> QED
    BY <2>1, <2>2, <2>3, <2>4 DEF IndInv, TypeOK
<1>8. CASE ResetTask
  <2>1. FilesOK' /\ ScanOK' /\ EnvironmentOK' /\ RecordedIsPrefix'
    BY <1>8, UnchangedParts DEF ResetTask, files
  <2>2. LocalDbOK'
    BY <1>8, CurIsTyped, SetTaskKeepsTypes DEF ResetTask, CurTask, TaskStates
  <2>3. ServerOK' /\ ClientOK' /\ Handshake'
    BY <1>8, CurIsTyped, RequestStep DEF ResetTask
  <2>4. Position'
    BY <1>8 DEF ResetTask, IndInv, Position, CurTask
  <2> QED
    BY <2>1, <2>2, <2>3, <2>4 DEF IndInv, TypeOK
<1>9. CASE WriterBegin
  <2>1. LocalDbOK' /\ ScanOK' /\ EnvironmentOK' /\ RecordedIsPrefix'
    BY <1>9, UnchangedParts DEF WriterBegin, localDb
  <2>2. FilesOK'
    BY <1>9, CurIsTyped, EmptyIsBytes DEF WriterBegin, IndInv, TypeOK, FilesOK, MaybeBytes
  <2>3. /\ cur' \in Work /\ cur'.path = cur.path /\ cur'.content = cur.content
        /\ cur'.next = 0
    BY <1>9, CurIsTyped, EmptyIsBytes DEF WriterBegin, Work
  <2>4. ServerOK' /\ ClientOK' /\ Handshake'
    BY <1>9, <2>3, RequestStep DEF WriterBegin
  <2>5. taskChunks'[CurTask'] = FirstChunks(cur'.content, cur'.next)
    BY <1>9, <2>3, NoChunks DEF WriterBegin, localDb, IndInv, Position, CurTask
  <2>6. 0 <= NumChunks(cur'.content)
    BY <1>9, <2>3, CurIsTyped DEF WriterBegin
  <2>7. Position'
    BY <1>9, <2>3, <2>5, <2>6 DEF WriterBegin, Position
  <2> QED
    BY <2>1, <2>2, <2>4, <2>7 DEF IndInv, TypeOK
<1> QED
  BY <1>1, <1>2, <1>3, <1>4, <1>5, <1>6, <1>7, <1>8, <1>9 DEF ClientTransfer

-----------------------------------------------------------------------------
\* While the writer is active its .part file exists and, unless the disk lost
\* bytes, holds what has been hashed.
WriterOpen ==
  cli \in Writing => /\ part[cur.path] # NoFile
                     /\ ~DiskFaults => part[cur.path] = cur.hashed

\* What is known when the next chunk is about to be appended.
LEMMA NextChunkIsTyped ==
  ASSUME IndInv, MoreToWrite
  PROVE  /\ cli \in InRequest /\ cur \in Work /\ CurTask \in TaskIds
         /\ cur.path \in Paths /\ cur.next \in Nat /\ cur.hashed \in Bytes
         /\ NextChunk \in Bytes
<1>1. cli \in InRequest
  BY DEF MoreToWrite, InRequest, Writing
<1>2. cur \in Work /\ CurTask \in TaskIds /\ cur.content \in Bytes
  BY <1>1, CurIsTyped
<1>3. cur.path \in Paths /\ cur.next \in Nat /\ cur.hashed \in Bytes
  BY <1>2 DEF Work
<1>4. NextChunk \in Bytes
  BY <1>2, <1>3, ChunkIsBytes DEF MoreToWrite, NextChunk
<1> QED
  BY <1>1, <1>2, <1>3, <1>4

\* Appending to a .part file, be it cut short, keeps the files well typed.
LEMMA AppendKeepsTypes ==
  ASSUME IndInv, cur.path \in Paths, NEW bytes \in Bytes, AppendPart(bytes),
         part[cur.path] # NoFile, UNCHANGED <<remote, final, store>>
  PROVE  FilesOK' /\ part'[cur.path] \in Bytes
<1>1. part[cur.path] \o bytes \in Bytes
  BY ConcatProperties DEF IndInv, TypeOK, FilesOK, MaybeBytes, Bytes
<1> QED
  BY <1>1 DEF AppendPart, IndInv, TypeOK, FilesOK, MaybeBytes

\* An append cut short keeps the files well typed.
LEMMA TornAppendKeepsTypes ==
  ASSUME IndInv, MoreToWrite, AppendTorn, part[cur.path] # NoFile,
         UNCHANGED <<remote, final, store>>
  PROVE  FilesOK' /\ part'[cur.path] \in Bytes
<1>1. PICK n \in 0..(Len(NextChunk) - 1) : AppendPart(SubSeq(NextChunk, 1, n))
  BY DEF AppendTorn
<1>2. NextChunk \in Seq(Byte) /\ cur.path \in Paths
  BY NextChunkIsTyped DEF Bytes
<1>3. n \in (1 - 1)..Len(NextChunk) /\ 1 \in 1..(Len(NextChunk) + 1)
  BY <1>1, <1>2, LenProperties
<1>4. SubSeq(NextChunk, 1, n) \in Bytes
  BY <1>2, <1>3, SubSeqProperties DEF Bytes
<1> QED
  BY <1>1, <1>2, <1>4, AppendKeepsTypes

\* Appending, marking, verifying and committing preserve the invariant.
LEMMA WriterSteps ==
  ASSUME IndInv, WriterOpen, ClientWrite
  PROVE  IndInv'
<1> USE DEF CliStates, InRequest, Writing
<1>1. CASE AppendChunk
  <2>0. MoreToWrite /\ part[cur.path] # NoFile
    BY <1>1 DEF AppendChunk, MoreToWrite, WriterOpen
  <2>1. LocalDbOK' /\ ScanOK' /\ EnvironmentOK' /\ RecordedIsPrefix'
    BY <1>1, UnchangedParts DEF AppendChunk, localDb
  <2>2. FilesOK'
    BY <1>1, <2>0, NextChunkIsTyped, AppendKeepsTypes DEF AppendChunk
  <2>3. cur.hashed \o NextChunk \in Bytes
    BY <2>0, NextChunkIsTyped, ConcatProperties DEF Bytes
  <2>4. /\ cur' \in Work /\ cur'.path = cur.path /\ cur'.content = cur.content
        /\ cur'.next = cur.next
    BY <1>1, <2>0, <2>3, NextChunkIsTyped DEF AppendChunk, Work
  <2>5. ServerOK' /\ ClientOK' /\ Handshake'
    BY <1>1, <2>4, RequestStep DEF AppendChunk, MoreToWrite
  <2>6. Position'
    BY <1>1, <2>4 DEF AppendChunk, MoreToWrite, localDb, IndInv, Position, CurTask
  <2> QED
    BY <2>1, <2>2, <2>5, <2>6 DEF IndInv, TypeOK
<1>2. CASE ChunkUnavailable
  <2>1. FilesOK' /\ LocalDbOK' /\ ScanOK' /\ EnvironmentOK' /\ RecordedIsPrefix'
    BY <1>2, UnchangedParts DEF ChunkUnavailable, files, localDb
  <2>2. ServerOK' /\ ClientOK' /\ Handshake'
    BY <1>2, CurIsTyped, RequestStep DEF ChunkUnavailable, MoreToWrite
  <2>3. Position'
    BY <1>2 DEF ChunkUnavailable, Position
  <2> QED
    BY <2>1, <2>2, <2>3 DEF IndInv, TypeOK
<1>3. CASE MarkChunk
  <2>1. FilesOK' /\ ScanOK' /\ EnvironmentOK'
    BY <1>3, UnchangedParts DEF MarkChunk, files
  <2>2. /\ cur.content \in Bytes /\ cur.next \in Nat /\ cur.next < NumChunks(cur.content)
        /\ NumChunks(cur.content) \in Nat /\ CurTask \in TaskIds
        /\ taskChunks[CurTask] = FirstChunks(cur.content, cur.next)
    BY <1>3, CurIsTyped DEF MarkChunk, Work, IndInv, Position
  <2>3. /\ taskChunks' = [taskChunks EXCEPT ![CurTask] = FirstChunks(cur.content, cur.next + 1)]
        /\ UNCHANGED <<localRows, task, bound>>
    BY <1>3, <2>2, MarkingExtendsPrefix DEF MarkChunk
  <2>4. FirstChunks(cur.content, cur.next + 1) \subseteq Nat \X Bytes
    BY <2>2, ChunkIsBytes DEF FirstChunks
  <2>5. LocalDbOK'
    BY <2>2, <2>3, <2>4 DEF IndInv, TypeOK, LocalDbOK
  <2>6. taskChunks'[CurTask] = FirstChunks(cur.content, cur.next + 1)
    BY <2>2, <2>3 DEF IndInv, TypeOK, LocalDbOK
  <2>7. \A u \in TaskIds : u # CurTask => taskChunks'[u] = taskChunks[u]
    BY <2>3 DEF IndInv, TypeOK, LocalDbOK
  <2>8. RecordedIsPrefix'
    <3> SUFFICES ASSUME NEW u \in TaskIds
                 PROVE  \E n \in 0..NumChunks(u[1]) : taskChunks'[u] = FirstChunks(u[1], n)
      BY DEF RecordedIsPrefix
    <3>1. CASE u = CurTask
      BY <3>1, <2>2, <2>6 DEF CurTask
    <3>2. CASE u # CurTask
      BY <3>2, <2>7 DEF IndInv, RecordedIsPrefix
    <3> QED
      BY <3>1, <3>2
  <2>9. ServerOK' /\ ClientOK' /\ Handshake'
    BY <1>3, CurIsTyped, RequestStep DEF MarkChunk
  <2>10. Position'
    BY <1>3, <2>2, <2>6 DEF MarkChunk, Position, CurTask
  <2> QED
    BY <2>1, <2>5, <2>8, <2>9, <2>10 DEF IndInv, TypeOK
<1>4. CASE SaveProgress
  <2>1. FilesOK' /\ ScanOK' /\ EnvironmentOK' /\ RecordedIsPrefix'
    BY <1>4, UnchangedParts DEF SaveProgress, files
  <2>2. /\ cur.next \in Nat /\ cur.next + 1 <= NumChunks(cur.content)
        /\ NumChunks(cur.content) \in Nat
        /\ taskChunks[CurTask] = FirstChunks(cur.content, cur.next + 1)
    BY <1>4, CurIsTyped DEF SaveProgress, IndInv, Position, Work
  <2>3. LocalDbOK'
    BY <1>4, <2>2, CurIsTyped, SetTaskKeepsTypes DEF SaveProgress, CurTask, TaskStates
  <2>4. /\ cur' \in Work /\ cur'.path = cur.path /\ cur'.content = cur.content
        /\ cur'.next = cur.next + 1
    BY <1>4, <2>2, CurIsTyped DEF SaveProgress, Work
  <2>5. ServerOK' /\ ClientOK' /\ Handshake'
    BY <1>4, <2>4, RequestStep DEF SaveProgress
  <2>6. Position'
    BY <1>4, <2>2, <2>4 DEF SaveProgress, Position, CurTask
  <2> QED
    BY <2>1, <2>3, <2>5, <2>6 DEF IndInv, TypeOK
<1>5. CASE EnterVerify
  <2>1. FilesOK' /\ ScanOK' /\ EnvironmentOK' /\ RecordedIsPrefix'
    BY <1>5, UnchangedParts DEF EnterVerify, files
  <2>2. CurTask \in TaskIds /\ task[CurTask].completed \in Nat
        /\ task[CurTask].completed <= NumChunks(CurTask[1])
    BY <1>5, CurIsTyped DEF EnterVerify, IndInv, TypeOK, LocalDbOK
  <2>3. LocalDbOK'
    BY <1>5, <2>2, SetTaskKeepsTypes DEF EnterVerify, TaskStates
  <2>4. ServerOK' /\ ClientOK' /\ Handshake'
    BY <1>5, CurIsTyped, RequestStep DEF EnterVerify
  <2>5. Position'
    BY <1>5 DEF EnterVerify, Position
  <2> QED
    BY <2>1, <2>3, <2>4, <2>5 DEF IndInv, TypeOK
<1>6. CASE CommitFile
  <2>1. LocalDbOK' /\ ScanOK' /\ RecordedIsPrefix'
    BY <1>6, UnchangedParts DEF CommitFile, localDb
  <2>2. cur.path \in Paths /\ CurTask \in TaskIds
    BY <1>6, CurIsTyped DEF CommitFile
  <2>3. FilesOK'
    BY <1>6, <2>2 DEF CommitFile, IndInv, TypeOK, FilesOK, MaybeBytes
  <2>4. EnvironmentOK'
    BY <1>6, <2>2 DEF CommitFile, IndInv, TypeOK, EnvironmentOK
  <2>5. ServerOK' /\ ClientOK' /\ Handshake'
    BY <1>6, CurIsTyped, RequestStep DEF CommitFile
  <2>6. Position'
    BY <1>6 DEF CommitFile, Position
  <2> QED
    BY <2>1, <2>3, <2>4, <2>5, <2>6 DEF IndInv, TypeOK
<1>7. CASE CommitRefused
  <2>1. LocalDbOK' /\ ScanOK' /\ RecordedIsPrefix'
    BY <1>7, UnchangedParts DEF CommitRefused, localDb
  <2>2. FilesOK'
    BY <1>7, CurIsTyped DEF CommitRefused, IndInv, TypeOK, FilesOK, MaybeBytes
  <2>3. disturbed' \in BOOLEAN
    <3>1. CASE UNCHANGED disturbed
      BY <3>1 DEF IndInv, TypeOK, EnvironmentOK
    <3>2. CASE DiskFault
      BY <3>2, Zenon DEF DiskFault
    <3> QED
      BY <1>7, <3>1, <3>2 DEF CommitRefused
  <2>4. faults' \in Nat
    BY <1>7 DEF CommitRefused, DiskFault, IndInv, TypeOK, EnvironmentOK
  <2>5. EnvironmentOK'
    BY <1>7, <2>3, <2>4 DEF CommitRefused, IndInv, TypeOK, EnvironmentOK
  <2>6. ServerOK' /\ ClientOK' /\ Handshake'
    BY <1>7, CurIsTyped, RequestStep DEF CommitRefused
  <2>7. Position'
    BY <1>7 DEF CommitRefused, Position
  <2> QED
    BY <2>1, <2>2, <2>5, <2>6, <2>7 DEF IndInv, TypeOK
<1>8. CASE CatchFailure
  <2>1. FilesOK' /\ ScanOK' /\ EnvironmentOK' /\ RecordedIsPrefix'
    BY <1>8, UnchangedParts DEF CatchFailure, files
  <2>2. CurTask \in TaskIds /\ task[CurTask].completed \in Nat
        /\ task[CurTask].completed <= NumChunks(CurTask[1])
    BY <1>8, CurIsTyped DEF CatchFailure, IndInv, TypeOK, LocalDbOK
  <2>3. LocalDbOK'
    BY <1>8, <2>2, SetTaskKeepsTypes DEF CatchFailure, TaskStates
  <2>4. ServerOK' /\ ClientOK' /\ Handshake'
    BY <1>8, RequestStep DEF CatchFailure
  <2>5. Position'
    BY <1>8 DEF CatchFailure, Position
  <2> QED
    BY <2>1, <2>3, <2>4, <2>5 DEF IndInv, TypeOK
<1> QED
  BY <1>1, <1>2, <1>3, <1>4, <1>5, <1>6, <1>7, <1>8 DEF ClientWrite

-----------------------------------------------------------------------------
\* From the refresh of its record on, the installed file has a row.
RowRefreshed == cli \in {"store", "copy", "bind"} => HasRow(localRows, cur.path)

\* The object stored for an installed file is named by its content.
LEMMA ObjectIdIsBytes ==
  ASSUME IndInv, RowRefreshed, cli \in {"store", "copy", "bind"}
  PROVE  ObjectId \in Bytes
<1>1. RowOf(localRows, cur.path) \in localRows
  BY DEF RowRefreshed, HasRow, RowOf
<1> QED
  BY <1>1 DEF ObjectId, IndInv, TypeOK, LocalDbOK

\* What follows the rename preserves the invariant.
LEMMA PublishSteps ==
  ASSUME IndInv, RowRefreshed, ClientPublish
  PROVE  IndInv'
<1> USE DEF CliStates, InRequest, Writing
<1>1. CASE UnmarkChunks
  <2>1. FilesOK' /\ ScanOK' /\ EnvironmentOK'
    BY <1>1, UnchangedParts DEF UnmarkChunks, files
  <2>2. LocalDbOK' /\ RecordedIsPrefix'
    BY <1>1, CurIsTyped, ClearedChunks DEF UnmarkChunks
  <2>3. ServerOK' /\ ClientOK' /\ Handshake'
    BY <1>1, CurIsTyped, RequestStep DEF UnmarkChunks
  <2>4. Position'
    BY <1>1 DEF UnmarkChunks, Position
  <2> QED
    BY <2>1, <2>2, <2>3, <2>4 DEF IndInv, TypeOK
<1>2. CASE FinishTask
  <2>1. FilesOK' /\ ScanOK' /\ EnvironmentOK' /\ RecordedIsPrefix'
    BY <1>2, UnchangedParts DEF FinishTask, files
  <2>2. LocalDbOK'
    BY <1>2, CurIsTyped, SetTaskKeepsTypes DEF FinishTask, CurTask, TaskStates
  <2>3. ServerOK' /\ ClientOK' /\ Handshake'
    BY <1>2, CurIsTyped, RequestStep DEF FinishTask
  <2>4. Position'
    BY <1>2 DEF FinishTask, Position
  <2> QED
    BY <2>1, <2>2, <2>3, <2>4 DEF IndInv, TypeOK
<1>3. CASE RefreshRecord
  <2>1. FilesOK' /\ ScanOK' /\ EnvironmentOK' /\ RecordedIsPrefix'
    BY <1>3, UnchangedParts DEF RefreshRecord, files
  <2>2. final[cur.path] # NoFile => final[cur.path] \in Bytes
    BY <1>3, CurIsTyped DEF RefreshRecord, IndInv, TypeOK, FilesOK, MaybeBytes
  <2>3. \A r \in localRows' : r.file_id \in Bytes
    BY <1>3, <2>2 DEF RefreshRecord, UpsertFile, FileRow, IndInv, TypeOK, LocalDbOK
  <2>4. LocalDbOK'
    BY <1>3, <2>3 DEF RefreshRecord, IndInv, TypeOK, LocalDbOK
  <2>5. cli' \in {"failed", "store"} /\ UNCHANGED <<server, cliTodo, requests, cur>>
    BY <1>3 DEF RefreshRecord
  <2>6. ServerOK' /\ ClientOK' /\ Handshake'
    BY <1>3, <2>5, CurIsTyped, RequestStep DEF RefreshRecord
  <2>7. Position'
    BY <2>5 DEF Position
  <2> QED
    BY <2>1, <2>4, <2>6, <2>7 DEF IndInv, TypeOK
<1>4. CASE StoreTruncate \/ StoreCopy
  <2>1. LocalDbOK' /\ EnvironmentOK' /\ RecordedIsPrefix'
    BY <1>4, UnchangedParts DEF StoreTruncate, StoreCopy, localDb
  <2>2. cur \in Work /\ cur.path \in Paths /\ cur.source \in Bytes
    BY <1>4, CurIsTyped DEF StoreTruncate, StoreCopy, Work
  <2>3. final[cur.path] # NoFile => final[cur.path] \in Bytes
    BY <2>2 DEF IndInv, TypeOK, FilesOK, MaybeBytes
  <2>4. /\ UNCHANGED store \/ \E bytes \in Bytes : SetObject(ObjectId, bytes)
        /\ UNCHANGED <<remote, final, part, server, cliTodo, requests>>
        /\ cli' \in {"failed", "copy", "bind"} /\ cli \in {"store", "copy"}
    BY <1>4, <2>2, EmptyIsBytes DEF StoreTruncate, StoreCopy
  <2>5. /\ cur' \in Work /\ cur'.path = cur.path /\ cur'.content = cur.content
    BY <1>4, <2>2, <2>3 DEF StoreTruncate, StoreCopy, Work
  <2>6. ServerOK' /\ ClientOK' /\ Handshake'
    BY <2>4, <2>5, RequestStep
  <2>7. Position'
    BY <2>4 DEF Position
  <2>8. ObjectId \in Bytes
    BY <1>4, ObjectIdIsBytes DEF StoreTruncate, StoreCopy
  <2>9. FilesOK' /\ ScanOK'
    <3>1. CASE UNCHANGED store
      BY <2>4, <3>1, UnchangedParts DEF files
    <3>2. ASSUME NEW bytes \in Bytes, SetObject(ObjectId, bytes)
          PROVE  FilesOK' /\ ScanOK'
      BY <2>4, <2>8, <3>2 DEF SetObject, IndInv, TypeOK, FilesOK, ScanOK
    <3> QED
      BY <2>4, <3>1, <3>2
  <2> QED
    BY <2>1, <2>6, <2>7, <2>9 DEF IndInv, TypeOK
<1>5. CASE UpsertStoredObject
  <2>1. FilesOK' /\ ScanOK' /\ EnvironmentOK' /\ RecordedIsPrefix'
    BY <1>5, UnchangedParts DEF UpsertStoredObject, files
  <2>2. LocalDbOK'
    BY <1>5, ObjectIdIsBytes DEF UpsertStoredObject, IndInv, TypeOK, LocalDbOK
  <2>3. ServerOK' /\ ClientOK' /\ Handshake'
    BY <1>5, RequestStep DEF UpsertStoredObject
  <2>4. Position'
    BY <1>5 DEF UpsertStoredObject, Position
  <2> QED
    BY <2>1, <2>2, <2>3, <2>4 DEF IndInv, TypeOK
<1> QED
  BY <1>1, <1>2, <1>3, <1>4, <1>5 DEF ClientPublish

-----------------------------------------------------------------------------
\* Crashes and disk faults preserve the invariant.
LEMMA FaultSteps ==
  ASSUME IndInv, WriterOpen, Faults
  PROVE  IndInv'
<1> USE DEF CliStates, InRequest, Writing
<1>1. CASE ClientGiveUp
  BY <1>1, SetupSteps
<1>2. CASE Crash
  BY <1>2, ProcessSteps
<1>3. CASE CrashDuringAppend
  <2>1. MoreToWrite /\ part[cur.path] # NoFile
    BY <1>3 DEF CrashDuringAppend, MoreToWrite, WriterOpen
  <2>2. FilesOK'
    BY <1>3, <2>1, TornAppendKeepsTypes DEF CrashDuringAppend
  <2> QED
    BY <1>3, <2>2, StopStep DEF CrashDuringAppend, IndInv, TypeOK, EnvironmentOK
<1>4. CASE AppendFails \/ AppendLost
  <2>1. MoreToWrite /\ part[cur.path] # NoFile /\ cli = "write"
    BY <1>4 DEF AppendFails, AppendLost, MoreToWrite, WriterOpen
  <2>2. FilesOK'
    BY <1>4, <2>1, TornAppendKeepsTypes DEF AppendFails, AppendLost
  <2>3. LocalDbOK' /\ ScanOK' /\ RecordedIsPrefix'
    BY <1>4, UnchangedParts DEF AppendFails, AppendLost, localDb
  <2>4. disturbed' \in BOOLEAN
    BY <1>4, Zenon DEF AppendFails, AppendLost, DiskFault
  <2>5. EnvironmentOK'
    BY <1>4, <2>4 DEF AppendFails, AppendLost, DiskFault, IndInv, TypeOK, EnvironmentOK
  <2>6. cur.hashed \o NextChunk \in Bytes
    BY <2>1, NextChunkIsTyped, ConcatProperties DEF Bytes
  <2>7. /\ cur' \in Work /\ cur'.path = cur.path /\ cur'.content = cur.content
        /\ cur'.next = cur.next
    BY <1>4, <2>1, <2>6, NextChunkIsTyped DEF AppendFails, AppendLost, Work
  <2>8. ServerOK' /\ ClientOK' /\ Handshake'
    BY <1>4, <2>1, <2>7, RequestStep DEF AppendFails, AppendLost
  <2>9. Position'
    BY <1>4, <2>7 DEF AppendFails, AppendLost, MoreToWrite, localDb, IndInv, Position, CurTask
  <2> QED
    BY <2>2, <2>3, <2>5, <2>8, <2>9 DEF IndInv, TypeOK
<1> QED
  BY <1>1, <1>2, <1>3, <1>4 DEF Faults

\* Users put known contents into files, or delete them.
LEMMA NewContentIsAnnounced ==
  ASSUME NEW p \in Paths
  PROVE  NewContent(p) \subseteq Announced
  BY VersionsAssumption DEF NewContent, Announced

\* Changes made by users preserve the invariant.
LEMMA UserSteps ==
  ASSUME IndInv, NEW p \in Paths, RemoteEdit(p) \/ LocalEdit(p)
  PROVE  IndInv'
<1>1. disturbed' \in BOOLEAN
  BY Zenon DEF RemoteEdit, LocalEdit
<1>2. /\ LocalDbOK' /\ ServerOK' /\ ScanOK' /\ ClientOK'
      /\ RecordedIsPrefix' /\ Handshake' /\ Position'
  BY UnchangedParts DEF RemoteEdit, LocalEdit, localDb, server, client
<1>3. CASE RemoteEdit(p)
  <2>1. PICK c \in Announced :
          /\ remote' = [remote EXCEPT ![p] = c]
          /\ published' = IF c = NoFile THEN published ELSE published \cup {<<c, p>>}
    BY <1>3, NewContentIsAnnounced DEF RemoteEdit
  <2>2. FilesOK'
    BY <1>3, <2>1 DEF RemoteEdit, IndInv, TypeOK, FilesOK
  <2>3. published' \subseteq TaskIds
    BY <2>1 DEF IndInv, TypeOK, EnvironmentOK, Announced, TaskIds
  <2>4. EnvironmentOK'
    BY <1>1, <1>3, <2>3 DEF RemoteEdit, IndInv, TypeOK, EnvironmentOK
  <2> QED
    BY <1>2, <2>2, <2>4 DEF IndInv, TypeOK
<1>4. CASE LocalEdit(p)
  <2>1. PICK c \in Announced : final' = [final EXCEPT ![p] = c]
    BY <1>4, NewContentIsAnnounced DEF LocalEdit
  <2>2. FilesOK'
    BY <1>4, <2>1, ContentAssumption DEF LocalEdit, IndInv, TypeOK, FilesOK, Announced, MaybeBytes
  <2>3. EnvironmentOK'
    BY <1>1, <1>4 DEF LocalEdit, IndInv, TypeOK, EnvironmentOK
  <2> QED
    BY <1>2, <2>2, <2>3 DEF IndInv, TypeOK
<1> QED
  BY <1>3, <1>4

-----------------------------------------------------------------------------
(***************************************************************************)
(* The two facts about the writer and about the refreshed row that the     *)
(* steps above rely on are preserved too.                                  *)
(***************************************************************************)
LEMMA StopIsQuiet ==
  ASSUME StopProcess
  PROVE  WriterOpen' /\ RowRefreshed'
  BY DEF StopProcess, WriterOpen, RowRefreshed, Writing

\* Steps of the process as a whole open no writer.
LEMMA ProcessQuiet ==
  ASSUME StartRun \/ MainReturns \/ KillHungRun \/ Crash \/ CrashDuringAppend
  PROVE  WriterOpen' /\ RowRefreshed'
<1>1. CASE StartRun
  BY <1>1 DEF StartRun, WriterOpen, RowRefreshed, Writing
<1> QED
  BY <1>1, StopIsQuiet DEF MainReturns, KillHungRun, Crash, CrashDuringAppend

\* Steps that leave the client alone do not disturb its writer.
LEMMA OthersQuiet ==
  ASSUME WriterOpen, RowRefreshed,
         ServerStep \/ \E p \in Paths : RemoteEdit(p) \/ LocalEdit(p)
  PROVE  WriterOpen' /\ RowRefreshed'
<1>1. UNCHANGED <<cli, cur, part, localRows>>
  BY DEF ServerStep, ServerScan, ServerListen, ServerSendChunk, ServerEnd, RemoteEdit, LocalEdit,
         files, localDb, client
<1> QED
  BY <1>1 DEF WriterOpen, RowRefreshed

\* Before a request is begun there is no open writer.
LEMMA SetupQuiet ==
  ASSUME ClientSetup \/ ClientGiveUp
  PROVE  WriterOpen' /\ RowRefreshed'
<1>1. cli' \in {"scan", "connect", "hello", "next", "done", "failed"}
  BY DEF ClientSetup, ClientScan, ClientScanned, ClientConnect, ClientGiveUp, ClientCompare,
         ClientDone
<1> QED
  BY <1>1 DEF WriterOpen, RowRefreshed, Writing

\* A request reaches the writing states only with an open .part file.
LEMMA TransferOpens ==
  ASSUME IndInv, ClientTransfer
  PROVE  WriterOpen' /\ RowRefreshed'
<1> USE DEF InRequest, Writing
<1>1. CASE OpenResume
  <2>1. /\ cur \in Work /\ cur.path \in Paths /\ ResumedBytes \in Bytes
    BY <1>1, CurIsTyped, EmptyIsBytes DEF OpenResume, ResumedBytes, IndInv, TypeOK, FilesOK, MaybeBytes
  <2>2. part'[cur.path] = ResumedBytes /\ cur'.hashed = ResumedBytes /\ cur'.path = cur.path
    BY <1>1, <2>1 DEF OpenResume, Work, IndInv, TypeOK, FilesOK
  <2> QED
    BY <1>1, <2>1, <2>2, NoFileAssumption DEF OpenResume, Bytes, WriterOpen, RowRefreshed
<1>2. CASE WriterBegin
  <2>1. cur \in Work /\ cur.path \in Paths
    BY <1>2, CurIsTyped DEF WriterBegin
  <2>2. part'[cur.path] = <<>> /\ cur'.hashed = <<>> /\ cur'.path = cur.path
    BY <1>2, <2>1 DEF WriterBegin, Work, IndInv, TypeOK, FilesOK
  <2> QED
    BY <1>2, <2>2, EmptyIsBytes, NoFileAssumption DEF WriterBegin, Bytes, WriterOpen, RowRefreshed
<1>3. CASE ~(OpenResume \/ WriterBegin)
  <2>1. cli' \in {"recv", "open", "failed", "clear", "reset", "create"}
    BY <1>3 DEF ClientTransfer, BeginTask, ReceiveChunks, ReceiveFails, OpenMismatch, OpenFresh,
                ClearTaskChunks, ResetTask
  <2> QED
    BY <2>1 DEF WriterOpen, RowRefreshed
<1> QED
  BY <1>1, <1>2, <1>3

\* The writer stays open until the file is committed or given up.
LEMMA WriteKeepsOpen ==
  ASSUME IndInv, WriterOpen, ClientWrite \/ AppendFails \/ AppendLost
  PROVE  WriterOpen' /\ RowRefreshed'
<1> USE DEF InRequest, Writing
<1>1. CASE AppendChunk
  <2>1. MoreToWrite /\ part[cur.path] # NoFile
    BY <1>1 DEF AppendChunk, MoreToWrite, WriterOpen
  <2>2. cur \in Work /\ cur.path \in Paths /\ NextChunk \in Bytes
    BY <2>1, NextChunkIsTyped
  <2>3. part'[cur.path] \in Bytes
    BY <1>1, <2>1, <2>2, AppendKeepsTypes DEF AppendChunk
  <2>4. /\ part'[cur.path] = part[cur.path] \o NextChunk
        /\ cur'.hashed = cur.hashed \o NextChunk /\ cur'.path = cur.path /\ cli' = "mark"
    BY <1>1, <2>2 DEF AppendChunk, AppendPart, Work, IndInv, TypeOK, FilesOK
  <2> QED
    BY <1>1, <2>3, <2>4, NoFileAssumption
       DEF AppendChunk, MoreToWrite, WriterOpen, RowRefreshed, Bytes
<1>2. CASE AppendLost
  <2>1. MoreToWrite /\ part[cur.path] # NoFile
    BY <1>2 DEF AppendLost, MoreToWrite, WriterOpen
  <2>2. part'[cur.path] \in Bytes
    BY <1>2, <2>1, TornAppendKeepsTypes DEF AppendLost
  <2>3. cur'.path = cur.path /\ cli' = "mark" /\ DiskFaults
    BY <1>2, <2>1, NextChunkIsTyped DEF AppendLost, DiskFault, Work
  <2> QED
    BY <2>2, <2>3, NoFileAssumption DEF WriterOpen, RowRefreshed, Bytes
<1>3. CASE MarkChunk \/ SaveProgress \/ EnterVerify
  <2>1. /\ cli \in Writing /\ cli' \in Writing /\ part' = part
        /\ cur'.path = cur.path /\ cur'.hashed = cur.hashed
    BY <1>3, CurIsTyped DEF MarkChunk, SaveProgress, EnterVerify, Work, files
  <2> QED
    BY <2>1 DEF WriterOpen, RowRefreshed
<1>4. CASE ChunkUnavailable \/ CommitFile \/ CommitRefused \/ CatchFailure \/ AppendFails
  <2>1. cli' \in {"catch", "unmark", "failed"}
    BY <1>4 DEF ChunkUnavailable, CommitFile, CommitRefused, CatchFailure, AppendFails
  <2> QED
    BY <2>1 DEF WriterOpen, RowRefreshed
<1> QED
  BY <1>1, <1>2, <1>3, <1>4 DEF ClientWrite

\* The object is stored only after the record was refreshed.
LEMMA PublishRefreshes ==
  ASSUME IndInv, RowRefreshed, ClientPublish
  PROVE  WriterOpen' /\ RowRefreshed'
<1>1. cli' \in {"finish", "refresh", "failed", "store", "copy", "bind", "next"}
  BY DEF ClientPublish, UnmarkChunks, FinishTask, RefreshRecord, StoreTruncate, StoreCopy,
         UpsertStoredObject
<1>2. WriterOpen'
  BY <1>1 DEF WriterOpen, Writing
<1>3. CASE RefreshRecord
  <2>1. cli' # "failed" => FileRow(final[cur.path], cur.path) \in localRows'
    BY <1>3 DEF RefreshRecord, UpsertFile
  <2>2. cli' \in {"failed", "store"} /\ cur' = cur
    BY <1>3 DEF RefreshRecord
  <2>3. FileRow(final[cur.path], cur.path).path = cur.path
    BY DEF FileRow
  <2> QED
    BY <1>2, <2>1, <2>2, <2>3 DEF RowRefreshed, HasRow
<1>4. CASE StoreTruncate \/ StoreCopy
  <2>1. cur'.path = cur.path /\ localRows' = localRows /\ cli \in {"store", "copy"}
    BY <1>4, CurIsTyped DEF StoreTruncate, StoreCopy, Work, localDb, InRequest
  <2> QED
    BY <2>1, <1>2 DEF RowRefreshed, HasRow
<1>5. CASE UnmarkChunks \/ FinishTask \/ UpsertStoredObject
  <2>1. cli' \in {"finish", "refresh", "next"}
    BY <1>5 DEF UnmarkChunks, FinishTask, UpsertStoredObject
  <2> QED
    BY <1>2, <2>1 DEF RowRefreshed
<1> QED
  BY <1>2, <1>3, <1>4, <1>5 DEF ClientPublish

-----------------------------------------------------------------------------
\* The inductive invariant of the specification.
SyncInv == IndInv /\ WriterOpen /\ RowRefreshed

\* The inductive invariant holds initially.
LEMMA InitSync == Init => SyncInv
<1>1. Init => WriterOpen /\ RowRefreshed
  BY DEF Init, WriterOpen, RowRefreshed, Writing
<1> QED
  BY <1>1, InitEstablishes DEF SyncInv

\* Every step preserves the inductive invariant.
LEMMA NextSync == SyncInv /\ [Next]_vars => SyncInv'
<1> SUFFICES ASSUME SyncInv, [Next]_vars
             PROVE  SyncInv'
  OBVIOUS
<1> USE DEF SyncInv
<1>1. CASE StartRun \/ MainReturns \/ KillHungRun
  BY <1>1, ProcessSteps, ProcessQuiet
<1>2. CASE ServerStep
  BY <1>2, ServerSteps, OthersQuiet
<1>3. CASE ClientSetup
  BY <1>3, SetupSteps, SetupQuiet
<1>4. CASE ClientTransfer
  BY <1>4, TransferSteps, TransferOpens
<1>5. CASE ClientWrite
  BY <1>5, WriterSteps, WriteKeepsOpen
<1>6. CASE ClientPublish
  BY <1>6, PublishSteps, PublishRefreshes
<1>7. CASE Faults
  <2>1. IndInv'
    BY <1>7, FaultSteps
  <2>2. WriterOpen' /\ RowRefreshed'
    BY <1>7, ProcessQuiet, SetupQuiet, WriteKeepsOpen DEF Faults
  <2> QED
    BY <2>1, <2>2
<1>8. CASE Users
  BY <1>8, UserSteps, OthersQuiet DEF Users
<1>9. CASE UNCHANGED vars
  <2>1. IndInv'
    BY <1>9, UnchangedParts DEF vars, files, localDb, server, client, environment, IndInv, TypeOK
  <2>2. WriterOpen' /\ RowRefreshed'
    BY <1>9 DEF vars, files, localDb, client, WriterOpen, RowRefreshed
  <2> QED
    BY <2>1, <2>2
<1> QED
  BY <1>1, <1>2, <1>3, <1>4, <1>5, <1>6, <1>7, <1>8, <1>9 DEF Next, ClientStep

\* The invariant holds in every reachable state of sync_v1, whatever the
\* contents, the chunk size, the number of files and the bounds on edits and
\* faults are.
THEOREM SyncInvariant == Spec => []SyncInv
  BY InitSync, NextSync, PTL DEF Spec

\* Types of all variables: a task never reports more completed chunks than
\* its file has, and the client works on an announced version of a file.
THEOREM TypeCorrect == Spec => []TypeOK
<1>1. SyncInv => TypeOK
  BY DEF SyncInv, IndInv
<1> QED
  BY <1>1, SyncInvariant, PTL

\* Whatever crashes and resets interrupt, the chunks that the database
\* records for a task are the first chunks of its file, without a gap.
THEOREM RecordedPrefix == Spec => []RecordedIsPrefix
<1>1. SyncInv => RecordedIsPrefix
  BY DEF SyncInv, IndInv
<1> QED
  BY <1>1, SyncInvariant, PTL
-----------------------------------------------------------------------------
(***************************************************************************)
(* What sync_v1 guarantees about committed tasks, about the files of the   *)
(* local root, and that it implements AtomicPull.  The last two rest on    *)
(* the local disk not losing bytes (~DiskFaults).                          *)
(***************************************************************************)
\* Between the rename and the save of "committed" the version is in place.
CommitOrder == cli \in {"unmark", "finish"} => CurTask \in installed

\* Saving a task in another state than committed commits nothing.
LEMMA SavesOther ==
  ASSUME IndInv, CommittedInstalled, NEW t \in TaskIds, NEW st, NEW n, st # "committed",
         SetTask(t, st, n), UNCHANGED installed
  PROVE  CommittedInstalled'
<1>1. \A u \in TaskIds : task'[u].state = "committed" => task[u].state = "committed"
  BY DEF SetTask, IndInv, TypeOK, LocalDbOK
<1> QED
  BY <1>1 DEF CommittedInstalled

\* Most steps leave the tasks and the installed versions alone.
LEMMA TasksUntouched ==
  ASSUME CommittedInstalled, UNCHANGED <<task, installed>>
  PROVE  CommittedInstalled'
  BY DEF CommittedInstalled

\* Every step keeps committed tasks installed.
LEMMA NextCommits ==
  SyncInv /\ CommittedInstalled /\ CommitOrder /\ [Next]_vars => CommittedInstalled' /\ CommitOrder'
<1> SUFFICES ASSUME SyncInv, CommittedInstalled, CommitOrder, [Next]_vars
             PROVE  CommittedInstalled' /\ CommitOrder'
  OBVIOUS
<1>0. IndInv
  BY DEF SyncInv
<1>1. CASE StartRun \/ MainReturns \/ KillHungRun
  <2>1. UNCHANGED <<task, installed>> /\ cli' \in {"scan", "off"}
    BY <1>1 DEF StartRun, MainReturns, KillHungRun, StopProcess, localDb, environment
  <2> QED
    BY <2>1, TasksUntouched DEF CommitOrder
<1>2. CASE ServerStep \/ Users
  <2>1. UNCHANGED <<task, installed, cli, cur>>
    BY <1>2 DEF ServerStep, ServerScan, ServerListen, ServerSendChunk, ServerEnd, Users,
                RemoteEdit, LocalEdit, localDb, environment, client
  <2> QED
    BY <2>1, TasksUntouched DEF CommitOrder, CurTask
<1>3. CASE ClientSetup
  <2>1. UNCHANGED <<task, installed>> /\ cli' \notin {"unmark", "finish"}
    BY <1>3 DEF ClientSetup, ClientScan, ClientScanned, ClientConnect, ClientCompare, ClientDone,
                localDb, environment
  <2> QED
    BY <2>1, TasksUntouched DEF CommitOrder
<1>4. CASE ClientTransfer
  <2>1. ASSUME NEW r \in requests, BeginTask(r)
        PROVE  CommittedInstalled'
    <3>1. <<manifest[r.path], r.path>> \in TaskIds
      BY <1>0 DEF IndInv, TypeOK, ClientOK, Request, TaskIds
    <3>2. /\ SetTask(<<manifest[r.path], r.path>>, "running",
                     task[<<manifest[r.path], r.path>>].completed)
          /\ UNCHANGED installed
      BY <2>1 DEF BeginTask, environment
    <3> QED
      BY <1>0, <3>1, <3>2, SavesOther
  <2>2. ASSUME OpenResume \/ ResetTask
        PROVE  CommittedInstalled'
    <3>1. CurTask \in TaskIds
      BY <1>0, <2>2, CurIsTyped DEF OpenResume, ResetTask, InRequest
    <3>2. /\ SetTask(CurTask, "running", cur.prefix) \/ SetTask(CurTask, "running", 0)
          /\ UNCHANGED installed
      BY <2>2 DEF OpenResume, ResetTask, environment
    <3> QED
      BY <1>0, <3>1, <3>2, SavesOther
  <2>3. ASSUME \/ ReceiveChunks \/ ReceiveFails \/ OpenMismatch \/ OpenFresh
               \/ ClearTaskChunks \/ WriterBegin
        PROVE  CommittedInstalled'
    BY <2>3, TasksUntouched DEF ReceiveChunks, ReceiveFails, OpenMismatch, OpenFresh,
       ClearTaskChunks, WriterBegin, localDb, environment
  <2>4. cli' \notin {"unmark", "finish"}
    BY <1>4 DEF ClientTransfer, BeginTask, OpenResume, ResetTask, ReceiveChunks, ReceiveFails,
       OpenMismatch, OpenFresh, ClearTaskChunks, WriterBegin
  <2> QED
    BY <1>4, <2>1, <2>2, <2>3, <2>4 DEF ClientTransfer, CommitOrder
<1>5. CASE ClientWrite
  <2>1. CASE SaveProgress \/ EnterVerify \/ CatchFailure
    <3>1. CurTask \in TaskIds
      BY <1>0, <2>1, CurIsTyped DEF SaveProgress, EnterVerify, CatchFailure, InRequest, Writing
    <3>2. /\ \/ SetTask(CurTask, "running", cur.next + 1)
             \/ SetTask(CurTask, "verifying", task[CurTask].completed)
             \/ SetTask(CurTask, "failed", task[CurTask].completed)
          /\ UNCHANGED installed
      BY <2>1 DEF SaveProgress, EnterVerify, CatchFailure, environment
    <3>3. CommittedInstalled'
      BY <1>0, <3>1, <3>2, SavesOther
    <3> QED
      BY <2>1, <3>3 DEF SaveProgress, EnterVerify, CatchFailure, CommitOrder
  <2>2. CASE AppendChunk \/ ChunkUnavailable \/ MarkChunk \/ CommitRefused
    <3>1. UNCHANGED <<task, installed>> /\ cli' \notin {"unmark", "finish"}
      BY <2>2 DEF AppendChunk, ChunkUnavailable, MarkChunk, CommitRefused, localDb, environment
    <3> QED
      BY <3>1, TasksUntouched DEF CommitOrder
  <2>3. CASE CommitFile
    BY <2>3 DEF CommitFile, localDb, CommittedInstalled, CommitOrder, CurTask
  <2> QED
    BY <1>5, <2>1, <2>2, <2>3 DEF ClientWrite
<1>6. CASE ClientPublish
  <2>1. CASE FinishTask
    <3>1. CurTask \in TaskIds /\ CurTask \in installed
      BY <1>0, <2>1, CurIsTyped DEF FinishTask, InRequest, CommitOrder
    <3>2. \A u \in TaskIds : u # CurTask => task'[u] = task[u]
      BY <1>0, <2>1 DEF FinishTask, SetTask, IndInv, TypeOK, LocalDbOK
    <3>3. installed' = installed /\ cli' = "refresh"
      BY <2>1 DEF FinishTask, environment
    <3> QED
      BY <3>1, <3>2, <3>3 DEF CommittedInstalled, CommitOrder
  <2>2. CASE UnmarkChunks
    BY <2>2, TasksUntouched DEF UnmarkChunks, environment, CommitOrder, CurTask
  <2>3. CASE RefreshRecord \/ StoreTruncate \/ StoreCopy \/ UpsertStoredObject
    <3>1. UNCHANGED <<task, installed>> /\ cli' \notin {"unmark", "finish"}
      BY <2>3 DEF RefreshRecord, StoreTruncate, StoreCopy, UpsertStoredObject, localDb, environment
    <3> QED
      BY <3>1, TasksUntouched DEF CommitOrder
  <2> QED
    BY <1>6, <2>1, <2>2, <2>3 DEF ClientPublish
<1>7. CASE Faults
  <2>1. UNCHANGED <<task, installed>> /\ cli' \notin {"unmark", "finish"}
    BY <1>7 DEF Faults, ClientGiveUp, Crash, CrashDuringAppend, AppendFails, AppendLost,
                StopProcess, localDb
  <2> QED
    BY <2>1, TasksUntouched DEF CommitOrder
<1>8. CASE UNCHANGED vars
  BY <1>8, TasksUntouched DEF vars, localDb, client, environment, CommitOrder, CurTask
<1> QED
  BY <1>1, <1>2, <1>3, <1>4, <1>5, <1>6, <1>7, <1>8 DEF Next, ClientStep

\* A task is recorded as committed only after its version was renamed into
\* place, wherever crashes fall.
THEOREM CommitAfterRename == Spec => []CommittedInstalled
<1>1. Init => CommittedInstalled /\ CommitOrder
  BY DEF Init, NoTask, CommittedInstalled, CommitOrder
<1> QED
  BY <1>1, SyncInvariant, NextCommits, PTL DEF Spec

-----------------------------------------------------------------------------
(***************************************************************************)
(* file_records.                                                           *)
(***************************************************************************)
Keyed(rows) == \A r, s \in rows : r.path = s.path \/ r.file_id = s.file_id => r = s

\* UpsertFile keeps both keys unique.
LEMMA UpsertKeepsKeys ==
  ASSUME NEW rows, Keyed(rows), NEW file
  PROVE  Keyed(UpsertFile(rows, file))
  BY DEF Keyed, UpsertFile

\* Only the scans and the refresh of an installed file write file_records.
LEMMA RowsUntouched ==
  ASSUME Next, ~RefreshRecord, ~(\E p \in Paths : ServerScan(p)),
         ~(\E path \in cliTodo : ClientScan(path))
  PROVE  UNCHANGED <<remoteRows, localRows>>
<1> USE DEF localDb, server, StopProcess
<1>1. CASE StartRun \/ MainReturns \/ KillHungRun
  BY <1>1 DEF StartRun, MainReturns, KillHungRun
<1>2. CASE ServerStep
  BY <1>2 DEF ServerStep, ServerListen, ServerSendChunk, ServerEnd
<1>3. CASE ClientSetup
  BY <1>3 DEF ClientSetup, ClientScanned, ClientConnect, ClientCompare, ClientDone
<1>4. CASE ClientTransfer
  BY <1>4 DEF ClientTransfer, BeginTask, OpenResume, ResetTask, ReceiveChunks, ReceiveFails,
     OpenMismatch, OpenFresh, ClearTaskChunks, WriterBegin
<1>5. CASE ClientWrite
  BY <1>5 DEF ClientWrite, AppendChunk, ChunkUnavailable, MarkChunk, SaveProgress, EnterVerify,
     CommitFile, CommitRefused, CatchFailure
<1>6. CASE ClientPublish
  BY <1>6 DEF ClientPublish, UnmarkChunks, FinishTask, StoreTruncate, StoreCopy, UpsertStoredObject
<1>7. CASE Faults
  BY <1>7 DEF Faults, ClientGiveUp, Crash, CrashDuringAppend, AppendFails, AppendLost
<1>8. CASE Users
  BY <1>8 DEF Users, RemoteEdit, LocalEdit
<1> QED
  BY <1>1, <1>2, <1>3, <1>4, <1>5, <1>6, <1>7, <1>8 DEF Next, ClientStep

\* A path and a file_id identify at most one row of either database, however
\* often the same content turns up at several paths.
THEOREM RowsKeyed == Spec => []RowsAreKeyed
<1>1. Init => RowsAreKeyed
  BY DEF Init, RowsAreKeyed
<1>2. RowsAreKeyed /\ [Next]_vars => RowsAreKeyed'
  <2> SUFFICES ASSUME Keyed(remoteRows), Keyed(localRows), [Next]_vars
               PROVE  Keyed(remoteRows') /\ Keyed(localRows')
    BY DEF RowsAreKeyed, Keyed
  <2>1. ASSUME NEW p \in Paths, ServerScan(p)
        PROVE  Keyed(remoteRows') /\ localRows' = localRows
    BY <2>1, UpsertKeepsKeys DEF ServerScan, localDb
  <2>2. ASSUME NEW path \in cliTodo, ClientScan(path)
        PROVE  Keyed(localRows') /\ remoteRows' = remoteRows
    BY <2>2, UpsertKeepsKeys DEF ClientScan, server
  <2>3. CASE RefreshRecord
    BY <2>3, UpsertKeepsKeys DEF RefreshRecord, server
  <2>4. CASE UNCHANGED <<remoteRows, localRows>>
    BY <2>4
  <2> QED
    BY <2>1, <2>2, <2>3, <2>4, RowsUntouched DEF vars, server, localDb
<1> QED
  BY <1>1, <1>2, PTL DEF Spec

-----------------------------------------------------------------------------
(***************************************************************************)
(* The .part file and the recorded chunks.                                 *)
(***************************************************************************)
LEMMA PrefixBytesAdd ==
  ASSUME NEW c \in Bytes, NEW n \in Nat, n < NumChunks(c)
  PROVE  ComputePrefixBytes(c, n) + Len(Chunk(c, n)) = ComputePrefixBytes(c, n + 1)
<1>1. n * ChunkSize \in Nat /\ n * ChunkSize < Len(c)
  BY ChunkStartsInside, ChunkSizeAssumption
<1>2. (n + 1) * ChunkSize \in Nat /\ (n + 1) * ChunkSize >= n * ChunkSize
  BY ChunkSizeAssumption
<1>3. ChunkEnd(c, n) \in (n * ChunkSize)..Len(c)
  BY <1>1, <1>2 DEF ChunkEnd, Bytes
<1>4. Len(Chunk(c, n)) = ChunkEnd(c, n) - n * ChunkSize
  BY <1>1, <1>3, SubSeqProperties DEF Chunk, Bytes
<1>5. ComputePrefixBytes(c, n) = n * ChunkSize
  <2>1. CASE n = 0
    BY <2>1, ChunkSizeAssumption DEF ComputePrefixBytes
  <2>2. CASE n # 0
    <3>1. (n - 1) + 1 = n
      OBVIOUS
    <3> QED
      BY <2>2, <3>1, <1>1 DEF ComputePrefixBytes, ChunkEnd
  <2> QED
    BY <2>1, <2>2
<1>6. ComputePrefixBytes(c, n + 1) = ChunkEnd(c, n)
  BY DEF ComputePrefixBytes
<1> QED
  BY <1>1, <1>3, <1>4, <1>5, <1>6

\* Chunks of the current file that are in the .part file.
Written == IF cli = "write" THEN cur.next ELSE cur.next + 1

PartLength ==
  cli \in {"write", "mark", "progress"} =>
    Len(part[cur.path]) = ComputePrefixBytes(cur.content, Written)

\* Every step keeps the length of the .part file in line with the position.
LEMMA NextPartLength ==
  ASSUME ~DiskFaults
  PROVE  SyncInv /\ PartLength /\ [Next]_vars => PartLength'
<1> SUFFICES ASSUME SyncInv, PartLength, [Next]_vars
             PROVE  PartLength'
  OBVIOUS
<1> USE DEF SyncInv, InRequest, Writing
<1>1. CASE AppendChunk
  <2>1. MoreToWrite /\ cli = "write" /\ cli' = "mark"
    BY <1>1 DEF AppendChunk, MoreToWrite
  <2>2. /\ cur \in Work /\ cur.path \in Paths /\ cur.next \in Nat /\ cur.content \in Bytes
        /\ NextChunk \in Bytes /\ cur.next < NumChunks(cur.content)
    BY <2>1, NextChunkIsTyped, CurIsTyped DEF MoreToWrite
  <2>3. part'[cur.path] = part[cur.path] \o NextChunk
    BY <1>1, <2>2 DEF AppendChunk, AppendPart, IndInv, TypeOK, FilesOK
  <2>4. part[cur.path] \in Bytes
    BY <2>1, <2>2 DEF WriterOpen, IndInv, TypeOK, FilesOK, MaybeBytes
  <2>5. Len(part'[cur.path]) = Len(part[cur.path]) + Len(NextChunk)
    BY <2>2, <2>3, <2>4, ConcatProperties DEF Bytes
  <2>6. cur'.path = cur.path /\ cur'.content = cur.content /\ cur'.next = cur.next
    BY <1>1, <2>2 DEF AppendChunk, Work
  <2>7. Len(part[cur.path]) = ComputePrefixBytes(cur.content, cur.next)
    BY <2>1 DEF PartLength, Written
  <2> QED
    BY <2>1, <2>2, <2>5, <2>6, <2>7, PrefixBytesAdd DEF PartLength, Written, NextChunk
<1>2. CASE MarkChunk
  BY <1>2 DEF MarkChunk, files, PartLength, Written
<1>3. CASE SaveProgress
  <2>1. cur'.path = cur.path /\ cur'.content = cur.content /\ cur'.next = cur.next + 1
    BY <1>3, CurIsTyped DEF SaveProgress, Work
  <2> QED
    BY <1>3, <2>1 DEF SaveProgress, files, PartLength, Written
<1>4. CASE OpenResume
  <2>1. cur \in Work /\ cur.path \in Paths
    BY <1>4, CurIsTyped DEF OpenResume
  <2>2. /\ part'[cur.path] = ResumedBytes /\ cur'.path = cur.path
        /\ cur'.content = cur.content /\ cur'.next = cur.prefix
    BY <1>4, <2>1 DEF OpenResume, Work, IndInv, TypeOK, FilesOK
  <2> QED
    BY <1>4, <2>2 DEF OpenResume, PartLength, Written
<1>5. CASE WriterBegin
  <2>1. cur \in Work /\ cur.path \in Paths
    BY <1>5, CurIsTyped DEF WriterBegin
  <2>2. part'[cur.path] = <<>> /\ cur'.path = cur.path /\ cur'.next = 0
    BY <1>5, <2>1 DEF WriterBegin, Work, IndInv, TypeOK, FilesOK
  <2> QED
    BY <1>5, <2>2 DEF WriterBegin, PartLength, Written, ComputePrefixBytes
<1>6. CASE UNCHANGED <<cli, cur, part>>
  BY <1>6 DEF PartLength, Written
<1>7. CASE ServerStep \/ Users
  BY <1>6, <1>7 DEF ServerStep, ServerScan, ServerListen, ServerSendChunk, ServerEnd, Users,
                    RemoteEdit, LocalEdit, client, files
<1>8. CASE cli' \notin {"write", "mark", "progress"}
  BY <1>8 DEF PartLength
<1>9. CASE StartRun \/ MainReturns \/ KillHungRun \/ Faults
  BY <1>8, <1>9 DEF StartRun, MainReturns, KillHungRun, StopProcess, Faults, ClientGiveUp, Crash,
     CrashDuringAppend, AppendFails, AppendLost, DiskFault
<1>10. CASE ClientSetup \/ ClientPublish
  BY <1>8, <1>10 DEF ClientSetup, ClientScan, ClientScanned, ClientConnect, ClientCompare,
     ClientDone, ClientPublish, UnmarkChunks, FinishTask, RefreshRecord, StoreTruncate, StoreCopy,
     UpsertStoredObject
<1>11. CASE ClientTransfer
  BY <1>4, <1>5, <1>8, <1>11 DEF ClientTransfer, BeginTask, ReceiveChunks, ReceiveFails,
     OpenMismatch, OpenFresh, ClearTaskChunks, ResetTask
<1>12. CASE ClientWrite
  BY <1>1, <1>2, <1>3, <1>8, <1>12 DEF ClientWrite, ChunkUnavailable, EnterVerify, CommitFile,
     CommitRefused, CatchFailure
<1> QED
  BY <1>6, <1>7, <1>9, <1>10, <1>11, <1>12 DEF Next, ClientStep, vars, files, client

\* Without lost bytes, the recorded chunks and the .part file agree whenever
\* the client is between two chunks: a crash there leaves a transfer that
\* the length check of Resume accepts.
THEOREM ProgressAgrees ==
  ASSUME ~DiskFaults
  PROVE  Spec => []ProgressMatchesPart
<1>1. Init => PartLength
  BY DEF Init, PartLength
<1>2. SyncInv /\ PartLength => ProgressMatchesPart
  <2> SUFFICES ASSUME SyncInv, PartLength, cli \in {"write", "progress"}
               PROVE  /\ ComputeResumePrefixCount(taskChunks[CurTask], cur.content) = Written
                      /\ Len(part[cur.path]) = ComputePrefixBytes(cur.content, Written)
    BY DEF ProgressMatchesPart, Written
  <2>1. /\ cur \in Work /\ cur.next \in Nat /\ cur.content \in Bytes
        /\ NumChunks(cur.content) \in Nat
    BY CurIsTyped DEF SyncInv, InRequest, Writing, Work
  <2>2. /\ Written \in 0..NumChunks(cur.content)
        /\ taskChunks[CurTask] = FirstChunks(cur.content, Written)
    BY <2>1 DEF Written, SyncInv, IndInv, Position
  <2> QED
    BY <2>1, <2>2, PrefixCountIsExact DEF PartLength
<1> QED
  BY <1>1, <1>2, SyncInvariant, NextPartLength, PTL DEF Spec

-----------------------------------------------------------------------------
(***************************************************************************)
(* The files.                                                              *)
(***************************************************************************)
\* What the rename puts in place is the announced version: all that was
\* hashed is in the .part file, and the hash is that of the version.
LEMMA CommitInstallsVersion ==
  ASSUME ~DiskFaults, SyncInv, CommitFile
  PROVE  /\ cur.path \in Paths /\ cur.content \in Content
         /\ cur.content = manifest[cur.path]
         /\ final' = [final EXCEPT ![cur.path] = cur.content]
<1>1. cli \in InRequest /\ cli \in Writing
  BY DEF CommitFile, InRequest, Writing
<1>2. cur.path \in Paths /\ cur.content \in Content /\ cur.content = manifest[cur.path]
  BY <1>1, CurIsTyped DEF SyncInv
<1>3. part[cur.path] = cur.content
  BY <1>1 DEF CommitFile, HashMatches, SyncInv, WriterOpen
<1> QED
  BY <1>2, <1>3 DEF CommitFile

\* Only the rename and the local users change a file of the local root.
LEMMA FinalUntouched ==
  ASSUME Next, ~CommitFile, ~(\E p \in Paths : LocalEdit(p))
  PROVE  UNCHANGED <<final, localEdits>>
<1> USE DEF files, environment, StopProcess
<1>1. CASE StartRun \/ MainReturns \/ KillHungRun
  BY <1>1 DEF StartRun, MainReturns, KillHungRun
<1>2. CASE ServerStep
  BY <1>2 DEF ServerStep, ServerScan, ServerListen, ServerSendChunk, ServerEnd
<1>3. CASE ClientSetup
  BY <1>3 DEF ClientSetup, ClientScan, ClientScanned, ClientConnect, ClientCompare, ClientDone
<1>4. CASE ClientTransfer
  BY <1>4 DEF ClientTransfer, BeginTask, OpenResume, ResetTask, ReceiveChunks, ReceiveFails,
     OpenMismatch, OpenFresh, ClearTaskChunks, WriterBegin
<1>5. CASE ClientWrite
  BY <1>5 DEF ClientWrite, AppendChunk, ChunkUnavailable, MarkChunk, SaveProgress, EnterVerify,
     CommitRefused, CatchFailure
<1>6. CASE ClientPublish
  BY <1>6 DEF ClientPublish, UnmarkChunks, FinishTask, RefreshRecord, StoreTruncate, StoreCopy,
     UpsertStoredObject
<1>7. CASE Faults
  BY <1>7 DEF Faults, ClientGiveUp, Crash, CrashDuringAppend, AppendFails, AppendLost
<1>8. CASE Users
  BY <1>8 DEF Users, RemoteEdit
<1> QED
  BY <1>1, <1>2, <1>3, <1>4, <1>5, <1>6, <1>7, <1>8 DEF Next, ClientStep

\* Without lost bytes a file of the local root is always one that a user
\* made: no crash, no resumed .part file of another version and no torn
\* append ever shows in the local root.
THEOREM FilesNeverPartial ==
  ASSUME ~DiskFaults
  PROVE  Spec => []NeverPartial
<1>1. Init => NeverPartial
  BY DEF Init, NeverPartial
<1>2. SyncInv /\ NeverPartial /\ [Next]_vars => NeverPartial'
  <2> SUFFICES ASSUME SyncInv, NeverPartial, [Next]_vars
               PROVE  NeverPartial'
    OBVIOUS
  <2>0. final \in [Paths -> MaybeBytes]
    BY DEF SyncInv, IndInv, TypeOK, FilesOK
  <2>1. CASE CommitFile
    BY <2>0, <2>1, CommitInstallsVersion DEF NeverPartial, Announced
  <2>2. ASSUME NEW p \in Paths, LocalEdit(p)
        PROVE  NeverPartial'
    BY <2>0, <2>2, NewContentIsAnnounced DEF LocalEdit, NeverPartial
  <2>3. CASE UNCHANGED final
    BY <2>3 DEF NeverPartial
  <2> QED
    BY <2>1, <2>2, <2>3, FinalUntouched DEF vars, files
<1> QED
  BY <1>1, <1>2, SyncInvariant, PTL DEF Spec

-----------------------------------------------------------------------------
(***************************************************************************)
(* Refinement.                                                             *)
(***************************************************************************)
\* What the remote root and the remote database hold has been published.
OnlyPublished ==
  /\ \A p \in Paths : remote[p] # NoFile => <<remote[p], p>> \in published
  /\ \A r \in remoteRows : <<r.file_id, r.path>> \in published

\* Only remote edits and the server's scan change what was published or
\* recorded of the remote root.
LEMMA RemoteUntouched ==
  ASSUME Next, ~(\E p \in Paths : RemoteEdit(p) \/ ServerScan(p))
  PROVE  UNCHANGED <<remote, published, remoteRows>>
<1> USE DEF files, environment, server, StopProcess
<1>1. CASE StartRun \/ MainReturns \/ KillHungRun
  BY <1>1 DEF StartRun, MainReturns, KillHungRun
<1>2. CASE ServerStep
  BY <1>2 DEF ServerStep, ServerListen, ServerSendChunk, ServerEnd
<1>3. CASE ClientSetup
  BY <1>3 DEF ClientSetup, ClientScan, ClientScanned, ClientConnect, ClientCompare, ClientDone
<1>4. CASE ClientTransfer
  BY <1>4 DEF ClientTransfer, BeginTask, OpenResume, ResetTask, ReceiveChunks, ReceiveFails,
     OpenMismatch, OpenFresh, ClearTaskChunks, WriterBegin
<1>5. CASE ClientWrite
  BY <1>5 DEF ClientWrite, AppendChunk, ChunkUnavailable, MarkChunk, SaveProgress, EnterVerify,
     CommitFile, CommitRefused, CatchFailure
<1>6. CASE ClientPublish
  BY <1>6 DEF ClientPublish, UnmarkChunks, FinishTask, RefreshRecord, StoreTruncate, StoreCopy,
     UpsertStoredObject
<1>7. CASE Faults
  BY <1>7 DEF Faults, ClientGiveUp, Crash, CrashDuringAppend, AppendFails, AppendLost
<1>8. CASE Users
  BY <1>8 DEF Users, LocalEdit
<1> QED
  BY <1>1, <1>2, <1>3, <1>4, <1>5, <1>6, <1>7, <1>8 DEF Next, ClientStep

\* Every step keeps announced versions among the published ones.
LEMMA NextPublished == SyncInv /\ OnlyPublished /\ [Next]_vars => OnlyPublished'
<1> SUFFICES ASSUME SyncInv, OnlyPublished, [Next]_vars
             PROVE  OnlyPublished'
  OBVIOUS
<1>0. remote \in [Paths -> Announced]
  BY DEF SyncInv, IndInv, TypeOK, FilesOK
<1>1. ASSUME NEW p \in Paths, RemoteEdit(p)
      PROVE  OnlyPublished'
  <2>1. PICK c : /\ remote' = [remote EXCEPT ![p] = c]
                 /\ published' = IF c = NoFile THEN published ELSE published \cup {<<c, p>>}
    BY <1>1 DEF RemoteEdit
  <2>2. remoteRows' = remoteRows
    BY <1>1 DEF RemoteEdit, server
  <2> QED
    BY <1>0, <2>1, <2>2 DEF OnlyPublished
<1>2. ASSUME NEW p \in Paths, ServerScan(p)
      PROVE  OnlyPublished'
  <2>1. UNCHANGED <<remote, published>>
    BY <1>2 DEF ServerScan, files, environment
  <2>2. \A r \in remoteRows' : r \in remoteRows \/ (remote[p] # NoFile /\ r = FileRow(remote[p], p))
    BY <1>2 DEF ServerScan, UpsertFile
  <2> QED
    BY <2>1, <2>2 DEF OnlyPublished, FileRow
<1>3. CASE UNCHANGED <<remote, published, remoteRows>>
  BY <1>3 DEF OnlyPublished
<1> QED
  BY <1>1, <1>2, <1>3, RemoteUntouched DEF vars, files, server, environment

\* Every step of sync_v1 is a step of AtomicPull or is invisible to it.
LEMMA StepSimulates ==
  ASSUME ~DiskFaults, SyncInv, OnlyPublished, [Next]_vars
  PROVE  [Pull!Next]_(Pull!vars)
<1>0. /\ remote \in [Paths -> Announced] /\ final \in [Paths -> MaybeBytes]
      /\ manifest \in [Paths -> Announced]
  BY DEF SyncInv, IndInv, TypeOK, FilesOK, ServerOK
<1>1. ASSUME NEW p \in Paths, RemoteEdit(p)
      PROVE  Pull!Next
  <2>1. Pull!RemoteEdit(p)
    BY <1>1, NewContentIsAnnounced DEF RemoteEdit, server, Pull!RemoteEdit, Announced
  <2> QED
    BY <2>1 DEF Pull!Next
<1>2. ASSUME NEW p \in Paths, LocalEdit(p)
      PROVE  Pull!Next
  <2>1. Pull!LocalEdit(p)
    BY <1>2, NewContentIsAnnounced DEF LocalEdit, server, Pull!LocalEdit, Announced
  <2> QED
    BY <2>1 DEF Pull!Next
<1>3. CASE CommitFile
  <2>1. cur.content # NoFile
    BY <1>3, CommitInstallsVersion, ContentAssumption, NoFileAssumption DEF Bytes
  <2>2. Pull!Install(cur.path)
    BY <1>3, <2>1, CommitInstallsVersion DEF CommitFile, server, Pull!Install
  <2> QED
    BY <1>3, <2>2, CommitInstallsVersion DEF Pull!Next
<1>4. CASE ServerListen
  <2>1. UNCHANGED <<remote, published, final, localEdits>>
    BY <1>4 DEF ServerListen, files, environment
  <2>2. \A p \in Paths : HasRow(remoteRows, p) =>
          RowOf(remoteRows, p) \in remoteRows /\ RowOf(remoteRows, p).path = p
    BY DEF HasRow, RowOf
  <2>3. manifest' = BuildManifest(remoteRows)
    BY <1>4 DEF ServerListen
  <2>4. \A p \in Paths : manifest'[p] # NoFile => <<manifest'[p], p>> \in published
    BY <2>2, <2>3 DEF BuildManifest, OnlyPublished
  <2>5. manifest' \in [Paths -> Announced]
    BY <2>2, <2>3 DEF BuildManifest, SyncInv, IndInv, TypeOK, ServerOK, Announced
  <2>6. Pull!Announce
    BY <2>1, <2>4, <2>5 DEF Pull!Announce, Pull!Files, Announced
  <2> QED
    BY <2>6 DEF Pull!Next
<1>5. CASE MainReturns \/ KillHungRun \/ Crash \/ CrashDuringAppend
  <2>1. Pull!Withdraw
    BY <1>5 DEF MainReturns, KillHungRun, Crash, CrashDuringAppend, StopProcess, files, Pull!Withdraw
  <2> QED
    BY <2>1 DEF Pull!Next
<1>6. CASE UNCHANGED <<remote, published, manifest, final, localEdits>>
  BY <1>6 DEF Pull!vars
<1>7. ASSUME NEW p \in Paths, ServerScan(p)
      PROVE  UNCHANGED <<remote, published, manifest, final, localEdits>>
  BY <1>7 DEF ServerScan, files, environment
<1>8. ASSUME Next, ~ServerListen, ~(MainReturns \/ KillHungRun \/ Crash \/ CrashDuringAppend)
      PROVE  manifest' = manifest
  <2> USE DEF server
  <2>1. CASE StartRun
    BY <2>1 DEF StartRun
  <2>2. CASE ServerStep
    BY <1>8, <2>2 DEF ServerStep, ServerScan, ServerSendChunk, ServerEnd
  <2>3. CASE ClientSetup
    BY <2>3 DEF ClientSetup, ClientScan, ClientScanned, ClientConnect, ClientCompare, ClientDone
  <2>4. CASE ClientTransfer
    BY <2>4 DEF ClientTransfer, BeginTask, OpenResume, ResetTask, ReceiveChunks, ReceiveFails,
       OpenMismatch, OpenFresh, ClearTaskChunks, WriterBegin
  <2>5. CASE ClientWrite
    BY <2>5 DEF ClientWrite, AppendChunk, ChunkUnavailable, MarkChunk, SaveProgress, EnterVerify,
       CommitFile, CommitRefused, CatchFailure
  <2>6. CASE ClientPublish
    BY <2>6 DEF ClientPublish, UnmarkChunks, FinishTask, RefreshRecord, StoreTruncate, StoreCopy,
       UpsertStoredObject
  <2>7. CASE Faults
    BY <1>8, <2>7 DEF Faults, ClientGiveUp, AppendFails, AppendLost
  <2>8. CASE Users
    BY <2>8 DEF Users, RemoteEdit, LocalEdit
  <2> QED
    BY <1>8, <2>1, <2>2, <2>3, <2>4, <2>5, <2>6, <2>7, <2>8 DEF Next, ClientStep
<1>9. CASE UNCHANGED vars
  BY <1>6, <1>9 DEF vars, files, server, environment
<1> QED
  BY <1>1, <1>2, <1>3, <1>4, <1>5, <1>6, <1>7, <1>8, <1>9, FinalUntouched, RemoteUntouched

\* Without lost bytes sync_v1 implements AtomicPull: whatever is interrupted,
\* a final file is only ever replaced, in one step, by the complete version
\* that the server announced for its path.
THEOREM Refinement ==
  ASSUME ~DiskFaults
  PROVE  Spec => ImplementsAtomicPull
<1>1. Init => Pull!Init /\ OnlyPublished
  <2> SUFFICES ASSUME Init PROVE Pull!Init /\ OnlyPublished
    OBVIOUS
  <2>1. Pull!Init
    BY DEF Init, Pull!Init, Pull!Files, Announced
  <2>2. OnlyPublished
    BY DEF Init, OnlyPublished
  <2> QED
    BY <2>1, <2>2
<1>2. SyncInv /\ OnlyPublished /\ [Next]_vars => [Pull!Next]_(Pull!vars)
  BY StepSimulates
<1> QED
  BY <1>1, <1>2, SyncInvariant, NextPublished, PTL DEF Spec, ImplementsAtomicPull, Pull!Spec
=============================================================================
