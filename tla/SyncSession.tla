---------------------------- MODULE SyncSession ----------------------------
(***************************************************************************)
(* SyncSession: the conversation of the two threads of sync_v1 over one    *)
(* connection, byte by byte.                                               *)
(*                                                                         *)
(* The server announces its files and answers requests until it is told    *)
(* that all is done or the connection ends.  The client asks for chunks    *)
(* file by file and reads every chunk of a file before it goes on.  Both   *)
(* block in send, recv, connect and accept: SyncV1 models what the client  *)
(* does with the chunks, this module how they come.                        *)
(*                                                                         *)
(* A file is the tuple of its fields in a manifest (ManifestFile), a chunk *)
(* of ChunkManifestEntry; the hash of a chunk stands for its bytes.        *)
(***************************************************************************)
EXTENDS SocketTransport, Functions

CONSTANTS
  Manifests,   \* the file lists a server can announce
  MaxAttempts  \* attempts to connect

ASSUME AttemptsAssumption == MaxAttempts \in Nat \ {0}

Index(chunk) == chunk[1]
Hash(chunk) == chunk[4]
FileId(file) == file[1]
RelativePath(file) == file[2]
RootHash(file) == file[3]
Chunks(file) == file[6]

\* A manifest is a list of files, a file has a list of chunks.
ASSUME ManifestsAreLists ==
  \A m \in Manifests :
    m \in Seq(Range(m)) /\ \A file \in Range(m) : Chunks(file) \in Seq(Range(Chunks(file)))

\* What Chunker makes of a file: its chunks are numbered.
ASSUME ChunksAreNumbered ==
  \A m \in Manifests : \A i \in DOMAIN m :
    \A j \in DOMAIN Chunks(m[i]) : Index(Chunks(m[i])[j]) = j - 1

-----------------------------------------------------------------------------
(***************************************************************************)
(* The messages of a session.                                              *)
(***************************************************************************)
Hello == [type |-> "hello", values |-> << <<0>>, <<1, LF>>, <<1, 0>> >>]
Ack == [type |-> "ack", values |-> << <<>>, <<>>, TRUE, <<LF, LF>> >>]
Error == [type |-> "error", values |-> << <<1>> >>]
Announcement(files) == [type |-> "manifest", values |-> <<files>>]

\* Mutant: a chunk is numbered from the one that was sent before it.
ChunkDataUnnumbered(id, chunk) ==
  [type |-> "chunk", values |-> <<id, Hash(chunk), 0, chunk[2], Len(Hash(chunk)), Hash(chunk)>>]

\* The bytes of a chunk with what the request says of it.
ChunkData(id, chunk) ==
  [type |-> "chunk",
   values |-> <<id, Hash(chunk), Index(chunk), chunk[2], Len(Hash(chunk)), Hash(chunk)>>]

\* The increasing sequences of numbers up to n, and what they select from s.
Increasing(n) ==
  {order \in UNION {[1 .. k -> 1 .. n] : k \in 0 .. n} :
     \A i, j \in DOMAIN order : i < j => order[i] < order[j]}
Subsequences(s) == {[i \in DOMAIN order |-> s[order[i]]] : order \in Increasing(Len(s))}

\* The requests for some chunks of a file, in the order of the file.
Requests(file) ==
  {[type |-> "missing", values |-> <<FileId(file), RelativePath(file), RootHash(file), chunks>>] :
     chunks \in Subsequences(Chunks(file))}

\* The requests of Compare, with what an earlier run has left to fetch: any
\* chunks, or none, of any of the files.
Plans(files) ==
  {plan \in UNION {[1 .. k -> UNION {Requests(file) : file \in Range(files)}] : k \in 0 .. Len(files)} :
     \E order \in Increasing(Len(files)) :
       DOMAIN order = DOMAIN plan /\ \A i \in DOMAIN plan : plan[i] \in Requests(files[order[i]])}

\* What answers them.
Answers(file) == {ChunkData(FileId(file), chunk) : chunk \in Range(Chunks(file))}

Messages(files) ==
  {Hello, Ack, Error, Announcement(files)}
    \cup UNION {Requests(file) \cup Answers(file) : file \in Range(files)}

\* What was encoded is decoded, whatever its strings hold.  Sizes above what a
\* word holds would be cut by Send: no payload gets there.
ASSUME CodecAssumption ==
  \A m \in Manifests : \A message \in Messages(m) :
    /\ Payload(message) \in Seq(Byte)
    /\ Len(Payload(message)) < WordLimit
    /\ Message(message.type, Payload(message)) = message

-----------------------------------------------------------------------------
VARIABLES
  manifest,  \* what the server has found
  srv,       \* where RunServer is
  reply,     \* the messages it has still to send for a request
  cli,       \* where RunClient is
  attempts,  \* failed attempts to connect
  remote,    \* the manifest the client has received
  plan,      \* the requests the client has still to send
  asked,     \* the chunks of its current request
  awaited,   \* how many of their frames have still to come
  received   \* received_chunks: the bytes by chunk index

session == <<manifest, srv, reply, cli, attempts, remote, plan, asked, awaited, received>>
vars == <<connection, session>>

Nothing == [i \in {} |-> <<>>]

Init ==
  /\ Connection
  /\ manifest \in Manifests
  /\ srv = "scan" /\ reply = <<>>
  /\ cli = "connect" /\ attempts = 0
  /\ remote = <<>> /\ plan = <<>> /\ asked = <<>> /\ awaited = 0
  /\ received = Nothing

-----------------------------------------------------------------------------
(***************************************************************************)
(* RunServer.                                                              *)
(***************************************************************************)
ServerAt(place) == srv = place /\ Ready("server")

ServerGoes(place) ==
  /\ srv' = place
  /\ UNCHANGED <<manifest, cli, attempts, remote, plan, asked, awaited, received>>

\* The constructor of the listener: bind and listen.
ServerListen ==
  /\ ServerAt("scan") /\ ServerGoes("accept")
  /\ UNCHANGED <<connection, reply>>

\* The port is in use.
ServerListenFails ==
  /\ ServerAt("scan") /\ ServerGoes("unbound")
  /\ UNCHANGED <<connection, reply>>

ServerAccept ==
  /\ ServerAt("accept") /\ "server" \in open
  /\ ServerGoes("hello")
  /\ UNCHANGED <<connection, reply>>

ServerHello ==
  /\ ServerAt("hello") /\ ServerGoes("manifest")
  /\ Send("server", Hello)
  /\ UNCHANGED reply

ServerManifest ==
  /\ ServerAt("manifest") /\ ServerGoes("loop")
  /\ Send("server", Announcement(manifest))
  /\ UNCHANGED reply

ServerReceive ==
  /\ ServerAt("loop") /\ ServerGoes("receive")
  /\ Receive("server")
  /\ UNCHANGED reply

\* Mutant: only the first file is looked at.
FindFirstFile(files, request) ==
  files # <<>> /\ FileId(files[1]) = request[1] /\ RelativePath(files[1]) = request[2]

\* FindRemoteFile compares id and path.
FindRemoteFile(files, request) ==
  \E i \in DOMAIN files : FileId(files[i]) = request[1] /\ RelativePath(files[i]) = request[2]

\* The answer to a request: a chunk each, if the file was announced.
Reply(request) ==
  IF FindRemoteFile(manifest, request)
    THEN [i \in DOMAIN request[4] |-> ChunkData(request[1], request[4][i])]
    ELSE <<Error>>

\* Frames of other types, known or not, are passed over and not decoded; a
\* decoder that throws ends RunServer.
ServerFrame ==
  LET message == Incoming("server")
      place == CASE message.type = "missing" -> "reply"
                 [] message.type = "ack" -> "acked"
                 [] message.type = "thrown" /\ Kind("server") \in {"missing", "ack"} -> "thrown"
                 [] OTHER -> "loop"
  IN /\ srv = "receive" /\ in["server"].stage = "frame"
     /\ ServerGoes(place)
     /\ reply' = IF place = "reply" THEN Reply(message.values) ELSE reply
     /\ IF place \in {"acked", "thrown"} THEN Close("server") ELSE Resume("server")

\* Mutant: the server ends with its first reply.
ServerReplyOnce ==
  /\ ServerAt("reply") /\ reply = <<>>
  /\ ServerGoes("failed")
  /\ Close("server")
  /\ UNCHANGED reply

ServerReplied ==
  /\ ServerAt("reply") /\ reply = <<>>
  /\ ServerGoes("loop")
  /\ UNCHANGED <<connection, reply>>

\* The next chunk, which ReadAndVerify has read, or the error.
ServerReply ==
  /\ ServerAt("reply") /\ reply # <<>>
  /\ Send("server", Head(reply))
  /\ reply' = Tail(reply)
  /\ ServerGoes("reply")

\* The source file has changed: ReadAndVerify throws and RunServer ends.
ServerReplyFails ==
  /\ ServerAt("reply") /\ reply # <<>> /\ Head(reply).type = "chunk"
  /\ ServerGoes("failed")
  /\ Close("server")
  /\ UNCHANGED reply

\* The connection has ended, and so does the loop.
ServerEof ==
  /\ srv = "receive" /\ in["server"].stage = "eof"
  /\ ServerGoes("closed")
  /\ Close("server")
  /\ UNCHANGED reply

RunServer ==
  \/ ServerListen \/ ServerListenFails \/ ServerAccept
  \/ ServerHello \/ ServerManifest
  \/ ServerReceive \/ ServerFrame \/ ServerReply \/ ServerReplyFails \/ ServerReplied
  \/ ServerEof
  \/ IO("server") /\ UNCHANGED session

-----------------------------------------------------------------------------
(***************************************************************************)
(* RunClient.                                                              *)
(***************************************************************************)
ClientAt(place) == cli = place /\ Ready("client")

ClientGoes(place) ==
  /\ cli' = place
  /\ UNCHANGED <<manifest, srv, reply>>

\* The server listens: the connection is made whether or not it has been
\* accepted.
ClientConnect ==
  /\ ClientAt("connect") /\ srv = "accept"
  /\ ClientGoes("hello")
  /\ ConnectTcp
  /\ UNCHANGED <<attempts, remote, plan, asked, awaited, received>>

\* An attempt is refused; the last one ends the client.
ClientRetry ==
  /\ ClientAt("connect") /\ srv \in {"scan", "unbound"}
  /\ attempts' = attempts + 1
  /\ ClientGoes(IF attempts' = MaxAttempts THEN "refused" ELSE "connect")
  /\ UNCHANGED <<connection, remote, plan, asked, awaited, received>>

ClientReceive ==
  /\ \E place \in {"hello", "manifest", "chunks"} : ClientAt(place)
  /\ cli = "chunks" => awaited > 0
  /\ Receive("client")
  /\ UNCHANGED session

ClientHello ==
  /\ cli = "hello" /\ in["client"].stage = "frame" /\ Incoming("client").type = "hello"
  /\ ClientGoes("manifest")
  /\ Resume("client")
  /\ UNCHANGED <<attempts, remote, plan, asked, awaited, received>>

ClientManifest ==
  /\ cli = "manifest" /\ in["client"].stage = "frame"
  /\ \E message \in {Incoming("client")} :
       /\ message.type = "manifest"
       /\ remote' = message.values[1]
       /\ plan' \in Plans(message.values[1])
  /\ ClientGoes("next")
  /\ Resume("client")
  /\ UNCHANGED <<attempts, asked, awaited, received>>

\* Mutant: a frame is awaited for the request itself, too.
ClientRequestAwaitsReply ==
  /\ ClientAt("next") /\ plan # <<>>
  /\ IF Head(plan).values[4] = <<>> THEN UNCHANGED connection ELSE Send("client", Head(plan))
  /\ asked' = Head(plan).values[4]
  /\ awaited' = Len(asked') + 1
  /\ received' = Nothing
  /\ plan' = Tail(plan)
  /\ ClientGoes("chunks")
  /\ UNCHANGED <<attempts, remote>>

\* A request for no chunk is not sent: the file is rebuilt from what is there.
ClientRequest ==
  /\ ClientAt("next") /\ plan # <<>>
  /\ IF Head(plan).values[4] = <<>> THEN UNCHANGED connection ELSE Send("client", Head(plan))
  /\ asked' = Head(plan).values[4]
  /\ awaited' = Len(asked')
  /\ received' = Nothing
  /\ plan' = Tail(plan)
  /\ ClientGoes("chunks")
  /\ UNCHANGED <<attempts, remote>>

\* emplace keeps the bytes an index already has.
ClientChunk ==
  LET message == Incoming("client")
      index == message.values[3]
  IN /\ cli = "chunks" /\ in["client"].stage = "frame"
     /\ message.type = "chunk"
     /\ received' = [i \in DOMAIN received \cup {index} |->
                       IF i \in DOMAIN received THEN received[i] ELSE message.values[6]]
     /\ awaited' = awaited - 1
     /\ ClientGoes("chunks")
     /\ Resume("client")
     /\ UNCHANGED <<attempts, remote, plan, asked>>

\* The file is rebuilt from the chunks, verified and committed.
ClientRebuild ==
  /\ ClientAt("chunks") /\ awaited = 0
  /\ ClientGoes("next")
  /\ UNCHANGED <<connection, attempts, remote, plan, asked, awaited, received>>

\* Or not: the disk is full, a local chunk has changed.
ClientRebuildFails ==
  /\ ClientAt("chunks") /\ awaited = 0
  /\ ClientGoes("aborted")
  /\ Close("client")
  /\ UNCHANGED <<attempts, remote, plan, asked, awaited, received>>

\* The end of the connection, or a frame that is not the one expected.
ClientReceiveFails ==
  LET expected == IF cli = "chunks" THEN "chunk" ELSE cli
  IN /\ cli \in {"hello", "manifest", "chunks"}
     /\ in["client"].stage \in {"eof", "frame"}
     /\ in["client"].stage = "frame" => Incoming("client").type # expected
     /\ ClientGoes("failed")
     /\ Close("client")
     /\ UNCHANGED <<attempts, remote, plan, asked, awaited, received>>

ClientAck ==
  /\ ClientAt("next") /\ plan = <<>>
  /\ ClientGoes("acked")
  /\ Send("client", Ack)
  /\ UNCHANGED <<attempts, remote, plan, asked, awaited, received>>

ClientDone ==
  /\ ClientAt("acked") /\ ClientGoes("done")
  /\ Close("client")
  /\ UNCHANGED <<attempts, remote, plan, asked, awaited, received>>

RunClient ==
  \/ ClientConnect \/ ClientRetry
  \/ ClientReceive \/ ClientHello \/ ClientManifest
  \/ ClientRequest \/ ClientChunk \/ ClientRebuild \/ ClientRebuildFails
  \/ ClientReceiveFails \/ ClientAck \/ ClientDone
  \/ IO("client") /\ UNCHANGED session

-----------------------------------------------------------------------------
ServerEnded == srv \in {"acked", "closed", "failed", "unbound", "thrown"}
ClientEnded == cli \in {"done", "failed", "aborted", "refused"}

\* The client has given up before the server listened: the server waits in
\* accept and main for the server, until the operator ends the process.
KillHungRun ==
  /\ cli = "refused" /\ srv = "accept"
  /\ srv' = "closed"
  /\ UNCHANGED <<connection, manifest, reply, cli, attempts, remote, plan, asked, awaited, received>>

Next == RunServer \/ RunClient \/ KillHungRun

Spec == Init /\ [][Next]_vars

\* Both threads are scheduled, and the kernel moves what it has room for.
FairSpec == Spec /\ WF_vars(RunServer) /\ WF_vars(RunClient)

-----------------------------------------------------------------------------
(***************************************************************************)
(* Properties.                                                             *)
(***************************************************************************)
\* Once RunClient has read as many chunks as it asked for (main.cpp:268-279),
\* the bytes it has for each index are those of the chunk the server's
\* manifest has there, whatever was in the bytes and wherever the reads cut
\* the stream.
ChunksAsAsked ==
  cli = "chunks" /\ awaited = 0 =>
    \A chunk \in Range(asked) :
      /\ \E file \in Range(manifest) : chunk \in Range(Chunks(file))
      /\ Index(chunk) \in DOMAIN received /\ received[Index(chunk)] = Hash(chunk)

\* Neither thread ever writes to a connection the other has closed, nor
\* closes one with bytes in it: send has no MSG_NOSIGNAL (transport.cpp:22),
\* the signal would end the process and both threads, and a reset could
\* discard chunks that were already sent.
NothingForTheClosed ==
  \A e \in Ends :
    e \notin open => out[Peer(e)] = <<>> /\ net[Peer(e)] = <<>>

\* The outcomes agree.  Only a server that could not read its source makes a
\* client fail that is connected, so that every frame is understood whatever
\* its strings hold (protocol_codec.cpp:19); and the server hears of the end
\* of a client that ends well by its ack (main.cpp:197), else by the end of
\* the connection.
OutcomesAgree ==
  /\ srv # "thrown"
  /\ cli = "failed" => srv = "failed"
  /\ srv = "closed" => cli \in {"aborted", "refused"}
  /\ srv = "acked" => cli \in {"acked", "done"}

Down == INSTANCE FrameQueue WITH sent <- sent["server"], got <- got["client"]
Up == INSTANCE FrameQueue WITH sent <- sent["client"], got <- got["server"]

\* Each direction of the connection implements the in-memory transport: no
\* partial write or read (transport.cpp:18-44) tears, repeats or reorders a
\* frame.
ImplementsFrameQueues == Down!Spec /\ Up!Spec

\* Once the client is connected, both threads end: they never wait for each
\* other, in send or in recv, although the buffers hold less than a frame.
SessionEnds == open = Ends ~> ServerEnded /\ ClientEnded
=============================================================================
