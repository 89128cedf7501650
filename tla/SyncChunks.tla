----------------------------- MODULE SyncChunks -----------------------------
(***************************************************************************)
(* The data and the pure functions of the sync engine.                     *)
(*                                                                         *)
(* A file's content is a sequence of bytes, cut into chunks of ChunkSize   *)
(* bytes of which only the last may be shorter.  Hashes are assumed to be  *)
(* collision free, so the hash of some bytes is the bytes themselves: a    *)
(* file_id (= root_hash) is the whole content, and a chunk's hash together *)
(* with its size is the chunk.  Chunk indexes start at 0, as in the code.  *)
(***************************************************************************)
EXTENDS Integers, Sequences

CONSTANTS Byte,      \* the values a byte can have
          ChunkSize, \* ChunkerOptions::chunk_size
          Paths,     \* relative paths of the files being synchronised
          NoFile     \* nothing at a path, or nothing announced for it

ASSUME ChunkSizeAssumption == ChunkSize \in Nat \ {0}
ASSUME NoFileAssumption == NoFile \notin Seq(Byte)

Bytes == Seq(Byte)

NumChunks(content) == (Len(content) + ChunkSize - 1) \div ChunkSize

ChunkIndexes(content) == 0..(NumChunks(content) - 1)

ChunkEnd(content, i) ==
  IF (i + 1) * ChunkSize < Len(content) THEN (i + 1) * ChunkSize ELSE Len(content)

Chunk(content, i) == SubSeq(content, i * ChunkSize + 1, ChunkEnd(content, i))

\* Same index, hash and size.
SameChunk(a, b, i) ==
  /\ i \in ChunkIndexes(a) \cap ChunkIndexes(b)
  /\ Chunk(a, i) = Chunk(b, i)

\* Does file still hold, at its offset, the chunk i of content?
ReadAndVerify(file, content, i) ==
  /\ file # NoFile
  /\ ChunkEnd(content, i) <= Len(file)
  /\ SubSeq(file, i * ChunkSize + 1, ChunkEnd(content, i)) = Chunk(content, i)

-----------------------------------------------------------------------------
(***************************************************************************)
(* file_records: rows with a file_id (primary key) and a path.             *)
(***************************************************************************)
FileRow(content, path) == [file_id |-> content, path |-> path]

\* Mutant: the row of the older version at the path stays.
UpsertFileKeepOld(rows, file) == {r \in rows : r.file_id # file.file_id} \cup {file}

\* The row of another version at the same path goes, then the row of this
\* file_id is inserted or, wherever it pointed before, redirected.
UpsertFile(rows, file) ==
  {r \in rows : r.path # file.path /\ r.file_id # file.file_id} \cup {file}

HasRow(rows, path) == \E r \in rows : r.path = path

RowOf(rows, path) == CHOOSE r \in rows : r.path = path

-----------------------------------------------------------------------------
(***************************************************************************)
(* DiffEngine.  A manifest maps every path to the announced content, or to *)
(* NoFile.                                                                 *)
(***************************************************************************)
BuildManifest(rows) ==
  [p \in Paths |-> IF HasRow(rows, p) THEN RowOf(rows, p).file_id ELSE NoFile]

DifferingChunks(old, new) ==
  {i \in ChunkIndexes(new) : ~SameChunk(old, new, i)}

MissingChunks(rows, p, content) ==
  LET old  == RowOf(rows, p).file_id
      diff == DifferingChunks(old, content)
  IN IF HasRow(rows, p) /\ diff # {} THEN diff ELSE ChunkIndexes(content)

\* Mutants: a file with any row is taken for up to date; none ever is.
NeedsRequestNewOnly(rows, p, content) == content # NoFile /\ ~HasRow(rows, p)

NeedsRequestAlways(rows, p, content) == content # NoFile

NeedsRequest(rows, p, content) ==
  /\ content # NoFile
  /\ HasRow(rows, p) => RowOf(rows, p).file_id # content

Compare(rows, manifest) ==
  {[path |-> p, missing |-> MissingChunks(rows, p, manifest[p])] :
     p \in {q \in Paths : NeedsRequest(rows, q, manifest[q])}}

-----------------------------------------------------------------------------
(***************************************************************************)
(* Resuming: rows of sync_task_chunks are pairs <<chunk index, chunk>>.    *)
(***************************************************************************)
Recorded(rows, content, i) == <<i, Chunk(content, i)>> \in rows

\* Length of the longest run of recorded chunks from chunk 0 on.
ComputeResumePrefixCount(rows, content) ==
  CHOOSE n \in 0..NumChunks(content) :
    /\ \A i \in 0..(n - 1) : Recorded(rows, content, i)
    /\ n < NumChunks(content) => ~Recorded(rows, content, n)

\* Sizes of the first n chunks, added up.
ComputePrefixBytes(content, n) ==
  IF n = 0 THEN 0 ELSE ChunkEnd(content, n - 1)

\* The bytes of the first n chunks.
FirstBytes(content, n) == SubSeq(content, 1, ComputePrefixBytes(content, n))

TrimCompletedChunks(missing, prefix) == {i \in missing : i >= prefix}

\* Mutant: index off by one.
MarkFollowingChunk(rows, content, i) ==
  {r \in rows : r[1] # i + 1} \cup {<<i + 1, Chunk(content, i)>>}

MarkTaskChunkComplete(rows, content, i) ==
  {r \in rows : r[1] # i} \cup {<<i, Chunk(content, i)>>}
=============================================================================
