--------------------------- MODULE ProtocolCodec ---------------------------
(***************************************************************************)
(* ProtocolCodec: the messages of the sync protocol as payloads of frames. *)
(*                                                                         *)
(* A string is written as its length, a line feed, its bytes and a line    *)
(* feed; a number as its digits and a line feed; a list as its length and  *)
(* its elements.  Bytes are 0 .. Base: the digits, of any base, and the    *)
(* line feed.  Strings can contain both.                                   *)
(*                                                                         *)
(* A message is a type and the values of its fields in the order in which  *)
(* they are written; Layout stands for the Encode and Decode functions of  *)
(* each type.                                                              *)
(***************************************************************************)
EXTENDS ProtocolMessages, SequencesExt

Str == [kind |-> "string", of |-> <<>>]
U64 == [kind |-> "u64", of |-> <<>>]
Bool == [kind |-> "bool", of |-> <<>>]
List(fields) == [kind |-> "list", of |-> fields]
Group(fields) == [kind |-> "group", of |-> fields]

\* chunk_index, offset, size, chunk_hash
ChunkManifestEntry == <<U64, U64, U64, Str>>
\* file_id, relative_path, root_hash, size, modified_time_epoch, chunks
ManifestFile == <<Str, Str, Str, U64, U64, List(ChunkManifestEntry)>>

Layout ==
  [hello    |-> <<Str, Str, Str>>,
   manifest |-> <<List(ManifestFile)>>,
   missing  |-> <<Str, Str, Str, List(ChunkManifestEntry)>>,
   chunk    |-> <<Str, Str, U64, U64, U64, Str>>,
   ack      |-> <<Str, Str, Bool, Str>>,
   error    |-> <<Str>>]

-----------------------------------------------------------------------------
(***************************************************************************)
(* Encoding.                                                               *)
(***************************************************************************)
RECURSIVE Digits(_)
Digits(n) == IF n < Base THEN <<n>> ELSE Append(Digits(n \div Base), n % Base)

AppendU64(n) == Append(Digits(n), LF)

AppendString(s) == AppendU64(Len(s)) \o s \o <<LF>>

AppendBool(b) == <<IF b THEN 1 ELSE 0, LF>>

Repeat(fields, n) == [i \in 1 .. n |-> Group(fields)]

RECURSIVE Encode(_, _)
Encode(layout, values) ==
  IF layout = <<>> THEN <<>>
  ELSE LET field == Head(layout)
           value == Head(values)
       IN (CASE field.kind = "string" -> AppendString(value)
             [] field.kind = "u64" -> AppendU64(value)
             [] field.kind = "bool" -> AppendBool(value)
             [] field.kind = "group" -> Encode(field.of, value)
             [] field.kind = "list" ->
                  AppendU64(Len(value)) \o Encode(Repeat(field.of, Len(value)), value))
          \o Encode(Tail(layout), Tail(values))

\* The payload of a message.
EncodeMessage(message) == Encode(Layout[message.type], message.values)

-----------------------------------------------------------------------------
(***************************************************************************)
(* Decoding.  A step of it takes a buffer and a cursor, and returns a      *)
(* value and the next cursor; Thrown stands for the cursor after an error. *)
(***************************************************************************)
Thrown == 0

At(cursor) == [value |-> <<>>, cursor |-> cursor]

Failure == At(Thrown)

\* F(value); the singleton has TLC evaluate value once.
With(value, F(_)) == CHOOSE result \in {F(x) : x \in {value}} : TRUE

\* The position of the next line feed, or 0.
LineEnd(buffer, cursor) ==
  With({i \in cursor .. Len(buffer) : buffer[i] = LF},
       LAMBDA ends : IF ends = {} THEN 0 ELSE Min(ends))

Number(digits, base) ==
  LET prefix[i \in 0 .. Len(digits)] == IF i = 0 THEN 0 ELSE prefix[i - 1] * base + digits[i]
  IN prefix[Len(digits)]

\* There must be a line feed, and stoull needs a digit.
ConsumeU64(buffer, cursor) ==
  With(LineEnd(buffer, cursor), LAMBDA end :
    IF end = 0 \/ end = cursor THEN Failure
    ELSE [value |-> Number(SubSeq(buffer, cursor, end - 1), Base), cursor |-> end + 1])

\* The bytes must be there, and a line feed behind them.
ConsumeString(buffer, cursor) ==
  With(ConsumeU64(buffer, cursor), LAMBDA length :
    LET end == length.cursor + length.value
    IN IF length.cursor = Thrown \/ end > Len(buffer) \/ buffer[end] # LF THEN Failure
       ELSE [value |-> SubSeq(buffer, length.cursor, end - 1), cursor |-> end + 1])

ConsumeBool(buffer, cursor) ==
  With(ConsumeU64(buffer, cursor), LAMBDA n : [value |-> n.value # 0, cursor |-> n.cursor])

\* The fields of a layout, one after the other: the value of each is appended
\* to that of done.
RECURSIVE Consume(_, _, _)
Consume(layout, buffer, done) ==
  IF layout = <<>> \/ done.cursor = Thrown THEN done
  ELSE LET field == Head(layout)
           step ==
             CASE field.kind = "string" -> ConsumeString(buffer, done.cursor)
               [] field.kind = "u64" -> ConsumeU64(buffer, done.cursor)
               [] field.kind = "bool" -> ConsumeBool(buffer, done.cursor)
               [] field.kind = "group" -> Consume(field.of, buffer, At(done.cursor))
               [] field.kind = "list" ->
                    With(ConsumeU64(buffer, done.cursor), LAMBDA count :
                      IF count.cursor = Thrown THEN Failure
                      ELSE Consume(Repeat(field.of, count.value), buffer, At(count.cursor)))
       IN With(step, LAMBDA next :
            With([value |-> Append(done.value, next.value), cursor |-> next.cursor],
                 LAMBDA so_far : Consume(Tail(layout), buffer, so_far)))

\* DecodeChunkData compares the length of the bytes with the header.
SizeMatches(type, values) == type = "chunk" => values[5] = Len(values[6])

\* The message of a frame, or an error.
Decode(type, payload) ==
  With(Consume(Layout[type], payload, At(1)), LAMBDA result :
    IF result.cursor # Thrown /\ SizeMatches(type, result.value)
      THEN [type |-> type, values |-> result.value]
      ELSE [type |-> "thrown", values |-> <<>>])
=============================================================================
