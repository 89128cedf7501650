--------------------------- MODULE MCSyncSession ---------------------------
(***************************************************************************)
(* Instances of SyncSession for TLC.  Strings hold digits and line feeds,  *)
(* and some are empty.                                                     *)
(***************************************************************************)
EXTENDS SyncSession, ProtocolCodec

Chunk(index, bytes) == <<index, index, Len(bytes), bytes>>

TwoChunks == << <<0>>, <<LF>>, <<>>, 3, 1, <<Chunk(0, <<LF, 1>>), Chunk(1, <<0>>)>> >>
Empty == << <<>>, <<1>>, <<>>, 0, 0, <<>> >>
Small == << <<1>>, <<0>>, <<1, LF, 0>>, 1, 2, <<Chunk(0, <<LF>>)>> >>

MCManifests == {<<>>, <<TwoChunks>>, <<Empty, Small>>, <<TwoChunks, Small>>}
=============================================================================
