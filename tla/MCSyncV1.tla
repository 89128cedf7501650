------------------------------ MODULE MCSyncV1 ------------------------------
(***************************************************************************)
(* Instances of SyncV1 for TLC.  Chunks have two bytes, one in SyncFaulty. *)
(***************************************************************************)
EXTENDS SyncV1, TLC

CONSTANTS p1, p2, a, b

\* One file, three versions: two of two chunks that have no chunk in common,
\* so that a mixture of them is neither, and one that is the first chunk of
\* another.
OneFile == {<<a, a, b>>, <<b, b, a>>, <<a, a>>}
OneFileVersions == [p \in Paths |-> OneFile]

\* Two files that never have the same content.  The versions of the first
\* share a chunk, differ in a chunk of which only the content differs, or are
\* empty.
TwoFiles == {<<a, a, b>>, <<b, a, b>>, <<b, a>>, <<>>, <<b>>}
TwoFilesVersions == (p1 :> {<<a, a, b>>, <<b, a, b>>, <<b, a>>, <<>>}) @@ (p2 :> {<<b>>})

\* The same with fewer versions.
FewVersions == {<<a, a, b>>, <<b, a, b>>, <<b>>}
FewVersionsOf == (p1 :> {<<a, a, b>>, <<b, a, b>>}) @@ (p2 :> {<<b>>})

\* Two files that can have the same content, which is also the first chunk of
\* the other version of one of them.
Shared == {<<a, b>>, <<a>>}
SharedVersions == (p1 :> Shared) @@ (p2 :> {<<a>>})
=============================================================================
