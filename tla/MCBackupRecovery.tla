-------------------------- MODULE MCBackupRecovery --------------------------
(***************************************************************************)
(* Instances of BackupRecovery for TLC: two files of one directory.        *)
(***************************************************************************)
EXTENDS BackupRecovery, TLC

CONSTANTS p1, p2, a, b, c

Directory == [single |-> FALSE, paths |-> {p1, p2}]
SingleFile(p) == [single |-> TRUE, paths |-> {p}]
AnySource == {Directory, SingleFile(p1)}
EitherFile == {SingleFile(p1), SingleFile(p2)}

\* The two files can have the same content, or never do.
SameVersions == [p \in Paths |-> {a, b}]
OwnVersions == (p1 :> {a, b}) @@ (p2 :> {c})

\* Nothing tells a from b.
Symmetry == Permutations({a, b})

OneExtension == [p \in Paths |-> "txt"]
=============================================================================
