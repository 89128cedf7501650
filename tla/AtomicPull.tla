----------------------------- MODULE AtomicPull -----------------------------
(***************************************************************************)
(* What one-way synchronisation promises about the files it touches: a     *)
(* file of the local root changes only when its user changes it, or when   *)
(* it is replaced, in one step, by the complete version that the server    *)
(* announced for that path; and the server announces for a path only what  *)
(* has been the content of that path.  No chunk, .part file, task or crash *)
(* is visible.                                                             *)
(***************************************************************************)
EXTENDS Naturals

CONSTANTS Paths, Content, NoFile

VARIABLES remote,    \* files of the remote root
          published, \* <<content, path>> of everything that was ever there
          offered,   \* announced version of each path, NoFile if none
          local,     \* files of the local root
          localEdits \* number of changes made by local users

vars == <<remote, published, offered, local, localEdits>>

Files == [Paths -> Content \cup {NoFile}]

Init == /\ remote \in Files /\ local \in Files
        /\ published = {<<remote[p], p>> : p \in {q \in Paths : remote[q] # NoFile}}
        /\ offered = [p \in Paths |-> NoFile]
        /\ localEdits = 0

RemoteEdit(p) ==
  \E c \in Content \cup {NoFile} :
    /\ remote' = [remote EXCEPT ![p] = c]
    /\ published' = IF c = NoFile THEN published ELSE published \cup {<<c, p>>}
    /\ UNCHANGED <<offered, local, localEdits>>

LocalEdit(p) ==
  \E c \in Content \cup {NoFile} :
    /\ local' = [local EXCEPT ![p] = c]
    /\ localEdits' = localEdits + 1
    /\ UNCHANGED <<remote, published, offered>>

Announce ==
  /\ offered' \in Files
  /\ \A p \in Paths : offered'[p] # NoFile => <<offered'[p], p>> \in published
  /\ UNCHANGED <<remote, published, local, localEdits>>

Withdraw ==
  /\ offered' = [p \in Paths |-> NoFile]
  /\ UNCHANGED <<remote, published, local, localEdits>>

Install(p) ==
  /\ offered[p] # NoFile
  /\ local' = [local EXCEPT ![p] = offered[p]]
  /\ UNCHANGED <<remote, published, offered, localEdits>>

Next == \/ Announce \/ Withdraw
        \/ \E p \in Paths : RemoteEdit(p) \/ LocalEdit(p) \/ Install(p)

Spec == Init /\ [][Next]_vars
=============================================================================
