------------------------ MODULE BackupRecoveryProofs ------------------------
(***************************************************************************)
(* Proofs about backup and recovery, for any files, versions, backends and *)
(* bounds, with every race and fault of the model.                         *)
(***************************************************************************)
EXTENDS BackupRecovery, TLAPS

(***************************************************************************)
(* What the code takes for granted where it uses what it read before: the  *)
(* file at hand is one that was scanned, a request that runs exists, and an*)
(* object that was found names its key or its original.                    *)
(***************************************************************************)
Storing == {"verify", "store", "copy", "object", "record", "device", "end"}

Proper(o) == o.source \in Paths /\ (o.backend = "mirror" => o.key \in Keys)
Complete(q) == q.file \in Contents /\ q.target \in Targets

BackupFormed ==
  /\ bk.step \in Storing => bk.i \in 1 .. Len(bk.found)
  /\ bk.step = "copy" => bk.read \in Contents

ObjectsFormed == \A f \in Contents : stored[f] = NoObject \/ Proper(stored[f])

RequestsFormed == \A r \in RequestIds : request[r] = NoRequest \/ Complete(request[r])

RestoreFormed ==
  /\ rs.step # "idle" => rs.id \in RequestIds /\ Complete(request[rs.id])
  /\ rs.step \in {"open", "copy", "verify"} => Proper(rs.object)
  /\ rs.step = "copy" => rs.read \in Contents \cup {Torn}

WellFormed == BackupFormed /\ ObjectsFormed /\ RequestsFormed /\ RestoreFormed

Sound == TypeOK /\ WellFormed

\* The file at hand.
LEMMA FileAtHand ==
  ASSUME Sound, bk.step \in Storing
  PROVE  /\ Path \in Paths /\ File \in Contents
         /\ bk.found[bk.i] = <<Path, File>>
         /\ Key(Path, File) \in Keys
         /\ RelativePath(Path) \in Names
<1>1. bk.found \in Seq(Paths \X Contents) /\ bk.i \in 1 .. Len(bk.found)
  BY DEF Sound, TypeOK, WellFormed, BackupTyped, BackupFormed
<1>2. bk.found[bk.i] \in Paths \X Contents
  BY <1>1
<1>3. Path \in Paths /\ File \in Contents /\ bk.found[bk.i] = <<Path, File>>
  BY <1>2 DEF Path, File
<1>4. bk.single \in BOOLEAN
  BY DEF Sound, TypeOK, BackupTyped
<1> QED
  BY <1>3, <1>4 DEF Key, Keys, Extensions, RelativePath, Names

\* The request that runs.
LEMMA RequestAtHand ==
  ASSUME Sound, rs.step # "idle"
  PROVE  /\ rs.id \in RequestIds
         /\ Restored \in Contents /\ Destination \in Targets
BY DEF Sound, WellFormed, RestoreFormed, Complete, Restored, Destination

\* What a restore can read.
LEMMA ReadableTyped ==
  ASSUME Sound, NEW o, Proper(o), o.backend \in {"mirror", "none"}
  PROVE  Readable(o) \subseteq Bytes
<1>1. CASE o.backend = "none"
  BY <1>1 DEF Readable, Proper, Sound, TypeOK, FilesTyped, Bytes
<1>2. CASE o.backend = "mirror"
  <2>1. object[o.key] \in Bytes
    BY <1>2 DEF Proper, Sound, TypeOK, FilesTyped
  <2>2. bk.step = "copy" => bk.read \in Bytes
    BY DEF Sound, WellFormed, BackupFormed, Bytes
  <2> QED
    BY <1>2, <2>1, <2>2 DEF Readable
<1> QED
  BY <1>1, <1>2

LEMMA InitSound == Init => Sound
<1> SUFFICES ASSUME Init PROVE Sound
  OBVIOUS
<1> USE DEF Init
<1>1. FilesTyped
  BY DEF FilesTyped, Bytes
<1>2. TablesTyped
  <2>1. stored \in [Contents -> Objects]
    BY DEF NoObject, Objects
  <2>2. record \in [Paths \X Contents -> [name : Names \cup {None}, at : Nat]]
    BY DEF NoRecord
  <2>3. request \in [RequestIds -> [state : States, file : Contents \cup {None},
                                    target : Targets \cup {None}]]
    BY DEF NoRequest, States
  <2> QED
    BY <2>1, <2>2, <2>3 DEF TablesTyped, States
<1>3. BackupTyped
  BY LimitsAssumption DEF BackupTyped, NoBackup, BackupSteps
<1>4. RestoreTyped
  BY DEF RestoreTyped, NoRestore, NoObject, Objects, RestoreSteps
<1>5. EnvironmentTyped
  BY LimitsAssumption DEF EnvironmentTyped
<1>6. WellFormed
  BY DEF WellFormed, BackupFormed, ObjectsFormed, RequestsFormed, RestoreFormed,
         NoBackup, NoRestore, Storing
<1> QED
  BY <1>1, <1>2, <1>3, <1>4, <1>5, <1>6 DEF Sound, TypeOK

(***************************************************************************)
(* One step preserves Sound: backup-run.                                   *)
(***************************************************************************)
\* What a step of a backup leaves alone.
LEMMA BackupFrame ==
  ASSUME Sound, UNCHANGED <<target, task, request, environment>>, UNCHANGED disk,
         object' \in [Keys -> Bytes], UNCHANGED rs,
         row' \in [Contents -> Paths \cup {None}],
         stored' \in [Contents -> Objects], ObjectsFormed',
         record' \in [Paths \X Contents -> [name : Names \cup {None}, at : Nat]],
         holder' \in [Paths \cup Targets -> Contents \cup {None}],
         job' \in [0 .. MaxClock -> States],
         newest' \in [Names -> Contents \cup {None}], safe' \in SUBSET Contents,
         BackupTyped', BackupFormed'
  PROVE  Sound'
<1>1. FilesTyped' /\ TablesTyped' /\ RestoreTyped' /\ EnvironmentTyped'
  BY DEF Sound, TypeOK, FilesTyped, TablesTyped, RestoreTyped, EnvironmentTyped, environment
<1>2. RequestsFormed' /\ RestoreFormed'
  BY DEF Sound, WellFormed, RequestsFormed, RestoreFormed, Complete, Proper
<1> QED
  BY <1>1, <1>2 DEF Sound, TypeOK, WellFormed

\* The end of a backup.
LEMMA EndBackupTyped ==
  ASSUME Sound, NEW state \in States, EndBackup(state)
  PROVE  job' \in [0 .. MaxClock -> States] /\ BackupTyped' /\ BackupFormed'
<1>1. job' \in [0 .. MaxClock -> States]
  BY DEF Sound, TypeOK, TablesTyped, EndBackup
<1>2. BackupTyped' /\ BackupFormed'
  BY LimitsAssumption DEF EndBackup, NoBackup, BackupTyped, BackupSteps, BackupFormed, Storing
<1> QED
  BY <1>1, <1>2

LEMMA StartBackupSound ==
  ASSUME Sound, NEW s \in Sources, NEW b \in Backends, StartBackup(s, b)
  PROVE  Sound'
<1>1. BackupTyped' /\ BackupFormed'
  <2>1. /\ s.single \in BOOLEAN /\ s.paths \in SUBSET Paths
        /\ b \in {"mirror", "none"} /\ clock \in 0 .. MaxClock
    BY SourcesAssumption, ChoicesAssumption DEF Sound, TypeOK, EnvironmentTyped
  <2>2. bk' = [step |-> "open", single |-> s.single, backend |-> b, job |-> clock,
               list |-> s.paths, found |-> <<>>, i |-> 0, read |-> None, at |-> 0]
    BY DEF StartBackup, NoBackup
  <2>3. BackupTyped'
    BY <2>1, <2>2 DEF BackupTyped, BackupSteps
  <2>4. BackupFormed'
    BY <2>2 DEF BackupFormed, Storing
  <2> QED
    BY <2>3, <2>4
<1>2. job' \in [0 .. MaxClock -> States]
  BY DEF StartBackup, Sound, TypeOK, TablesTyped, EnvironmentTyped, States
<1>3. UNCHANGED <<target, task, request, environment, disk, object, rs, row, stored, record,
                  holder, newest, safe>>
  BY DEF StartBackup, AtBackup, files, history
<1>4. /\ object' \in [Keys -> Bytes] /\ row' \in [Contents -> Paths \cup {None}]
      /\ stored' \in [Contents -> Objects] /\ ObjectsFormed'
      /\ record' \in [Paths \X Contents -> [name : Names \cup {None}, at : Nat]]
      /\ holder' \in [Paths \cup Targets -> Contents \cup {None}]
      /\ newest' \in [Names -> Contents \cup {None}] /\ safe' \in SUBSET Contents
  BY <1>3 DEF Sound, TypeOK, FilesTyped, TablesTyped, EnvironmentTyped, WellFormed, ObjectsFormed
<1> QED
  BY <1>1, <1>2, <1>3, <1>4, BackupFrame

LEMMA ExecuteBackupSound == Sound /\ ExecuteBackup => Sound'
<1> SUFFICES ASSUME Sound, ExecuteBackup PROVE Sound'
  OBVIOUS
<1> USE DEF AtBackup, files, history
<1>f. "failed" \in States /\ "running" \in States /\ "completed" \in States
  BY DEF States
<1>t. /\ object \in [Keys -> Bytes] /\ row \in [Contents -> Paths \cup {None}]
      /\ stored \in [Contents -> Objects] /\ ObjectsFormed
      /\ record \in [Paths \X Contents -> [name : Names \cup {None}, at : Nat]]
      /\ holder \in [Paths \cup Targets -> Contents \cup {None}]
      /\ job \in [0 .. MaxClock -> States]
      /\ newest \in [Names -> Contents \cup {None}] /\ safe \in SUBSET Contents
      /\ BackupTyped /\ BackupFormed
      /\ clock \in Nat
      /\ disk \in [Paths -> Contents \cup {Missing}]
  BY LimitsAssumption
     DEF Sound, TypeOK, FilesTyped, TablesTyped, EnvironmentTyped, WellFormed
<1>o. UNCHANGED stored => ObjectsFormed'
  BY <1>t DEF ObjectsFormed
<1>1. CASE OpenSource
  <2>1. CASE EndBackup("failed")
    BY <1>1, <1>f, <1>t, <1>o, <2>1, EndBackupTyped, BackupFrame DEF OpenSource
  <2>2. CASE ~EndBackup("failed")
    <3>1. job' \in [0 .. MaxClock -> States]
      BY <1>1, <2>2, <1>f, <1>t DEF OpenSource, BackupTyped
    <3>2. BackupTyped' /\ BackupFormed'
      <4>1. PICK l \in SUBSET Paths : bk' = [bk EXCEPT !.step = "scan", !.list = l]
        BY <1>1, <2>2, <1>t DEF OpenSource, BackupTyped
      <4>2. BackupTyped'
        BY <4>1, <1>t DEF BackupTyped, BackupSteps
      <4>3. BackupFormed'
        BY <4>1, <1>t DEF BackupTyped, BackupFormed, Storing
      <4> QED
        BY <4>2, <4>3
    <3>3. UNCHANGED <<target, task, request, environment, disk, object, rs, row, stored, record,
                      holder, newest, safe>>
      BY <1>1 DEF OpenSource
    <3> QED
      BY <3>1, <3>2, <3>3, <1>t, <1>o, BackupFrame
  <2> QED
    BY <2>1, <2>2
<1>2. ASSUME NEW p \in Paths, ScanFile(p) PROVE Sound'
  <2>1. CASE disk[p] = Missing
    BY <1>2, <1>f, <1>t, <1>o, <2>1, EndBackupTyped, BackupFrame DEF ScanFile
  <2>2. CASE disk[p] # Missing
    <3>1. disk[p] \in Contents
      BY <2>2, <1>t
    <3>2. row' \in [Contents -> Paths \cup {None}]
      BY <1>2, <2>2, <1>t DEF ScanFile, UpsertFile
    <3>3. Append(bk.found, <<p, disk[p]>>) \in Seq(Paths \X Contents)
      BY <3>1, <1>t DEF BackupTyped
    <3>4. BackupTyped' /\ BackupFormed'
      <4>1. PICK l \in SUBSET Paths, found \in Seq(Paths \X Contents) :
              bk' = [bk EXCEPT !.list = l, !.found = found]
        BY <1>2, <2>2, <3>3, <1>t DEF ScanFile, BackupTyped
      <4>2. BackupTyped'
        BY <4>1, <1>t DEF BackupTyped
      <4>3. bk'.step = "scan"
        BY <1>2, <4>1, <1>t DEF ScanFile, BackupTyped
      <4> QED
        BY <4>2, <4>3 DEF BackupFormed, Storing
    <3>5. UNCHANGED <<target, task, request, environment, disk, object, rs, stored, record,
                      holder, job, newest>> /\ safe' \in SUBSET Contents
      BY <1>2, <2>2, <1>t DEF ScanFile
    <3> QED
      BY <3>2, <3>4, <3>5, <1>t, <1>o, BackupFrame
  <2> QED
    BY <2>1, <2>2
<1>3. CASE EndScan
  <2>1. CASE bk.found = <<>>
    BY <1>3, <1>f, <1>t, <1>o, <2>1, EndBackupTyped, BackupFrame DEF EndScan
  <2>2. CASE bk.found # <<>>
    <3>1. Len(bk.found) \in Nat /\ Len(bk.found) >= 1
      BY <2>2, <1>t DEF BackupTyped
    <3>2. BackupTyped' /\ BackupFormed'
      <4>1. bk' = [bk EXCEPT !.step = "verify", !.i = 1]
        BY <1>3, <2>2 DEF EndScan
      <4>2. BackupTyped'
        BY <4>1, <1>t DEF BackupTyped, BackupSteps
      <4>3. bk'.step = "verify" /\ bk'.i = 1 /\ bk'.found = bk.found
        BY <4>1, <1>t DEF BackupTyped
      <4> QED
        BY <3>1, <4>2, <4>3 DEF BackupFormed
    <3>3. UNCHANGED <<target, task, request, environment, disk, object, rs, row, stored, record,
                      holder, job, newest, safe>>
      BY <1>3, <2>2 DEF EndScan
    <3> QED
      BY <3>2, <3>3, <1>t, <1>o, BackupFrame
  <2> QED
    BY <2>1, <2>2
<1>4. CASE VerifyFile
  <2>1. CASE disk[Path] = File
    <3>1. BackupTyped' /\ BackupFormed'
      <4>1. bk' = [bk EXCEPT !.step = "store"] /\ bk.step = "verify"
        BY <1>4, <2>1 DEF VerifyFile, AtBackup
      <4>2. BackupTyped'
        BY <4>1, <1>t DEF BackupTyped, BackupSteps
      <4>3. bk'.step = "store" /\ bk'.i = bk.i /\ bk'.found = bk.found
        BY <4>1, <1>t DEF BackupTyped
      <4> QED
        BY <4>1, <4>2, <4>3, <1>t DEF BackupFormed, Storing
    <3> QED
      BY <1>4, <2>1, <3>1, <1>t, <1>o, BackupFrame DEF VerifyFile
  <2>2. CASE disk[Path] # File
    BY <1>4, <1>f, <1>t, <1>o, <2>2, EndBackupTyped, BackupFrame DEF VerifyFile
  <2> QED
    BY <2>1, <2>2
<1>5. CASE StoreFile
  <2>0. bk.step \in Storing
    BY <1>5 DEF StoreFile, Storing
  <2>1. CASE bk.backend = "none"
    <3>1. BackupTyped' /\ BackupFormed'
      BY <1>5, <2>1, <1>t DEF StoreFile, BackupTyped, BackupFormed, BackupSteps, Storing
    <3> QED
      BY <1>5, <2>1, <3>1, <1>t, <1>o, BackupFrame DEF StoreFile
  <2>2. CASE bk.backend = "mirror" /\ disk[Path] = Missing
    BY <1>5, <1>f, <1>t, <1>o, <2>2, EndBackupTyped, BackupFrame DEF StoreFile
  <2>3. CASE bk.backend = "mirror" /\ disk[Path] # Missing
    <3>1. disk[Path] \in Contents
      BY <2>0, <2>3, <1>t, FileAtHand
    <3>2. BackupTyped' /\ BackupFormed'
      BY <1>5, <2>3, <3>1, <1>t DEF StoreFile, BackupTyped, BackupFormed, BackupSteps, Storing
    <3>3. object' \in [Keys -> Bytes]
      BY <1>5, <2>3, <1>t DEF StoreFile, Bytes
    <3>4. CASE UNCHANGED rs
      BY <1>5, <2>3, <3>2, <3>3, <3>4, <1>t, <1>o, BackupFrame DEF StoreFile
    <3>5. CASE rs.step = "copy" /\ rs' = [rs EXCEPT !.read = Torn]
      <4>1. RestoreTyped' /\ RestoreFormed'
        BY <1>5, <3>5
           DEF StoreFile, Sound, TypeOK, WellFormed, RestoreTyped, RestoreFormed, Complete, Proper
      <4>2. FilesTyped' /\ TablesTyped' /\ EnvironmentTyped'
        BY <1>5, <2>3, <3>3
           DEF StoreFile, environment, Sound, TypeOK, FilesTyped, TablesTyped, EnvironmentTyped
      <4>3. ObjectsFormed' /\ RequestsFormed'
        BY <1>5, <2>3 DEF StoreFile, Sound, WellFormed, ObjectsFormed, RequestsFormed
      <4> QED
        BY <3>2, <4>1, <4>2, <4>3 DEF Sound, TypeOK, WellFormed
    <3> QED
      BY <1>5, <2>3, <3>4, <3>5 DEF StoreFile
  <2> QED
    BY <1>5, <2>1, <2>2, <2>3 DEF StoreFile
<1>6. CASE EndCopy
  <2>1. bk.read \in Contents
    BY <1>6, <1>t DEF EndCopy, BackupFormed
  <2>2. object' \in [Keys -> Bytes]
    BY <1>6, <2>1, <1>t DEF EndCopy, Bytes
  <2>3. BackupTyped' /\ BackupFormed'
    BY <1>6, <1>t DEF EndCopy, BackupTyped, BackupFormed, BackupSteps, Storing
  <2> QED
    BY <1>6, <2>2, <2>3, <1>t, <1>o, BackupFrame DEF EndCopy
<1>7. CASE UpsertStoredObject
  <2>0. bk.step \in Storing
    BY <1>7 DEF UpsertStoredObject, Storing
  <2>1. PICK o : /\ stored' = [stored EXCEPT ![File] = o]
                 /\ o = [backend |-> bk.backend, source |-> Path,
                         key |-> IF bk.backend = "mirror" THEN Key(Path, File) ELSE None]
    BY <1>7 DEF UpsertStoredObject
  <2>2. o \in Objects /\ Proper(o)
    BY <2>0, <2>1, <1>t, FileAtHand DEF Objects, Proper, BackupTyped
  <2>3. stored' \in [Contents -> Objects] /\ ObjectsFormed'
    BY <2>1, <2>2, <1>t DEF ObjectsFormed
  <2>4. BackupTyped' /\ BackupFormed'
    BY <1>7, <1>t DEF UpsertStoredObject, BackupTyped, BackupFormed, BackupSteps, Storing
  <2> QED
    BY <1>7, <2>3, <2>4, <1>t, BackupFrame DEF UpsertStoredObject
<1>8. CASE UpsertBackupRecord
  <2>0. bk.step \in Storing
    BY <1>8 DEF UpsertBackupRecord, Storing
  <2>1. [name |-> RelativePath(Path), at |-> bk.at] \in [name : Names \cup {None}, at : Nat]
    BY <2>0, <1>t, FileAtHand DEF BackupTyped
  <2>2. record' \in [Paths \X Contents -> [name : Names \cup {None}, at : Nat]]
    BY <1>8, <2>1, <1>t DEF UpsertBackupRecord
  <2>3. newest' \in [Names -> Contents \cup {None}] /\ safe' \in SUBSET Contents
    BY <1>8, <2>0, <1>t, FileAtHand DEF UpsertBackupRecord, Recorded
  <2>4. BackupTyped' /\ BackupFormed'
    BY <1>8, <1>t DEF UpsertBackupRecord, BackupTyped, BackupFormed, BackupSteps, Storing
  <2> QED
    BY <1>8, <2>2, <2>3, <2>4, <1>t, <1>o, BackupFrame DEF UpsertBackupRecord
<1>9. CASE UpsertDeviceFile
  <2>0. bk.step \in Storing
    BY <1>9 DEF UpsertDeviceFile, Storing
  <2>1. holder' \in [Paths \cup Targets -> Contents \cup {None}]
    BY <1>9, <2>0, <1>t, FileAtHand DEF UpsertDeviceFile
  <2>2. BackupTyped' /\ BackupFormed'
    <3>1. Len(bk.found) \in Nat
      BY <1>t DEF BackupTyped
    <3>2. bk.i \in 1 .. Len(bk.found)
      BY <2>0, <1>t DEF BackupFormed
    <3>3. PICK step \in {"verify", "end"}, i \in 1 .. Len(bk.found) :
            bk' = [bk EXCEPT !.step = step, !.i = i]
      <4>1. CASE bk.i < Len(bk.found)
        <5>1. bk' = [bk EXCEPT !.step = "verify", !.i = bk.i + 1]
          BY <1>9, <4>1 DEF UpsertDeviceFile
        <5>2. bk.i + 1 \in 1 .. Len(bk.found)
          BY <3>1, <3>2, <4>1
        <5> QED
          BY <5>1, <5>2
      <4>2. CASE ~(bk.i < Len(bk.found))
        BY <1>9, <3>2, <4>2 DEF UpsertDeviceFile
      <4> QED
        BY <4>1, <4>2
    <3>4. BackupTyped'
      <4>1. i \in Nat
        BY <3>1, <3>3
      <4> QED
        BY <3>3, <4>1, <1>t DEF BackupTyped, BackupSteps
    <3>5. bk'.i \in 1 .. Len(bk.found) /\ bk'.found = bk.found
      BY <3>3, <1>t DEF BackupTyped
    <3>6. bk'.step # "copy"
      BY <3>3, <1>t DEF BackupTyped
    <3> QED
      BY <3>4, <3>5, <3>6 DEF BackupFormed
  <2> QED
    BY <1>9, <2>1, <2>2, <1>t, <1>o, BackupFrame DEF UpsertDeviceFile
<1>10. CASE CompleteBackup
  BY <1>10, <1>f, <1>t, <1>o, EndBackupTyped, BackupFrame DEF CompleteBackup
<1> QED
  BY <1>1, <1>2, <1>3, <1>4, <1>5, <1>6, <1>7, <1>8, <1>9, <1>10 DEF ExecuteBackup

(***************************************************************************)
(* One step preserves Sound: the restores.                                 *)
(***************************************************************************)
LEMMA RestoreFrame ==
  ASSUME Sound, UNCHANGED <<disk, object, row, stored, record, job, bk, clock, edits, faults>>,
         UNCHANGED <<newest, safe>>,
         target' \in [Targets -> Bytes],
         holder' \in [Paths \cup Targets -> Contents \cup {None}],
         task' \in [RequestIds -> States],
         request' \in [RequestIds -> [state : States, file : Contents \cup {None},
                                      target : Targets \cup {None}]],
         restores' \in 0 .. MaxRestores,
         RequestsFormed', RestoreTyped', RestoreFormed'
  PROVE  Sound'
<1>1. FilesTyped' /\ TablesTyped' /\ BackupTyped' /\ EnvironmentTyped'
  BY DEF Sound, TypeOK, FilesTyped, TablesTyped, BackupTyped, EnvironmentTyped
<1>2. BackupFormed' /\ ObjectsFormed'
  BY DEF Sound, WellFormed, BackupFormed, ObjectsFormed
<1> QED
  BY <1>1, <1>2 DEF Sound, TypeOK, WellFormed

\* A request that changes state stays what it was asked for.
LEMMA SetRequestState ==
  ASSUME Sound, NEW r \in RequestIds, NEW state \in States, Complete(request[r]),
         request' = [request EXCEPT ![r].state = state]
  PROVE  /\ request' \in [RequestIds -> [state : States, file : Contents \cup {None},
                                         target : Targets \cup {None}]]
         /\ RequestsFormed'
         /\ \A q \in RequestIds : /\ request'[q].file = request[q].file
                                  /\ request'[q].target = request[q].target
<1>1. request \in [RequestIds -> [state : States, file : Contents \cup {None},
                                  target : Targets \cup {None}]]
  BY DEF Sound, TypeOK, TablesTyped
<1>2. \A q \in RequestIds : q # r => request'[q] = request[q]
  BY <1>1
<1>3. request'[r] = [request[r] EXCEPT !.state = state]
  BY <1>1
<1>4. Complete(request'[r]) /\ request'[r].file = request[r].file
                            /\ request'[r].target = request[r].target
  BY <1>1, <1>3 DEF Complete
<1>5. RequestsFormed'
  BY <1>2, <1>4 DEF RequestsFormed, Complete, Sound, WellFormed
<1> QED
  BY <1>1, <1>2, <1>4, <1>5

\* The end of a restore.
LEMMA EndRestoreTyped ==
  ASSUME Sound, rs.step # "idle", NEW state \in States, EndRestore(state)
  PROVE  /\ request' \in [RequestIds -> [state : States, file : Contents \cup {None},
                                         target : Targets \cup {None}]]
         /\ task' \in [RequestIds -> States]
         /\ RequestsFormed' /\ RestoreTyped' /\ RestoreFormed'
<1>1. rs.id \in RequestIds /\ Complete(request[rs.id])
  BY DEF Sound, WellFormed, RestoreFormed
<1>2. task' \in [RequestIds -> States]
  BY DEF EndRestore, Sound, TypeOK, TablesTyped
<1>3. RestoreTyped' /\ RestoreFormed'
  BY DEF EndRestore, NoRestore, NoObject, Objects, RestoreTyped, RestoreFormed, RestoreSteps
<1> QED
  BY <1>1, <1>2, <1>3, SetRequestState DEF EndRestore

LEMMA RunRestoreSound == Sound /\ RunRestore => Sound'
<1> SUFFICES ASSUME Sound, RunRestore PROVE Sound'
  OBVIOUS
<1>f. "failed" \in States /\ "running" \in States /\ "completed" \in States
  BY DEF States
<1>t. /\ target \in [Targets -> Bytes]
      /\ holder \in [Paths \cup Targets -> Contents \cup {None}]
      /\ task \in [RequestIds -> States]
      /\ request \in [RequestIds -> [state : States, file : Contents \cup {None},
                                     target : Targets \cup {None}]]
      /\ stored \in [Contents -> Objects] /\ ObjectsFormed
      /\ restores \in 0 .. MaxRestores
      /\ RequestsFormed /\ RestoreTyped /\ RestoreFormed
  BY DEF Sound, TypeOK, FilesTyped, TablesTyped, EnvironmentTyped, WellFormed
<1>r. rs.step # "idle" /\ rs.id \in RequestIds /\ Complete(request[rs.id])
      /\ Restored \in Contents /\ Destination \in Targets
  BY RequestAtHand DEF RunRestore, CheckRestore, RestoreFile, EndRestoreFile, VerifyRestoredFile,
                       AtRestore, Sound, WellFormed, RestoreFormed
<1>u. UNCHANGED <<disk, object, row, stored, record, job, bk, clock, edits, faults, newest, safe,
                  restores>>
  BY DEF RunRestore, CheckRestore, RestoreFile, EndRestoreFile, VerifyRestoredFile,
         AtRestore, environment, history
<1>1. CASE CheckRestore
  <2>1. CASE stored[Restored] = NoObject \/ row[Restored] = None
    <3>1. task' \in [RequestIds -> States]
      BY <1>1, <2>1, <1>f, <1>t, <1>r DEF CheckRestore
    <3>2. RestoreTyped' /\ RestoreFormed'
      BY <1>1, <2>1 DEF CheckRestore, NoRestore, NoObject, Objects, RestoreTyped, RestoreFormed,
                        RestoreSteps
    <3>3. UNCHANGED <<target, holder, request>>
      BY <1>1, <2>1 DEF CheckRestore
    <3>4. RequestsFormed'
      BY <3>3, <1>t DEF RequestsFormed, Complete
    <3> QED
      BY <3>1, <3>2, <3>3, <3>4, <1>t, <1>u, RestoreFrame
  <2>2. CASE ~(stored[Restored] = NoObject \/ row[Restored] = None)
    <3>1. /\ request' = [request EXCEPT ![rs.id].state = "running"]
          /\ task' = [task EXCEPT ![rs.id] = "running"]
          /\ rs' = [rs EXCEPT !.step = "open", !.object = stored[Restored]]
          /\ UNCHANGED <<target, holder>>
      BY <1>1, <2>2 DEF CheckRestore
    <3>2. task' \in [RequestIds -> States]
      BY <3>1, <1>f, <1>t
    <3>3. /\ request' \in [RequestIds -> [state : States, file : Contents \cup {None},
                                          target : Targets \cup {None}]]
          /\ RequestsFormed' /\ request'[rs.id].file = request[rs.id].file
                             /\ request'[rs.id].target = request[rs.id].target
      BY <3>1, <1>f, <1>r, SetRequestState
    <3>4. Proper(stored[Restored])
      BY <2>2, <1>t, <1>r DEF ObjectsFormed
    <3>5. RestoreTyped'
      BY <3>1, <1>t, <1>r DEF RestoreTyped, RestoreSteps
    <3>6. /\ rs'.step = "open" /\ rs'.id = rs.id /\ rs'.object = stored[Restored]
      BY <3>1, <1>t DEF RestoreTyped
    <3>7. RestoreFormed'
      BY <3>3, <3>4, <3>6, <1>r DEF RestoreFormed, Complete, Proper
    <3> QED
      BY <3>1, <3>2, <3>3, <3>5, <3>7, <1>t, <1>u, RestoreFrame
  <2> QED
    BY <2>1, <2>2
<1>2. CASE RestoreFile
  <2>1. PICK c \in Readable(rs.object) :
          IF c = Missing
            THEN EndRestore("failed") /\ UNCHANGED target
            ELSE /\ target' = [target EXCEPT ![Destination] = Torn]
                 /\ rs' = [rs EXCEPT !.step = "copy", !.read = c]
                 /\ UNCHANGED <<task, request>>
    BY <1>2 DEF RestoreFile
  <2>2. UNCHANGED holder /\ rs.step = "open"
    BY <1>2 DEF RestoreFile, AtRestore
  <2>3. CASE c = Missing
    <3>1. EndRestore("failed") /\ UNCHANGED target
      BY <2>1, <2>3
    <3> QED
      BY <2>2, <3>1, <1>f, <1>r, <1>t, <1>u, EndRestoreTyped, RestoreFrame
  <2>4. CASE c # Missing
    <3>1. /\ target' = [target EXCEPT ![Destination] = Torn]
          /\ rs' = [rs EXCEPT !.step = "copy", !.read = c]
          /\ UNCHANGED <<task, request>>
      BY <2>1, <2>4
    <3>2. Proper(rs.object) /\ rs.object.backend \in {"mirror", "none"}
      BY <2>2, <1>t DEF RestoreFormed, RestoreTyped, Objects
    <3>3. c \in Contents \cup {Torn}
      BY <2>1, <2>4, <3>2, ReadableTyped DEF Bytes
    <3>4. target' \in [Targets -> Bytes]
      BY <3>1, <1>t DEF Bytes
    <3>5. RestoreTyped'
      BY <3>1, <3>3, <1>t DEF RestoreTyped, RestoreSteps
    <3>6. /\ rs'.step = "copy" /\ rs'.id = rs.id /\ rs'.object = rs.object /\ rs'.read = c
      BY <3>1, <1>t DEF RestoreTyped
    <3>7. RestoreFormed'
      BY <3>1, <3>2, <3>3, <3>6, <1>r DEF RestoreFormed, Complete, Proper
    <3>8. RequestsFormed'
      BY <3>1, <1>t DEF RequestsFormed, Complete
    <3> QED
      BY <2>2, <3>1, <3>4, <3>5, <3>7, <3>8, <1>t, <1>u, RestoreFrame
  <2> QED
    BY <2>3, <2>4
<1>3. CASE EndRestoreFile
  <2>1. /\ target' = [target EXCEPT ![Destination] = rs.read]
        /\ rs' = [rs EXCEPT !.step = "verify"] /\ rs.step = "copy"
        /\ UNCHANGED <<holder, task, request>>
    BY <1>3 DEF EndRestoreFile, AtRestore
  <2>2. target' \in [Targets -> Bytes]
    BY <2>1, <1>t DEF RestoreFormed, Bytes
  <2>3. RestoreTyped'
    BY <2>1, <1>t DEF RestoreTyped, RestoreSteps
  <2>4. rs'.step = "verify" /\ rs'.id = rs.id /\ rs'.object = rs.object
    BY <2>1, <1>t DEF RestoreTyped
  <2>5. RestoreFormed' /\ RequestsFormed'
    BY <2>1, <2>4, <1>t, <1>r DEF RestoreFormed, RequestsFormed, Complete, Proper
  <2> QED
    BY <2>1, <2>2, <2>3, <2>5, <1>t, <1>u, RestoreFrame
<1>4. CASE VerifyRestoredFile
  <2>1. UNCHANGED target
    BY <1>4 DEF VerifyRestoredFile
  <2>2. \E state \in States : EndRestore(state)
    BY <1>4, <1>f DEF VerifyRestoredFile
  <2>3. holder' \in [Paths \cup Targets -> Contents \cup {None}]
    BY <1>4, <1>t, <1>r DEF VerifyRestoredFile
  <2> QED
    BY <2>1, <2>2, <2>3, <1>t, <1>r, <1>u, EndRestoreTyped, RestoreFrame
<1> QED
  BY <1>1, <1>2, <1>3, <1>4 DEF RunRestore

\* A command that submits or requeues request r, and may go on to execute it.
LEMMA CommandSound ==
  ASSUME Sound, Command, NEW r \in RequestIds,
         task' \in [RequestIds -> States],
         request' \in [RequestIds -> [state : States, file : Contents \cup {None},
                                      target : Targets \cup {None}]],
         RequestsFormed', Complete(request'[r]),
         UNCHANGED rs \/ ExecuteRestore(r)
  PROVE  Sound'
<1>1. UNCHANGED <<disk, object, row, stored, record, job, bk, clock, edits, faults, newest, safe,
                  target, holder>>
  BY DEF Command, files, history
<1>2. restores' \in 0 .. MaxRestores
  BY LimitsAssumption DEF Command, Sound, TypeOK, EnvironmentTyped
<1>3. target' \in [Targets -> Bytes] /\ holder' \in [Paths \cup Targets -> Contents \cup {None}]
  BY <1>1 DEF Sound, TypeOK, FilesTyped, TablesTyped
<1>4. CASE UNCHANGED rs
  <2>1. RestoreTyped' /\ RestoreFormed'
    BY <1>4 DEF Command, Sound, TypeOK, RestoreTyped, RestoreFormed
  <2> QED
    BY <1>1, <1>2, <1>3, <2>1, RestoreFrame
<1>5. CASE ExecuteRestore(r)
  <2>1. rs' = [step |-> "check", id |-> r, object |-> NoObject, read |-> None]
    BY <1>5 DEF ExecuteRestore, NoRestore
  <2>2. RestoreTyped' /\ RestoreFormed'
    BY <2>1 DEF RestoreTyped, RestoreFormed, RestoreSteps, NoObject, Objects
  <2> QED
    BY <1>1, <1>2, <1>3, <2>2, RestoreFrame
<1> QED
  BY <1>4, <1>5

LEMMA SubmitRestoreTyped ==
  ASSUME Sound, NEW r \in RequestIds, NEW f \in Contents, NEW t \in Targets, SubmitRestore(r, f, t)
  PROVE  /\ task' \in [RequestIds -> States]
         /\ request' \in [RequestIds -> [state : States, file : Contents \cup {None},
                                         target : Targets \cup {None}]]
         /\ RequestsFormed' /\ Complete(request'[r])
<1>1. /\ task \in [RequestIds -> States]
      /\ request \in [RequestIds -> [state : States, file : Contents \cup {None},
                                     target : Targets \cup {None}]]
  BY DEF Sound, TypeOK, TablesTyped
<1>2. /\ task' = [task EXCEPT ![r] = "queued"]
      /\ request' = [request EXCEPT ![r] = [state |-> "queued", file |-> f, target |-> t]]
      /\ "queued" \in States
  BY DEF SubmitRestore, States
<1>3. Complete(request'[r]) /\ \A q \in RequestIds : q # r => request'[q] = request[q]
  BY <1>1, <1>2 DEF Complete
<1>4. RequestsFormed'
  BY <1>3 DEF RequestsFormed, Complete, Sound, WellFormed
<1> QED
  BY <1>1, <1>2, <1>3, <1>4

LEMMA CommandsSound ==
  ASSUME Sound,
         \/ \E r \in UserIds, f \in Contents, t \in Targets : RunRestoreSubmit(r, f, t)
         \/ \E r \in RequestIds : RunRestoreRun(r) \/ RetryRestore(r)
         \/ \E n \in Names, t \in Targets : ExecuteLatestRestore(n, t)
  PROVE  Sound'
<1>t. /\ task \in [RequestIds -> States]
      /\ request \in [RequestIds -> [state : States, file : Contents \cup {None},
                                     target : Targets \cup {None}]]
      /\ RequestsFormed
      /\ record \in [Paths \X Contents -> [name : Names \cup {None}, at : Nat]]
  BY DEF Sound, TypeOK, TablesTyped, WellFormed
<1>1. ASSUME NEW r \in UserIds, NEW f \in Contents, NEW t \in Targets, RunRestoreSubmit(r, f, t)
      PROVE  Sound'
  <2>1. r \in RequestIds
    BY DEF RequestIds
  <2> QED
    BY <1>1, <2>1, SubmitRestoreTyped, CommandSound DEF RunRestoreSubmit
<1>2. ASSUME NEW r \in RequestIds, RunRestoreRun(r) PROVE Sound'
  <2>1. Complete(request[r])
    BY <1>2, <1>t DEF RunRestoreRun, RequestsFormed
  <2>2. UNCHANGED <<task, request>> /\ Command /\ ExecuteRestore(r)
    BY <1>2 DEF RunRestoreRun
  <2>3. RequestsFormed' /\ Complete(request'[r])
    BY <2>1, <2>2, <1>t DEF RequestsFormed, Complete
  <2> QED
    BY <2>2, <2>3, <1>t, CommandSound
<1>3. ASSUME NEW r \in RequestIds, RetryRestore(r) PROVE Sound'
  <2>1. Complete(request[r])
    BY <1>3, <1>t DEF RetryRestore, RequestsFormed
  <2>2. /\ Command /\ ExecuteRestore(r) /\ "queued" \in States
        /\ task' = [task EXCEPT ![r] = "queued"]
        /\ request' = [request EXCEPT ![r].state = "queued"]
    BY <1>3 DEF RetryRestore, States
  <2>3. task' \in [RequestIds -> States]
    BY <2>2, <1>t
  <2>4. /\ request' \in [RequestIds -> [state : States, file : Contents \cup {None},
                                        target : Targets \cup {None}]]
        /\ RequestsFormed' /\ Complete(request'[r])
    BY <2>1, <2>2, SetRequestState DEF Complete
  <2> QED
    BY <2>2, <2>3, <2>4, CommandSound
<1>4. ASSUME NEW n \in Names, NEW t \in Targets, ExecuteLatestRestore(n, t) PROVE Sound'
  <2>1. PICK q \in FindLatestBackupRecord(n) : SubmitRestore(q[2], q[2], t) /\ ExecuteRestore(q[2])
    BY <1>4 DEF ExecuteLatestRestore
  <2>2. q[2] \in Contents /\ q[2] \in RequestIds
    BY <2>1, <1>t DEF FindLatestBackupRecord, RecordsOf, RequestIds
  <2> QED
    BY <1>4, <2>1, <2>2, SubmitRestoreTyped, CommandSound DEF ExecuteLatestRestore
<1> QED
  BY <1>1, <1>2, <1>3, <1>4

(***************************************************************************)
(* One step preserves Sound: the environment.                              *)
(***************************************************************************)
Environment ==
  \/ Tick \/ \E p \in Paths : \E c \in Versions[p] \cup {Missing} : Edit(p, c)
  \/ KillBackup \/ KillRestore \/ StoreFails \/ RestoreFails
  \/ \E k \in Keys : LoseObject(k) \/ PutObjectBack(k)

LEMMA EnvironmentSound == Sound /\ Environment => Sound'
<1> SUFFICES ASSUME Sound, Environment PROVE Sound'
  OBVIOUS
<1> USE LimitsAssumption
<1>f. "failed" \in States
  BY DEF States
<1>e. ASSUME NEW kind, Fault(kind) PROVE EnvironmentTyped'
  BY <1>e DEF Fault, history, Sound, TypeOK, EnvironmentTyped
<1>1. CASE Tick
  <2>1. EnvironmentTyped'
    BY <1>1 DEF Tick, history, Sound, TypeOK, EnvironmentTyped
  <2> QED
    BY <1>1, <2>1 DEF Tick, files, tables, Sound, TypeOK, FilesTyped, TablesTyped, BackupTyped,
       RestoreTyped, WellFormed, BackupFormed, ObjectsFormed, RequestsFormed, RestoreFormed, Complete,
       Proper
<1>2. ASSUME NEW p \in Paths, NEW c \in Versions[p] \cup {Missing}, Edit(p, c) PROVE Sound'
  <2>1. disk' \in [Paths -> Contents \cup {Missing}]
    BY <1>2, FilesAssumption DEF Edit, Sound, TypeOK, FilesTyped
  <2>2. EnvironmentTyped'
    BY <1>2 DEF Edit, history, Sound, TypeOK, EnvironmentTyped
  <2> QED
    BY <1>2, <2>1, <2>2 DEF Edit, tables, Sound, TypeOK, FilesTyped, TablesTyped, BackupTyped,
       RestoreTyped, WellFormed, BackupFormed, ObjectsFormed, RequestsFormed, RestoreFormed, Complete,
       Proper
<1>3. CASE KillBackup \/ StoreFails
  <2>1. /\ UNCHANGED <<disk, target, object, row, stored, record, holder, task, request, rs>>
        /\ \E kind : Fault(kind)
    BY <1>3 DEF KillBackup, StoreFails, Fault
  <2>2. job' \in [0 .. MaxClock -> States] /\ BackupTyped' /\ BackupFormed'
    <3>1. CASE KillBackup
      BY <3>1 DEF KillBackup, NoBackup, BackupTyped, BackupSteps, BackupFormed, Storing,
                  Sound, TypeOK, TablesTyped
    <3>2. CASE StoreFails
      BY <3>2, <1>f, EndBackupTyped DEF StoreFails
    <3> QED
      BY <1>3, <3>1, <3>2
  <2>3. EnvironmentTyped'
    BY <2>1, <1>e
  <2> QED
    BY <2>1, <2>2, <2>3 DEF Sound, TypeOK, FilesTyped, TablesTyped, RestoreTyped, WellFormed,
       ObjectsFormed, RequestsFormed, RestoreFormed, Complete, Proper
<1>4. CASE KillRestore
  <2>1. RestoreTyped' /\ RestoreFormed'
    BY <1>4 DEF KillRestore, NoRestore, NoObject, Objects, RestoreTyped, RestoreFormed, RestoreSteps
  <2>2. EnvironmentTyped'
    BY <1>4, <1>e DEF KillRestore
  <2> QED
    BY <1>4, <2>1, <2>2 DEF KillRestore, Fault, Sound, TypeOK, FilesTyped, TablesTyped, BackupTyped,
       WellFormed, BackupFormed, ObjectsFormed, RequestsFormed, Complete, Proper
<1>5. CASE RestoreFails
  <2>1. /\ request' \in [RequestIds -> [state : States, file : Contents \cup {None},
                                         target : Targets \cup {None}]]
        /\ task' \in [RequestIds -> States]
        /\ RequestsFormed' /\ RestoreTyped' /\ RestoreFormed'
    BY <1>5, <1>f, EndRestoreTyped DEF RestoreFails
  <2>2. EnvironmentTyped'
    BY <1>5, <1>e DEF RestoreFails
  <2> QED
    BY <1>5, <2>1, <2>2 DEF RestoreFails, Fault, Sound, TypeOK, FilesTyped, TablesTyped, BackupTyped,
       WellFormed, BackupFormed, ObjectsFormed, Proper
<1>6. ASSUME NEW k \in Keys, LoseObject(k) \/ PutObjectBack(k) PROVE Sound'
  <2>1. /\ UNCHANGED <<disk, target, tables, bk, rs>>
        /\ object' \in [Keys -> Bytes]
    <3>1. k[1] \in Contents
      BY DEF Keys
    <3> QED
      BY <1>6, <3>1
         DEF LoseObject, PutObjectBack, Fault, tables, Bytes, Sound, TypeOK, FilesTyped
  <2>2. EnvironmentTyped'
    <3>1. CASE LoseObject(k)
      BY <3>1, <1>e DEF LoseObject
    <3>2. CASE PutObjectBack(k)
      BY <3>2 DEF PutObjectBack, environment, history, Sound, TypeOK, EnvironmentTyped
    <3> QED
      BY <1>6, <3>1, <3>2
  <2> QED
    BY <2>1, <2>2 DEF tables, Sound, TypeOK, FilesTyped, TablesTyped, BackupTyped,
       RestoreTyped, WellFormed, BackupFormed, ObjectsFormed, RequestsFormed, RestoreFormed, Complete,
       Proper
<1> QED
  BY <1>1, <1>2, <1>3, <1>4, <1>5, <1>6 DEF Environment

LEMMA NextSound == Sound /\ [Next]_vars => Sound'
<1> SUFFICES ASSUME Sound, [Next]_vars PROVE Sound'
  OBVIOUS
<1>1. CASE UNCHANGED vars
  BY <1>1 DEF vars, files, tables, environment, history, Sound, TypeOK, FilesTyped, TablesTyped, BackupTyped,
     RestoreTyped, EnvironmentTyped, WellFormed, BackupFormed, ObjectsFormed, RequestsFormed,
     RestoreFormed, Complete, Proper
<1>2. CASE Next
  BY <1>2, StartBackupSound, ExecuteBackupSound, CommandsSound, RunRestoreSound, EnvironmentSound
     DEF Next, Environment
<1> QED
  BY <1>1, <1>2

\* The tables, the files and the processes keep their shape, and what a command
\* uses after it read it is what it takes it for: the file at hand is one that
\* was scanned, the request that runs exists.
THEOREM BackupTypes == Spec => []TypeOK
<1>1. Spec => []Sound
  BY InitSound, NextSound, PTL DEF Spec
<1>2. Sound => TypeOK
  BY DEF Sound
<1> QED
  BY <1>1, <1>2, PTL

(***************************************************************************)
(* A restore that completes is exact: only the verification completes one. *)
(***************************************************************************)
LEMMA NextExact ==
  ASSUME Sound, Next, NEW r \in RequestIds,
         request[r].state # "completed", request'[r].state = "completed"
  PROVE  target'[request[r].target] = request[r].file
<1>t. request \in [RequestIds -> [state : States, file : Contents \cup {None},
                                  target : Targets \cup {None}]]
  BY DEF Sound, TypeOK, TablesTyped
<1>1. ASSUME NEW s \in {"queued", "running", "failed"}, NEW q \in RequestIds,
             request' = [request EXCEPT ![q].state = s]
      PROVE  FALSE
  BY <1>1, <1>t
<1>2. ASSUME NEW q \in RequestIds, NEW f, NEW t, SubmitRestore(q, f, t) PROVE FALSE
  BY <1>2, <1>t DEF SubmitRestore
<1>3. ASSUME UNCHANGED request PROVE FALSE
  BY <1>3
<1>4. rs.step # "idle" => rs.id \in RequestIds
  BY DEF Sound, WellFormed, RestoreFormed
<1>5. CASE VerifyRestoredFile
  <2>1. CASE row[Restored] # None /\ target[Destination] = Restored
    <3>1. rs.id \in RequestIds /\ request' = [request EXCEPT ![rs.id].state = "completed"]
      BY <1>4, <1>5, <2>1 DEF VerifyRestoredFile, AtRestore, EndRestore
    <3>2. r = rs.id
      BY <3>1, <1>t
    <3> QED
      BY <1>5, <2>1, <3>2 DEF VerifyRestoredFile, Restored, Destination
  <2>2. CASE ~(row[Restored] # None /\ target[Destination] = Restored)
    BY <1>1, <1>4, <1>5, <2>2 DEF VerifyRestoredFile, AtRestore, EndRestore
  <2> QED
    BY <2>1, <2>2
<1>6. ~CheckRestore
  BY <1>1, <1>3, <1>4 DEF CheckRestore, AtRestore
<1>7. ~RestoreFile
  BY <1>1, <1>3, <1>4 DEF RestoreFile, AtRestore, EndRestore
<1>8. ~EndRestoreFile
  BY <1>3 DEF EndRestoreFile
<1>9. \A q \in RequestIds : ~RunRestoreRun(q) /\ ~RetryRestore(q)
  BY <1>1, <1>3 DEF RunRestoreRun, RetryRestore
<1>10. \A q \in UserIds, f \in Contents, t \in Targets : ~RunRestoreSubmit(q, f, t)
  BY <1>2 DEF RunRestoreSubmit, RequestIds
<1>11. \A n \in Names, t \in Targets : ~ExecuteLatestRestore(n, t)
  <2> SUFFICES ASSUME NEW n \in Names, NEW t \in Targets, ExecuteLatestRestore(n, t) PROVE FALSE
    OBVIOUS
  <2>1. PICK q \in FindLatestBackupRecord(n) : SubmitRestore(q[2], q[2], t)
    BY DEF ExecuteLatestRestore
  <2>2. q[2] \in RequestIds
    BY <2>1 DEF FindLatestBackupRecord, RecordsOf, RequestIds, Sound, TypeOK, TablesTyped
  <2> QED
    BY <1>2, <2>1, <2>2
<1>12. ~ExecuteBackup /\ \A s \in Sources, b \in Backends : ~StartBackup(s, b)
  BY <1>3 DEF ExecuteBackup, OpenSource, ScanFile, EndScan, VerifyFile, StoreFile, EndCopy,
     UpsertStoredObject, UpsertBackupRecord, UpsertDeviceFile, CompleteBackup, StartBackup, AtBackup
<1>13. ~RestoreFails
  BY <1>1, <1>4 DEF RestoreFails, EndRestore
<1>14. Environment => RestoreFails
  BY <1>3 DEF Environment, Tick, Edit, KillBackup, KillRestore, StoreFails, LoseObject,
     PutObjectBack, tables
<1> QED
  BY <1>5, <1>6, <1>7, <1>8, <1>9, <1>10, <1>11, <1>12, <1>13, <1>14 DEF Next, RunRestore, Environment

\* Whatever is edited, killed, lost or overwritten meanwhile, a request is
\* marked as completed only by the step that found at its destination the very
\* file that was asked for.
THEOREM RestoresAreExact == Spec => CompletedRestoreIsExact
<1>1. Spec => []Sound
  BY InitSound, NextSound, PTL DEF Spec
<1>2. Sound /\ [Next]_vars =>
        [\A r \in RequestIds :
           request[r].state # "completed" /\ request'[r].state = "completed" =>
             target'[request[r].target] = request[r].file]_vars
  BY NextExact
<1> QED
  BY <1>1, <1>2, PTL DEF Spec, CompletedRestoreIsExact

(***************************************************************************)
(* The history: what a backup that goes on has recorded so far, and that   *)
(* the rows of the files it scanned are at paths it has scanned, so that   *)
(* scanning another path does not remove them.                             *)
(***************************************************************************)
OwnObject(f) == stored[f].backend = "mirror" => stored[f].key[1] = f

Grounded ==
  /\ HistoryIsGrounded
  /\ \A f \in Contents : stored[f] # NoObject => OwnObject(f)
  /\ bk.step \in {"record", "device", "end"} => stored[File] # NoObject

Progress ==
  /\ \A j \in DOMAIN bk.found : row[bk.found[j][2]] \in Paths \ bk.list
  /\ bk.step \in Storing => \A j \in 1 .. bk.i - 1 : record[bk.found[j]] # NoRecord
  /\ bk.step \in {"device", "end"} => record[bk.found[bk.i]] # NoRecord
  /\ bk.step = "end" => bk.i = Len(bk.found)

LEMMA InitGrounded == Init => Grounded /\ Progress
BY DEF Init, Grounded, Progress, HistoryIsGrounded, NoBackup, Storing

\* Steps of others.
LEMMA HistoryFrame ==
  ASSUME Sound, Grounded, Progress, UNCHANGED <<row, stored, record, bk>>,
         \A p \in Paths : holder'[p] = holder[p]
  PROVE  Grounded' /\ Progress'
<1>1. HistoryIsGrounded'
  BY DEF Grounded, HistoryIsGrounded
<1> QED
  BY <1>1 DEF Grounded, Progress, OwnObject, File

\* The end of a backup.
LEMMA EndFrame ==
  ASSUME Sound, Grounded, Progress, UNCHANGED <<row, stored, record, holder>>, bk' = NoBackup
  PROVE  Grounded' /\ Progress'
<1>1. HistoryIsGrounded'
  BY DEF Grounded, HistoryIsGrounded
<1>2. bk'.step = "idle" /\ bk'.found = <<>>
  BY DEF NoBackup
<1> QED
  BY <1>1, <1>2 DEF Grounded, Progress, OwnObject, Storing

\* A step of a backup that only goes from one file operation to the next.
LEMMA StepFrame ==
  ASSUME Sound, Grounded, Progress, UNCHANGED <<row, stored, record, holder>>,
         bk.step \in Storing \ {"device", "end"},
         bk'.found = bk.found, bk'.i = bk.i, bk'.list = bk.list,
         bk'.step \in {"verify", "store", "copy", "object"}
  PROVE  Grounded' /\ Progress'
<1>1. HistoryIsGrounded'
  BY DEF Grounded, HistoryIsGrounded
<1> QED
  BY <1>1 DEF Grounded, Progress, OwnObject, Storing

LEMMA ExecuteBackupGrounded ==
  ASSUME Sound, Grounded, Progress, ExecuteBackup PROVE Grounded' /\ Progress'
<1>b. BackupTyped /\ BackupFormed
  BY DEF Sound, TypeOK, WellFormed
<1>r. /\ record \in [Paths \X Contents -> [name : Names \cup {None}, at : Nat]]
      /\ stored \in [Contents -> Objects]
      /\ row \in [Contents -> Paths \cup {None}]
      /\ holder \in [Paths \cup Targets -> Contents \cup {None}]
  BY DEF Sound, TypeOK, TablesTyped
<1>1. CASE OpenSource
  <2>1. CASE EndBackup("failed")
    BY <1>1, <2>1, EndFrame DEF OpenSource, EndBackup
  <2>2. CASE ~EndBackup("failed")
    <3>1. /\ bk'.step = "scan" /\ bk'.found = bk.found /\ bk'.list \subseteq bk.list
          /\ UNCHANGED <<row, stored, record, holder>>
      <4>1. bk' = [bk EXCEPT !.step = "scan", !.list = {p \in bk.list : disk[p] # Missing}]
        BY <1>1, <2>2 DEF OpenSource
      <4>2. UNCHANGED <<row, stored, record, holder>>
        BY <1>1 DEF OpenSource
      <4> QED
        BY <4>1, <4>2, <1>b DEF BackupTyped
    <3>2. HistoryIsGrounded'
      BY <3>1 DEF Grounded, HistoryIsGrounded
    <3> QED
      BY <3>1, <3>2 DEF Grounded, Progress, OwnObject, Storing
  <2> QED
    BY <2>1, <2>2
<1>2. ASSUME NEW p \in Paths, ScanFile(p) PROVE Grounded' /\ Progress'
  <2>1. CASE disk[p] = Missing
    BY <1>2, <2>1, EndFrame DEF ScanFile, EndBackup
  <2>2. CASE disk[p] # Missing
    <3>1. /\ UpsertFile(p, disk[p]) /\ p \in bk.list /\ disk[p] \in Contents
          /\ UNCHANGED <<stored, record, holder>>
      BY <1>2, <2>2 DEF ScanFile, Sound, TypeOK, FilesTyped
    <3>2. /\ bk'.list = bk.list \ {p} /\ bk'.step = "scan"
          /\ bk'.found = Append(bk.found, <<p, disk[p]>>)
      BY <1>2, <2>2, <1>b DEF ScanFile, AtBackup, BackupTyped
    <3>3. bk.found \in Seq(Paths \X Contents)
      BY <1>b DEF BackupTyped
    <3>4. row'[disk[p]] = p
      BY <3>1 DEF UpsertFile
    <3>5. \A g \in Contents : row[g] # p => row'[g] \in {row[g], p}
      BY <3>1 DEF UpsertFile
    <3>6. ASSUME NEW j \in DOMAIN bk'.found PROVE row'[bk'.found[j][2]] \in Paths \ bk'.list
      <4>1. CASE j = Len(bk.found) + 1
        <5>1. bk'.found[j] = <<p, disk[p]>>
          BY <3>2, <3>3, <4>1
        <5> QED
          BY <3>2, <3>4, <5>1
      <4>2. CASE j # Len(bk.found) + 1
        <5>1. j \in DOMAIN bk.found /\ bk'.found[j] = bk.found[j]
          BY <3>2, <3>3, <3>6, <4>2
        <5>2. bk.found[j][2] \in Contents /\ row[bk.found[j][2]] \in Paths \ bk.list
          BY <3>3, <5>1 DEF Progress
        <5>3. row'[bk.found[j][2]] \in {row[bk.found[j][2]], p}
          BY <3>1, <3>5, <5>2
        <5> QED
          BY <3>1, <3>2, <5>1, <5>2, <5>3
      <4> QED
        BY <4>1, <4>2
    <3>7. HistoryIsGrounded'
      BY <3>1 DEF Grounded, HistoryIsGrounded
    <3> QED
      BY <3>1, <3>2, <3>6, <3>7 DEF Grounded, Progress, OwnObject, Storing
  <2> QED
    BY <2>1, <2>2
<1>3. CASE EndScan
  <2>1. CASE bk.found = <<>>
    BY <1>3, <2>1, EndFrame DEF EndScan, EndBackup
  <2>2. CASE bk.found # <<>>
    <3>1. /\ bk'.step = "verify" /\ bk'.i = 1 /\ bk'.found = bk.found /\ bk'.list = bk.list
          /\ UNCHANGED <<row, stored, record, holder>>
      BY <1>3, <2>2, <1>b DEF EndScan, BackupTyped
    <3>2. HistoryIsGrounded'
      BY <3>1 DEF Grounded, HistoryIsGrounded
    <3> QED
      BY <3>1, <3>2 DEF Grounded, Progress, OwnObject, Storing
  <2> QED
    BY <2>1, <2>2
<1>4. CASE VerifyFile
  <2>1. CASE disk[Path] = File
    <3>1. /\ bk'.step = "store" /\ bk'.i = bk.i /\ bk'.found = bk.found /\ bk'.list = bk.list
          /\ bk.step = "verify" /\ UNCHANGED <<row, stored, record, holder>>
      BY <1>4, <2>1, <1>b DEF VerifyFile, AtBackup, BackupTyped
    <3> QED
      BY <3>1, StepFrame DEF Storing
  <2>2. CASE disk[Path] # File
    BY <1>4, <2>2, EndFrame DEF VerifyFile, EndBackup
  <2> QED
    BY <2>1, <2>2
<1>5. CASE StoreFile
  <2>1. CASE EndBackup("failed")
    BY <1>5, <2>1, EndFrame DEF StoreFile, EndBackup
  <2>2. CASE ~EndBackup("failed")
    <3>1. /\ bk'.step \in {"object", "copy"} /\ bk'.i = bk.i /\ bk'.found = bk.found
          /\ bk'.list = bk.list /\ bk.step = "store" /\ UNCHANGED <<row, stored, record, holder>>
      BY <1>5, <2>2, <1>b DEF StoreFile, AtBackup, BackupTyped
    <3> QED
      BY <3>1, StepFrame DEF Storing
  <2> QED
    BY <2>1, <2>2
<1>6. CASE EndCopy
  <2>1. /\ bk'.step = "object" /\ bk'.i = bk.i /\ bk'.found = bk.found
        /\ bk'.list = bk.list /\ bk.step = "copy" /\ UNCHANGED <<row, stored, record, holder>>
    BY <1>6, <1>b DEF EndCopy, AtBackup, BackupTyped
  <2> QED
    BY <2>1, StepFrame DEF Storing
<1>7. CASE UpsertStoredObject
  <2>1. /\ bk'.step = "record" /\ bk'.i = bk.i /\ bk'.found = bk.found /\ bk'.list = bk.list
        /\ bk.step = "object" /\ UNCHANGED <<row, record, holder>>
    BY <1>7, <1>b DEF UpsertStoredObject, AtBackup, BackupTyped
  <2>2. Path \in Paths /\ File \in Contents
    BY <2>1, FileAtHand DEF Storing
  <2>3. PICK o : /\ stored' = [stored EXCEPT ![File] = o]
                 /\ o = [backend |-> bk.backend, source |-> Path,
                         key |-> IF bk.backend = "mirror" THEN Key(Path, File) ELSE None]
    BY <1>7 DEF UpsertStoredObject
  <2>4. o # NoObject /\ (o.backend = "mirror" => o.key[1] = File)
    BY <2>2, <2>3, ContentsAssumption DEF NoObject, Key
  <2>5. \A f \in Contents : stored'[f] = IF f = File THEN o ELSE stored[f]
    BY <2>3, <1>r
  <2>6. \A f \in Contents : stored[f] # NoObject => stored'[f] # NoObject
    BY <2>4, <2>5
  <2>7. \A f \in Contents : stored'[f] # NoObject => OwnObject(f)'
    BY <2>4, <2>5 DEF Grounded, OwnObject
  <2>8. HistoryIsGrounded'
    BY <2>1, <2>6, <2>7, <1>r DEF Grounded, HistoryIsGrounded, OwnObject
  <2>9. stored'[File'] # NoObject
    BY <2>1, <2>2, <2>4, <2>5 DEF File
  <2> QED
    BY <2>1, <2>7, <2>8, <2>9 DEF Grounded, Progress, Storing
<1>8. CASE UpsertBackupRecord
  <2>1. /\ bk'.step = "device" /\ bk'.i = bk.i /\ bk'.found = bk.found /\ bk'.list = bk.list
        /\ bk.step = "record" /\ UNCHANGED <<row, stored, holder>>
    BY <1>8, <1>b DEF UpsertBackupRecord, AtBackup, BackupTyped
  <2>2. /\ Path \in Paths /\ File \in Contents /\ bk.found[bk.i] = <<Path, File>>
        /\ RelativePath(Path) \in Names
    BY <2>1, FileAtHand DEF Storing
  <2>3. PICK d : /\ record' = [record EXCEPT ![<<Path, File>>] = d]
                 /\ d = [name |-> RelativePath(Path), at |-> bk.at]
    BY <1>8 DEF UpsertBackupRecord
  <2>4. d # NoRecord
    BY <2>2, <2>3, ContentsAssumption DEF NoRecord
  <2>5. \A q \in Paths \X Contents :
          record'[q] = IF q = <<Path, File>> THEN d ELSE record[q]
    BY <2>3, <1>r
  <2>6. \A q \in Paths \X Contents : record[q] # NoRecord => record'[q] # NoRecord
    BY <2>4, <2>5
  <2>7. stored[File] # NoObject /\ OwnObject(File)
    BY <2>1, <2>2 DEF Grounded
  <2>8. HistoryIsGrounded'
    <3>1. DOMAIN record' = Paths \X Contents /\ DOMAIN record = Paths \X Contents
      BY <2>3, <1>r
    <3>2. ASSUME NEW q \in Paths \X Contents, record'[q] # NoRecord
          PROVE  /\ stored'[q[2]] # NoObject
                 /\ stored'[q[2]].backend = "mirror" => stored'[q[2]].key[1] = q[2]
      <4>1. CASE q = <<Path, File>>
        BY <2>1, <2>7, <4>1 DEF OwnObject
      <4>2. CASE q # <<Path, File>>
        BY <2>1, <2>5, <3>1, <3>2, <4>2 DEF Grounded, HistoryIsGrounded
      <4> QED
        BY <4>1, <4>2
    <3>3. ASSUME NEW q \in Paths, holder'[q] # None PROVE record'[<<q, holder'[q]>>] # NoRecord
      BY <2>1, <2>6, <3>3, <1>r DEF Grounded, HistoryIsGrounded
    <3> QED
      BY <3>1, <3>2, <3>3 DEF HistoryIsGrounded
  <2>9. Grounded'
    BY <2>1, <2>7, <2>8 DEF Grounded, OwnObject, File
  <2>10. \A j \in DOMAIN bk.found : bk.found[j] \in Paths \X Contents
    BY <1>b DEF BackupTyped
  <2>11. \A j \in 1 .. bk.i - 1 : j \in DOMAIN bk.found
    BY <2>1, <1>b DEF BackupTyped, BackupFormed, Storing
  <2>12. \A j \in 1 .. bk.i - 1 : record'[bk.found[j]] # NoRecord
    BY <2>1, <2>6, <2>10, <2>11 DEF Progress, Storing
  <2>13. record'[bk.found[bk.i]] # NoRecord
    BY <2>2, <2>4, <2>5
  <2> QED
    BY <2>1, <2>9, <2>12, <2>13 DEF Progress
<1>9. CASE UpsertDeviceFile
  <2>1. /\ bk'.found = bk.found /\ bk'.list = bk.list
        /\ bk.step = "device" /\ UNCHANGED <<row, stored, record>>
    BY <1>9, <1>b DEF UpsertDeviceFile, AtBackup, BackupTyped
  <2>2. /\ Path \in Paths /\ File \in Contents /\ bk.found[bk.i] = <<Path, File>>
    BY <2>1, FileAtHand DEF Storing
  <2>3. holder' = [holder EXCEPT ![Path] = File]
    BY <1>9 DEF UpsertDeviceFile
  <2>4. HistoryIsGrounded'
    <3>1. ASSUME NEW q \in Paths, holder'[q] # None PROVE record'[<<q, holder'[q]>>] # NoRecord
      <4>1. CASE q = Path
        BY <2>1, <2>2, <2>3, <4>1, <1>r DEF Progress
      <4>2. CASE q # Path
        BY <2>1, <2>3, <3>1, <4>2, <1>r DEF Grounded, HistoryIsGrounded
      <4> QED
        BY <4>1, <4>2
    <3> QED
      BY <2>1, <3>1 DEF Grounded, HistoryIsGrounded
  <2>5. bk.i \in 1 .. Len(bk.found) /\ Len(bk.found) \in Nat
    BY <2>1, <1>b DEF BackupTyped, BackupFormed, Storing
  <2>6. \A j \in 1 .. bk.i : record[bk.found[j]] # NoRecord
    BY <2>1, <2>5 DEF Progress, Storing
  <2>7. CASE bk.i < Len(bk.found)
    <3>1. bk'.step = "verify" /\ bk'.i = bk.i + 1
      BY <1>9, <2>7, <1>b DEF UpsertDeviceFile, BackupTyped
    <3> QED
      BY <2>1, <2>4, <2>5, <2>6, <3>1 DEF Grounded, Progress, OwnObject, Storing
  <2>8. CASE ~(bk.i < Len(bk.found))
    <3>1. bk'.step = "end" /\ bk'.i = bk.i /\ bk.i = Len(bk.found)
      BY <1>9, <2>5, <2>8, <1>b DEF UpsertDeviceFile, BackupTyped
    <3>2. Grounded'
      BY <2>1, <2>4, <3>1 DEF Grounded, OwnObject, File
    <3> QED
      BY <2>1, <2>5, <2>6, <3>1, <3>2 DEF Progress, Storing
  <2> QED
    BY <2>7, <2>8
<1>10. CASE CompleteBackup
  BY <1>10, EndFrame DEF CompleteBackup, EndBackup
<1> QED
  BY <1>1, <1>2, <1>3, <1>4, <1>5, <1>6, <1>7, <1>8, <1>9, <1>10 DEF ExecuteBackup

LEMMA NextGrounded ==
  ASSUME Sound, Grounded, Progress, [Next]_vars PROVE Grounded' /\ Progress'
<1>1. CASE UNCHANGED vars
  BY <1>1, HistoryFrame DEF vars, tables
<1>2. ASSUME NEW s \in Sources, NEW b \in Backends, StartBackup(s, b) PROVE Grounded' /\ Progress'
  <2>1. /\ bk'.step = "open" /\ bk'.found = <<>> /\ UNCHANGED <<row, stored, record, holder>>
    BY <1>2 DEF StartBackup, NoBackup
  <2>2. HistoryIsGrounded'
    BY <2>1 DEF Grounded, HistoryIsGrounded
  <2> QED
    BY <2>1, <2>2 DEF Grounded, Progress, OwnObject, Storing
<1>3. CASE RunRestore
  <2>1. UNCHANGED <<row, stored, record, bk>>
    BY <1>3 DEF RunRestore, CheckRestore, RestoreFile, EndRestoreFile, VerifyRestoredFile, AtRestore
  <2>2. UNCHANGED holder \/ holder' = [holder EXCEPT ![Destination] = Restored]
    BY <1>3 DEF RunRestore, CheckRestore, RestoreFile, EndRestoreFile, VerifyRestoredFile
  <2>3. Destination \in Targets
    BY <1>3, RequestAtHand
       DEF RunRestore, CheckRestore, RestoreFile, EndRestoreFile, VerifyRestoredFile, AtRestore
  <2>4. \A p \in Paths : holder'[p] = holder[p]
    BY <2>2, <2>3, FilesAssumption DEF Sound, TypeOK, TablesTyped
  <2> QED
    BY <2>1, <2>4, HistoryFrame
<1>4. CASE Command
  BY <1>4, HistoryFrame DEF Command
<1>5. CASE Environment
  <2>1. CASE KillBackup \/ StoreFails
    BY <2>1, EndFrame DEF KillBackup, StoreFails, Fault, EndBackup
  <2>2. CASE ~(KillBackup \/ StoreFails)
    <3>1. UNCHANGED <<row, stored, record, bk, holder>>
      BY <1>5, <2>2 DEF Environment, Tick, Edit, KillRestore, RestoreFails, LoseObject,
         PutObjectBack, Fault, tables
    <3> QED
      BY <3>1, HistoryFrame
  <2> QED
    BY <2>1, <2>2
<1> QED
  BY <1>1, <1>2, <1>3, <1>4, <1>5, ExecuteBackupGrounded
     DEF Next, Environment, RunRestoreSubmit, RunRestoreRun, RetryRestore, ExecuteLatestRestore

\* The inductive invariant of the history.
LEMMA AlwaysGrounded == Spec => [](Sound /\ Grounded /\ Progress)
<1>1. Init => Sound /\ Grounded /\ Progress
  BY InitSound, InitGrounded
<1>2. Sound /\ Grounded /\ Progress /\ [Next]_vars => (Sound /\ Grounded /\ Progress)'
  BY NextSound, NextGrounded
<1> QED
  BY <1>1, <1>2, PTL DEF Spec

\* Wherever a backup fails or is killed, the history names only what was stored
\* and the view of the device only what is in the history.
THEOREM HistoryHolds == Spec => []HistoryIsGrounded
<1>1. Sound /\ Grounded /\ Progress => HistoryIsGrounded
  BY DEF Grounded
<1> QED
  BY <1>1, AlwaysGrounded, PTL

\* Only CompleteBackup completes a job, and then every scanned file is recorded
\* and has its row.
LEMMA NextWhole ==
  ASSUME Sound, Progress, Next, NEW s \in DOMAIN job,
         job[s] # "completed", job'[s] = "completed"
  PROVE  \A j \in DOMAIN bk.found :
           record[bk.found[j]] # NoRecord /\ row[bk.found[j][2]] # None
<1>t. job \in [0 .. MaxClock -> States] /\ BackupTyped /\ BackupFormed
  BY DEF Sound, TypeOK, TablesTyped, WellFormed
<1>1. ASSUME UNCHANGED job PROVE FALSE
  BY <1>1
<1>2. ASSUME NEW st \in {"queued", "running", "failed"}, NEW k, job' = [job EXCEPT ![k] = st]
      PROVE  FALSE
  BY <1>2, <1>t
<1>3. CompleteBackup
  <2>1. \A p \in Sources, b \in Backends : ~StartBackup(p, b)
    BY <1>2 DEF StartBackup
  <2>2. ~OpenSource
    BY <1>2 DEF OpenSource, EndBackup
  <2>3. \A p \in Paths : ~ScanFile(p)
    BY <1>1, <1>2 DEF ScanFile, EndBackup
  <2>4. ~EndScan /\ ~VerifyFile /\ ~StoreFile
    BY <1>1, <1>2 DEF EndScan, VerifyFile, StoreFile, EndBackup
  <2>5. ~EndCopy /\ ~UpsertStoredObject /\ ~UpsertBackupRecord /\ ~UpsertDeviceFile
    BY <1>1 DEF EndCopy, UpsertStoredObject, UpsertBackupRecord, UpsertDeviceFile
  <2>6. ~Command /\ ~RunRestore
    BY <1>1 DEF Command, RunRestore, CheckRestore, RestoreFile, EndRestoreFile,
                VerifyRestoredFile, AtRestore
  <2>7. ~StoreFails
    BY <1>2 DEF StoreFails, EndBackup
  <2>8. Environment => StoreFails
    BY <1>1 DEF Environment, Tick, Edit, KillBackup, KillRestore, RestoreFails, LoseObject,
       PutObjectBack, tables
  <2> QED
    BY <2>1, <2>2, <2>3, <2>4, <2>5, <2>6, <2>7, <2>8
       DEF Next, Environment, ExecuteBackup, RunRestoreSubmit, RunRestoreRun, RetryRestore,
           ExecuteLatestRestore
<1>4. bk.step = "end" /\ bk.i = Len(bk.found) /\ bk.found \in Seq(Paths \X Contents)
  BY <1>3, <1>t DEF CompleteBackup, AtBackup, Progress, BackupTyped
<1>5. \A j \in DOMAIN bk.found : j \in 1 .. bk.i - 1 \/ j = bk.i
  BY <1>4
<1>6. \A j \in DOMAIN bk.found : record[bk.found[j]] # NoRecord
  BY <1>4, <1>5 DEF Progress, Storing
<1>7. \A j \in DOMAIN bk.found : row[bk.found[j][2]] # None
  BY ContentsAssumption DEF Progress
<1> QED
  BY <1>6, <1>7

\* A backup that completes has recorded every file it scanned, and the scan of
\* one file has not removed the row of another.
THEOREM BackupsAreWhole == Spec => CompletedBackupIsWhole
<1>1. Sound /\ Grounded /\ Progress /\ [Next]_vars =>
        [\A s \in DOMAIN job :
           job[s] # "completed" /\ job'[s] = "completed" =>
             \A i \in DOMAIN bk.found :
               record[bk.found[i]] # NoRecord /\ row[bk.found[i][2]] # None]_vars
  BY NextWhole
<1> QED
  BY <1>1, AlwaysGrounded, PTL DEF Spec, CompletedBackupIsWhole

-----------------------------------------------------------------------------
(***************************************************************************)
(* Recorded files can be restored.  While a file is stored again it is not *)
(* among the safe ones; once its object is complete, only a loss changes   *)
(* it before the file is recorded.                                         *)
(***************************************************************************)
\* The object under key k is that of file f, or was lost.
HasObject(k, f) == object[k] = f \/ (object[k] = Missing /\ faults > 0)

\* The mirror got the bytes of the file at hand that were verified.
Copied == bk.backend = "mirror" /\ bk.read = File

SafeFiles ==
  \A f \in safe : /\ row[f] # None /\ stored[f].backend = "mirror"
                  /\ HasObject(stored[f].key, f)

SafeInv ==
  /\ SafeFiles
  /\ bk.step \in {"copy", "object", "record"} => File \notin safe
  /\ bk.step \in {"object", "record"} /\ Copied => HasObject(Key(Path, File), File)
  /\ bk.step = "record" /\ Copied =>
       stored[File].backend = "mirror" /\ stored[File].key = Key(Path, File)

LEMMA SafeTypes ==
  ASSUME Sound
  PROVE  /\ safe \subseteq Contents /\ faults \in Nat /\ BackupTyped /\ BackupFormed
         /\ disk \in [Paths -> Contents \cup {Missing}] /\ object \in [Keys -> Bytes]
         /\ row \in [Contents -> Paths \cup {None}] /\ stored \in [Contents -> Objects]
BY LimitsAssumption
   DEF Sound, TypeOK, FilesTyped, TablesTyped, EnvironmentTyped, WellFormed

\* A stored object in the mirror is one of its own file.
LEMMA KeyOfObject ==
  ASSUME Sound, Grounded, NEW f \in Contents, stored[f].backend = "mirror"
  PROVE  stored[f].key \in Keys /\ stored[f].key[1] = f
<1>1. stored[f] # NoObject
  BY DEF NoObject
<1> QED
  BY <1>1 DEF Sound, WellFormed, ObjectsFormed, Proper, Grounded, OwnObject

\* Steps that touch neither what safe files need nor, other than to end the
\* work on it, the file at hand.
LEMMA SafeFrame ==
  ASSUME SafeInv, UNCHANGED <<row, stored, object, safe>>,
         faults \in Nat, faults' \in Nat, faults <= faults',
         UNCHANGED bk \/ bk'.step \notin {"copy", "object", "record"}
  PROVE  SafeInv'
<1>1. \A k, f : HasObject(k, f) => HasObject(k, f)'
  BY DEF HasObject
<1>2. SafeFiles'
  BY <1>1 DEF SafeInv, SafeFiles
<1>3. CASE UNCHANGED bk
  BY <1>1, <1>2, <1>3 DEF SafeInv, Copied, File, Path, Key
<1>4. CASE bk'.step \notin {"copy", "object", "record"}
  BY <1>2, <1>4 DEF SafeInv
<1> QED
  BY <1>3, <1>4

\* The scan of a file only removes rows of files that it supersedes.
LEMMA ScanSafe ==
  ASSUME Sound, SafeInv, NEW p \in Paths, ScanFile(p)
  PROVE  SafeInv'
<1>t. faults \in Nat /\ UNCHANGED <<stored, object, faults>> /\ BackupTyped
  BY SafeTypes DEF ScanFile, AtBackup, files, environment
<1>1. CASE disk[p] = Missing
  <2>1. UNCHANGED <<row, safe>> /\ bk'.step = "idle"
    BY <1>1 DEF ScanFile, EndBackup, NoBackup
  <2> QED
    BY <1>t, <2>1, SafeFrame
<1>2. CASE disk[p] # Missing
  <2>1. /\ bk'.step = "scan" /\ UpsertFile(p, disk[p])
        /\ safe' = safe \ {f \in Contents \ {disk[p]} : row[f] = p}
    BY <1>t, <1>2 DEF ScanFile, AtBackup, BackupTyped
  <2>2. ASSUME NEW f \in safe' PROVE row'[f] # None
    <3>1. f \in safe /\ f \in Contents /\ (f = disk[p] \/ row[f] # p)
      BY <2>1, SafeTypes
    <3> QED
      BY <2>1, <3>1, ContentsAssumption DEF UpsertFile, SafeInv, SafeFiles
  <2>3. SafeFiles'
    BY <1>t, <2>1, <2>2 DEF SafeInv, SafeFiles, HasObject
  <2> QED
    BY <2>1, <2>3 DEF SafeInv
<1> QED
  BY <1>1, <1>2

\* A file is stored: its object is overwritten, and then complete.
LEMMA StoreSafe ==
  ASSUME Sound, Grounded, SafeInv, StoreFile \/ EndCopy
  PROVE  SafeInv'
<1>0. bk.step \in Storing
  BY DEF StoreFile, EndCopy, AtBackup, Storing
<1>1. PICK p \in Paths, f \in Contents :
        p = Path /\ f = File /\ Key(p, f) \in Keys /\ Key(p, f)[1] = f
  BY <1>0, FileAtHand DEF Key
<1>t. /\ UNCHANGED <<row, stored, faults>> /\ BackupTyped /\ faults \in Nat
      /\ object \in [Keys -> Bytes] /\ safe \subseteq Contents
  BY SafeTypes DEF StoreFile, EndCopy, AtBackup, environment
<1>2. ASSUME NEW c, object' = [object EXCEPT ![Key(p, f)] = c],
             safe' \subseteq safe, f \notin safe'
      PROVE  SafeFiles'
  <2> SUFFICES ASSUME NEW g \in safe'
               PROVE  row'[g] # None /\ stored'[g].backend = "mirror" /\ HasObject(stored[g].key, g)'
    BY <1>t DEF SafeFiles
  <2>1. /\ g \in Contents /\ row[g] # None /\ stored[g].backend = "mirror"
        /\ HasObject(stored[g].key, g)
    BY <1>2, <1>t DEF SafeInv, SafeFiles
  <2>2. stored[g].key \in Keys /\ stored[g].key # Key(p, f)
    BY <1>1, <1>2, <2>1, KeyOfObject
  <2> QED
    BY <1>2, <1>t, <2>1, <2>2 DEF HasObject
<1>3. CASE StoreFile /\ bk.backend = "none"
  <2>1. /\ bk'.step = "object" /\ bk'.backend = "none" /\ bk'.i = bk.i /\ bk'.found = bk.found
        /\ safe' = safe \ {f} /\ UNCHANGED object
    BY <1>1, <1>3, <1>t DEF StoreFile, BackupTyped
  <2>2. SafeFiles'
    BY <1>t, <2>1 DEF SafeInv, SafeFiles, HasObject
  <2>3. File' = f
    BY <1>1, <2>1 DEF File
  <2> QED
    BY <2>1, <2>2, <2>3 DEF SafeInv, Copied
<1>4. CASE StoreFile /\ bk.backend = "mirror" /\ disk[Path] = Missing
  <2>1. bk'.step = "idle" /\ UNCHANGED <<object, safe>>
    BY <1>4 DEF StoreFile, EndBackup, NoBackup
  <2> QED
    BY <1>t, <2>1, SafeFrame
<1>5. CASE StoreFile /\ bk.backend = "mirror" /\ disk[Path] # Missing
  <2>1. /\ bk'.step = "copy" /\ bk'.i = bk.i /\ bk'.found = bk.found
        /\ safe' = safe \ {f} /\ object' = [object EXCEPT ![Key(p, f)] = Torn]
    BY <1>1, <1>5, <1>t DEF StoreFile, BackupTyped
  <2>2. SafeFiles'
    BY <1>2, <2>1
  <2>3. File' = f
    BY <1>1, <2>1 DEF File
  <2> QED
    BY <2>1, <2>2, <2>3 DEF SafeInv
<1>6. CASE EndCopy
  <2>1. /\ bk.step = "copy" /\ bk'.step = "object" /\ UNCHANGED safe /\ f \notin safe
        /\ bk'.i = bk.i /\ bk'.found = bk.found /\ bk'.backend = bk.backend /\ bk'.read = bk.read
        /\ object' = [object EXCEPT ![Key(p, f)] = bk.read]
    BY <1>1, <1>6, <1>t DEF EndCopy, AtBackup, BackupTyped, SafeInv, history
  <2>2. SafeFiles'
    BY <1>2, <2>1
  <2>3. File' = f /\ Path' = p /\ Key(p, f)' = Key(p, f)
    BY <1>1, <2>1 DEF File, Path, Key
  <2>4. Copied' => HasObject(Key(p, f), f)'
    BY <1>1, <1>t, <2>1, <2>3 DEF Copied, HasObject
  <2> QED
    BY <2>1, <2>2, <2>3, <2>4 DEF SafeInv
<1> QED
  BY <1>3, <1>4, <1>5, <1>6 DEF StoreFile

\* The stored object is saved, and the file recorded.
LEMMA RecordSafe ==
  ASSUME Sound, Grounded, Progress, SafeInv, UpsertStoredObject \/ UpsertBackupRecord
  PROVE  SafeInv'
<1>0. bk.step \in Storing /\ bk.step \in {"object", "record"}
  BY DEF UpsertStoredObject, UpsertBackupRecord, AtBackup, Storing
<1>1. PICK p \in Paths, f \in Contents :
        p = Path /\ f = File /\ Key(p, f) \in Keys /\ bk.found[bk.i] = <<p, f>>
  BY <1>0, FileAtHand
<1>t. /\ UNCHANGED <<row, object, faults>> /\ BackupTyped
      /\ stored \in [Contents -> Objects] /\ safe \subseteq Contents /\ f \notin safe
  BY <1>0, <1>1, SafeTypes
     DEF UpsertStoredObject, UpsertBackupRecord, AtBackup, environment, files, SafeInv
<1>2. CASE UpsertStoredObject
  <2>1. /\ bk.step = "object" /\ bk'.step = "record" /\ UNCHANGED safe
        /\ bk'.i = bk.i /\ bk'.found = bk.found /\ bk'.backend = bk.backend /\ bk'.read = bk.read
    BY <1>2, <1>t DEF UpsertStoredObject, AtBackup, BackupTyped, history
  <2>2. /\ \A g \in Contents : g # f => stored'[g] = stored[g]
        /\ bk.backend = "mirror" => stored'[f].backend = "mirror" /\ stored'[f].key = Key(p, f)
    BY <1>1, <1>2, <1>t DEF UpsertStoredObject
  <2>3. File' = f /\ Path' = p /\ Key(p, f)' = Key(p, f) /\ Copied' = Copied
    BY <1>1, <2>1 DEF File, Path, Key, Copied
  <2>4. SafeFiles'
    BY <1>t, <2>1, <2>2 DEF SafeInv, SafeFiles, HasObject
  <2>5. Copied => HasObject(Key(p, f), f)'
    BY <1>1, <1>t, <2>1 DEF SafeInv, HasObject
  <2> QED
    BY <1>t, <2>1, <2>2, <2>3, <2>4, <2>5 DEF SafeInv, Copied
<1>3. CASE UpsertBackupRecord
  <2>1. /\ bk.step = "record" /\ bk'.step = "device" /\ UNCHANGED stored
        /\ safe' = IF Copied THEN safe \cup {f} ELSE safe
    BY <1>1, <1>3, <1>t DEF UpsertBackupRecord, Recorded, AtBackup, BackupTyped, Copied
  <2>2. row[f] # None
    <3>1. bk.i \in DOMAIN bk.found
      BY <1>0, <1>t, SafeTypes DEF BackupTyped, BackupFormed
    <3> QED
      BY <1>1, <3>1, ContentsAssumption DEF Progress
  <2>3. Copied => /\ stored[f].backend = "mirror" /\ stored[f].key = Key(p, f)
                  /\ HasObject(Key(p, f), f)
    BY <1>1, <2>1 DEF SafeInv
  <2>4. SafeFiles'
    BY <1>t, <2>1, <2>2, <2>3 DEF SafeInv, SafeFiles, HasObject
  <2> QED
    BY <2>1, <2>4 DEF SafeInv
<1> QED
  BY <1>2, <1>3

\* An object is lost, or put back.
LEMMA LossSafe ==
  ASSUME Sound, Grounded, SafeInv, NEW k \in Keys, LoseObject(k) \/ PutObjectBack(k)
  PROVE  SafeInv'
<1>1. UNCHANGED <<bk, row, stored, safe>>
  BY DEF LoseObject, PutObjectBack, Fault, tables, history
<1>2. faults' \in Nat /\ faults' > 0
  BY SafeTypes DEF LoseObject, PutObjectBack, Fault, environment
<1>3. \/ object' = [object EXCEPT ![k] = Missing]
      \/ object' = [object EXCEPT ![k] = k[1]]
  BY DEF LoseObject, PutObjectBack
<1>4. ASSUME NEW f \in Contents, NEW j \in Keys, j[1] = f, HasObject(j, f)
      PROVE  HasObject(j, f)'
  BY <1>2, <1>3, <1>4, SafeTypes DEF HasObject
<1>5. SafeFiles'
  BY <1>1, <1>4, KeyOfObject, SafeTypes DEF SafeInv, SafeFiles
<1>6. bk.step \in {"object", "record"} /\ Copied => HasObject(Key(Path, File), File)'
  <2> SUFFICES ASSUME bk.step \in {"object", "record"}, Copied
               PROVE  HasObject(Key(Path, File), File)'
    OBVIOUS
  <2>1. PICK p \in Paths, f \in Contents :
          p = Path /\ f = File /\ Key(p, f) \in Keys /\ Key(p, f)[1] = f
    BY FileAtHand DEF Storing, Key
  <2>2. HasObject(Key(p, f), f)
    BY <2>1 DEF SafeInv
  <2>3. p = Path' /\ f = File' /\ Key(p, f)' = Key(p, f)
    BY <1>1, <2>1 DEF Path, File, Key
  <2>4. HasObject(Key(p, f), f)'
    BY <1>4, <2>1, <2>2, <2>3
  <2> QED
    BY <2>1, <2>3, <2>4
<1> QED
  BY <1>1, <1>5, <1>6 DEF SafeInv, Copied, File, Path, Key

LEMMA NextSafe ==
  ASSUME Sound, Grounded, Progress, SafeInv, [Next]_vars PROVE SafeInv'
<1>t. faults \in Nat /\ BackupTyped
  BY SafeTypes
<1>1. CASE UNCHANGED vars \/ RunRestore \/ Command
  <2>1. UNCHANGED <<bk, row, stored, object, safe, faults>>
    BY <1>1 DEF vars, files, tables, environment, history, RunRestore, CheckRestore, RestoreFile,
       EndRestoreFile, VerifyRestoredFile, AtRestore, Command
  <2> QED
    BY <1>t, <2>1, SafeFrame
<1>2. ASSUME NEW s \in Sources, NEW b \in Backends, StartBackup(s, b) PROVE SafeInv'
  <2>1. bk'.step = "open"
    BY <1>2 DEF StartBackup, NoBackup
  <2> QED
    BY <1>2, <1>t, <2>1, SafeFrame DEF StartBackup, AtBackup, files, environment, history
<1>3. CASE OpenSource \/ EndScan \/ VerifyFile \/ UpsertDeviceFile \/ CompleteBackup
  <2>1. UNCHANGED <<row, stored, object, safe, faults>>
    BY <1>3 DEF OpenSource, EndScan, VerifyFile, UpsertDeviceFile, CompleteBackup, AtBackup,
       files, environment, history
  <2>2. bk'.step \in {"idle", "scan", "verify", "store", "end"}
    <3>1. EndBackup("failed") \/ EndBackup("completed") => bk'.step = "idle"
      BY DEF EndBackup, NoBackup
    <3>2. CASE OpenSource \/ EndScan
      BY <1>t, <3>1, <3>2 DEF OpenSource, EndScan, BackupTyped
    <3>3. CASE VerifyFile \/ CompleteBackup
      BY <1>t, <3>1, <3>3 DEF VerifyFile, CompleteBackup, BackupTyped
    <3>4. CASE UpsertDeviceFile
      BY <1>t, <3>4 DEF UpsertDeviceFile, BackupTyped
    <3> QED
      BY <1>3, <3>2, <3>3, <3>4
  <2> QED
    BY <1>t, <2>1, <2>2, SafeFrame
<1>4. CASE Environment
  <2>1. CASE \E k \in Keys : LoseObject(k) \/ PutObjectBack(k)
    BY <2>1, LossSafe
  <2>2. CASE ~ \E k \in Keys : LoseObject(k) \/ PutObjectBack(k)
    <3>1. UNCHANGED <<row, stored, object, safe>> /\ faults' \in {faults, faults + 1}
      BY <1>4, <2>2 DEF Environment, Tick, Edit, KillBackup, KillRestore, StoreFails, RestoreFails,
         Fault, tables, files, history
    <3>2. UNCHANGED bk \/ bk'.step = "idle"
      BY <1>4, <2>2 DEF Environment, Tick, Edit, KillBackup, KillRestore, StoreFails, RestoreFails,
         EndBackup, NoBackup, tables
    <3> QED
      BY <1>t, <3>1, <3>2, SafeFrame
  <2> QED
    BY <2>1, <2>2
<1> QED
  BY <1>1, <1>2, <1>3, <1>4, ScanSafe, StoreSafe, RecordSafe
     DEF Next, Environment, ExecuteBackup, RunRestoreSubmit, RunRestoreRun, RetryRestore,
         ExecuteLatestRestore

\* A recorded file can be restored, or its object was lost, until another
\* version replaces its row or the file is stored again: with processes killed
\* anywhere, full disks, edits, equal files and overlapping commands.
THEOREM RecordedStaysRestorable == Spec => []RecordedIsRestorable
<1> DEFINE Before == Sound /\ Grounded /\ Progress
<1>1. Init => SafeInv
  BY DEF Init, SafeInv, SafeFiles, NoBackup
<1>2. Before /\ SafeInv /\ [Next]_vars => SafeInv'
  BY NextSafe
<1>3. Before /\ SafeInv => RecordedIsRestorable
  <2> SUFFICES ASSUME Before, SafeInv, NEW f \in safe
               PROVE  Restorable(f) \/ (row[f] # None /\ Lost(f))
    BY DEF RecordedIsRestorable
  <2>1. /\ f \in Contents /\ row[f] # None /\ stored[f].backend = "mirror"
        /\ HasObject(stored[f].key, f) /\ stored[f] # NoObject
    BY SafeTypes DEF SafeInv, SafeFiles, NoObject
  <2>2. ~(bk.step = "copy" /\ Key(Path, File) = stored[f].key)
    BY <2>1, KeyOfObject DEF SafeInv, Key
  <2>3. Readable(stored[f]) = {object[stored[f].key]}
    BY <2>1, <2>2 DEF Readable
  <2> QED
    BY <2>1, <2>3 DEF HasObject, Restorable, Lost
<1>4. Spec => []Before
  BY AlwaysGrounded
<1> QED
  BY <1>1, <1>2, <1>3, <1>4, PTL DEF Spec
=============================================================================
