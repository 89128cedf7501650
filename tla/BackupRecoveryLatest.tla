------------------------ MODULE BackupRecoveryLatest ------------------------
(***************************************************************************)
(* Proofs about backup and recovery where commands do not overlap and a    *)
(* second passes between backups (Orderly): what restore-latest finds is   *)
(* what was backed up last.                                                *)
(***************************************************************************)
EXTENDS BackupRecoveryProofs

\* Every path is backed up under one name only: a file in a subdirectory is
\* always given by itself, or always with the directory.
OneName == \A s, u \in Sources : \A p \in s.paths \cap u.paths \cap Nested : s.single = u.single

NameIn(s, p) == <<p, s.single /\ p \in Nested>>

\* Files of the backup that runs: those it has recorded.
Visited == IF bk.step \in {"device", "end"} THEN 1 .. bk.i ELSE 1 .. bk.i - 1

\* The shape of a backup that runs; it visits every path once.
Shaped ==
  /\ bk.step = "idle" => bk.found = <<>> /\ bk.list = {}
  /\ bk.step \in {"open", "scan"} => bk.i = 0
  /\ bk.step = "open" => bk.found = <<>>
  /\ bk.step # "idle" =>
       \E s \in Sources : /\ s.single = bk.single /\ bk.list \subseteq s.paths
                          /\ \A j \in DOMAIN bk.found : bk.found[j][1] \in s.paths
  /\ \A j \in DOMAIN bk.found : bk.found[j][1] \notin bk.list
  /\ \A j, k \in DOMAIN bk.found : bk.found[j][1] = bk.found[k][1] => j = k

\* What it records is later than all that was there when it began.
Timed ==
  /\ bk.step # "idle" => bk.job <= clock
  /\ bk.step \in {"object", "record"} => bk.job <= bk.at
  /\ bk.step # "idle" =>
       \A r \in DOMAIN record :
         \/ record[r] = NoRecord
         \/ record[r].at < bk.job
         \/ \E j \in Visited : bk.found[j][1] = r[1]

Named == \A r \in DOMAIN record :
           \/ record[r] = NoRecord
           \/ \E s \in Sources : r[1] \in s.paths /\ record[r].name = NameIn(s, r[1])

\* The version that was backed up last has a later record than any other.
Ordered ==
  \A n \in Names :
    /\ newest[n] # None => <<n[1], newest[n]>> \in RecordsOf(n)
    /\ \A r \in RecordsOf(n) :
         /\ newest[n] # None
         /\ r[2] # newest[n] => record[r].at < record[<<n[1], newest[n]>>].at

LatestInv == Shaped /\ Timed /\ Named /\ Ordered

\* The fields of the backup that runs, and the tables.
LEMMA BackupFields ==
  ASSUME Sound
  PROVE  /\ BackupTyped /\ bk.found \in Seq(Paths \X Contents) /\ bk.i \in Nat
         /\ bk.job \in Nat /\ bk.at \in Nat /\ clock \in Nat
         /\ record \in [Paths \X Contents -> [name : Names \cup {None}, at : Nat]]
         /\ newest \in [Names -> Contents \cup {None}]
         /\ DOMAIN record = Paths \X Contents
         /\ \A j \in DOMAIN bk.found : bk.found[j] \in Paths \X Contents
<1>1. /\ BackupTyped /\ clock \in 0 .. MaxClock
      /\ record \in [Paths \X Contents -> [name : Names \cup {None}, at : Nat]]
      /\ newest \in [Names -> Contents \cup {None}]
  BY DEF Sound, TypeOK, TablesTyped, EnvironmentTyped
<1>2. /\ bk.found \in Seq(Paths \X Contents) /\ bk.i \in Nat /\ bk.job \in 0 .. MaxClock
      /\ bk.at \in Nat
  BY <1>1 DEF BackupTyped
<1> QED
  BY <1>1, <1>2, LimitsAssumption

\* Records that have a name are records.
LEMMA RecordsAreRecords ==
  ASSUME Sound, NEW n \in Names, NEW r \in RecordsOf(n)
  PROVE  r \in Paths \X Contents /\ record[r] # NoRecord /\ record[r].name = n
BY BackupFields, ContentsAssumption DEF RecordsOf, NoRecord

-----------------------------------------------------------------------------
(***************************************************************************)
(* What restore-latest finds.                                              *)
(***************************************************************************)
\* A step that leaves the backup and the history alone.
LEMMA LatestKept ==
  ASSUME Sound, LatestInv, UNCHANGED <<bk, record, newest>>, clock' \in Nat, clock <= clock'
  PROVE  LatestInv'
<1>1. Shaped' /\ Named'
  BY DEF LatestInv, Shaped, Named
<1>2. Timed'
  BY BackupFields DEF LatestInv, Timed, Visited
<1>3. Ordered'
  BY DEF LatestInv, Ordered, RecordsOf
<1> QED
  BY <1>1, <1>2, <1>3 DEF LatestInv

\* A backup that ends.
LEMMA LatestEnded ==
  ASSUME Sound, LatestInv, bk' = NoBackup, UNCHANGED <<record, newest>>
  PROVE  LatestInv'
<1>1. bk'.step = "idle" /\ bk'.found = <<>> /\ bk'.list = {}
  BY DEF NoBackup
<1>2. Shaped' /\ Timed'
  BY <1>1 DEF Shaped, Timed
<1>3. Named' /\ Ordered'
  BY DEF LatestInv, Named, Ordered, RecordsOf
<1> QED
  BY <1>2, <1>3 DEF LatestInv

\* A backup that begins, a second after the last record.
LEMMA LatestStarted ==
  ASSUME Orderly, Sound, LatestInv, NEW s \in Sources, NEW b \in Backends, StartBackup(s, b)
  PROVE  LatestInv'
<1>1. /\ bk'.step = "open" /\ bk'.found = <<>> /\ bk'.i = 0 /\ bk'.list = s.paths
      /\ bk'.single = s.single /\ bk'.job = clock
  BY DEF StartBackup, NoBackup
<1>2. UNCHANGED <<record, newest, clock>>
  BY DEF history, StartBackup, AtBackup, environment
<1>3. \A r \in DOMAIN record : record[r] = NoRecord \/ record[r].at < clock
  BY DEF StartBackup
<1>4. Shaped'
  BY <1>1 DEF Shaped
<1>5. Timed'
  BY <1>1, <1>2, <1>3, BackupFields DEF Timed
<1>6. Named' /\ Ordered'
  BY <1>2 DEF LatestInv, Named, Ordered, RecordsOf
<1> QED
  BY <1>4, <1>5, <1>6 DEF LatestInv

\* A backup that lists its source or scans a file.
LEMMA LatestScanned ==
  ASSUME Sound, LatestInv,
         \/ OpenSource /\ bk' # NoBackup
         \/ \E p \in Paths : ScanFile(p) /\ bk' # NoBackup
  PROVE  LatestInv'
<1>0. BackupTyped /\ bk.found \in Seq(Paths \X Contents) /\ bk.step \in {"open", "scan"}
  BY BackupFields DEF OpenSource, ScanFile, AtBackup
<1>1. /\ bk'.step = "scan" /\ bk'.i = bk.i /\ bk'.single = bk.single /\ bk'.job = bk.job
      /\ bk'.list \subseteq bk.list /\ UNCHANGED <<record, newest, clock>>
  <2>1. UNCHANGED <<record, newest, clock>>
    BY DEF history, OpenSource, ScanFile, AtBackup, environment
  <2>2. CASE OpenSource /\ bk' # NoBackup
    <3>1. bk' = [bk EXCEPT !.step = "scan", !.list = {p \in bk.list : disk[p] # Missing}]
      BY <2>2 DEF OpenSource, EndBackup
    <3> QED
      BY <1>0, <2>1, <3>1 DEF BackupTyped
  <2>3. CASE \E p \in Paths : ScanFile(p) /\ bk' # NoBackup
    <3>1. PICK p \in Paths :
            bk' = [bk EXCEPT !.list = bk.list \ {p}, !.found = Append(bk.found, <<p, disk[p]>>)]
      BY <2>3 DEF ScanFile, EndBackup
    <3>2. bk.step = "scan"
      BY <2>3 DEF ScanFile, AtBackup
    <3> QED
      BY <1>0, <2>1, <3>1, <3>2 DEF BackupTyped
  <2> QED
    BY <2>2, <2>3
<1>2. \/ bk'.found = bk.found
      \/ \E p \in bk.list : bk'.list = bk.list \ {p} /\ bk'.found = Append(bk.found, <<p, disk[p]>>)
  BY <1>0 DEF OpenSource, ScanFile, AtBackup, EndBackup, BackupTyped
<1>3. PICK s \in Sources : /\ s.single = bk.single /\ bk.list \subseteq s.paths
                           /\ \A j \in DOMAIN bk.found : bk.found[j][1] \in s.paths
  BY <1>0 DEF LatestInv, Shaped
<1>4. Shaped'
  <2>1. CASE bk'.found = bk.found
    BY <1>0, <1>1, <1>3, <2>1 DEF LatestInv, Shaped
  <2>2. ASSUME NEW p \in bk.list, bk'.list = bk.list \ {p},
               bk'.found = Append(bk.found, <<p, disk[p]>>)
        PROVE  Shaped'
    <3>1. /\ DOMAIN bk'.found = DOMAIN bk.found \cup {Len(bk.found) + 1}
          /\ Len(bk.found) + 1 \notin DOMAIN bk.found
          /\ \A j \in DOMAIN bk.found : bk'.found[j] = bk.found[j]
          /\ bk'.found[Len(bk.found) + 1] = <<p, disk[p]>>
      BY <1>0, <2>2
    <3>2. \A j \in DOMAIN bk'.found : bk'.found[j][1] \in s.paths /\ bk'.found[j][1] \notin bk'.list
      BY <1>3, <2>2, <3>1 DEF LatestInv, Shaped
    <3>3. \A j, k \in DOMAIN bk'.found : bk'.found[j][1] = bk'.found[k][1] => j = k
      BY <2>2, <3>1 DEF LatestInv, Shaped
    <3> QED
      BY <1>0, <1>1, <1>3, <3>2, <3>3 DEF LatestInv, Shaped
  <2> QED
    BY <1>2, <2>1, <2>2
<1>5. Timed'
  <2>1. bk.i = 0
    BY <1>0 DEF LatestInv, Shaped
  <2>2. Visited = {} /\ Visited' = {}
    BY <1>0, <1>1, <2>1 DEF Visited
  <2> QED
    BY <1>0, <1>1, <2>2 DEF LatestInv, Timed
<1>6. Named' /\ Ordered'
  BY <1>1 DEF LatestInv, Named, Ordered, RecordsOf
<1> QED
  BY <1>4, <1>5, <1>6 DEF LatestInv

\* A step of a backup from file to file, or from step to step with a file.
LEMMA LatestMoved ==
  ASSUME Sound, LatestInv, bk.step # "idle", bk'.step \in Storing,
         UNCHANGED <<record, newest, clock>>,
         bk'.found = bk.found, bk'.list = bk.list, bk'.single = bk.single, bk'.job = bk.job,
         bk'.step \in {"object", "record"} => bk.job <= bk'.at,
         Visited' = Visited
  PROVE  LatestInv'
<1>1. Shaped'
  BY DEF LatestInv, Shaped, Storing
<1>2. Timed'
  BY DEF LatestInv, Timed, Storing
<1>3. Named' /\ Ordered'
  BY DEF LatestInv, Named, Ordered, RecordsOf
<1> QED
  BY <1>1, <1>2, <1>3 DEF LatestInv

\* The names of a path agree.
LEMMA SameName ==
  ASSUME OneName, NEW s \in Sources, NEW u \in Sources, NEW p \in s.paths \cap u.paths
  PROVE  NameIn(s, p) = NameIn(u, p)
<1>1. s.single \in BOOLEAN /\ u.single \in BOOLEAN
  BY SourcesAssumption
<1>2. p \in Nested => s.single = u.single
  BY DEF OneName
<1> QED
  BY <1>1, <1>2 DEF NameIn

\* The name of a record names its path.
LEMMA NameOfRecord ==
  ASSUME Sound, Named, NEW n \in Names, NEW r \in RecordsOf(n)
  PROVE  r[1] = n[1] /\ \E s \in Sources : r[1] \in s.paths /\ n = NameIn(s, r[1])
BY RecordsAreRecords, BackupFields DEF Named, NameIn

\* A backup records a file: later than the other records of its path.
LEMMA LatestRecorded ==
  ASSUME OneName, Sound, LatestInv, UpsertBackupRecord
  PROVE  LatestInv'
<1>0. BackupTyped /\ bk.step = "record" /\ bk.i \in 1 .. Len(bk.found)
  BY BackupFields DEF UpsertBackupRecord, AtBackup, Sound, WellFormed, BackupFormed, Storing
<1>1. /\ bk'.step = "device" /\ bk'.i = bk.i /\ bk'.found = bk.found /\ bk'.list = bk.list
      /\ bk'.single = bk.single /\ bk'.job = bk.job /\ UNCHANGED clock
  BY <1>0 DEF UpsertBackupRecord, AtBackup, BackupTyped, environment
<1>2. PICK p \in Paths, f \in Contents, nm \in Names :
        p = Path /\ f = File /\ nm = RelativePath(p) /\ bk.found[bk.i] = <<p, f>>
  BY <1>0, FileAtHand DEF Storing
<1>3. PICK s \in Sources : /\ s.single = bk.single /\ p \in s.paths
                           /\ \A j \in DOMAIN bk.found : bk.found[j][1] \in s.paths
  BY <1>0, <1>2, BackupFields DEF LatestInv, Shaped
<1>4. nm = NameIn(s, p)
  BY <1>2, <1>3 DEF RelativePath, NameIn
<1>5. \A r \in Paths \X Contents :
        record'[r] = IF r = <<p, f>> THEN [name |-> nm, at |-> bk.at] ELSE record[r]
  BY <1>2, BackupFields DEF UpsertBackupRecord
<1>6. \A n \in Names : newest'[n] = IF n = nm THEN f ELSE newest[n]
  BY <1>2, BackupFields DEF UpsertBackupRecord, Recorded
<1>7. DOMAIN record = Paths \X Contents /\ DOMAIN record' = Paths \X Contents
  BY BackupFields DEF UpsertBackupRecord
<1>8. [name |-> nm, at |-> bk.at] # NoRecord
  BY <1>2, ContentsAssumption DEF NoRecord
<1>9. Shaped'
  BY <1>0, <1>1 DEF LatestInv, Shaped
<1>10. Named'
  BY <1>3, <1>4, <1>5, <1>7 DEF LatestInv, Named
<1>11. Visited = 1 .. bk.i - 1 /\ Visited' = 1 .. bk.i
  BY <1>0, <1>1 DEF Visited
<1>12. Timed'
  <2>1. bk.i \in Visited' /\ \A j \in Visited : j \in Visited'
    BY <1>0, <1>11
  <2>2. \A r \in Paths \X Contents :
          \/ record'[r] = NoRecord
          \/ record'[r].at < bk.job
          \/ \E j \in Visited' : bk'.found[j][1] = r[1]
    BY <1>0, <1>1, <1>2, <1>5, <1>7, <2>1 DEF LatestInv, Timed
  <2> QED
    BY <1>0, <1>1, <1>7, <2>2 DEF LatestInv, Timed
<1>13. \A r \in Paths \X Contents :
         r[1] = p /\ record[r] # NoRecord => record[r].at < bk.at /\ record[r].at \in Nat
  <2>1. \A j \in Visited : bk.found[j][1] # p
    <3>1. \A j, k \in DOMAIN bk.found : bk.found[j][1] = bk.found[k][1] => j = k
      BY DEF LatestInv, Shaped
    <3>2. bk.found[bk.i][1] = p /\ bk.i \in Nat /\ Len(bk.found) \in Nat
      BY <1>2, BackupFields
    <3>3. DOMAIN bk.found = 1 .. Len(bk.found)
      BY BackupFields
    <3>4. \A j \in Visited : j \in DOMAIN bk.found /\ j # bk.i
      BY <1>0, <1>11, <3>2, <3>3
    <3> QED
      BY <1>0, <3>1, <3>2, <3>3, <3>4
  <2>2. bk.job <= bk.at /\ bk.job \in Nat /\ bk.at \in Nat
    BY <1>0, BackupFields DEF LatestInv, Timed
  <2>3. \A r \in Paths \X Contents : record[r].at \in Nat
    BY BackupFields
  <2> QED
    BY <1>0, <1>7, <2>1, <2>2, <2>3 DEF LatestInv, Timed
<1>14. ASSUME NEW n \in Names, <<p, f>> \in RecordsOf(n) PROVE n = nm
  <2>1. PICK u \in Sources : p \in u.paths /\ n = NameIn(u, p)
    BY <1>14, NameOfRecord DEF LatestInv
  <2> QED
    BY <1>3, <1>4, <2>1, SameName
<1>15. ASSUME NEW n \in Names, n # nm PROVE RecordsOf(n)' = RecordsOf(n)
  BY <1>5, <1>7, <1>14, <1>15 DEF RecordsOf
<1>16. /\ \A r \in RecordsOf(nm)' : r = <<p, f>> \/ r \in RecordsOf(nm)
       /\ <<p, f>> \in RecordsOf(nm)'
  BY <1>2, <1>5, <1>7 DEF RecordsOf
<1>17. nm[1] = p
  BY <1>2 DEF RelativePath
<1>18. Ordered'
  <2> SUFFICES ASSUME NEW n \in Names
               PROVE  /\ newest'[n] # None => <<n[1], newest'[n]>> \in RecordsOf(n)'
                      /\ \A r \in RecordsOf(n)' :
                           /\ newest'[n] # None
                           /\ r[2] # newest'[n] =>
                                record'[r].at < record'[<<n[1], newest'[n]>>].at
    BY DEF Ordered
  <2>1. CASE n = nm
    <3>1. newest'[n] = f /\ f # None
      BY <1>2, <1>6, <2>1, ContentsAssumption
    <3>2. record'[<<p, f>>].at = bk.at
      BY <1>2, <1>5
    <3>3. ASSUME NEW r \in RecordsOf(nm), r # <<p, f>>
          PROVE  record'[r].at < bk.at
      <4>1. r \in Paths \X Contents /\ record[r] # NoRecord /\ r[1] = p
        BY <1>2, <1>17, RecordsAreRecords, NameOfRecord DEF LatestInv
      <4> QED
        BY <1>5, <1>13, <3>3, <4>1
    <3> QED
      BY <1>16, <1>17, <2>1, <3>1, <3>2, <3>3
  <2>2. CASE n # nm
    <3>1. newest'[n] = newest[n] /\ RecordsOf(n)' = RecordsOf(n)
      BY <1>6, <1>15, <2>2
    <3>2. \A r \in RecordsOf(n) : record'[r] = record[r]
      BY <1>5, <1>14, <2>2, RecordsAreRecords
    <3> QED
      BY <3>1, <3>2 DEF LatestInv, Ordered
  <2> QED
    BY <2>1, <2>2
<1> QED
  BY <1>9, <1>10, <1>12, <1>18 DEF LatestInv

\* Every step of a backup.
LEMMA ExecuteBackupLatest ==
  ASSUME OneName, Sound, LatestInv, ExecuteBackup
  PROVE  LatestInv'
<1>0. BackupTyped /\ bk.i \in Nat /\ bk.job \in Nat /\ clock \in Nat
  BY BackupFields
<1>1. CASE bk' = NoBackup
  <2>1. UNCHANGED <<record, newest>>
    BY <1>0, <1>1 DEF history, ExecuteBackup, OpenSource, ScanFile, EndScan, VerifyFile, StoreFile, EndCopy,
       UpsertStoredObject, UpsertBackupRecord, UpsertDeviceFile, CompleteBackup, NoBackup,
       BackupTyped, AtBackup
  <2> QED
    BY <1>1, <2>1, LatestEnded
<1>2. CASE bk' # NoBackup
  <2>1. CASE OpenSource \/ \E p \in Paths : ScanFile(p)
    BY <1>2, <2>1, LatestScanned
  <2>2. CASE EndScan
    <3>1. /\ bk.step = "scan" /\ bk'.step = "verify" /\ bk'.i = 1 /\ bk'.found = bk.found
          /\ bk'.list = bk.list /\ bk'.single = bk.single /\ bk'.job = bk.job
          /\ UNCHANGED <<record, newest, clock>>
      BY <1>0, <1>2, <2>2 DEF history, EndScan, EndBackup, AtBackup, BackupTyped, environment
    <3>2. Visited = {} /\ Visited' = {}
      BY <3>1 DEF LatestInv, Shaped, Visited
    <3> QED
      BY <3>1, <3>2, LatestMoved DEF Storing
  <2>3. CASE VerifyFile \/ StoreFile \/ EndCopy \/ UpsertStoredObject
    <3>1. /\ bk.step \in {"verify", "store", "copy", "object"} /\ bk'.i = bk.i
          /\ bk'.step \in {"store", "copy", "object", "record"}
          /\ bk'.found = bk.found /\ bk'.list = bk.list /\ bk'.single = bk.single
          /\ bk'.job = bk.job /\ UNCHANGED <<record, newest, clock>>
      BY <1>0, <1>2, <2>3 DEF history, VerifyFile, StoreFile, EndCopy, UpsertStoredObject, EndBackup,
         AtBackup, BackupTyped, environment
    <3>2. \/ bk'.step = "object" /\ bk'.at = clock
          \/ bk'.step = "record" /\ bk.step = "object" /\ bk'.at = bk.at
          \/ bk'.step \notin {"object", "record"}
      BY <1>0, <1>2, <2>3 DEF VerifyFile, StoreFile, EndCopy, UpsertStoredObject, EndBackup,
         AtBackup, BackupTyped
    <3>3. bk'.step \in {"object", "record"} => bk.job <= bk'.at
      BY <3>1, <3>2 DEF LatestInv, Timed
    <3>4. Visited' = Visited
      BY <3>1 DEF Visited
    <3> QED
      BY <3>1, <3>3, <3>4, LatestMoved DEF Storing
  <2>4. CASE UpsertBackupRecord
    BY <2>4, LatestRecorded
  <2>5. CASE UpsertDeviceFile
    <3>1. /\ bk.step = "device" /\ bk'.step \in {"verify", "end"} /\ bk'.found = bk.found
          /\ bk'.list = bk.list /\ bk'.single = bk.single /\ bk'.job = bk.job
          /\ bk'.i = IF bk'.step = "verify" THEN bk.i + 1 ELSE bk.i
          /\ UNCHANGED <<record, newest, clock>>
      BY <1>0, <2>5 DEF history, UpsertDeviceFile, AtBackup, BackupTyped, environment
    <3>2. Visited' = Visited
      BY <1>0, <3>1 DEF Visited
    <3> QED
      BY <3>1, <3>2, LatestMoved DEF Storing
  <2>6. CASE CompleteBackup
    BY <1>2, <2>6 DEF CompleteBackup, EndBackup
  <2> QED
    BY <2>1, <2>2, <2>3, <2>4, <2>5, <2>6 DEF ExecuteBackup
<1> QED
  BY <1>1, <1>2

\* Every step of the system.
LEMMA NextLatest ==
  ASSUME OneName, Orderly, Sound, LatestInv, [Next]_vars
  PROVE  LatestInv'
<1>0. clock \in Nat
  BY BackupFields
<1>1. CASE UNCHANGED <<bk, record, newest>> /\ (UNCHANGED clock \/ clock' = clock + 1)
  BY <1>0, <1>1, LatestKept
<1>2. CASE RunRestore \/ Command
  BY <1>1, <1>2 DEF history, RunRestore, CheckRestore, RestoreFile, EndRestoreFile, VerifyRestoredFile,
     AtRestore, environment, Command
<1>3. CASE Environment
  <2>1. CASE KillBackup \/ StoreFails
    BY <2>1, LatestEnded DEF history, KillBackup, StoreFails, Fault, EndBackup
  <2>2. CASE ~(KillBackup \/ StoreFails)
    BY <1>1, <1>3, <2>2 DEF history, Environment, Tick, Edit, KillRestore, RestoreFails, LoseObject,
       PutObjectBack, Fault, tables, environment
  <2> QED
    BY <2>1, <2>2
<1>4. CASE UNCHANGED vars
  BY <1>1, <1>4 DEF history, vars, tables, environment
<1> QED
  BY <1>2, <1>3, <1>4, LatestStarted, ExecuteBackupLatest
  DEF Next, Environment, RunRestoreSubmit, RunRestoreRun, RetryRestore, ExecuteLatestRestore

\* The invariant, on top of those of BackupRecoveryProofs.
LEMMA AlwaysLatest ==
  ASSUME OneName, Orderly
  PROVE  Spec => [](Sound /\ Grounded /\ Progress /\ LatestInv)
<1>1. Init => LatestInv
  <2> SUFFICES ASSUME Init PROVE LatestInv
    OBVIOUS
  <2>1. bk.step = "idle" /\ bk.found = <<>> /\ bk.list = {}
    BY DEF Init, NoBackup
  <2>2. \A r \in DOMAIN record : record[r] = NoRecord
    BY DEF Init
  <2>3. \A n \in Names : newest[n] = None /\ RecordsOf(n) = {}
    BY <2>2, ContentsAssumption DEF Init, RecordsOf, NoRecord
  <2> QED
    BY <2>1, <2>2, <2>3 DEF LatestInv, Shaped, Timed, Named, Ordered
<1>2. Sound /\ LatestInv /\ [Next]_vars => LatestInv'
  BY NextLatest
<1> QED
  BY <1>1, <1>2, AlwaysGrounded, PTL DEF Spec

\* What restore-latest finds is what was backed up last, if every path is
\* backed up under one name and a second passes between backups: also when
\* backups fail or are killed, and when an old version comes back, whose
\* record is then replaced.
THEOREM LatestFound ==
  ASSUME OneName, Orderly
  PROVE  Spec => []LatestIsNewest
<1>1. Sound /\ LatestInv => LatestIsNewest
  <2> SUFFICES ASSUME Sound, LatestInv, NEW n \in Names, NEW r \in FindLatestBackupRecord(n)
               PROVE  r[2] = newest[n]
    BY DEF LatestIsNewest
  <2>1. r \in RecordsOf(n) /\ newest[n] # None /\ <<n[1], newest[n]>> \in RecordsOf(n)
    BY DEF FindLatestBackupRecord, LatestInv, Ordered
  <2>2. record[<<n[1], newest[n]>>].at <= record[r].at
    BY <2>1 DEF FindLatestBackupRecord
  <2>3. record[<<n[1], newest[n]>>].at \in Nat /\ record[r].at \in Nat
    BY <2>1, RecordsAreRecords, BackupFields
  <2> QED
    BY <2>1, <2>2, <2>3 DEF LatestInv, Ordered
<1> QED
  BY <1>1, AlwaysLatest, PTL
=============================================================================
