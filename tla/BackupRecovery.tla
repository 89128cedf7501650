--------------------------- MODULE BackupRecovery ---------------------------
(***************************************************************************)
(* Backup and recovery on one device: backup-run, restore-submit,          *)
(* restore-run, restore-retry and restore-latest of netdisk_cli, over one  *)
(* metadata database and the storage backends.                             *)
(*                                                                         *)
(* Every command is a process of its own.  It reads and writes the         *)
(* database and the files in several steps, and can be killed between any  *)
(* two of them; meanwhile the user edits the files.  At most one backup    *)
(* and at most one restore run at a time.  The writes with which a command *)
(* begins, and those with which it ends, are one step each.                *)
(*                                                                         *)
(* A file is identified by the hash of its content: contents and file ids  *)
(* are the same set.                                                       *)
(***************************************************************************)
EXTENDS Naturals, Sequences

CONSTANTS
  Paths,       \* absolute paths of the files that are backed up
  Contents,    \* contents, and hence file ids
  Versions,    \* Versions[p]: the contents that path p can have
  Extension,   \* Extension[p]: the extension of path p
  Nested,      \* paths below a subdirectory of the directory
  Sources,     \* what backup-run is given: [single, paths]
  Backends,    \* backends that it is given
  Targets,     \* destinations of restores; none of them is backed up
  UserIds,     \* ids that restore-submit is given
  Missing, Torn, None, \* no file, a partly written file, no row
  Orderly,     \* commands do not overlap, files rest while they run, and a
               \* backup begins in a later second than the last one ended
  Faults,      \* what can go wrong: "crash", "full", "loss"
  MaxClock, MaxEdits, MaxRestores, MaxFaults  \* bounds

Extensions == {Extension[p] : p \in Paths}
Keys == Contents \X Extensions

\* The relative path of a file is its path below the directory or, when it is
\* the argument itself, its name.  They differ if it is in a subdirectory.
Names == Paths \X BOOLEAN

\* restore-latest names its request after the file.
RequestIds == UserIds \cup Contents

ASSUME ContentsAssumption == /\ Missing \notin Contents /\ Torn \notin Contents
                             /\ None \notin Contents \cup Paths \cup Keys \cup Names
                             /\ Missing # Torn
ASSUME FilesAssumption == /\ \A p \in Paths : Versions[p] \subseteq Contents
                          /\ Nested \subseteq Paths /\ Targets \cap Paths = {}
ASSUME SourcesAssumption == \A s \in Sources : /\ s.single \in BOOLEAN
                                               /\ s.paths \subseteq Paths
ASSUME ChoicesAssumption == /\ Backends \subseteq {"mirror", "none"}
                            /\ Orderly \in BOOLEAN
                            /\ Faults \subseteq {"crash", "full", "loss"}
ASSUME IdsAssumption == UserIds \cap Contents = {}
ASSUME LimitsAssumption == /\ MaxClock \in Nat /\ MaxEdits \in Nat
                           /\ MaxRestores \in Nat /\ MaxFaults \in Nat

VARIABLES
  \* Files.
  disk,       \* contents of the paths
  target,     \* contents of the destinations
  object,     \* contents of the objects below the root of the mirror
  \* Tables of the database.
  row,        \* file_records: the path of each file id
  stored,     \* stored_objects
  record,     \* backup_records, by path and file id
  holder,     \* device_file_records: the file id of each path and target
  job,        \* state of the scheduled task of each backup
  task,       \* state of the scheduled task of each restore request
  request,    \* restore_requests
  \* Processes.
  bk, rs,
  \* Environment, and what only the properties look at.
  clock, edits, restores, faults,
  newest,     \* the version last backed up under each name
  safe        \* the files recorded in a mirror, from the bytes verified, and
              \* since then neither superseded at their path nor stored again

files == <<disk, target, object>>
tables == <<row, stored, record, holder, job, task, request>>
environment == <<clock, edits, restores, faults>>
history == <<newest, safe>>
vars == <<files, tables, bk, rs, environment, history>>

NoObject == [backend |-> "none", key |-> None, source |-> None]
NoRecord == [name |-> None, at |-> 0]
NoRequest == [state |-> "none", file |-> None, target |-> None]
NoBackup == [step |-> "idle", single |-> FALSE, backend |-> "none", job |-> 0,
             list |-> {}, found |-> <<>>, i |-> 0, read |-> None, at |-> 0]
NoRestore == [step |-> "idle", id |-> None, object |-> NoObject, read |-> None]

Init ==
  /\ disk \in {d \in [Paths -> Contents \cup {Missing}] :
                 \A p \in Paths : d[p] \in Versions[p] \cup {Missing}}
  /\ target = [t \in Targets |-> Missing]
  /\ object = [k \in Keys |-> Missing]
  /\ row = [f \in Contents |-> None]
  /\ stored = [f \in Contents |-> NoObject]
  /\ record = [r \in Paths \X Contents |-> NoRecord]
  /\ holder = [p \in Paths \cup Targets |-> None]
  /\ job = [s \in 0 .. MaxClock |-> "none"]
  /\ task = [r \in RequestIds |-> "none"]
  /\ request = [r \in RequestIds |-> NoRequest]
  /\ bk = NoBackup /\ rs = NoRestore
  /\ clock = 0 /\ edits = 0 /\ restores = 0 /\ faults = 0
  /\ newest = [n \in Names |-> None] /\ safe = {}

-----------------------------------------------------------------------------
(***************************************************************************)
(* The metadata store.                                                     *)
(***************************************************************************)
\* Mutant: a row for the same content is left where it is.
KeepOtherPath(p, f) ==
  row' = [g \in Contents |-> CASE g = f /\ row[f] = None -> p
                               [] g # f /\ row[g] = p -> None
                               [] OTHER -> row[g]]

\* Mutant: the row of the old version is removed last.
DeleteAfterInsert(p, f) ==
  row' = [g \in Contents |-> IF \E h \in Contents \ {f} : row[h] = p
                              THEN IF row[g] = p THEN None ELSE row[g]
                              ELSE IF g = f THEN p ELSE row[g]]

\* The path stands for the file: the row of another version at this path is
\* removed.  A row for the same content at another path is redirected.
UpsertFile(p, f) ==
  row' = [g \in Contents |-> CASE g = f -> p
                               [] g # f /\ row[g] = p -> None
                               [] OTHER -> row[g]]

RecordsOf(name) == {r \in DOMAIN record : record[r].name = name}
\* Mutant: the search keeps the first record.
FirstBackupRecord(name) ==
  {r \in RecordsOf(name) : \A q \in RecordsOf(name) : record[r].at <= record[q].at}

\* ListBackupRecords orders by the time of the backup, in seconds, and the
\* search keeps the first of the records with the latest time.  The order of
\* records with the same time is unspecified.
FindLatestBackupRecord(name) ==
  {r \in RecordsOf(name) : \A q \in RecordsOf(name) : record[q].at <= record[r].at}

-----------------------------------------------------------------------------
(***************************************************************************)
(* backup-run.                                                             *)
(***************************************************************************)
RelativePath(p) == <<p, bk.single /\ p \in Nested>>
Key(p, f) == <<f, Extension[p]>>

Quiet == bk.step = "idle" /\ rs.step = "idle"

\* UpdateTaskState, and the end of the process.
EndBackup(state) ==
  /\ job' = [job EXCEPT ![bk.job] = state]
  /\ bk' = NoBackup

AtBackup(step) == bk.step = step /\ UNCHANGED <<target, task, request, environment>>

\* ConfigurePolicy and StartBackup.  The id of the job is the current second,
\* and a task with this id is replaced.
StartBackup(source, backend) ==
  /\ AtBackup("idle")
  /\ Orderly => /\ Quiet
                /\ \A r \in DOMAIN record : record[r] = NoRecord \/ record[r].at < clock
  /\ job' = [job EXCEPT ![clock] = "queued"]
  /\ bk' = [NoBackup EXCEPT !.step = "open", !.single = source.single,
                            !.backend = backend, !.job = clock, !.list = source.paths]
  /\ UNCHANGED <<files, row, stored, record, holder, rs, history>>

\* The directory exists; a single file may not.
OpenSource ==
  /\ AtBackup("open")
  /\ LET found == {p \in bk.list : disk[p] # Missing} IN
     IF bk.single /\ found = {}
       THEN EndBackup("failed")
       ELSE /\ job' = [job EXCEPT ![bk.job] = "running"]
            /\ bk' = [bk EXCEPT !.step = "scan", !.list = found]
  /\ UNCHANGED <<files, row, stored, record, holder, rs, history>>

\* One file of BuildBackupFiles.  A file that was listed and is gone throws.
ScanFile(p) ==
  /\ AtBackup("scan") /\ p \in bk.list
  /\ IF disk[p] = Missing
       THEN EndBackup("failed") /\ UNCHANGED <<row, safe>>
       ELSE /\ UpsertFile(p, disk[p])
            /\ safe' = safe \ {f \in Contents \ {disk[p]} : row[f] = p}
            /\ bk' = [bk EXCEPT !.list = bk.list \ {p},
                                !.found = Append(bk.found, <<p, disk[p]>>)]
            /\ UNCHANGED job
  /\ UNCHANGED <<files, stored, record, holder, rs, newest>>

EndScan ==
  /\ AtBackup("scan") /\ bk.list = {}
  /\ IF bk.found = <<>>
       THEN EndBackup("failed")
       ELSE bk' = [bk EXCEPT !.step = "verify", !.i = 1] /\ UNCHANGED job
  /\ UNCHANGED <<files, row, stored, record, holder, rs, history>>

Path == bk.found[bk.i][1]
File == bk.found[bk.i][2]

\* IntegrityChecker: the file still has the size and the hash it was scanned
\* with.
VerifyFile ==
  /\ AtBackup("verify")
  /\ IF disk[Path] = File
       THEN bk' = [bk EXCEPT !.step = "store"] /\ UNCHANGED job
       ELSE EndBackup("failed")
  /\ UNCHANGED <<files, row, stored, record, holder, rs, history>>

\* Mutant: a file that is gone is stored all the same.
StoreUnchecked ==
  /\ AtBackup("store") /\ bk.backend = "mirror"
  /\ object' = [object EXCEPT ![Key(Path, File)] = Torn]
  /\ bk' = [bk EXCEPT !.step = "copy", !.read = disk[Path]]
  /\ UNCHANGED <<disk, row, stored, record, holder, job, rs, history>>

\* The backend none stores nothing.  The mirror copies the file, as it is now,
\* over the object of this file id; a restore that is reading this object may
\* get a part of it.
StoreFile ==
  /\ AtBackup("store")
  /\ \/ /\ bk.backend = "none"
        /\ bk' = [bk EXCEPT !.step = "object", !.at = clock]
        /\ safe' = safe \ {File}
        /\ UNCHANGED <<object, job, rs>>
     \/ /\ bk.backend = "mirror" /\ disk[Path] = Missing
        /\ EndBackup("failed")
        /\ UNCHANGED <<object, rs, safe>>
     \/ /\ bk.backend = "mirror" /\ disk[Path] # Missing
        /\ object' = [object EXCEPT ![Key(Path, File)] = Torn]
        /\ bk' = [bk EXCEPT !.step = "copy", !.read = disk[Path]]
        /\ \/ UNCHANGED rs
           \/ /\ rs.step = "copy" /\ rs.object.key = Key(Path, File)
              /\ rs' = [rs EXCEPT !.read = Torn]
        /\ safe' = safe \ {File}
        /\ UNCHANGED job
  /\ UNCHANGED <<disk, row, stored, record, holder, newest>>

\* Mutant: the stored object is not saved.
CopyOnly ==
  /\ AtBackup("copy")
  /\ object' = [object EXCEPT ![Key(Path, File)] = bk.read]
  /\ bk' = [bk EXCEPT !.step = "record", !.at = clock]
  /\ UNCHANGED <<disk, row, stored, record, holder, job, rs, history>>

EndCopy ==
  /\ AtBackup("copy")
  /\ object' = [object EXCEPT ![Key(Path, File)] = bk.read]
  /\ bk' = [bk EXCEPT !.step = "object", !.at = clock]
  /\ UNCHANGED <<disk, row, stored, record, holder, job, rs, history>>

UpsertStoredObject ==
  /\ AtBackup("object")
  /\ stored' = [stored EXCEPT ![File] =
                  [backend |-> bk.backend, source |-> Path,
                   key |-> IF bk.backend = "mirror" THEN Key(Path, File) ELSE None]]
  /\ bk' = [bk EXCEPT !.step = "record"]
  /\ UNCHANGED <<files, row, record, holder, job, rs, history>>

\* The history: the file at hand is the newest of its name.
Recorded ==
  /\ newest' = [newest EXCEPT ![RelativePath(Path)] = File]
  /\ safe' = IF bk.backend = "mirror" /\ bk.read = File THEN safe \cup {File} ELSE safe

\* Mutant: a record that exists keeps its time.
InsertBackupRecord ==
  /\ AtBackup("record")
  /\ record' = IF record[<<Path, File>>] # NoRecord THEN record
               ELSE [record EXCEPT ![<<Path, File>>] = [name |-> RelativePath(Path), at |-> bk.at]]
  /\ Recorded
  /\ bk' = [bk EXCEPT !.step = "device"]
  /\ UNCHANGED <<files, row, stored, holder, job, rs>>

\* A record with the same path and file id is replaced.
UpsertBackupRecord ==
  /\ AtBackup("record")
  /\ record' = [record EXCEPT ![<<Path, File>>] = [name |-> RelativePath(Path), at |-> bk.at]]
  /\ Recorded
  /\ bk' = [bk EXCEPT !.step = "device"]
  /\ UNCHANGED <<files, row, stored, holder, job, rs>>

\* UpsertDeviceFile, and the next file.
UpsertDeviceFile ==
  /\ AtBackup("device")
  /\ holder' = [holder EXCEPT ![Path] = File]
  /\ bk' = [bk EXCEPT !.step = IF bk.i < Len(bk.found) THEN "verify" ELSE "end",
                      !.i = IF bk.i < Len(bk.found) THEN bk.i + 1 ELSE bk.i]
  /\ UNCHANGED <<files, row, stored, record, job, rs, history>>

CompleteBackup ==
  /\ AtBackup("end")
  /\ EndBackup("completed")
  /\ UNCHANGED <<files, row, stored, record, holder, rs, history>>

ExecuteBackup ==
  \/ OpenSource \/ EndScan \/ VerifyFile \/ StoreFile \/ EndCopy
  \/ \E p \in Paths : ScanFile(p)
  \/ UpsertStoredObject \/ UpsertBackupRecord \/ UpsertDeviceFile \/ CompleteBackup

-----------------------------------------------------------------------------
(***************************************************************************)
(* restore-submit, restore-run, restore-retry and restore-latest.          *)
(***************************************************************************)
\* A command of the user.
Command ==
  /\ rs.step = "idle" /\ (Orderly => Quiet)
  /\ restores < MaxRestores /\ restores' = restores + 1
  /\ UNCHANGED <<files, row, stored, record, holder, job, bk, clock, edits, faults, history>>

\* ScheduleTask and UpsertRestoreRequest: what was there is replaced.
SubmitRestore(r, f, t) ==
  /\ task' = [task EXCEPT ![r] = "queued"]
  /\ request' = [request EXCEPT ![r] = [state |-> "queued", file |-> f, target |-> t]]

ExecuteRestore(r) == rs' = [NoRestore EXCEPT !.step = "check", !.id = r]

RunRestoreSubmit(r, f, t) == Command /\ SubmitRestore(r, f, t) /\ UNCHANGED rs

RunRestoreRun(r) ==
  /\ Command /\ request[r] # NoRequest
  /\ ExecuteRestore(r)
  /\ UNCHANGED <<task, request>>

RetryRestore(r) ==
  /\ Command /\ request[r] # NoRequest
  /\ task' = [task EXCEPT ![r] = "queued"]
  /\ request' = [request EXCEPT ![r].state = "queued"]
  /\ ExecuteRestore(r)

ExecuteLatestRestore(name, t) ==
  /\ Command
  /\ \E r \in FindLatestBackupRecord(name) :
       SubmitRestore(r[2], r[2], t) /\ ExecuteRestore(r[2])

Restored == request[rs.id].file
Destination == request[rs.id].target

AtRestore(step) ==
  rs.step = step /\ UNCHANGED <<disk, object, row, stored, record, job, bk, environment, history>>

EndRestore(state) ==
  /\ request' = [request EXCEPT ![rs.id].state = state]
  /\ task' = [task EXCEPT ![rs.id] = state]
  /\ rs' = NoRestore

\* The stored object and the file must be known; if one is not, only the task
\* fails.  What is used later is the object that was found now.
CheckRestore ==
  /\ AtRestore("check")
  /\ IF stored[Restored] = NoObject \/ row[Restored] = None
       THEN /\ task' = [task EXCEPT ![rs.id] = "failed"]
            /\ rs' = NoRestore
            /\ UNCHANGED request
       ELSE /\ request' = [request EXCEPT ![rs.id].state = "running"]
            /\ task' = [task EXCEPT ![rs.id] = "running"]
            /\ rs' = [rs EXCEPT !.step = "open", !.object = stored[Restored]]
  /\ UNCHANGED <<target, holder>>

\* What can be read from the backend: an object that is being written may be
\* read to its end.  The backend none reads the original.
Readable(o) ==
  IF o.backend = "none" THEN {disk[o.source]}
  ELSE {object[o.key]} \cup
       IF bk.step = "copy" /\ Key(Path, File) = o.key THEN {bk.read} ELSE {}

\* Mutant: the copy does not overwrite.
RestoreNewFile ==
  /\ AtRestore("open")
  /\ \E c \in Readable(rs.object) :
       IF c = Missing \/ target[Destination] # Missing
         THEN EndRestore("failed") /\ UNCHANGED target
         ELSE /\ target' = [target EXCEPT ![Destination] = Torn]
              /\ rs' = [rs EXCEPT !.step = "copy", !.read = c]
              /\ UNCHANGED <<task, request>>
  /\ UNCHANGED holder

\* RestoreFile copies over the destination before anything is verified.
RestoreFile ==
  /\ AtRestore("open")
  /\ \E c \in Readable(rs.object) :
       IF c = Missing
         THEN EndRestore("failed") /\ UNCHANGED target
         ELSE /\ target' = [target EXCEPT ![Destination] = Torn]
              /\ rs' = [rs EXCEPT !.step = "copy", !.read = c]
              /\ UNCHANGED <<task, request>>
  /\ UNCHANGED holder

EndRestoreFile ==
  /\ AtRestore("copy")
  /\ target' = [target EXCEPT ![Destination] = rs.read]
  /\ rs' = [rs EXCEPT !.step = "verify"]
  /\ UNCHANGED <<holder, task, request>>

\* Mutant: the hash is not compared.
RestoreUnverified ==
  /\ AtRestore("verify")
  /\ IF row[Restored] # None
       THEN /\ holder' = [holder EXCEPT ![Destination] = Restored]
            /\ EndRestore("completed")
       ELSE EndRestore("failed") /\ UNCHANGED holder
  /\ UNCHANGED target

\* The row of the file is read again: a backup may have removed it.
VerifyRestoredFile ==
  /\ AtRestore("verify")
  /\ IF row[Restored] # None /\ target[Destination] = Restored
       THEN /\ holder' = [holder EXCEPT ![Destination] = Restored]
            /\ EndRestore("completed")
       ELSE EndRestore("failed") /\ UNCHANGED holder
  /\ UNCHANGED target

RunRestore == CheckRestore \/ RestoreFile \/ EndRestoreFile \/ VerifyRestoredFile

-----------------------------------------------------------------------------
(***************************************************************************)
(* The environment.                                                        *)
(***************************************************************************)
Tick ==
  /\ clock < MaxClock /\ clock' = clock + 1
  /\ UNCHANGED <<files, tables, bk, rs, edits, restores, faults, history>>

\* The user writes, replaces or removes a file.
Edit(p, c) ==
  /\ Orderly => Quiet
  /\ edits < MaxEdits /\ edits' = edits + 1
  /\ c # disk[p] /\ disk' = [disk EXCEPT ![p] = c]
  /\ UNCHANGED <<target, object, tables, bk, rs, clock, restores, faults, history>>

Fault(kind) ==
  /\ kind \in Faults /\ faults < MaxFaults /\ faults' = faults + 1
  /\ UNCHANGED <<disk, row, stored, record, holder, clock, edits, restores, history>>

KillBackup ==
  /\ Fault("crash") /\ bk.step # "idle" /\ bk' = NoBackup
  /\ UNCHANGED <<target, object, job, task, request, rs>>

KillRestore ==
  /\ Fault("crash") /\ rs.step # "idle" /\ rs' = NoRestore
  /\ UNCHANGED <<target, object, job, task, request, bk>>

\* A copy fails half-way and throws.
StoreFails ==
  /\ Fault("full") /\ bk.step = "copy" /\ EndBackup("failed")
  /\ UNCHANGED <<target, object, task, request, rs>>

RestoreFails ==
  /\ Fault("full") /\ rs.step = "copy" /\ EndRestore("failed")
  /\ UNCHANGED <<target, object, job, bk>>

\* An object of the mirror is lost; the user may put it back.
LoseObject(k) ==
  /\ Fault("loss") /\ object[k] # Missing
  /\ ~(bk.step = "copy" /\ k = Key(Path, File))
  /\ object' = [object EXCEPT ![k] = Missing]
  /\ UNCHANGED <<target, job, task, request, bk, rs>>

PutObjectBack(k) ==
  /\ faults > 0 /\ object[k] = Missing /\ stored[k[1]].key = k
  /\ object' = [object EXCEPT ![k] = k[1]]
  /\ UNCHANGED <<disk, target, tables, bk, rs, environment, history>>

Next ==
  \/ \E s \in Sources, b \in Backends : StartBackup(s, b)
  \/ ExecuteBackup
  \/ \E r \in UserIds, f \in Contents, t \in Targets : RunRestoreSubmit(r, f, t)
  \/ \E r \in RequestIds : RunRestoreRun(r) \/ RetryRestore(r)
  \/ \E n \in Names, t \in Targets : ExecuteLatestRestore(n, t)
  \/ RunRestore
  \/ Tick \/ \E p \in Paths : \E c \in Versions[p] \cup {Missing} : Edit(p, c)
  \/ KillBackup \/ KillRestore \/ StoreFails \/ RestoreFails
  \/ \E k \in Keys : LoseObject(k) \/ PutObjectBack(k)

Spec == Init /\ [][Next]_vars

\* A command that was started goes on.
FairSpec == Spec /\ WF_vars(ExecuteBackup) /\ WF_vars(RunRestore)
-----------------------------------------------------------------------------
(***************************************************************************)
(* Properties.                                                             *)
(***************************************************************************)
BackupSteps == {"idle", "open", "scan", "verify", "store", "copy", "object",
                "record", "device", "end"}
RestoreSteps == {"idle", "check", "open", "copy", "verify"}
States == {"none", "queued", "running", "completed", "failed"}
Bytes == Contents \cup {Missing, Torn}
Objects == [backend : {"mirror", "none"}, key : Keys \cup {None}, source : Paths \cup {None}]

FilesTyped ==
  /\ disk \in [Paths -> Contents \cup {Missing}]
  /\ target \in [Targets -> Bytes]
  /\ object \in [Keys -> Bytes]

TablesTyped ==
  /\ row \in [Contents -> Paths \cup {None}]
  /\ stored \in [Contents -> Objects]
  /\ record \in [Paths \X Contents -> [name : Names \cup {None}, at : Nat]]
  /\ holder \in [Paths \cup Targets -> Contents \cup {None}]
  /\ job \in [0 .. MaxClock -> States]
  /\ task \in [RequestIds -> States]
  /\ request \in [RequestIds -> [state : States, file : Contents \cup {None},
                                 target : Targets \cup {None}]]

BackupTyped ==
  bk \in [step : BackupSteps, single : BOOLEAN, backend : {"mirror", "none"},
          job : 0 .. MaxClock, list : SUBSET Paths, found : Seq(Paths \X Contents),
          i : Nat, read : Contents \cup {None}, at : Nat]

RestoreTyped ==
  rs \in [step : RestoreSteps, id : RequestIds \cup {None}, object : Objects,
          read : Contents \cup {Torn, None}]

EnvironmentTyped ==
  /\ clock \in 0 .. MaxClock /\ edits \in 0 .. MaxEdits
  /\ restores \in 0 .. MaxRestores /\ faults \in 0 .. MaxFaults
  /\ newest \in [Names -> Contents \cup {None}] /\ safe \in SUBSET Contents

\* The tables, the files and the processes have the shape the code gives them.
TypeOK == FilesTyped /\ TablesTyped /\ BackupTyped /\ RestoreTyped /\ EnvironmentTyped

\* The history and the view of the device never name what was not stored:
\* behind each backup record there is a stored object for its file, which for
\* the mirror is an object of this file, and behind each backed up file in the
\* view of the device there is a record - wherever a backup is killed.
HistoryIsGrounded ==
  /\ \A r \in DOMAIN record : record[r] # NoRecord =>
       /\ stored[r[2]] # NoObject
       /\ stored[r[2]].backend = "mirror" => stored[r[2]].key[1] = r[2]
  /\ \A p \in Paths : holder[p] # None => record[<<p, holder[p]>>] # NoRecord

\* A backup that completes has recorded every file it scanned, and each of
\* them can be looked up: the scan of one file never removes the row of
\* another one with the same content.
CompletedBackupIsWhole ==
  [][\A s \in DOMAIN job :
       job[s] # "completed" /\ job'[s] = "completed" =>
         \A i \in DOMAIN bk.found :
           record[bk.found[i]] # NoRecord /\ row[bk.found[i][2]] # None]_vars

\* A restore that completes has written the file that was asked for, whatever
\* the user edited while it was backed up, and whatever backup ran meanwhile.
CompletedRestoreIsExact ==
  [][\A r \in RequestIds :
       request[r].state # "completed" /\ request'[r].state = "completed" =>
         target'[request[r].target] = request[r].file]_vars

\* restore-latest finds the version that was backed up last.
LatestIsNewest ==
  bk.step = "idle" =>
    \A n \in Names : \A r \in FindLatestBackupRecord(n) : r[2] = newest[n]

Restorable(f) ==
  row[f] # None /\ stored[f] # NoObject /\ Readable(stored[f]) = {f}

Lost(f) == faults > 0 /\ Readable(stored[f]) = {Missing}

\* A file that was recorded in a mirror can be restored, unless its object was
\* lost, until a backup scans another version at the path that its row stands
\* for, or stores the file again: wherever backups of this and of other files,
\* equal ones included, are killed or fail, whatever the user edits, and as
\* soon as one backup has recorded the file once more.
RecordedIsRestorable == \A f \in safe : Restorable(f) \/ (row[f] # None /\ Lost(f))

\* A restore that begins, by whichever command, when its file is restorable
\* completes: after an object was lost and put back a retry succeeds.
RestoreCompletes ==
  \A r \in RequestIds :
    /\ rs.step = "check" /\ rs.id = r /\ Restorable(request[r].file)
    ~> \/ request[r].state = "completed"
       \/ request[r] # NoRequest /\ ~Restorable(request[r].file)
=============================================================================
