----------------------- MODULE SharedLibraryAgreement -----------------------
(***************************************************************************)
(* More proofs about the shared library: entries, recipients and library   *)
(* files agree.  The properties say themselves which disturbances they do  *)
(* not stand, by the variable disturbed, so that the theorems need no      *)
(* hypotheses.                                                             *)
(***************************************************************************)
EXTENDS SharedLibraryProofs

(***************************************************************************)
(* An active entry without a file is overdue.                              *)
(*                                                                         *)
(* Copies of an entry are saved late, but as long as no publication        *)
(* overlaps another command they are all of the same issue: the file and   *)
(* the time of expiry that were published last.  A cleanup removes the     *)
(* files of entries that are overdue, and so is every copy of them.        *)
(***************************************************************************)
SameIssue(a, b) == a.file = b.file /\ a.expires = b.expires

PublishSteps == {"hash", "verify", "store", "stored", "index", "publish"}
CleanupSteps == {"list", "remove", "expire"}
StoredSteps == {"stored", "index", "publish"}
InviteSteps == {"retry", "reset", "pend", "create", "invite"}

\* The process has read an entry and will use what it has read.
Holding(r) ==
  \/ r.step \in {"pend", "invite", "copy", "fail", "deliver", "expire"}
  \/ r.step = "open" /\ r.cmd = "agent"

\* The steps belong to their commands, and only a cleanup has a list.
Ordered(r) ==
  /\ r.step \in PublishSteps => r.cmd \in Publishing
  /\ r.step \in CleanupSteps <=> r.cmd = "cleanup"
  /\ r.step \notin CleanupSteps => r.list = {}
  /\ r.step \in InviteSteps => r.cmd # "agent"

\* What a process holds is of the issue in the table, what a cleanup holds is
\* overdue, and what was stored is there.
Current(r, rw, lib, clk, los) ==
  /\ Holding(r) => SameIssue(r.got, rw[r.e])
  /\ \A x \in r.list : SameIssue(x[2], rw[x[1]]) /\ x[2].expires <= clk
  /\ r.step = "expire" => r.got.expires <= clk
  /\ r.step \in StoredSteps => los > 0 \/ lib[r.e] # Missing

PublishersAlone == \A p, q \in Procs : pr[p].cmd \in Publishing /\ Busy(q) => p = q
ProcessesCurrent == \A p \in Procs : Current(pr[p], row, library, clock, losses)
RowsOverdue ==
  \A e \in Entries :
    Published(e) /\ library[e] = Missing /\ losses = 0 => row[e].expires <= clock

OverdueInv ==
  /\ \A p \in Procs : Ordered(pr[p])
  /\ disturbed # "publisher" => PublishersAlone /\ ProcessesCurrent /\ RowsOverdue

LEMMA IdleCurrent == Ordered(Idle) /\ \A rw, lib, clk, los : Current(Idle, rw, lib, clk, los)
BY DEF Idle, Ordered, Current, Holding, PublishSteps, CleanupSteps, InviteSteps, StoredSteps,
       Publishing

LEMMA CurrentStays ==
  ASSUME NEW r \in ProcessRecords, Formed(r),
         NEW rw, NEW rw2, NEW lib, NEW lib2, NEW clk \in Nat, NEW clk2 \in Nat,
         NEW los \in Nat, NEW los2 \in Nat,
         Current(r, rw, lib, clk, los),
         \A e \in Entries : SameIssue(rw2[e], rw[e]),
         clk <= clk2, los <= los2,
         r.step \in StoredSteps => los2 > 0 \/ lib2[r.e] = lib[r.e]
  PROVE  Current(r, rw2, lib2, clk2, los2)
<1>1. r.list \subseteq Entries \X Rows /\ r.got \in Rows
  BY DEF ProcessRecords
<1>2. Holding(r) => SameIssue(r.got, rw2[r.e])
  BY DEF Current, Holding, SameIssue, Formed
<1>3. ASSUME NEW x \in r.list PROVE SameIssue(x[2], rw2[x[1]]) /\ x[2].expires <= clk2
  <2>1. x[1] \in Entries /\ x[2].expires \in Nat
    BY <1>1 DEF Rows
  <2> QED
    BY <2>1 DEF Current, SameIssue
<1>4. r.step = "expire" => r.got.expires <= clk2
  BY <1>1 DEF Current, Rows
<1>5. r.step \in StoredSteps => los2 > 0 \/ lib2[r.e] # Missing
  BY DEF Current
<1> QED
  BY <1>2, <1>3, <1>4, <1>5 DEF Current

\* A step of a process that runs.
LEMMA StepOverdue ==
  ASSUME Inv, OverdueInv, NEW p \in Procs, NEW r, pr' = [pr EXCEPT ![p] = r],
         Busy(p), Ordered(r), r.cmd \in {pr[p].cmd, "none"},
         UNCHANGED <<clock, losses>>,
         disturbed' # "publisher" => disturbed # "publisher",
         disturbed # "publisher" =>
           /\ Current(r, row', library', clock, losses)
           /\ RowsOverdue'
           /\ pr[p].cmd \in Publishing \/ \A e \in Entries : SameIssue(row'[e], row[e])
  PROVE  OverdueInv'
<1>1. \A q \in Procs : pr'[q] = IF q = p THEN r ELSE pr[q]
  BY DEF Inv, ProcessesGood
<1>2. \A q \in Procs : Ordered(pr'[q])
  BY <1>1 DEF OverdueInv
<1> SUFFICES ASSUME disturbed # "publisher"
             PROVE  PublishersAlone' /\ ProcessesCurrent'
  BY <1>2 DEF OverdueInv
<1>3. PublishersAlone /\ ProcessesCurrent
  BY DEF OverdueInv
<1>4. PublishersAlone'
  BY <1>1, <1>3 DEF PublishersAlone, Busy, Publishing
<1>5. ASSUME NEW q \in Procs PROVE Current(pr'[q], row', library', clock', losses')
  <2>1. CASE q = p
    BY <1>1, <2>1
  <2>2. CASE q # p /\ pr[p].cmd \in Publishing
    BY <1>1, <1>3, <2>2, IdleCurrent DEF PublishersAlone, Busy
  <2>3. CASE q # p /\ pr[p].cmd \notin Publishing
    <3>1. pr[q].step \notin StoredSteps
      BY <1>3, <2>3 DEF PublishersAlone, OverdueInv, Ordered, PublishSteps, StoredSteps
    <3>2. /\ pr[q] \in ProcessRecords /\ Formed(pr[q])
          /\ Current(pr[q], row, library, clock, losses) /\ clock \in Nat /\ losses \in Nat
      BY <1>3, AtHand DEF ProcessesCurrent, Inv, EnvironmentTyped
    <3>3. \A e \in Entries : SameIssue(row'[e], row[e])
      BY <2>3
    <3>4. clock <= clock /\ losses <= losses
      BY <3>2
    <3>5. Current(pr[q], row', library', clock, losses)
      BY ONLY <3>1, <3>2, <3>3, <3>4, CurrentStays
    <3> QED
      BY <1>1, <2>3, <3>5
  <2> QED
    BY <2>1, <2>2, <2>3
<1> QED
  BY <1>4, <1>5 DEF ProcessesCurrent

LEMMA RowsStayOverdue ==
  ASSUME RowsOverdue, \A e \in Entries : SameIssue(row'[e], row[e]),
         \A e \in Entries : library'[e] = Missing => library[e] = Missing,
         UNCHANGED <<clock, losses>>
  PROVE  RowsOverdue'
BY DEF RowsOverdue, SameIssue, Published

\* A step that neither saves an entry nor writes to the library.
LEMMA QuietStepOverdue ==
  ASSUME Inv, OverdueInv, NEW p \in Procs, NEW r, pr' = [pr EXCEPT ![p] = r],
         Busy(p), Ordered(r), r.cmd \in {pr[p].cmd, "none"},
         UNCHANGED <<row, library, clock, losses>>,
         disturbed' # "publisher" => disturbed # "publisher",
         disturbed # "publisher" => Current(r, row, library, clock, losses)
  PROVE  OverdueInv'
<1>1. \A e \in Entries : SameIssue(row'[e], row[e])
  BY DEF SameIssue
<1>2. disturbed # "publisher" => RowsOverdue'
  BY <1>1, RowsStayOverdue DEF OverdueInv
<1> QED
  BY <1>1, <1>2, StepOverdue

\* A process that ends.
LEMMA EndOverdue ==
  ASSUME Inv, OverdueInv, NEW p \in Procs, Busy(p), End(p),
         UNCHANGED <<row, library, clock, losses>>,
         disturbed' # "publisher" => disturbed # "publisher"
  PROVE  OverdueInv'
<1>1. Idle.cmd = "none"
  BY DEF Idle
<1> QED
  BY <1>1, IdleCurrent, QuietStepOverdue DEF End

\* What a process at some step has.
LEMMA CurrentAtHand ==
  ASSUME Inv, OverdueInv, NEW p \in Procs
  PROVE  /\ Ordered(pr[p])
         /\ disturbed # "publisher" => Current(pr[p], row, library, clock, losses)
         /\ pr[p].step # "idle" => Busy(p)
BY DEF OverdueInv, ProcessesCurrent, Busy, Idle

\* A process that goes on, and holds nothing or what it held.
LEMMA GotoOverdue ==
  ASSUME Inv, OverdueInv, NEW p \in Procs, NEW s, Goto(p, s), pr[p].step # "idle",
         UNCHANGED <<row, library, clock, losses>>, UNCHANGED disturbed,
         Ordered([pr[p] EXCEPT !.step = s]),
         s \notin {"pend", "invite", "copy", "fail", "deliver", "expire"},
         s = "open" => pr[p].cmd # "agent",
         s \in StoredSteps => pr[p].step \in StoredSteps
  PROVE  OverdueInv'
<1> DEFINE r == [pr[p] EXCEPT !.step = s]
<1>1. pr[p] \in ProcessRecords
  BY AtHand
<1>2. /\ r.step = s /\ r.cmd = pr[p].cmd /\ r.e = pr[p].e /\ r.got = pr[p].got
      /\ r.list = pr[p].list
  BY <1>1 DEF ProcessRecords
<1>3. disturbed # "publisher" => Current(r, row, library, clock, losses)
  BY <1>2, CurrentAtHand DEF Current, Holding
<1>4. pr' = [pr EXCEPT ![p] = r]
  BY DEF Goto
<1> QED
  BY <1>2, <1>3, <1>4, CurrentAtHand, QuietStepOverdue

\* A process that saves the entry it holds.
LEMMA SaveOverdue ==
  ASSUME Inv, OverdueInv, NEW p \in Procs, NEW r, pr' = [pr EXCEPT ![p] = r],
         Holding(pr[p]), NEW x, UpsertSharedLibraryEntry(Entry(p), x), SameIssue(x, pr[p].got),
         UNCHANGED <<library, clock, losses, disturbed>>,
         Ordered(r), r.cmd \in {pr[p].cmd, "none"}, ~Holding(r), r.step \notin StoredSteps,
         r.list \subseteq pr[p].list
  PROVE  OverdueInv'
<1>1. /\ pr[p] \in ProcessRecords /\ Formed(pr[p]) /\ Entry(p) \in Entries /\ Busy(p)
      /\ clock \in Nat /\ losses \in Nat
  BY AtHand, CurrentAtHand DEF Holding, Inv, EnvironmentTyped
<1>2. \A e \in Entries : row'[e] = IF e = Entry(p) THEN x ELSE row[e]
  BY DEF UpsertSharedLibraryEntry, Inv, TablesTyped
<1>3. ASSUME disturbed # "publisher"
      PROVE  /\ \A e \in Entries : SameIssue(row'[e], row[e])
             /\ Current(r, row', library', clock, losses)
             /\ RowsOverdue'
  <2>1. Current(pr[p], row, library, clock, losses) /\ RowsOverdue
    BY <1>3, CurrentAtHand DEF OverdueInv
  <2>2. \A e \in Entries : SameIssue(row'[e], row[e])
    BY <1>1, <1>2, <2>1 DEF Current, SameIssue, Entry
  <2>3. RowsOverdue'
    BY <2>1, <2>2, RowsStayOverdue
  <2>4. pr[p].list \subseteq Entries \X Rows
    BY <1>1 DEF ProcessRecords
  <2>5. ASSUME NEW y \in r.list PROVE SameIssue(y[2], row'[y[1]]) /\ y[2].expires <= clock
    <3>1. y \in pr[p].list /\ y[1] \in Entries
      BY <2>4
    <3> QED
      BY <2>1, <2>2, <3>1 DEF Current, SameIssue
  <2>6. Current(r, row', library', clock, losses)
    BY <2>5 DEF Current, Holding
  <2> QED
    BY <2>2, <2>3, <2>6
<1> QED
  BY <1>1, <1>3, StepOverdue

\* A recipient's state is not part of the issue.
LEMMA RecipientKeepsIssue ==
  ASSUME NEW x \in Rows, NEW n, NEW st
  PROVE  SameIssue(SetRecipient(x, n, st), x)
BY DEF SetRecipient, SameIssue, Rows

\* Saving a recipient, and going on or ending.
LEMMA RecipientSavedOverdue ==
  ASSUME Inv, OverdueInv, NEW p \in Procs, NEW st \in RecipientStates, Holding(pr[p]),
         pr[p].step # "expire",
         UpsertSharedLibraryEntry(Entry(p), SetRecipient(pr[p].got, Node(p), st)),
         UNCHANGED environment, UNCHANGED library,
         \/ End(p)
         \/ pr[p].step \in InviteSteps /\ (Goto(p, "create") \/ Goto(p, "open"))
  PROVE  OverdueInv'
<1>1. /\ pr[p] \in ProcessRecords /\ Ordered(pr[p])
      /\ SameIssue(SetRecipient(pr[p].got, Node(p), st), pr[p].got)
  BY AtHand, CurrentAtHand, RecipientKeepsIssue
<1>2. UNCHANGED <<library, clock, losses, disturbed>>
  BY DEF environment
<1>3. CASE End(p)
  <2>1. /\ Ordered(Idle) /\ ~Holding(Idle) /\ Idle.step \notin StoredSteps
        /\ Idle.cmd = "none" /\ Idle.list \subseteq pr[p].list
    BY IdleCurrent DEF Idle, Holding, StoredSteps
  <2> QED
    BY <1>1, <1>2, <1>3, <2>1, SaveOverdue DEF End
<1>4. ASSUME NEW s \in {"create", "open"}, Goto(p, s), pr[p].step \in InviteSteps
      PROVE  OverdueInv'
  <2> DEFINE r == [pr[p] EXCEPT !.step = s]
  <2>1. r.step = s /\ r.cmd = pr[p].cmd /\ r.list = pr[p].list
    BY <1>1 DEF ProcessRecords
  <2>2. Ordered(r) /\ pr[p].cmd # "agent"
    BY <1>1, <1>4, <2>1 DEF Ordered, Holding, PublishSteps, CleanupSteps, InviteSteps
  <2>3. ~Holding(r) /\ r.step \notin StoredSteps
    BY <1>4, <2>1, <2>2 DEF Holding, StoredSteps
  <2>4. pr' = [pr EXCEPT ![p] = r]
    BY <1>4 DEF Goto
  <2> QED
    BY <1>1, <1>2, <2>1, <2>2, <2>3, <2>4, SaveOverdue
<1> QED
  BY <1>3, <1>4

\* A process that goes on within its command, and holds nothing new.
LEMMA OnlyGotoOverdue ==
  ASSUME Inv, OverdueInv, NEW p \in Procs, NEW s, Goto(p, s),
         UNCHANGED environment, UNCHANGED <<row, library>>,
         \/ pr[p].step \in {"verify", "index"} /\ s \in {"store", "publish"}
         \/ /\ pr[p].step \in NodeSteps
            /\ \/ s \in {"record", "hold", "complete", "mark", "fetch", "report"}
               \/ s = "reset" /\ pr[p].step = "retry",
         s \in StoredSteps => pr[p].step \in StoredSteps
  PROVE  OverdueInv'
<1>1. pr[p] \in ProcessRecords /\ Ordered(pr[p])
  BY AtHand, CurrentAtHand
<1> DEFINE r == [pr[p] EXCEPT !.step = s]
<1>2. r.step = s /\ r.cmd = pr[p].cmd /\ r.list = pr[p].list
  BY <1>1 DEF ProcessRecords
<1>3. Ordered(r)
  BY <1>1, <1>2 DEF Ordered, NodeSteps, PublishSteps, CleanupSteps, InviteSteps
<1>4. UNCHANGED <<row, library, clock, losses>> /\ UNCHANGED disturbed
  BY DEF environment
<1>5. pr[p].step # "idle"
  BY DEF NodeSteps
<1> QED
  BY <1>3, <1>4, <1>5, GotoOverdue

LEMMA EndStepOverdue ==
  ASSUME Inv, OverdueInv, NEW p \in Procs, pr[p].step # "idle", End(p),
         UNCHANGED environment, UNCHANGED <<row, library>>
  PROVE  OverdueInv'
<1>1. UNCHANGED <<row, library, clock, losses>> /\ UNCHANGED disturbed /\ Busy(p)
  BY CurrentAtHand DEF environment
<1> QED
  BY <1>1, EndOverdue

LEMMA HashSourceOverdue ==
  ASSUME Inv, OverdueInv, NEW p \in Procs, HashSource(p)
  PROVE  OverdueInv'
<1>1. /\ pr[p] \in ProcessRecords /\ pr[p].got \in Rows /\ Ordered(pr[p]) /\ Busy(p)
      /\ disturbed # "publisher" => Current(pr[p], row, library, clock, losses)
      /\ pr[p].step = "hash" /\ UNCHANGED <<row, library, clock, losses, disturbed>>
  BY AtHand, CurrentAtHand DEF HashSource, At, environment, files, tables
<1> DEFINE r == [pr[p] EXCEPT !.step = "verify", !.got.file = source[Entry(p)],
                              !.got.expires = clock + Retention]
<1>2. CASE pr' = [pr EXCEPT ![p].step = "verify", ![p].got.file = source[Entry(p)],
                            ![p].got.expires = clock + Retention]
  <2>1. pr' = [pr EXCEPT ![p] = r]
    BY <1>2
  <2>2. r.step = "verify" /\ r.cmd = pr[p].cmd /\ r.list = pr[p].list
    BY <1>1 DEF ProcessRecords
  <2>3. Ordered(r) /\ ~Holding(r) /\ r.step \notin StoredSteps /\ r.step # "expire"
    BY <1>1, <2>2 DEF Ordered, Holding, PublishSteps, CleanupSteps, InviteSteps, StoredSteps
  <2>4. disturbed # "publisher" => Current(r, row, library, clock, losses)
    BY <1>1, <2>2, <2>3 DEF Current
  <2> QED
    BY <1>1, <2>1, <2>2, <2>3, <2>4, QuietStepOverdue
<1> QED
  BY <1>1, <1>2, EndStepOverdue DEF HashSource, At

LEMMA VerifySourceOverdue ==
  ASSUME Inv, OverdueInv, NEW p \in Procs, VerifySource(p)
  PROVE  OverdueInv'
BY OnlyGotoOverdue, EndStepOverdue DEF VerifySource, At, files, tables, StoredSteps

\* While the library file is written, whoever copies it reads a part of it.
LEMMA StoreInLibraryOverdue ==
  ASSUME Inv, OverdueInv, NEW p \in Procs, StoreInLibrary(p)
  PROVE  OverdueInv'
<1>1. /\ pr[p] \in ProcessRecords /\ Ordered(pr[p]) /\ Busy(p) /\ Entry(p) \in Entries
      /\ disturbed # "publisher" => Current(pr[p], row, library, clock, losses)
      /\ pr[p].step = "store" /\ pr[p].cmd \in Publishing
      /\ UNCHANGED <<row, clock, losses, disturbed>>
  BY AtHand, CurrentAtHand DEF StoreInLibrary, At, environment, tables, Ordered, PublishSteps
<1>2. CASE source[Entry(p)] = Missing
  BY <1>1, <1>2, EndStepOverdue DEF StoreInLibrary, At
<1>3. CASE source[Entry(p)] # Missing
  <2> DEFINE r == [pr[p] EXCEPT !.step = "stored", !.read = source[Entry(p)]]
  <2>1. PICK tear \in BOOLEAN :
          pr' = [q \in Procs |->
                   CASE q = p -> r
                     [] tear /\ pr[q].step = "copy" /\ Entry(q) = Entry(p)
                          -> [pr[q] EXCEPT !.read = Torn]
                     [] OTHER -> pr[q]]
    BY <1>3 DEF StoreInLibrary
  <2>2. pr'[p] = r /\ r.step = "stored" /\ r.cmd = pr[p].cmd /\ r.list = pr[p].list
        /\ r.e = Entry(p)
    BY <1>1, <2>1 DEF ProcessRecords, Entry
  <2>3. Ordered(r) /\ ~Holding(r)
    BY <1>1, <2>2 DEF Ordered, Holding, PublishSteps, CleanupSteps, InviteSteps
  <2>4. library' = [library EXCEPT ![Entry(p)] = Torn] /\ library \in [Entries -> Bytes]
    BY <1>3 DEF StoreInLibrary, Inv, FilesTyped
  <2>5. CASE disturbed = "publisher"
    <3>1. ASSUME NEW q \in Procs PROVE Ordered(pr'[q])
      <4>1. CASE q = p
        BY <2>2, <2>3, <4>1
      <4>2. CASE q # p
        <5>1. pr'[q] = pr[q] \/ pr'[q] = [pr[q] EXCEPT !.read = Torn]
          BY <2>1, <4>2
        <5>2. pr[q] \in ProcessRecords /\ Ordered(pr[q])
          BY AtHand, CurrentAtHand
        <5>3. /\ pr'[q].step = pr[q].step /\ pr'[q].cmd = pr[q].cmd
              /\ pr'[q].list = pr[q].list
          BY <5>1, <5>2 DEF ProcessRecords
        <5> QED
          BY <5>2, <5>3 DEF Ordered
      <4> QED
        BY <4>1, <4>2
    <3> QED
      BY <1>1, <2>5, <3>1 DEF OverdueInv
  <2>6. CASE disturbed # "publisher"
    <3>1. \A q \in Procs : q # p => pr[q] = Idle
      BY <1>1, <2>6 DEF OverdueInv, PublishersAlone, Busy
    <3>2. Idle.step # "copy"
      BY DEF Idle
    <3>3. \A q \in Procs : q # p => pr'[q] = pr[q]
      BY <2>1, <3>1, <3>2
    <3>4. pr' = [pr EXCEPT ![p] = r]
      BY <2>1, <2>2, <3>3 DEF Inv, ProcessesGood
    <3>5. Missing # Torn
      BY ContentsAssumption DEF FileIds
    <3>6. \A e \in Entries : library'[e] = Missing => library[e] = Missing
      BY <2>4, <3>5
    <3>7. \A e \in Entries : SameIssue(row'[e], row[e])
      BY <1>1 DEF SameIssue
    <3>8. RowsOverdue'
      BY <1>1, <2>6, <3>6, <3>7, RowsStayOverdue DEF OverdueInv
    <3>9. library'[r.e] # Missing
      BY <1>1, <2>2, <2>4, <3>5
    <3>10. Current(r, row', library', clock, losses)
      BY <1>1, <2>2, <2>3, <2>6, <3>9 DEF Current
    <3> QED
      BY <1>1, <2>2, <2>3, <3>4, <3>8, <3>10, StepOverdue
  <2> QED
    BY <2>5, <2>6
<1> QED
  BY <1>2, <1>3

LEMMA EndStoreOverdue ==
  ASSUME Inv, OverdueInv, NEW p \in Procs, EndStore(p)
  PROVE  OverdueInv'
<1>1. /\ pr[p] \in ProcessRecords /\ Ordered(pr[p]) /\ Busy(p) /\ Entry(p) \in Entries
      /\ disturbed # "publisher" => Current(pr[p], row, library, clock, losses)
      /\ pr[p].step = "stored" /\ pr[p].cmd \in Publishing
      /\ UNCHANGED <<row, clock, losses, disturbed>>
  BY AtHand, CurrentAtHand DEF EndStore, At, environment, tables, Ordered, PublishSteps
<1>2. pr[p].read # Missing
  BY <1>1, AtHand, ContentsAssumption DEF Formed
<1> DEFINE r == [pr[p] EXCEPT !.step = "index"]
<1>3. /\ pr' = [pr EXCEPT ![p] = r] /\ library' = [library EXCEPT ![Entry(p)] = pr[p].read]
      /\ library \in [Entries -> Bytes]
  BY DEF EndStore, Goto, Inv, FilesTyped
<1>4. /\ r.step = "index" /\ r.cmd = pr[p].cmd /\ r.list = pr[p].list /\ r.e = Entry(p)
  BY <1>1 DEF ProcessRecords, Entry
<1>5. Ordered(r) /\ ~Holding(r)
  BY <1>1, <1>4 DEF Ordered, Holding, PublishSteps, CleanupSteps, InviteSteps
<1>6. \A e \in Entries : library'[e] = Missing => library[e] = Missing
  BY <1>2, <1>3
<1>7. \A e \in Entries : SameIssue(row'[e], row[e])
  BY <1>1 DEF SameIssue
<1>8. disturbed # "publisher" => RowsOverdue'
  BY <1>1, <1>6, <1>7, RowsStayOverdue DEF OverdueInv
<1>9. library'[r.e] # Missing
  BY <1>1, <1>2, <1>3, <1>4
<1>10. disturbed # "publisher" => Current(r, row', library', clock, losses)
  BY <1>1, <1>4, <1>5, <1>9 DEF Current
<1> QED
  BY <1>1, <1>3, <1>4, <1>5, <1>8, <1>10, StepOverdue

LEMMA IndexSourceOverdue ==
  ASSUME Inv, OverdueInv, NEW p \in Procs, IndexSource(p)
  PROVE  OverdueInv'
BY OnlyGotoOverdue DEF IndexSource, At, files, StoredSteps

\* A new issue replaces the old one; nobody holds that.
LEMMA PublishEntryOverdue ==
  ASSUME Inv, OverdueInv, NEW p \in Procs, PublishEntry(p)
  PROVE  OverdueInv'
<1>1. /\ pr[p] \in ProcessRecords /\ Ordered(pr[p]) /\ Busy(p) /\ Entry(p) \in Entries
      /\ disturbed # "publisher" => Current(pr[p], row, library, clock, losses) /\ RowsOverdue
      /\ pr[p].step = "publish" /\ pr[p].cmd \in Publishing
      /\ UNCHANGED <<library, clock, losses, disturbed>>
  BY AtHand, CurrentAtHand
     DEF PublishEntry, At, environment, files, Ordered, PublishSteps, OverdueInv
<1>2. \A e \in Entries : row'[e] = IF e = Entry(p) THEN pr[p].got ELSE row[e]
  BY DEF PublishEntry, UpsertSharedLibraryEntry, Inv, TablesTyped
<1>3. disturbed # "publisher" => RowsOverdue'
  <2> SUFFICES ASSUME disturbed # "publisher", NEW e \in Entries,
                      row'[e].file # None, library[e] = Missing, losses = 0
               PROVE  row'[e].expires <= clock
    BY <1>1 DEF RowsOverdue, Published
  <2>1. CASE e = Entry(p)
    BY <1>1, <2>1 DEF Current, StoredSteps, Entry
  <2>2. CASE e # Entry(p)
    BY <1>1, <1>2, <2>2 DEF RowsOverdue, Published
  <2> QED
    BY <2>1, <2>2
<1>4. PICK r : /\ pr' = [pr EXCEPT ![p] = r]
               /\ r = Idle \/ r = [pr[p] EXCEPT !.step = "create"]
  BY DEF PublishEntry, Goto, End
<1>5. /\ Ordered(r) /\ ~Holding(r) /\ r.step \notin StoredSteps /\ r.step # "expire"
      /\ r.cmd \in {pr[p].cmd, "none"} /\ r.list = {}
  <2>1. CASE r = Idle
    BY <2>1, IdleCurrent DEF Idle, Holding, StoredSteps
  <2>2. CASE r = [pr[p] EXCEPT !.step = "create"]
    <3>1. r.step = "create" /\ r.cmd = pr[p].cmd /\ r.list = pr[p].list
      BY <1>1, <2>2 DEF ProcessRecords
    <3> QED
      BY <1>1, <3>1
         DEF Ordered, Holding, PublishSteps, CleanupSteps, InviteSteps, StoredSteps, Publishing
  <2> QED
    BY <1>4, <2>1, <2>2
<1>6. Current(r, row', library', clock, losses)
  BY <1>5 DEF Current
<1> QED
  BY <1>1, <1>3, <1>4, <1>5, <1>6, StepOverdue

\* A receive that goes on; what it holds is of the issue in the table.
LEMMA ReceiveOverdue ==
  ASSUME Inv, OverdueInv, NEW p \in Procs, NEW r, pr' = [pr EXCEPT ![p] = r],
         pr[p].step \in NodeSteps, r.step \in NodeSteps, r.cmd = pr[p].cmd, r.list = pr[p].list,
         r.step \in InviteSteps => pr[p].step \in InviteSteps,
         UNCHANGED <<row, library, clock, losses>>,
         disturbed' # "publisher" => disturbed # "publisher",
         disturbed # "publisher" /\ Holding(r) => SameIssue(r.got, row[r.e])
  PROVE  OverdueInv'
<1>1. /\ Ordered(pr[p]) /\ Busy(p)
      /\ disturbed # "publisher" => Current(pr[p], row, library, clock, losses)
  BY CurrentAtHand DEF NodeSteps
<1>2. Ordered(r) /\ r.step \notin StoredSteps /\ r.step # "expire"
  BY <1>1 DEF Ordered, NodeSteps, PublishSteps, CleanupSteps, InviteSteps, StoredSteps
<1>3. disturbed # "publisher" => Current(r, row, library, clock, losses)
  BY <1>1, <1>2 DEF Current
<1> QED
  BY <1>1, <1>2, <1>3, QuietStepOverdue

LEMMA RetryTaskOverdue ==
  ASSUME Inv, OverdueInv, NEW p \in Procs, RetryTask(p)
  PROVE  OverdueInv'
BY OnlyGotoOverdue, EndStepOverdue DEF RetryTask, At, files, NodeSteps, StoredSteps

LEMMA FindRecipientOverdue ==
  ASSUME Inv, OverdueInv, NEW p \in Procs, FindRecipient(p)
  PROVE  OverdueInv'
<1>1. /\ pr[p] \in ProcessRecords /\ pr[p].step \in NodeSteps /\ pr[p].step = "reset"
      /\ UNCHANGED <<row, library, clock, losses, disturbed>>
  BY AtHand DEF FindRecipient, At, environment, files, tables, NodeSteps
<1>2. PICK s \in {"create", "pend"} :
        pr' = [pr EXCEPT ![p].got = row[Entry(p)], ![p].step = s]
  BY DEF FindRecipient
<1> DEFINE r == [pr[p] EXCEPT !.got = row[Entry(p)], !.step = s]
<1>3. pr' = [pr EXCEPT ![p] = r]
  BY <1>2
<1>4. /\ r.step = s /\ r.cmd = pr[p].cmd /\ r.list = pr[p].list
      /\ r.e = Entry(p) /\ r.got = row[Entry(p)]
  BY <1>1 DEF ProcessRecords, Entry
<1> QED
  BY <1>1, <1>3, <1>4, ReceiveOverdue DEF NodeSteps, InviteSteps, SameIssue

LEMMA ResetRecipientOverdue ==
  ASSUME Inv, OverdueInv, NEW p \in Procs, ResetRecipient(p)
  PROVE  OverdueInv'
BY RecipientSavedOverdue DEF RecipientStates, ResetRecipient, At, Holding, files, InviteSteps

LEMMA CreateReceiveTaskOverdue ==
  ASSUME Inv, OverdueInv, NEW p \in Procs, CreateReceiveTask(p)
  PROVE  OverdueInv'
<1>1. /\ pr[p] \in ProcessRecords /\ pr[p].step = "create" /\ pr[p].step \in NodeSteps
      /\ UNCHANGED <<row, library, clock, losses, disturbed>>
      /\ UNCHANGED environment
  BY AtHand DEF CreateReceiveTask, At, environment, files, NodeSteps
<1>2. CASE End(p)
  BY <1>1, <1>2, EndStepOverdue
<1>3. CASE Goto(p, "open")
  <2> DEFINE r == [pr[p] EXCEPT !.step = "open"]
  <2>1. pr' = [pr EXCEPT ![p] = r]
    BY <1>3 DEF Goto
  <2>2. /\ r.step = "open" /\ r.cmd = pr[p].cmd /\ r.list = pr[p].list
        /\ r.e = Entry(p) /\ r.got = pr[p].got
    BY <1>1 DEF ProcessRecords, Entry
  <2>3. pr[p].cmd # "agent"
    BY <1>1, CurrentAtHand DEF Ordered, InviteSteps
  <2> QED
    BY <1>1, <2>1, <2>2, <2>3, ReceiveOverdue DEF NodeSteps, InviteSteps, Holding
<1>4. CASE pr' = [pr EXCEPT ![p].step = "invite", ![p].got = row[Entry(p)]]
  <2> DEFINE r == [pr[p] EXCEPT !.step = "invite", !.got = row[Entry(p)]]
  <2>1. pr' = [pr EXCEPT ![p] = r]
    BY <1>4
  <2>2. /\ r.step = "invite" /\ r.cmd = pr[p].cmd /\ r.list = pr[p].list
        /\ r.e = Entry(p) /\ r.got = row[Entry(p)]
    BY <1>1 DEF ProcessRecords, Entry
  <2> QED
    BY <1>1, <2>1, <2>2, ReceiveOverdue DEF NodeSteps, InviteSteps, SameIssue
<1> QED
  BY <1>2, <1>3, <1>4 DEF CreateReceiveTask

LEMMA SaveInvitationOverdue ==
  ASSUME Inv, OverdueInv, NEW p \in Procs, SaveInvitation(p)
  PROVE  OverdueInv'
<1>1. /\ Holding(pr[p]) /\ pr[p].step # "expire" /\ pr[p].step \in InviteSteps
      /\ UpsertSharedLibraryEntry(Entry(p), SetRecipient(pr[p].got, Node(p), "pending"))
      /\ UNCHANGED environment /\ UNCHANGED library
      /\ End(p) \/ Goto(p, "open")
  BY DEF SaveInvitation, At, Holding, InviteSteps, files
<1>2. "pending" \in RecipientStates /\ "failed" \in RecipientStates
  BY DEF RecipientStates
<1> QED
  BY <1>1, <1>2, RecipientSavedOverdue

\* A receive that fails ends, reports it, or marks its recipient.
LEMMA FailOverdue ==
  ASSUME Inv, OverdueInv, NEW p \in Procs, NEW x, Fail(p, x),
         pr[p].step \in {"open", "copy"},
         UNCHANGED <<row, library, clock, losses>>,
         disturbed' # "publisher" => disturbed # "publisher",
         disturbed # "publisher" /\ pr[p].cmd # "agent" => SameIssue(x, row[Entry(p)])
  PROVE  OverdueInv'
<1>1. pr[p] \in ProcessRecords /\ pr[p].step \in NodeSteps /\ Busy(p)
  BY AtHand, CurrentAtHand DEF NodeSteps
<1>2. CASE End(p)
  BY <1>1, <1>2, EndOverdue
<1>3. CASE pr' = [pr EXCEPT ![p].step = "report", ![p].ok = FALSE]
  <2> DEFINE r == [pr[p] EXCEPT !.step = "report", !.ok = FALSE]
  <2>1. pr' = [pr EXCEPT ![p] = r]
    BY <1>3
  <2>2. r.step = "report" /\ r.cmd = pr[p].cmd /\ r.list = pr[p].list
    BY <1>1 DEF ProcessRecords
  <2> QED
    BY <1>1, <2>1, <2>2, ReceiveOverdue DEF NodeSteps, InviteSteps, Holding
<1>4. CASE pr[p].cmd # "agent" /\ pr' = [pr EXCEPT ![p].step = "fail", ![p].got = x]
  <2> DEFINE r == [pr[p] EXCEPT !.step = "fail", !.got = x]
  <2>1. pr' = [pr EXCEPT ![p] = r]
    BY <1>4
  <2>2. /\ r.step = "fail" /\ r.cmd = pr[p].cmd /\ r.list = pr[p].list
        /\ r.got = x /\ r.e = Entry(p)
    BY <1>1 DEF ProcessRecords, Entry
  <2>3. r.step \in NodeSteps /\ r.step \notin InviteSteps
    BY <2>2 DEF NodeSteps, InviteSteps
  <2>4. disturbed # "publisher" /\ Holding(r) => SameIssue(r.got, row[r.e])
    BY <1>4, <2>2
  <2> HIDE DEF r
  <2> QED
    BY <1>1, <2>1, <2>2, <2>3, <2>4, ReceiveOverdue
<1> QED
  BY <1>2, <1>3, <1>4 DEF Fail

LEMMA OpenLibraryFileOverdue ==
  ASSUME Inv, OverdueInv, NEW p \in Procs, OpenLibraryFile(p)
  PROVE  OverdueInv'
<1> DEFINE x == IF pr[p].cmd = "agent" THEN pr[p].got ELSE row[Entry(p)]
<1>1. /\ pr[p] \in ProcessRecords /\ pr[p].step = "open" /\ pr[p].step \in NodeSteps
      /\ UNCHANGED <<row, library, clock, losses, disturbed>>
  BY AtHand DEF OpenLibraryFile, At, environment, tables, NodeSteps
<1>2. disturbed # "publisher" => SameIssue(x, row[Entry(p)])
  BY <1>1, CurrentAtHand DEF Current, Holding, SameIssue, Entry
<1>3. CASE Fail(p, x)
  BY <1>1, <1>2, <1>3, FailOverdue
<1>4. CASE pr' = [pr EXCEPT ![p].step = "copy", ![p].read = library[Entry(p)], ![p].got = x]
  <2> DEFINE r == [pr[p] EXCEPT !.step = "copy", !.read = library[Entry(p)], !.got = x]
  <2>1. pr' = [pr EXCEPT ![p] = r]
    BY <1>4
  <2>2. /\ r.step = "copy" /\ r.cmd = pr[p].cmd /\ r.list = pr[p].list
        /\ r.got = x /\ r.e = Entry(p)
    BY <1>1 DEF ProcessRecords, Entry
  <2> QED
    BY <1>1, <1>2, <2>1, <2>2, ReceiveOverdue DEF NodeSteps, InviteSteps
<1> QED
  BY <1>3, <1>4 DEF OpenLibraryFile

LEMMA MarkFailedOverdue ==
  ASSUME Inv, OverdueInv, NEW p \in Procs, MarkFailed(p)
  PROVE  OverdueInv'
<1>1. /\ Holding(pr[p]) /\ pr[p].step # "expire"
      /\ UpsertSharedLibraryEntry(Entry(p), SetRecipient(pr[p].got, Node(p), "failed"))
      /\ UNCHANGED environment /\ UNCHANGED library /\ End(p)
  BY DEF MarkFailed, At, Holding, files
<1>2. "pending" \in RecipientStates /\ "failed" \in RecipientStates
  BY DEF RecipientStates
<1> QED
  BY <1>1, <1>2, RecipientSavedOverdue

LEMMA EndCopyOverdue ==
  ASSUME Inv, OverdueInv, NEW p \in Procs, EndCopy(p)
  PROVE  OverdueInv'
BY OnlyGotoOverdue DEF EndCopy, At, tables, NodeSteps, StoredSteps

LEMMA RecordStepsOverdue ==
  ASSUME Inv, OverdueInv, NEW p \in Procs,
         RecordReceived(p) \/ UpsertDeviceFile(p) \/ CompleteTask(p)
  PROVE  OverdueInv'
BY OnlyGotoOverdue
   DEF RecordReceived, UpsertDeviceFile, CompleteTask, At, files, NodeSteps, StoredSteps

LEMMA ReadForMarkOverdue ==
  ASSUME Inv, OverdueInv, NEW p \in Procs, ReadForMark(p)
  PROVE  OverdueInv'
<1>1. /\ pr[p] \in ProcessRecords /\ pr[p].step \in NodeSteps
      /\ UNCHANGED <<row, library, clock, losses, disturbed>>
  BY AtHand DEF ReadForMark, At, environment, files, tables, NodeSteps
<1> DEFINE r == [pr[p] EXCEPT !.step = "deliver", !.got = row[Entry(p)]]
<1>2. pr' = [pr EXCEPT ![p] = r]
  BY DEF ReadForMark
<1>3. /\ r.step = "deliver" /\ r.cmd = pr[p].cmd /\ r.list = pr[p].list
      /\ r.e = Entry(p) /\ r.got = row[Entry(p)]
  BY <1>1 DEF ProcessRecords, Entry
<1> QED
  BY <1>1, <1>2, <1>3, ReceiveOverdue DEF NodeSteps, InviteSteps, SameIssue

LEMMA MarkDeliveredOverdue ==
  ASSUME Inv, OverdueInv, NEW p \in Procs, MarkDelivered(p)
  PROVE  OverdueInv'
<1>1. PICK st, b :
        UpsertSharedLibraryEntry(Entry(p),
          [SetRecipient(pr[p].got, Node(p), st) EXCEPT !.delivered = b])
  BY DEF MarkDelivered
<1> DEFINE x == [SetRecipient(pr[p].got, Node(p), st) EXCEPT !.delivered = b]
<1>2. pr[p].got \in Rows /\ Holding(pr[p])
  BY AtHand DEF MarkDelivered, At, Holding
<1>3. SameIssue(x, pr[p].got)
  BY <1>2 DEF SetRecipient, SameIssue, Rows
<1>4. UNCHANGED <<library, clock, losses, disturbed>> /\ pr' = [pr EXCEPT ![p] = Idle]
  BY DEF MarkDelivered, At, End, environment, files
<1>5. /\ Ordered(Idle) /\ ~Holding(Idle) /\ Idle.step \notin StoredSteps
      /\ Idle.cmd = "none" /\ Idle.list \subseteq pr[p].list
  BY IdleCurrent DEF Idle, Holding, StoredSteps
<1> QED
  BY <1>1, <1>2, <1>3, <1>4, <1>5, SaveOverdue

LEMMA AckTaskOverdue ==
  ASSUME Inv, OverdueInv, NEW p \in Procs, AckTask(p) \/ ReportTaskResult(p)
  PROVE  OverdueInv'
BY OnlyGotoOverdue DEF AckTask, ReportTaskResult, At, files, NodeSteps, StoredSteps

LEMMA FetchSharedEntryOverdue ==
  ASSUME Inv, OverdueInv, NEW p \in Procs, FetchSharedEntry(p)
  PROVE  OverdueInv'
<1>1. /\ pr[p] \in ProcessRecords /\ pr[p].step \in NodeSteps
      /\ UNCHANGED <<row, library, clock, losses, disturbed>>
  BY AtHand DEF FetchSharedEntry, At, environment, files, tables, NodeSteps
<1>2. PICK s \in {"report", "open"}, b \in BOOLEAN :
        pr' = [pr EXCEPT ![p].got = row[Entry(p)], ![p].step = s, ![p].ok = b]
  BY DEF FetchSharedEntry
<1> DEFINE r == [pr[p] EXCEPT !.got = row[Entry(p)], !.step = s, !.ok = b]
<1>3. pr' = [pr EXCEPT ![p] = r]
  BY <1>2
<1>4. /\ r.step = s /\ r.cmd = pr[p].cmd /\ r.list = pr[p].list
      /\ r.e = Entry(p) /\ r.got = row[Entry(p)]
  BY <1>1 DEF ProcessRecords, Entry
<1> QED
  BY <1>1, <1>3, <1>4, ReceiveOverdue DEF NodeSteps, InviteSteps, SameIssue

LEMMA ListExpiredOverdue ==
  ASSUME Inv, OverdueInv, NEW p \in Procs, ListExpired(p)
  PROVE  OverdueInv'
<1>1. /\ pr[p] \in ProcessRecords /\ pr[p].step = "list" /\ Ordered(pr[p]) /\ Busy(p)
      /\ UNCHANGED <<row, library, clock, losses, disturbed>>
  BY AtHand, CurrentAtHand DEF ListExpired, At, environment, files, tables
<1>2. CASE End(p)
  BY <1>1, <1>2, EndOverdue
<1>3. CASE pr' = [pr EXCEPT ![p].step = "remove",
                            ![p].list = {<<e, row[e]>> : e \in {d \in Entries : Due(d)}}]
  <2> DEFINE l == {<<e, row[e]>> : e \in {d \in Entries : Due(d)}}
             r == [pr[p] EXCEPT !.step = "remove", !.list = l]
  <2>1. pr' = [pr EXCEPT ![p] = r]
    BY <1>3
  <2>2. r.step = "remove" /\ r.cmd = pr[p].cmd /\ r.list = l
    BY <1>1 DEF ProcessRecords
  <2>3. \A x \in l : SameIssue(x[2], row[x[1]]) /\ x[2].expires <= clock
    BY DEF Due, SameIssue
  <2> HIDE DEF l
  <2>4. Ordered(r)
    BY <1>1, <2>2 DEF Ordered, PublishSteps, CleanupSteps, InviteSteps
  <2>5. Current(r, row, library, clock, losses)
    BY <2>2, <2>3 DEF Current, Holding, StoredSteps
  <2> QED
    BY <1>1, <2>1, <2>2, <2>4, <2>5, QuietStepOverdue
<1> QED
  BY <1>2, <1>3 DEF ListExpired

\* The file of an entry that is overdue goes; a publication does not run.
LEMMA RemoveLibraryFileOverdue ==
  ASSUME Inv, OverdueInv, NEW p \in Procs, RemoveLibraryFile(p)
  PROVE  OverdueInv'
<1>1. /\ pr[p] \in ProcessRecords /\ pr[p].step = "remove" /\ Ordered(pr[p]) /\ Busy(p)
      /\ disturbed # "publisher" => Current(pr[p], row, library, clock, losses) /\ RowsOverdue
      /\ UNCHANGED <<row, clock, losses, disturbed>>
  BY AtHand, CurrentAtHand DEF RemoveLibraryFile, At, environment, tables, OverdueInv
<1>2. PICK x \in pr[p].list : /\ library' = [library EXCEPT ![x[1]] = Missing]
                              /\ TakeFromList(p, x)
  BY DEF RemoveLibraryFile
<1>3. x[1] \in Entries /\ x[2] \in Rows
  BY <1>1, <1>2 DEF ProcessRecords
<1> DEFINE r == [pr[p] EXCEPT !.step = "expire", !.e = x[1], !.got = x[2], !.list = @ \ {x}]
<1>4. pr' = [pr EXCEPT ![p] = r]
  BY <1>2 DEF TakeFromList
<1>5. /\ r.step = "expire" /\ r.cmd = pr[p].cmd /\ r.list = pr[p].list \ {x}
      /\ r.e = x[1] /\ r.got = x[2]
  BY <1>1 DEF ProcessRecords
<1>6. Ordered(r)
  BY <1>1, <1>5 DEF Ordered, PublishSteps, CleanupSteps, InviteSteps
<1>7. disturbed # "publisher" => Current(r, row', library', clock, losses)
  BY <1>1, <1>5 DEF Current, Holding, StoredSteps
<1>8. disturbed # "publisher" => RowsOverdue'
  <2> SUFFICES ASSUME disturbed # "publisher", NEW e \in Entries,
                      row[e].file # None, library'[e] = Missing, losses = 0
               PROVE  row[e].expires <= clock
    BY <1>1 DEF RowsOverdue, Published
  <2>1. CASE e = x[1]
    BY <1>1, <2>1 DEF Current, SameIssue
  <2>2. CASE e # x[1]
    <3>1. library[e] = Missing
      BY <1>2, <2>2 DEF Inv, FilesTyped
    <3> QED
      BY <1>1, <3>1 DEF RowsOverdue, Published
  <2> QED
    BY <2>1, <2>2
<1>9. \A e \in Entries : SameIssue(row'[e], row[e])
  BY <1>1 DEF SameIssue
<1> QED
  BY <1>1, <1>4, <1>5, <1>6, <1>7, <1>8, <1>9, StepOverdue

LEMMA MarkExpiredOverdue ==
  ASSUME Inv, OverdueInv, NEW p \in Procs, MarkExpired(p)
  PROVE  OverdueInv'
<1>1. /\ pr[p] \in ProcessRecords /\ pr[p].got \in Rows
      /\ pr[p].step = "expire" /\ Ordered(pr[p]) /\ Holding(pr[p])
      /\ UNCHANGED <<library, clock, losses, disturbed>>
  BY AtHand, CurrentAtHand DEF MarkExpired, At, Holding, environment, files
<1> DEFINE x == [pr[p].got EXCEPT !.expired = TRUE, !.delivered = TRUE]
<1>2. UpsertSharedLibraryEntry(Entry(p), x) /\ SameIssue(x, pr[p].got)
  BY <1>1 DEF MarkExpired, SameIssue, Rows
<1>3. PICK r : /\ pr' = [pr EXCEPT ![p] = r]
               /\ r = Idle \/ r = [pr[p] EXCEPT !.step = "remove"]
  BY DEF MarkExpired, Goto, End
<1>4. /\ Ordered(r) /\ ~Holding(r) /\ r.step \notin StoredSteps
      /\ r.cmd \in {pr[p].cmd, "none"} /\ r.list \subseteq pr[p].list
  <2>1. CASE r = Idle
    BY <2>1, IdleCurrent DEF Idle, Holding, StoredSteps
  <2>2. CASE r = [pr[p] EXCEPT !.step = "remove"]
    <3>1. r.step = "remove" /\ r.cmd = pr[p].cmd /\ r.list = pr[p].list
      BY <1>1, <2>2 DEF ProcessRecords
    <3> QED
      BY <1>1, <3>1
         DEF Ordered, Holding, PublishSteps, CleanupSteps, InviteSteps, StoredSteps
  <2> QED
    BY <1>3, <2>1, <2>2
<1> QED
  BY <1>1, <1>2, <1>3, <1>4, SaveOverdue

LEMMA EveryStepOverdue ==
  ASSUME Inv, OverdueInv, NEW p \in Procs, Step(p)
  PROVE  OverdueInv'
<1>1. CASE PublishFile(p)
  BY <1>1, HashSourceOverdue, VerifySourceOverdue, StoreInLibraryOverdue, EndStoreOverdue,
     IndexSourceOverdue, PublishEntryOverdue DEF PublishFile
<1>2. CASE ReceiveEntry(p)
  BY <1>2, RetryTaskOverdue, FindRecipientOverdue, ResetRecipientOverdue,
     CreateReceiveTaskOverdue, SaveInvitationOverdue, OpenLibraryFileOverdue,
     MarkFailedOverdue, EndCopyOverdue, RecordStepsOverdue, ReadForMarkOverdue,
     MarkDeliveredOverdue DEF ReceiveEntry
<1>3. CASE ExecuteTransfer(p)
  BY <1>3, AckTaskOverdue, FetchSharedEntryOverdue DEF ExecuteTransfer
<1>4. CASE CleanupExpired(p)
  BY <1>4, ListExpiredOverdue, RemoveLibraryFileOverdue, MarkExpiredOverdue DEF CleanupExpired
<1> QED
  BY <1>1, <1>2, <1>3, <1>4 DEF Step

\* A command that begins holds nothing; one that overlaps a publication, or is
\* one and overlaps another, is no longer of concern.
LEMMA StartOverdue ==
  ASSUME Inv, OverdueInv, NEW p \in Procs, NEW cmd, NEW s, NEW e, NEW n,
         Start(p, cmd, s, e, n),
         \/ cmd \in Publishing /\ s = "hash"
         \/ cmd = "cleanup" /\ s = "list"
         \/ cmd \in {"receive", "invite"} /\ s = "create"
         \/ cmd = "retry" /\ s = "retry"
         \/ cmd = "agent" /\ s = "ack"
  PROVE  OverdueInv'
<1> DEFINE r == [Idle EXCEPT !.cmd = cmd, !.step = s, !.e = e, !.n = n]
<1>1. pr' = [pr EXCEPT ![p] = r] /\ UNCHANGED <<row, library, clock, losses>>
  BY DEF Start, files, tables
<1>2. r.cmd = cmd /\ r.step = s /\ r.list = {}
  BY DEF Idle
<1>3. Ordered(r)
  BY <1>2 DEF Ordered, PublishSteps, CleanupSteps, InviteSteps, Publishing
<1>4. Current(r, row, library, clock, losses)
  BY <1>2 DEF Current, Holding, StoredSteps
<1>5. \A q \in Procs : pr'[q] = IF q = p THEN r ELSE pr[q]
  BY <1>1 DEF Inv, ProcessesGood
<1>6. \A q \in Procs : Ordered(pr'[q])
  BY <1>3, <1>5 DEF OverdueInv
<1>7. ASSUME disturbed' # "publisher"
      PROVE  PublishersAlone' /\ ProcessesCurrent' /\ RowsOverdue'
  <2>1. disturbed # "publisher"
    BY <1>7 DEF Start, Disturb
  <2>2. PublishersAlone /\ ProcessesCurrent /\ RowsOverdue
    BY <2>1 DEF OverdueInv
  <2>3. \/ Quiet
        \/ cmd \notin Publishing /\ \A q \in Procs : pr[q].cmd \notin Publishing
    BY <1>7 DEF Start
  <2>4. PublishersAlone'
    <3>1. CASE Quiet
      BY <1>5, <3>1 DEF PublishersAlone, Quiet, Busy, Idle, Publishing
    <3>2. CASE cmd \notin Publishing /\ \A q \in Procs : pr[q].cmd \notin Publishing
      BY <1>2, <1>5, <3>2 DEF PublishersAlone
    <3> QED
      BY <2>3, <3>1, <3>2
  <2>5. ProcessesCurrent'
    BY <1>1, <1>4, <1>5, <2>2 DEF ProcessesCurrent
  <2>6. RowsOverdue'
    BY <1>1, <2>2 DEF RowsOverdue, Published
  <2> QED
    BY <2>4, <2>5, <2>6
<1> QED
  BY <1>6, <1>7 DEF OverdueInv

LEMMA CommandsOverdue ==
  ASSUME Inv, OverdueInv, NEW p \in Procs, Commands(p)
  PROVE  OverdueInv'
<1>1. CASE RunShareCleanup(p)
  BY <1>1, StartOverdue DEF RunShareCleanup
<1>2. ASSUME NEW e \in Entries, RunSharePublish(p, e) PROVE OverdueInv'
  BY <1>2, StartOverdue DEF RunSharePublish, Publishing
<1>3. ASSUME NEW e \in Entries, NEW n \in Nodes,
             \/ RunShare(p, e, n) \/ RunShareReceive(p, e, n) \/ RunShareRetry(p, e, n)
             \/ SubmitShareReceive(p, e, n) \/ RunTransfer(p, e, n)
      PROVE  OverdueInv'
  <2>1. CASE RunShare(p, e, n)
    BY <2>1, StartOverdue DEF RunShare, Publishing
  <2>2. CASE RunShareReceive(p, e, n)
    BY <2>2, StartOverdue DEF RunShareReceive
  <2>3. CASE RunShareRetry(p, e, n)
    BY <2>3, StartOverdue DEF RunShareRetry
  <2>4. CASE SubmitShareReceive(p, e, n)
    BY <2>4, StartOverdue DEF SubmitShareReceive
  <2>5. CASE RunTransfer(p, e, n)
    BY <2>5, StartOverdue DEF RunTransfer
  <2> QED
    BY <1>3, <2>1, <2>2, <2>3, <2>4, <2>5
<1> QED
  BY <1>1, <1>2, <1>3 DEF Commands

\* Nobody runs into another's way while no process takes a step.
LEMMA ProcessesLeftOverdue ==
  ASSUME Inv, OverdueInv, UNCHANGED <<pr, row>>,
         clock' \in Nat, clock <= clock', losses' \in Nat, losses <= losses',
         disturbed' # "publisher" => disturbed # "publisher",
         \A e \in Entries : library'[e] = Missing => library[e] = Missing \/ losses' > 0
  PROVE  OverdueInv'
<1>1. \A p \in Procs : Ordered(pr'[p])
  BY DEF OverdueInv
<1> SUFFICES ASSUME disturbed # "publisher"
             PROVE  PublishersAlone' /\ ProcessesCurrent' /\ RowsOverdue'
  BY <1>1 DEF OverdueInv
<1>2. PublishersAlone /\ ProcessesCurrent /\ RowsOverdue
  BY DEF OverdueInv
<1>3. PublishersAlone'
  BY <1>2 DEF PublishersAlone, Busy
<1>4. clock \in Nat /\ losses \in Nat /\ row \in [Entries -> Rows]
  BY DEF Inv, EnvironmentTyped, TablesTyped
<1>5. RowsOverdue'
  <2> SUFFICES ASSUME NEW e \in Entries, row[e].file # None, library'[e] = Missing, losses' = 0
               PROVE  row[e].expires <= clock'
    BY DEF RowsOverdue, Published
  <2>1. library[e] = Missing /\ losses = 0 /\ row[e].expires \in Nat
    BY <1>4 DEF Rows
  <2> QED
    BY <1>2, <1>4, <2>1 DEF RowsOverdue, Published
<1>6. ASSUME NEW p \in Procs PROVE Current(pr[p], row, library', clock', losses')
  <2>1. /\ pr[p] \in ProcessRecords /\ Formed(pr[p]) /\ pr[p].got \in Rows
        /\ Current(pr[p], row, library, clock, losses)
    BY <1>2, AtHand DEF ProcessesCurrent
  <2>2. ASSUME NEW x \in pr[p].list PROVE SameIssue(x[2], row[x[1]]) /\ x[2].expires <= clock'
    <3>1. x[2].expires \in Nat
      BY <2>1 DEF ProcessRecords, Rows
    <3> QED
      BY <1>4, <2>1, <3>1 DEF Current
  <2>3. pr[p].step = "expire" => pr[p].got.expires <= clock'
    BY <1>4, <2>1 DEF Current, Rows
  <2>4. pr[p].step \in StoredSteps => losses' > 0 \/ library'[pr[p].e] # Missing
    BY <1>4, <2>1 DEF Current, Formed, StoredSteps
  <2> QED
    BY <2>1, <2>2, <2>3, <2>4 DEF Current
<1> QED
  BY <1>3, <1>5, <1>6 DEF ProcessesCurrent

LEMMA EnvironmentOverdue ==
  ASSUME Inv, OverdueInv,
         \/ Tick
         \/ \E e \in Entries : LoseFile(e) \/ PutFileBack(e)
         \/ \E e \in Entries, c \in Contents \cup {Missing} : Edit(e, c)
  PROVE  OverdueInv'
<1>1. /\ clock \in Nat /\ losses \in Nat /\ clock <= clock /\ losses <= losses
      /\ library \in [Entries -> Bytes]
  BY DEF Inv, EnvironmentTyped, FilesTyped
<1>2. CASE Tick
  BY <1>1, <1>2, ProcessesLeftOverdue DEF Tick, files, tables
<1>3. ASSUME NEW e \in Entries, LoseFile(e) PROVE OverdueInv'
  <2>1. /\ losses' = losses + 1
        /\ UNCHANGED <<pr, row, clock, disturbed>>
    BY <1>3 DEF LoseFile, tables
  <2>2. losses' \in Nat /\ losses <= losses' /\ losses' > 0
    BY <1>1, <2>1
  <2> QED
    BY <1>1, <2>1, <2>2, ProcessesLeftOverdue
<1>4. ASSUME NEW e \in Entries, PutFileBack(e) PROVE OverdueInv'
  <2>1. /\ UNCHANGED <<pr, row, clock, losses, disturbed>>
        /\ library' = [library EXCEPT ![e] = row[e].file] /\ library[e] = Missing
    BY <1>4 DEF PutFileBack, tables, environment
  <2>2. \A d \in Entries : library'[d] = Missing => library[d] = Missing
    BY <1>1, <2>1
  <2> QED
    BY <1>1, <2>1, <2>2, ProcessesLeftOverdue
<1>5. ASSUME NEW e \in Entries, NEW c \in Contents \cup {Missing}, Edit(e, c) PROVE OverdueInv'
  <2>1. /\ UNCHANGED <<pr, row, library, clock, losses>>
        /\ disturbed' # "publisher" => disturbed # "publisher"
    BY <1>5 DEF Edit, Disturb, tables
  <2> QED
    BY <1>1, <2>1, ProcessesLeftOverdue
<1> QED
  BY <1>2, <1>3, <1>4, <1>5

LEMMA FaultsOverdue ==
  ASSUME Inv, OverdueInv, NEW p \in Procs, Kill(p) \/ CopyFails(p)
  PROVE  OverdueInv'
<1>1. /\ UNCHANGED <<row, library, clock, losses>>
      /\ disturbed' # "publisher" => disturbed # "publisher"
  BY DEF Kill, CopyFails, Fault, Disturb, files, tables
<1>2. CASE Kill(p)
  BY <1>1, <1>2, EndOverdue DEF Kill
<1>3. CASE pr[p].step = "stored" /\ End(p)
  BY <1>1, <1>3, CurrentAtHand, EndOverdue
<1>4. CASE pr[p].step = "copy" /\ Fail(p, pr[p].got)
  <2>1. disturbed # "publisher" => SameIssue(pr[p].got, row[Entry(p)])
    BY <1>4, CurrentAtHand DEF Current, Holding, Entry
  <2> QED
    BY <1>1, <1>4, <2>1, FailOverdue
<1> QED
  BY <1>2, <1>3, <1>4 DEF CopyFails

LEMMA InitOverdue == Init => OverdueInv
<1> SUFFICES ASSUME Init PROVE OverdueInv
  OBVIOUS
<1>1. \A p \in Procs : pr[p] = Idle
  BY DEF Init
<1>2. RowsOverdue
  BY DEF Init, RowsOverdue, Published, NoEntry
<1> QED
  BY <1>1, <1>2, IdleCurrent DEF OverdueInv, PublishersAlone, ProcessesCurrent, Busy

LEMMA NextOverdue == Inv /\ OverdueInv /\ [Next]_vars => OverdueInv'
<1> SUFFICES ASSUME Inv, OverdueInv, [Next]_vars PROVE OverdueInv'
  OBVIOUS
<1>1. ASSUME NEW p \in Procs, Commands(p) \/ Step(p) \/ Kill(p) \/ CopyFails(p)
      PROVE  OverdueInv'
  BY <1>1, CommandsOverdue, EveryStepOverdue, FaultsOverdue
<1>2. CASE UNCHANGED vars
  <2>1. UNCHANGED <<pr, row, library, clock, losses, disturbed>>
    BY <1>2 DEF vars, files, tables, environment
  <2>2. clock \in Nat /\ losses \in Nat /\ clock <= clock /\ losses <= losses
    BY DEF Inv, EnvironmentTyped
  <2> QED
    BY <2>1, <2>2, ProcessesLeftOverdue
<1> QED
  BY <1>1, <1>2, EnvironmentOverdue DEF Next

\* However commands that do not publish overlap and are killed, an entry whose
\* file CleanupExpired has removed is overdue, so that the next cleanup takes
\* it back, even when CreateReceiveTask or MarkDelivered saved it again as it
\* was before the cleanup.
THEOREM MissingEntriesAreOverdue == Spec => []MissingIsOverdue
<1>1. OverdueInv => MissingIsOverdue
  BY DEF OverdueInv, RowsOverdue, MissingIsOverdue
<1> QED
  BY <1>1, InvHolds, InitOverdue, NextOverdue, PTL DEF Spec

(***************************************************************************)
(* Undisturbed commands leave entries and files that agree.                *)
(*                                                                         *)
(* A command that is alone finds everything as it should be but what it    *)
(* is about to change: the recipient it receives for (Unsettled), the      *)
(* entry it publishes or removes (Replaced).  What it has read is still    *)
(* in the tables, and what it has done so far is there (OnCourse).         *)
(***************************************************************************)
RecipientOK(e, n) ==
  /\ row[e].to[n] = "delivered" =>
       /\ received[e][n] = row[e].file
       /\ task[e][n] = "completed"
       /\ <<e, n>> \notin byAgent => holder[e][n] = row[e].file
  /\ row[e].to[n] = "pending" => task[e][n] \in {"queued", "running"}

LibraryOK(e) ==
  IF row[e].expired
    THEN library[e] = Missing /\ row[e].expires <= clock
    ELSE \/ library[e] = row[e].file
         \/ library[e] = Missing /\ (Published(e) => losses > 0)

Unsettling == {"reset", "pend", "copy", "record", "hold", "complete", "report", "mark", "deliver"}
Replacing == {"stored", "index", "publish", "expire"}

Unsettled(p, e, n) == pr[p].step \in Unsettling /\ Entry(p) = e /\ Node(p) = n
Replaced(p, e) == pr[p].step \in Replacing /\ Entry(p) = e

Alone == \A p, q \in Procs : Busy(p) /\ Busy(q) => p = q
RecipientsSettled ==
  \A e \in Entries, n \in Nodes : RecipientOK(e, n) \/ \E p \in Procs : Unsettled(p, e, n)
LibrarySettled ==
  \A e \in Entries : LibraryOK(e) \/ \E p \in Procs : Replaced(p, e)

\* The file that is published is the one that was hashed, and is stored.
PublishOn(p) ==
  LET r == pr[p]
  IN /\ r.step \in {"verify", "store", "stored"} => r.got.file = source[r.e]
     /\ r.step \in PublishSteps => ~r.got.expired
     /\ r.step = "stored" => r.read = r.got.file
     /\ r.step \in {"index", "publish"} =>
          \/ library[r.e] = r.got.file
          \/ library[r.e] = Missing /\ losses > 0

\* The process has received the file, and has recorded where.
Has(r) ==
  \/ r.step \in {"record", "hold", "complete"}
  \/ r.step \in {"report", "mark", "deliver"} /\ r.ok
Recorded(r) ==
  \/ r.step = "complete"
  \/ r.step \in {"mark", "deliver"} /\ r.cmd # "agent"

\* What is received is what the entry names; it is received before it is
\* recorded, and the task is completed before the recipient is marked.
ReceiveOn(p) ==
  LET r == pr[p]
  IN /\ Holding(r) => r.got = row[r.e]
     /\ r.step \in {"reset", "pend", "invite", "ack"} => task[r.e][r.n] = "queued"
     /\ r.step \in {"invite", "open"} => ~row[r.e].expired
     /\ r.step = "copy" => r.read = row[r.e].file
     /\ r.step = "report" => r.cmd = "agent"
     /\ Has(r) => /\ received[r.e][r.n] = row[r.e].file
                  /\ <<r.e, r.n>> \in byAgent <=> r.cmd = "agent"
     /\ Recorded(r) => holder[r.e][r.n] = row[r.e].file
     /\ r.step \in {"mark", "deliver"} /\ r.ok => task[r.e][r.n] = "completed"

\* The list is as the table is; the entry that is taken has no file.
CleanupOn(p) ==
  LET r == pr[p]
  IN /\ \A x \in r.list : x[2] = row[x[1]] /\ x[2].expires <= clock
     /\ r.step = "expire" =>
          /\ library[r.e] = Missing /\ r.got.expires <= clock
          /\ \A x \in r.list : x[1] # r.e

OnCourse(p) == PublishOn(p) /\ ReceiveOn(p) /\ CleanupOn(p)

SettledInv ==
  disturbed = "no" =>
    Alone /\ RecipientsSettled /\ LibrarySettled /\ \A p \in Procs : OnCourse(p)

LEMMA IdleOnCourse ==
  ASSUME NEW p, pr[p] = Idle
  PROVE  OnCourse(p) /\ (\A e, n : ~Unsettled(p, e, n)) /\ (\A e : ~Replaced(p, e))
BY DEF Idle, OnCourse, PublishOn, ReceiveOn, CleanupOn, Holding, Has, Recorded, PublishSteps,
       Unsettled, Unsettling, Replaced, Replacing

LEMMA IdleStaysOnCourse ==
  ASSUME NEW p, pr'[p] = Idle
  PROVE  OnCourse(p)'
<1> DEFINE r == pr'[p]
<1>1. r.step = "idle" /\ r.list = {}
  BY DEF Idle
<1>2. ~Holding(r) /\ ~Has(r) /\ ~Recorded(r) /\ r.step \notin PublishSteps
  BY <1>1 DEF Holding, Has, Recorded, PublishSteps
<1>3. PublishOn(p)'
  BY <1>1, <1>2 DEF PublishOn
<1>4. ReceiveOn(p)'
  BY <1>1, <1>2 DEF ReceiveOn
<1>5. CleanupOn(p)'
  BY <1>1 DEF CleanupOn
<1> QED
  BY <1>3, <1>4, <1>5 DEF OnCourse

\* What a command that is alone finds.
LEMMA SettledAtHand ==
  ASSUME SettledInv, disturbed = "no", NEW p \in Procs, pr[p].step # "idle"
  PROVE  /\ OnCourse(p) /\ Busy(p)
         /\ \A e \in Entries, n \in Nodes : RecipientOK(e, n) \/ Unsettled(p, e, n)
         /\ \A e \in Entries : LibraryOK(e) \/ Replaced(p, e)
<1>1. Busy(p) /\ Alone /\ RecipientsSettled /\ LibrarySettled /\ OnCourse(p)
  BY DEF SettledInv, Busy, Idle
<1>2. \A q \in Procs : q # p => pr[q] = Idle
  BY <1>1 DEF Alone, Busy
<1>3. \A q \in Procs : \A e, n : Unsettled(q, e, n) => q = p
  BY <1>2, IdleOnCourse
<1>4. \A q \in Procs : \A e : Replaced(q, e) => q = p
  BY <1>2, IdleOnCourse
<1> QED
  BY <1>1, <1>3, <1>4 DEF RecipientsSettled, LibrarySettled

\* What it leaves.
LEMMA StepSettled ==
  ASSUME Inv, SettledInv, disturbed = "no", NEW p \in Procs, pr[p].step # "idle",
         NEW r, pr' = [pr EXCEPT ![p] = r],
         OnCourse(p)',
         \A e \in Entries, n \in Nodes : RecipientOK(e, n)' \/ Unsettled(p, e, n)',
         \A e \in Entries : LibraryOK(e)' \/ Replaced(p, e)'
  PROVE  SettledInv'
<1>1. Alone /\ Busy(p)
  BY DEF SettledInv, Busy, Idle
<1>2. \A q \in Procs : q # p => pr[q] = Idle /\ pr'[q] = pr[q]
  BY <1>1 DEF Alone, Busy
<1>3. ASSUME NEW q \in Procs, q # p PROVE OnCourse(q)'
  BY <1>2, <1>3, IdleStaysOnCourse
<1>4. Alone'
  BY <1>2 DEF Alone, Busy
<1>5. RecipientsSettled' /\ LibrarySettled'
  BY DEF RecipientsSettled, LibrarySettled
<1> QED
  BY <1>3, <1>4, <1>5 DEF SettledInv

\* A step of a receive, which writes only for its own node.
LEMMA OwnStep ==
  ASSUME Inv, OverdueInv, SettledInv, disturbed = "no", NEW p \in Procs,
         pr[p].step \in NodeSteps, NEW r, pr' = [pr EXCEPT ![p] = r],
         \/ r = Idle
         \/ /\ r.step \in NodeSteps /\ r.list = pr[p].list
            /\ r.e = Entry(p) /\ r.n = Node(p) /\ ReceiveOn(p)',
         UNCHANGED <<library, clock, losses>>,
         \A e \in Entries : /\ row'[e].file = row[e].file /\ row'[e].expires = row[e].expires
                            /\ row'[e].expired = row[e].expired,
         \A e \in Entries, n \in Nodes :
           e # Entry(p) \/ n # Node(p) =>
             /\ row'[e].to[n] = row[e].to[n] /\ received'[e][n] = received[e][n]
             /\ task'[e][n] = task[e][n] /\ holder'[e][n] = holder[e][n]
             /\ <<e, n>> \in byAgent' <=> <<e, n>> \in byAgent,
         r.step \in Unsettling
           \/ \A e \in Entries, n \in Nodes : e = Entry(p) /\ n = Node(p) => RecipientOK(e, n)'
  PROVE  SettledInv'
<1>1. /\ pr[p].step # "idle" /\ pr[p].step \notin Replacing
      /\ pr'[p] = r /\ Ordered(pr[p]) /\ pr[p].list = {}
  BY CurrentAtHand DEF NodeSteps, Replacing, Inv, ProcessesGood, Ordered, CleanupSteps
<1>2. /\ \A e \in Entries, n \in Nodes : RecipientOK(e, n) \/ Unsettled(p, e, n)
      /\ \A e \in Entries : LibraryOK(e)
  BY <1>1, SettledAtHand DEF Replaced
<1>3. \A e \in Entries : LibraryOK(e)'
  BY <1>2 DEF LibraryOK, Published
<1>4. ASSUME NEW e \in Entries, NEW n \in Nodes
      PROVE  RecipientOK(e, n)' \/ Unsettled(p, e, n)'
  <2>1. CASE e = Entry(p) /\ n = Node(p)
    <3>1. CASE r.step \in Unsettling
      <4>1. r.e = e /\ r.n = n
        BY <2>1, <3>1 DEF Idle, Unsettling
      <4> QED
        BY <1>1, <3>1, <4>1 DEF Unsettled, Entry, Node
    <3> QED
      BY <2>1, <3>1
  <2>2. CASE e # Entry(p) \/ n # Node(p)
    <3>1. RecipientOK(e, n)
      BY <1>2, <2>2 DEF Unsettled
    <3> QED
      BY <2>2, <3>1 DEF RecipientOK
  <2> QED
    BY <2>1, <2>2
<1>5. OnCourse(p)'
  <2>1. CASE r = Idle
    BY <1>1, <2>1, IdleStaysOnCourse
  <2>2. CASE r.step \in NodeSteps /\ r.list = pr[p].list /\ ReceiveOn(p)'
    BY <1>1, <2>2 DEF NodeSteps, OnCourse, PublishOn, CleanupOn, PublishSteps
  <2> QED
    BY <2>1, <2>2
<1> QED
  BY <1>1, <1>3, <1>4, <1>5, StepSettled

\* A step of a receive that only reads.
LEMMA ReadStep ==
  ASSUME Inv, OverdueInv, SettledInv, disturbed = "no", NEW p \in Procs,
         pr[p].step \in NodeSteps, NEW r, pr' = [pr EXCEPT ![p] = r],
         \/ r = Idle
         \/ /\ r.step \in NodeSteps /\ r.list = pr[p].list
            /\ r.e = Entry(p) /\ r.n = Node(p) /\ ReceiveOn(p)',
         UNCHANGED <<files, tables, clock, losses>>,
         \/ r.step \in Unsettling
         \/ pr[p].step \notin Unsettling
         \/ row[Entry(p)].to[Node(p)] = "none"
  PROVE  SettledInv'
<1>1. UNCHANGED <<library, row, received, byAgent, task, holder>>
  BY DEF files, arrived, tables
<1>2. ASSUME NEW e \in Entries, NEW n \in Nodes, e = Entry(p), n = Node(p), r.step \notin Unsettling
      PROVE  RecipientOK(e, n)'
  <2>1. RecipientOK(e, n)
    <3>1. CASE row[Entry(p)].to[Node(p)] = "none"
      BY <1>2, <3>1 DEF RecipientOK
    <3>2. CASE pr[p].step \notin Unsettling
      BY <3>2, SettledAtHand DEF Unsettled, NodeSteps
    <3> QED
      BY <1>2, <3>1, <3>2
  <2> QED
    BY <1>1, <2>1 DEF RecipientOK
<1> QED
  BY <1>1, <1>2, OwnStep

LEMMA ReceiveAtHand ==
  ASSUME Inv, OverdueInv, SettledInv, disturbed = "no", NEW p \in Procs, pr[p].step \in NodeSteps
  PROVE  /\ pr[p] \in ProcessRecords /\ Entry(p) \in Entries /\ Node(p) \in Nodes
         /\ ReceiveOn(p) /\ Ordered(pr[p])
         /\ pr[p].step \notin Unsettling => RecipientOK(Entry(p), Node(p))
         /\ LibraryOK(Entry(p))
         /\ row \in [Entries -> Rows] /\ task \in [Entries -> [Nodes -> TaskStates]]
         /\ received \in [Entries -> [Nodes -> Bytes]]
         /\ holder \in [Entries -> [Nodes -> FileIds \cup {None}]]
         /\ pr \in [Procs -> ProcessRecords]
<1>1. pr[p].step # "idle" /\ pr[p].step \notin Replacing
  BY DEF NodeSteps, Replacing
<1>2. pr[p] \in ProcessRecords /\ Entry(p) \in Entries /\ Node(p) \in Nodes
  BY AtHand DEF NodeSteps
<1>3. Ordered(pr[p]) /\ OnCourse(p)
  BY <1>1, CurrentAtHand, SettledAtHand
<1>4. /\ pr[p].step \notin Unsettling => RecipientOK(Entry(p), Node(p))
      /\ LibraryOK(Entry(p))
  BY <1>1, <1>2, SettledAtHand DEF Unsettled, Replaced
<1>5. /\ row \in [Entries -> Rows] /\ task \in [Entries -> [Nodes -> TaskStates]]
      /\ received \in [Entries -> [Nodes -> Bytes]]
      /\ holder \in [Entries -> [Nodes -> FileIds \cup {None}]]
      /\ pr \in [Procs -> ProcessRecords]
  BY DEF Inv, TablesTyped, FilesTyped, ProcessesGood
<1> QED
  BY <1>2, <1>3, <1>4, <1>5 DEF OnCourse

\* A change of the step, and the rest of the process as it was.
LEMMA GotoFields ==
  ASSUME Inv, NEW p \in Procs, NEW s, Goto(p, s)
  PROVE  \E r : /\ pr' = [pr EXCEPT ![p] = r] /\ pr'[p] = r
                /\ r.step = s /\ r.cmd = pr[p].cmd /\ r.e = Entry(p) /\ r.n = Node(p)
                /\ r.got = pr[p].got /\ r.read = pr[p].read /\ r.ok = pr[p].ok
                /\ r.list = pr[p].list
<1> DEFINE r == [pr[p] EXCEPT !.step = s]
<1>1. pr[p] \in ProcessRecords /\ pr \in [Procs -> ProcessRecords]
  BY DEF Inv, ProcessesGood
<1>2. pr' = [pr EXCEPT ![p] = r] /\ pr'[p] = r
  BY <1>1 DEF Goto
<1>3. /\ r.step = s /\ r.cmd = pr[p].cmd /\ r.e = Entry(p) /\ r.n = Node(p)
      /\ r.got = pr[p].got /\ r.read = pr[p].read /\ r.ok = pr[p].ok
      /\ r.list = pr[p].list
  BY <1>1 DEF ProcessRecords, Entry, Node
<1> HIDE DEF r
<1> QED
  BY <1>2, <1>3

\* The state of the task is written.
LEMMA TaskWritten ==
  ASSUME task \in [Entries -> [Nodes -> TaskStates]], NEW e \in Entries, NEW n \in Nodes,
         NEW st, SetTask(e, n, st)
  PROVE  /\ task'[e][n] = st
         /\ \A d \in Entries, m \in Nodes : d # e \/ m # n => task'[d][m] = task[d][m]
BY DEF SetTask

\* A recipient of the entry in the table is written.
LEMMA RecipientWritten ==
  ASSUME row \in [Entries -> Rows], NEW e \in Entries, NEW n \in Nodes,
         NEW st \in RecipientStates, NEW x \in Rows,
         x.file = row[e].file, x.expires = row[e].expires, x.expired = row[e].expired,
         x.to = [row[e].to EXCEPT ![n] = st], UpsertSharedLibraryEntry(e, x)
  PROVE  /\ \A d \in Entries : /\ row'[d].file = row[d].file
                               /\ row'[d].expires = row[d].expires
                               /\ row'[d].expired = row[d].expired
         /\ row'[e].to[n] = st
         /\ \A d \in Entries, m \in Nodes : d # e \/ m # n => row'[d].to[m] = row[d].to[m]
<1>1. \A d \in Entries : row'[d] = IF d = e THEN x ELSE row[d]
  BY DEF UpsertSharedLibraryEntry
<1>2. row[e].to \in [Nodes -> RecipientStates]
  BY DEF Rows
<1>3. \A m \in Nodes : x.to[m] = IF m = n THEN st ELSE row[e].to[m]
  BY <1>2
<1> QED
  BY <1>1, <1>3

LEMMA RetryTaskSettled ==
  ASSUME Inv, OverdueInv, SettledInv, disturbed = "no", NEW p \in Procs, RetryTask(p)
  PROVE  SettledInv'
<1>1. /\ pr[p].step \in NodeSteps /\ pr[p].step = "retry" /\ pr[p].step \notin Unsettling
      /\ UNCHANGED <<files, row, known, holder, clock, losses>>
  BY DEF RetryTask, At, environment, NodeSteps, Unsettling
<1>2. /\ Entry(p) \in Entries /\ Node(p) \in Nodes
      /\ task \in [Entries -> [Nodes -> TaskStates]]
  BY <1>1, ReceiveAtHand
<1>3. CASE End(p) /\ UNCHANGED task
  BY <1>1, <1>3, ReadStep DEF End, tables
<1>4. CASE SetTask(Entry(p), Node(p), "queued") /\ Goto(p, "reset")
  <2>1. PICK r : /\ pr' = [pr EXCEPT ![p] = r] /\ pr'[p] = r
                 /\ r.step = "reset" /\ r.e = Entry(p) /\ r.n = Node(p) /\ r.list = pr[p].list
    BY <1>4, GotoFields
  <2>2. /\ task'[Entry(p)][Node(p)] = "queued"
        /\ \A e \in Entries, n \in Nodes :
             e # Entry(p) \/ n # Node(p) => task'[e][n] = task[e][n]
    BY <1>2, <1>4, TaskWritten
  <2>3. ReceiveOn(p)'
    BY <2>1, <2>2 DEF ReceiveOn, Holding, Has, Recorded
  <2>4. r.step \in NodeSteps /\ r.step \in Unsettling
    BY <2>1 DEF NodeSteps, Unsettling
  <2> QED
    BY <1>1, <2>1, <2>2, <2>3, <2>4, OwnStep DEF files, arrived
<1> QED
  BY <1>3, <1>4 DEF RetryTask

LEMMA FindRecipientSettled ==
  ASSUME Inv, OverdueInv, SettledInv, disturbed = "no", NEW p \in Procs, FindRecipient(p)
  PROVE  SettledInv'
<1>1. /\ pr[p].step \in NodeSteps /\ pr[p].step = "reset"
      /\ UNCHANGED <<files, tables, clock, losses>> /\ UNCHANGED <<row, task>>
  BY DEF FindRecipient, At, environment, tables, NodeSteps
<1>2. pr[p] \in ProcessRecords /\ pr \in [Procs -> ProcessRecords] /\ ReceiveOn(p)
  BY <1>1, ReceiveAtHand
<1>3. PICK s : /\ pr' = [pr EXCEPT ![p].got = row[Entry(p)], ![p].step = s]
               /\ s = IF row[Entry(p)].to[Node(p)] = "none" THEN "create" ELSE "pend"
  BY DEF FindRecipient
<1> DEFINE r == [pr[p] EXCEPT !.got = row[Entry(p)], !.step = s]
<1>4. pr' = [pr EXCEPT ![p] = r] /\ pr'[p] = r
  BY <1>2, <1>3
<1>5. /\ r.step = s /\ r.e = Entry(p) /\ r.n = Node(p) /\ r.got = row[Entry(p)]
      /\ r.list = pr[p].list
  BY <1>2 DEF ProcessRecords, Entry, Node
<1> HIDE DEF r
<1>6. task[Entry(p)][Node(p)] = "queued"
  BY <1>1, <1>2 DEF ReceiveOn, Entry, Node
<1>7. ReceiveOn(p)'
  BY <1>1, <1>3, <1>4, <1>5, <1>6 DEF ReceiveOn, Holding, Has, Recorded
<1>8. r.step \in NodeSteps /\ (r.step \in Unsettling \/ row[Entry(p)].to[Node(p)] = "none")
  BY <1>3, <1>5 DEF NodeSteps, Unsettling
<1> QED
  BY <1>1, <1>4, <1>5, <1>7, <1>8, ReadStep

\* A recipient is saved, and the command ends or goes on.
LEMMA SaveStep ==
  ASSUME Inv, OverdueInv, SettledInv, disturbed = "no", NEW p \in Procs,
         pr[p].step \in NodeSteps, Holding(pr[p]),
         NEW st \in RecipientStates, NEW x \in Rows,
         x.file = pr[p].got.file, x.expires = pr[p].got.expires,
         x.expired = pr[p].got.expired, x.to = [pr[p].got.to EXCEPT ![Node(p)] = st],
         UpsertSharedLibraryEntry(Entry(p), x),
         UNCHANGED <<files, task, holder, clock, losses>>,
         \/ End(p)
         \/ Goto(p, "create")
         \/ Goto(p, "open") /\ pr[p].cmd # "agent" /\ ~pr[p].got.expired,
         st = "pending" => task[Entry(p)][Node(p)] = "queued",
         st = "delivered" =>
           /\ received[Entry(p)][Node(p)] = row[Entry(p)].file
           /\ task[Entry(p)][Node(p)] = "completed"
           /\ <<Entry(p), Node(p)>> \notin byAgent =>
                holder[Entry(p)][Node(p)] = row[Entry(p)].file
  PROVE  SettledInv'
<1>1. UNCHANGED <<library, received, byAgent, task, holder, clock, losses>>
  BY DEF files, arrived
<1>2. /\ Entry(p) \in Entries /\ Node(p) \in Nodes /\ row \in [Entries -> Rows] /\ ReceiveOn(p)
  BY ReceiveAtHand
<1>3. pr[p].got = row[Entry(p)]
  BY <1>2 DEF ReceiveOn, Entry
<1>4. /\ \A d \in Entries : /\ row'[d].file = row[d].file /\ row'[d].expires = row[d].expires
                            /\ row'[d].expired = row[d].expired
      /\ row'[Entry(p)].to[Node(p)] = st
      /\ \A d \in Entries, m \in Nodes :
           d # Entry(p) \/ m # Node(p) => row'[d].to[m] = row[d].to[m]
  BY <1>2, <1>3, RecipientWritten
<1>5. \A e \in Entries, n \in Nodes : e = Entry(p) /\ n = Node(p) => RecipientOK(e, n)'
  BY <1>1, <1>4 DEF RecipientOK
<1>6. CASE End(p)
  BY <1>1, <1>4, <1>5, <1>6, OwnStep DEF End
<1>7. ASSUME NEW s \in {"create", "open"}, Goto(p, s),
             s = "open" => pr[p].cmd # "agent" /\ ~pr[p].got.expired
      PROVE  SettledInv'
  <2>1. PICK r : /\ pr' = [pr EXCEPT ![p] = r] /\ pr'[p] = r
                 /\ r.step = s /\ r.cmd = pr[p].cmd /\ r.e = Entry(p) /\ r.n = Node(p)
                 /\ r.list = pr[p].list
    BY <1>7, GotoFields
  <2>2. r.step \in NodeSteps
    BY <2>1 DEF NodeSteps
  <2>3. ReceiveOn(p)'
    <3>1. ~Holding(r) /\ ~Has(r) /\ ~Recorded(r)
      BY <1>7, <2>1 DEF Holding, Has, Recorded
    <3>2. r.step = "open" => ~row'[Entry(p)].expired
      BY <1>2, <1>3, <1>4, <1>7, <2>1
    <3>3. r.step \in {"create", "open"}
      BY <1>7, <2>1
    <3> QED
      BY <2>1, <3>1, <3>2, <3>3 DEF ReceiveOn
  <2>4. /\ \A d \in Entries : /\ row'[d].file = row[d].file /\ row'[d].expires = row[d].expires
                             /\ row'[d].expired = row[d].expired
        /\ \A d \in Entries, m \in Nodes :
             d # Entry(p) \/ m # Node(p) =>
               /\ row'[d].to[m] = row[d].to[m] /\ received'[d][m] = received[d][m]
               /\ task'[d][m] = task[d][m] /\ holder'[d][m] = holder[d][m]
               /\ <<d, m>> \in byAgent' <=> <<d, m>> \in byAgent
    BY <1>1, <1>4
  <2>5. UNCHANGED <<library, clock, losses>>
    BY <1>1
  <2> QED
    BY <1>5, <2>1, <2>2, <2>3, <2>4, <2>5, OwnStep
<1> QED
  BY <1>6, <1>7

LEMMA RecipientRow ==
  ASSUME NEW x \in Rows, NEW n \in Nodes, NEW st \in RecipientStates
  PROVE  LET y == SetRecipient(x, n, st)
         IN  /\ y \in Rows /\ y.file = x.file /\ y.expires = x.expires /\ y.expired = x.expired
             /\ y.to = [x.to EXCEPT ![n] = st]
BY DEF SetRecipient, Rows

LEMMA SaveRecipient ==
  ASSUME Inv, OverdueInv, SettledInv, disturbed = "no", NEW p \in Procs,
         pr[p].step \in NodeSteps, Holding(pr[p]), NEW st \in {"pending", "failed"},
         UpsertSharedLibraryEntry(Entry(p), SetRecipient(pr[p].got, Node(p), st)),
         UNCHANGED <<files, task, holder, clock, losses>>,
         \/ End(p)
         \/ Goto(p, "create")
         \/ Goto(p, "open") /\ pr[p].cmd # "agent" /\ ~pr[p].got.expired,
         st = "pending" => task[Entry(p)][Node(p)] = "queued"
  PROVE  SettledInv'
<1>1. pr[p].got \in Rows /\ Node(p) \in Nodes /\ st \in RecipientStates
  BY AtHand DEF RecipientStates
<1> DEFINE x == SetRecipient(pr[p].got, Node(p), st)
<1>2. /\ x \in Rows /\ x.file = pr[p].got.file /\ x.expires = pr[p].got.expires
      /\ x.expired = pr[p].got.expired /\ x.to = [pr[p].got.to EXCEPT ![Node(p)] = st]
  BY <1>1, RecipientRow
<1>3. UpsertSharedLibraryEntry(Entry(p), x)
  OBVIOUS
<1>4. st # "delivered"
  OBVIOUS
<1> HIDE DEF x
<1> QED
  BY <1>1, <1>2, <1>3, <1>4, SaveStep

LEMMA RecipientSteps ==
  ASSUME Inv, OverdueInv, SettledInv, disturbed = "no", NEW p \in Procs,
         ResetRecipient(p) \/ SaveInvitation(p) \/ MarkFailed(p)
  PROVE  SettledInv'
<1>1. /\ pr[p].step \in NodeSteps /\ Holding(pr[p])
      /\ pr[p].step \in {"pend", "invite", "fail"}
      /\ UNCHANGED <<files, task, holder, clock, losses>>
  BY DEF ResetRecipient, SaveInvitation, MarkFailed, At, environment, Holding, NodeSteps
<1>2. ReceiveOn(p) /\ Ordered(pr[p])
  BY <1>1, ReceiveAtHand, AtHand
<1>3. pr[p].step \in {"pend", "invite"} => task[Entry(p)][Node(p)] = "queued"
  BY <1>2 DEF ReceiveOn, Entry, Node
<1>4. CASE ResetRecipient(p)
  <2>1. /\ UpsertSharedLibraryEntry(Entry(p), SetRecipient(pr[p].got, Node(p), "pending"))
        /\ Goto(p, "create") /\ pr[p].step = "pend"
    BY <1>4 DEF ResetRecipient, At
  <2> QED
    BY <1>1, <1>3, <2>1, SaveRecipient
<1>5. CASE SaveInvitation(p)
  <2>1. /\ UpsertSharedLibraryEntry(Entry(p), SetRecipient(pr[p].got, Node(p), "pending"))
        /\ End(p) \/ Goto(p, "open")
        /\ pr[p].step = "invite"
    BY <1>5 DEF SaveInvitation, At
  <2>2. pr[p].cmd # "agent" /\ ~pr[p].got.expired
    BY <1>1, <1>2, <2>1 DEF Ordered, InviteSteps, ReceiveOn
  <2> QED
    BY <1>1, <1>3, <2>1, <2>2, SaveRecipient
<1>6. CASE MarkFailed(p)
  <2>1. /\ UpsertSharedLibraryEntry(Entry(p), SetRecipient(pr[p].got, Node(p), "failed"))
        /\ End(p)
    BY <1>6 DEF MarkFailed
  <2> QED
    BY <1>1, <2>1, SaveRecipient
<1> QED
  BY <1>4, <1>5, <1>6

LEMMA CreateReceiveTaskSettled ==
  ASSUME Inv, OverdueInv, SettledInv, disturbed = "no", NEW p \in Procs, CreateReceiveTask(p)
  PROVE  SettledInv'
<1>1. /\ pr[p].step \in NodeSteps /\ pr[p].step = "create" /\ pr[p].step \notin Unsettling
      /\ UNCHANGED <<files, row, known, holder, clock, losses>>
  BY DEF CreateReceiveTask, At, environment, NodeSteps, Unsettling
<1>2. /\ Entry(p) \in Entries /\ Node(p) \in Nodes /\ pr[p] \in ProcessRecords
      /\ pr \in [Procs -> ProcessRecords] /\ task \in [Entries -> [Nodes -> TaskStates]]
      /\ pr[p].cmd # "agent"
  BY <1>1, ReceiveAtHand DEF Ordered, InviteSteps
<1>3. CASE End(p) /\ UNCHANGED task
  BY <1>1, <1>3, ReadStep DEF End, tables
<1>4. CASE Goto(p, "open") /\ ~row[Entry(p)].expired /\ UNCHANGED task
  <2>1. PICK r : /\ pr' = [pr EXCEPT ![p] = r] /\ pr'[p] = r /\ r.cmd = pr[p].cmd
                 /\ r.step = "open" /\ r.e = Entry(p) /\ r.n = Node(p) /\ r.list = pr[p].list
    BY <1>4, GotoFields
  <2>2. ReceiveOn(p)' /\ r.step \in NodeSteps
    BY <1>1, <1>2, <1>4, <2>1 DEF ReceiveOn, Holding, Has, Recorded, NodeSteps
  <2> QED
    BY <1>1, <1>4, <2>1, <2>2, ReadStep DEF tables
<1>5. CASE /\ ~row[Entry(p)].expired /\ row[Entry(p)].to[Node(p)] # "delivered"
           /\ SetTask(Entry(p), Node(p), "queued")
           /\ pr' = [pr EXCEPT ![p].step = "invite", ![p].got = row[Entry(p)]]
  <2> DEFINE r == [pr[p] EXCEPT !.step = "invite", !.got = row[Entry(p)]]
  <2>1. pr' = [pr EXCEPT ![p] = r] /\ pr'[p] = r
    BY <1>2, <1>5
  <2>2. /\ r.step = "invite" /\ r.e = Entry(p) /\ r.n = Node(p) /\ r.got = row[Entry(p)]
        /\ r.list = pr[p].list
    BY <1>2 DEF ProcessRecords, Entry, Node
  <2> HIDE DEF r
  <2>3. /\ task'[Entry(p)][Node(p)] = "queued"
        /\ \A e \in Entries, n \in Nodes :
             e # Entry(p) \/ n # Node(p) => task'[e][n] = task[e][n]
    BY <1>2, <1>5, TaskWritten
  <2>4. ReceiveOn(p)' /\ r.step \in NodeSteps
    BY <1>1, <1>5, <2>1, <2>2, <2>3 DEF ReceiveOn, Holding, Has, Recorded, NodeSteps
  <2>5. \A e \in Entries, n \in Nodes : e = Entry(p) /\ n = Node(p) => RecipientOK(e, n)'
    BY <1>1, <1>5, <2>3 DEF RecipientOK
  <2> QED
    BY <1>1, <2>1, <2>2, <2>3, <2>4, <2>5, OwnStep DEF files, arrived
<1> QED
  BY <1>3, <1>4, <1>5 DEF CreateReceiveTask

\* What a receive opens is the file of its entry.
LEMMA OpenLibraryFileSettled ==
  ASSUME Inv, OverdueInv, SettledInv, disturbed = "no", NEW p \in Procs, OpenLibraryFile(p)
  PROVE  SettledInv'
<1> DEFINE x == IF pr[p].cmd = "agent" THEN pr[p].got ELSE row[Entry(p)]
<1>1. /\ pr[p].step \in NodeSteps /\ pr[p].step = "open" /\ pr[p].step \notin Unsettling
      /\ UNCHANGED <<library, byAgent, clock, losses>> /\ UNCHANGED <<source, tables>>
      /\ UNCHANGED <<row, task, holder>>
  BY DEF OpenLibraryFile, At, environment, tables, NodeSteps, Unsettling
<1>2. /\ Entry(p) \in Entries /\ Node(p) \in Nodes /\ pr[p] \in ProcessRecords
      /\ pr \in [Procs -> ProcessRecords] /\ received \in [Entries -> [Nodes -> Bytes]]
      /\ ReceiveOn(p) /\ LibraryOK(Entry(p))
  BY <1>1, ReceiveAtHand
<1>3. x = row[Entry(p)] /\ ~row[Entry(p)].expired
  BY <1>1, <1>2 DEF ReceiveOn, Holding, Entry
<1>4. CASE Fail(p, x) /\ UNCHANGED received
  <2>1. UNCHANGED <<files, tables, clock, losses>>
    BY <1>1, <1>4 DEF files, arrived
  <2>2. CASE End(p)
    BY <1>1, <2>1, <2>2, ReadStep DEF End
  <2>3. CASE pr[p].cmd = "agent" /\ pr' = [pr EXCEPT ![p].step = "report", ![p].ok = FALSE]
    <3> DEFINE r == [pr[p] EXCEPT !.step = "report", !.ok = FALSE]
    <3>1. pr' = [pr EXCEPT ![p] = r] /\ pr'[p] = r
      BY <1>2, <2>3
    <3>2. /\ r.step = "report" /\ r.e = Entry(p) /\ r.n = Node(p) /\ ~r.ok /\ r.cmd = pr[p].cmd
          /\ r.list = pr[p].list
      BY <1>2 DEF ProcessRecords, Entry, Node
    <3> HIDE DEF r
    <3>3. ReceiveOn(p)' /\ r.step \in NodeSteps
      BY <2>3, <3>1, <3>2 DEF ReceiveOn, Holding, Has, Recorded, NodeSteps
    <3> QED
      BY <1>1, <2>1, <3>1, <3>2, <3>3, ReadStep
  <2>4. CASE pr' = [pr EXCEPT ![p].step = "fail", ![p].got = x]
    <3> DEFINE r == [pr[p] EXCEPT !.step = "fail", !.got = row[Entry(p)]]
    <3>1. pr' = [pr EXCEPT ![p] = r] /\ pr'[p] = r
      BY <1>2, <1>3, <2>4
    <3>2. /\ r.step = "fail" /\ r.e = Entry(p) /\ r.n = Node(p) /\ r.got = row[Entry(p)]
          /\ r.list = pr[p].list
      BY <1>2 DEF ProcessRecords, Entry, Node
    <3> HIDE DEF r
    <3>3. ReceiveOn(p)' /\ r.step \in NodeSteps
      BY <1>1, <3>1, <3>2 DEF ReceiveOn, Holding, Has, Recorded, NodeSteps
    <3> QED
      BY <1>1, <2>1, <3>1, <3>2, <3>3, ReadStep
  <2> QED
    BY <1>4, <2>2, <2>3, <2>4 DEF Fail
<1>5. CASE /\ library[Entry(p)] # Missing
           /\ received' = [received EXCEPT ![Entry(p)][Node(p)] = Torn]
           /\ pr' = [pr EXCEPT ![p].step = "copy", ![p].read = library[Entry(p)], ![p].got = x]
  <2> DEFINE r == [pr[p] EXCEPT !.step = "copy", !.read = library[Entry(p)],
                                !.got = row[Entry(p)]]
  <2>1. pr' = [pr EXCEPT ![p] = r] /\ pr'[p] = r
    BY <1>2, <1>3, <1>5
  <2>2. /\ r.step = "copy" /\ r.e = Entry(p) /\ r.n = Node(p) /\ r.got = row[Entry(p)]
        /\ r.read = library[Entry(p)] /\ r.list = pr[p].list
    BY <1>2 DEF ProcessRecords, Entry, Node
  <2> HIDE DEF r
  <2>3. \A e \in Entries, n \in Nodes :
          e # Entry(p) \/ n # Node(p) => received'[e][n] = received[e][n]
    BY <1>2, <1>5
  <2>4. library[Entry(p)] = row[Entry(p)].file
    BY <1>2, <1>3, <1>5 DEF LibraryOK
  <2>5. ReceiveOn(p)' /\ r.step \in NodeSteps /\ r.step \in Unsettling
    BY <1>1, <2>1, <2>2, <2>4 DEF ReceiveOn, Holding, Has, Recorded, NodeSteps, Unsettling
  <2> QED
    BY <1>1, <2>1, <2>2, <2>3, <2>5, OwnStep
<1> QED
  BY <1>4, <1>5 DEF OpenLibraryFile

LEMMA EndCopySettled ==
  ASSUME Inv, OverdueInv, SettledInv, disturbed = "no", NEW p \in Procs, EndCopy(p)
  PROVE  SettledInv'
<1>1. /\ pr[p].step \in NodeSteps /\ pr[p].step = "copy"
      /\ UNCHANGED <<library, row, task, holder, clock, losses>>
      /\ received' = [received EXCEPT ![Entry(p)][Node(p)] = pr[p].read]
  BY DEF EndCopy, At, environment, tables, NodeSteps
<1>2. /\ Entry(p) \in Entries /\ Node(p) \in Nodes /\ received \in [Entries -> [Nodes -> Bytes]]
      /\ ReceiveOn(p)
  BY <1>1, ReceiveAtHand
<1>3. pr[p].read = row[Entry(p)].file
  BY <1>1, <1>2 DEF ReceiveOn, Entry
<1>4. /\ received'[Entry(p)][Node(p)] = row[Entry(p)].file
      /\ \A e \in Entries, n \in Nodes :
           e # Entry(p) \/ n # Node(p) => received'[e][n] = received[e][n]
  BY <1>1, <1>2, <1>3
<1>5. PICK s \in {"report", "record"} : /\ Goto(p, s)
                                        /\ s = "report" <=> pr[p].cmd = "agent"
  BY DEF EndCopy
<1>6. PICK r : /\ pr' = [pr EXCEPT ![p] = r] /\ pr'[p] = r /\ r.cmd = pr[p].cmd
               /\ r.step = s /\ r.e = Entry(p) /\ r.n = Node(p) /\ r.list = pr[p].list
  BY <1>5, GotoFields
<1>7. /\ <<Entry(p), Node(p)>> \in byAgent' <=> pr[p].cmd = "agent"
      /\ \A e \in Entries, n \in Nodes :
           e # Entry(p) \/ n # Node(p) => (<<e, n>> \in byAgent' <=> <<e, n>> \in byAgent)
  BY DEF EndCopy
<1>8. ReceiveOn(p)' /\ r.step \in NodeSteps /\ r.step \in Unsettling
  BY <1>1, <1>4, <1>5, <1>6, <1>7 DEF ReceiveOn, Holding, Has, Recorded, NodeSteps, Unsettling
<1> QED
  BY <1>1, <1>4, <1>6, <1>7, <1>8, OwnStep

LEMMA RecordReceivedSettled ==
  ASSUME Inv, OverdueInv, SettledInv, disturbed = "no", NEW p \in Procs,
         RecordReceived(p) \/ UpsertDeviceFile(p)
  PROVE  SettledInv'
<1>1. /\ pr[p].step \in NodeSteps /\ pr[p].step \in {"record", "hold"}
      /\ UNCHANGED <<library, row, task, received, byAgent, clock, losses>>
  BY DEF RecordReceived, UpsertDeviceFile, At, environment, files, arrived, NodeSteps
<1>2. /\ Entry(p) \in Entries /\ Node(p) \in Nodes /\ ReceiveOn(p)
      /\ holder \in [Entries -> [Nodes -> FileIds \cup {None}]]
  BY <1>1, ReceiveAtHand
<1>3. /\ received[Entry(p)][Node(p)] = row[Entry(p)].file
      /\ <<Entry(p), Node(p)>> \in byAgent <=> pr[p].cmd = "agent"
  BY <1>1, <1>2 DEF ReceiveOn, Has, Entry, Node
<1>4. PICK s \in {"hold", "complete"} :
        /\ Goto(p, s)
        /\ s = "complete" => holder'[Entry(p)][Node(p)] = row[Entry(p)].file
        /\ \A e \in Entries, n \in Nodes :
             e # Entry(p) \/ n # Node(p) => holder'[e][n] = holder[e][n]
  BY <1>2, <1>3 DEF RecordReceived, UpsertDeviceFile
<1>5. PICK r : /\ pr' = [pr EXCEPT ![p] = r] /\ pr'[p] = r /\ r.cmd = pr[p].cmd
               /\ r.step = s /\ r.e = Entry(p) /\ r.n = Node(p) /\ r.list = pr[p].list
  BY <1>4, GotoFields
<1>6. ReceiveOn(p)' /\ r.step \in NodeSteps /\ r.step \in Unsettling
  BY <1>1, <1>3, <1>4, <1>5 DEF ReceiveOn, Holding, Has, Recorded, NodeSteps, Unsettling
<1> QED
  BY <1>1, <1>4, <1>5, <1>6, OwnStep

\* A task is completed, by a command or by a report, when the file is there.
LEMMA CompleteTaskSettled ==
  ASSUME Inv, OverdueInv, SettledInv, disturbed = "no", NEW p \in Procs,
         CompleteTask(p) \/ ReportTaskResult(p)
  PROVE  SettledInv'
<1>1. /\ pr[p].step \in NodeSteps /\ pr[p].step \in {"complete", "report"}
      /\ UNCHANGED <<library, row, holder, received, byAgent, clock, losses>>
      /\ Goto(p, "mark")
  BY DEF CompleteTask, ReportTaskResult, At, environment, files, arrived, NodeSteps
<1>2. /\ Entry(p) \in Entries /\ Node(p) \in Nodes /\ ReceiveOn(p)
      /\ task \in [Entries -> [Nodes -> TaskStates]]
  BY <1>1, ReceiveAtHand
<1>3. PICK st : SetTask(Entry(p), Node(p), st) /\ (pr[p].ok => st = "completed")
  BY DEF CompleteTask, ReportTaskResult
<1>4. /\ task'[Entry(p)][Node(p)] = st
      /\ \A e \in Entries, n \in Nodes :
           e # Entry(p) \/ n # Node(p) => task'[e][n] = task[e][n]
  BY <1>2, <1>3, TaskWritten
<1>5. PICK r : /\ pr' = [pr EXCEPT ![p] = r] /\ pr'[p] = r /\ r.cmd = pr[p].cmd
               /\ r.ok = pr[p].ok
               /\ r.step = "mark" /\ r.e = Entry(p) /\ r.n = Node(p) /\ r.list = pr[p].list
  BY <1>1, GotoFields
<1>6. pr[p].step = "report" => pr[p].cmd = "agent"
  BY <1>2 DEF ReceiveOn
<1>7. ReceiveOn(p)'
  <2>1. ~Holding(r) /\ (Has(r) => r.ok) /\ (Recorded(r) => r.cmd # "agent")
    BY <1>5 DEF Holding, Has, Recorded
  <2>2. (r.ok => Has(pr[p])) /\ (r.cmd # "agent" => Recorded(pr[p]))
    BY <1>1, <1>5, <1>6 DEF Has, Recorded
  <2>3. /\ Has(pr[p]) => /\ received[Entry(p)][Node(p)] = row[Entry(p)].file
                         /\ <<Entry(p), Node(p)>> \in byAgent <=> pr[p].cmd = "agent"
        /\ Recorded(pr[p]) => holder[Entry(p)][Node(p)] = row[Entry(p)].file
    BY <1>2 DEF ReceiveOn, Entry, Node
  <2>4. r.ok => task'[Entry(p)][Node(p)] = "completed"
    BY <1>3, <1>4, <1>5
  <2> QED
    BY <1>1, <1>5, <2>1, <2>2, <2>3, <2>4 DEF ReceiveOn
<1>8. r.step \in NodeSteps /\ r.step \in Unsettling
  BY <1>5 DEF NodeSteps, Unsettling
<1> QED
  BY <1>1, <1>4, <1>5, <1>7, <1>8, OwnStep

LEMMA ReadForMarkSettled ==
  ASSUME Inv, OverdueInv, SettledInv, disturbed = "no", NEW p \in Procs, ReadForMark(p)
  PROVE  SettledInv'
<1>1. /\ pr[p].step \in NodeSteps /\ pr[p].step = "mark"
      /\ UNCHANGED <<files, tables, clock, losses>>
      /\ UNCHANGED <<row, task, holder, received, byAgent>>
  BY DEF ReadForMark, At, environment, tables, files, arrived, NodeSteps
<1>2. pr[p] \in ProcessRecords /\ pr \in [Procs -> ProcessRecords] /\ ReceiveOn(p)
  BY <1>1, ReceiveAtHand
<1> DEFINE r == [pr[p] EXCEPT !.step = "deliver", !.got = row[Entry(p)]]
<1>3. pr' = [pr EXCEPT ![p] = r] /\ pr'[p] = r
  BY <1>2 DEF ReadForMark
<1>4. /\ r.step = "deliver" /\ r.e = Entry(p) /\ r.n = Node(p) /\ r.got = row[Entry(p)]
      /\ r.list = pr[p].list /\ r.cmd = pr[p].cmd /\ r.ok = pr[p].ok
  BY <1>2 DEF ProcessRecords, Entry, Node
<1> HIDE DEF r
<1>5. ReceiveOn(p)' /\ r.step \in NodeSteps /\ r.step \in Unsettling
  BY <1>1, <1>2, <1>3, <1>4
     DEF ReceiveOn, Holding, Has, Recorded, NodeSteps, Unsettling, Entry, Node
<1> QED
  BY <1>1, <1>3, <1>4, <1>5, ReadStep

LEMMA MarkDeliveredSettled ==
  ASSUME Inv, OverdueInv, SettledInv, disturbed = "no", NEW p \in Procs, MarkDelivered(p)
  PROVE  SettledInv'
<1>1. /\ pr[p].step \in NodeSteps /\ pr[p].step = "deliver" /\ Holding(pr[p])
      /\ UNCHANGED <<files, task, holder, clock, losses>> /\ End(p)
  BY DEF MarkDelivered, At, environment, Holding, NodeSteps
<1>2. /\ pr[p].got \in Rows /\ Node(p) \in Nodes /\ Entry(p) \in Entries /\ ReceiveOn(p)
  BY <1>1, ReceiveAtHand, AtHand
<1>3. PICK st \in {"delivered", "failed"}, b \in BOOLEAN :
        /\ UpsertSharedLibraryEntry(Entry(p),
             [SetRecipient(pr[p].got, Node(p), st) EXCEPT !.delivered = b])
        /\ st = "delivered" => pr[p].ok
  BY DEF MarkDelivered
<1>4. st \in RecipientStates /\ st # "pending"
  BY DEF RecipientStates
<1> DEFINE y == SetRecipient(pr[p].got, Node(p), st)
           x == [y EXCEPT !.delivered = b]
<1>5. /\ y \in Rows /\ y.file = pr[p].got.file /\ y.expires = pr[p].got.expires
      /\ y.expired = pr[p].got.expired /\ y.to = [pr[p].got.to EXCEPT ![Node(p)] = st]
  BY <1>2, <1>4, RecipientRow
<1>6. UpsertSharedLibraryEntry(Entry(p), x)
  BY <1>3
<1> HIDE DEF y
<1>7. /\ x \in Rows /\ x.file = y.file /\ x.expires = y.expires
      /\ x.expired = y.expired /\ x.to = y.to
  BY <1>5 DEF Rows
<1>8. st = "delivered" =>
           /\ received[Entry(p)][Node(p)] = row[Entry(p)].file
           /\ task[Entry(p)][Node(p)] = "completed"
           /\ <<Entry(p), Node(p)>> \notin byAgent =>
                holder[Entry(p)][Node(p)] = row[Entry(p)].file
  BY <1>1, <1>2, <1>3 DEF ReceiveOn, Has, Recorded, Entry, Node
<1> HIDE DEF x
<1> QED
  BY <1>1, <1>4, <1>5, <1>6, <1>7, <1>8, SaveStep

LEMMA AckTaskSettled ==
  ASSUME Inv, OverdueInv, SettledInv, disturbed = "no", NEW p \in Procs, AckTask(p)
  PROVE  SettledInv'
<1>1. /\ pr[p].step \in NodeSteps /\ pr[p].step = "ack" /\ pr[p].step \notin Unsettling
      /\ UNCHANGED <<library, row, holder, received, byAgent, clock, losses>>
      /\ Goto(p, "fetch") /\ SetTask(Entry(p), Node(p), "running")
  BY DEF AckTask, At, environment, files, arrived, NodeSteps, Unsettling
<1>2. /\ Entry(p) \in Entries /\ Node(p) \in Nodes /\ ReceiveOn(p)
      /\ task \in [Entries -> [Nodes -> TaskStates]] /\ RecipientOK(Entry(p), Node(p))
  BY <1>1, ReceiveAtHand
<1>3. row[Entry(p)].to[Node(p)] # "delivered"
  BY <1>1, <1>2 DEF ReceiveOn, RecipientOK, Entry, Node
<1>4. /\ task'[Entry(p)][Node(p)] = "running"
      /\ \A e \in Entries, n \in Nodes :
           e # Entry(p) \/ n # Node(p) => task'[e][n] = task[e][n]
  BY <1>1, <1>2, TaskWritten
<1>5. PICK r : /\ pr' = [pr EXCEPT ![p] = r] /\ pr'[p] = r
               /\ r.step = "fetch" /\ r.e = Entry(p) /\ r.n = Node(p) /\ r.list = pr[p].list
  BY <1>1, GotoFields
<1>6. ReceiveOn(p)' /\ r.step \in NodeSteps
  BY <1>5 DEF ReceiveOn, Holding, Has, Recorded, NodeSteps
<1>7. \A e \in Entries, n \in Nodes : e = Entry(p) /\ n = Node(p) => RecipientOK(e, n)'
  BY <1>1, <1>3, <1>4 DEF RecipientOK
<1> QED
  BY <1>1, <1>4, <1>5, <1>6, <1>7, OwnStep

LEMMA FetchSharedEntrySettled ==
  ASSUME Inv, OverdueInv, SettledInv, disturbed = "no", NEW p \in Procs, FetchSharedEntry(p)
  PROVE  SettledInv'
<1>1. /\ pr[p].step \in NodeSteps /\ pr[p].step = "fetch" /\ pr[p].step \notin Unsettling
      /\ UNCHANGED <<files, tables, clock, losses>> /\ UNCHANGED row
  BY DEF FetchSharedEntry, At, environment, tables, NodeSteps, Unsettling
<1>2. /\ pr[p] \in ProcessRecords /\ pr \in [Procs -> ProcessRecords] /\ pr[p].cmd = "agent"
  BY <1>1, ReceiveAtHand, AtHand DEF Formed
<1>3. PICK s \in {"report", "open"}, b \in BOOLEAN :
        /\ pr' = [pr EXCEPT ![p].got = row[Entry(p)], ![p].step = s, ![p].ok = b]
        /\ s = "report" => ~b
        /\ s = "open" => ~row[Entry(p)].expired
  BY DEF FetchSharedEntry
<1> DEFINE r == [pr[p] EXCEPT !.got = row[Entry(p)], !.step = s, !.ok = b]
<1>4. pr' = [pr EXCEPT ![p] = r] /\ pr'[p] = r
  BY <1>2, <1>3
<1>5. /\ r.step = s /\ r.e = Entry(p) /\ r.n = Node(p) /\ r.got = row[Entry(p)]
      /\ r.list = pr[p].list /\ r.cmd = pr[p].cmd /\ r.ok = b
  BY <1>2 DEF ProcessRecords, Entry, Node
<1> HIDE DEF r
<1>6. ReceiveOn(p)' /\ r.step \in NodeSteps
  BY <1>1, <1>2, <1>3, <1>4, <1>5 DEF ReceiveOn, Holding, Has, Recorded, NodeSteps
<1> QED
  BY <1>1, <1>4, <1>5, <1>6, ReadStep

\* A publication or a cleanup finds all recipients settled.
LEMMA CommandAtHand ==
  ASSUME Inv, OverdueInv, SettledInv, disturbed = "no", NEW p \in Procs,
         pr[p].step \in PublishSteps \cup CleanupSteps
  PROVE  /\ pr[p] \in ProcessRecords /\ pr \in [Procs -> ProcessRecords] /\ pr[p].got \in Rows
         /\ pr[p].step \notin {"list", "remove"} => Entry(p) \in Entries
         /\ pr[p].step # "idle" /\ Ordered(pr[p])
         /\ PublishOn(p) /\ ReceiveOn(p) /\ CleanupOn(p)
         /\ \A e \in Entries, n \in Nodes : RecipientOK(e, n)
         /\ \A e \in Entries : LibraryOK(e) \/ (pr[p].step \in Replacing /\ Entry(p) = e)
         /\ row \in [Entries -> Rows] /\ library \in [Entries -> Bytes]
<1>1. pr[p].step # "idle" /\ pr[p].step \notin Unsettling
  BY DEF PublishSteps, CleanupSteps, Unsettling
<1>2. /\ pr[p] \in ProcessRecords /\ Ordered(pr[p]) /\ pr[p].got \in Rows
      /\ pr[p].step \notin {"list", "remove"} => Entry(p) \in Entries
      /\ row \in [Entries -> Rows] /\ library \in [Entries -> Bytes]
      /\ pr \in [Procs -> ProcessRecords]
  BY <1>1, AtHand, CurrentAtHand DEF Inv, TablesTyped, FilesTyped, ProcessesGood
<1>3. OnCourse(p) /\ \A e \in Entries, n \in Nodes : RecipientOK(e, n)
  BY <1>1, SettledAtHand DEF Unsettled
<1>4. \A e \in Entries : LibraryOK(e) \/ (pr[p].step \in Replacing /\ Entry(p) = e)
  BY <1>1, SettledAtHand DEF Replaced
<1> QED
  BY <1>1, <1>2, <1>3, <1>4 DEF OnCourse

\* Its steps before it saves an entry leave them so.
LEMMA CommandStep ==
  ASSUME Inv, OverdueInv, SettledInv, disturbed = "no", NEW p \in Procs,
         pr[p].step \in PublishSteps \cup CleanupSteps, NEW r, pr' = [pr EXCEPT ![p] = r],
         UNCHANGED <<row, task, holder, received, byAgent>>,
         r = Idle \/ (PublishOn(p)' /\ ReceiveOn(p)' /\ CleanupOn(p)'),
         \A e \in Entries : LibraryOK(e)' \/ (r.step \in Replacing /\ r.e = e)
  PROVE  SettledInv'
<1>1. pr'[p] = r /\ pr[p].step # "idle"
  BY CommandAtHand
<1>2. \A e \in Entries, n \in Nodes : RecipientOK(e, n)'
  BY CommandAtHand DEF RecipientOK
<1>3. \A e \in Entries : LibraryOK(e)' \/ Replaced(p, e)'
  BY <1>1 DEF Replaced, Entry
<1>4. OnCourse(p)'
  <2>1. CASE r = Idle
    BY <1>1, <2>1, IdleStaysOnCourse
  <2>2. CASE PublishOn(p)' /\ ReceiveOn(p)' /\ CleanupOn(p)'
    BY <2>2 DEF OnCourse
  <2> QED
    BY <2>1, <2>2
<1> QED
  BY <1>1, <1>2, <1>3, <1>4, StepSettled

\* One that reads, or writes only the index of files.
LEMMA LibraryLeft ==
  ASSUME UNCHANGED <<row, library, clock, losses>>, NEW e \in Entries, LibraryOK(e)
  PROVE  LibraryOK(e)'
BY DEF LibraryOK, Published

LEMMA CommandEnds ==
  ASSUME Inv, OverdueInv, SettledInv, disturbed = "no", NEW p \in Procs,
         pr[p].step \in {"hash", "verify", "store", "list"}, End(p),
         UNCHANGED <<files, tables, clock, losses>>
  PROVE  SettledInv'
<1>1. /\ pr[p].step \in PublishSteps \cup CleanupSteps /\ pr[p].step \notin Replacing
      /\ UNCHANGED <<row, task, holder, received, byAgent>>
      /\ UNCHANGED <<row, library, clock, losses>>
  BY DEF PublishSteps, CleanupSteps, Replacing, files, arrived, tables
<1>2. \A e \in Entries : LibraryOK(e)'
  BY <1>1, CommandAtHand, LibraryLeft
<1> QED
  BY <1>1, <1>2, CommandStep DEF End

\* What a publication is asked to know before it saves the entry.
LEMMA PublishSettled ==
  ASSUME NEW p, NEW r, pr'[p] = r, r.step \in PublishSteps, r.list = {}, PublishOn(p)'
  PROVE  PublishOn(p)' /\ ReceiveOn(p)' /\ CleanupOn(p)'
BY DEF PublishSteps, ReceiveOn, CleanupOn, Holding, Has, Recorded

LEMMA HashSourceSettled ==
  ASSUME Inv, OverdueInv, SettledInv, disturbed = "no", NEW p \in Procs, HashSource(p)
  PROVE  SettledInv'
<1>1. /\ pr[p].step \in PublishSteps \cup CleanupSteps /\ pr[p].step = "hash"
      /\ pr[p].step \notin Replacing
      /\ UNCHANGED <<files, tables, clock, losses>> /\ UNCHANGED <<row, library, clock, losses>>
      /\ UNCHANGED <<row, task, holder, received, byAgent>> /\ UNCHANGED source
  BY DEF HashSource, At, environment, files, arrived, tables, PublishSteps, Replacing
<1>2. CASE End(p)
  BY <1>1, <1>2, CommandEnds
<1>3. CASE pr' = [pr EXCEPT ![p].step = "verify", ![p].got.file = source[Entry(p)],
                            ![p].got.expires = clock + Retention]
  <2> DEFINE r == [pr[p] EXCEPT !.step = "verify", !.got.file = source[Entry(p)],
                                !.got.expires = clock + Retention]
  <2>1. /\ pr[p] \in ProcessRecords /\ pr \in [Procs -> ProcessRecords] /\ pr[p].got \in Rows
        /\ PublishOn(p) /\ Ordered(pr[p])
    BY <1>1, CommandAtHand
  <2>2. pr' = [pr EXCEPT ![p] = r] /\ pr'[p] = r
    BY <1>3, <2>1
  <2>3. /\ r.step = "verify" /\ r.e = Entry(p) /\ r.list = pr[p].list
        /\ r.got.file = source[Entry(p)] /\ r.got.expired = pr[p].got.expired
    BY <2>1 DEF ProcessRecords, Rows, Entry
  <2> HIDE DEF r
  <2>4. ~pr[p].got.expired /\ pr[p].list = {}
    BY <1>1, <2>1 DEF PublishOn, PublishSteps, Ordered, CleanupSteps
  <2>5. PublishOn(p)' /\ r.step \in PublishSteps
    BY <1>1, <2>2, <2>3, <2>4 DEF PublishOn, PublishSteps
  <2>6. PublishOn(p)' /\ ReceiveOn(p)' /\ CleanupOn(p)'
    BY <2>2, <2>3, <2>4, <2>5, PublishSettled
  <2>7. \A e \in Entries : LibraryOK(e)'
    BY <1>1, CommandAtHand, LibraryLeft
  <2> QED
    BY <1>1, <2>2, <2>6, <2>7, CommandStep
<1> QED
  BY <1>2, <1>3 DEF HashSource

LEMMA VerifySourceSettled ==
  ASSUME Inv, OverdueInv, SettledInv, disturbed = "no", NEW p \in Procs, VerifySource(p)
  PROVE  SettledInv'
<1>1. /\ pr[p].step \in PublishSteps \cup CleanupSteps /\ pr[p].step = "verify"
      /\ pr[p].step \notin Replacing
      /\ UNCHANGED <<files, tables, clock, losses>> /\ UNCHANGED <<row, library, clock, losses>>
      /\ UNCHANGED <<row, task, holder, received, byAgent>> /\ UNCHANGED source
  BY DEF VerifySource, At, environment, files, arrived, tables, PublishSteps, Replacing
<1>2. CASE End(p)
  BY <1>1, <1>2, CommandEnds
<1>3. CASE Goto(p, "store")
  <2>1. PublishOn(p) /\ Ordered(pr[p])
    BY <1>1, CommandAtHand
  <2>2. PICK r : /\ pr' = [pr EXCEPT ![p] = r] /\ pr'[p] = r
                 /\ r.step = "store" /\ r.e = Entry(p) /\ r.got = pr[p].got
                 /\ r.list = pr[p].list
    BY <1>3, GotoFields
  <2>3. pr[p].list = {}
    BY <1>1, <2>1 DEF Ordered, CleanupSteps
  <2>4. PublishOn(p)' /\ r.step \in PublishSteps
    BY <1>1, <2>1, <2>2 DEF PublishOn, PublishSteps, Entry
  <2>5. PublishOn(p)' /\ ReceiveOn(p)' /\ CleanupOn(p)'
    BY <2>2, <2>3, <2>4, PublishSettled
  <2>6. \A e \in Entries : LibraryOK(e)'
    BY <1>1, CommandAtHand, LibraryLeft
  <2> QED
    BY <1>1, <2>2, <2>5, <2>6, CommandStep
<1> QED
  BY <1>2, <1>3 DEF VerifySource

LEMMA StoreInLibrarySettled ==
  ASSUME Inv, OverdueInv, SettledInv, disturbed = "no", NEW p \in Procs, StoreInLibrary(p)
  PROVE  SettledInv'
<1>1. /\ pr[p].step \in PublishSteps \cup CleanupSteps /\ pr[p].step = "store"
      /\ pr[p].step \notin Replacing
      /\ UNCHANGED <<tables, clock, losses>> /\ UNCHANGED <<source, arrived>>
      /\ UNCHANGED <<row, task, holder, received, byAgent>>
  BY DEF StoreInLibrary, At, environment, arrived, tables, PublishSteps, Replacing
<1>2. /\ pr[p] \in ProcessRecords /\ pr \in [Procs -> ProcessRecords] /\ PublishOn(p)
      /\ Ordered(pr[p]) /\ Entry(p) \in Entries /\ library \in [Entries -> Bytes]
      /\ \A e \in Entries : LibraryOK(e)
  BY <1>1, CommandAtHand
<1>3. CASE source[Entry(p)] = Missing
  <2>1. End(p) /\ UNCHANGED <<files, tables, clock, losses>>
    BY <1>1, <1>3 DEF StoreInLibrary, files
  <2> QED
    BY <1>1, <2>1, CommandEnds
<1>4. CASE source[Entry(p)] # Missing
  <2> DEFINE r == [pr[p] EXCEPT !.step = "stored", !.read = source[Entry(p)]]
  <2>1. PICK tear \in BOOLEAN :
          pr' = [q \in Procs |->
                   CASE q = p -> r
                     [] tear /\ pr[q].step = "copy" /\ Entry(q) = Entry(p)
                          -> [pr[q] EXCEPT !.read = Torn]
                     [] OTHER -> pr[q]]
    BY <1>4 DEF StoreInLibrary
  <2>2. \A q \in Procs : q # p => pr[q] = Idle
    <3>1. Busy(p) /\ Alone
      BY <1>1, SettledAtHand DEF SettledInv
    <3> QED
      BY <3>1 DEF Alone, Busy
  <2>3. Idle.step # "copy"
    BY DEF Idle
  <2>4. \A q \in Procs : q # p => pr'[q] = pr[q]
    BY <2>1, <2>2, <2>3
  <2>5. pr'[p] = r
    BY <1>1, <1>2, <2>1 DEF ProcessRecords
  <2>6. pr' = [pr EXCEPT ![p] = r]
    BY <1>2, <2>1, <2>4, <2>5
  <2>7. /\ r.step = "stored" /\ r.e = Entry(p) /\ r.got = pr[p].got
        /\ r.read = source[Entry(p)] /\ r.list = pr[p].list
    BY <1>2 DEF ProcessRecords, Entry
  <2> HIDE DEF r
  <2>8. pr[p].list = {} /\ pr[p].got.file = source[Entry(p)] /\ ~pr[p].got.expired
    BY <1>1, <1>2 DEF Ordered, CleanupSteps, PublishOn, PublishSteps, Entry
  <2>9. PublishOn(p)' /\ r.step \in PublishSteps
    BY <1>1, <2>5, <2>7, <2>8 DEF PublishOn, PublishSteps
  <2>10. PublishOn(p)' /\ ReceiveOn(p)' /\ CleanupOn(p)'
    BY <2>5, <2>7, <2>8, <2>9, PublishSettled
  <2>11. \A e \in Entries : e # Entry(p) => library'[e] = library[e]
    BY <1>2, <1>4 DEF StoreInLibrary
  <2>12. \A e \in Entries : LibraryOK(e)' \/ (r.step \in Replacing /\ r.e = e)
    BY <1>1, <1>2, <2>7, <2>11 DEF LibraryOK, Published, Replacing
  <2> QED
    BY <1>1, <2>6, <2>10, <2>12, CommandStep
<1> QED
  BY <1>3, <1>4

LEMMA EndStoreSettled ==
  ASSUME Inv, OverdueInv, SettledInv, disturbed = "no", NEW p \in Procs, EndStore(p)
  PROVE  SettledInv'
<1>1. /\ pr[p].step \in PublishSteps \cup CleanupSteps /\ pr[p].step = "stored"
      /\ UNCHANGED <<row, clock, losses, source>>
      /\ UNCHANGED <<row, task, holder, received, byAgent>>
      /\ library' = [library EXCEPT ![Entry(p)] = pr[p].read]
  BY DEF EndStore, At, environment, arrived, tables, PublishSteps
<1>2. /\ PublishOn(p) /\ Ordered(pr[p]) /\ Entry(p) \in Entries /\ library \in [Entries -> Bytes]
      /\ \A e \in Entries : e # Entry(p) => LibraryOK(e)
  BY <1>1, CommandAtHand
<1>3. PICK r : /\ pr' = [pr EXCEPT ![p] = r] /\ pr'[p] = r
               /\ r.step = "index" /\ r.e = Entry(p) /\ r.got = pr[p].got
               /\ r.list = pr[p].list
  BY GotoFields DEF EndStore
<1>4. /\ library'[Entry(p)] = pr[p].got.file /\ ~pr[p].got.expired
      /\ \A e \in Entries : e # Entry(p) => library'[e] = library[e]
      /\ pr[p].list = {}
  BY <1>1, <1>2 DEF PublishOn, PublishSteps, Ordered, CleanupSteps
<1>5. PublishOn(p)' /\ r.step \in PublishSteps
  BY <1>3, <1>4 DEF PublishOn, PublishSteps
<1>6. PublishOn(p)' /\ ReceiveOn(p)' /\ CleanupOn(p)'
  BY <1>3, <1>4, <1>5, PublishSettled
<1>7. \A e \in Entries : LibraryOK(e)' \/ (r.step \in Replacing /\ r.e = e)
  BY <1>1, <1>2, <1>3, <1>4 DEF LibraryOK, Published, Replacing
<1> QED
  BY <1>1, <1>3, <1>6, <1>7, CommandStep

LEMMA IndexSourceSettled ==
  ASSUME Inv, OverdueInv, SettledInv, disturbed = "no", NEW p \in Procs, IndexSource(p)
  PROVE  SettledInv'
<1>1. /\ pr[p].step \in PublishSteps \cup CleanupSteps /\ pr[p].step = "index"
      /\ UNCHANGED <<row, library, clock, losses>>
      /\ UNCHANGED <<row, task, holder, received, byAgent>>
  BY DEF IndexSource, At, environment, files, arrived, PublishSteps
<1>2. /\ PublishOn(p) /\ Ordered(pr[p])
      /\ \A e \in Entries : e # Entry(p) => LibraryOK(e)
  BY <1>1, CommandAtHand
<1>3. PICK r : /\ pr' = [pr EXCEPT ![p] = r] /\ pr'[p] = r
               /\ r.step = "publish" /\ r.e = Entry(p) /\ r.got = pr[p].got
               /\ r.list = pr[p].list
  BY GotoFields DEF IndexSource
<1>4. pr[p].list = {}
  BY <1>1, <1>2 DEF Ordered, CleanupSteps
<1>5. PublishOn(p)' /\ r.step \in PublishSteps
  BY <1>1, <1>2, <1>3 DEF PublishOn, PublishSteps, Entry
<1>6. PublishOn(p)' /\ ReceiveOn(p)' /\ CleanupOn(p)'
  BY <1>3, <1>4, <1>5, PublishSettled
<1>7. \A e \in Entries : LibraryOK(e)' \/ (r.step \in Replacing /\ r.e = e)
  BY <1>1, <1>2, <1>3, LibraryLeft DEF Replacing
<1> QED
  BY <1>1, <1>3, <1>6, <1>7, CommandStep

\* The entry is replaced; its recipients are forgotten, its file is stored.
LEMMA PublishEntrySettled ==
  ASSUME Inv, OverdueInv, SettledInv, disturbed = "no", NEW p \in Procs, PublishEntry(p)
  PROVE  SettledInv'
<1>1. /\ pr[p].step \in PublishSteps \cup CleanupSteps /\ pr[p].step = "publish"
      /\ UNCHANGED <<library, task, holder, received, byAgent, clock, losses>>
  BY DEF PublishEntry, At, environment, files, arrived, PublishSteps
<1>2. /\ PublishOn(p) /\ Ordered(pr[p]) /\ Entry(p) \in Entries /\ row \in [Entries -> Rows]
      /\ \A e \in Entries : e # Entry(p) => LibraryOK(e)
      /\ \A e \in Entries, n \in Nodes : RecipientOK(e, n)
      /\ pr \in [Procs -> ProcessRecords]
  BY <1>1, CommandAtHand
<1>3. \A e \in Entries : row'[e] = IF e = Entry(p) THEN pr[p].got ELSE row[e]
  BY <1>2 DEF PublishEntry, UpsertSharedLibraryEntry
<1>4. \A n \in Nodes : pr[p].got.to[n] = "none"
  BY <1>1, AtHand DEF Formed, NoEntry
<1>5. ASSUME NEW e \in Entries, NEW n \in Nodes PROVE RecipientOK(e, n)'
  <2>1. CASE e = Entry(p)
    <3>1. row'[e].to[n] = "none"
      BY <1>3, <1>4, <2>1
    <3> QED
      BY <3>1 DEF RecipientOK
  <2>2. CASE e # Entry(p)
    <3>1. row'[e] = row[e] /\ RecipientOK(e, n)
      BY <1>2, <1>3, <2>2
    <3> QED
      BY <1>1, <3>1 DEF RecipientOK
  <2> QED
    BY <2>1, <2>2
<1>6. /\ ~pr[p].got.expired /\ pr[p].list = {}
      /\ \/ library[Entry(p)] = pr[p].got.file
         \/ library[Entry(p)] = Missing /\ losses > 0
  BY <1>1, <1>2 DEF PublishOn, PublishSteps, Ordered, CleanupSteps, Entry
<1>7. ASSUME NEW e \in Entries PROVE LibraryOK(e)'
  <2>1. CASE e = Entry(p)
    BY <1>1, <1>3, <1>6, <2>1 DEF LibraryOK
  <2>2. CASE e # Entry(p)
    BY <1>1, <1>2, <1>3, <2>2 DEF LibraryOK, Published
  <2> QED
    BY <2>1, <2>2
<1>8. PICK r : /\ pr' = [pr EXCEPT ![p] = r] /\ pr'[p] = r /\ OnCourse(p)'
  <2>1. CASE End(p)
    <3>1. pr'[p] = Idle /\ pr' = [pr EXCEPT ![p] = Idle]
      BY <1>2, <2>1 DEF End
    <3>2. OnCourse(p)'
      BY <3>1, IdleStaysOnCourse
    <3> QED
      BY <3>1, <3>2
  <2>2. CASE Goto(p, "create")
    <3>1. PICK r : /\ pr' = [pr EXCEPT ![p] = r] /\ pr'[p] = r
                   /\ r.step = "create" /\ r.list = pr[p].list
      BY <2>2, GotoFields
    <3>2. OnCourse(p)'
      BY <1>6, <3>1
         DEF OnCourse, PublishOn, ReceiveOn, CleanupOn, Holding, Has, Recorded, PublishSteps
    <3> QED
      BY <3>1, <3>2
  <2> QED
    BY <2>1, <2>2 DEF PublishEntry
<1>9. pr[p].step # "idle"
  BY <1>1
<1> QED
  BY <1>5, <1>7, <1>8, <1>9, StepSettled

LEMMA ListExpiredSettled ==
  ASSUME Inv, OverdueInv, SettledInv, disturbed = "no", NEW p \in Procs, ListExpired(p)
  PROVE  SettledInv'
<1>1. /\ pr[p].step \in PublishSteps \cup CleanupSteps /\ pr[p].step = "list"
      /\ pr[p].step \notin Replacing
      /\ UNCHANGED <<files, tables, clock, losses>> /\ UNCHANGED <<row, library, clock, losses>>
      /\ UNCHANGED <<row, task, holder, received, byAgent>>
  BY DEF ListExpired, At, environment, files, arrived, tables, CleanupSteps, Replacing
<1>2. CASE End(p)
  BY <1>1, <1>2, CommandEnds
<1>3. CASE pr' = [pr EXCEPT ![p].step = "remove",
                            ![p].list = {<<e, row[e]>> : e \in {d \in Entries : Due(d)}}]
  <2> DEFINE l == {<<e, row[e]>> : e \in {d \in Entries : Due(d)}}
             r == [pr[p] EXCEPT !.step = "remove", !.list = l]
  <2>1. pr[p] \in ProcessRecords /\ pr \in [Procs -> ProcessRecords]
    BY <1>1, CommandAtHand
  <2>2. pr' = [pr EXCEPT ![p] = r] /\ pr'[p] = r
    BY <1>3, <2>1
  <2>3. r.step = "remove" /\ r.list = l
    BY <2>1 DEF ProcessRecords
  <2>4. \A x \in l : x[2] = row[x[1]] /\ x[2].expires <= clock
    BY DEF Due
  <2> HIDE DEF l, r
  <2>5. PublishOn(p)' /\ ReceiveOn(p)'
    BY <2>2, <2>3 DEF PublishOn, PublishSteps, ReceiveOn, Holding, Has, Recorded
  <2>6. CleanupOn(p)'
    BY <1>1, <2>2, <2>3, <2>4 DEF CleanupOn
  <2>7. \A e \in Entries : LibraryOK(e)'
    BY <1>1, CommandAtHand, LibraryLeft
  <2> QED
    BY <1>1, <2>2, <2>5, <2>6, <2>7, CommandStep
<1> QED
  BY <1>2, <1>3 DEF ListExpired

LEMMA RemoveLibraryFileSettled ==
  ASSUME Inv, OverdueInv, SettledInv, disturbed = "no", NEW p \in Procs, RemoveLibraryFile(p)
  PROVE  SettledInv'
<1>1. /\ pr[p].step \in PublishSteps \cup CleanupSteps /\ pr[p].step = "remove"
      /\ pr[p].step \notin Replacing
      /\ UNCHANGED <<row, clock, losses>>
      /\ UNCHANGED <<row, task, holder, received, byAgent>>
  BY DEF RemoveLibraryFile, At, environment, arrived, tables, CleanupSteps, Replacing
<1>2. /\ pr[p] \in ProcessRecords /\ pr \in [Procs -> ProcessRecords] /\ CleanupOn(p)
      /\ library \in [Entries -> Bytes] /\ \A e \in Entries : LibraryOK(e)
  BY <1>1, CommandAtHand
<1>3. PICK x \in pr[p].list : /\ library' = [library EXCEPT ![x[1]] = Missing]
                              /\ TakeFromList(p, x)
  BY DEF RemoveLibraryFile
<1>4. pr[p].list \subseteq Entries \X Rows /\ x[1] \in Entries
  BY <1>2, <1>3 DEF ProcessRecords
<1> DEFINE r == [pr[p] EXCEPT !.step = "expire", !.e = x[1], !.got = x[2], !.list = @ \ {x}]
<1>5. pr' = [pr EXCEPT ![p] = r] /\ pr'[p] = r
  BY <1>2, <1>3 DEF TakeFromList
<1>6. /\ r.step = "expire" /\ r.list = pr[p].list \ {x} /\ r.e = x[1] /\ r.got = x[2]
  BY <1>2 DEF ProcessRecords
<1> HIDE DEF r
<1>7. \A y \in pr[p].list : y[2] = row[y[1]] /\ y[2].expires <= clock
  BY <1>2 DEF CleanupOn
<1>8. \A y \in r.list : y[1] # x[1]
  BY <1>4, <1>6, <1>7
<1>9. /\ library'[x[1]] = Missing
      /\ \A e \in Entries : e # x[1] => library'[e] = library[e]
  BY <1>2, <1>3, <1>4
<1>10. PublishOn(p)' /\ ReceiveOn(p)'
  BY <1>1, <1>5, <1>6, <1>7 DEF PublishOn, PublishSteps, ReceiveOn, Holding, Has, Recorded
<1>11. CleanupOn(p)'
  BY <1>1, <1>5, <1>6, <1>7, <1>8, <1>9 DEF CleanupOn
<1>12. \A e \in Entries : LibraryOK(e)' \/ (r.step \in Replacing /\ r.e = e)
  BY <1>1, <1>2, <1>6, <1>9 DEF LibraryOK, Published, Replacing
<1> QED
  BY <1>1, <1>5, <1>10, <1>11, <1>12, CommandStep

LEMMA MarkExpiredSettled ==
  ASSUME Inv, OverdueInv, SettledInv, disturbed = "no", NEW p \in Procs, MarkExpired(p)
  PROVE  SettledInv'
<1>1. /\ pr[p].step \in PublishSteps \cup CleanupSteps /\ pr[p].step = "expire"
      /\ UNCHANGED <<library, task, holder, received, byAgent, clock, losses>>
  BY DEF MarkExpired, At, environment, files, arrived, CleanupSteps
<1>2. /\ CleanupOn(p) /\ ReceiveOn(p) /\ Entry(p) \in Entries /\ row \in [Entries -> Rows]
      /\ pr[p].got \in Rows /\ pr[p] \in ProcessRecords
      /\ \A e \in Entries : e # Entry(p) => LibraryOK(e)
      /\ \A e \in Entries, n \in Nodes : RecipientOK(e, n)
      /\ pr \in [Procs -> ProcessRecords]
  BY <1>1, CommandAtHand
<1>3. pr[p].got = row[Entry(p)]
  BY <1>1, <1>2 DEF ReceiveOn, Holding, Entry
<1> DEFINE x == [pr[p].got EXCEPT !.expired = TRUE, !.delivered = TRUE]
<1>4. /\ x.file = row[Entry(p)].file /\ x.expires = row[Entry(p)].expires
      /\ x.to = row[Entry(p)].to /\ x.expired
  BY <1>2, <1>3 DEF Rows
<1>5. \A e \in Entries : row'[e] = IF e = Entry(p) THEN x ELSE row[e]
  BY <1>2 DEF MarkExpired, UpsertSharedLibraryEntry
<1> HIDE DEF x
<1>6. ASSUME NEW e \in Entries, NEW n \in Nodes PROVE RecipientOK(e, n)'
  <2>1. row'[e].file = row[e].file /\ row'[e].to = row[e].to /\ RecipientOK(e, n)
    BY <1>2, <1>4, <1>5
  <2> QED
    BY <1>1, <2>1 DEF RecipientOK
<1>7. ASSUME NEW e \in Entries PROVE LibraryOK(e)'
  <2>1. CASE e = Entry(p)
    <3>1. row'[e].expired /\ row'[e].expires = pr[p].got.expires
      BY <1>3, <1>4, <1>5, <2>1
    <3>2. library[e] = Missing /\ pr[p].got.expires <= clock
      BY <1>1, <1>2, <2>1 DEF CleanupOn, Entry
    <3> QED
      BY <1>1, <3>1, <3>2 DEF LibraryOK
  <2>2. CASE e # Entry(p)
    BY <1>1, <1>2, <1>5, <2>2 DEF LibraryOK, Published
  <2> QED
    BY <2>1, <2>2
<1>8. pr[p].list \subseteq Entries \X Rows
  BY <1>2 DEF ProcessRecords
<1>9. ASSUME NEW y \in pr[p].list PROVE y[2] = row'[y[1]] /\ y[2].expires <= clock
  <2>1. y[1] \in Entries /\ y[1] # Entry(p) /\ y[2] = row[y[1]] /\ y[2].expires <= clock
    BY <1>1, <1>2, <1>8 DEF CleanupOn, Entry
  <2> QED
    BY <1>5, <2>1
<1>10. PICK r : /\ pr' = [pr EXCEPT ![p] = r] /\ pr'[p] = r /\ OnCourse(p)'
  <2>1. CASE End(p)
    <3>1. pr'[p] = Idle /\ pr' = [pr EXCEPT ![p] = Idle]
      BY <1>2, <2>1 DEF End
    <3>2. OnCourse(p)'
      BY <3>1, IdleStaysOnCourse
    <3> QED
      BY <3>1, <3>2
  <2>2. CASE Goto(p, "remove")
    <3>1. PICK r : /\ pr' = [pr EXCEPT ![p] = r] /\ pr'[p] = r
                   /\ r.step = "remove" /\ r.list = pr[p].list
      BY <2>2, GotoFields
    <3>2. PublishOn(p)' /\ ReceiveOn(p)'
      BY <3>1 DEF PublishOn, ReceiveOn, Holding, Has, Recorded, PublishSteps
    <3>3. CleanupOn(p)'
      BY <1>1, <1>9, <3>1 DEF CleanupOn
    <3> QED
      BY <3>1, <3>2, <3>3 DEF OnCourse
  <2> QED
    BY <2>1, <2>2 DEF MarkExpired
<1>11. pr[p].step # "idle"
  BY <1>1
<1> QED
  BY <1>6, <1>7, <1>10, <1>11, StepSettled

LEMMA EveryStepSettled ==
  ASSUME Inv, OverdueInv, SettledInv, NEW p \in Procs, Step(p)
  PROVE  SettledInv'
<1>1. UNCHANGED disturbed
  <2>1. UNCHANGED environment
    BY DEF Step, PublishFile, HashSource, VerifySource, StoreInLibrary, EndStore, IndexSource,
           PublishEntry, ReceiveEntry, RetryTask, FindRecipient, ResetRecipient,
           CreateReceiveTask, SaveInvitation, OpenLibraryFile, MarkFailed, EndCopy,
           RecordReceived, UpsertDeviceFile, CompleteTask, ReadForMark, MarkDelivered,
           ExecuteTransfer, AckTask, FetchSharedEntry, ReportTaskResult, CleanupExpired,
           ListExpired, RemoveLibraryFile, MarkExpired, At
  <2> QED
    BY <2>1 DEF environment
<1> SUFFICES ASSUME disturbed = "no" PROVE SettledInv'
  BY <1>1 DEF SettledInv
<1>2. CASE PublishFile(p)
  BY <1>2, HashSourceSettled, VerifySourceSettled, StoreInLibrarySettled, EndStoreSettled,
     IndexSourceSettled, PublishEntrySettled DEF PublishFile
<1>3. CASE ReceiveEntry(p)
  BY <1>3, RetryTaskSettled, FindRecipientSettled, RecipientSteps, CreateReceiveTaskSettled,
     OpenLibraryFileSettled, EndCopySettled, RecordReceivedSettled, CompleteTaskSettled,
     ReadForMarkSettled, MarkDeliveredSettled DEF ReceiveEntry
<1>4. CASE ExecuteTransfer(p)
  BY <1>4, AckTaskSettled, FetchSharedEntrySettled, CompleteTaskSettled DEF ExecuteTransfer
<1>5. CASE CleanupExpired(p)
  BY <1>5, ListExpiredSettled, RemoveLibraryFileSettled, MarkExpiredSettled DEF CleanupExpired
<1> QED
  BY <1>2, <1>3, <1>4, <1>5 DEF Step

\* When nothing runs, everything is settled.
LEMMA QuietSettled ==
  ASSUME SettledInv, disturbed = "no", Quiet
  PROVE  /\ \A p \in Procs : pr[p] = Idle
         /\ \A e \in Entries, n \in Nodes : RecipientOK(e, n)
         /\ \A e \in Entries : LibraryOK(e)
<1>1. \A p \in Procs : pr[p] = Idle
  BY DEF Quiet, Busy
<1>2. \A p \in Procs : (\A e, n : ~Unsettled(p, e, n)) /\ (\A e : ~Replaced(p, e))
  BY <1>1, IdleOnCourse
<1> QED
  BY <1>1, <1>2 DEF SettledInv, RecipientsSettled, LibrarySettled

LEMMA StartSettled ==
  ASSUME Inv, SettledInv, NEW p \in Procs, NEW cmd, NEW s, NEW e, NEW n,
         Start(p, cmd, s, e, n), s \in {"hash", "list", "create", "retry", "ack"},
         s = "ack" => task[e][n] = "queued"
  PROVE  SettledInv'
<1> SUFFICES ASSUME disturbed' = "no" PROVE SettledInv'
  BY DEF SettledInv
<1>1. disturbed = "no" /\ Quiet
  BY DEF Start, Disturb
<1>2. /\ \A q \in Procs : pr[q] = Idle
      /\ \A d \in Entries, m \in Nodes : RecipientOK(d, m)
      /\ \A d \in Entries : LibraryOK(d)
  BY <1>1, QuietSettled
<1>3. UNCHANGED <<source, library, received, byAgent, row, task, holder, clock, losses>>
  BY DEF Start, files, arrived, tables
<1>4. RecipientsSettled' /\ LibrarySettled'
  BY <1>2, <1>3 DEF RecipientsSettled, RecipientOK, LibrarySettled, LibraryOK, Published
<1> DEFINE r == [Idle EXCEPT !.cmd = cmd, !.step = s, !.e = e, !.n = n]
<1>5. \A q \in Procs : pr'[q] = IF q = p THEN r ELSE Idle
  BY <1>2 DEF Start, Inv, ProcessesGood
<1>6. r.step = s /\ r.e = e /\ r.n = n /\ r.list = {} /\ r.got = NoEntry
  BY DEF Idle
<1> HIDE DEF r
<1>7. Alone'
  BY <1>5 DEF Alone, Busy
<1>8. OnCourse(p)'
  <2>1. pr'[p] = r /\ ~NoEntry.expired
    BY <1>5 DEF NoEntry
  <2> QED
    BY <1>3, <1>6, <2>1
       DEF OnCourse, PublishOn, ReceiveOn, CleanupOn, Holding, Has, Recorded, PublishSteps
<1>9. ASSUME NEW q \in Procs, q # p PROVE OnCourse(q)'
  BY <1>5, <1>9, IdleStaysOnCourse
<1> QED
  BY <1>4, <1>7, <1>8, <1>9 DEF SettledInv

LEMMA CommandsSettled ==
  ASSUME Inv, SettledInv, NEW p \in Procs, Commands(p)
  PROVE  SettledInv'
<1>1. CASE RunShareCleanup(p)
  BY <1>1, StartSettled DEF RunShareCleanup
<1>2. ASSUME NEW e \in Entries, RunSharePublish(p, e) PROVE SettledInv'
  BY <1>2, StartSettled DEF RunSharePublish
<1>3. ASSUME NEW e \in Entries, NEW n \in Nodes,
             \/ RunShare(p, e, n) \/ RunShareReceive(p, e, n) \/ RunShareRetry(p, e, n)
             \/ SubmitShareReceive(p, e, n) \/ RunTransfer(p, e, n)
      PROVE  SettledInv'
  <2>1. CASE RunShare(p, e, n)
    BY <2>1, StartSettled DEF RunShare
  <2>2. CASE RunShareReceive(p, e, n)
    BY <2>2, StartSettled DEF RunShareReceive
  <2>3. CASE RunShareRetry(p, e, n)
    BY <2>3, StartSettled DEF RunShareRetry
  <2>4. CASE SubmitShareReceive(p, e, n)
    BY <2>4, StartSettled DEF SubmitShareReceive
  <2>5. CASE RunTransfer(p, e, n)
    BY <2>5, StartSettled DEF RunTransfer
  <2> QED
    BY <1>3, <2>1, <2>2, <2>3, <2>4, <2>5
<1> QED
  BY <1>1, <1>2, <1>3 DEF Commands

\* What runs is not disturbed by the clock or by a loss.
LEMMA ProcessesLeftSettled ==
  ASSUME Inv, SettledInv, disturbed = "no",
         UNCHANGED <<pr, source, received, byAgent, row, task, holder>>,
         clock' \in Nat, clock <= clock', losses' \in Nat, losses <= losses',
         \A e \in Entries : \/ library'[e] = library[e]
                            \/ library'[e] = Missing /\ losses' > 0 /\ library[e] # Missing
                               /\ \A p \in Procs : pr[p].step # "stored"
  PROVE  SettledInv'
<1>1. Alone /\ RecipientsSettled /\ LibrarySettled /\ \A p \in Procs : OnCourse(p)
  BY DEF SettledInv
<1>2. clock \in Nat /\ losses \in Nat /\ row \in [Entries -> Rows]
  BY DEF Inv, EnvironmentTyped, TablesTyped
<1>3. Alone' /\ RecipientsSettled'
  BY <1>1 DEF Alone, Busy, RecipientsSettled, RecipientOK, Unsettled, Entry, Node
<1>4. ASSUME NEW e \in Entries, LibraryOK(e) PROVE LibraryOK(e)'
  <2>1. row[e].expires \in Nat
    BY <1>2 DEF Rows
  <2> QED
    BY <1>2, <1>4, <2>1 DEF LibraryOK, Published
<1>5. LibrarySettled'
  BY <1>1, <1>4 DEF LibrarySettled, Replaced, Entry
<1>6. ASSUME NEW p \in Procs PROVE OnCourse(p)'
  <2>1. pr[p] \in ProcessRecords /\ Formed(pr[p]) /\ pr[p].got \in Rows /\ OnCourse(p)
    BY <1>1, AtHand
  <2>2. ReceiveOn(p)'
    BY <2>1 DEF OnCourse, ReceiveOn
  <2>3. pr[p].step \notin {"idle", "list", "remove"} => pr[p].e \in Entries
    BY <2>1 DEF Formed
  <2>4. PublishOn(p)'
    BY <1>2, <2>1, <2>3 DEF OnCourse, PublishOn
  <2>5. CleanupOn(p)'
    <3>1. ASSUME NEW x \in pr[p].list PROVE x[2] = row[x[1]] /\ x[2].expires <= clock'
      <4>1. x[2].expires \in Nat
        BY <2>1 DEF ProcessRecords, Rows
      <4> QED
        BY <1>2, <2>1, <4>1 DEF OnCourse, CleanupOn
    <3>2. pr[p].step = "expire" => library'[pr[p].e] = Missing /\ pr[p].got.expires <= clock'
      BY <1>2, <2>1, <2>3 DEF OnCourse, CleanupOn, Rows
    <3> QED
      BY <2>1, <3>1, <3>2 DEF OnCourse, CleanupOn
  <2> QED
    BY <2>2, <2>4, <2>5 DEF OnCourse
<1> QED
  BY <1>3, <1>5, <1>6 DEF SettledInv

LEMMA EnvironmentSettled ==
  ASSUME Inv, SettledInv,
         \/ Tick
         \/ \E e \in Entries : LoseFile(e) \/ PutFileBack(e)
         \/ \E e \in Entries, c \in Contents \cup {Missing} : Edit(e, c)
  PROVE  SettledInv'
<1> SUFFICES ASSUME disturbed' = "no" PROVE SettledInv'
  BY DEF SettledInv
<1>1. /\ clock \in Nat /\ losses \in Nat /\ clock <= clock /\ losses <= losses
      /\ library \in [Entries -> Bytes]
  BY DEF Inv, EnvironmentTyped, FilesTyped
<1>2. CASE Tick
  BY <1>1, <1>2, ProcessesLeftSettled DEF Tick, files, arrived, tables
<1>3. ASSUME NEW e \in Entries, LoseFile(e) PROVE SettledInv'
  <2>1. /\ losses' = losses + 1 /\ UNCHANGED <<clock, disturbed>>
        /\ UNCHANGED <<pr, source, received, byAgent, row, task, holder>>
        /\ library[e] # Missing /\ \A p \in Procs : pr[p].step # "stored"
        /\ library' = [library EXCEPT ![e] = Missing]
    BY <1>3 DEF LoseFile, arrived, tables
  <2>2. losses' \in Nat /\ losses <= losses' /\ losses' > 0
    BY <1>1, <2>1
  <2>3. \A d \in Entries : \/ library'[d] = library[d]
                           \/ library'[d] = Missing /\ losses' > 0 /\ library[d] # Missing
                              /\ \A p \in Procs : pr[p].step # "stored"
    BY <1>1, <2>1, <2>2
  <2> QED
    BY <1>1, <2>1, <2>2, <2>3, ProcessesLeftSettled
<1>4. ASSUME NEW e \in Entries, PutFileBack(e) PROVE SettledInv'
  <2>1. /\ UNCHANGED <<pr, source, received, byAgent, row, task, holder, clock, losses, disturbed>>
        /\ library' = [library EXCEPT ![e] = row[e].file] /\ Quiet /\ ~row[e].expired
    BY <1>4 DEF PutFileBack, arrived, tables, environment
  <2>2. /\ \A p \in Procs : pr[p] = Idle
        /\ \A d \in Entries, n \in Nodes : RecipientOK(d, n)
        /\ \A d \in Entries : LibraryOK(d)
    BY <2>1, QuietSettled
  <2>3. RecipientsSettled' /\ Alone'
    BY <2>1, <2>2 DEF RecipientsSettled, RecipientOK, Alone, Busy
  <2>4. \A d \in Entries : library'[d] = IF d = e THEN row[e].file ELSE library[d]
    BY <1>1, <2>1
  <2>5. LibrarySettled'
    BY <2>1, <2>2, <2>4 DEF LibrarySettled, LibraryOK, Published
  <2>6. ASSUME NEW p \in Procs PROVE OnCourse(p)'
    BY <2>1, <2>2, IdleStaysOnCourse
  <2> QED
    BY <2>3, <2>5, <2>6 DEF SettledInv
<1>5. ASSUME NEW e \in Entries, NEW c \in Contents \cup {Missing}, Edit(e, c) PROVE SettledInv'
  <2>1. /\ UNCHANGED <<pr, library, received, byAgent, row, task, holder, clock, losses>>
        /\ Quiet /\ disturbed = "no"
    BY <1>5 DEF Edit, Disturb, arrived, tables
  <2>2. /\ \A p \in Procs : pr[p] = Idle
        /\ \A d \in Entries, n \in Nodes : RecipientOK(d, n)
        /\ \A d \in Entries : LibraryOK(d)
    BY <2>1, QuietSettled
  <2>3. RecipientsSettled' /\ Alone' /\ LibrarySettled'
    BY <2>1, <2>2
       DEF RecipientsSettled, RecipientOK, Alone, Busy, LibrarySettled, LibraryOK, Published
  <2>4. ASSUME NEW p \in Procs PROVE OnCourse(p)'
    BY <2>1, <2>2, IdleStaysOnCourse
  <2> QED
    BY <2>3, <2>4 DEF SettledInv
<1> QED
  BY <1>2, <1>3, <1>4, <1>5

LEMMA InitSettled == Init => SettledInv
<1> SUFFICES ASSUME Init PROVE SettledInv
  OBVIOUS
<1>1. \A p \in Procs : pr[p] = Idle
  BY DEF Init
<1>2. RecipientsSettled /\ LibrarySettled
  BY DEF Init, RecipientsSettled, RecipientOK, LibrarySettled, LibraryOK, Published, NoEntry
<1> QED
  BY <1>1, <1>2, IdleOnCourse DEF SettledInv, Alone, Busy

LEMMA NextSettled == Inv /\ OverdueInv /\ SettledInv /\ [Next]_vars => SettledInv'
<1> SUFFICES ASSUME Inv, OverdueInv, SettledInv, [Next]_vars PROVE SettledInv'
  OBVIOUS
<1>1. ASSUME NEW p \in Procs, Kill(p) \/ CopyFails(p) PROVE SettledInv'
  BY <1>1 DEF Kill, CopyFails, Fault, Disturb, SettledInv
<1>2. ASSUME NEW p \in Procs, Commands(p) \/ Step(p) PROVE SettledInv'
  BY <1>2, CommandsSettled, EveryStepSettled
<1>3. CASE UNCHANGED vars
  <2>1. UNCHANGED <<pr, source, library, received, byAgent, row, task, holder, clock, losses,
                    disturbed>>
    BY <1>3 DEF vars, files, arrived, tables, environment
  <2>2. clock \in Nat /\ losses \in Nat /\ clock <= clock /\ losses <= losses
    BY DEF Inv, EnvironmentTyped
  <2>3. CASE disturbed = "no"
    BY <2>1, <2>2, <2>3, ProcessesLeftSettled
  <2> QED
    BY <2>1, <2>3 DEF SettledInv
<1> QED
  BY <1>1, <1>2, <1>3, EnvironmentSettled DEF Next

\* The invariant of commands that run one after the other.
THEOREM SettledHolds == Spec => []SettledInv
BY InvHolds, InitOverdue, NextOverdue, InitSettled, NextSettled, PTL DEF Spec

\* After undisturbed commands the states of recipients, tasks, received files
\* and the device view agree: ReceiveEntry and the agents' reports complete a
\* task and mark a recipient only with the version that is published.
THEOREM RecipientsAgree == Spec => []RecipientAgrees
<1>1. SettledInv => RecipientAgrees
  <2> SUFFICES ASSUME SettledInv, Settled PROVE RecipientAgrees
    BY DEF RecipientAgrees
  <2>1. \A e \in Entries, n \in Nodes : RecipientOK(e, n)
    BY QuietSettled DEF Settled
  <2> QED
    BY <2>1 DEF RecipientAgrees, RecipientOK
<1> QED
  BY <1>1, SettledHolds, PTL

\* After undisturbed commands an active entry has its file, unless that was
\* lost, and CleanupExpired has removed that of an expired one, which is due.
THEOREM LibraryFilesAgree == Spec => []LibraryAgrees
<1>1. SettledInv => LibraryAgrees
  <2> SUFFICES ASSUME SettledInv, Settled PROVE LibraryAgrees
    BY DEF LibraryAgrees
  <2>1. \A e \in Entries : LibraryOK(e)
    BY QuietSettled DEF Settled
  <2> QED
    BY <2>1 DEF LibraryAgrees, LibraryOK
<1> QED
  BY <1>1, SettledHolds, PTL
=============================================================================
