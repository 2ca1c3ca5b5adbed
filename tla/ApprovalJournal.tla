--------------------------- MODULE ApprovalJournal ---------------------------
(***************************************************************************)
(* The approval transaction of Phemius: src/journal.rs `apply`, with the   *)
(* checks it takes from src/changeset.rs.                                  *)
(*                                                                         *)
(* A changeset replaces, creates and deletes canon files.  Several Phemius *)
(* processes share one project directory; a file lock lets one of them     *)
(* apply at a time.  The applying process snapshots the files into a       *)
(* transaction directory, persists a Prepared journal, swaps the files by  *)
(* exclusive renames, installs an approval record, compares the canon root *)
(* with the projected one and persists a Committed journal.  Nothing is    *)
(* ever rolled back: a transaction that did not commit stops every later   *)
(* approval until a human intervenes.                                      *)
(*                                                                         *)
(* Phemius cannot stop other programs (an editor, git) from changing the   *)
(* canon, the approval records or the candidate files between any two of   *)
(* its system calls, nor a crash between them.                             *)
(*                                                                         *)
(* A SHA-256 is modelled by the bytes it digests (no collisions), so a     *)
(* root hash is the record of every canon file and approval record.        *)
(***************************************************************************)
EXTENDS Naturals, FiniteSets

CONSTANTS
  Process,      \* Phemius processes working on one project
  Change,       \* changeset identifiers (fresh UUIDs)
  File,         \* canon paths
  Content,      \* byte strings a canon file may hold
  Absent,       \* no file at a path
  None,         \* no process, changeset or file
  Seed,         \* the canon the project starts from
  Plans,        \* bound: the canons a changeset may aim at
  MaxOrder,     \* bound: chapter orders are 1..MaxOrder
  MaxEdits,     \* bound: number of edits made outside Phemius
  EditorWaits,  \* TRUE: canon is not edited while a process holds the lock
  Faults        \* what may go wrong: a subset of FaultKinds

Value == Content \cup {Absent}
FaultKinds == {"crash", "power", "io", "marker"}

ASSUME AbsentAssumption == Absent \notin Content
ASSUME NoneAssumption == None \notin Process \cup Change \cup File
ASSUME SeedAssumption == Seed \in [File -> Value] /\ Plans \subseteq [File -> Value]
ASSUME BoundAssumption == MaxOrder \in Nat /\ MaxEdits \in Nat
ASSUME EnvironmentAssumption == EditorWaits \in BOOLEAN /\ Faults \subseteq FaultKinds

(***************************************************************************)
(* The project directory.                                                  *)
(***************************************************************************)
VARIABLES
  live,      \* canon files
  record,    \* .phemius/records/approvals/<c>.json: absent, the bytes staged
             \* by the transaction of c, or any other bytes
  cand,      \* candidate files of each changeset
  phase,     \* runtime/journal/<c>: which journal file is the newest
  tmp,       \* changesets whose directory holds a temporary journal file
  marker,    \* changesets whose directory holds the durability-unknown marker
  unsynced,  \* changesets whose newest journal file may be lost with power
  staged,    \* after-NNNN files of a transaction directory
  old,       \* old-live-NNNN files of a transaction directory
  proof,     \* changesets whose approval-record.json is still staged
  dep        \* the dependency each approval record names: its chain parent

(***************************************************************************)
(* The processes.  `todo` and `file` are locals of the apply that holds    *)
(* the lock, `link` the dependency a process read before it took the lock. *)
(***************************************************************************)
VARIABLES draft, lock, pc, cur, link, todo, file

(***************************************************************************)
(* History: approvals reported to the human; edits made so far.            *)
(***************************************************************************)
VARIABLES acked, edits

canonVars == <<live, record, cand>>
journalVars == <<phase, tmp, marker, unsynced, staged, old, proof, dep>>
processVars == <<lock, pc, cur, link, todo, file>>
vars == <<canonVars, journalVars, processVars, draft, acked, edits>>

RecordState == {"absent", "genuine", "foreign"}
Phase == {"none", "created", "prepared", "committed"}
Root == [files : [File -> Value], records : [Change -> RecordState]]
Draft == [order : 0..MaxOrder, base : Root, after : [File -> Value]]

\* Steps of `apply` taken with the lock held, in program order.
BeforePrepared == {"recover", "validate", "create", "snapshot", "stage",
                   "writePrepared", "renamePrepared"}
Swapping == {"check", "preserve", "recheck", "install", "verify"}
AfterPrepared == Swapping \cup {"syncPrepared", "approve", "root",
                 "writeCommitted", "renameCommitted", "syncCommitted"}
Locked == BeforePrepared \cup AfterPrepared
Label == Locked \cup {"idle", "lock"}

-----------------------------------------------------------------------------
(***************************************************************************)
(* Reading the project directory.                                          *)
(***************************************************************************)

\* canon_root_hash_in: covers every canon file and every approval record.
CanonRoot == [files |-> live, records |-> record]

Drafted(c) == draft[c].order > 0
Targets(c) == {f \in File : draft[c].after[f] # draft[c].base.files[f]}
Before(c, f) == draft[c].base.files[f]
After(c, f) == draft[c].after[f]

\* projected_root_hash: the base with the operations and the proof applied.
ResultRoot(c) == [files |-> draft[c].after,
                  records |-> [draft[c].base.records EXCEPT ![c] = "genuine"]]

Recorded == {c \in Change : record[c] # "absent"}
\* Mutant: a directory without a journal is passed over.
JournalsOnly == {c \in Change : phase[c] \in {"prepared", "committed"}}

Transactions == {c \in Change : phase[c] # "none"}
Unfinished(c) == phase[c] \in {"created", "prepared"}

\* load_transaction succeeds: no marker, a prepared journal, no unknown entry.
Loads(c) == phase[c] \in {"prepared", "committed"} /\ c \notin marker \cup tmp

\* Mutant: a Prepared journal counts as a receipt.
AnyReceipt(c) == Loads(c) /\ record[c] = "genuine"

\* validate_committed_receipt_in for an approval record that parses.
HasReceipt(c) == Loads(c) /\ phase[c] = "committed" /\ record[c] = "genuine"

\* scan_approval_records_in accepts the directory: every record has a
\* receipt, the orders are 1..n and each record names its predecessor.
ChainScans ==
  /\ \A c \in Recorded : HasReceipt(c)
  /\ \A c, d \in Recorded : draft[c].order = draft[d].order => c = d
  /\ \A c \in Recorded : IF draft[c].order = 1
                         THEN dep[c] = None
                         ELSE /\ dep[c] \in Recorded
                              /\ draft[dep[c]].order + 1 = draft[c].order

IsHead(h) == h \in Recorded /\ \A c \in Recorded : draft[c].order <= draft[h].order

\* verify_current_committed_head: the canon is what the last approval left.
HeadMatchesCanon == \A h \in Recorded : IsHead(h) => CanonRoot = ResultRoot(h)

\* Mutant: recovery does not compare the canon with the head's result.
RecoveryWithoutCanon == (\A c \in Transactions : HasReceipt(c)) /\ ChainScans

\* recover_pending_locked returns Ok.
RecoveryPasses ==
  /\ \A c \in Transactions : HasReceipt(c)
  /\ ChainScans
  /\ HeadMatchesCanon

\* Mutant: the first approval may be of any chapter.
ExtendsAnyChain(c, l) ==
  /\ ChainScans
  /\ c \notin Recorded
  /\ IF Recorded = {}
     THEN l = None
     ELSE l \in Recorded /\ IsHead(l) /\ draft[l].order + 1 = draft[c].order

\* validate_approval_order_in for a changeset that depends on l.
ExtendsChain(c, l) ==
  /\ ChainScans
  /\ c \notin Recorded
  /\ IF Recorded = {}
     THEN draft[c].order = 1 /\ l = None
     ELSE l \in Recorded /\ IsHead(l) /\ draft[l].order + 1 = draft[c].order

CandidateMatches(c, f) == After(c, f) # Absent => cand[c][f] = After(c, f)

\* validate_changeset_in returns Ok.
Valid(c, l) ==
  /\ CanonRoot = draft[c].base
  /\ ExtendsChain(c, l)
  /\ Targets(c) # {}
  /\ \A f \in Targets(c) : CandidateMatches(c, f)

-----------------------------------------------------------------------------
NoFile == [f \in File |-> Absent]

Init ==
  /\ live = Seed
  /\ record = [c \in Change |-> "absent"]
  /\ cand = [c \in Change |-> NoFile]
  /\ phase = [c \in Change |-> "none"]
  /\ tmp = {} /\ marker = {} /\ unsynced = {} /\ proof = {}
  /\ staged = [c \in Change |-> NoFile]
  /\ old = [c \in Change |-> NoFile]
  /\ dep = [c \in Change |-> None]
  /\ draft = [c \in Change |-> [order |-> 0, base |-> CanonRoot, after |-> Seed]]
  /\ lock = None
  /\ pc = [p \in Process |-> "idle"]
  /\ cur = [p \in Process |-> None]
  /\ link = [p \in Process |-> None]
  /\ todo = {} /\ file = None
  /\ acked = {} /\ edits = 0

Goto(p, l) == pc' = [pc EXCEPT ![p] = l]

\* apply returns, with success or with an error: the lock file is closed.
Release(p) ==
  /\ lock' = None
  /\ pc' = [pc EXCEPT ![p] = "idle"]
  /\ cur' = [cur EXCEPT ![p] = None]
  /\ link' = [link EXCEPT ![p] = None]
  /\ todo' = {} /\ file' = None

Running(p, l) == lock = p /\ pc[p] = l
LocalsKept == UNCHANGED <<lock, cur, link>>

\* Continue at l when ok, stop with an error otherwise.
ProceedIf(p, ok, l) ==
  IF ok THEN Goto(p, l) /\ LocalsKept /\ UNCHANGED <<todo, file>> ELSE Release(p)

-----------------------------------------------------------------------------
(***************************************************************************)
(* Before the lock.                                                        *)
(***************************************************************************)

\* Mutant: the order of the next chapter is written.
DraftOffByOne(c, k, after) ==
  /\ ~Drafted(c)
  /\ after # live
  /\ draft' = [draft EXCEPT ![c] = [order |-> k + 1, base |-> CanonRoot, after |-> after]]
  /\ cand' = [cand EXCEPT ![c] = [f \in File |-> IF after[f] # live[f]
                                               THEN after[f] ELSE Absent]]
  /\ UNCHANGED <<live, record, journalVars, processVars, acked, edits>>

\* prepare_project_change: a new changeset against the canon as it is now,
\* even when another process is in the middle of an apply.
DraftChange(c, k, after) ==
  /\ ~Drafted(c)
  /\ after # live
  /\ draft' = [draft EXCEPT ![c] = [order |-> k, base |-> CanonRoot, after |-> after]]
  /\ cand' = [cand EXCEPT ![c] = [f \in File |-> IF after[f] # live[f]
                                               THEN after[f] ELSE Absent]]
  /\ UNCHANGED <<live, record, journalVars, processVars, acked, edits>>

\* project_dependencies: the approval on file for the previous chapter.
Previous(c) == {d \in Recorded : draft[d].order + 1 = draft[c].order}

Dependency(c) == IF Previous(c) = {} THEN None ELSE CHOOSE d \in Previous(c) : TRUE

\* approve_chapter_trusted up to the writer lock: the dependency is read and
\* the changeset validated here, and used after the lock is taken.
RequestApproval(p, c) ==
  /\ pc[p] = "idle"
  /\ Drafted(c)
  /\ \A d, e \in Previous(c) : d = e
  /\ Valid(c, Dependency(c))
  /\ cur' = [cur EXCEPT ![p] = c]
  /\ link' = [link EXCEPT ![p] = Dependency(c)]
  /\ Goto(p, "lock")
  /\ UNCHANGED <<canonVars, journalVars, lock, todo, file, draft, acked, edits>>

AcquireLock(p) ==
  /\ pc[p] = "lock"
  /\ lock = None
  /\ lock' = p
  /\ Goto(p, "recover")
  /\ UNCHANGED <<canonVars, journalVars, cur, link, todo, file, draft, acked, edits>>

-----------------------------------------------------------------------------
(***************************************************************************)
(* Under the lock, before the Prepared journal exists.                     *)
(***************************************************************************)
Recover(p) ==
  /\ Running(p, "recover")
  /\ ProceedIf(p, RecoveryPasses, "validate")
  /\ UNCHANGED <<canonVars, journalVars, draft, acked, edits>>

Validate(p) ==
  /\ Running(p, "validate")
  /\ ProceedIf(p, Valid(cur[p], link[p]), "create")
  /\ UNCHANGED <<canonVars, journalVars, draft, acked, edits>>

\* prepare_transaction: the directory comes first, and stays on any error.
CreateTransaction(p) ==
  LET c == cur[p] IN
  /\ Running(p, "create")
  /\ IF phase[c] = "none"
     THEN /\ phase' = [phase EXCEPT ![c] = "created"]
          /\ Goto(p, "snapshot")
          /\ todo' = Targets(c)
          /\ UNCHANGED <<lock, cur, link, file>>
     ELSE Release(p) /\ UNCHANGED phase
  /\ UNCHANGED <<canonVars, tmp, marker, unsynced, staged, old, proof, dep,
                 draft, acked, edits>>

\* snapshot_operation: canon and candidate are read again and hashed.
Snapshot(p, f) ==
  LET c == cur[p]
      ok == /\ Before(c, f) # Absent => live[f] = Before(c, f)
            /\ CandidateMatches(c, f)
  IN
  /\ Running(p, "snapshot")
  /\ f \in todo
  /\ IF ok
     THEN /\ staged' = [staged EXCEPT ![c][f] = IF After(c, f) = Absent
                                                THEN Absent ELSE cand[c][f]]
          /\ todo' = todo \ {f}
          /\ Goto(p, IF todo = {f} THEN "stage" ELSE "snapshot")
          /\ UNCHANGED <<lock, cur, link, file>>
     ELSE Release(p) /\ UNCHANGED staged
  /\ UNCHANGED <<canonVars, phase, tmp, marker, unsynced, old, proof, dep,
                 draft, acked, edits>>

StageProof(p) ==
  LET c == cur[p] IN
  /\ Running(p, "stage")
  /\ proof' = proof \cup {c}
  /\ dep' = [dep EXCEPT ![c] = link[p]]
  /\ Goto(p, "writePrepared")
  /\ UNCHANGED <<canonVars, phase, tmp, marker, unsynced, staged, old,
                 lock, cur, link, todo, file, draft, acked, edits>>

-----------------------------------------------------------------------------
(***************************************************************************)
(* persist_journal, for the Prepared and for the Committed journal: write  *)
(* and sync a temporary file, rename it exclusively, sync the directory.   *)
(***************************************************************************)
WriteJournal(p) ==
  LET c == cur[p] IN
  /\ lock = p
  /\ \/ pc[p] = "writePrepared" /\ Goto(p, "renamePrepared")
     \/ pc[p] = "writeCommitted" /\ Goto(p, "renameCommitted")
  /\ tmp' = tmp \cup {c}
  /\ UNCHANGED <<canonVars, phase, marker, unsynced, staged, old, proof, dep,
                 lock, cur, link, todo, file, draft, acked, edits>>

RenameJournal(p, state) ==
  LET c == cur[p] IN
  /\ tmp' = tmp \ {c}
  /\ phase' = [phase EXCEPT ![c] = state]
  /\ unsynced' = unsynced \cup {c}
  /\ UNCHANGED <<canonVars, marker, staged, old, proof, dep,
                 lock, cur, link, todo, file, draft, acked, edits>>

RenamePrepared(p) ==
  /\ Running(p, "renamePrepared")
  /\ Goto(p, "syncPrepared")
  /\ RenameJournal(p, "prepared")

RenameCommitted(p) ==
  /\ Running(p, "renameCommitted")
  /\ Goto(p, "syncCommitted")
  /\ RenameJournal(p, "committed")

SyncPrepared(p) ==
  /\ Running(p, "syncPrepared")
  /\ unsynced' = unsynced \ {cur[p]}
  /\ todo' = Targets(cur[p])
  /\ Goto(p, "check")
  /\ UNCHANGED <<canonVars, phase, tmp, marker, staged, old, proof, dep,
                 lock, cur, link, file, draft, acked, edits>>

\* Mutant: success is reported without the directory sync.
ReportUnsynced(p) ==
  /\ Running(p, "syncCommitted")
  /\ acked' = acked \cup {cur[p]}
  /\ Release(p)
  /\ UNCHANGED <<canonVars, journalVars, draft, edits>>

\* apply returns Ok.
SyncCommitted(p) ==
  /\ Running(p, "syncCommitted")
  /\ unsynced' = unsynced \ {cur[p]}
  /\ acked' = acked \cup {cur[p]}
  /\ Release(p)
  /\ UNCHANGED <<canonVars, phase, tmp, marker, staged, old, proof, dep, draft, edits>>

\* The directory sync failed: durability_unknown_resolution leaves a marker,
\* unless writing the marker fails as well.
SyncFails(p) ==
  LET c == cur[p] IN
  /\ "io" \in Faults
  /\ Running(p, "syncPrepared") \/ Running(p, "syncCommitted")
  /\ \/ marker' = marker \cup {c} /\ unsynced' = unsynced \ {c}
     \/ "marker" \in Faults /\ UNCHANGED <<marker, unsynced>>
  /\ Release(p)
  /\ UNCHANGED <<canonVars, phase, tmp, staged, old, proof, dep, draft, acked, edits>>

-----------------------------------------------------------------------------
(***************************************************************************)
(* apply_entry: one operation at a time, every check and rename a step.    *)
(* The order of the operations in the changeset is arbitrary.              *)
(***************************************************************************)
CheckTarget(p, f) ==
  LET c == cur[p] IN
  /\ Running(p, "check")
  /\ f \in todo
  /\ IF live[f] = Before(c, f)
     THEN /\ file' = f
          /\ Goto(p, IF Before(c, f) = Absent THEN "install" ELSE "preserve")
          /\ LocalsKept /\ UNCHANGED todo
     ELSE Release(p)
  /\ UNCHANGED <<canonVars, journalVars, draft, acked, edits>>

\* Rename the live file, whatever it now holds, into the transaction.
Preserve(p) ==
  LET c == cur[p] IN
  /\ Running(p, "preserve")
  /\ IF live[file] # Absent
     THEN /\ old' = [old EXCEPT ![c][file] = live[file]]
          /\ live' = [live EXCEPT ![file] = Absent]
     ELSE UNCHANGED <<old, live>>
  /\ ProceedIf(p, live[file] # Absent, "recheck")
  /\ UNCHANGED <<record, cand, phase, tmp, marker, unsynced, staged, proof, dep,
                 draft, acked, edits>>

\* The entry is done: go on with the next one.
EntryDone(p) ==
  /\ todo' = todo \ {file}
  /\ file' = None
  /\ Goto(p, IF todo = {file} THEN "approve" ELSE "check")
  /\ LocalsKept

Recheck(p) ==
  LET c == cur[p] IN
  /\ Running(p, "recheck")
  /\ \/ old[c][file] # Before(c, file) /\ Release(p)
     \/ old[c][file] = Before(c, file) /\ After(c, file) = Absent /\ EntryDone(p)
     \/ /\ old[c][file] = Before(c, file)
        /\ After(c, file) # Absent
        /\ ProceedIf(p, TRUE, "install")
  /\ UNCHANGED <<canonVars, journalVars, draft, acked, edits>>

\* Mutant: a rename that replaces its target.
InstallOver(p) ==
  LET c == cur[p]
      ok == staged[c][file] = After(c, file)
  IN
  /\ Running(p, "install")
  /\ IF ok
     THEN /\ live' = [live EXCEPT ![file] = staged[c][file]]
          /\ staged' = [staged EXCEPT ![c][file] = Absent]
     ELSE UNCHANGED <<live, staged>>
  /\ ProceedIf(p, ok, "verify")
  /\ UNCHANGED <<record, cand, phase, tmp, marker, unsynced, old, proof, dep,
                 draft, acked, edits>>

\* Mutant: the candidate file is installed, not the staged copy.
InstallCandidate(p) ==
  LET c == cur[p]
      ok == staged[c][file] = After(c, file) /\ live[file] = Absent
  IN
  /\ Running(p, "install")
  /\ IF ok
     THEN /\ live' = [live EXCEPT ![file] = cand[c][file]]
          /\ staged' = [staged EXCEPT ![c][file] = Absent]
     ELSE UNCHANGED <<live, staged>>
  /\ ProceedIf(p, ok, "verify")
  /\ UNCHANGED <<record, cand, phase, tmp, marker, unsynced, old, proof, dep,
                 draft, acked, edits>>

\* Exclusive rename of the staged file: an existing target is not replaced.
Install(p) ==
  LET c == cur[p]
      ok == staged[c][file] = After(c, file) /\ live[file] = Absent
  IN
  /\ Running(p, "install")
  /\ IF ok
     THEN /\ live' = [live EXCEPT ![file] = staged[c][file]]
          /\ staged' = [staged EXCEPT ![c][file] = Absent]
     ELSE UNCHANGED <<live, staged>>
  /\ ProceedIf(p, ok, "verify")
  /\ UNCHANGED <<record, cand, phase, tmp, marker, unsynced, old, proof, dep,
                 draft, acked, edits>>

VerifyInstalled(p) ==
  /\ Running(p, "verify")
  /\ IF live[file] = After(cur[p], file) THEN EntryDone(p) ELSE Release(p)
  /\ UNCHANGED <<canonVars, journalVars, draft, acked, edits>>

\* install_approval_record, by exclusive rename of the staged proof.
InstallApprovalRecord(p) ==
  LET c == cur[p]
      ok == record[c] = "absent"
  IN
  /\ Running(p, "approve")
  /\ IF ok
     THEN record' = [record EXCEPT ![c] = "genuine"] /\ proof' = proof \ {c}
     ELSE UNCHANGED <<record, proof>>
  /\ ProceedIf(p, ok, "root")
  /\ UNCHANGED <<live, cand, phase, tmp, marker, unsynced, staged, old, dep,
                 draft, acked, edits>>

CheckRoot(p) ==
  /\ Running(p, "root")
  /\ ProceedIf(p, CanonRoot = ResultRoot(cur[p]), "writeCommitted")
  /\ UNCHANGED <<canonVars, journalVars, draft, acked, edits>>

-----------------------------------------------------------------------------
(***************************************************************************)
(* Failures.  A failed system call and the death of the process leave the  *)
(* same files behind; an apply in progress is never continued.             *)
(***************************************************************************)
IoFails(p) ==
  /\ "io" \in Faults
  /\ lock = p /\ pc[p] \notin {"syncPrepared", "syncCommitted"}
  /\ Release(p)
  /\ UNCHANGED <<canonVars, journalVars, draft, acked, edits>>

Crash(p) ==
  /\ "crash" \in Faults
  /\ pc[p] # "idle"
  /\ IF lock = p
     THEN Release(p)
     ELSE /\ Goto(p, "idle")
          /\ cur' = [cur EXCEPT ![p] = None]
          /\ link' = [link EXCEPT ![p] = None]
          /\ UNCHANGED <<lock, todo, file>>
  /\ UNCHANGED <<canonVars, journalVars, draft, acked, edits>>

\* Every process dies and a journal rename that was never synced may be undone.
PowerLoss ==
  /\ "power" \in Faults
  /\ lock # None \/ unsynced # {}
  /\ \E lost \in SUBSET unsynced :
       /\ phase' = [c \in Change |->
                      IF c \notin lost THEN phase[c]
                      ELSE IF phase[c] = "committed" THEN "prepared" ELSE "created"]
       /\ tmp' = tmp \cup lost
  /\ unsynced' = {}
  /\ lock' = None /\ todo' = {} /\ file' = None
  /\ pc' = [p \in Process |-> "idle"]
  /\ cur' = [p \in Process |-> None]
  /\ link' = [p \in Process |-> None]
  /\ UNCHANGED <<canonVars, marker, staged, old, proof, dep, draft, acked, edits>>

-----------------------------------------------------------------------------
(***************************************************************************)
(* Other programs.                                                         *)
(***************************************************************************)
OutsideEdit ==
  /\ edits < MaxEdits
  /\ edits' = edits + 1
  /\ UNCHANGED <<journalVars, processVars, draft, acked>>

EditCanon(f, v) ==
  /\ EditorWaits => lock = None
  /\ live[f] # v
  /\ live' = [live EXCEPT ![f] = v]
  /\ OutsideEdit
  /\ UNCHANGED <<record, cand>>

\* git checkout and the like: records come and go with the canon.
EditRecord(c, s) ==
  /\ EditorWaits => lock = None
  /\ record[c] # s
  /\ Drafted(c)
  /\ s = "genuine" => phase[c] = "committed"
  /\ record' = [record EXCEPT ![c] = s]
  /\ OutsideEdit
  /\ UNCHANGED <<live, cand>>

EditCandidate(c, f, v) ==
  /\ Drafted(c) /\ f \in Targets(c)
  /\ cand[c][f] # v
  /\ cand' = [cand EXCEPT ![c][f] = v]
  /\ OutsideEdit
  /\ UNCHANGED <<live, record>>

Editor ==
  \/ \E f \in File, v \in Value : EditCanon(f, v)
  \/ \E c \in Change, s \in RecordState : EditRecord(c, s)
  \/ \E c \in Change, f \in File, v \in Value : EditCandidate(c, f, v)

-----------------------------------------------------------------------------
\* One step of the apply that holds the lock.
ApplyStep(p) ==
  \/ Recover(p) \/ Validate(p) \/ CreateTransaction(p)
  \/ \E f \in File : Snapshot(p, f) \/ CheckTarget(p, f)
  \/ StageProof(p)
  \/ WriteJournal(p)
  \/ RenamePrepared(p) \/ RenameCommitted(p)
  \/ SyncPrepared(p) \/ SyncCommitted(p)
  \/ Preserve(p) \/ Recheck(p) \/ Install(p) \/ VerifyInstalled(p)
  \/ InstallApprovalRecord(p) \/ CheckRoot(p)

Fault(p) == SyncFails(p) \/ IoFails(p) \/ Crash(p)

Next ==
  \/ \E c \in Change, k \in 1..MaxOrder, after \in Plans : DraftChange(c, k, after)
  \/ \E p \in Process, c \in Change : RequestApproval(p, c)
  \/ \E p \in Process : AcquireLock(p) \/ ApplyStep(p) \/ Fault(p)
  \/ PowerLoss
  \/ Editor

Spec == Init /\ [][Next]_vars

\* The scheduler runs the process that holds the lock; nothing is assumed of
\* the order in which waiting processes get it.
Fairness == \A p \in Process : WF_vars(ApplyStep(p))

FairSpec == Spec /\ Fairness

-----------------------------------------------------------------------------
(***************************************************************************)
(* Properties.                                                             *)
(***************************************************************************)
TypeOK ==
  /\ live \in [File -> Value]
  /\ record \in [Change -> RecordState]
  /\ cand \in [Change -> [File -> Value]]
  /\ phase \in [Change -> Phase]
  /\ tmp \subseteq Change /\ marker \subseteq Change
  /\ unsynced \subseteq Change /\ proof \subseteq Change
  /\ staged \in [Change -> [File -> Value]]
  /\ old \in [Change -> [File -> Value]]
  /\ dep \in [Change -> Change \cup {None}]
  /\ draft \in [Change -> Draft]
  /\ lock \in Process \cup {None}
  /\ pc \in [Process -> Label]
  /\ cur \in [Process -> Change \cup {None}]
  /\ link \in [Process -> Change \cup {None}]
  /\ todo \subseteq File
  /\ file \in File \cup {None}
  /\ acked \subseteq Change
  /\ edits \in 0..MaxEdits

Committed == {c \in Change : phase[c] = "committed"}

\* An approval reported to the human is committed and stays so through every
\* crash, power loss and failed call (persist_journal syncs before Ok).
AckedIsDurable ==
  \A c \in acked : c \in Committed /\ c \notin unsynced \cup marker \cup tmp

\* Work nobody will finish: an apply stopped between creating its directory
\* and a journal directory entry known to be durable.
BeingApplied(c) == \E p \in Process : /\ lock = p /\ cur[p] = c
                                       /\ pc[p] \notin {"recover", "validate", "create"}
Abandoned(c) == /\ Unfinished(c) \/ c \in marker \cup tmp
                /\ ~BeingApplied(c)

\* Once a transaction is abandoned, Phemius moves no canon file, stages and
\* installs no proof and reports no approval, whichever process asks, however
\* its request interleaved with the failure (recover_pending_locked).
AbandonedStopsApprovals ==
  [][(\E c \in Change : Abandoned(c)) => UNCHANGED <<staged, old, proof, dep, acked>>]_vars

\* Committed approvals never fork: no two have the same chapter order and each
\* names the one before it, whatever order processes read the chain, took the
\* lock and crashed in (the dependency is read before the lock is taken).
NoFork ==
  /\ \A c, d \in Committed : draft[c].order = draft[d].order => c = d
  /\ \A c \in Committed : IF draft[c].order = 1
                          THEN dep[c] = None
                          ELSE /\ dep[c] \in Change
                               /\ draft[dep[c]].order + 1 = draft[c].order

\* Each approval started from exactly the canon its predecessor left: no
\* update is lost between two approvals.  Needs editors that keep off the
\* canon while an approval runs: recovery and validation read it separately.
NoLostUpdate ==
  \A c \in Committed : dep[c] # None => draft[c].base = ResultRoot(dep[c])

ByPhemius == edits' = edits

\* No step of Phemius destroys bytes found in a canon file, not even an edit
\* made between its check and its rename: they stay in the transaction
\* directory, and what is kept there is never overwritten.
EditsSurvive ==
  [][ByPhemius =>
       /\ \A f \in File : live'[f] # live[f] /\ live[f] # Absent =>
            \E c \in Change : old[c][f] = Absent /\ old'[c][f] = live[f]
       /\ \A c \in Change, f \in File : old[c][f] # Absent => old'[c][f] = old[c][f]]_vars

\* The bytes Phemius puts into canon are the ones the changeset's hashes were
\* approved for, even when the candidate file is edited during the apply.
OnlyApprovedBytes ==
  [][ByPhemius => \A f \in File : live'[f] \in {live[f], Absent} \/
       \E p \in Process : lock = p /\ cur[p] # None /\ live'[f] = After(cur[p], f)]_vars

\* The writer lock is always given back (every error path returns).
LockReleased == \A p \in Process : lock = p ~> lock # p
=============================================================================
