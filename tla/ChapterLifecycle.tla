-------------------------- MODULE ChapterLifecycle --------------------------
(***************************************************************************)
(* The chapters of one project: the run controller of src/workflow.rs with *)
(* its checkpoint and the canon.                                           *)
(*                                                                         *)
(* A chapter is written (architect, writer, critics, at most two           *)
(* revisions), and becomes a candidate; findings that block it are         *)
(* resolved by a human or removed by a revision; an approvable candidate   *)
(* is approved in chapter order.  Editing or rejecting a chapter makes the *)
(* later ones stale.  All of this lives in memory; commands that record    *)
(* what they did append to the session and write a checkpoint, and a new   *)
(* process starts from the checkpoint if it names the end of the session.  *)
(*                                                                         *)
(* An approval is one step (AtomicApproval), so the canon is the sequence  *)
(* of approved candidates and its length identifies its root hash.  The    *)
(* story plans are present (preflight), and budget and confirmation are    *)
(* the matter of BudgetLedger and CommandLoop.                             *)
(***************************************************************************)
EXTENDS Integers, Sequences, FiniteSets

CONSTANTS
  Chapter,         \* chapter identifiers
  Text,            \* the prose of a chapter
  Message,         \* what a critic can object to
  Critic,          \* critic_roles
  BatchSize,       \* critics asked at the same time
  MaxRevisions,    \* max_revisions
  MaxDrafts,       \* bound: changesets written
  RunLengths,      \* chapters of a continuous run
  None,
  Calls,           \* what is done to the controller: a subset of CallKinds
  Restarts         \* whether processes end and others start

(***************************************************************************)
(* Beyond writing, resolving and approving: rejecting, compacting; and the *)
(* operations of the library that no command reaches yet.                  *)
(***************************************************************************)
CallKinds == {"reject", "compact", "edit", "correct", "continuous"}

ASSUME BoundsAssumption ==
  /\ MaxRevisions \in Nat /\ MaxDrafts \in Nat
  /\ BatchSize \in Nat \ {0} /\ RunLengths \subseteq Nat
ASSUME CriticAssumption == IsFiniteSet(Critic)
ASSUME CallsAssumption == Calls \subseteq CallKinds /\ Restarts \in BOOLEAN

Draft == 1..MaxDrafts

\* A finding is bound to the text it was reported on.
FindingId == Message \X Text

\* A blocker of a text of a changeset.
Blocker == Draft \X FindingId

\* The states of a run; a chapter may also be planned, or being written.
RunState == {"Candidate", "Approvable", "Approved", "Rejected", "Stale",
             "NeedsRevalidation"}
ChapterState == RunState \cup {"Unknown", "Planned", "Running"}

(***************************************************************************)
(* ChapterRun and its changeset, whose state follows the run's.            *)
(***************************************************************************)
Run ==
  [draft : Draft,                 \* the changeset
   text : Text \cup {None},       \* candidate_hash; None: of no file
   content : Text,                \* content_result_hash
   validated : BOOLEAN,           \* validation_hash is that of the changeset
   base : Nat,                    \* base_root_hash
   order : Nat,                   \* chapter_order
   depends : Draft \cup {None},   \* dependencies
   seen : [Chapter -> Text \cup {None}],  \* provisional_canon_hashes
   state : RunState,
   findings : [FindingId -> Nat], \* how often a finding is in `findings`
   blockers : SUBSET FindingId]   \* unresolved_blocker_ids

Controller ==
  [order : [Chapter -> Nat],      \* 0: the chapter is not registered
   state : [Chapter -> ChapterState],
   run : [Chapter -> Run \cup {None}],
   falsePositive : [Chapter -> SUBSET FindingId],
   provisional : [Chapter -> Text \cup {None}]]

ASSUME NoneAssumption ==
  None \notin Text \cup Chapter /\ None \notin Run /\ None \notin Controller

VARIABLES
  mem,        \* RunController
  saved,      \* controller_state of the checkpoint
  session,    \* "none"; "named": the checkpoint names the last line; "ahead"
  attached,   \* the process holds the session
  pc,         \* "idle", or where write_chapter is: "plan", "write", "review"
  work,       \* its locals
  queue,      \* the chapters write_continuous has still to write
  chain,      \* the canon: [draft, text] of the approvals, in order
  file,       \* the candidate file of each changeset
  drafts,     \* changesets written so far
  reviewed,   \* history: [draft, text] whose review ended
  open,       \* history: blockers neither resolved nor revised away since
  rejected    \* history: changesets the human rejected

memVars == <<mem, attached, pc, work, queue>>
diskVars == <<saved, session, chain, file, drafts>>
historyVars == <<reviewed, open, rejected>>
vars == <<memVars, diskVars, historyVars>>

-----------------------------------------------------------------------------
(***************************************************************************)
(* The controller.                                                         *)
(***************************************************************************)
NoFindings == [f \in FindingId |-> 0]
NoText == [c \in Chapter |-> None]

NewController ==
  [order |-> [c \in Chapter |-> 0],
   state |-> [c \in Chapter |-> "Unknown"],
   run |-> [c \in Chapter |-> None],
   falsePositive |-> [c \in Chapter |-> {}],
   provisional |-> NoText]

NoWork == [chapter |-> None, draft |-> 0, text |-> None,
           findings |-> NoFindings, asked |-> {}, failing |-> {}, revisions |-> 0]

Registered(m) == {c \in Chapter : m.order[c] # 0}
HasRun(m, c) == m.run[c] # None

NextOrder(m) ==
  IF Registered(m) = {} THEN 1
  ELSE 1 + m.order[CHOOSE c \in Registered(m) :
                     \A d \in Registered(m) : m.order[d] <= m.order[c]]

Register(m, c, k) ==
  [m EXCEPT !.order[c] = k, !.state[c] = "Planned"]

\* An entry of `findings` that no human called a false positive.  Resolving
\* a finding changes the first entry that has its identifier.
OpenEntry(m, c, f) ==
  m.run[c].findings[f] > IF f \in m.falsePositive[c] THEN 1 ELSE 0

\* Finding::blocks: open, and about the candidate as it is.
Blocked(m, c) ==
  \E f \in FindingId : f[2] = m.run[c].text /\ OpenEntry(m, c, f)

\* refresh_chapter_states
Refresh(m) ==
  LET state(c) == IF m.run[c].state = "Candidate" /\ ~Blocked(m, c)
                  THEN "Approvable" ELSE m.run[c].state
  IN [m EXCEPT
        !.run = [c \in Chapter |-> IF HasRun(m, c)
                                   THEN [m.run[c] EXCEPT !.state = state(c)]
                                   ELSE None],
        !.state = [c \in Chapter |-> IF HasRun(m, c) THEN state(c) ELSE m.state[c]]]

\* invalidate_chapter_findings
DropFindings(m, C) ==
  [m EXCEPT
     !.run = [c \in Chapter |-> IF c \in C /\ HasRun(m, c)
                                THEN [m.run[c] EXCEPT !.findings = NoFindings]
                                ELSE m.run[c]],
     !.falsePositive = [c \in Chapter |-> IF c \in C THEN {} ELSE m.falsePositive[c]]]

Later(m, c) == {d \in Registered(m) : m.order[d] > m.order[c]}

Outdated(state) ==
  IF state \in {"Approved", "NeedsRevalidation"} THEN "NeedsRevalidation" ELSE "Stale"

\* Mutant: the text of a stale chapter stays visible to later ones.
KeepProvisional(m, c) ==
  LET later == Later(m, c)
      state == [d \in Chapter |-> IF d \in later THEN Outdated(m.state[d]) ELSE m.state[d]]
  IN DropFindings([m EXCEPT
       !.state = state,
       !.run = [d \in Chapter |-> IF d \in later /\ HasRun(m, d)
                                  THEN [m.run[d] EXCEPT !.state = state[d]]
                                  ELSE m.run[d]]], later)

\* note_upstream_edit
NoteUpstreamEdit(m, c) ==
  LET later == Later(m, c)
      state == [d \in Chapter |-> IF d \in later THEN Outdated(m.state[d]) ELSE m.state[d]]
  IN DropFindings([m EXCEPT
       !.state = state,
       !.run = [d \in Chapter |-> IF d \in later /\ HasRun(m, d)
                                  THEN [m.run[d] EXCEPT !.state = state[d]]
                                  ELSE m.run[d]],
       !.provisional = [d \in Chapter |-> IF d \in later THEN None
                                          ELSE m.provisional[d]]], later)

\* ChapterRun::is_approvable
IsApprovable(m, c) ==
  /\ HasRun(m, c)
  /\ m.run[c].state = "Approvable"
  /\ m.run[c].blockers = {}
  /\ \A f \in FindingId : ~OpenEntry(m, c, f)

\* project_dependencies: the approval on file for the chapter before.
Dependency(k) == IF k - 1 \in DOMAIN chain THEN chain[k - 1].draft ELSE None

\* validate_changeset for the changeset of r with the dependency recomputed.
Valid(r) ==
  /\ r.base = Len(chain)
  /\ r.order = Len(chain) + 1
  /\ file[r.draft] = r.text
  /\ r.text = r.content
  /\ r.validated \/ r.depends # Dependency(r.order)

-----------------------------------------------------------------------------
(***************************************************************************)
(* How a command ends: it appends to the session and writes a checkpoint   *)
(* of m, or one of the two fails.                                          *)
(***************************************************************************)
RecordOutcome == {"done", "appendFailed", "checkpointFailed"}

Record(m, o) ==
  /\ saved' = IF o = "done" THEN m ELSE saved
  /\ session' = CASE o = "done" -> "named"
                  [] o = "appendFailed" -> session
                  [] o = "checkpointFailed" -> "ahead"

Ready == attached /\ pc = "idle" /\ queue = << >>

(***************************************************************************)
(* write_chapter, one step per answer of a model.                          *)
(***************************************************************************)
MayWrite(c) ==
  /\ attached /\ pc = "idle"
  /\ drafts < MaxDrafts
  /\ queue = << >> \/ (queue # << >> /\ c = Head(queue))

Planned(c) == IF mem.order[c] = 0 THEN Register(mem, c, NextOrder(mem)) ELSE mem

Refuses(state) == state \in {"Stale", "NeedsRevalidation"}

\* The instruction is noted; the findings of the last candidate are dropped.
BeginWrite(c) ==
  /\ MayWrite(c)
  /\ ~Refuses(mem.state[c])
  /\ mem' = [DropFindings(Planned(c), {c}) EXCEPT !.state[c] = "Running"]
  /\ session' = "ahead"
  /\ pc' = "plan"
  /\ work' = [NoWork EXCEPT !.chapter = c]
  /\ UNCHANGED <<attached, queue, saved, chain, file, drafts, historyVars>>

\* The instruction is noted, and the chapter refused.
WriteRefused(c) ==
  /\ MayWrite(c)
  /\ Refuses(mem.state[c])
  /\ session' = "ahead"
  /\ queue' = << >>
  /\ UNCHANGED <<mem, attached, pc, work, saved, chain, file, drafts, historyVars>>

ArchitectAnswers ==
  /\ pc = "plan"
  /\ pc' = "write"
  /\ UNCHANGED <<mem, attached, work, queue, diskVars, historyVars>>

\* The prose in the candidate file of a changeset.
Rewrite(d, t) == file' = [file EXCEPT ![d] = t]

\* prepare_project_change: a new changeset against the canon as it is.
WriterAnswers(t) ==
  /\ pc = "write"
  /\ drafts' = drafts + 1
  /\ Rewrite(drafts', t)
  /\ work' = [work EXCEPT !.draft = drafts', !.text = t, !.asked = Critic]
  /\ pc' = "review"
  /\ UNCHANGED <<mem, attached, queue, saved, session, chain, historyVars>>

Batches(roles) ==
  {B \in SUBSET roles : B # {} /\ Cardinality(B) <= BatchSize
                          /\ (B = roles \/ Cardinality(B) = BatchSize)}

\* parse_findings: how often the critics of B report a finding on the text.
\* Two of them may report the same one.
Times(B, said, f) == Cardinality({r \in B : f[2] = work.text /\ f[1] \in said[r]})

\* run_critic_batch
CriticsAnswer(B, said) ==
  /\ pc = "review"
  /\ B \in Batches(work.asked)
  /\ said \in [B -> SUBSET Message]
  /\ work' = [work EXCEPT
       !.asked = @ \ B,
       !.failing = @ \cup {r \in B : said[r] # {}},
       !.findings = [f \in FindingId |-> @[f] + Times(B, said, f)]]
  /\ open' = open \cup ({work.draft} \X {f \in FindingId : Times(B, said, f) > 0})
  /\ UNCHANGED <<mem, attached, pc, queue, diskVars, reviewed, rejected>>

CandidateBlocks == \E f \in FindingId : work.findings[f] > 0

Revising == pc = "review" /\ work.asked = {} /\ CandidateBlocks

\* The reviser answers nothing.
ReviserSilent ==
  /\ Revising /\ work.revisions < MaxRevisions
  /\ work' = [work EXCEPT !.revisions = @ + 1]
  /\ UNCHANGED <<mem, attached, pc, queue, diskVars, historyVars>>

\* update_project_change; only the critics that objected are asked again.
ReviserAnswers(t) ==
  /\ Revising /\ work.revisions < MaxRevisions
  /\ mem' = DropFindings(mem, {work.chapter})
  /\ Rewrite(work.draft, t)
  /\ work' = [work EXCEPT !.text = t, !.findings = NoFindings,
                          !.asked = work.failing, !.failing = {},
                          !.revisions = @ + 1]
  /\ open' = {b \in open : b[1] # work.draft}
  /\ UNCHANGED <<attached, pc, queue, saved, session, chain, drafts, reviewed, rejected>>

WrittenFindings == {f \in FindingId : work.findings[f] > 0}

NewRun ==
  [draft |-> work.draft, text |-> work.text, content |-> work.text,
   validated |-> TRUE, base |-> Len(chain), order |-> mem.order[work.chapter],
   depends |-> Dependency(mem.order[work.chapter]),
   seen |-> [d \in Chapter |-> IF d \in Registered(mem)
                                  /\ mem.order[d] < mem.order[work.chapter]
                               THEN mem.provisional[d] ELSE None],
   state |-> IF CandidateBlocks THEN "Candidate" ELSE "Approvable",
   findings |-> work.findings,
   blockers |-> WrittenFindings]

Finished == pc = "review" /\ work.asked = {}
              /\ (~CandidateBlocks \/ work.revisions = MaxRevisions)

EndWrite(o) ==
  LET c == work.chapter
      m == Refresh([mem EXCEPT !.run[c] = NewRun, !.state[c] = NewRun.state,
                               !.falsePositive[c] = {},
                               !.provisional[c] = work.text])
  IN /\ Finished
     /\ mem' = m
     /\ Record(m, o)
     /\ pc' = "idle"
     /\ work' = NoWork
     /\ queue' = IF queue # << >> /\ o = "done" THEN Tail(queue) ELSE << >>
     /\ reviewed' = reviewed \cup {[draft |-> work.draft, text |-> work.text]}
     /\ UNCHANGED <<attached, chain, file, drafts, open, rejected>>

\* A model request fails or a validator stops: the chapter stays Running.
WriteFails ==
  /\ pc # "idle"
  /\ pc' = "idle"
  /\ work' = NoWork
  /\ queue' = << >>
  /\ UNCHANGED <<mem, attached, diskVars, historyVars>>

(***************************************************************************)
(* write_continuous: the chapters are registered in their order and then   *)
(* written one after the other.                                            *)
(***************************************************************************)
FitsRun(m, ids, i) ==
  \/ m.order[ids[i]] = 0
  \/ m.order[ids[i]] = i /\ ~Refuses(m.state[ids[i]])

StartContinuous(ids) ==
  /\ Ready /\ "continuous" \in Calls
  /\ Len(ids) \in RunLengths
  /\ \A i, j \in DOMAIN ids : ids[i] = ids[j] => i = j
  /\ LET fits == {n \in 0..Len(ids) : \A i \in 1..n : FitsRun(mem, ids, i)}
         n == CHOOSE k \in fits : \A l \in fits : l <= k
         new == {i \in 1..n : mem.order[ids[i]] = 0}
         place(c) == CHOOSE i \in new : ids[i] = c
         fresh == {ids[i] : i \in new}
     IN /\ mem' = [mem EXCEPT
             !.order = [c \in Chapter |-> IF c \in fresh THEN place(c) ELSE @[c]],
             !.state = [c \in Chapter |-> IF c \in fresh THEN "Planned" ELSE @[c]]]
        /\ queue' = IF n = Len(ids) THEN ids ELSE << >>
  /\ UNCHANGED <<attached, pc, work, diskVars, historyVars>>

(***************************************************************************)
(* The human.                                                              *)
(***************************************************************************)
\* resolve_false_positive
Resolve(c, f, o) ==
  /\ Ready /\ HasRun(mem, c)
  /\ mem.run[c].findings[f] > 0 /\ f \notin mem.falsePositive[c]
  /\ f[2] = mem.run[c].text
  /\ LET m == Refresh([mem EXCEPT !.falsePositive[c] = @ \cup {f},
                                  !.run[c].blockers = @ \ {f}])
     IN mem' = m /\ Record(m, o)
  /\ open' = open \ {<<mem.run[c].draft, f>>}
  /\ UNCHANGED <<attached, pc, work, queue, chain, file, drafts, reviewed, rejected>>

\* Mutant: the changeset of a rejected chapter stays as it was.
RejectInName(c) ==
  /\ Ready /\ "reject" \in Calls /\ HasRun(mem, c)
  /\ mem.state[c] # "Approved"
  /\ mem' = NoteUpstreamEdit([mem EXCEPT !.state[c] = "Rejected"], c)
  /\ rejected' = rejected \cup {mem.run[c].draft}
  /\ UNCHANGED <<attached, pc, work, queue, diskVars, reviewed, open>>

\* reject_changeset_trusted: nothing is recorded.
Reject(c) ==
  /\ Ready /\ "reject" \in Calls /\ HasRun(mem, c)
  /\ mem.state[c] # "Approved"
  /\ mem' = NoteUpstreamEdit([mem EXCEPT !.state[c] = "Rejected",
                                         !.run[c].state = "Rejected"], c)
  /\ rejected' = rejected \cup {mem.run[c].draft}
  /\ UNCHANGED <<attached, pc, work, queue, diskVars, reviewed, open>>

\* Mutant: chapters are approved in any order.
ApproveAnyOrder(c, o) ==
  /\ Ready /\ IsApprovable(mem, c)
  /\ LET r == mem.run[c]
         m == [mem EXCEPT !.state[c] = "Approved", !.run[c].state = "Approved",
                          !.run[c].validated = TRUE,
                          !.run[c].depends = Dependency(r.order)]
     IN /\ file[r.draft] = r.text
        /\ chain' = Append(chain, [draft |-> r.draft, text |-> r.text])
        /\ mem' = m /\ Record(m, o)
  /\ UNCHANGED <<attached, pc, work, queue, file, drafts, historyVars>>

MayApprove(c) ==
  /\ Ready /\ IsApprovable(mem, c)
  /\ \A d \in Registered(mem) :
       mem.order[d] < mem.order[c] => mem.state[d] = "Approved"
  /\ Valid(mem.run[c])

\* approve_changeset_trusted
Approve(c, o) ==
  /\ MayApprove(c)
  /\ LET r == mem.run[c]
         m == [mem EXCEPT !.state[c] = "Approved", !.run[c].state = "Approved",
                          !.run[c].validated = TRUE,
                          !.run[c].depends = Dependency(r.order)]
     IN /\ chain' = Append(chain, [draft |-> r.draft, text |-> r.text])
        /\ mem' = m /\ Record(m, o)
  /\ UNCHANGED <<attached, pc, work, queue, file, drafts, historyVars>>

\* The canon is changed, and the process ends, or the approval record cannot
\* be read back, before the controller knows.
ApproveUnnoticed(c) ==
  /\ MayApprove(c)
  /\ chain' = Append(chain, [draft |-> mem.run[c].draft, text |-> mem.run[c].text])
  /\ UNCHANGED <<memVars, saved, session, file, drafts, historyVars>>

\* Mutant: the hashes of the changeset are recomputed for the edited text.
Rehashed(c, t) ==
  [mem EXCEPT !.run[c].text = t, !.run[c].content = IF t = None THEN @ ELSE t,
              !.run[c].state = "Candidate", !.falsePositive[c] = {}]

\* edit_candidate, and the same when the candidate file cannot be written.
Reopened(c, t) ==
  [mem EXCEPT !.run[c].text = t, !.run[c].validated = FALSE,
              !.run[c].state = "Candidate", !.falsePositive[c] = {}]

MayEdit(c) ==
  Ready /\ "edit" \in Calls /\ HasRun(mem, c) /\ mem.state[c] # "Approved"

Edit(c, t) ==
  /\ MayEdit(c)
  /\ mem' = Refresh(NoteUpstreamEdit([Reopened(c, t) EXCEPT !.provisional[c] = t], c))
  /\ Rewrite(mem.run[c].draft, t)
  /\ UNCHANGED <<attached, pc, work, queue, saved, session, chain, drafts, historyVars>>

EditFails(c) ==
  /\ MayEdit(c)
  /\ mem' = Reopened(c, None)
  /\ UNCHANGED <<attached, pc, work, queue, diskVars, historyVars>>

\* accept_human_correction
Correct(c, o) ==
  /\ Ready /\ "correct" \in Calls
  /\ c \in Registered(mem)
  /\ mem' = NoteUpstreamEdit(mem, c)
  /\ Record(mem', o)
  /\ UNCHANGED <<attached, pc, work, queue, chain, file, drafts, historyVars>>

\* compact_session, and every coordinator request.
Compact(o) ==
  /\ Ready /\ "compact" \in Calls
  /\ o # "appendFailed"
  /\ Record(mem, o)
  /\ UNCHANGED <<memVars, chain, file, drafts, historyVars>>

(***************************************************************************)
(* The process ends; another one attaches to the session.                  *)
(***************************************************************************)
Crash ==
  /\ Restarts /\ attached
  /\ attached' = FALSE
  /\ mem' = NewController
  /\ pc' = "idle" /\ work' = NoWork /\ queue' = << >>
  /\ UNCHANGED <<diskVars, historyVars>>

\* attach_latest_session and restore_controller_snapshot
Attach ==
  /\ ~attached
  /\ session # "ahead"
  /\ attached' = TRUE
  /\ mem' = IF session = "none" THEN NewController ELSE saved
  /\ UNCHANGED <<pc, work, queue, diskVars, historyVars>>

-----------------------------------------------------------------------------
Init ==
  /\ mem = NewController /\ attached = TRUE
  /\ pc = "idle" /\ work = NoWork /\ queue = << >>
  /\ saved = None /\ session = "none"
  /\ chain = << >> /\ file = [d \in Draft |-> None] /\ drafts = 0
  /\ reviewed = {} /\ open = {} /\ rejected = {}

Step ==
  \/ ArchitectAnswers
  \/ \E t \in Text : WriterAnswers(t)
  \/ \E B \in SUBSET Critic : \E said \in [B -> SUBSET Message] : CriticsAnswer(B, said)
  \/ ReviserSilent
  \/ \E t \in Text : ReviserAnswers(t)
  \/ \E o \in RecordOutcome : EndWrite(o)

Human ==
  \/ \E c \in Chapter, f \in FindingId, o \in RecordOutcome : Resolve(c, f, o)
  \/ \E c \in Chapter : Reject(c)
  \/ \E c \in Chapter, o \in RecordOutcome : Approve(c, o)
  \/ \E c \in Chapter : ApproveUnnoticed(c)
  \/ \E c \in Chapter, t \in Text : Edit(c, t)
  \/ \E c \in Chapter : EditFails(c)
  \/ \E c \in Chapter, o \in RecordOutcome : Correct(c, o)
  \/ \E o \in RecordOutcome : Compact(o)

Write ==
  \/ \E c \in Chapter : BeginWrite(c)
  \/ \E c \in Chapter : WriteRefused(c)
  \/ WriteFails
  \/ \E n \in RunLengths : \E ids \in [1..n -> Chapter] : StartContinuous(ids)

Next == Write \/ Step \/ Human \/ Crash \/ Attach

Spec == Init /\ [][Next]_vars

\* A call into write_chapter takes its next step: models answer or fail.
Fairness == WF_vars(Step \/ WriteFails)

FairSpec == Spec /\ Fairness

-----------------------------------------------------------------------------
(***************************************************************************)
(* Properties.                                                             *)
(***************************************************************************)
\* A controller whose parts agree: what has a run is registered, with the
\* order its changeset has.
Consistent(m) ==
  \A c \in Chapter :
    /\ m.order[c] = 0 <=> m.state[c] = "Unknown"
    /\ m.run[c] # None => m.order[c] # 0 /\ m.run[c].order = m.order[c]

\* Every variable has its type, and the chapters and the changesets of the
\* controller, in memory and in the checkpoint, agree (register_chapter,
\* chapter_order).
TypeOK ==
  /\ mem \in Controller /\ Consistent(mem)
  /\ saved \in Controller \cup {None}
  /\ saved # None => Consistent(saved)
  /\ session \in {"none", "named", "ahead"}
  /\ attached \in BOOLEAN
  /\ pc \in {"idle", "plan", "write", "review"}
  /\ queue \in Seq(Chapter)
  /\ chain \in Seq([draft : Draft, text : Text])
  /\ file \in [Draft -> Text \cup {None}]
  /\ drafts \in 0..MaxDrafts
  /\ reviewed \subseteq [draft : Draft, text : Text]
  /\ open \subseteq Blocker
  /\ rejected \subseteq Draft

\* What is in the canon went through its own review and had none of the
\* blockers reported on it left when the human approved it, however often it
\* was edited, resolved, rewritten or restored from a checkpoint before
\* (is_approvable, unresolved_blocker_ids and validation_hash together).
ApprovedWasReviewed ==
  \A i \in DOMAIN chain :
    /\ chain[i] \in reviewed
    /\ \A b \in open : ~(b[1] = chain[i].draft /\ b[2][2] = chain[i].text)

\* The controller, and the checkpoint it may be restored from, never take a
\* changeset for approved that the canon does not hold at its place
\* (approve_chapter_trusted changes the canon first).
ApprovedIsInCanon ==
  \A m \in {mem, saved} \ {None}, c \in Chapter :
    m.state[c] = "Approved" =>
      /\ m.run[c] # None
      /\ m.run[c].order \in DOMAIN chain
      /\ chain[m.run[c].order].draft = m.run[c].draft

\* The text of a chapter that an earlier change made stale is not given to
\* the writers of later chapters, in this process or the next one
\* (note_upstream_edit, provisional_canon).
StaleIsNotProvisional ==
  \A m \in {mem, saved} \ {None}, c \in Chapter :
    m.state[c] \in {"Stale", "NeedsRevalidation"} => m.provisional[c] = None

\* Whatever the controller does, the canon and the reviews develop as
\* ReviewedApproval promises.
Promised == INSTANCE ReviewedApproval WITH canon <- chain
ImplementsReviewedApproval == Promised!ASpec

\* "the trusted approval boundary revalidates this edge": a chapter written
\* against a provisional one can be approved once that one is, unchanged.
\* It cannot: its base root is that of the canon without its predecessor.
ProvisionalChapterApprovable ==
  \A c \in Chapter :
    /\ Ready /\ IsApprovable(mem, c)
    /\ mem.run[c].validated /\ file[mem.run[c].draft] = mem.run[c].text
    /\ \A d \in Registered(mem) : mem.order[d] < mem.order[c] =>
         /\ mem.state[d] = "Approved"
         /\ mem.run[c].seen[d] = mem.run[d].text
    /\ mem.order[c] = Len(chain) + 1
    => Valid(mem.run[c])

\* write_chapter comes to an end, whatever the critics and the reviser say.
WriteEnds == pc # "idle" ~> pc = "idle"
=============================================================================
