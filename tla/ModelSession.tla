---------------------------- MODULE ModelSession ----------------------------
(***************************************************************************)
(* The model requests of one project and their records: the controller of  *)
(* src/workflow.rs, the session journal and the checkpoint of              *)
(* src/session.rs, and the budget ledger.                                  *)
(*                                                                         *)
(* A command (`/write`, a coordinator request, `/compact`) appends an      *)
(* instruction to session.jsonl, then sends batches of one to three model  *)
(* requests.  Each request is held in the ledger, noted as started in the  *)
(* session, sent, and when the whole batch is answered its answers are     *)
(* noted and settled one by one.  The command ends with a checkpoint that  *)
(* names the last line of the session.  A new process attaches to the      *)
(* session only if the checkpoint still names its last line.               *)
(*                                                                         *)
(* The ledger's file lock is held for as long as it is in use, the one on  *)
(* session.jsonl for one operation only, and a process keeps the session   *)
(* it attached to when it is then refused the ledger.  The variables of    *)
(* the controller are those of one process: the one that has the ledger,   *)
(* or may get it next.  Of the others, which hold their requests in memory *)
(* and have no checkpoint path, only what they do to the files and to the  *)
(* provider is kept.                                                       *)
(*                                                                         *)
(* The directory of a session is made in one step, and one project has one *)
(* session: a second one is begun only if the first is removed.  The price *)
(* of the model is known and backend errors are strict, as in every        *)
(* controller but the test fixtures.                                       *)
(***************************************************************************)
EXTENDS BudgetLedger, FiniteSets

CONSTANTS
  Coordinator,    \* the chapter name coordinator requests are charged to
  None,           \* no request, no checkpoint, no line
  Maximum,        \* request_maximum_cost
  Charge,         \* bound: what the provider may charge for a request
  MaxBatch,       \* critics asked at the same time
  MaxLines,       \* bound: no command begins on a longer session journal
  SessionFaults   \* what may go wrong: a subset of SessionFaultKinds

(***************************************************************************)
(* How an append to session.jsonl can fail: with no byte, a part of the    *)
(* line or all of it written; and a checkpoint: before its rename, or with *)
(* the rename not yet synced.  A session journal that another process has  *)
(* locked fails an operation, too.  "refused": there are other processes,  *)
(* and the ledger's file can be locked by one or fail to be read.          *)
(***************************************************************************)
SessionFaultKinds == {"failed", "torn", "unsynced", "renamed", "refused"}

ASSUME CoordinatorAssumption == Coordinator \in Chapter
ASSUME NoneAssumption == None \notin Request \cup Chapter
ASSUME CostAssumption == Maximum \in Nat /\ Charge \subseteq Nat
ASSUME BoundAssumption == MaxBatch \in Nat /\ MaxLines \in Nat
ASSUME SessionFaultAssumption == SessionFaults \subseteq SessionFaultKinds

AppendOutcome == {"ok"} \cup (SessionFaults \ {"renamed", "refused"})
CheckpointOutcome == {"ok"} \cup (SessionFaults \ {"torn", "unsynced", "refused"})

Kind == {"instruction", "started", "completed", "ambiguous", "changed"}
Line == [kind : Kind \cup {"garbled"}, request : Request \cup {None}]
Answer == [request : Request, kind : {"usage", "unmetered", "ambiguous", "stopped"},
           cost : Nat]
CostStatus == [chapter : Nat, run : Nat]
Checkpoint == [anchor : Nat \X Line, status : CostStatus]

ASSUME NoCheckpointAssumption == None \notin Checkpoint

(***************************************************************************)
(* The session directory.                                                  *)
(***************************************************************************)
VARIABLES
  created,     \* the directory has session.jsonl and cost.jsonl
  lines,       \* the complete lines of session.jsonl
  kept,        \* how many of them no power loss can take away
  partial,     \* TRUE: session.jsonl ends with part of a line
  checkpoint,  \* checkpoint.json: the line it names and the controller state
  fallback     \* what a power loss may put in its place

(***************************************************************************)
(* The controller of the running process.                                  *)
(***************************************************************************)
VARIABLES
  session,     \* TRUE: it has a SessionJournal
  last,        \* the last line that handle knows of
  anchored,    \* TRUE: it has a checkpoint path
  pc,          \* where its command stands
  cmd,         \* the chapter of the command
  cur,         \* the request that was just reserved
  batch,       \* requests of the batch that have not been answered
  answers,     \* answers of the batch that have not been noted
  failed,      \* TRUE: a request of the batch failed
  status       \* cost_status

(***************************************************************************)
(* History: requests handed to the provider and what it charged for them;  *)
(* those whose process died before it noted the answer; and whether a      *)
(* command has finished and none has begun since.                          *)
(***************************************************************************)
VARIABLES sent, charged, orphaned, finished

(***************************************************************************)
(* The other processes; and history: requests held on no file, whether an  *)
(* append to the ledger has failed in the middle, and whether a process    *)
(* has attached with a checkpoint that was out of date.                    *)
(***************************************************************************)
VARIABLES
  seen,        \* the checkpoint one has read that has not opened the ledger
  strays,      \* TRUE: one has the session without the ledger
  unheld, frozen, late

dirVars == <<created, lines, kept, partial, checkpoint, fallback>>
fileVars == <<lines, kept, partial>>
commandVars == <<pc, cmd, cur, batch, answers, failed>>
processVars == <<session, last, anchored, commandVars, status>>
otherVars == <<seen, strays, unheld, frozen, late>>
historyVars == <<sent, charged, orphaned, finished, otherVars>>
vars == <<ledgerVars, dirVars, processVars, historyVars>>

-----------------------------------------------------------------------------
(***************************************************************************)
(* The session journal.                                                    *)
(***************************************************************************)

\* last_event: the offset and the hash of the last line.
Anchor(s) == IF s = << >> THEN None ELSE <<Len(s), Last(s)>>

Readable == \A i \in DOMAIN lines : lines[i].kind # "garbled"

\* A line written behind a part of one is joined to it.
Joined(line) == IF partial THEN [line EXCEPT !.kind = "garbled"] ELSE line

\* append writes at the end of the file, wherever that is.
AppendTo(line, outcome) ==
  \/ /\ outcome = "ok"
     /\ lines' = Append(lines, Joined(line))
     /\ kept' = Len(lines')
     /\ partial' = FALSE
  \/ /\ outcome = "unsynced"
     /\ lines' = Append(lines, Joined(line))
     /\ partial' = FALSE
     /\ UNCHANGED kept
  \/ /\ outcome = "torn"
     /\ partial' = TRUE
     /\ UNCHANGED <<lines, kept>>
  \/ /\ outcome = "failed"
     /\ UNCHANGED fileVars

AppendLine(kind, r, outcome) ==
  LET line == [kind |-> kind, request |-> r]
  IN /\ AppendTo(line, outcome)
     /\ last' = IF outcome = "ok" THEN <<Len(lines'), line>> ELSE last

\* read_journal_locked cuts off a part of a line at the end.
Repair ==
  IF partial /\ Readable
  THEN partial' = FALSE /\ kept' = Len(lines) /\ UNCHANGED lines
  ELSE UNCHANGED fileVars

\* Mutant: a checkpoint is accepted wherever the session has got to.
AnyCheckpoint(s) == Readable

CheckpointMatches(s) == Readable /\ checkpoint.anchor = Anchor(s)

-----------------------------------------------------------------------------
(***************************************************************************)
(* The command ends with an error, or without one.                         *)
(***************************************************************************)
Idle ==
  /\ pc' = "idle"
  /\ cmd' = None
  /\ cur' = None
  /\ batch' = {}
  /\ answers' = << >>
  /\ failed' = FALSE

(***************************************************************************)
(* Attaching to the session.                                               *)
(***************************************************************************)

\* ensure_durable_session, when the project has no session yet.
CreateSession ==
  /\ pc = "idle" /\ ~session /\ ~created
  /\ created' = TRUE
  /\ session' = TRUE
  /\ last' = None
  /\ anchored' = TRUE
  /\ Open
  /\ UNCHANGED <<fileVars, checkpoint, fallback, commandVars, status, historyVars>>

\* restore_controller_snapshot
RestoredStatus == checkpoint.status

\* attach_latest_session reads the session and the checkpoint ...
Attach ==
  /\ pc = "idle" /\ ~session /\ created /\ checkpoint # None
  /\ Repair
  /\ CheckpointMatches(lines)
  /\ session' = TRUE
  /\ last' = Anchor(lines)
  \* ... then opens the ledger, and restores the controller.
  /\ \/ /\ Open
        /\ anchored' = TRUE
        /\ status' = RestoredStatus
     \/ /\ ~CanOpen \/ "refused" \in SessionFaults
        /\ UNCHANGED <<ledgerVars, anchored, status>>
  /\ UNCHANGED <<created, checkpoint, fallback, commandVars, historyVars>>

AttachRefused ==
  /\ pc = "idle" /\ ~session /\ created /\ checkpoint # None
  /\ ~CheckpointMatches(lines)
  /\ Repair
  /\ UNCHANGED <<ledgerVars, created, checkpoint, fallback, processVars, historyVars>>

\* resume_checkpoint: only reads.
Resume ==
  /\ pc = "idle" /\ session /\ anchored /\ checkpoint # None
  /\ Repair
  /\ UNCHANGED <<ledgerVars, created, checkpoint, fallback, processVars, historyVars>>

(***************************************************************************)
(* A command.                                                              *)
(***************************************************************************)
Begin(c, o) ==
  /\ pc = "idle" /\ session
  /\ Len(lines) < MaxLines
  /\ AppendLine("instruction", None, o)
  /\ IF o = "ok"
     THEN /\ pc' = "ready"
          /\ cmd' = c
          /\ status' = IF c = Coordinator THEN status ELSE [status EXCEPT !.chapter = 0]
          /\ UNCHANGED <<cur, batch, answers, failed>>
     ELSE UNCHANGED <<commandVars, status>>
  /\ finished' = FALSE
  /\ UNCHANGED <<ledgerVars, created, checkpoint, fallback, session, anchored,
                 sent, charged, orphaned, otherVars>>

\* Mutant: only the run is charged.
SpendRun == [status EXCEPT !.run = @ + Maximum]

Spend == [chapter |-> status.chapter + Maximum, run |-> status.run + Maximum]

\* reserve_request
StatusAllows ==
  /\ status.chapter + Maximum <= ChapterCap
  /\ status.run + Maximum <= RunCap

ReserveRequest(r, o) ==
  /\ pc = "ready" /\ Cardinality(batch) < MaxBatch
  /\ StatusAllows
  /\ Reserve(r, cmd, Maximum, o)
  /\ IF o = "ok"
     THEN /\ pc' = "reserved"
          /\ cur' = r
          /\ status' = Spend
          /\ UNCHANGED <<cmd, batch, answers, failed>>
     ELSE Idle /\ UNCHANGED status
  /\ unheld' = IF handle = "memory" THEN unheld \cup {r} ELSE unheld
  /\ frozen' = (frozen \/ durabilityUnknown')
  /\ UNCHANGED <<dirVars, session, last, anchored, sent, charged, orphaned, finished,
                 seen, strays, late>>

\* A cap or a frozen ledger stops the command, and with it a batch of which
\* some requests are already held.
ReserveRefused ==
  /\ pc = "ready" /\ Cardinality(batch) < MaxBatch
  /\ \/ ~StatusAllows
     \/ durabilityUnknown
     \/ ~WithinCaps(ledger, cmd, Maximum)
  /\ Idle
  /\ UNCHANGED <<ledgerVars, dirVars, session, last, anchored, status, historyVars>>

StartRequest(o) ==
  /\ pc = "reserved"
  /\ AppendLine("started", cur, o)
  /\ IF o = "ok"
     THEN /\ pc' = "ready"
          /\ batch' = batch \cup {cur}
          /\ cur' = None
          /\ UNCHANGED <<cmd, answers, failed>>
     ELSE Idle
  /\ UNCHANGED <<ledgerVars, created, checkpoint, fallback, session, anchored,
                 status, historyVars>>

Send ==
  /\ pc = "ready" /\ batch # {}
  /\ pc' = "waiting"
  /\ sent' = sent \cup batch
  /\ UNCHANGED <<ledgerVars, dirVars, session, last, anchored, cmd, cur, batch,
                 answers, failed, status, charged, orphaned, finished, otherVars>>

\* The provider answers, in any order; it may charge for a request whose
\* answer is lost or carries no usage.
Answered(r) ==
  /\ pc = "waiting" /\ r \in batch
  /\ \E kind \in {"usage", "unmetered", "ambiguous", "stopped"},
        cost \in Charge \cup {0} :
       /\ kind \in {"usage", "unmetered"} => cost \in Charge
       /\ kind = "stopped" => cost = 0
       /\ answers' = Append(answers, [request |-> r, kind |-> kind, cost |-> cost])
       /\ charged' = [charged EXCEPT ![r] = cost]
  /\ batch' = batch \ {r}
  /\ UNCHANGED <<ledgerVars, dirVars, session, last, anchored, pc, cmd, cur, failed,
                 status, sent, orphaned, finished, otherVars>>

(***************************************************************************)
(* record_model_completion and its callers, once the batch is answered.    *)
(***************************************************************************)
Noting == pc = "waiting" /\ batch = {} /\ answers # << >>
Noted(fails) ==
  /\ answers' = Tail(answers)
  /\ failed' = (failed \/ fails)
  /\ UNCHANGED <<cmd, cur, batch>>

NoteUsage(o) ==
  /\ Noting /\ Head(answers).kind = "usage"
  /\ AppendLine("completed", Head(answers).request, o)
  /\ IF o = "ok"
     THEN pc' = "settling" /\ UNCHANGED <<cmd, cur, batch, answers, failed>>
     ELSE Idle
  /\ UNCHANGED <<ledgerVars, created, checkpoint, fallback, session, anchored,
                 status, historyVars>>

SettleRequest(o) ==
  /\ pc = "settling"
  /\ LET answer == Head(answers)
         refund == ledger.reservations[answer.request].cost - answer.cost
     IN /\ Settle(answer.request, answer.cost, o)
        /\ IF o = "ok"
           THEN /\ pc' = "waiting"
                /\ Noted(FALSE)
                /\ status' = [chapter |-> status.chapter - refund,
                              run |-> status.run - refund]
           ELSE Idle /\ UNCHANGED status
  /\ frozen' = (frozen \/ durabilityUnknown')
  /\ UNCHANGED <<dirVars, session, last, anchored, sent, charged, orphaned, finished,
                 seen, strays, unheld, late>>

\* The charge is larger than the hold.
SettleRefused ==
  /\ pc = "settling"
  /\ ~MaySettle(ledger, Head(answers).request, Head(answers).cost)
  /\ Idle
  /\ UNCHANGED <<ledgerVars, dirVars, session, last, anchored, status, historyVars>>

\* An answer without usage stops the command, whatever else was answered.
NoteUnmetered(o) ==
  /\ Noting /\ Head(answers).kind = "unmetered"
  /\ AppendLine("ambiguous", Head(answers).request, o)
  /\ Idle
  /\ UNCHANGED <<ledgerVars, created, checkpoint, fallback, session, anchored,
                 status, historyVars>>

\* Mutant: a request without an answer is taken to be free.
ReleaseAmbiguous(o) ==
  /\ Noting /\ Head(answers).kind = "ambiguous"
  /\ AppendLine("ambiguous", Head(answers).request, "ok")
  /\ Settle(Head(answers).request, 0, o)
  /\ Noted(TRUE)
  /\ UNCHANGED <<created, checkpoint, fallback, session, anchored, pc,
                 status, historyVars>>

NoteAmbiguous(o) ==
  /\ Noting /\ Head(answers).kind = "ambiguous"
  /\ AppendLine("ambiguous", Head(answers).request, o)
  /\ IF o = "ok" THEN Noted(TRUE) /\ UNCHANGED pc ELSE Idle
  /\ UNCHANGED <<ledgerVars, created, checkpoint, fallback, session, anchored,
                 status, historyVars>>

NoteStopped ==
  /\ Noting /\ Head(answers).kind = "stopped"
  /\ Noted(TRUE)
  /\ UNCHANGED <<ledgerVars, dirVars, session, last, anchored, pc, status, historyVars>>

EndBatch ==
  /\ pc = "waiting" /\ batch = {} /\ answers = << >>
  /\ IF failed THEN Idle
               ELSE pc' = "ready" /\ UNCHANGED <<cmd, cur, batch, answers, failed>>
  /\ UNCHANGED <<ledgerVars, dirVars, session, last, anchored, status, historyVars>>

(***************************************************************************)
(* The end of a command: with an error of another kind, or a checkpoint.   *)
(***************************************************************************)
Between == pc = "ready" /\ batch = {}

Abandon ==
  /\ Between
  /\ Idle
  /\ UNCHANGED <<ledgerVars, dirVars, session, last, anchored, status, historyVars>>

\* write_chapter notes the new changeset before its checkpoint.
Conclude(o) ==
  /\ Between /\ cmd # Coordinator
  /\ AppendLine("changed", None, o)
  /\ IF o = "ok" THEN pc' = "concluding" /\ UNCHANGED <<cmd, cur, batch, answers, failed>>
                 ELSE Idle
  /\ UNCHANGED <<ledgerVars, created, checkpoint, fallback, session, anchored,
                 status, historyVars>>

\* Mutant: the directory is not synced after the rename.
SkipDirectorySync(new) == fallback' = fallback

SyncDirectory(new) == fallback' = new

WriteCheckpoint(o) ==
  LET new == [anchor |-> last, status |-> status]
      current == Readable /\ last = Anchor(lines)
  IN /\ \/ pc = "concluding"
        \/ Between /\ cmd = Coordinator
     /\ Idle
     /\ IF anchored
        THEN /\ \/ Repair
                \/ o = "failed" /\ UNCHANGED fileVars
             /\ checkpoint' = IF current /\ o # "failed" THEN new ELSE checkpoint
             /\ IF current /\ o = "ok" THEN SyncDirectory(new) ELSE UNCHANGED fallback
             /\ finished' = (current /\ o = "ok")
        ELSE UNCHANGED <<fileVars, checkpoint, fallback, finished>>
     /\ UNCHANGED <<ledgerVars, created, session, last, anchored, status,
                    sent, charged, orphaned, otherVars>>

(***************************************************************************)
(* The process ends, or the power fails.                                   *)
(***************************************************************************)
InFlight == sent \cap (batch \cup {answers[i].request : i \in DOMAIN answers})

NewProcess ==
  /\ Idle
  /\ session' = FALSE
  /\ last' = None
  /\ anchored' = FALSE
  /\ status' = [chapter |-> 0, run |-> 0]
  /\ UNCHANGED <<created, sent, charged, finished, unheld, frozen, late>>

Crash ==
  /\ Exit
  /\ NewProcess
  /\ orphaned' = orphaned \cup InFlight
  /\ UNCHANGED <<fileVars, checkpoint, fallback, seen, strays>>

PowerFails ==
  /\ PowerLoss
  /\ NewProcess
  /\ orphaned' = orphaned \cup InFlight
  /\ seen' = None
  /\ strays' = FALSE
  /\ \E n \in kept..Len(lines) :
       /\ lines' = SubSeq(lines, 1, n)
       /\ partial' \in IF n < Len(lines) \/ partial THEN BOOLEAN ELSE {FALSE}
  /\ kept' = kept
  /\ checkpoint' \in {checkpoint, fallback}
  /\ fallback' = checkpoint'

-----------------------------------------------------------------------------
(***************************************************************************)
(* Other processes.  What they note is told apart by nothing: one line     *)
(* stands for all but those that start a request; and one of them keeps a  *)
(* checkpoint it has read.                                                 *)
(***************************************************************************)

\* attach_latest_session, to the point where the ledger is opened.
OtherReads ==
  /\ "refused" \in SessionFaults
  /\ created /\ checkpoint # None
  /\ Repair
  /\ CheckpointMatches(lines)
  /\ seen' = checkpoint
  /\ UNCHANGED <<ledgerVars, created, checkpoint, fallback, processVars,
                 sent, charged, orphaned, finished, strays, unheld, frozen, late>>

OtherRefused ==
  /\ seen # None
  /\ seen' = None
  /\ strays' = TRUE
  /\ UNCHANGED <<ledgerVars, dirVars, processVars,
                 sent, charged, orphaned, finished, unheld, frozen, late>>

\* The ledger has become free since the checkpoint was read.
OtherOpens ==
  /\ pc = "idle" /\ ~session /\ created /\ seen # None
  /\ Open
  /\ session' = TRUE
  /\ last' = seen.anchor
  /\ anchored' = TRUE
  /\ status' = seen.status
  /\ seen' = None
  /\ late' = TRUE
  /\ UNCHANGED <<dirVars, commandVars, sent, charged, orphaned, finished,
                 strays, unheld, frozen>>

\* A process without the ledger goes on, and another one may get it.
Overtaken ==
  /\ "refused" \in SessionFaults
  /\ session /\ handle = "memory"
  /\ Exit
  /\ NewProcess
  /\ strays' = TRUE
  /\ UNCHANGED <<fileVars, checkpoint, fallback, orphaned, seen>>

OtherAppends(o) ==
  /\ strays /\ Len(lines) < MaxLines
  /\ AppendTo([kind |-> "instruction", request |-> None], o)
  /\ finished' = FALSE
  /\ UNCHANGED <<ledgerVars, created, checkpoint, fallback, processVars,
                 sent, charged, orphaned, otherVars>>

\* Its hold is in its memory, so the ledger's file stays as it is.
OtherSends(r, o) ==
  /\ strays /\ Len(lines) < MaxLines
  /\ r \notin issued
  /\ AppendTo([kind |-> "started", request |-> r], o)
  /\ issued' = issued \cup {r}
  /\ unheld' = unheld \cup {r}
  /\ sent' = IF o = "ok" THEN sent \cup {r} ELSE sent
  /\ finished' = FALSE
  /\ UNCHANGED <<handle, ledger, durabilityUnknown, costFile, synced, torn, acked,
                 created, checkpoint, fallback, processVars,
                 charged, orphaned, seen, strays, frozen, late>>

-----------------------------------------------------------------------------
Init ==
  /\ LedgerInit
  /\ created = FALSE
  /\ lines = << >> /\ kept = 0 /\ partial = FALSE
  /\ checkpoint = None /\ fallback = None
  /\ session = FALSE /\ last = None /\ anchored = FALSE
  /\ pc = "idle" /\ cmd = None /\ cur = None
  /\ batch = {} /\ answers = << >> /\ failed = FALSE
  /\ status = [chapter |-> 0, run |-> 0]
  /\ sent = {} /\ charged = [r \in Request |-> 0]
  /\ orphaned = {} /\ finished = FALSE
  /\ seen = None /\ strays = FALSE
  /\ unheld = {} /\ frozen = FALSE /\ late = FALSE

Command ==
  \/ \E c \in Chapter, o \in AppendOutcome : Begin(c, o)
  \/ \E o \in AppendOutcome : Conclude(o)
  \/ \E o \in CheckpointOutcome : WriteCheckpoint(o)
  \/ Abandon

Requests ==
  \/ \E r \in Request, o \in Outcome : ReserveRequest(r, o)
  \/ ReserveRefused
  \/ \E o \in AppendOutcome : StartRequest(o)
  \/ Send
  \/ \E r \in Request : Answered(r)
  \/ EndBatch

Records ==
  \/ \E o \in AppendOutcome : NoteUsage(o)
  \/ \E o \in Outcome : SettleRequest(o)
  \/ SettleRefused
  \/ \E o \in AppendOutcome : NoteUnmetered(o)
  \/ \E o \in AppendOutcome : NoteAmbiguous(o)
  \/ NoteStopped

Others ==
  \/ OtherReads \/ OtherRefused \/ OtherOpens \/ Overtaken
  \/ \E o \in AppendOutcome : OtherAppends(o)
  \/ \E r \in Request, o \in AppendOutcome : OtherSends(r, o)

Next ==
  \/ CreateSession \/ Attach \/ AttachRefused \/ Resume
  \/ Command \/ Requests \/ Records \/ Others
  \/ Crash \/ PowerFails

Spec == Init /\ [][Next]_vars

-----------------------------------------------------------------------------
\* Every variable has its type; the costs shown never go below zero.
TypeOK ==
  /\ LedgerTypeOK
  /\ {created, partial, session, anchored, failed, finished, strays, frozen, late}
       \subseteq BOOLEAN
  /\ lines \in Seq(Line)
  /\ kept \in 0..Len(lines)
  /\ {checkpoint, fallback, seen} \subseteq Checkpoint \cup {None}
  /\ pc \in {"idle", "ready", "reserved", "waiting", "settling", "concluding"}
  /\ cmd \in Chapter \cup {None}
  /\ cur \in Request \cup {None}
  /\ batch \subseteq Request
  /\ answers \in Seq(Answer)
  /\ status \in CostStatus
  /\ {sent, orphaned, unheld} \subseteq SUBSET Request
  /\ charged \in [Request -> Nat]

\* What the provider has charged, up to the maximum: no answer that costs more
\* is settled.
CappedCharge ==
  [r \in Request |-> IF charged[r] <= Maximum THEN charged[r] ELSE Maximum]

\* Whatever the provider charges for a request of a process that has the
\* ledger is covered up to its maximum, then and after any failure, by what
\* the ledger on disk holds for it, and what other processes do changes
\* nothing in that: no such request is sent before its hold is durable
\* (reserve_request), an unknown charge keeps the whole hold and a known one
\* is settled to what it was (record_model_completion).
EveryChargeIsHeld ==
  \A r \in sent \ unheld, log \in Survivors :
    LET holds == Replay(log).ledger
    IN r \in Holding(holds) /\ CappedCharge[r] <= holds.reservations[r].cost

\* The run cost shown to the human, and gated by reserve_request, is never
\* less than what the provider has charged for such requests, across restarts
\* (cost_status is restored from the checkpoint, not from the ledger), unless
\* a process has attached with a checkpoint that was out of date.
ShownCostCoversCharges ==
  anchored /\ ~late => SumFunctionOnSet(CappedCharge, sent \ unheld) <= status.run

ChargesAreCovered == EveryChargeIsHeld /\ ShownCostCoversCharges

\* Once the process that may get the ledger has died with a request in flight,
\* no process that has the ledger sends another one, whatever the others note
\* in the session: the started line is durable before the request leaves, and
\* no checkpoint names it (complete_model_turn, read_checkpoint).  A process
\* that had read the checkpoint before is not stopped.
LostRequestStopsSending ==
  [][orphaned # {} /\ ~late => sent' \ unheld' = sent \ unheld]_vars

\* When a command has reported success and no other process has noted anything
\* since, the next process can attach, whatever happens to the running ones or
\* to the power: every survivor of the session ends with the line that any
\* surviving checkpoint names (write_checkpoint_inner), and, if no append to
\* the ledger has ever failed in the middle, every survivor of the ledger is
\* whole and can be replayed (persist, BudgetLedger::open).
FinishedIsResumable ==
  finished =>
    /\ \A c \in {checkpoint, fallback}, n \in kept..Len(lines) :
         LET survivor == SubSeq(lines, 1, n)
         IN /\ \A i \in DOMAIN survivor : survivor[i].kind # "garbled"
            /\ c # None
            /\ c.anchor = Anchor(survivor)
    /\ ~frozen => ~torn /\ synced = Len(costFile) /\ Replay(costFile).ok

\* workflow.rs says that project controllers "retain crash-safe session and
\* reservation evidence under .phemius/records", and cost.rs that `reserve`
\* "holds the maximum request cost before any network operation starts": a
\* request that was sent is on the ledger file.
HeldBeforeSent ==
  \A r \in sent : \E i \in DOMAIN costFile : costFile[i].request = r
=============================================================================
