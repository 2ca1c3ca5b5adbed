---------------------------- MODULE BudgetLedger ----------------------------
(***************************************************************************)
(* The budget ledger of Phemius: src/cost.rs.                              *)
(*                                                                         *)
(* Before a model request is sent its maximum cost is held: checked        *)
(* against the caps of the chapter and of the run, kept in memory and      *)
(* appended to cost.jsonl, which is synced.  When the answer arrives the   *)
(* hold is settled to the cost really charged.  Nothing else releases a    *)
(* hold.  A process that opens the file replays it.                        *)
(*                                                                         *)
(* A call that fails before its append is rolled back in memory; one that  *)
(* fails later leaves the event on the file, part of it, or nothing, and   *)
(* freezes the ledger until it is opened again.                            *)
(***************************************************************************)
EXTENDS Integers, Sequences, SequencesExt

CONSTANTS
  Request,         \* request identifiers (fresh UUIDs)
  Chapter,         \* chapters a request is charged to
  Amount,          \* bound: the costs that are held and charged
  ChapterWarning,  \* CHAPTER_WARNING
  ChapterCap,      \* CHAPTER_CAP
  RunCap,          \* RUN_CAP
  NoReservation,   \* a request that holds nothing
  LedgerFaults     \* what may go wrong: a subset of LedgerFaultKinds

(***************************************************************************)
(* How an append to cost.jsonl can fail: before anything is written, with  *)
(* no byte, a part of the line or all of it written; and a power loss.     *)
(***************************************************************************)
LedgerFaultKinds == {"before", "nothing", "torn", "unsynced", "power"}

ASSUME AmountAssumption == Amount \subseteq Nat
ASSUME CapAssumption == {ChapterWarning, ChapterCap, RunCap} \subseteq Nat
ASSUME LedgerFaultAssumption == LedgerFaults \subseteq LedgerFaultKinds

Outcome == {"ok"} \cup (LedgerFaults \ {"power"})

Reservation == [chapter : Chapter, cost : Nat, warned : BOOLEAN]

ASSUME NoReservationAssumption == NoReservation \notin Reservation

Event == [event : {"reserved"}, request : Request, reservation : Reservation]
           \cup [event : {"settled"}, request : Request, cost : Nat]

LedgerState == [reservations : [Request -> Reservation \cup {NoReservation}],
                settled : SUBSET Request,
                warnings : SUBSET Chapter]

VARIABLES
  handle,    \* "memory": no journal (BudgetLedger::new); "file": opened
  ledger,    \* the holds known to the running process
  durabilityUnknown,  \* TRUE: the ledger is frozen after a failed append
  costFile,  \* the complete lines of cost.jsonl
  synced,    \* how many of them no power loss can take away
  torn,      \* TRUE: the file ends with part of a line
  issued,    \* request identifiers used so far
  acked      \* history: the events whose append was reported as done

ledgerVars == <<handle, ledger, durabilityUnknown, costFile, synced, torn, issued, acked>>

-----------------------------------------------------------------------------
(***************************************************************************)
(* LedgerState.                                                            *)
(***************************************************************************)
EmptyLedger == [reservations |-> [r \in Request |-> NoReservation],
                settled |-> {}, warnings |-> {}]

Holding(l) == {r \in Request : l.reservations[r] # NoReservation}
HoldingFor(l, c) == {r \in Holding(l) : l.reservations[r].chapter = c}

Costs(l) == [r \in Holding(l) |-> l.reservations[r].cost]

ChapterTotal(l, c) == SumFunctionOnSet(Costs(l), HoldingFor(l, c))
RunTotal(l) == SumFunctionOnSet(Costs(l), Holding(l))

\* What is held for requests that have not been answered.
PendingTotal(l) == SumFunctionOnSet(Costs(l), Holding(l) \ l.settled)

\* Mutant: the run cap is compared with the unanswered requests.
WithinPendingCaps(l, c, maximum) ==
  /\ ChapterTotal(l, c) + maximum <= ChapterCap
  /\ PendingTotal(l) + maximum <= RunCap

WithinCaps(l, c, maximum) ==
  /\ ChapterTotal(l, c) + maximum <= ChapterCap
  /\ RunTotal(l) + maximum <= RunCap

\* Mutant: the threshold is compared with what was held before.
LateWarning(l, c, maximum) ==
  [chapter |-> c, cost |-> maximum,
   warned |-> ChapterTotal(l, c) > ChapterWarning /\ c \notin l.warnings]

\* The reservation that crosses the threshold carries the chapter's warning.
NewReservation(l, c, maximum) ==
  [chapter |-> c, cost |-> maximum,
   warned |-> ChapterTotal(l, c) + maximum > ChapterWarning /\ c \notin l.warnings]

Holds(l, r, reservation) ==
  [l EXCEPT !.reservations[r] = reservation,
            !.warnings = IF reservation.warned THEN @ \cup {reservation.chapter} ELSE @]

Settled(l, r, actual) ==
  [l EXCEPT !.reservations[r].cost = actual, !.settled = @ \cup {r}]

\* Mutant: the warning stays recorded.
ForgetReservation(l, r, reservation) ==
  [l EXCEPT !.reservations[r] = NoReservation]

\* Undo a reservation that was not written.
RolledBack(l, r, reservation) ==
  [l EXCEPT !.reservations[r] = NoReservation,
            !.warnings = IF reservation.warned THEN @ \ {reservation.chapter} ELSE @]

MaySettle(l, r, actual) ==
  /\ r \in Holding(l) \ l.settled
  /\ actual <= l.reservations[r].cost

(***************************************************************************)
(* Replaying the file.                                                     *)
(***************************************************************************)
Applies(l, e) ==
  IF e.event = "reserved" THEN e.request \notin Holding(l)
                          ELSE MaySettle(l, e.request, e.cost)

Applied(l, e) ==
  IF e.event = "reserved" THEN Holds(l, e.request, e.reservation)
                          ELSE Settled(l, e.request, e.cost)

Replayed(s, e) ==
  IF s.ok /\ Applies(s.ledger, e)
  THEN [ok |-> TRUE, ledger |-> Applied(s.ledger, e)]
  ELSE [s EXCEPT !.ok = FALSE]

Replay(log) ==
  LET after[n \in 0..Len(log)] ==
        IF n = 0 THEN [ok |-> TRUE, ledger |-> EmptyLedger]
                 ELSE Replayed(after[n - 1], log[n])
  IN after[Len(log)]

-----------------------------------------------------------------------------
(***************************************************************************)
(* persist: append the event, then sync.  `after` is the ledger with the   *)
(* event, `undone` the one a failure before the write leaves.              *)
(***************************************************************************)
\* Mutant: a failed append leaves the ledger in use.
KeepInUse == durabilityUnknown' = FALSE

Freeze == durabilityUnknown' = TRUE

Write(e) == costFile' = Append(costFile, e)

\* Mutant: success is reported without the sync.
SkipSync == synced' = synced

Sync == synced' = Len(costFile')

Persist(e, outcome, after, undone) ==
  \/ /\ handle = "memory" /\ outcome = "ok"
     /\ ledger' = after
     /\ UNCHANGED <<durabilityUnknown, costFile, synced, torn, acked>>
  \/ /\ handle = "file" /\ outcome = "ok"
     /\ ledger' = after
     /\ Write(e)
     /\ Sync
     /\ acked' = acked \cup {e}
     /\ UNCHANGED <<durabilityUnknown, torn>>
  \/ /\ handle = "file" /\ outcome = "before"
     /\ ledger' = undone
     /\ UNCHANGED <<durabilityUnknown, costFile, synced, torn, acked>>
  \/ /\ handle = "file" /\ outcome = "unsynced"
     /\ ledger' = after
     /\ Freeze
     /\ Write(e)
     /\ UNCHANGED <<synced, torn, acked>>
  \/ /\ handle = "file" /\ outcome \in {"nothing", "torn"}
     /\ ledger' = after
     /\ Freeze
     /\ torn' = (outcome = "torn")
     /\ UNCHANGED <<costFile, synced, acked>>

(***************************************************************************)
(* The operations.                                                         *)
(***************************************************************************)
Reserve(r, c, maximum, outcome) ==
  /\ ~durabilityUnknown
  /\ r \notin issued
  /\ WithinCaps(ledger, c, maximum)
  /\ LET new == NewReservation(ledger, c, maximum)
         after == Holds(ledger, r, new)
     IN Persist([event |-> "reserved", request |-> r, reservation |-> new],
                outcome, after, RolledBack(after, r, new))
  /\ issued' = IF outcome = "before" THEN issued ELSE issued \cup {r}
  /\ UNCHANGED handle

Settle(r, actual, outcome) ==
  /\ ~durabilityUnknown
  /\ MaySettle(ledger, r, actual)
  /\ Persist([event |-> "settled", request |-> r, cost |-> actual],
             outcome, Settled(ledger, r, actual), ledger)
  /\ UNCHANGED <<handle, issued>>

\* BudgetLedger::open: the file is not locked and every line of it applies.  An
\* open that another process's lock, or an error of reading, refuses changes
\* nothing of the ledger: see Attach and OtherRefused of ModelSession.
CanOpen == handle = "memory" /\ ~torn /\ Replay(costFile).ok

Open ==
  /\ CanOpen
  /\ handle' = "file"
  /\ ledger' = Replay(costFile).ledger
  /\ durabilityUnknown' = FALSE
  /\ UNCHANGED <<costFile, synced, torn, issued, acked>>

\* The process ends; the next one starts with BudgetLedger::new.
Exit ==
  /\ handle' = "memory"
  /\ ledger' = EmptyLedger
  /\ durabilityUnknown' = FALSE
  /\ UNCHANGED <<costFile, synced, torn, issued, acked>>

\* Power is lost: any number of the lines not yet synced are gone, and the
\* first one lost may leave a part if lines can be torn.
PowerLoss ==
  /\ "power" \in LedgerFaults
  /\ handle' = "memory"
  /\ ledger' = EmptyLedger
  /\ durabilityUnknown' = FALSE
  /\ \E n \in synced..Len(costFile) :
       /\ costFile' = SubSeq(costFile, 1, n)
       /\ torn' \in IF "torn" \in LedgerFaults /\ (n < Len(costFile) \/ torn)
                    THEN BOOLEAN ELSE {FALSE}
  /\ UNCHANGED <<synced, issued, acked>>

LedgerInit ==
  /\ handle = "memory"
  /\ ledger = EmptyLedger
  /\ durabilityUnknown = FALSE
  /\ costFile = << >>
  /\ synced = 0
  /\ torn = FALSE
  /\ issued = {}
  /\ acked = {}

\* What becomes of a ledger that was never opened matters to its user alone.
Use(r) ==
  /\ handle = "file"
  /\ \E o \in Outcome, a \in Amount :
       \/ \E c \in Chapter : Reserve(r, c, a, o)
       \/ Settle(r, a, o)

LedgerNext ==
  \/ \E r \in Request : Use(r)
  \/ Open
  \/ Exit
  \/ PowerLoss

LedgerSpec == LedgerInit /\ [][LedgerNext]_ledgerVars

-----------------------------------------------------------------------------
(***************************************************************************)
(* Properties.  The file that is read next is any prefix of costFile that  *)
(* keeps the synced lines.                                                 *)
(***************************************************************************)
Survivors == {SubSeq(costFile, 1, n) : n \in synced..Len(costFile)}

\* Every variable has its type.
LedgerTypeOK ==
  /\ handle \in {"memory", "file"}
  /\ ledger \in LedgerState
  /\ durabilityUnknown \in BOOLEAN
  /\ costFile \in Seq(Event)
  /\ synced \in 0..Len(costFile)
  /\ torn \in BOOLEAN
  /\ issued \subseteq Request
  /\ acked \subseteq Event

\* Whatever a crash, a failed append or a power loss leaves, the file can be
\* replayed and the holds it yields respect both caps (LedgerState::reserve is
\* the only place that checks them; LedgerState::apply does not).
CapsSurvive ==
  \A log \in Survivors :
    /\ Replay(log).ok
    /\ RunTotal(Replay(log).ledger) <= RunCap
    /\ \A c \in Chapter : ChapterTotal(Replay(log).ledger, c) <= ChapterCap

\* A chapter that passes the threshold has exactly one reservation that says
\* so, across failures, restarts and settlements (warning_required).
WarnedOnce ==
  \A log \in Survivors, c \in Chapter :
    LET holds == Replay(log).ledger
        warned == {r \in HoldingFor(holds, c) : holds.reservations[r].warned}
    IN /\ \A r, s \in warned : r = s
       /\ ChapterTotal(holds, c) > ChapterWarning => warned # {}

\* A reservation or settlement that was reported as done is on the file for
\* good (persist returns Ok only after sync_data).
ReportedEventsSurvive ==
  acked \subseteq {costFile[i] : i \in 1..synced}

\* A ledger in use is exactly what the next process will read, though memory
\* is changed before the file and put back by hand (reserve_inner, settle).
MemoryIsReplay ==
  handle = "file" /\ ~durabilityUnknown => Replay(costFile).ledger = ledger

\* No event is ever written behind a part of a line, which would join the two
\* into one unreadable line (the freeze after a failed append).
NothingAfterTornLine ==
  [][torn => Len(costFile') <= Len(costFile)]_ledgerVars
=============================================================================
