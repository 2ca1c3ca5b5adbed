---------------------------- MODULE CommandLoop ----------------------------
(***************************************************************************)
(* The human's side of the program: the lines of the REPL (src/cli.rs,     *)
(* src/repl.rs) and the gates of the run controller (src/workflow.rs) that *)
(* stand between a line and a paid model request.                          *)
(*                                                                         *)
(* One process reads lines until the human quits or a line does not parse. *)
(* A line of consult mode changes nothing; in work mode `/write` and the   *)
(* coordinator lines pay for model requests, and a line whose requests may *)
(* cost more than the warning needs a `--confirm`.  The controller's       *)
(* settings (price, models, the confirmation itself) are part of every     *)
(* checkpoint, and the first command of a new process that opens the       *)
(* session takes them from there.                                          *)
(*                                                                         *)
(* Files do not fail here (ModelSession), the run's cap of $120 is         *)
(* BudgetLedger's, and what a chapter is made of is ChapterLifecycle's.    *)
(***************************************************************************)
EXTENDS Integers, FiniteSets

CONSTANTS
  Model,          \* model identifiers
  DefaultModel,
  Price,          \* request maxima a process may be started with
  None,
  WarnAt,         \* the $5 warning
  StopAt,         \* the $10 stop of a chapter
  FewestCalls,    \* role calls of a chapter without a revision
  WriteCalls,     \* role calls of a chapter with every revision
  MaxTurns,       \* bound: model turns of a coordinator request
  ToolTurns,      \* bound: turns more that the roles of a chapter take for tools
  MaxPaid         \* bound: lines that pay, or that give a confirmation

ASSUME ModelAssumption == DefaultModel \in Model /\ None \notin Model
ASSUME PriceAssumption == Price \subseteq Nat \cup {None} /\ None \notin Nat
ASSUME LimitAssumption == WarnAt \in Nat /\ StopAt \in Nat
ASSUME CallsAssumption ==
  FewestCalls \in Nat \ {0} /\ WriteCalls \in Nat /\ FewestCalls <= WriteCalls
ASSUME BoundAssumption ==
  MaxTurns \in Nat \ {0} /\ ToolTurns \in Nat /\ MaxPaid \in Nat

\* Text is what the human types without a slash; blank is text of blanks.
Asks == {"plan", "review", "revise", "diff", "text", "blank"}
Line == [word : Asks, id : BOOLEAN, confirm : BOOLEAN]

(***************************************************************************)
(* What the gates read of the controller.                                  *)
(***************************************************************************)
Settings ==
  [maximum : Nat \cup {None},   \* request_maximum_cost
   model : Model,               \* model_by_role
   confirmed : BOOLEAN,         \* cost_warning_confirmed
   cost : Nat,                  \* cost_status.chapter
   candidate : BOOLEAN]         \* a chapter has a run

VARIABLES
  running,     \* the loop reads lines
  mode,        \* "work" or "consult"
  ambiguous,   \* ambiguous_request
  held,        \* the controller's settings
  attached,    \* it holds the session
  session,     \* "none"; "empty" of events; "open": no checkpoint;
               \* "named": the checkpoint names its last line; "ahead"
  saved,       \* the settings of the checkpoint
  confirms,    \* history: confirmations given
  dear,        \* history: lines let through that needed one
  crossed      \* history: a `/write` took the cost of its chapter over the
               \* warning without one, by more than its turns for tools cost

processVars == <<mode, ambiguous, held, attached>>
diskVars == <<session, saved>>
historyVars == <<confirms, dear, crossed>>
vars == <<running, processVars, diskVars, historyVars>>

-----------------------------------------------------------------------------
Working == running /\ mode = "work"

\* A command answered without touching controller or session.
Untouched == UNCHANGED <<running, processVars, diskVars, historyVars>>

(***************************************************************************)
(* attach_latest_session and restore_controller_snapshot: a session whose  *)
(* checkpoint is missing or is behind it cannot be opened.                 *)
(***************************************************************************)
AttachFails == ~attached /\ session \in {"empty", "open", "ahead"}

Attached(h) == IF ~attached /\ session = "named" THEN saved ELSE h

\* ensure_durable_session, and an event appended
AppendEvent == session' = IF saved = None THEN "open" ELSE "ahead"

\* An event appended and a checkpoint that names it.
WriteCheckpoint(h) == session' = "named" /\ saved' = h

(***************************************************************************)
(* A line is parsed before anything else; one that does not parse ends the *)
(* loop (`handle_async(&line).await?`).  The coordinator lines parse but   *)
(* for one: `/revise` and `/diff` take at most one word.                   *)
(***************************************************************************)
Parses(l) == ~(l.word \in {"revise", "diff"} /\ l.id /\ l.confirm)

Unparsed(l) ==
  /\ running /\ ~Parses(l)
  /\ running' = FALSE
  /\ UNCHANGED <<processVars, diskVars, historyVars>>

\* An unknown command, a missing or an extra argument.
Malformed ==
  /\ running
  /\ running' = FALSE
  /\ UNCHANGED <<processVars, diskVars, historyVars>>

\* The arguments of `/write` and `/model` are checked in work mode only.
BadArgument ==
  /\ Working
  /\ running' = FALSE
  /\ UNCHANGED <<processVars, diskVars, historyVars>>

(***************************************************************************)
(* Lines that never reach a model.                                         *)
(***************************************************************************)
Mode(to) ==
  /\ running
  /\ mode' = to
  /\ UNCHANGED <<running, ambiguous, held, attached, diskVars, historyVars>>

\* /help /status /cost /clean /mode /model, and whatever consult mode refuses
Say ==
  /\ running
  /\ Untouched

\* set_model for every role: no event, no checkpoint
ChooseModel(id) ==
  /\ Working
  /\ held' = [held EXCEPT !.model = id]
  /\ UNCHANGED <<running, mode, ambiguous, attached, diskVars, historyVars>>

\* Mutant: consult mode compacts and records.
RecordAnywhere ==
  /\ running
  /\ ~AttachFails
  /\ held' = Attached(held)
  /\ attached' = TRUE
  /\ WriteCheckpoint(held')
  /\ UNCHANGED <<running, mode, ambiguous, historyVars>>

\* /compact, /skills and $skill: compact_session, record_coordinator_request
Record ==
  /\ Working
  /\ ~AttachFails
  /\ held' = Attached(held)
  /\ attached' = TRUE
  /\ WriteCheckpoint(held')
  /\ UNCHANGED <<running, mode, ambiguous, historyVars>>

\* /approve and /resolve, of a candidate that this process knows
Decide ==
  /\ Working
  /\ held.candidate
  /\ attached' = TRUE
  /\ WriteCheckpoint(held)
  /\ UNCHANGED <<running, mode, ambiguous, held, historyVars>>

(***************************************************************************)
(* /resume.  After an ambiguous request it asks the human what to do.      *)
(* Otherwise resume_checkpoint opens the session, making one if there is   *)
(* none, or reads the checkpoint of the session it holds.                  *)
(***************************************************************************)
Resume ==
  /\ Working
  /\ ~ambiguous /\ ~attached /\ ~AttachFails
  /\ held' = Attached(held)
  /\ attached' = TRUE
  /\ session' = IF session = "none" THEN "empty" ELSE session
  /\ UNCHANGED <<running, mode, ambiguous, saved, historyVars>>

-----------------------------------------------------------------------------
(***************************************************************************)
(* Model requests.  A request holds the maximum before it is sent and is   *)
(* settled when answered; one that fails keeps the maximum.                *)
(***************************************************************************)
\* reserve_request, n times over, when every answer keeps `kept`
Fit(h, n, kept) ==
  /\ h.maximum # None
  /\ \A i \in 1..n : h.cost + (i - 1) * kept + h.maximum <= StopAt

\* The first n - 1 requests are answered; the last ends as `end` says.
Spent(h, n, kept, end) ==
  IF n = 0 THEN h.cost
  ELSE h.cost + (n - 1) * kept + IF end = "answered" THEN kept ELSE h.maximum

\* The most that n requests cost.
Most(h, n) == IF n = 0 THEN 0 ELSE n * h.maximum

Crosses(h, cost) == h.cost <= WarnAt /\ cost > WarnAt

\* What a paying line leaves behind: the history of its confirmation.
Pay(confirm, needed) ==
  /\ confirms' = confirms + IF confirm THEN 1 ELSE 0
  /\ dear' = dear + IF needed THEN 1 ELSE 0
  /\ UNCHANGED <<running, mode>>

MayPay == dear < MaxPaid /\ confirms < MaxPaid

(***************************************************************************)
(* The coordinator lines, run_coordinator_request.  Only a request maximum *)
(* above the warning needs a confirmation; one given before counts.        *)
(***************************************************************************)
AskNeeds == held.maximum # None /\ held.maximum > WarnAt

\* The confirmation of an earlier line is taken, whether it is needed or not.
Taken == [held EXCEPT !.confirmed = FALSE]

Asked(l) == Working /\ Parses(l)

\* Nothing but blanks, and perhaps a --confirm.
AskBlank(l) ==
  /\ Asked(l) /\ l.word = "blank"
  /\ ambiguous' = FALSE
  /\ UNCHANGED <<running, mode, held, attached, diskVars, historyVars>>

\* "repeat the command with --confirm"; nothing changes
MustConfirm(l) ==
  /\ Asked(l) /\ l.word # "blank"
  /\ AskNeeds /\ ~l.confirm /\ ~held.confirmed

AskUnconfirmed(l) == MustConfirm(l) /\ Untouched

Passes(l) == AskNeeds => l.confirm \/ held.confirmed

\* The confirmation of the line is spent on nothing.
AskUnopened(l) ==
  /\ Asked(l) /\ l.word # "blank" /\ Passes(l)
  /\ AttachFails
  /\ held' = Taken
  /\ ambiguous' = FALSE
  /\ UNCHANGED <<running, mode, attached, diskVars, historyVars>>

\* Mutant: the confirmation of an earlier line stays.
AskKeeping(l) ==
  /\ Asked(l) /\ l.word # "blank" /\ Passes(l) /\ ~AttachFails /\ MayPay
  /\ LET h == Attached(held) IN
     \E n \in 0..MaxTurns, end \in {"answered", "ambiguous", "stopped"} :
       /\ Fit(h, n, h.maximum)
       /\ n = 0 => end = "stopped"
       /\ LET after == [h EXCEPT !.cost = Spent(h, n, h.maximum, end)]
          IN /\ held' = after
             /\ IF end = "answered"
                THEN WriteCheckpoint(after) /\ UNCHANGED ambiguous
                ELSE /\ AppendEvent /\ UNCHANGED saved
                     /\ ambiguous' = (end = "ambiguous")
  /\ Pay(l.confirm, AskNeeds)
  /\ attached' = TRUE
  /\ UNCHANGED crossed

\* n requests are sent, and an answer keeps nothing or all of what it held.
\* A request that does not fit the chapter's cap, or has no price, stops.
Ask(l) ==
  /\ Asked(l) /\ l.word # "blank" /\ Passes(l) /\ ~AttachFails /\ MayPay
  /\ LET h == Attached(Taken) IN
     \E n \in 0..MaxTurns, end \in {"answered", "ambiguous", "stopped"} :
     \E kept \in {0, h.maximum} \ {None} :
       /\ n > 0 => Fit(h, n, kept)
       /\ n = 0 => end = "stopped" /\ ~Fit(h, 1, kept)
       /\ LET after == [h EXCEPT !.cost = Spent(h, n, kept, end)]
          IN /\ held' = after
             /\ IF end = "answered"
                THEN WriteCheckpoint(after) /\ UNCHANGED ambiguous
                ELSE /\ AppendEvent /\ UNCHANGED saved
                     /\ ambiguous' = (end = "ambiguous")
  /\ Pay(l.confirm, AskNeeds)
  /\ attached' = TRUE
  /\ UNCHANGED crossed

-----------------------------------------------------------------------------
(***************************************************************************)
(* /write.  The line's confirmation is given first; the gates read it, and *)
(* only past the last of them is it taken back.                            *)
(***************************************************************************)
\* Mutant: the revisions are left out of the estimate.
EstimateOneDraft == FewestCalls * held.maximum

Estimate == WriteCalls * held.maximum

Given(confirm) == [held EXCEPT !.confirmed = @ \/ confirm]
Priced == held.maximum # None /\ Estimate <= StopAt
WriteNeeds == Estimate > WarnAt

\* No plan for the chapter, no price, or above the chapter's cap.
WriteRefused(confirm) ==
  /\ Working
  /\ confirm => confirms < MaxPaid
  /\ held' = Given(confirm)
  /\ confirms' = confirms + IF confirm THEN 1 ELSE 0
  /\ ambiguous' = FALSE
  /\ UNCHANGED <<running, mode, attached, diskVars, dear, crossed>>

WriteUnconfirmed ==
  /\ Working /\ Priced
  /\ WriteNeeds /\ ~held.confirmed
  /\ Untouched

WriteUnopened(confirm) ==
  /\ Working /\ Priced
  /\ confirm => confirms < MaxPaid
  /\ WriteNeeds => Given(confirm).confirmed
  /\ AttachFails
  /\ held' = Taken
  /\ confirms' = confirms + IF confirm THEN 1 ELSE 0
  /\ ambiguous' = FALSE
  /\ UNCHANGED <<running, mode, attached, diskVars, dear, crossed>>

\* The chapter is stale, and the instruction was noted.
NoteInstruction(h) ==
  /\ held' = h
  /\ AppendEvent /\ UNCHANGED <<saved, crossed>>
  /\ ambiguous' = FALSE

(***************************************************************************)
(* n roles are called, and ask for tools in t turns more: n + t requests   *)
(* are sent, of a cost that begins at zero.  The estimate counts only the  *)
(* role calls.  An ambiguous critic is reported as such only if no critic  *)
(* before it in its batch failed otherwise.                                *)
(***************************************************************************)
SendWrite(h, n, t, kept, end) ==
  LET cost == Spent(h, n + t, kept, end)
      after == [h EXCEPT !.cost = cost, !.candidate = @ \/ end = "answered"] IN
  /\ n > 0 => Fit(h, n + t, kept)
  /\ n = 0 => t = 0 /\ end = "stopped" /\ ~Fit(h, 1, kept)
  /\ end = "answered" => n >= FewestCalls
  /\ held' = after
  /\ \/ /\ end = "answered"
        /\ WriteCheckpoint(after) /\ UNCHANGED ambiguous
     \/ /\ end # "answered"
        /\ AppendEvent /\ UNCHANGED saved
        /\ ambiguous' = (end = "ambiguous")
     \/ /\ end = "ambiguous" /\ n > 3 /\ kept = h.maximum
        /\ AppendEvent /\ UNCHANGED saved
        /\ ambiguous' = FALSE
  /\ crossed' = (crossed \/ (~WriteNeeds /\ Crosses(h, cost - Most(h, t))))

Write(confirm) ==
  /\ Working /\ Priced /\ MayPay
  /\ WriteNeeds => Given(confirm).confirmed
  /\ ~AttachFails
  /\ LET opened == Attached(Taken) IN
     \/ NoteInstruction(opened)
     \/ \E n \in 0..WriteCalls, t \in 0..ToolTurns,
          end \in {"answered", "ambiguous", "stopped"} :
        \E kept \in {0, opened.maximum} \ {None} :
          SendWrite([opened EXCEPT !.cost = 0], n, t, kept, end)
  /\ Pay(confirm, WriteNeeds)
  /\ attached' = TRUE

-----------------------------------------------------------------------------
(***************************************************************************)
(* Processes.                                                              *)
(***************************************************************************)
Fresh(price) ==
  [maximum |-> price, model |-> DefaultModel, confirmed |-> FALSE,
   cost |-> 0, candidate |-> FALSE]

\* /quit, the end of the input, a crash
Quit ==
  /\ running
  /\ running' = FALSE
  /\ UNCHANGED <<processVars, diskVars, historyVars>>

\* run_project_repl
Start(price) ==
  /\ ~running
  /\ running' = TRUE
  /\ mode' = "work" /\ ambiguous' = FALSE
  /\ held' = Fresh(price)
  /\ attached' = FALSE
  /\ UNCHANGED <<diskVars, historyVars>>

Init ==
  /\ running = TRUE /\ mode = "work" /\ ambiguous = FALSE
  /\ held \in {Fresh(price) : price \in Price}
  /\ attached = FALSE
  /\ session = "none" /\ saved = None
  /\ confirms = 0 /\ dear = 0 /\ crossed = FALSE

Next ==
  \/ Malformed \/ BadArgument \/ Say
  \/ \E to \in {"work", "consult"} : Mode(to)
  \/ \E id \in Model : ChooseModel(id)
  \/ Record \/ Decide \/ Resume
  \/ \E l \in Line : Unparsed(l) \/ AskBlank(l) \/ AskUnconfirmed(l) \/ AskUnopened(l) \/ Ask(l)
  \/ WriteUnconfirmed
  \/ \E confirm \in BOOLEAN :
       WriteRefused(confirm) \/ WriteUnopened(confirm) \/ Write(confirm)
  \/ Quit
  \/ \E price \in Price : Start(price)

Spec == Init /\ [][Next]_vars

-----------------------------------------------------------------------------
TypeOK ==
  /\ running \in BOOLEAN /\ mode \in {"work", "consult"} /\ ambiguous \in BOOLEAN
  /\ held \in Settings /\ attached \in BOOLEAN
  /\ session \in {"none", "empty", "open", "named", "ahead"}
  /\ saved \in Settings \cup {None}
  /\ confirms \in Nat /\ dear \in Nat /\ crossed \in BOOLEAN

(***************************************************************************)
(* A `--confirm` lets at most one dear line through, however many          *)
(* processes carry it: it is in memory, in the checkpoint, and comes back  *)
(* from there (confirm_cost_warning, write_chapter, restore).              *)
(***************************************************************************)
OneConfirmationOneRequest == dear <= confirms

(***************************************************************************)
(* In consult mode no line changes the controller or the session, gives a  *)
(* confirmation or pays for a request (handle_async, handle_command).      *)
(***************************************************************************)
ConsultIsReadOnly ==
  [][running /\ mode = "consult" =>
       UNCHANGED <<held, attached, ambiguous, session, saved, confirms, dear>>]_vars

(***************************************************************************)
(* `/write` asks before the role calls of a chapter may cross the warning, *)
(* whatever its critics make it revise: a chapter goes over it unasked by  *)
(* no more than the turns cost that its roles take for tools, which are    *)
(* not in the estimate (complete_model_request).  That is so as long as    *)
(* every process is started with the same price: a checkpoint may bring    *)
(* back another one after the estimate (write_chapter,                     *)
(* restore_controller_snapshot).                                           *)
(***************************************************************************)
WritesAreWarned == ~crossed
=============================================================================
