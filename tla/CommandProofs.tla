----------------------------- MODULE CommandProofs -----------------------------
(***************************************************************************)
(* A confirmation lets one dear line through, consult mode leaves nothing  *)
(* behind, and the role calls of /write do not cross the warning unasked,  *)
(* for any prices, models, limits and number of processes and lines.       *)
(*                                                                         *)
(* The invariant counts the confirmations that may still be used: the one  *)
(* in memory, and the one a process that is not attached would find in the *)
(* checkpoint.                                                             *)
(***************************************************************************)
EXTENDS MCCommands, SequenceTheorems, TLAPS

Kept == session = "named" /\ saved.confirmed

Count(b) == IF b THEN 1 ELSE 0

Pending == Count(held.confirmed) + Count(~attached /\ Kept)

Paid == dear + Pending <= confirms

\* An attached process has in memory what its checkpoint has.
SameInMemory == attached /\ Kept => held.confirmed

Named == session = "named" => saved \in Settings

CommandInv == TypeOK /\ Named /\ SameInMemory /\ Paid

-----------------------------------------------------------------------------
(***************************************************************************)
(* Lemmas about settings.                                                  *)
(***************************************************************************)
\* The settings a line begins with after the session was opened.
LEMMA OpenedSettings ==
  ASSUME CommandInv, NEW h \in Settings
  PROVE  /\ Attached(h) \in Settings
         /\ ~attached /\ session = "named" => Attached(h) = saved
         /\ attached \/ session # "named" => Attached(h) = h
BY DEF CommandInv, TypeOK, Named, Attached

LEMMA TakenSettings ==
  ASSUME CommandInv
  PROVE  Taken \in Settings /\ ~Taken.confirmed
BY DEF CommandInv, TypeOK, Taken, Settings

LEMMA GivenSettings ==
  ASSUME CommandInv, NEW confirm \in BOOLEAN
  PROVE  /\ Given(confirm) \in Settings
         /\ Given(confirm).confirmed <=> held.confirmed \/ confirm
BY DEF CommandInv, TypeOK, Given, Settings

LEMMA CostIsNatural ==
  ASSUME NEW h \in Settings, NEW n \in Nat, NEW kept \in {0, h.maximum} \ {None},
         NEW end, n > 0 => Fit(h, n, kept)
  PROVE  Spent(h, n, kept, end) \in Nat
<1>1. h.cost \in Nat /\ h.maximum \in Nat \cup {None}
  BY DEF Settings
<1>2. CASE n = 0
  BY <1>1, <1>2 DEF Spent
<1>3. CASE n > 0
  <2>1. h.maximum \in Nat /\ kept \in Nat
    BY <1>1, <1>3 DEF Fit
  <2>2. n - 1 \in Nat
    BY <1>3
  <2>3. (n - 1) * kept \in Nat
    BY <2>1, <2>2
  <2>4. QED
    BY <1>1, <1>3, <2>1, <2>3 DEF Spent
<1>4. QED
  BY <1>2, <1>3

(***************************************************************************)
(* A line that pays.  It takes the confirmation in memory, opens the       *)
(* session, and leaves in memory and in a checkpoint what it found there.  *)
(***************************************************************************)
LEMMA PaidLine ==
  ASSUME CommandInv, NEW confirm \in BOOLEAN, NEW needed \in BOOLEAN,
         needed => confirm \/ held.confirmed,
         Pay(confirm, needed), attached' = TRUE, ambiguous' \in BOOLEAN,
         crossed' \in BOOLEAN, ~AttachFails,
         held' \in Settings, held'.confirmed = Attached(Taken).confirmed,
         WriteCheckpoint(held') \/ (AppendEvent /\ UNCHANGED saved)
  PROVE  CommandInv'
<1> DEFINE h == Attached(Taken)
<1>1. TypeOK /\ Named /\ SameInMemory /\ Paid
  BY DEF CommandInv
<1>2. h \in Settings /\ h.confirmed \in BOOLEAN /\ held.confirmed \in BOOLEAN
  BY <1>1, OpenedSettings, TakenSettings DEF TypeOK, Settings
<1>3. h.confirmed => ~attached /\ Kept
  <2>1. CASE ~attached /\ session = "named"
    BY <2>1, OpenedSettings, TakenSettings DEF Kept
  <2>2. CASE attached \/ session # "named"
    BY <2>2, OpenedSettings, TakenSettings
  <2>3. QED
    BY <2>1, <2>2
<1> HIDE DEF h
<1>4. dear \in Nat /\ confirms \in Nat
  BY <1>1 DEF TypeOK
<1>5. dear' = dear + Count(needed) /\ confirms' = confirms + Count(confirm)
  BY DEF Pay, Count
<1>6. TypeOK'
  <2>1. dear' \in Nat /\ confirms' \in Nat
    BY <1>4, <1>5 DEF Count
  <2>2. /\ session' \in {"none", "empty", "open", "named", "ahead"}
        /\ saved' \in Settings \cup {None}
    BY <1>1 DEF TypeOK, WriteCheckpoint, AppendEvent
  <2>3. QED
    BY <1>1, <2>1, <2>2 DEF TypeOK, Pay
<1>7. Named'
  BY <1>1 DEF Named, WriteCheckpoint, AppendEvent
<1>8. SameInMemory'
  BY DEF SameInMemory, Kept, WriteCheckpoint, AppendEvent
<1>9. Paid'
  <2>1. Pending' = Count(h.confirmed)
    BY DEF Pending, Count, h
  <2>2. Count(h.confirmed) + Count(needed) <= Pending + Count(confirm)
    BY <1>2, <1>3 DEF Pending, Count
  <2>3. dear + Pending <= confirms /\ Pending \in Nat
    BY <1>1 DEF Paid, Pending, Count
  <2>4. QED
    BY <1>4, <1>5, <2>1, <2>2, <2>3 DEF Paid, Count
<1>10. QED
  BY <1>6, <1>7, <1>8, <1>9 DEF CommandInv

(***************************************************************************)
(* A line that pays for nothing and gives no confirmation: what may still  *)
(* be used after it could be used before.                                  *)
(***************************************************************************)
LEMMA FreeLine ==
  ASSUME CommandInv, TypeOK', Named', SameInMemory',
         UNCHANGED <<dear, confirms>>, Pending' <= Pending
  PROVE  CommandInv'
<1>1. dear \in Nat /\ confirms \in Nat /\ Pending \in Nat /\ Pending' \in Nat
  BY DEF CommandInv, TypeOK, Pending, Count
<1>2. /\ dear' = dear /\ confirms' = confirms /\ dear + Pending <= confirms
      /\ Pending' <= Pending
  BY DEF CommandInv, Paid
<1>3. ASSUME NEW d \in Nat, NEW c \in Nat, NEW x \in Nat, NEW y \in Nat,
             d + x <= c, y <= x
      PROVE  d + y <= c
  BY <1>3
<1>4. dear' + Pending' <= confirms'
  BY <1>1, <1>2, <1>3
<1>5. QED
  BY <1>4 DEF CommandInv, Paid

\* A step that touches neither the confirmation in memory nor the session.
LEMMA QuietLine ==
  ASSUME CommandInv, UNCHANGED <<attached, session, saved, dear, confirms, crossed>>,
         running' \in BOOLEAN, mode' \in {"work", "consult"}, ambiguous' \in BOOLEAN,
         held' \in Settings, held'.confirmed = held.confirmed
  PROVE  CommandInv'
<1>1. TypeOK' /\ Named' /\ SameInMemory' /\ Pending' = Pending
  BY DEF CommandInv, TypeOK, Named, SameInMemory, Kept, Pending, Count
<1>2. Pending \in Nat
  BY DEF Pending, Count
<1>3. QED
  BY <1>1, <1>2, FreeLine

-----------------------------------------------------------------------------
(***************************************************************************)
(* The steps.                                                              *)
(***************************************************************************)
LEMMA RecordKeeps == ASSUME CommandInv, Record PROVE CommandInv'
<1>1. TypeOK /\ Named /\ SameInMemory
  BY DEF CommandInv
<1>2. held' = Attached(held) /\ held' \in Settings
  BY <1>1, OpenedSettings DEF Record, TypeOK
<1>3. /\ session' = "named" /\ saved' = held' /\ attached' = TRUE
      /\ UNCHANGED <<running, mode, ambiguous, dear, confirms, crossed>>
  BY DEF Record, WriteCheckpoint, historyVars
<1>4. TypeOK' /\ Named' /\ SameInMemory'
  BY <1>1, <1>2, <1>3 DEF TypeOK, Named, SameInMemory, Kept
<1>5. held'.confirmed => held.confirmed \/ (~attached /\ Kept)
  BY <1>1, <1>2, OpenedSettings DEF TypeOK, Kept
<1>6. Pending' <= Pending
  BY <1>3, <1>5 DEF Pending, Count
<1>7. QED
  BY <1>3, <1>4, <1>6, FreeLine

LEMMA DecideKeeps == ASSUME CommandInv, Decide PROVE CommandInv'
<1>1. TypeOK /\ Named
  BY DEF CommandInv
<1>2. /\ held' = held /\ session' = "named" /\ saved' = held /\ attached' = TRUE
      /\ UNCHANGED <<running, mode, ambiguous, dear, confirms, crossed>>
  BY DEF Decide, WriteCheckpoint, historyVars
<1>3. TypeOK' /\ Named' /\ SameInMemory'
  BY <1>1, <1>2 DEF TypeOK, Named, SameInMemory, Kept
<1>4. Pending' <= Pending
  BY <1>2 DEF Pending, Count
<1>5. QED
  BY <1>2, <1>3, <1>4, FreeLine

LEMMA ResumeKeeps == ASSUME CommandInv, Resume PROVE CommandInv'
<1>1. TypeOK /\ Named
  BY DEF CommandInv
<1>2. /\ held' = Attached(held) /\ held' \in Settings /\ attached' = TRUE /\ ~attached
      /\ session' = IF session = "none" THEN "empty" ELSE session
      /\ UNCHANGED <<running, mode, ambiguous, saved, dear, confirms, crossed>>
  BY <1>1, OpenedSettings DEF Resume, TypeOK, historyVars
<1>3. session' = "named" <=> session = "named"
  BY <1>2
<1>4. session = "named" => held' = saved
  BY <1>1, <1>2, OpenedSettings DEF TypeOK
<1>5. session # "named" => held' = held
  BY <1>1, <1>2, OpenedSettings DEF TypeOK
<1>6. TypeOK'
  BY <1>1, <1>2 DEF TypeOK
<1>7. Named' /\ SameInMemory'
  BY <1>1, <1>2, <1>3, <1>4 DEF Named, SameInMemory, Kept
<1>8. Pending' <= Pending
  BY <1>2, <1>4, <1>5 DEF Pending, Count, Kept
<1>9. QED
  BY <1>2, <1>6, <1>7, <1>8, FreeLine

LEMMA StartKeeps ==
  ASSUME CommandInv, NEW price \in Price, Start(price) PROVE CommandInv'
<1>1. TypeOK /\ Named /\ SameInMemory
  BY DEF CommandInv
<1>2. Fresh(price) \in Settings /\ ~Fresh(price).confirmed
  BY PriceAssumption, ModelAssumption DEF Fresh, Settings
<1>3. /\ held' = Fresh(price) /\ attached' = FALSE
      /\ UNCHANGED <<session, saved, dear, confirms, crossed>>
  BY DEF Start, diskVars, historyVars
<1>4. TypeOK' /\ Named' /\ SameInMemory'
  BY <1>1, <1>2, <1>3 DEF Start, TypeOK, Named, SameInMemory, Kept
<1>5. Pending' <= Pending
  BY <1>1, <1>2, <1>3 DEF Pending, Count, Kept, SameInMemory
<1>6. QED
  BY <1>3, <1>4, <1>5, FreeLine

LEMMA LinesKeep ==
  ASSUME CommandInv, NEW l \in Line,
         Unparsed(l) \/ AskBlank(l) \/ AskUnconfirmed(l)
  PROVE  CommandInv'
<1>1. held \in Settings /\ TypeOK
  BY DEF CommandInv, TypeOK
<1>2. UNCHANGED <<held, attached, session, saved, dear, confirms, crossed, mode>>
  BY DEF Unparsed, AskBlank, AskUnconfirmed, Untouched, processVars, diskVars, historyVars
<1>3. running' \in BOOLEAN /\ ambiguous' \in BOOLEAN
  BY <1>1 DEF Unparsed, AskBlank, AskUnconfirmed, Untouched, processVars, TypeOK
<1>4. QED
  BY <1>1, <1>2, <1>3, QuietLine DEF TypeOK

LEMMA AskUnopenedKeeps ==
  ASSUME CommandInv, NEW l \in Line, AskUnopened(l) PROVE CommandInv'
<1>1. TypeOK /\ Named
  BY DEF CommandInv
<1>2. /\ ~attached /\ session # "named"
      /\ held' = Taken /\ ambiguous' = FALSE
      /\ UNCHANGED <<running, mode, attached, session, saved, dear, confirms, crossed>>
  BY DEF AskUnopened, AttachFails, diskVars, historyVars
<1>3. TypeOK' /\ Named' /\ SameInMemory'
  BY <1>1, <1>2, TakenSettings DEF TypeOK, Named, SameInMemory, Kept
<1>4. Pending' <= Pending
  BY <1>2, TakenSettings DEF Pending, Count, Kept
<1>5. QED
  BY <1>2, <1>3, <1>4, FreeLine

LEMMA AskKeeps ==
  ASSUME CommandInv, NEW l \in Line, Ask(l) PROVE CommandInv'
<1> DEFINE h == Attached(Taken)
<1>1. h \in Settings
  BY OpenedSettings, TakenSettings
<1>2. PICK n \in 0 .. MaxTurns, end \in {"answered", "ambiguous", "stopped"},
           kept \in {0, h.maximum} \ {None} :
        /\ n > 0 => Fit(h, n, kept)
        /\ held' = [h EXCEPT !.cost = Spent(h, n, kept, end)]
        /\ IF end = "answered"
           THEN WriteCheckpoint(held') /\ UNCHANGED ambiguous
           ELSE AppendEvent /\ UNCHANGED saved /\ ambiguous' = (end = "ambiguous")
  BY DEF Ask
<1>3. /\ AskNeeds => l.confirm \/ held.confirmed
      /\ Pay(l.confirm, AskNeeds) /\ attached' = TRUE /\ crossed' = crossed /\ ~AttachFails
  BY DEF Ask, Passes
<1>4. l.confirm \in BOOLEAN /\ AskNeeds \in BOOLEAN
  BY DEF Line, AskNeeds
<1> HIDE DEF h
<1>5. n \in Nat
  BY BoundAssumption
<1>6. Spent(h, n, kept, end) \in Nat
  BY <1>1, <1>2, <1>5, CostIsNatural
<1>7. held' \in Settings /\ held'.confirmed = h.confirmed
  BY <1>1, <1>2, <1>6 DEF Settings
<1>8. ambiguous' \in BOOLEAN /\ crossed' \in BOOLEAN
  BY <1>2, <1>3 DEF CommandInv, TypeOK
<1>9. WriteCheckpoint(held') \/ (AppendEvent /\ UNCHANGED saved)
  BY <1>2
<1>10. held'.confirmed = Attached(Taken).confirmed
  BY <1>7 DEF h
<1>11. QED
  BY <1>3, <1>4, <1>7, <1>8, <1>9, <1>10, PaidLine

LEMMA WriteRefusedKeeps ==
  ASSUME CommandInv, NEW confirm \in BOOLEAN, WriteRefused(confirm)
  PROVE  CommandInv'
<1>1. TypeOK /\ Named /\ SameInMemory /\ Paid
  BY DEF CommandInv
<1>2. /\ held' \in Settings /\ (held'.confirmed <=> held.confirmed \/ confirm)
      /\ confirms' = confirms + Count(confirm)
      /\ ambiguous' = FALSE
      /\ UNCHANGED <<running, mode, attached, session, saved, dear, crossed>>
  BY GivenSettings DEF WriteRefused, diskVars, Count
<1>3. dear \in Nat /\ confirms \in Nat /\ confirms' \in Nat
  BY <1>1, <1>2 DEF TypeOK, Count
<1>4. TypeOK'
  BY <1>1, <1>2, <1>3 DEF TypeOK
<1>5. Named' /\ SameInMemory'
  BY <1>1, <1>2 DEF Named, SameInMemory, Kept
<1>6. Pending' <= Pending + Count(confirm) /\ Pending \in Nat /\ Pending' \in Nat
  BY <1>2 DEF Pending, Count, Kept
<1>7. dear + Pending <= confirms /\ Count(confirm) \in Nat
  BY <1>1 DEF Paid, Count
<1>8. dear' + Pending' <= confirms'
  BY <1>2, <1>3, <1>6, <1>7
<1>9. QED
  BY <1>4, <1>5, <1>8 DEF CommandInv, Paid

LEMMA WriteUnopenedKeeps ==
  ASSUME CommandInv, NEW confirm \in BOOLEAN, WriteUnopened(confirm)
  PROVE  CommandInv'
<1>1. TypeOK /\ Named /\ Paid
  BY DEF CommandInv
<1>2. /\ ~attached /\ session # "named"
      /\ held' = Taken /\ ambiguous' = FALSE
      /\ confirms' = confirms + Count(confirm)
      /\ UNCHANGED <<running, mode, attached, session, saved, dear, crossed>>
  BY DEF WriteUnopened, AttachFails, diskVars, Count
<1>3. dear \in Nat /\ confirms \in Nat /\ confirms' \in Nat /\ confirms <= confirms'
  BY <1>1, <1>2 DEF TypeOK, Count
<1>4. TypeOK' /\ Named' /\ SameInMemory'
  BY <1>1, <1>2, <1>3, TakenSettings DEF TypeOK, Named, SameInMemory, Kept
<1>5. Pending' <= Pending /\ Pending \in Nat /\ Pending' \in Nat
  BY <1>2, TakenSettings DEF Pending, Count, Kept
<1>6. dear + Pending <= confirms
  BY <1>1 DEF Paid
<1>7. dear' + Pending' <= confirms'
  BY <1>2, <1>3, <1>5, <1>6
<1>8. QED
  BY <1>4, <1>7 DEF CommandInv, Paid

LEMMA SendWriteKeeps ==
  ASSUME CommandInv, NEW confirm \in BOOLEAN, NEW h \in Settings,
         h.confirmed = Attached(Taken).confirmed,
         NEW n \in 0 .. WriteCalls, NEW t \in 0 .. ToolTurns,
         NEW end \in {"answered", "ambiguous", "stopped"},
         NEW kept \in {0, h.maximum} \ {None}, SendWrite(h, n, t, kept, end),
         WriteNeeds => confirm \/ held.confirmed, ~AttachFails,
         Pay(confirm, WriteNeeds), attached' = TRUE
  PROVE  CommandInv'
<1>1. n + t \in Nat /\ (n + t > 0 => Fit(h, n + t, kept))
  BY CallsAssumption, BoundAssumption DEF SendWrite
<1>2. Spent(h, n + t, kept, end) \in Nat
  BY <1>1, CostIsNatural
<1>3. held' = [h EXCEPT !.cost = Spent(h, n + t, kept, end),
                        !.candidate = @ \/ end = "answered"]
  BY DEF SendWrite
<1>4. held' \in Settings /\ held'.confirmed = h.confirmed
  BY <1>2, <1>3 DEF Settings
<1>5. ambiguous' \in BOOLEAN
  BY DEF SendWrite, CommandInv, TypeOK
<1>6. crossed' \in BOOLEAN
  BY DEF SendWrite
<1>7. WriteCheckpoint(held') \/ (AppendEvent /\ UNCHANGED saved)
  BY DEF SendWrite
<1>8. WriteNeeds \in BOOLEAN
  BY DEF WriteNeeds
<1>9. QED
  BY <1>4, <1>5, <1>6, <1>7, <1>8, PaidLine

LEMMA WriteKeeps ==
  ASSUME CommandInv, NEW confirm \in BOOLEAN, Write(confirm)
  PROVE  CommandInv'
<1> DEFINE opened == Attached(Taken)
           h == [opened EXCEPT !.cost = 0]
<1>1. /\ opened \in Settings /\ h \in Settings
      /\ h.confirmed = opened.confirmed /\ h.maximum = opened.maximum
  BY OpenedSettings, TakenSettings DEF Settings
<1>2. /\ WriteNeeds => confirm \/ held.confirmed
      /\ Pay(confirm, WriteNeeds) /\ attached' = TRUE /\ ~AttachFails
  BY GivenSettings DEF Write
<1>3. WriteNeeds \in BOOLEAN /\ TypeOK
  BY DEF WriteNeeds, CommandInv
<1>4. CASE NoteInstruction(opened)
  BY <1>1, <1>2, <1>3, <1>4, PaidLine DEF NoteInstruction, TypeOK
<1>5. ASSUME NEW n \in 0 .. WriteCalls, NEW t \in 0 .. ToolTurns,
             NEW end \in {"answered", "ambiguous", "stopped"},
             NEW kept \in {0, opened.maximum} \ {None}, SendWrite(h, n, t, kept, end)
      PROVE  CommandInv'
  BY <1>1, <1>2, <1>5, SendWriteKeeps
<1>6. QED
  BY <1>4, <1>5 DEF Write

-----------------------------------------------------------------------------
(***************************************************************************)
(* The invariant, and what it says about confirmations.                    *)
(***************************************************************************)
LEMMA CommandFirst == Init => CommandInv
<1> SUFFICES ASSUME Init
             PROVE  CommandInv
  OBVIOUS
<1>1. PICK price \in Price : held = Fresh(price)
  BY DEF Init
<1>2. held \in Settings /\ ~held.confirmed
  BY <1>1, PriceAssumption, ModelAssumption DEF Fresh, Settings
<1>3. TypeOK /\ Named /\ SameInMemory
  BY <1>2 DEF Init, TypeOK, Named, SameInMemory, Kept
<1>4. Paid
  BY <1>2 DEF Init, Paid, Pending, Count, Kept
<1>5. QED
  BY <1>3, <1>4 DEF CommandInv

LEMMA CommandNext == CommandInv /\ [Next]_vars => CommandInv'
<1> SUFFICES ASSUME CommandInv, [Next]_vars
             PROVE  CommandInv'
  OBVIOUS
<1>1. TypeOK
  BY DEF CommandInv
<1>2. CASE Malformed \/ BadArgument \/ Quit \/ Say \/ WriteUnconfirmed
  <2>1. UNCHANGED <<mode, ambiguous, held, attached, session, saved, dear, confirms, crossed>>
    BY <1>2 DEF Malformed, BadArgument, Quit, Say, WriteUnconfirmed, Untouched,
                processVars, diskVars, historyVars
  <2>2. running' \in BOOLEAN
    BY <1>1, <1>2 DEF TypeOK, Malformed, BadArgument, Quit, Say, WriteUnconfirmed, Untouched
  <2>3. QED
    BY <1>1, <2>1, <2>2, QuietLine DEF TypeOK
<1>3. ASSUME NEW to \in {"work", "consult"}, Mode(to)
      PROVE  CommandInv'
  BY <1>1, <1>3, QuietLine DEF Mode, TypeOK, diskVars, historyVars
<1>4. ASSUME NEW id \in Model, ChooseModel(id)
      PROVE  CommandInv'
  <2>1. held' \in Settings /\ held'.confirmed = held.confirmed
    BY <1>1, <1>4 DEF ChooseModel, TypeOK, Settings
  <2>2. QED
    BY <1>1, <1>4, <2>1, QuietLine DEF ChooseModel, TypeOK, diskVars, historyVars
<1>5. CASE Record \/ Decide \/ Resume
  BY <1>5, RecordKeeps, DecideKeeps, ResumeKeeps
<1>6. ASSUME NEW l \in Line,
             Unparsed(l) \/ AskBlank(l) \/ AskUnconfirmed(l) \/ AskUnopened(l) \/ Ask(l)
      PROVE  CommandInv'
  BY <1>6, LinesKeep, AskUnopenedKeeps, AskKeeps
<1>7. ASSUME NEW confirm \in BOOLEAN,
             WriteRefused(confirm) \/ WriteUnopened(confirm) \/ Write(confirm)
      PROVE  CommandInv'
  BY <1>7, WriteRefusedKeeps, WriteUnopenedKeeps, WriteKeeps
<1>8. ASSUME NEW price \in Price, Start(price)
      PROVE  CommandInv'
  BY <1>8, StartKeeps
<1>9. CASE UNCHANGED vars
  BY <1>1, <1>9, QuietLine DEF vars, processVars, diskVars, historyVars, TypeOK
<1>10. QED
  BY <1>2, <1>3, <1>4, <1>5, <1>6, <1>7, <1>8, <1>9 DEF Next

(***************************************************************************)
(* However many processes carry a confirmation, in memory and in           *)
(* checkpoints, it lets one line through that needed one                   *)
(* (confirm_cost_warning, write_chapter, restore_controller_snapshot).     *)
(***************************************************************************)
THEOREM ConfirmationUsedOnce == Spec => []OneConfirmationOneRequest
<1>1. CommandInv => OneConfirmationOneRequest
  <2> SUFFICES ASSUME CommandInv
               PROVE  dear <= confirms
    BY DEF OneConfirmationOneRequest
  <2>1. dear \in Nat /\ confirms \in Nat /\ Pending \in Nat /\ dear + Pending <= confirms
    BY DEF CommandInv, TypeOK, Paid, Pending, Count
  <2>2. QED
    BY <2>1
<1>2. QED
  BY <1>1, CommandFirst, CommandNext, PTL DEF Spec

(***************************************************************************)
(* A line of consult mode changes neither the controller nor the session,  *)
(* gives no confirmation and pays for nothing (handle_async,               *)
(* handle_command).                                                        *)
(***************************************************************************)
THEOREM ConsultLeavesNothing == Spec => ConsultIsReadOnly
<1> DEFINE Quiet == UNCHANGED <<held, attached, ambiguous, session, saved, confirms, dear>>
<1>1. ASSUME Next, running, mode = "consult"
      PROVE  Quiet
  <2>1. ~Working
    BY <1>1 DEF Working
  <2>2. CASE Malformed \/ Say \/ Quit
    BY <2>2 DEF Malformed, Say, Quit, Untouched, processVars, diskVars, historyVars
  <2>3. ASSUME NEW to \in {"work", "consult"}, Mode(to)
        PROVE  Quiet
    BY <2>3 DEF Mode, diskVars, historyVars
  <2>4. ASSUME NEW l \in Line, Unparsed(l)
        PROVE  Quiet
    BY <2>4 DEF Unparsed, processVars, diskVars, historyVars
  <2>5. ~BadArgument /\ ~Record /\ ~Decide /\ ~Resume /\ ~WriteUnconfirmed
    BY <2>1 DEF BadArgument, Record, Decide, Resume, WriteUnconfirmed
  <2>6. \A id \in Model : ~ChooseModel(id)
    BY <2>1 DEF ChooseModel
  <2>7. \A l \in Line : ~AskBlank(l) /\ ~AskUnconfirmed(l) /\ ~AskUnopened(l) /\ ~Ask(l)
    BY <2>1 DEF AskBlank, AskUnconfirmed, MustConfirm, AskUnopened, Ask, Asked
  <2>8. \A c \in BOOLEAN : ~WriteRefused(c) /\ ~WriteUnopened(c) /\ ~Write(c)
    BY <2>1 DEF WriteRefused, WriteUnopened, Write
  <2>9. \A price \in Price : ~Start(price)
    BY <1>1 DEF Start
  <2>10. QED
    BY <1>1, <2>2, <2>3, <2>4, <2>5, <2>6, <2>7, <2>8, <2>9 DEF Next
<1>2. [Next]_vars => [running /\ mode = "consult" => Quiet]_vars
  BY <1>1
<1>3. QED
  BY <1>2, PTL DEF Spec, ConsultIsReadOnly

-----------------------------------------------------------------------------
(***************************************************************************)
(* The estimate of /write.  As long as the price stays, memory and         *)
(* checkpoint have the same one, so what was estimated is what is held.    *)
(***************************************************************************)
OnePrice == session = "named" => saved.maximum = held.maximum

SteadyInv == CommandInv /\ (kind = "steady lines" => OnePrice /\ ~crossed)

\* n requests of a chapter cost at most n times the maximum.
LEMMA SpentAtMost ==
  ASSUME NEW h \in Settings, h.cost = 0, h.maximum # None, NEW n \in Nat,
         NEW kept \in {0, h.maximum} \ {None},
         NEW end \in {"answered", "ambiguous", "stopped"}
  PROVE  Spent(h, n, kept, end) \in Nat /\ Spent(h, n, kept, end) <= n * h.maximum
<1>1. PICK m \in Nat : m = h.maximum
  BY DEF Settings
<1>2. CASE n = 0
  BY <1>1, <1>2 DEF Spent
<1>3. CASE n # 0
  <2>1. (n - 1) * m + m = n * m /\ (n - 1) * m \in Nat /\ (n - 1) * 0 = 0
    BY <1>3
  <2>2. CASE kept = 0
    BY <1>1, <1>3, <2>1, <2>2 DEF Spent
  <2>3. CASE kept = m
    BY <1>1, <1>3, <2>1, <2>3 DEF Spent
  <2>4. QED
    BY <1>1, <2>2, <2>3
<1>4. QED
  BY <1>2, <1>3

\* The role calls are what was estimated; the turns for tools come on top.
LEMMA CallsAtMost ==
  ASSUME NEW m \in Nat, NEW n \in 0 .. WriteCalls, NEW t \in Nat
  PROVE  /\ (n + t) * m <= WriteCalls * m + t * m
         /\ (n + t) * m \in Nat /\ WriteCalls * m \in Nat /\ t * m \in Nat
<1>1. n \in Nat /\ WriteCalls \in Nat /\ WriteCalls - n \in Nat
  BY CallsAssumption
<1>2. (n + t) * m = n * m + t * m /\ (WriteCalls - n) * m = WriteCalls * m - n * m
  BY <1>1
<1>3. /\ (WriteCalls - n) * m \in Nat /\ n * m \in Nat /\ t * m \in Nat
      /\ WriteCalls * m \in Nat /\ (n + t) * m \in Nat
  BY <1>1
<1>4. QED
  BY <1>2, <1>3

\* A chapter below the warning in the estimate stays below it.
LEMMA EstimateHolds ==
  ASSUME CommandInv, OnePrice, ~crossed, NEW confirm \in BOOLEAN, Write(confirm)
  PROVE  ~crossed'
<1> DEFINE opened == Attached(Taken)
           h == [opened EXCEPT !.cost = 0]
<1>1. /\ opened \in Settings /\ h \in Settings
      /\ h.cost = 0 /\ h.maximum = opened.maximum
  BY OpenedSettings, TakenSettings DEF Settings
<1>2. opened.maximum = held.maximum
  <2>1. Taken.maximum = held.maximum
    BY DEF Taken, CommandInv, TypeOK, Settings
  <2>2. CASE ~attached /\ session = "named"
    BY <2>2 DEF Attached, OnePrice
  <2>3. CASE ~(~attached /\ session = "named")
    BY <2>1, <2>3 DEF Attached
  <2>4. QED
    BY <2>2, <2>3
<1>3. held.maximum # None /\ held.maximum \in Nat
  BY DEF Write, Priced, CommandInv, TypeOK, Settings
<1>4. CASE NoteInstruction(opened)
  BY <1>4 DEF NoteInstruction
<1>5. ASSUME NEW n \in 0 .. WriteCalls, NEW t \in 0 .. ToolTurns,
             NEW end \in {"answered", "ambiguous", "stopped"},
             NEW kept \in {0, opened.maximum} \ {None}, SendWrite(h, n, t, kept, end)
      PROVE  ~crossed'
  <2> DEFINE cost == Spent(h, n + t, kept, end)
  <2>1. n + t \in Nat /\ t \in Nat
    BY <1>5, CallsAssumption, BoundAssumption
  <2>2. cost \in Nat /\ cost <= (n + t) * held.maximum
    BY <1>1, <1>2, <1>3, <1>5, <2>1, SpentAtMost
  <2>3. Most(h, t) = t * held.maximum
    BY <1>1, <1>2, <1>3, <2>1 DEF Most
  <2>4. cost <= WriteCalls * held.maximum + t * held.maximum
        /\ WriteCalls * held.maximum \in Nat /\ t * held.maximum \in Nat
    <3>1. /\ (n + t) * held.maximum <= WriteCalls * held.maximum + t * held.maximum
          /\ (n + t) * held.maximum \in Nat /\ WriteCalls * held.maximum \in Nat
          /\ t * held.maximum \in Nat
      BY <1>3, <1>5, <2>1, CallsAtMost
    <3>2. QED
      BY <2>2, <3>1
  <2> HIDE DEF cost
  <2>5. ~WriteNeeds => ~Crosses(h, cost - Most(h, t))
    BY <2>2, <2>3, <2>4, LimitAssumption DEF WriteNeeds, Estimate, Crosses
  <2>6. QED
    BY <1>5, <2>5 DEF SendWrite, cost
<1>6. QED
  BY <1>4, <1>5 DEF Write

\* What a line leaves in a checkpoint is what it leaves, or found, in memory.
LEMMA PriceKept ==
  ASSUME CommandInv, OnePrice, Next, held'.maximum = held.maximum
  PROVE  OnePrice'
<1> DEFINE FromMemory == \/ saved' \in {held, held'}
                         \/ session' # "named"
                         \/ UNCHANGED <<saved, session>>
<1>1. ASSUME Malformed \/ BadArgument \/ Quit \/ Say \/ WriteUnconfirmed
      PROVE  FromMemory
  BY <1>1 DEF Malformed, BadArgument, Quit, Say, WriteUnconfirmed, Untouched, diskVars
<1>2. ASSUME NEW to \in {"work", "consult"}, Mode(to)
      PROVE  FromMemory
  BY <1>2 DEF Mode, diskVars
<1>3. ASSUME NEW id \in Model, ChooseModel(id)
      PROVE  FromMemory
  BY <1>3 DEF ChooseModel, diskVars
<1>4. ASSUME Record \/ Decide \/ Resume
      PROVE  FromMemory
  BY <1>4 DEF Record, Decide, Resume, WriteCheckpoint, AttachFails
<1>5. ASSUME NEW l \in Line,
             Unparsed(l) \/ AskBlank(l) \/ AskUnconfirmed(l) \/ AskUnopened(l)
      PROVE  FromMemory
  BY <1>5 DEF Unparsed, AskBlank, AskUnconfirmed, AskUnopened, Untouched, diskVars
<1>6. ASSUME NEW l \in Line, Ask(l)
      PROVE  FromMemory
  BY <1>6 DEF Ask, WriteCheckpoint, AppendEvent
<1>7. ASSUME NEW confirm \in BOOLEAN, WriteRefused(confirm) \/ WriteUnopened(confirm)
      PROVE  FromMemory
  BY <1>7 DEF WriteRefused, WriteUnopened, diskVars
<1>8. ASSUME NEW confirm \in BOOLEAN, Write(confirm)
      PROVE  FromMemory
  <2>1. ASSUME NEW h, NoteInstruction(h)
        PROVE  FromMemory
    BY <2>1 DEF NoteInstruction, AppendEvent
  <2>2. ASSUME NEW h, NEW n, NEW t, NEW kept, NEW end, SendWrite(h, n, t, kept, end)
        PROVE  FromMemory
    BY <2>2 DEF SendWrite, WriteCheckpoint, AppendEvent
  <2>3. QED
    BY <1>8, <2>1, <2>2 DEF Write
<1>9. ASSUME NEW price \in Price, Start(price)
      PROVE  FromMemory
  BY <1>9 DEF Start, diskVars
<1>10. FromMemory
  BY <1>1, <1>2, <1>3, <1>4, <1>5, <1>6, <1>7, <1>8, <1>9 DEF Next
<1>11. QED
  BY <1>10 DEF OnePrice

\* No line but /write lets a chapter cross the warning.
LEMMA OthersCrossNothing ==
  ASSUME Next, \A confirm \in BOOLEAN : ~Write(confirm)
  PROVE  crossed' = crossed
<1>1. CASE Malformed \/ BadArgument \/ Quit \/ Say \/ WriteUnconfirmed
  BY <1>1 DEF Malformed, BadArgument, Quit, Say, WriteUnconfirmed, Untouched, historyVars
<1>2. CASE Record \/ Decide \/ Resume
  BY <1>2 DEF Record, Decide, Resume, historyVars
<1>3. ASSUME NEW to \in {"work", "consult"}, Mode(to)
      PROVE  crossed' = crossed
  BY <1>3 DEF Mode, historyVars
<1>4. ASSUME NEW id \in Model, ChooseModel(id)
      PROVE  crossed' = crossed
  BY <1>4 DEF ChooseModel, historyVars
<1>5. ASSUME NEW l \in Line,
             Unparsed(l) \/ AskBlank(l) \/ AskUnconfirmed(l) \/ AskUnopened(l) \/ Ask(l)
      PROVE  crossed' = crossed
  BY <1>5 DEF Unparsed, AskBlank, AskUnconfirmed, AskUnopened, Ask, Untouched, historyVars
<1>6. ASSUME NEW confirm \in BOOLEAN, WriteRefused(confirm) \/ WriteUnopened(confirm)
      PROVE  crossed' = crossed
  BY <1>6 DEF WriteRefused, WriteUnopened
<1>7. ASSUME NEW price \in Price, Start(price)
      PROVE  crossed' = crossed
  BY <1>7 DEF Start, historyVars
<1>8. QED
  BY <1>1, <1>2, <1>3, <1>4, <1>5, <1>6, <1>7 DEF Next

(***************************************************************************)
(* While the price stays, /write asks before a chapter may cross the       *)
(* warning, whatever its critics make it revise (write_chapter's estimate, *)
(* and the settings that restore_controller_snapshot brings back), but for *)
(* the turns its roles take for tools, of any number, which may cost their *)
(* maximum on top (complete_model_request).                                *)
(***************************************************************************)
THEOREM SteadyWritesAsk == KindSpec => []SteadyWritesAreWarned
<1>1. KindInit => SteadyInv
  BY CommandFirst DEF KindInit, SteadyInv, Init, OnePrice
<1>2. SteadyInv /\ [KindNext]_<<vars, initVars, kind>> => SteadyInv'
  <2> SUFFICES ASSUME SteadyInv, [KindNext]_<<vars, initVars, kind>>
               PROVE  SteadyInv'
    OBVIOUS
  <2>1. [Next]_vars /\ kind' = kind
    BY DEF KindNext, LineStep, ProjectStep
  <2>2. CommandInv'
    BY <2>1, CommandNext DEF SteadyInv
  <2>3. CASE UNCHANGED vars
    BY <2>1, <2>2, <2>3 DEF SteadyInv, OnePrice, vars, processVars, diskVars, historyVars
  <2>4. CASE kind # "steady lines"
    BY <2>1, <2>2, <2>4 DEF SteadyInv
  <2>5. CASE ~(UNCHANGED vars) /\ kind = "steady lines"
    <3>1. Next /\ held'.maximum = held.maximum
      BY <2>5 DEF KindNext, LineStep, ProjectStep
    <3>2. OnePrice'
      BY <2>5, <3>1, PriceKept DEF SteadyInv
    <3>3. ~crossed'
      BY <2>5, <3>1, EstimateHolds, OthersCrossNothing DEF SteadyInv
    <3>4. QED
      BY <2>2, <3>2, <3>3 DEF SteadyInv
  <2>6. QED
    BY <2>3, <2>4, <2>5
<1>3. SteadyInv => SteadyWritesAreWarned
  BY DEF SteadyInv, SteadyWritesAreWarned, WritesAreWarned
<1>4. QED
  BY <1>1, <1>2, <1>3, PTL DEF KindSpec

-----------------------------------------------------------------------------
(***************************************************************************)
(* `phemius init` makes a project whole or not at all, for any number of   *)
(* initializers and entries and whatever other programs put into the root  *)
(* meanwhile.  The invariant relates, for every process, the entries of    *)
(* the root that are its own with its staging directory and with the list  *)
(* of its moves.                                                           *)
(***************************************************************************)
Phases == {"check", "staged", "renaming", "moving", "rolling back",
           "stuck", "failed", "done", "crashed"}

RootOK ==
  /\ exists \in BOOLEAN
  /\ entry \in [Name \cup {Foreign} -> Initializer \cup {Nobody, Other}]
  /\ ~exists => Empty

CallTypes ==
  /\ staging \in [Initializer -> SUBSET Name]
  /\ moved \in [Initializer -> Seq(Name)]
  /\ broken \in [Initializer -> BOOLEAN]
  /\ step \in [Initializer -> Phases]

Own(p) == {n \in Name : entry[n] = p}

Elems(s) == {s[i] : i \in 1 .. Len(s)}

Distinct(s) == \A i, j \in 1 .. Len(s) : s[i] = s[j] => i = j

CallOK(phase, own, staged, done, failed) ==
  /\ phase \in {"check", "staged", "renaming"} =>
       own = {} /\ done = << >> /\ ~failed
  /\ phase \in {"staged", "renaming"} => staged = Name
  /\ phase \in {"moving", "rolling back"} => Distinct(done)
  /\ phase = "moving" => own = Name \ staged /\ own = Elems(done) /\ ~failed
  /\ phase = "rolling back" =>
       /\ own = Name \ staged /\ Elems(done) \subseteq own
       /\ ~failed => own = Elems(done)
  /\ phase = "stuck" => own = Name \ staged
  /\ phase = "failed" => own = {}
  /\ phase = "done" => own = Name

Call(p) == CallOK(step[p], Own(p), staging[p], moved[p], broken[p])

InitInv == RootOK /\ CallTypes /\ \A p \in Initializer : Call(p)

-----------------------------------------------------------------------------
(***************************************************************************)
(* The list of moves.                                                      *)
(***************************************************************************)
\* A list with one more move.
LEMMA OneMoreMove ==
  ASSUME NEW s \in Seq(Name), NEW n \in Name, n \notin Elems(s), Distinct(s)
  PROVE  /\ Append(s, n) \in Seq(Name)
         /\ Elems(Append(s, n)) = Elems(s) \cup {n}
         /\ Distinct(Append(s, n))
<1> DEFINE t == Append(s, n)
<1>1. t \in Seq(Name) /\ Len(t) = Len(s) + 1 /\ Len(s) \in Nat
  OBVIOUS
<1>2. \A i \in 1 .. Len(s) : t[i] = s[i]
  OBVIOUS
<1>3. t[Len(s) + 1] = n
  OBVIOUS
<1> HIDE DEF t
<1>4. Elems(t) = Elems(s) \cup {n}
  <2>1. ASSUME NEW i \in 1 .. Len(t)
        PROVE  t[i] \in Elems(s) \cup {n}
    <3>1. i \in 1 .. Len(s) \/ i = Len(s) + 1
      BY <1>1
    <3>2. QED
      BY <3>1, <1>2, <1>3 DEF Elems
  <2>2. \A i \in 1 .. Len(s) : s[i] \in Elems(t)
    BY <1>1, <1>2 DEF Elems
  <2>3. n \in Elems(t)
    BY <1>1, <1>3 DEF Elems
  <2>4. QED
    BY <2>1, <2>2, <2>3 DEF Elems
<1>5. Distinct(t)
  <2> SUFFICES ASSUME NEW i \in 1 .. Len(t), NEW j \in 1 .. Len(t), t[i] = t[j]
               PROVE  i = j
    BY DEF Distinct
  <2>1. \A k \in 1 .. Len(s) : s[k] # n
    BY DEF Elems
  <2>2. (i \in 1 .. Len(s) \/ i = Len(s) + 1) /\ (j \in 1 .. Len(s) \/ j = Len(s) + 1)
    BY <1>1
  <2>3. QED
    BY <2>1, <2>2, <1>2, <1>3 DEF Distinct
<1>6. QED
  BY <1>1, <1>4, <1>5 DEF t

\* A list without its last move.
LEMMA OneMoveLess ==
  ASSUME NEW s \in Seq(Name), s # << >>, Distinct(s)
  PROVE  /\ Last(s) \in Elems(s)
         /\ Front(s) \in Seq(Name)
         /\ Elems(Front(s)) = Elems(s) \ {Last(s)}
         /\ Distinct(Front(s))
<1> DEFINE t == Front(s)
<1>1. Len(s) \in Nat \ {0}
  OBVIOUS
<1>2. t = SubSeq(s, 1, Len(s) - 1)
  BY DEF Front
<1>3. /\ t \in Seq(Name) /\ Len(t) = Len(s) - 1
      /\ \A i \in 1 .. Len(s) - 1 : t[i] = s[i]
  <2> DEFINE k == Len(s) - 1
  <2>1. k \in Nat /\ \A i \in 1 .. k : s[i] \in Name
    BY <1>1
  <2> HIDE DEF k
  <2>2. /\ SubSeq(s, 1, k) \in Seq(Name)
        /\ Len(SubSeq(s, 1, k)) = IF 1 <= k THEN k - 1 + 1 ELSE 0
        /\ \A i \in 1 .. k - 1 + 1 : SubSeq(s, 1, k)[i] = s[1 + i - 1]
    BY <2>1, SubSeqProperties
  <2>3. t = SubSeq(s, 1, k)
    BY <1>2 DEF k
  <2> HIDE DEF t
  <2>4. t \in Seq(Name) /\ Len(t) = k /\ \A i \in 1 .. k : t[i] = s[i]
    BY <2>1, <2>2, <2>3
  <2>5. QED
    BY <2>4 DEF k
<1>4. Last(s) = s[Len(s)]
  BY DEF Last
<1> HIDE DEF t
<1>5. Last(s) \in Elems(s)
  BY <1>1, <1>4 DEF Elems
<1>6. Elems(t) = Elems(s) \ {Last(s)}
  <2>1. \A i \in 1 .. Len(s) - 1 : t[i] \in Elems(s) /\ t[i] # Last(s)
    BY <1>1, <1>3, <1>4 DEF Elems, Distinct
  <2>2. \A i \in 1 .. Len(s) : s[i] # Last(s) => s[i] \in Elems(t)
    <3> SUFFICES ASSUME NEW i \in 1 .. Len(s), s[i] # Last(s)
                 PROVE  s[i] \in Elems(t)
      OBVIOUS
    <3>1. i \in 1 .. Len(s) - 1
      BY <1>1, <1>4
    <3>2. QED
      BY <3>1, <1>3 DEF Elems
  <2>3. QED
    BY <1>3, <2>1, <2>2 DEF Elems
<1>7. Distinct(t)
  BY <1>1, <1>3 DEF Distinct
<1>8. QED
  BY <1>3, <1>5, <1>6, <1>7 DEF t

-----------------------------------------------------------------------------
(***************************************************************************)
(* The invariant.                                                          *)
(***************************************************************************)
\* A step of one call: what it may do to the others, and where it leads.
LEMMA OneCall ==
  ASSUME InitInv, NEW p \in Initializer, CallTypes',
         \A q \in Initializer \ {p} :
           /\ step'[q] = step[q] /\ staging'[q] = staging[q]
           /\ moved'[q] = moved[q] /\ broken'[q] = broken[q]
           /\ Own(q)' = Own(q),
         RootOK', Call(p)'
  PROVE  InitInv'
<1> SUFFICES ASSUME NEW q \in Initializer, q # p
             PROVE  Call(q)'
  BY DEF InitInv
<1>1. Call(q)
  BY DEF InitInv
<1>2. QED
  BY <1>1 DEF Call

\* A step that leaves the root as it is.
LEMMA RootKept ==
  ASSUME InitInv, UNCHANGED entryVars
  PROVE  RootOK' /\ \A q \in Initializer : Own(q)' = Own(q)
BY DEF InitInv, RootOK, entryVars, Empty, Own

LEMMA InitFirst == InitialRoot => InitInv
<1> SUFFICES ASSUME InitialRoot
             PROVE  InitInv
  OBVIOUS
<1>1. RootOK /\ CallTypes
  BY DEF InitialRoot, RootOK, CallTypes, Empty, Phases
<1>2. ASSUME NEW p \in Initializer
      PROVE  Call(p)
  <2>1. Own(p) = {}
    BY EntryAssumption DEF InitialRoot, Own
  <2>2. step[p] = "check" /\ moved[p] = << >> /\ ~broken[p]
    BY DEF InitialRoot
  <2>3. QED
    BY <2>1, <2>2 DEF Call, CallOK
<1>3. QED
  BY <1>1, <1>2 DEF InitInv

\* A step of a call on its own directory.
LEMMA OwnStep ==
  ASSUME InitInv, NEW p \in Initializer, UNCHANGED entryVars,
         Refuse(p) \/ Stage(p) \/ StageFails(p) \/ Persist(p) \/ RenameFails(p)
           \/ MoveFails(p) \/ Moved(p) \/ RolledBack(p) \/ Crash(p)
  PROVE  InitInv'
<1> USE DEF Goto, Dropped
<1>1. RootOK' /\ \A q \in Initializer : Own(q)' = Own(q)
  BY RootKept
<1>2. CallTypes /\ Call(p)
  BY DEF InitInv
<1>3. CallTypes'
  BY <1>2 DEF CallTypes, Phases, Refuse, Stage, StageFails, Persist, RenameFails,
              MoveFails, Moved, RolledBack, Crash
<1>4. \A q \in Initializer \ {p} :
        /\ step'[q] = step[q] /\ staging'[q] = staging[q]
        /\ moved'[q] = moved[q] /\ broken'[q] = broken[q]
  BY <1>2 DEF CallTypes, Refuse, Stage, StageFails, Persist, RenameFails,
              MoveFails, Moved, RolledBack, Crash
<1>5. Call(p)'
  <2>0. Own(p)' = Own(p) /\ Own(p) \subseteq Name
    BY <1>1 DEF Own
  <2>1. CASE Refuse(p)
    BY <2>0, <2>1, <1>2 DEF Refuse, CallTypes, Call, CallOK
  <2>2. CASE Stage(p)
    BY <2>0, <2>2, <1>2 DEF Stage, CallTypes, Call, CallOK
  <2>3. CASE StageFails(p)
    BY <2>0, <2>3, <1>2 DEF StageFails, CallTypes, Call, CallOK
  <2>4. CASE Persist(p)
    <3>1. /\ step[p] = "staged" /\ Own(p) = {} /\ staging[p] = Name
          /\ moved[p] = << >> /\ ~broken[p]
      BY <2>4, <1>2 DEF Persist, Call, CallOK
    <3>2. /\ step'[p] \in {"moving", "renaming"} /\ staging'[p] = Name
          /\ moved'[p] = << >> /\ ~broken'[p]
      BY <2>4, <3>1, <1>2 DEF Persist, CallTypes
    <3>3. Elems(<< >>) = {} /\ Distinct(<< >>)
      BY DEF Elems, Distinct
    <3>4. QED
      BY <2>0, <3>1, <3>2, <3>3 DEF Call, CallOK
  <2>5. CASE RenameFails(p)
    BY <2>0, <2>5, <1>2 DEF RenameFails, CallTypes, Call, CallOK
  <2>6. CASE MoveFails(p)
    BY <2>0, <2>6, <1>2 DEF MoveFails, CallTypes, Call, CallOK
  <2>7. CASE Moved(p)
    BY <2>0, <2>7, <1>2 DEF Moved, CallTypes, Call, CallOK
  <2>8. CASE RolledBack(p)
    <3>1. Elems(<< >>) = {}
      BY DEF Elems
    <3>2. QED
      BY <2>0, <2>8, <3>1, <1>2 DEF RolledBack, CallTypes, Call, CallOK
  <2>9. CASE Crash(p)
    BY <2>0, <2>9, <1>2 DEF Crash, CallTypes, Call, CallOK
  <2>10. QED
    BY <2>1, <2>2, <2>3, <2>4, <2>5, <2>6, <2>7, <2>8, <2>9
<1>6. QED
  BY <1>1, <1>3, <1>4, <1>5, OneCall

LEMMA RenameStep ==
  ASSUME InitInv, NEW p \in Initializer, Rename(p)
  PROVE  InitInv'
<1> USE DEF Goto
<1>1. RootOK /\ CallTypes /\ Call(p)
  BY DEF InitInv
<1>2. \A n \in Name \cup {Foreign} : entry[n] = Nobody
  BY <1>1 DEF Rename, RootOK, Empty
<1>3. /\ entry' \in [Name \cup {Foreign} -> Initializer \cup {Nobody, Other}]
      /\ \A n \in Name : entry'[n] = p
  BY <1>1 DEF Rename, RootOK
<1>4. RootOK'
  BY <1>3 DEF Rename, RootOK
<1>5. CallTypes'
  BY <1>1 DEF Rename, CallTypes, Phases
<1>6. \A q \in Initializer \ {p} :
        /\ step'[q] = step[q] /\ staging'[q] = staging[q]
        /\ moved'[q] = moved[q] /\ broken'[q] = broken[q]
        /\ Own(q)' = Own(q)
  BY <1>1, <1>2, <1>3, EntryAssumption DEF Rename, CallTypes, Own
<1>7. Call(p)'
  BY <1>1, <1>3 DEF Rename, CallTypes, Call, CallOK, Own
<1>8. QED
  BY <1>4, <1>5, <1>6, <1>7, OneCall

LEMMA MoveStep ==
  ASSUME InitInv, NEW p \in Initializer, NEW n \in Name, Move(p, n)
  PROVE  InitInv'
<1>1. RootOK /\ CallTypes /\ Call(p)
  BY DEF InitInv
<1>2. /\ step[p] = "moving" /\ n \in staging[p] /\ exists /\ entry[n] = Nobody
      /\ exists' = exists
  BY DEF Move
<1>3. /\ entry' \in [Name \cup {Foreign} -> Initializer \cup {Nobody, Other}]
      /\ \A x \in Name : entry'[x] = IF x = n THEN p ELSE entry[x]
  BY <1>1 DEF Move, RootOK
<1>4. RootOK'
  BY <1>1, <1>2, <1>3 DEF RootOK
<1>5. /\ Own(p) = Name \ staging[p] /\ Own(p) = Elems(moved[p])
      /\ Distinct(moved[p]) /\ ~broken[p]
  BY <1>1, <1>2 DEF Call, CallOK
<1>6. n \notin Own(p) /\ n \notin Elems(moved[p])
  BY <1>2, <1>5
<1>7. moved[p] \in Seq(Name)
  BY <1>1 DEF CallTypes
<1>8. LET t == Append(moved[p], n)
      IN  t \in Seq(Name) /\ Elems(t) = Elems(moved[p]) \cup {n} /\ Distinct(t)
  BY <1>5, <1>6, <1>7, OneMoreMove
<1>9. /\ step' = step /\ broken' = broken
      /\ staging' = [staging EXCEPT ![p] = @ \ {n}]
      /\ moved' = [moved EXCEPT ![p] = Append(moved[p], n)]
  BY DEF Move
<1>10. CallTypes'
  BY <1>1, <1>8, <1>9 DEF CallTypes
<1>11. \A q \in Initializer \ {p} :
         /\ step'[q] = step[q] /\ staging'[q] = staging[q]
         /\ moved'[q] = moved[q] /\ broken'[q] = broken[q]
         /\ Own(q)' = Own(q)
  BY <1>1, <1>2, <1>3, <1>9, EntryAssumption DEF CallTypes, Own
<1>12. Call(p)'
  <2>1. Own(p)' = Own(p) \cup {n}
    BY <1>3 DEF Own
  <2>2. /\ step'[p] = "moving" /\ ~broken'[p] /\ staging'[p] = staging[p] \ {n}
        /\ moved'[p] = Append(moved[p], n)
    BY <1>1, <1>2, <1>5, <1>9 DEF CallTypes
  <2>3. Own(p)' = Name \ staging'[p]
    BY <1>5, <2>1, <2>2
  <2>4. QED
    BY <1>5, <1>8, <2>1, <2>2, <2>3 DEF Call, CallOK
<1>13. QED
  BY <1>4, <1>10, <1>11, <1>12, OneCall

LEMMA RollBackStep ==
  ASSUME InitInv, NEW p \in Initializer, RollBack(p)
  PROVE  InitInv'
<1> DEFINE n == Last(moved[p])
<1>1. RootOK /\ CallTypes /\ Call(p)
  BY DEF InitInv
<1>2. /\ step[p] = "rolling back" /\ moved[p] # << >> /\ moved[p] \in Seq(Name)
      /\ step' = step /\ exists' = exists
      /\ moved' = [moved EXCEPT ![p] = Front(moved[p])]
  BY <1>1 DEF RollBack, CallTypes
<1>3. /\ Own(p) = Name \ staging[p] /\ Elems(moved[p]) \subseteq Own(p)
      /\ ~broken[p] => Own(p) = Elems(moved[p])
      /\ Distinct(moved[p])
  BY <1>1, <1>2 DEF Call, CallOK
<1>4. /\ n \in Elems(moved[p])
      /\ Front(moved[p]) \in Seq(Name)
      /\ Elems(Front(moved[p])) = Elems(moved[p]) \ {n}
      /\ Distinct(Front(moved[p]))
  BY <1>2, <1>3, OneMoveLess
<1>5. n \in Name /\ entry[n] = p
  BY <1>3, <1>4 DEF Own
<1>6. \/ /\ exists
         /\ entry' = [entry EXCEPT ![n] = Nobody]
         /\ staging' = [staging EXCEPT ![p] = @ \cup {n}]
         /\ broken' = broken
      \/ /\ broken' = [broken EXCEPT ![p] = TRUE]
         /\ entry' = entry /\ staging' = staging
  BY DEF RollBack
<1> HIDE DEF n
<1>7. RootOK'
  BY <1>1, <1>2, <1>6 DEF RootOK, Empty
<1>8. CallTypes'
  <2>1. moved' \in [Initializer -> Seq(Name)] /\ step' \in [Initializer -> Phases]
    BY <1>1, <1>2, <1>4 DEF CallTypes
  <2>2. staging' \in [Initializer -> SUBSET Name]
    <3>1. staging[p] \cup {n} \subseteq Name
      BY <1>1, <1>5 DEF CallTypes
    <3>2. QED
      BY <1>1, <1>6, <3>1 DEF CallTypes
  <2>3. broken' \in [Initializer -> BOOLEAN]
    BY <1>1, <1>6 DEF CallTypes
  <2>4. QED
    BY <2>1, <2>2, <2>3 DEF CallTypes
<1>9. \A q \in Initializer \ {p} :
        /\ step'[q] = step[q] /\ staging'[q] = staging[q]
        /\ moved'[q] = moved[q] /\ broken'[q] = broken[q]
        /\ Own(q)' = Own(q)
  BY <1>1, <1>2, <1>5, <1>6, EntryAssumption DEF CallTypes, RootOK, Own
<1>10. Call(p)'
  <2>1. step'[p] = "rolling back" /\ moved'[p] = Front(moved[p])
    BY <1>1, <1>2 DEF CallTypes
  <2>2. CASE /\ entry' = [entry EXCEPT ![n] = Nobody]
             /\ staging' = [staging EXCEPT ![p] = @ \cup {n}]
             /\ broken' = broken
    <3>1. Own(p)' = Own(p) \ {n}
      BY <1>1, <1>5, <2>2, EntryAssumption DEF Own, RootOK
    <3>2. staging'[p] = staging[p] \cup {n} /\ broken'[p] = broken[p]
      BY <1>1, <2>2 DEF CallTypes
    <3>3. Own(p)' = Name \ staging'[p]
      BY <1>3, <3>1, <3>2
    <3>4. QED
      BY <1>3, <1>4, <2>1, <3>1, <3>2, <3>3 DEF Call, CallOK
  <2>3. CASE /\ broken' = [broken EXCEPT ![p] = TRUE]
             /\ entry' = entry /\ staging' = staging
    <3>1. Own(p)' = Own(p) /\ staging'[p] = staging[p] /\ broken'[p]
      BY <1>1, <2>3 DEF Own, CallTypes
    <3>2. QED
      BY <1>3, <1>4, <2>1, <3>1 DEF Call, CallOK
  <2>4. QED
    BY <1>6, <2>2, <2>3
<1>11. QED
  BY <1>7, <1>8, <1>9, <1>10, OneCall

\* What other programs do takes nothing that an initializer moved.
LEMMA OthersStep ==
  ASSUME InitInv, Others
  PROVE  InitInv'
<1>1. RootOK /\ CallTypes /\ \A p \in Initializer : Call(p)
  BY DEF InitInv
<1>2. UNCHANGED callVars
  BY DEF Others, MakeRoot, RemoveRoot, Put, Take, Touch
<1>3. RootOK'
  BY <1>1 DEF Others, MakeRoot, RemoveRoot, Put, Take, RootOK, Empty
<1>4. \A p \in Initializer : Own(p)' = Own(p)
  BY <1>1, EntryAssumption DEF Others, MakeRoot, RemoveRoot, Put, Take, RootOK, Own
<1>5. CallTypes' /\ \A p \in Initializer : Call(p)'
  BY <1>1, <1>2, <1>4 DEF callVars, CallTypes, Call
<1>6. QED
  BY <1>3, <1>5 DEF InitInv

LEMMA InitNext == InitInv /\ [NextInit]_initVars => InitInv'
<1> SUFFICES ASSUME InitInv, [NextInit]_initVars
             PROVE  InitInv'
  OBVIOUS
<1>1. ASSUME NEW p \in Initializer, Initialize(p)
      PROVE  InitInv'
  <2>1. CASE \/ Refuse(p) \/ Stage(p) \/ StageFails(p) \/ Persist(p) \/ RenameFails(p)
             \/ MoveFails(p) \/ Moved(p) \/ RolledBack(p) \/ Crash(p)
    <3>1. UNCHANGED entryVars
      BY <2>1 DEF Refuse, Stage, StageFails, Persist, RenameFails, MoveFails,
                  Moved, RolledBack, Crash
    <3>2. QED
      BY <2>1, <3>1, OwnStep
  <2>2. CASE Rename(p)
    BY <2>2, RenameStep
  <2>3. ASSUME NEW n \in Name, Move(p, n)
        PROVE  InitInv'
    BY <2>3, MoveStep
  <2>4. CASE RollBack(p)
    BY <2>4, RollBackStep
  <2>5. QED
    BY <1>1, <2>1, <2>2, <2>3, <2>4 DEF Initialize
<1>2. CASE Others
  BY <1>2, OthersStep
<1>3. CASE UNCHANGED initVars
  <2>1. UNCHANGED entryVars /\ UNCHANGED callVars
    BY <1>3 DEF initVars
  <2>2. RootOK' /\ \A q \in Initializer : Own(q)' = Own(q)
    BY <2>1, RootKept
  <2>3. QED
    BY <2>1, <2>2 DEF InitInv, callVars, CallTypes, Call
<1>4. QED
  BY <1>1, <1>2, <1>3 DEF NextInit

(***************************************************************************)
(* A persist that succeeds has made the whole project, one that fails has  *)
(* left nothing, and one that could not undo its moves has lost nothing    *)
(* (initialize_project, for any number of initializers and entries).       *)
(***************************************************************************)
THEOREM MadeWholeOrNot == InitSpec => []WholeOrNothing
<1>1. InitInv => WholeOrNothing
  <2> SUFFICES ASSUME InitInv, NEW p \in Initializer
               PROVE  /\ step[p] = "done" => \A n \in Name : entry[n] = p
                      /\ step[p] = "failed" => \A n \in Name : entry[n] # p
                      /\ step[p] = "stuck" => \A n \in Name : entry[n] = p \/ n \in staging[p]
    BY DEF WholeOrNothing
  <2>1. Call(p)
    BY DEF InitInv
  <2>2. QED
    BY <2>1 DEF Call, CallOK, Own
<1>2. QED
  BY <1>1, InitFirst, InitNext, PTL DEF InitSpec
================================================================================
