----------------------------- MODULE ContextProofs -----------------------------
(****************************************************************************)
(* A person's confirmation of a secret source pays for one handoff of its   *)
(* text, for any manifest, budgets and number of contexts alive at once:    *)
(* the invariant says where a promised secret is, in the keys of the one    *)
(* unsent context whose text has it.  A receipt has a line for each source  *)
(* that applies, and an optional source keeps out no needed one: a second   *)
(* invariant follows the sources still to do.  What the materials of a      *)
(* context come from: the route of a fetch, the catalog, and the grants.    *)
(****************************************************************************)
EXTENDS MCContextCompiler, SumProofs, TLAPS

Block == [source : Sources, form : {"raw", "compacted"}, size : Nat]

IsContext(r) ==
  r = [phase |-> r.phase, request |-> r.request, applicable |-> r.applicable, todo |-> r.todo,
       used |-> r.used, text |-> r.text, entries |-> r.entries, keys |-> r.keys]

Unsent == {"compiling", "ready"}

ContextOK(r) ==
  /\ IsContext(r)
  /\ r.phase \in {"none", "compiling", "ready", "failed", "sent"}
  /\ r.used \in Nat
  /\ r.text \in Seq(Block)
  /\ r.keys \subseteq Secrets
  /\ r.phase \in Unsent => SourcesIn(r.text) \cap Secrets = r.keys
  /\ r.phase \notin Unsent => r.keys = {}

ContextsOK ==
  /\ contexts = [c \in Contexts |-> contexts[c]]
  /\ \A c \in Contexts : ContextOK(contexts[c])

SetsOK ==
  /\ held \subseteq Sources
  /\ summaries \in [Sources -> Summaries \cup {None}]
  /\ structure \in Structures \cup {None}
  /\ available \subseteq Secrets
  /\ reserved \subseteq Secrets
  /\ available \cap reserved = {}

Promises ==
  \A c \in Contexts :
    /\ contexts[c].keys \subseteq reserved
    /\ \A d \in Contexts \ {c} : contexts[d].keys \cap contexts[c].keys = {}

CountsOK ==
  /\ confirms \in [Secrets -> 0 .. MaxConfirms]
  /\ transmitted \in [Secrets -> Nat]
  /\ EachConfirmationOnce

ContextInv == SetsOK /\ ContextsOK /\ Promises /\ CountsOK

--------------------------------------------------------------------------------
(****************************************************************************)
(* Lemmas.                                                                  *)
(****************************************************************************)

\* What a selected source adds to the text.
LEMMA AppendedSources ==
  ASSUME NEW text \in Seq(Block), NEW b \in Block
  PROVE  /\ Append(text, b) \in Seq(Block)
         /\ SourcesIn(Append(text, b)) = SourcesIn(text) \cup {b.source}
<1>1. Append(text, b) \in Seq(Block) /\ Len(Append(text, b)) = Len(text) + 1
  OBVIOUS
<1>2. \A i \in 1 .. Len(text) : Append(text, b)[i] = text[i]
  OBVIOUS
<1>3. Append(text, b)[Len(text) + 1] = b
  OBVIOUS
<1>4. DOMAIN text = 1 .. Len(text) /\ DOMAIN Append(text, b) = 1 .. Len(text) + 1
  BY <1>1
<1>5. Len(text) \in Nat
  OBVIOUS
<1>6. SourcesIn(Append(text, b)) \subseteq SourcesIn(text) \cup {b.source}
  BY <1>2, <1>3, <1>4, <1>5 DEF SourcesIn
<1>7. SourcesIn(text) \cup {b.source} \subseteq SourcesIn(Append(text, b))
  BY <1>2, <1>3, <1>4, <1>5 DEF SourcesIn
<1>8. QED
  BY <1>1, <1>6, <1>7

\* The parts and the ends of a longer sequence.
LEMMA Longer ==
  ASSUME NEW S, NEW s \in Seq(S), NEW x \in S
  PROVE  /\ Append(s, x) \in Seq(S)
         /\ Len(Append(s, x)) = Len(s) + 1
         /\ DOMAIN s = 1 .. Len(s)
         /\ DOMAIN Append(s, x) = 1 .. Len(s) + 1
         /\ \A i \in 1 .. Len(s) : Append(s, x)[i] = s[i]
         /\ Append(s, x)[Len(s) + 1] = x
         /\ Append(s, x) # <<>>
         /\ Len(s) \in Nat
OBVIOUS

\* An empty text has no sources.
LEMMA EmptyText == SourcesIn(<<>>) = {}
BY DEF SourcesIn

\* A context that changed and kept no promise leaves the others' promises alone.
LEMMA PromisesShrink ==
  ASSUME ContextInv, NEW c \in Contexts, NEW r,
         contexts' = [contexts EXCEPT ![c] = r],
         r.keys \subseteq contexts[c].keys,
         r.keys \subseteq reserved',
         reserved \ contexts[c].keys \subseteq reserved'
  PROVE  Promises'
<1>1. \A d \in Contexts : contexts'[d] = IF d = c THEN r ELSE contexts[d]
  BY DEF ContextInv, ContextsOK
<1>2. \A d \in Contexts : contexts'[d].keys \subseteq contexts[d].keys
  BY <1>1
<1>3. \A d \in Contexts : contexts'[d].keys \subseteq reserved'
  BY <1>1 DEF ContextInv, Promises
<1>4. QED
  BY <1>2, <1>3 DEF ContextInv, Promises

\* One context changed to a good one.
LEMMA ReplacedContext ==
  ASSUME ContextsOK, NEW c \in Contexts, NEW r,
         contexts' = [contexts EXCEPT ![c] = r], ContextOK(r)
  PROVE  ContextsOK'
BY DEF ContextsOK, ContextOK, IsContext

--------------------------------------------------------------------------------
(****************************************************************************)
(* The inductive invariant.                                                 *)
(****************************************************************************)
LEMMA InitInv == Init => ContextInv
<1> SUFFICES ASSUME Init PROVE ContextInv
  OBVIOUS
<1>1. SetsOK
  BY DEF Init, SetsOK, SnapshotsOf
<1>2. ContextOK(Idle)
  BY EmptyText DEF ContextOK, IsContext, Idle, Unsent
<1>3. ContextsOK
  BY <1>2 DEF Init, ContextsOK
<1>4. Promises
  BY DEF Init, Promises, Idle
<1>5. CountsOK
  BY ConfirmsAssumption DEF Init, CountsOK, EachConfirmationOnce, Bit
<1>6. QED
  BY <1>1, <1>3, <1>4, <1>5 DEF ContextInv

LEMMA SelectInv ==
  ASSUME ContextInv, NEW c \in Contexts, Select(c)
  PROVE  ContextInv'
<1>1. PICK s \in Sources :
        /\ Compiling(c, s)
        /\ Selectable(contexts[c], s)
        /\ contexts' = [contexts EXCEPT
             ![c].todo = Tail(@),
             ![c].used = @ + SizeOf(s, FormOf(contexts[c], s)),
             ![c].text = Append(@, [source |-> s, form |-> FormOf(contexts[c], s),
                                    size |-> SizeOf(s, FormOf(contexts[c], s))]),
             ![c].entries = Append(@, ReceiptEntry(s, FormOf(contexts[c], s))),
             ![c].keys = @ \cup Promised(s)]
        /\ available' = available \ Promised(s)
        /\ reserved' = reserved \cup Promised(s)
        /\ UNCHANGED <<held, summaries, structure, confirms, transmitted>>
  BY DEF Select
<1> DEFINE old == contexts[c]
           new == contexts'[c]
           block == [source |-> s, form |-> FormOf(old, s), size |-> SizeOf(s, FormOf(old, s))]
<1>2. old.phase = "compiling" /\ ContextOK(old)
  BY <1>1 DEF Compiling, ContextInv, ContextsOK
<1>3. Promised(s) \subseteq Secrets /\ Promised(s) = {s} \cap Secrets
  BY SizesAssumption DEF Promised, Secrets, Secret
<1>4. Promised(s) \subseteq available
  BY <1>1, SizesAssumption DEF Promised, Selectable, Confirmed, Secret
<1>5. Promised(s) \cap reserved = {}
  BY <1>4 DEF ContextInv, SetsOK
<1>6. SizeOf(s, FormOf(old, s)) \in Nat
  <2>1. CASE FormOf(old, s) = "compacted"
    <3>1. summaries[s] \in Summaries
      BY <2>1, <1>1 DEF FormOf, CurrentSummary, ContextInv, SetsOK
    <3>2. QED
      BY <3>1, <2>1, SizesAssumption DEF SizeOf
  <2>2. CASE FormOf(old, s) # "compacted"
    BY <2>2, <1>1, SizesAssumption DEF SizeOf
  <2>3. QED
    BY <2>1, <2>2
<1>7. block \in Block
  BY <1>6, <1>1 DEF Block, FormOf
<1>8. /\ new = [old EXCEPT !.todo = Tail(@), !.used = @ + SizeOf(s, FormOf(old, s)),
                  !.text = Append(@, block),
                  !.entries = Append(@, ReceiptEntry(s, FormOf(old, s))),
                  !.keys = @ \cup Promised(s)]
      /\ contexts' = [contexts EXCEPT ![c] = new]
  BY <1>1 DEF ContextInv, ContextsOK
<1>9. /\ new.phase = "compiling"
      /\ new.used = old.used + SizeOf(s, FormOf(old, s))
      /\ new.text = Append(old.text, block)
      /\ new.keys = old.keys \cup Promised(s)
      /\ IsContext(new)
  BY <1>8, <1>2 DEF ContextOK, IsContext
<1>10. ContextOK(new)
  <2>1. new.text \in Seq(Block) /\ SourcesIn(new.text) = SourcesIn(old.text) \cup {s}
    BY <1>9, <1>7, <1>2, AppendedSources DEF ContextOK
  <2>2. SourcesIn(new.text) \cap Secrets = new.keys
    BY <2>1, <1>2, <1>3, <1>9 DEF ContextOK, Unsent
  <2>3. new.used \in Nat
    BY <1>2, <1>6, <1>9 DEF ContextOK
  <2>4. new.keys \subseteq Secrets
    BY <1>2, <1>3, <1>9 DEF ContextOK
  <2>5. QED
    BY <2>1, <2>2, <2>3, <2>4, <1>9 DEF ContextOK, Unsent
<1>11. ContextsOK'
  BY <1>8, <1>10, ReplacedContext DEF ContextInv
<1>12. SetsOK'
  BY <1>1, <1>3, <1>4 DEF ContextInv, SetsOK
<1>13. Promises'
  <2>1. \A d \in Contexts \ {c} : contexts'[d] = contexts[d]
    BY <1>8 DEF ContextInv, ContextsOK
  <2>2. \A d \in Contexts : contexts'[d].keys \subseteq reserved'
    BY <2>1, <1>1, <1>9 DEF ContextInv, Promises
  <2>3. \A d \in Contexts \ {c} : contexts[d].keys \cap new.keys = {}
    BY <1>5, <1>9 DEF ContextInv, Promises
  <2>4. QED
    BY <2>1, <2>2, <2>3 DEF ContextInv, Promises
<1>14. CountsOK'
  BY <1>1, <1>3, <1>4, <1>5 DEF ContextInv, CountsOK, EachConfirmationOnce, Bit
<1>15. QED
  BY <1>11, <1>12, <1>13, <1>14 DEF ContextInv

\* Dropping a reservation moves what was promised back to what is available.
LEMMA DropInv ==
  ASSUME ContextInv, NEW c \in Contexts, DropReservation(c), NEW r, ContextOK(r), r.keys = {},
         contexts' = [contexts EXCEPT ![c] = r],
         UNCHANGED <<held, summaries, structure, confirms, transmitted>>
  PROVE  ContextInv'
<1>1. contexts[c].keys \subseteq reserved
  BY DEF ContextInv, Promises
<1>2. /\ reserved' = reserved \ contexts[c].keys
      /\ available' = available \cup contexts[c].keys
  BY <1>1 DEF DropReservation, GivenBack
<1>3. SetsOK'
  BY <1>1, <1>2 DEF ContextInv, SetsOK
<1>4. ContextsOK'
  BY ReplacedContext DEF ContextInv
<1>5. Promises'
  BY <1>2, PromisesShrink
<1>6. CountsOK'
  BY <1>1, <1>2 DEF ContextInv, SetsOK, CountsOK, EachConfirmationOnce, Bit
<1>7. QED
  BY <1>3, <1>4, <1>5, <1>6 DEF ContextInv

LEMMA HandoffInv ==
  ASSUME ContextInv, NEW c \in Contexts, Handoff(c)
  PROVE  ContextInv'
<1> DEFINE old == contexts[c]
           new == contexts'[c]
<1>1. old.phase = "ready" /\ ContextOK(old) /\ old.keys \subseteq reserved
  BY DEF Handoff, ContextInv, ContextsOK
<1>2. /\ new = [old EXCEPT !.phase = "sent", !.entries = Marked(@, old.keys), !.keys = {}]
      /\ contexts' = [contexts EXCEPT ![c] = new]
  BY DEF Handoff, ContextInv, ContextsOK
<1>3. new.phase = "sent" /\ new.used = old.used /\ new.text = old.text /\ new.keys = {} /\ IsContext(new)
  BY <1>1, <1>2 DEF ContextOK, IsContext
<1>4. ContextOK(new)
  BY <1>1, <1>3 DEF ContextOK, Unsent
<1>5. ContextsOK'
  BY <1>2, <1>4, ReplacedContext DEF ContextInv
<1>6. reserved' = reserved \ old.keys /\ UNCHANGED <<held, summaries, structure, available, confirms>>
  BY DEF Handoff
<1>7. SetsOK'
  BY <1>6 DEF ContextInv, SetsOK
<1>8. Promises'
  BY <1>2, <1>3, <1>6, PromisesShrink
<1>9. CountsOK'
  <2>1. \A s \in Secrets : s \in SourcesIn(old.text) <=> s \in old.keys
    BY <1>1 DEF ContextOK, Unsent
  <2>2. transmitted' = [s \in Secrets |-> transmitted[s] + (IF s \in old.keys THEN 1 ELSE 0)]
    BY <2>1 DEF Handoff
  <2>3. QED
    BY <2>2, <1>1, <1>6 DEF ContextInv, SetsOK, CountsOK, EachConfirmationOnce, Bit
<1>10. QED
  BY <1>5, <1>7, <1>8, <1>9 DEF ContextInv

\* A step that changes one context and leaves the confirmations alone.
LEMMA QuietInv ==
  ASSUME ContextInv, NEW c \in Contexts, NEW r, ContextOK(r), r.keys = contexts[c].keys,
         contexts' = [contexts EXCEPT ![c] = r],
         UNCHANGED <<held, summaries, structure, available, reserved, confirms, transmitted>>
  PROVE  ContextInv'
<1>1. ContextsOK'
  BY ReplacedContext DEF ContextInv
<1>2. Promises'
  BY PromisesShrink DEF ContextInv, Promises
<1>3. SetsOK' /\ CountsOK'
  BY DEF ContextInv, SetsOK, CountsOK, EachConfirmationOnce
<1>4. QED
  BY <1>1, <1>2, <1>3 DEF ContextInv

LEMMA CompileInv ==
  ASSUME ContextInv, NEW c \in Contexts, NEW request \in Requests, Compile(c, request)
  PROVE  ContextInv'
<1>1. contexts[c].keys = {}
  BY DEF Compile, ContextInv, ContextsOK, ContextOK, Unsent
<1>2. UNCHANGED <<held, summaries, structure, available, reserved, confirms, transmitted>>
  BY DEF Compile
<1>3. CASE ScopeResolves(structure, request, Scopes)
  <2> DEFINE r == contexts'[c]
  <2>1. /\ contexts' = [contexts EXCEPT ![c] = r]
        /\ r = [Idle EXCEPT !.phase = "compiling", !.request = request,
                            !.applicable = Applicable(request),
                            !.todo = TierOrder(Applicable(request))]
    BY <1>3 DEF Compile, ContextInv, ContextsOK
  <2>2. r.phase = "compiling" /\ r.used = 0 /\ r.text = <<>> /\ r.keys = {} /\ IsContext(r)
    BY <2>1 DEF Idle, IsContext
  <2>3. ContextOK(r)
    BY <2>2, EmptyText DEF ContextOK, Unsent
  <2>4. QED
    BY <1>1, <1>2, <2>1, <2>2, <2>3, QuietInv
<1>4. CASE ~ScopeResolves(structure, request, Scopes)
  <2> DEFINE r == contexts'[c]
  <2>1. /\ contexts' = [contexts EXCEPT ![c] = r]
        /\ r = [Idle EXCEPT !.phase = "failed", !.request = request, !.applicable = Sources,
                            !.entries = FailedReceipt(<<>>, Sources)]
    BY <1>4 DEF Compile, ContextInv, ContextsOK
  <2>2. r.phase = "failed" /\ r.used = 0 /\ r.text = <<>> /\ r.keys = {} /\ IsContext(r)
    BY <2>1 DEF Idle, IsContext
  <2>3. ContextOK(r)
    BY <2>2 DEF ContextOK, Unsent
  <2>4. QED
    BY <1>1, <1>2, <2>1, <2>2, <2>3, QuietInv
<1>5. QED
  BY <1>3, <1>4

LEMMA LeaveOutInv ==
  ASSUME ContextInv, NEW c \in Contexts, LeaveOut(c)
  PROVE  ContextInv'
<1>1. PICK s \in Sources :
        contexts' = [contexts EXCEPT ![c].todo = Tail(@),
                                     ![c].entries = Append(@, ReceiptEntry(s, "excluded"))]
  BY DEF LeaveOut
<1> DEFINE r == contexts'[c]
<1>2. /\ contexts' = [contexts EXCEPT ![c] = r]
      /\ r = [contexts[c] EXCEPT !.todo = Tail(@),
                                 !.entries = Append(@, ReceiptEntry(s, "excluded"))]
  BY <1>1 DEF ContextInv, ContextsOK
<1>3. ContextOK(r) /\ r.keys = contexts[c].keys
  <2>1. ContextOK(contexts[c])
    BY DEF ContextInv, ContextsOK
  <2>2. /\ r.phase = contexts[c].phase /\ r.used = contexts[c].used
        /\ r.text = contexts[c].text /\ r.keys = contexts[c].keys
        /\ IsContext(r)
    BY <1>2, <2>1 DEF ContextOK, IsContext
  <2>3. QED
    BY <2>1, <2>2 DEF ContextOK
<1>4. UNCHANGED <<held, summaries, structure, available, reserved, confirms, transmitted>>
  BY DEF LeaveOut
<1>5. QED
  BY <1>2, <1>3, <1>4, QuietInv

LEMMA FinishInv ==
  ASSUME ContextInv, NEW c \in Contexts, Finish(c)
  PROVE  ContextInv'
<1> DEFINE r == contexts'[c]
<1>1. /\ contexts' = [contexts EXCEPT ![c] = r]
      /\ r = [contexts[c] EXCEPT !.phase = "ready", !.entries = Sorted(@)]
  BY DEF Finish, ContextInv, ContextsOK
<1>2. ContextOK(r) /\ r.keys = contexts[c].keys
  <2>1. ContextOK(contexts[c]) /\ contexts[c].phase = "compiling"
    BY DEF Finish, ContextInv, ContextsOK
  <2>2. /\ r.phase = "ready" /\ r.used = contexts[c].used
        /\ r.text = contexts[c].text /\ r.keys = contexts[c].keys
        /\ IsContext(r)
    BY <1>1, <2>1 DEF ContextOK, IsContext
  <2>3. QED
    BY <2>1, <2>2 DEF ContextOK, Unsent
<1>3. UNCHANGED <<held, summaries, structure, available, reserved, confirms, transmitted>>
  BY DEF Finish
<1>4. QED
  BY <1>1, <1>2, <1>3, QuietInv

LEMMA StopInv ==
  ASSUME ContextInv, NEW c \in Contexts, Stop(c)
  PROVE  ContextInv'
<1>1. PICK receipt :
        contexts' = [contexts EXCEPT ![c].phase = "failed", ![c].todo = <<>>, ![c].text = <<>>,
                                     ![c].keys = {}, ![c].entries = receipt]
  <2>1. PICK s \in Sources :
          contexts' = [contexts EXCEPT
            ![c].phase = "failed", ![c].todo = <<>>, ![c].text = <<>>, ![c].keys = {},
            ![c].entries = FailedReceipt(Append(@, ReceiptEntry(s, "excluded")),
                                         contexts[c].applicable)]
    BY DEF Stop
  <2>2. contexts' = [contexts EXCEPT
            ![c].phase = "failed", ![c].todo = <<>>, ![c].text = <<>>, ![c].keys = {},
            ![c].entries = FailedReceipt(Append(contexts[c].entries, ReceiptEntry(s, "excluded")),
                                         contexts[c].applicable)]
    BY <2>1 DEF ContextInv, ContextsOK, ContextOK, IsContext
  <2>3. QED
    BY <2>2
<1> DEFINE r == contexts'[c]
<1>2. /\ contexts' = [contexts EXCEPT ![c] = r]
      /\ r = [contexts[c] EXCEPT !.phase = "failed", !.todo = <<>>, !.text = <<>>,
                                 !.keys = {}, !.entries = receipt]
  BY <1>1 DEF ContextInv, ContextsOK
<1>3. ContextOK(contexts[c])
  BY DEF ContextInv, ContextsOK
<1>4. ContextOK(r) /\ r.keys = {}
  <2>1. /\ r.phase = "failed" /\ r.used = contexts[c].used
        /\ r.text = <<>> /\ r.keys = {} /\ IsContext(r)
    BY <1>2, <1>3 DEF ContextOK, IsContext
  <2>2. QED
    BY <1>3, <2>1 DEF ContextOK, Unsent
<1>5. DropReservation(c) /\ UNCHANGED <<held, summaries, structure, confirms, transmitted>>
  BY DEF Stop
<1>6. QED
  BY <1>2, <1>4, <1>5, DropInv

LEMMA DiscardInv ==
  ASSUME ContextInv, NEW c \in Contexts, Discard(c)
  PROVE  ContextInv'
<1>1. ContextOK(Idle) /\ Idle.keys = {}
  BY EmptyText DEF ContextOK, IsContext, Idle, Unsent
<1>2. QED
  BY <1>1, DropInv DEF Discard

LEMMA NextInv == ContextInv /\ [Next]_vars => ContextInv'
<1> SUFFICES ASSUME ContextInv, [Next]_vars PROVE ContextInv'
  OBVIOUS
<1>1. ASSUME NEW s \in Secrets, ConfirmSecretTransmission(s) PROVE ContextInv'
  <2>1. SetsOK'
    BY <1>1 DEF ConfirmSecretTransmission, ContextInv, SetsOK
  <2>2. ContextsOK' /\ Promises'
    BY <1>1 DEF ConfirmSecretTransmission, ContextInv, ContextsOK, Promises
  <2>3. CountsOK'
    BY <1>1, ConfirmsAssumption
    DEF ConfirmSecretTransmission, ContextInv, SetsOK, CountsOK, EachConfirmationOnce, Bit
  <2>4. QED
    BY <2>1, <2>2, <2>3 DEF ContextInv
<1>2. ASSUME NEW summary \in Summaries, WithSummary(summary) PROVE ContextInv'
  <2>1. SetsOK'
    BY <1>2 DEF WithSummary, ContextInv, SetsOK
  <2>2. ContextsOK' /\ Promises' /\ CountsOK'
    BY <1>2 DEF WithSummary, ContextInv, ContextsOK, Promises, CountsOK, EachConfirmationOnce
  <2>3. QED
    BY <2>1, <2>2 DEF ContextInv
<1>3. ASSUME NEW st \in Structures, WithStructure(st) PROVE ContextInv'
  <2>1. SetsOK'
    BY <1>3 DEF WithStructure, ContextInv, SetsOK
  <2>2. ContextsOK' /\ Promises' /\ CountsOK'
    BY <1>3 DEF WithStructure, ContextInv, ContextsOK, Promises, CountsOK, EachConfirmationOnce
  <2>3. QED
    BY <2>1, <2>2 DEF ContextInv
<1>4. ASSUME NEW c \in Contexts,
             \/ \E request \in Requests : Compile(c, request)
             \/ Select(c) \/ LeaveOut(c) \/ Stop(c) \/ Finish(c) \/ Handoff(c) \/ Discard(c)
      PROVE  ContextInv'
  BY <1>4, CompileInv, SelectInv, LeaveOutInv, StopInv, FinishInv, HandoffInv, DiscardInv
<1>5. CASE UNCHANGED vars
  BY <1>5 DEF vars, ContextInv, SetsOK, ContextsOK, Promises, CountsOK, EachConfirmationOnce
<1>6. QED
  BY <1>1, <1>2, <1>3, <1>4, <1>5 DEF Next

--------------------------------------------------------------------------------
(****************************************************************************)
(* The theorems.                                                            *)
(****************************************************************************)

\* The types of the confirmations, contexts and counters.
THEOREM ContextTypes == Spec => []TypeOK
<1>1. ContextInv => TypeOK
  BY DEF ContextInv, SetsOK, ContextsOK, ContextOK, CountsOK, TypeOK
<1>2. QED
  BY <1>1, InitInv, NextInv, PTL DEF Spec

\* A confirmation is free, promised or spent: it never pays twice and is never lost.
THEOREM ConfirmationPaysOnce == Spec => []EachConfirmationOnce
<1>1. ContextInv => EachConfirmationOnce
  BY DEF ContextInv, CountsOK
<1>2. QED
  BY <1>1, InitInv, NextInv, PTL DEF Spec

\* No two unsent contexts carry the text of the same secret source.
THEOREM SecretInOneContext == Spec => []OneContextPerSecret
<1>1. ContextInv => OneContextPerSecret
  BY DEF ContextInv, ContextsOK, ContextOK, Promises, OneContextPerSecret, Unsent
<1>2. QED
  BY <1>1, InitInv, NextInv, PTL DEF Spec

--------------------------------------------------------------------------------
(****************************************************************************)
(* What holds of a context besides its promises: its receipt has a line     *)
(* for each applicable source, its text is within the budget and, while it  *)
(* is compiled, the needed sources come before the optional ones.           *)
(****************************************************************************)
Line ==
  {e \in [secret : BOOLEAN, shown : Nat, key : Sources,
          disposition : {"raw", "compacted", "excluded"}, sent : BOOLEAN] :
     e.secret = Secret(e.key) /\ e.shown = Shown(e.key)}

KeysIn(list) == {list[i].key : i \in DOMAIN list}

Once(list) == \A i, j \in DOMAIN list : list[i].key = list[j].key => i = j

\* As many lines of each kind as there are sources of it.
Like(s, sources) == {x \in sources : Secret(x) = Secret(s) /\ Shown(x) = Shown(s)}

Covers(list, sources) ==
  /\ Len(list) = Cardinality(sources)
  /\ \A s \in sources : Cardinality(EntriesShowing(list, s)) = Cardinality(Like(s, sources))

ReceiptOK(r) ==
  /\ r.entries \in Seq(Line)
  /\ \A i \in DOMAIN r.entries :
       r.entries[i].sent <=> /\ r.phase = "sent"
                             /\ r.entries[i].secret
                             /\ r.entries[i].key \in SourcesIn(r.text)
  /\ r.phase \in {"failed", "ready", "sent"} => Covers(r.entries, r.applicable)

BudgetOK(r) ==
  r.phase \in {"compiling", "ready", "sent"} =>
    /\ r.used = SumFunctionOnSet(Sizes(r.text), DOMAIN r.text)
    /\ r.used <= r.request.budget

\* What is still to do are the applicable sources that have no line yet, the needed ones first.
Ahead(r) ==
  /\ r.applicable \subseteq Sources
  /\ r.request.budget \in Nat
  /\ r.todo \in Seq(r.applicable)
  /\ \A i, j \in DOMAIN r.todo : r.todo[i] = r.todo[j] => i = j
  /\ \A i \in DOMAIN r.todo : r.todo[i] \notin KeysIn(r.entries)
  /\ \A s \in r.applicable : s \in KeysIn(r.entries) \/ \E i \in DOMAIN r.todo : r.todo[i] = s
  /\ \A i, j \in DOMAIN r.todo : i < j /\ r.todo[j] \in Needed(r) => r.todo[i] \in Needed(r)

\* Until the first optional source the text is as long as the needed ones in it.
Behind(r) ==
  /\ Once(r.entries)
  /\ KeysIn(r.entries) \subseteq r.applicable
  /\ SourcesIn(r.text) \subseteq KeysIn(r.entries)
  /\ \A i \in DOMAIN r.todo : r.todo[i] \in Needed(r) => KeysIn(r.entries) \subseteq Needed(r)
  /\ SourcesIn(r.text) \subseteq Needed(r) =>
       r.used = SumFunctionOnSet(NeededSizes(r), SourcesIn(r.text))

Wholly(r) ==
  /\ ReceiptOK(r)
  /\ BudgetOK(r)
  /\ r.phase = "compiling" => Ahead(r) /\ Behind(r)

CoverInv == \A c \in Contexts : Wholly(contexts[c])

\* Each member of a set is at one place of the list.
Arranges(list, S) ==
  /\ list \in Seq(S)
  /\ \A i, j \in 1 .. Len(list) : list[i] = list[j] => i = j
  /\ \A s \in S : \E i \in 1 .. Len(list) : list[i] = s

\* The places and values of one list after another.
LEMMA ListsJoined ==
  ASSUME NEW S, NEW a \in Seq(S), NEW b \in Seq(S)
  PROVE  /\ a \o b \in Seq(S)
         /\ Len(a) \in Nat /\ Len(b) \in Nat
         /\ Len(a \o b) = Len(a) + Len(b)
         /\ DOMAIN a = 1 .. Len(a) /\ DOMAIN b = 1 .. Len(b)
         /\ DOMAIN (a \o b) = 1 .. Len(a) + Len(b)
         /\ \A i \in 1 .. Len(a) : (a \o b)[i] = a[i]
         /\ \A i \in 1 .. Len(b) : (a \o b)[Len(a) + i] = b[i]
         /\ \A i \in 1 .. Len(a) + Len(b) :
              i \in 1 .. Len(a) \/ (i - Len(a) \in 1 .. Len(b) /\ (a \o b)[i] = b[i - Len(a)])
OBVIOUS

\* One arrangement after another is an arrangement of both sets.
LEMMA ArrangedAfter ==
  ASSUME NEW A, NEW B, A \cap B = {}, NEW a, NEW b, Arranges(a, A), Arranges(b, B)
  PROVE  /\ Arranges(a \o b, A \cup B)
         /\ \A i, j \in 1 .. Len(a \o b) : i < j /\ (a \o b)[j] \in A => (a \o b)[i] \in A
<1> DEFINE ab == a \o b
<1>1. a \in Seq(A \cup B) /\ b \in Seq(A \cup B)
  BY DEF Arranges
<1>2. /\ ab \in Seq(A \cup B)
      /\ Len(a) \in Nat /\ Len(b) \in Nat
      /\ Len(ab) = Len(a) + Len(b)
      /\ \A i \in 1 .. Len(a) : ab[i] = a[i]
      /\ \A i \in 1 .. Len(b) : ab[Len(a) + i] = b[i]
      /\ \A i \in 1 .. Len(a) + Len(b) :
           i \in 1 .. Len(a) \/ (i - Len(a) \in 1 .. Len(b) /\ ab[i] = b[i - Len(a)])
  BY <1>1, ListsJoined
<1> HIDE DEF ab
<1>3. /\ \A i \in 1 .. Len(a) : a[i] \in A
      /\ \A i \in 1 .. Len(b) : b[i] \in B
  BY DEF Arranges
<1>4. \A i \in 1 .. Len(ab) : (i \in 1 .. Len(a) /\ ab[i] = a[i] /\ ab[i] \in A /\ ab[i] \notin B)
         \/ (i > Len(a) /\ i - Len(a) \in 1 .. Len(b) /\ ab[i] = b[i - Len(a)] /\ ab[i] \in B /\ ab[i] \notin A)
  BY <1>2, <1>3
<1>5. ASSUME NEW i \in 1 .. Len(ab), NEW j \in 1 .. Len(ab), ab[i] = ab[j] PROVE i = j
  <2>1. CASE ab[i] \in A
    <3>1. i \in 1 .. Len(a) /\ j \in 1 .. Len(a) /\ a[i] = a[j]
      BY <1>4, <1>5, <2>1
    <3>2. QED  BY <3>1 DEF Arranges
  <2>2. CASE ab[i] \notin A
    <3>1. /\ i - Len(a) \in 1 .. Len(b) /\ j - Len(a) \in 1 .. Len(b)
          /\ b[i - Len(a)] = b[j - Len(a)]
      BY <1>4, <1>5, <2>2
    <3>2. i - Len(a) = j - Len(a)
      BY <3>1 DEF Arranges
    <3>3. QED  BY <1>2, <3>2
  <2>3. QED  BY <2>1, <2>2
<1>6. ASSUME NEW s \in A \cup B PROVE \E i \in 1 .. Len(ab) : ab[i] = s
  <2>1. CASE s \in A
    <3>1. PICK i \in 1 .. Len(a) : a[i] = s
      BY <2>1 DEF Arranges
    <3>2. i \in 1 .. Len(ab) /\ ab[i] = s
      BY <1>2, <3>1
    <3>3. QED  BY <3>2
  <2>2. CASE s \in B
    <3>1. PICK i \in 1 .. Len(b) : b[i] = s
      BY <2>2 DEF Arranges
    <3>2. Len(a) + i \in 1 .. Len(ab) /\ ab[Len(a) + i] = s
      BY <1>2, <3>1
    <3>3. QED  BY <3>2
  <2>3. QED  BY <2>1, <2>2
<1>7. Arranges(ab, A \cup B)
  BY <1>2, <1>5, <1>6 DEF Arranges
<1>8. \A i, j \in 1 .. Len(ab) : i < j /\ ab[j] \in A => ab[i] \in A
  BY <1>2, <1>4
<1>9. QED  BY <1>7, <1>8 DEF ab

LEMMA OrderIsFunction ==
  ASSUME NEW S, NEW n, n = Cardinality(S)
  PROVE  InOrder(S) = [k \in 1 .. n |-> InOrder(S)[k]]
BY SMTT(30) DEF InOrder

\* A set of numbers in their order.
LEMMA OrderArranges ==
  ASSUME NEW S, IsFiniteSet(S), S \subseteq Nat
  PROVE  /\ Arranges(InOrder(S), S)
         /\ Len(InOrder(S)) = Cardinality(S)
         /\ \A k \in 1 .. Cardinality(S) : Cardinality({x \in S : x < InOrder(S)[k]}) = k - 1
<1> DEFINE R == {p \in S \X S : p[1] < p[2]}
           rank == [s \in S |-> Cardinality({x \in S : x < s})]
           n == Cardinality(S)
           f == InOrder(S)
<1>1. StrictOrder(S, R)
  <2>1. \A x, y \in S : <<x, y>> \in R <=> x < y
    OBVIOUS
  <2>2. \A x \in S : x \in Nat
    OBVIOUS
  <2> HIDE DEF R
  <2>3. QED  BY <2>1, <2>2 DEF StrictOrder
<1>2. \A s \in S : rank[s] = Cardinality(Preceding(S, R, s))
  <2>1. \A s \in S : {x \in S : x < s} = Preceding(S, R, s)
    BY DEF Preceding
  <2>2. QED  BY <2>1
<1>3. Ranks(rank, S)
  <2> HIDE DEF R, rank
  <2>1. QED  BY <1>1, <1>2, RanksDiffer DEF Ranks
<1>4. ByRank(f, rank, S)
  <2>1. ASSUME NEW k \in 1 .. n, NEW s \in S, rank[s] = k - 1
        PROVE  f[k] \in S /\ rank[f[k]] = k - 1
    <3>1. \E t \in S : Cardinality({x \in S : x < t}) = k - 1
      BY <2>1
    <3>2. f[k] \in S /\ Cardinality({x \in S : x < f[k]}) = k - 1
      BY <3>1 DEF InOrder
    <3>3. QED  BY <3>2
  <2>2. QED  BY <2>1 DEF ByRank
<1>5. HasEachOnce(f, S) /\ n \in Nat /\ \A k \in 1 .. n : rank[f[k]] = k - 1
  <2> HIDE DEF rank, f
  <2>1. HasEachOnce(f, S) /\ \A k \in 1 .. n : rank[f[k]] = k - 1
    BY <1>3, <1>4, Ranking
  <2>2. QED  BY <2>1, FS_CardinalityType
<1>6. f = [k \in 1 .. n |-> f[k]]
  BY OrderIsFunction
<1> HIDE DEF f
<1>7. \A k \in 1 .. n : Cardinality({x \in S : x < f[k]}) = k - 1
  BY <1>5 DEF HasEachOnce
<1> HIDE DEF n
<1>8. f \in Seq(S) /\ Len(f) = n
  BY <1>5, <1>6 DEF HasEachOnce, n
<1>9. Arranges(f, S)
  BY <1>5, <1>8 DEF Arranges, HasEachOnce, n
<1>10. QED  BY <1>7, <1>8, <1>9 DEF f, n

LEMMA TiersArrange ==
  ASSUME NEW S, S \subseteq Sources
  PROVE  LET list == TierOrder(S)
         IN  /\ Arranges(list, S)
             /\ \A i, j \in 1 .. Len(list) :
                  i < j /\ Entry[list[j]].tier # "optional" => Entry[list[i]].tier # "optional"
<1> DEFINE Of1(t) == {s \in S : Entry[s].tier = t}
           need == Of1("required") \cup Of1("compactable")
           first == InOrder(Of1("required")) \o InOrder(Of1("compactable"))
<1>1. \A t : IsFiniteSet(Of1(t)) /\ Of1(t) \subseteq Nat
  BY SourcesAssumption, FS_Subset
<1>2. \A t : Arranges(InOrder(Of1(t)), Of1(t))
  BY <1>1, OrderArranges
<1>3. Arranges(first, need)
  <2>1. Of1("required") \cap Of1("compactable") = {}
    OBVIOUS
  <2> HIDE DEF Of1
  <2>2. QED  BY <1>2, <2>1, ArrangedAfter
<1>4. TierOrder(S) = first \o InOrder(Of1("optional"))
  BY DEF TierOrder
<1>5. need \cap Of1("optional") = {} /\ need \cup Of1("optional") = S
  BY EntryAssumption
<1>6. \A s \in S : s \in need <=> Entry[s].tier # "optional"
  BY EntryAssumption
<1> HIDE DEF first, need
<1>7. /\ Arranges(TierOrder(S), S)
      /\ \A i, j \in 1 .. Len(TierOrder(S)) :
           i < j /\ TierOrder(S)[j] \in need => TierOrder(S)[i] \in need
  <2> DEFINE last == InOrder(Of1("optional"))
  <2>1. Arranges(last, Of1("optional"))
    BY <1>2
  <2> HIDE DEF last, Of1
  <2>2. /\ Arranges(first \o last, need \cup Of1("optional"))
        /\ \A i, j \in 1 .. Len(first \o last) :
             i < j /\ (first \o last)[j] \in need => (first \o last)[i] \in need
    BY <1>3, <1>5, <2>1, ArrangedAfter
  <2>3. TierOrder(S) = first \o last
    BY <1>4 DEF last
  <2>4. QED  BY <1>5, <2>2, <2>3
<1>8. \A i \in 1 .. Len(TierOrder(S)) : TierOrder(S)[i] \in S
  BY <1>7 DEF Arranges
<1>9. QED  BY <1>6, <1>7, <1>8

--------------------------------------------------------------------------------
(****************************************************************************)
(* Sorting a receipt moves its lines and loses none: no two lines have the  *)
(* same place.                                                              *)
(****************************************************************************)
\* The order of two lines that are at two places of a receipt.
LEMMA BeforeIs ==
  ASSUME NEW e \in Line, NEW f \in Line
  PROVE  Before(e, f) <=> \/ e.secret = TRUE /\ f.secret = FALSE
                          \/ e.secret = f.secret /\ e.shown < f.shown
<1>1. e.secret \in BOOLEAN /\ f.secret \in BOOLEAN
  BY DEF Line
<1>2. CASE e.secret = f.secret
  BY <1>2 DEF Before
<1>3. CASE e.secret # f.secret
  <2>1. Before(e, f) <=> e.secret
    BY <1>3, Zenon DEF Before
  <2>2. CASE e.secret = TRUE
    <3>1. f.secret = FALSE
      BY <1>1, <1>3, <2>2
    <3>2. QED  BY <2>1, <2>2, <3>1
  <2>3. CASE e.secret = FALSE
    BY <1>3, <2>1, <2>3
  <2>4. QED  BY <1>1, <2>2, <2>3
<1>4. QED  BY <1>2, <1>3

Places(list) == {p \in (1 .. Len(list)) \X (1 .. Len(list)) :
                   Precedes(list[p[1]], list[p[2]], p[1], p[2])}

LEMMA PlacesOrdered ==
  ASSUME NEW list \in Seq(Line)
  PROVE  StrictOrder(1 .. Len(list), Places(list))
<1> DEFINE D == 1 .. Len(list)
<1>1. \A i \in D : i \in Nat /\ list[i] \in Line /\ list[i].secret \in BOOLEAN /\ list[i].shown \in Nat
  BY DEF Line
<1>2. \A i, j \in D : <<i, j>> \in Places(list) <=> Precedes(list[i], list[j], i, j)
  BY DEF Places
<1> DEFINE b == [i \in D |-> IF list[i].secret = TRUE THEN 0 ELSE 1]
           n == [i \in D |-> list[i].shown]
<1>3. \A i, j \in D : Before(list[i], list[j]) <=> b[i] < b[j] \/ (b[i] = b[j] /\ n[i] < n[j])
  <2> TAKE i, j \in D
  <2>1. Before(list[i], list[j]) <=>
          \/ list[i].secret = TRUE /\ list[j].secret = FALSE
          \/ list[i].secret = list[j].secret /\ list[i].shown < list[j].shown
    BY <1>1, BeforeIs
  <2>2. /\ b[i] = IF list[i].secret = TRUE THEN 0 ELSE 1
        /\ b[j] = IF list[j].secret = TRUE THEN 0 ELSE 1
        /\ n[i] = list[i].shown /\ n[j] = list[j].shown
    OBVIOUS
  <2> HIDE DEF b, n
  <2>3. CASE list[i].secret = TRUE /\ list[j].secret = TRUE
    <3>1. list[i].secret = list[j].secret /\ ~(list[j].secret = FALSE)
      BY <2>3, Zenon
    <3>2. Before(list[i], list[j]) <=> list[i].shown < list[j].shown
      BY <2>1, <3>1, Zenon
    <3>3. b[i] = 0 /\ b[j] = 0
      BY <2>2, <2>3
    <3>4. QED  BY <2>2, <3>2, <3>3
  <2>4. CASE list[i].secret = TRUE /\ list[j].secret = FALSE
    BY <2>1, <2>2, <2>4
  <2>5. CASE list[i].secret = FALSE /\ list[j].secret = TRUE
    BY <2>1, <2>2, <2>5
  <2>6. CASE list[i].secret = FALSE /\ list[j].secret = FALSE
    <3>1. list[i].secret = list[j].secret /\ ~(list[i].secret = TRUE) /\ ~(list[j].secret = TRUE)
      BY <2>6, Zenon
    <3>2. Before(list[i], list[j]) <=> list[i].shown < list[j].shown
      BY <2>1, <3>1, Zenon
    <3>3. b[i] = 1 /\ b[j] = 1
      BY <2>2, <3>1, Zenon
    <3>4. QED  BY <2>2, <3>2, <3>3
  <2>7. QED  BY <1>1, <2>3, <2>4, <2>5, <2>6
<1>4. \A i \in D : b[i] \in Nat /\ n[i] \in Nat /\ i \in Nat
  BY <1>1
<1> HIDE DEF b, n
<1>5. \A i, j \in D : <<i, j>> \in Places(list) <=>
        \/ b[i] < b[j]
        \/ b[i] = b[j] /\ n[i] < n[j]
        \/ b[i] = b[j] /\ n[i] = n[j] /\ i < j
  <2> TAKE i, j \in D
  <2>1. <<i, j>> \in Places(list) <=>
          Before(list[i], list[j]) \/ (~Before(list[j], list[i]) /\ i < j)
    BY <1>2, Zenon DEF Precedes
  <2>2. /\ Before(list[i], list[j]) <=> b[i] < b[j] \/ (b[i] = b[j] /\ n[i] < n[j])
        /\ Before(list[j], list[i]) <=> b[j] < b[i] \/ (b[j] = b[i] /\ n[j] < n[i])
    BY <1>3
  <2>3. b[i] \in Nat /\ b[j] \in Nat /\ n[i] \in Nat /\ n[j] \in Nat /\ i \in Nat /\ j \in Nat
    BY <1>4
  <2>4. QED  BY <2>1, <2>2, <2>3
<1> HIDE DEF D
<1>6. \A x \in D : ~(<<x, x>> \in Places(list))
  BY <1>4, <1>5
<1>7. ASSUME NEW x \in D, NEW y \in D, NEW z \in D,
             <<x, y>> \in Places(list), <<y, z>> \in Places(list)
      PROVE  <<x, z>> \in Places(list)
  <2>1. \/ b[x] < b[y]
        \/ b[x] = b[y] /\ n[x] < n[y]
        \/ b[x] = b[y] /\ n[x] = n[y] /\ x < y
    BY <1>5, <1>7
  <2>2. \/ b[y] < b[z]
        \/ b[y] = b[z] /\ n[y] < n[z]
        \/ b[y] = b[z] /\ n[y] = n[z] /\ y < z
    BY <1>5, <1>7
  <2>3. /\ b[x] \in Nat /\ b[y] \in Nat /\ b[z] \in Nat /\ n[x] \in Nat /\ n[y] \in Nat /\ n[z] \in Nat
        /\ x \in Nat /\ y \in Nat /\ z \in Nat
    BY <1>4
  <2>4. \/ b[x] < b[z]
        \/ b[x] = b[z] /\ n[x] < n[z]
        \/ b[x] = b[z] /\ n[x] = n[z] /\ x < z
    BY <2>1, <2>2, <2>3
  <2>5. QED  BY <1>5, <2>4
<1>8. ASSUME NEW x \in D, NEW y \in D PROVE x = y \/ <<x, y>> \in Places(list) \/ <<y, x>> \in Places(list)
  <2>1. /\ b[x] \in Nat /\ b[y] \in Nat /\ n[x] \in Nat /\ n[y] \in Nat /\ x \in Nat /\ y \in Nat
    BY <1>4
  <2>2. \/ x = y
        \/ \/ b[x] < b[y]
           \/ b[x] = b[y] /\ n[x] < n[y]
           \/ b[x] = b[y] /\ n[x] = n[y] /\ x < y
        \/ \/ b[y] < b[x]
           \/ b[y] = b[x] /\ n[y] < n[x]
           \/ b[y] = b[x] /\ n[y] = n[x] /\ y < x
    BY <2>1
  <2>3. QED  BY <1>5, <2>2
<1>9. QED  BY <1>6, <1>7, <1>8 DEF StrictOrder, D

\* A sorted receipt has the lines of the receipt at other places.
LEMMA SortedPermutes ==
  ASSUME NEW list \in Seq(Line)
  PROVE  \E p : /\ p \in [1 .. Len(list) -> 1 .. Len(list)]
                /\ \A i, j \in 1 .. Len(list) : p[i] = p[j] => i = j
                /\ \A x \in 1 .. Len(list) : \E k \in 1 .. Len(list) : p[k] = x
                /\ Sorted(list) = [k \in 1 .. Len(list) |-> list[p[k]]]
<1> DEFINE D == 1 .. Len(list)
           R == Places(list)
           rank == [i \in D |-> Cardinality(Preceding(D, R, i))]
           C(k) == CHOOSE i \in D : Cardinality({j \in D : Precedes(list[j], list[i], j, i)}) = k - 1
           p == [k \in D |-> C(k)]
<1>1. Len(list) \in Nat /\ DOMAIN list = D
  OBVIOUS
<1>2. IsFiniteSet(D) /\ Cardinality(D) = Len(list)
  BY <1>1, FS_Interval
<1>3. StrictOrder(D, R)
  BY PlacesOrdered
<1>4. \A i \in D : Preceding(D, R, i) = {j \in D : Precedes(list[j], list[i], j, i)}
  BY DEF Preceding, Places
<1> HIDE DEF D, R
<1>5. Ranks(rank, D)
  BY <1>2, <1>3, RanksDiffer DEF Ranks
<1>6. ByRank(p, rank, D)
  <2>1. ASSUME NEW k \in D, NEW s \in D, rank[s] = k - 1
        PROVE  p[k] \in D /\ rank[p[k]] = k - 1
    <3>1. \E t \in D : Cardinality({j \in D : Precedes(list[j], list[t], j, t)}) = k - 1
      BY <1>4, <2>1
    <3>2. /\ p[k] \in D
          /\ Cardinality({j \in D : Precedes(list[j], list[p[k]], j, p[k])}) = k - 1
      BY <3>1
    <3>3. QED  BY <1>4, <3>2
  <2> HIDE DEF rank, p
  <2>2. QED  BY <1>2, <2>1 DEF ByRank, D
<1>7. HasEachOnce(p, D)
  <2> HIDE DEF rank, p
  <2>1. QED  BY <1>2, <1>5, <1>6, Ranking
<1>8. Sorted(list) = [k \in D |-> list[C(k)]]
  BY <1>1 DEF Sorted
<1> HIDE DEF C
<1>9. Sorted(list) = [k \in D |-> list[p[k]]]
  BY <1>8
<1>10. p \in [D -> D]
  <2>1. \A k \in D : p[k] \in D
    BY <1>2, <1>7 DEF HasEachOnce, D
  <2>2. QED  BY <2>1
<1> HIDE DEF p
<1>11. /\ \A i, j \in D : p[i] = p[j] => i = j
       /\ \A x \in D : \E k \in D : p[k] = x
  BY <1>2, <1>7 DEF HasEachOnce, D
<1>12. QED
  BY <1>9, <1>10, <1>11, Zenon DEF D

--------------------------------------------------------------------------------
(****************************************************************************)
(* Lines are counted by what they show, which several secret sources may    *)
(* have in common.                                                          *)
(****************************************************************************)
\* The lines that show a source are those of the sources that look like it.
LEMMA ShowingIs ==
  ASSUME NEW list \in Seq(Line), NEW s \in Sources
  PROVE  /\ IsFiniteSet(EntriesShowing(list, s))
         /\ EntriesShowing(list, s) = {i \in 1 .. Len(list) : list[i].key \in Like(s, Sources)}
         /\ \A i \in 1 .. Len(list) : list[i] \in Line /\ list[i].key \in Sources
<1>1. DOMAIN list = 1 .. Len(list) /\ Len(list) \in Nat
  OBVIOUS
<1>2. \A i \in 1 .. Len(list) :
        /\ list[i] \in Line
        /\ list[i].key \in Sources
        /\ list[i].secret = Secret(list[i].key)
        /\ list[i].shown = Shown(list[i].key)
  BY DEF Line
<1>3. EntriesShowing(list, s) = {i \in 1 .. Len(list) : list[i].key \in Like(s, Sources)}
  BY <1>1, <1>2, Zenon DEF EntriesShowing, Like
<1>4. IsFiniteSet(1 .. Len(list)) /\ EntriesShowing(list, s) \in SUBSET (1 .. Len(list))
  BY <1>1, <1>3, FS_Interval
<1>5. IsFiniteSet(EntriesShowing(list, s))
  BY <1>4, FS_Subset
<1>6. QED  BY <1>2, <1>3, <1>5

\* A receipt with one line of each source covers them.
LEMMA OneLineEach ==
  ASSUME NEW list \in Seq(Line), NEW S, S \subseteq Sources, Once(list), KeysIn(list) = S
  PROVE  Covers(list, S)
<1>1. DOMAIN list = 1 .. Len(list) /\ Len(list) \in Nat
  OBVIOUS
<1>2. /\ \A i \in 1 .. Len(list) : list[i].key \in S
      /\ \A i, j \in 1 .. Len(list) : list[i].key = list[j].key => i = j
      /\ \A s \in S : \E i \in 1 .. Len(list) : list[i].key = s
  BY <1>1 DEF Once, KeysIn
<1>3. Len(list) = Cardinality(S)
  <2> DEFINE f == [i \in 1 .. Len(list) |-> list[i].key]
  <2>1. /\ f \in [1 .. Len(list) -> S]
        /\ \A i, j \in 1 .. Len(list) : f[i] = f[j] => i = j
        /\ \A s \in S : \E i \in 1 .. Len(list) : f[i] = s
    BY <1>2
  <2>2. IsFiniteSet(1 .. Len(list)) /\ Cardinality(1 .. Len(list)) = Len(list)
    BY <1>1, FS_Interval
  <2> HIDE DEF f
  <2>3. OneToOne(f, 1 .. Len(list), S)
    BY <2>1 DEF OneToOne
  <2>4. QED  BY <2>2, <2>3, CountedBy
<1>4. ASSUME NEW s \in S
      PROVE  Cardinality(EntriesShowing(list, s)) = Cardinality(Like(s, S))
  <2> DEFINE E == EntriesShowing(list, s)
             f == [i \in E |-> list[i].key]
  <2>1. IsFiniteSet(E) /\ E = {i \in 1 .. Len(list) : list[i].key \in Like(s, Sources)}
    BY ShowingIs
  <2>2. \A x \in S : x \in Like(s, S) <=> x \in Like(s, Sources)
    BY DEF Like
  <2>3. Like(s, S) \subseteq S
    BY DEF Like
  <2> HIDE DEF E
  <2>4. f \in [E -> Like(s, S)]
    BY <1>2, <2>1, <2>2
  <2>5. \A i, j \in E : f[i] = f[j] => i = j
    BY <1>2, <2>1
  <2>6. \A x \in Like(s, S) : \E i \in E : f[i] = x
    BY <1>2, <2>1, <2>2, <2>3
  <2> HIDE DEF f
  <2>7. Cardinality(Like(s, S)) = Cardinality(E)
    <3>1. OneToOne(f, E, Like(s, S))
      BY <2>4, <2>5, <2>6 DEF OneToOne
    <3>2. QED  BY <2>1, <3>1, CountedBy
  <2>8. QED  BY <2>7 DEF E
<1>5. QED  BY <1>3, <1>4 DEF Covers

\* A sorted receipt covers what the receipt covers.
LEMMA SortedCovers ==
  ASSUME NEW list \in Seq(Line)
  PROVE  /\ Sorted(list) \in Seq(Line)
         /\ \A k \in DOMAIN Sorted(list) : \E i \in DOMAIN list : Sorted(list)[k] = list[i]
         /\ \A S \in SUBSET Sources : Covers(list, S) => Covers(Sorted(list), S)
<1> DEFINE D == 1 .. Len(list)
           new == Sorted(list)
<1>1. PICK p : /\ p \in [D -> D]
               /\ \A i, j \in D : p[i] = p[j] => i = j
               /\ \A x \in D : \E k \in D : p[k] = x
               /\ new = [k \in D |-> list[p[k]]]
  BY SortedPermutes
<1>2. DOMAIN list = D /\ Len(list) \in Nat
  OBVIOUS
<1> HIDE DEF new
<1>3. \A i \in D : list[i] \in Line
  OBVIOUS
<1>4. new \in Seq(Line) /\ Len(new) = Len(list) /\ DOMAIN new = D
  <2>1. new \in [1 .. Len(list) -> Line]
    BY <1>1, <1>3
  <2>2. QED  BY <1>2, <2>1
<1> HIDE DEF D
<1>5. \A k \in D : p[k] \in D /\ new[k] = list[p[k]]
  BY <1>1
<1>6. ASSUME NEW s \in Sources
      PROVE  Cardinality(EntriesShowing(new, s)) = Cardinality(EntriesShowing(list, s))
  <2> DEFINE E == EntriesShowing(new, s)
             F == EntriesShowing(list, s)
             f == [k \in E |-> p[k]]
  <2>1. /\ IsFiniteSet(E)
        /\ E = {k \in D : new[k].key \in Like(s, Sources)}
        /\ F = {k \in D : list[k].key \in Like(s, Sources)}
    BY <1>4, ShowingIs DEF D
  <2> HIDE DEF E, F
  <2>2. \A k \in D : k \in E <=> p[k] \in F
    BY <1>5, <2>1
  <2>3. E \subseteq D /\ F \subseteq D
    BY <2>1
  <2>4. f \in [E -> F] /\ \A i, j \in E : f[i] = f[j] => i = j
    BY <1>1, <2>2, <2>3
  <2>5. \A x \in F : \E k \in E : f[k] = x
    BY <1>1, <2>2, <2>3
  <2> HIDE DEF f
  <2>6. Cardinality(F) = Cardinality(E)
    <3>1. OneToOne(f, E, F)
      BY <2>4, <2>5 DEF OneToOne
    <3>2. QED  BY <2>1, <3>1, CountedBy
  <2>7. QED  BY <2>6 DEF E, F
<1>7. ASSUME NEW S \in SUBSET Sources, Covers(list, S) PROVE Covers(new, S)
  BY <1>4, <1>6, <1>7 DEF Covers
<1>8. QED  BY <1>2, <1>4, <1>5, <1>7 DEF new

\* Marking what was sent changes neither the sources of the lines nor what they show.
LEMMA MarkedCovers ==
  ASSUME NEW list \in Seq(Line), NEW keys
  PROVE  /\ Marked(list, keys) \in Seq(Line)
         /\ DOMAIN Marked(list, keys) = DOMAIN list
         /\ \A i \in DOMAIN list :
              /\ Marked(list, keys)[i].secret = list[i].secret
              /\ Marked(list, keys)[i].key = list[i].key
              /\ Marked(list, keys)[i].sent = (list[i].secret /\ list[i].key \in keys)
         /\ \A S : Covers(list, S) => Covers(Marked(list, keys), S)
<1> DEFINE new == Marked(list, keys)
           D == 1 .. Len(list)
<1>1. DOMAIN list = D /\ Len(list) \in Nat /\ \A i \in D : list[i] \in Line
  OBVIOUS
<1>2. \A i \in D : new[i] = [list[i] EXCEPT !.sent = list[i].secret /\ list[i].key \in keys]
  BY <1>1 DEF Marked
<1>3. new = [i \in D |-> new[i]]
  BY <1>1 DEF Marked
<1> HIDE DEF new
<1>4. \A i \in D : /\ new[i] \in Line
                   /\ new[i].secret = list[i].secret /\ new[i].shown = list[i].shown
                   /\ new[i].key = list[i].key
                   /\ new[i].sent = (list[i].secret /\ list[i].key \in keys)
  <2> TAKE i \in D
  <2> DEFINE b == (list[i].secret /\ list[i].key \in keys)
  <2>1. b \in BOOLEAN
    OBVIOUS
  <2>2. new[i] = [list[i] EXCEPT !.sent = b]
    BY <1>2
  <2> HIDE DEF b
  <2>3. list[i] \in Line
    BY <1>1
  <2>4. /\ new[i] \in Line
        /\ new[i].secret = list[i].secret /\ new[i].shown = list[i].shown
        /\ new[i].key = list[i].key
        /\ new[i].sent = b
    BY <2>1, <2>2, <2>3 DEF Line
  <2>5. QED  BY <2>4 DEF b
<1>5. new \in Seq(Line) /\ Len(new) = Len(list) /\ DOMAIN new = D
  <2>1. new \in [1 .. Len(list) -> Line]
    BY <1>3, <1>4
  <2>2. QED  BY <1>1, <2>1
<1>6. ASSUME NEW s PROVE EntriesShowing(new, s) = EntriesShowing(list, s)
  <2> HIDE DEF D
  <2>1. QED  BY <1>1, <1>4, <1>5 DEF EntriesShowing
<1>7. ASSUME NEW S, Covers(list, S) PROVE Covers(new, S)
  <2>1. Len(list) = Cardinality(S)
    BY <1>7 DEF Covers
  <2>2. \A s \in S : Cardinality(EntriesShowing(new, s)) = Cardinality(Like(s, S))
    BY <1>6, <1>7 DEF Covers
  <2>3. QED  BY <1>5, <2>1, <2>2 DEF Covers
<1>8. QED  BY <1>1, <1>4, <1>5, <1>7 DEF new

--------------------------------------------------------------------------------
(****************************************************************************)
(* A failed receipt adds, for each hash, as many lines as are missing.       *)
(****************************************************************************)
\* All but the first a members of a set of numbers.
LEMMA AfterTheFirst ==
  ASSUME NEW L, IsFiniteSet(L), L \subseteq Nat, NEW a \in Nat, a <= Cardinality(L)
  PROVE  Cardinality({x \in L : Cardinality({y \in L : y <= x}) > a}) = Cardinality(L) - a
<1> DEFINE f == InOrder(L)
           n == Cardinality(L)
           upto == [x \in L |-> Cardinality({y \in L : y <= x})]
           T == {x \in L : upto[x] <= a}
<1>1. /\ Arranges(f, L) /\ Len(f) = n
      /\ \A k \in 1 .. n : Cardinality({x \in L : x < f[k]}) = k - 1
  BY OrderArranges
<1> HIDE DEF f
<1>2. n \in Nat
  BY FS_CardinalityType
<1>3. ASSUME NEW k \in 1 .. n PROVE f[k] \in L /\ upto[f[k]] = k
  <2>1. f[k] \in L
    BY <1>1, <1>2 DEF Arranges
  <2> DEFINE v == f[k]
             low == {x \in L : x < v}
  <2>2. v \in L /\ v \in Nat /\ Cardinality(low) = k - 1
    BY <1>1, <2>1
  <2> HIDE DEF v
  <2>3. {y \in L : y <= v} = low \cup {v}
    <3>1. \A y \in L : y <= v <=> y < v \/ y = v
      <4> TAKE y \in L
      <4>1. y \in Nat /\ v \in Nat
        BY <2>2
      <4>2. QED  BY <4>1
    <3>2. QED  BY <2>2, <3>1
  <2>4. IsFiniteSet(low) /\ v \notin low
    BY <2>2, FS_Subset
  <2> HIDE DEF low
  <2>5. Cardinality(low \cup {v}) = (k - 1) + 1
    BY <2>2, <2>4, FS_AddElement
  <2>6. (k - 1) + 1 = k
    BY <1>2
  <2>7. QED  BY <2>2, <2>3, <2>5, <2>6 DEF v
<1>4. /\ \A i, j \in 1 .. n : f[i] = f[j] => i = j
      /\ \A x \in L : \E k \in 1 .. n : f[k] = x
  BY <1>1 DEF Arranges
<1>5. {x \in L : Cardinality({y \in L : y <= x}) > a} = L \ T
  <2>1. \A x \in L : upto[x] \in Nat
    BY FS_Subset, FS_CardinalityType
  <2> HIDE DEF upto
  <2>2. \A x \in L : upto[x] > a <=> ~(upto[x] <= a)
    BY <2>1
  <2>3. QED  BY <2>2 DEF upto
<1> HIDE DEF upto, n
<1>6. Cardinality(T) = a
  <2> DEFINE g == [k \in 1 .. a |-> f[k]]
  <2>0. \A k \in 1 .. a : k \in 1 .. n
    BY <1>2 DEF n
  <2>1. g \in [1 .. a -> T]
    BY <1>3, <2>0
  <2>2. \A i, j \in 1 .. a : g[i] = g[j] => i = j
    BY <1>4, <2>0
  <2>3. ASSUME NEW x \in T PROVE \E k \in 1 .. a : g[k] = x
    <3>1. PICK k \in 1 .. n : f[k] = x
      BY <1>4
    <3>2. k <= a
      BY <1>3, <3>1
    <3>3. k \in 1 .. a
      BY <1>2, <3>2
    <3>4. QED  BY <3>1, <3>3
  <2>4. OneToOne(g, 1 .. a, T)
    BY <2>1, <2>2, <2>3 DEF OneToOne
  <2>5. IsFiniteSet(1 .. a) /\ Cardinality(1 .. a) = a
    BY FS_Interval
  <2> HIDE DEF T, g
  <2>6. QED  BY <2>4, <2>5, CountedBy
<1>7. L \cap T = T
  OBVIOUS
<1> HIDE DEF T
<1>8. Cardinality(L \ T) = Cardinality(L) - a
  BY <1>6, <1>7, FS_Difference, ZenonT(30)
<1>9. QED  BY <1>5, <1>8

\* A line of a receipt.
LEMMA LineOf ==
  ASSUME NEW s \in Sources, NEW d \in {"raw", "compacted", "excluded"}
  PROVE  /\ ReceiptEntry(s, d) \in Line
         /\ ReceiptEntry(s, d).key = s
         /\ ReceiptEntry(s, d).sent = FALSE
<1>1. Secret(s) \in BOOLEAN /\ Shown(s) \in Nat
  BY SizesAssumption, EntryAssumption, SourcesAssumption DEF Secret, Shown
<1>2. QED  BY <1>1 DEF ReceiptEntry, Line

\* The sources that a failed receipt adds are those of each kind that have no line yet.
LEMMA MissingOnes ==
  ASSUME NEW list \in Seq(Line), NEW S \in SUBSET Sources, Once(list), KeysIn(list) \subseteq S,
         NEW s \in S
  PROVE  Cardinality(Unaccounted(list, S) \cap Like(s, S))
           = Cardinality(Like(s, S)) - Cardinality(EntriesShowing(list, s))
<1> DEFINE L == Like(s, S)
           a == Cardinality(EntriesShowing(list, s))
<1>1. IsFiniteSet(S) /\ S \subseteq Nat /\ L \subseteq S /\ IsFiniteSet(L)
  BY SourcesAssumption, FS_Subset DEF Like
<1>2. DOMAIN list = 1 .. Len(list)
  OBVIOUS
<1>3. a \in Nat /\ a <= Cardinality(L)
  <2> DEFINE E == EntriesShowing(list, s)
             f == [i \in E |-> list[i].key]
  <2>1. IsFiniteSet(E) /\ E = {i \in 1 .. Len(list) : list[i].key \in Like(s, Sources)}
    BY ShowingIs
  <2>2. a \in Nat
    BY <2>1, FS_CardinalityType
  <2>3. \A i \in 1 .. Len(list) : list[i].key \in S
    BY <1>2 DEF KeysIn
  <2>4. \A x \in S : x \in L <=> x \in Like(s, Sources)
    BY DEF Like
  <2> HIDE DEF E, L
  <2>5. f \in [E -> L]
    BY <2>1, <2>3, <2>4
  <2>6. IsInjective(f)
    BY <1>2, <2>1 DEF Once, IsInjective
  <2>7. f \in Injection(E, L)
    BY <2>5, <2>6 DEF Injection
  <2> HIDE DEF f
  <2>8. Cardinality(E) <= Cardinality(L)
    BY <1>1, <2>7, FS_Injection
  <2>9. QED  BY <2>2, <2>8 DEF E
<1>4. \A x \in L : /\ EntriesShowing(list, x) = EntriesShowing(list, s)
                   /\ {y \in S : Secret(y) = Secret(x) /\ Shown(y) = Shown(x) /\ y <= x}
                        = {y \in L : y <= x}
  BY Zenon DEF Like, EntriesShowing
<1>5. Unaccounted(list, S) \cap L = {x \in L : Cardinality({y \in L : y <= x}) > a}
  <2>1. \A x \in L : x \in Unaccounted(list, S) <=> Cardinality({y \in L : y <= x}) > a
    <3> TAKE x \in L
    <3>1. x \in S
      BY <1>1
    <3>2. x \in Unaccounted(list, S) <=>
            Cardinality({y \in S : Secret(y) = Secret(x) /\ Shown(y) = Shown(x) /\ y <= x})
              > Cardinality(EntriesShowing(list, x))
      BY <3>1, Zenon DEF Unaccounted
    <3>3. QED  BY <1>4, <3>2
  <2> HIDE DEF L, a
  <2>2. QED  BY <2>1
<1> HIDE DEF L, a
<1>6. L \subseteq Nat
  BY <1>1
<1>7. Cardinality({x \in L : Cardinality({y \in L : y <= x}) > a}) = Cardinality(L) - a
  BY <1>1, <1>3, <1>6, AfterTheFirst
<1>8. QED  BY <1>5, <1>7 DEF L, a

\* What a compilation that stopped has lines of, with those it adds, in the order they are added.
LEMMA AddedLines ==
  ASSUME NEW list \in Seq(Line), NEW S \in SUBSET Sources, Once(list), KeysIn(list) \subseteq S
  PROVE  LET rest == InOrder(Unaccounted(list, S))
             total == list \o [i \in DOMAIN rest |-> ReceiptEntry(rest[i], "excluded")]
         IN  /\ total \in Seq(Line)
             /\ KeysIn(total) \subseteq S
             /\ \A i \in DOMAIN total : total[i].sent = FALSE \/ \E j \in DOMAIN list : total[i] = list[j]
             /\ \A s \in S : Cardinality(EntriesShowing(total, s)) = Cardinality(Like(s, S))
<1> DEFINE U == Unaccounted(list, S)
           rest == InOrder(U)
           n == Len(list)
           m == Cardinality(U)
           added == [i \in DOMAIN rest |-> ReceiptEntry(rest[i], "excluded")]
           total == list \o added
<1>1. U \in SUBSET S /\ U \subseteq Sources /\ IsFiniteSet(U) /\ U \subseteq Nat
  BY SourcesAssumption, FS_Subset DEF Unaccounted
<1>2. Arranges(rest, U) /\ Len(rest) = m /\ m \in Nat
  BY <1>1, OrderArranges, FS_CardinalityType
<1> HIDE DEF rest, U, m
<1>3. DOMAIN rest = 1 .. m /\ \A i \in 1 .. m : rest[i] \in U
  BY <1>2 DEF Arranges
<1>4. \A i \in 1 .. m : added[i] \in Line /\ added[i].key = rest[i] /\ added[i].sent = FALSE
  BY <1>1, <1>3, LineOf
<1>5. added \in Seq(Line) /\ Len(added) = m
  <2>1. added \in [1 .. m -> Line]
    BY <1>3, <1>4
  <2> HIDE DEF added
  <2>2. QED  BY <1>2, <2>1
<1> HIDE DEF added
<1>6. n \in Nat /\ DOMAIN list = 1 .. n /\ (\A i \in 1 .. n : list[i] \in Line) /\ list \in Seq(Line)
  OBVIOUS
<1> HIDE DEF n
<1>7. /\ total \in Seq(Line)
      /\ DOMAIN total = 1 .. n + m /\ Len(total) = n + m
      /\ \A i \in 1 .. n : total[i] = list[i]
      /\ \A i \in 1 .. m : total[n + i] = added[i]
      /\ \A i \in 1 .. n + m :
           i \in 1 .. n \/ (i - n \in 1 .. m /\ total[i] = added[i - n])
  BY <1>5, <1>6, ListsJoined DEF n
<1> HIDE DEF total
<1>8. KeysIn(total) \subseteq S
  <2>1. \A i \in 1 .. n : list[i].key \in S
    BY <1>6 DEF KeysIn
  <2>2. \A i \in 1 .. m : added[i].key \in S
    BY <1>1, <1>3, <1>4
  <2>3. \A i \in 1 .. n + m : total[i].key \in S
    BY <1>7, <2>1, <2>2
  <2>4. QED  BY <1>7, <2>3 DEF KeysIn
<1>9. ASSUME NEW i \in DOMAIN total
      PROVE  total[i].sent = FALSE \/ \E j \in DOMAIN list : total[i] = list[j]
  <2>1. CASE i \in 1 .. n
    BY <1>6, <1>7, <2>1
  <2>2. CASE i \notin 1 .. n
    <3>1. i - n \in 1 .. m /\ total[i] = added[i - n]
      BY <1>7, <2>2
    <3>2. QED  BY <1>4, <3>1
  <2>3. QED  BY <2>1, <2>2
<1>10. ASSUME NEW s \in S
       PROVE  Cardinality(EntriesShowing(total, s)) = Cardinality(Like(s, S))
  <2> DEFINE A == EntriesShowing(list, s)
             B == {k \in (n + 1) .. (n + m) : rest[k - n] \in Like(s, S)}
             V == U \cap Like(s, S)
             f == [k \in B |-> rest[k - n]]
  <2>1. Cardinality(V) = Cardinality(Like(s, S)) - Cardinality(A)
    BY MissingOnes DEF U
  <2>2. /\ IsFiniteSet(A)
        /\ A = {i \in 1 .. n : list[i].key \in Like(s, Sources)}
        /\ EntriesShowing(total, s) = {i \in 1 .. n + m : total[i].key \in Like(s, Sources)}
    BY <1>6, <1>7, ShowingIs DEF n
  <2>3. \A x \in S : x \in Like(s, S) <=> x \in Like(s, Sources)
    BY DEF Like
  <2> HIDE DEF A
  <2>4. \A k \in (n + 1) .. (n + m) :
          k - n \in 1 .. m /\ n + (k - n) = k /\ k \in 1 .. n + m /\ k \notin 1 .. n
    BY <1>2, <1>6
  <2>5. EntriesShowing(total, s) = A \cup B
    <3>1. \A i \in 1 .. n : i \in EntriesShowing(total, s) <=> i \in A
      <4>1. \A i \in 1 .. n : i \in 1 .. n + m
        BY <1>2, <1>6
      <4>2. QED  BY <1>7, <2>2, <4>1
    <3>2. \A k \in (n + 1) .. (n + m) : k \in EntriesShowing(total, s) <=> k \in B
      <4>1. \A k \in (n + 1) .. (n + m) : total[k].key = rest[k - n] /\ rest[k - n] \in S
        <5> TAKE k \in (n + 1) .. (n + m)
        <5>1. k - n \in 1 .. m /\ total[k] = added[k - n]
          BY <1>7, <2>4
        <5>2. QED  BY <1>1, <1>3, <1>4, <5>1
      <4>2. QED  BY <2>2, <2>3, <2>4, <4>1
    <3>3. \A i \in 1 .. n + m : i \in 1 .. n \/ i \in (n + 1) .. (n + m)
      BY <1>2, <1>6
    <3>4. EntriesShowing(total, s) \subseteq 1 .. n + m /\ A \subseteq 1 .. n /\ B \subseteq (n + 1) .. (n + m)
      BY <2>2
    <3> HIDE DEF B
    <3>5. QED  BY <3>1, <3>2, <3>3, <3>4
  <2>6. A \cap B = {}
    BY <2>2, <2>4
  <2>7. B \subseteq (n + 1) .. (n + m) /\ IsFiniteSet(B)
    <3>1. IsFiniteSet((n + 1) .. (n + m))
      BY <1>2, <1>6, FS_Interval
    <3>2. B \in SUBSET ((n + 1) .. (n + m))
      OBVIOUS
    <3> HIDE DEF B
    <3>3. QED  BY <3>1, <3>2, FS_Subset
  <2>8. OneToOne(f, B, V)
    <3>1. f \in [B -> V]
      BY <1>3, <2>4
    <3>2. ASSUME NEW j \in B, NEW k \in B, f[j] = f[k] PROVE j = k
      <4>1. rest[j - n] = rest[k - n] /\ j - n \in 1 .. m /\ k - n \in 1 .. m
        BY <2>4, <3>2
      <4>2. j - n = k - n
        BY <1>2, <4>1 DEF Arranges
      <4>3. QED  BY <2>4, <4>2
    <3>3. ASSUME NEW x \in V PROVE \E k \in B : f[k] = x
      <4>1. PICK i \in 1 .. m : rest[i] = x
        BY <1>2 DEF Arranges
      <4>2. n + i \in (n + 1) .. (n + m) /\ (n + i) - n = i
        BY <1>2, <1>6
      <4>3. n + i \in B /\ f[n + i] = x
        BY <4>1, <4>2
      <4>4. QED  BY <4>3
    <3>4. QED  BY <3>1, <3>2, <3>3 DEF OneToOne
  <2> HIDE DEF B, V, f
  <2>9. Cardinality(V) = Cardinality(B)
    BY <2>7, <2>8, CountedBy
  <2>10. Cardinality(A \cup B) = Cardinality(A) + Cardinality(B)
    <3>1. Cardinality(A \cup B) = Cardinality(A) + Cardinality(B) - Cardinality(A \cap B)
      BY <2>2, <2>7, FS_Union
    <3>2. Cardinality(A) \in Nat /\ Cardinality(B) \in Nat
      BY <2>2, <2>7, FS_CardinalityType
    <3>3. Cardinality(A \cap B) = 0
      BY <2>6, FS_EmptySet
    <3>4. QED  BY <3>1, <3>2, <3>3
  <2>11. Cardinality(Like(s, S)) \in Nat /\ Cardinality(A) \in Nat
    BY <2>2, SourcesAssumption, FS_Subset, FS_CardinalityType DEF Like
  <2>12. QED  BY <2>1, <2>5, <2>9, <2>10, <2>11
<1>11. QED
  BY <1>7, <1>8, <1>9, <1>10 DEF total, added, rest, U

\* As many lines of each kind make as many lines.
LEMMA KindsMakeAll ==
  ASSUME NEW list \in Seq(Line), NEW S \in SUBSET Sources, KeysIn(list) \subseteq S,
         \A s \in S : Cardinality(EntriesShowing(list, s)) = Cardinality(Like(s, S))
  PROVE  Covers(list, S)
<1> DEFINE D == 1 .. Len(list)
           f == [i \in D |-> <<list[i].secret, list[i].shown>>]
           g == [x \in S |-> <<Secret(x), Shown(x)>>]
<1>1. Len(list) \in Nat /\ DOMAIN list = D
  OBVIOUS
<1>2. \A i \in D : list[i].key \in S /\ f[i] = g[list[i].key]
  <2>1. \A i \in D : list[i] \in Line /\ list[i].key \in S
    BY <1>1 DEF KeysIn
  <2>2. QED  BY <2>1 DEF Line
<1>3. ASSUME NEW k PROVE Cardinality({i \in D : f[i] = k}) = Cardinality({y \in S : g[y] = k})
  <2>1. CASE \E s \in S : g[s] = k
    <3>1. PICK s \in S : g[s] = k
      BY <2>1
    <3>2. {y \in S : g[y] = k} = Like(s, S)
      BY <3>1 DEF Like
    <3>3. {i \in D : f[i] = k} = EntriesShowing(list, s)
      BY <1>1, <3>1 DEF EntriesShowing
    <3>4. QED  BY <3>2, <3>3
  <2>2. CASE ~\E s \in S : g[s] = k
    <3>1. {y \in S : g[y] = k} = {} /\ {i \in D : f[i] = k} = {}
      BY <1>2, <2>2
    <3>2. QED  BY <3>1
  <2>3. QED  BY <2>1, <2>2
<1>4. IsFiniteSet(D) /\ Cardinality(D) = Len(list)
  BY <1>1, FS_Interval
<1>5. IsFiniteSet(S)
  BY SourcesAssumption, FS_Subset
<1> HIDE DEF D, f, g
<1>7. SameCounts(f, D, g, S)
  BY <1>3, Zenon DEF SameCounts
<1>8. Cardinality(D) = Cardinality(S)
  BY <1>4, <1>5, <1>7, SameClasses
<1>9. QED  BY <1>4, <1>8 DEF Covers

\* The receipt of a compilation that stopped covers every applicable source.
LEMMA FailedCovers ==
  ASSUME NEW list \in Seq(Line), NEW S \in SUBSET Sources, Once(list), KeysIn(list) \subseteq S,
         \A i \in DOMAIN list : list[i].sent = FALSE
  PROVE  /\ FailedReceipt(list, S) \in Seq(Line)
         /\ Covers(FailedReceipt(list, S), S)
         /\ \A i \in DOMAIN FailedReceipt(list, S) : FailedReceipt(list, S)[i].sent = FALSE
<1> DEFINE rest == InOrder(Unaccounted(list, S))
           total == list \o [i \in DOMAIN rest |-> ReceiptEntry(rest[i], "excluded")]
<1>1. /\ total \in Seq(Line)
      /\ KeysIn(total) \subseteq S
      /\ \A i \in DOMAIN total : total[i].sent = FALSE \/ \E j \in DOMAIN list : total[i] = list[j]
      /\ \A s \in S : Cardinality(EntriesShowing(total, s)) = Cardinality(Like(s, S))
  BY AddedLines
<1>2. FailedReceipt(list, S) = Sorted(total)
  BY DEF FailedReceipt
<1> HIDE DEF total
<1>3. Covers(total, S)
  BY <1>1, KindsMakeAll
<1>4. \A i \in DOMAIN total : total[i].sent = FALSE
  BY <1>1
<1>5. /\ Sorted(total) \in Seq(Line) /\ Covers(Sorted(total), S)
      /\ \A k \in DOMAIN Sorted(total) : \E i \in DOMAIN total : Sorted(total)[k] = total[i]
  BY <1>1, <1>3, SortedCovers
<1>6. \A k \in DOMAIN Sorted(total) : Sorted(total)[k].sent = FALSE
  BY <1>4, <1>5
<1>7. QED  BY <1>2, <1>5, <1>6

--------------------------------------------------------------------------------
(****************************************************************************)
(* One step of a compilation.                                               *)
(****************************************************************************)
\* What holds of one context depends on it and on the summaries of the sources.
LEMMA WhollyStays ==
  ASSUME NEW c \in Contexts, NEW r, contexts'[c] = r, Wholly(r),
         summaries' = summaries \/ r.phase # "compiling"
  PROVE  Wholly(contexts[c])'
<1>1. ReceiptOK(contexts[c])' /\ BudgetOK(contexts[c])'
  BY DEF Wholly, ReceiptOK, BudgetOK
<1>2. CASE r.phase # "compiling"
  BY <1>1, <1>2 DEF Wholly
<1>3. CASE summaries' = summaries /\ r.phase = "compiling"
  <2>1. Ahead(contexts[c])'
    BY <1>3 DEF Wholly, Ahead, Needed
  <2>2. NeededSizes(contexts[c])' = NeededSizes(r)
    BY <1>3 DEF NeededSizes, Needed, SizeOf, NeededForm, CurrentSummary
  <2>3. Needed(contexts[c])' = Needed(r)
    BY DEF Needed
  <2>4. Behind(r)
    BY <1>3 DEF Wholly
  <2>5. Behind(contexts[c])'
    BY <2>2, <2>3, <2>4 DEF Behind
  <2>6. QED  BY <1>1, <2>1, <2>5 DEF Wholly
<1>4. QED  BY <1>2, <1>3

\* One context changed, and the summaries did not.
LEMMA OneWholly ==
  ASSUME ContextInv, CoverInv, NEW c \in Contexts, NEW r, Wholly(r),
         contexts' = [contexts EXCEPT ![c] = r], summaries' = summaries
  PROVE  CoverInv'
<1>1. \A d \in Contexts : contexts'[d] = IF d = c THEN r ELSE contexts[d]
  BY DEF ContextInv, ContextsOK
<1>2. ASSUME NEW d \in Contexts PROVE Wholly(contexts[d])'
  <2>1. PICK x : contexts'[d] = x /\ Wholly(x)
    BY <1>1 DEF CoverInv
  <2>2. QED  BY <2>1, WhollyStays
<1>3. QED  BY <1>2 DEF CoverInv

LEMMA AllWholly ==
  ASSUME CoverInv, contexts' = contexts, summaries' = summaries \/ Unborrowed
  PROVE  CoverInv'
<1>1. ASSUME NEW d \in Contexts PROVE Wholly(contexts[d])'
  <2>1. contexts'[d] = contexts[d] /\ Wholly(contexts[d])
    BY DEF CoverInv
  <2>2. summaries' = summaries \/ contexts[d].phase # "compiling"
    BY DEF Unborrowed
  <2>3. QED  BY <2>1, <2>2, WhollyStays
<1>2. QED  BY <1>1 DEF CoverInv

LEMMA IdleWholly == Wholly(Idle)
<1>1. <<>> \in Seq(Line) /\ DOMAIN <<>> = {}
  OBVIOUS
<1>2. QED  BY <1>1 DEF Idle, Wholly, ReceiptOK, BudgetOK

LEMMA InitCover == Init => CoverInv
BY IdleWholly DEF Init, CoverInv

\* The first of a list and what follows it.
Parted(S, list, rest) ==
  /\ Len(list) \in Nat /\ 1 \in 1 .. Len(list) /\ DOMAIN list = 1 .. Len(list)
  /\ Head(list) = list[1] /\ list[1] \in S
  /\ rest \in Seq(S) /\ Len(rest) = Len(list) - 1
  /\ DOMAIN rest = 1 .. Len(list) - 1
  /\ \A i \in 1 .. Len(list) - 1 : i + 1 \in 1 .. Len(list) /\ rest[i] = list[i + 1]
  /\ \A i \in 1 .. Len(list) : i = 1 \/ i - 1 \in 1 .. Len(list) - 1

LEMMA HeadAndTail ==
  ASSUME NEW S, NEW list \in Seq(S), list # <<>>
  PROVE  Parted(S, list, Tail(list))
<1>1. Len(list) \in Nat /\ Len(list) # 0 /\ DOMAIN list = 1 .. Len(list)
  OBVIOUS
<1>2. Head(list) = list[1]
  OBVIOUS
<1>3. Tail(list) \in Seq(S) /\ Len(Tail(list)) = Len(list) - 1
  OBVIOUS
<1>4. DOMAIN Tail(list) = 1 .. Len(list) - 1
  BY <1>3
<1>5. \A i \in 1 .. Len(list) - 1 : Tail(list)[i] = list[i + 1]
  OBVIOUS
<1>6. \A i \in 1 .. Len(list) - 1 : i + 1 \in 1 .. Len(list)
  BY <1>1
<1>7. \A i \in 1 .. Len(list) : i = 1 \/ i - 1 \in 1 .. Len(list) - 1
  BY <1>1
<1>8. list[1] \in S
  BY <1>1
<1>9. 1 \in 1 .. Len(list)
  BY <1>1
<1>10. QED  BY <1>1, <1>2, <1>3, <1>4, <1>5, <1>6, <1>7, <1>8, <1>9 DEF Parted

\* All that the first of the sources still to do brings with it.
Took(old, new, s) ==
  /\ s \in old.applicable /\ s \in Sources /\ s \notin KeysIn(old.entries)
  /\ new.entries \in Seq(Line)
  /\ KeysIn(new.entries) = KeysIn(old.entries) \cup {s}
  /\ \A i \in DOMAIN new.entries :
       new.entries[i].sent = FALSE \/ \E j \in DOMAIN old.entries : new.entries[i] = old.entries[j]
  /\ Ahead(new)
  /\ Once(new.entries)
  /\ KeysIn(new.entries) \subseteq new.applicable
  /\ \A i \in DOMAIN new.todo : new.todo[i] \in Needed(new) => KeysIn(new.entries) \subseteq Needed(new)
  /\ s \in Needed(old) => KeysIn(old.entries) \subseteq Needed(old)

\* The first of the sources that are still to do.
LEMMA TookOne ==
  ASSUME NEW old, NEW new, NEW s, NEW d \in {"raw", "compacted", "excluded"},
         Ahead(old), Behind(old), old.entries \in Seq(Line),
         old.todo # <<>>, s = Head(old.todo),
         new.applicable = old.applicable, new.request = old.request,
         new.todo = Tail(old.todo), new.entries = Append(old.entries, ReceiptEntry(s, d))
  PROVE  Took(old, new, s)
<1> DEFINE todo == old.todo
           rest == new.todo
           list == old.entries
           more == new.entries
           S == old.applicable
<1>1. todo \in Seq(S) /\ S \subseteq Sources
  BY DEF Ahead
<1>2. /\ Len(todo) \in Nat /\ 1 \in 1 .. Len(todo) /\ DOMAIN todo = 1 .. Len(todo)
      /\ s = todo[1] /\ s \in S
      /\ rest \in Seq(S) /\ Len(rest) = Len(todo) - 1 /\ DOMAIN rest = 1 .. Len(todo) - 1
      /\ \A i \in 1 .. Len(todo) - 1 : i + 1 \in 1 .. Len(todo) /\ rest[i] = todo[i + 1]
      /\ \A i \in 1 .. Len(todo) : i = 1 \/ i - 1 \in 1 .. Len(todo) - 1
  <2>1. Parted(S, todo, rest)
    BY <1>1, HeadAndTail
  <2>2. QED
    BY <1>1, <2>1 DEF Parted
<1>3. s \in Sources
  BY <1>1, <1>2
<1>4. ReceiptEntry(s, d) \in Line /\ ReceiptEntry(s, d).key = s /\ ReceiptEntry(s, d).sent = FALSE
  BY <1>3, LineOf
<1> DEFINE n == Len(list)
<1>5. /\ more \in Seq(Line) /\ n \in Nat /\ DOMAIN list = 1 .. n /\ DOMAIN more = 1 .. n + 1
      /\ \A i \in 1 .. n : more[i] = list[i]
      /\ more[n + 1] = ReceiptEntry(s, d)
  BY <1>4, Longer
<1>6. s \notin KeysIn(list)
  <2>1. \A i \in DOMAIN todo : todo[i] \notin KeysIn(list)
    BY DEF Ahead
  <2>2. 1 \in DOMAIN todo /\ todo[1] = s
    BY <1>2
  <2> HIDE DEF todo, list
  <2>3. QED  BY <2>1, <2>2
<1> HIDE DEF todo, rest, list, more, S, n
<1>7. KeysIn(more) = KeysIn(list) \cup {s}
  <2>1. \A i \in 1 .. n + 1 : i \in 1 .. n \/ i = n + 1
    BY <1>5
  <2>2. \A i \in 1 .. n : i \in 1 .. n + 1
    BY <1>5
  <2>3. n + 1 \in 1 .. n + 1
    BY <1>5
  <2>4. QED  BY <1>4, <1>5, <2>1, <2>2, <2>3 DEF KeysIn
<1>8. \A i \in DOMAIN more : more[i].sent = FALSE \/ \E j \in DOMAIN list : more[i] = list[j]
  <2>1. \A i \in 1 .. n + 1 : i \in 1 .. n \/ i = n + 1
    BY <1>5
  <2>2. QED  BY <1>4, <1>5, <2>1
<1>9. Once(more)
  <2>1. Once(list)
    BY DEF Behind, list
  <2>2. ASSUME NEW i \in DOMAIN more, NEW j \in DOMAIN more, more[i].key = more[j].key PROVE i = j
    <3>1. \A k \in 1 .. n : more[k].key \in KeysIn(list) /\ more[k].key # s
      BY <1>5, <1>6 DEF KeysIn
    <3>2. \A k \in 1 .. n + 1 : k \in 1 .. n \/ k = n + 1
      BY <1>5
    <3>3. more[n + 1].key = s
      BY <1>4, <1>5
    <3>4. CASE i \in 1 .. n /\ j \in 1 .. n
      BY <1>5, <2>1, <2>2, <3>4 DEF Once
    <3>5. QED  BY <1>5, <2>2, <3>1, <3>2, <3>3, <3>4
  <2>3. QED  BY <2>2 DEF Once
<1>10. KeysIn(more) \subseteq S
  <2>1. KeysIn(list) \subseteq S
    BY DEF Behind, list, S
  <2>2. QED  BY <1>2, <1>7, <2>1
<1>11. Needed(new) = Needed(old)
  BY DEF Needed
<1>12. s \in Needed(old) => KeysIn(list) \subseteq Needed(old)
  BY <1>2 DEF Behind, todo, list
<1>13. ASSUME NEW i \in DOMAIN rest, rest[i] \in Needed(new) PROVE KeysIn(more) \subseteq Needed(new)
  <2>1. i + 1 \in 1 .. Len(todo) /\ todo[i + 1] \in Needed(old) /\ 1 < i + 1
    BY <1>2, <1>11, <1>13
  <2>2. KeysIn(list) \subseteq Needed(old)
    BY <1>2, <2>1 DEF Behind, todo, list
  <2>3. todo[1] \in Needed(old)
    BY <1>2, <2>1 DEF Ahead, todo
  <2>4. QED  BY <1>2, <1>7, <1>11, <2>2, <2>3
<1>14. Ahead(new)
  <2>1. new.applicable \subseteq Sources /\ new.request.budget \in Nat /\ rest \in Seq(new.applicable)
    BY <1>1, <1>2 DEF Ahead, S
  <2>2. ASSUME NEW i \in DOMAIN rest, NEW j \in DOMAIN rest, rest[i] = rest[j] PROVE i = j
    <3>1. i + 1 \in 1 .. Len(todo) /\ j + 1 \in 1 .. Len(todo) /\ todo[i + 1] = todo[j + 1]
      BY <1>2, <2>2
    <3>2. i + 1 = j + 1
      BY <1>2, <3>1 DEF Ahead, todo
    <3>3. QED  BY <1>2, <3>2
  <2>3. ASSUME NEW i \in DOMAIN rest PROVE rest[i] \notin KeysIn(more)
    <3>1. i + 1 \in 1 .. Len(todo) /\ rest[i] = todo[i + 1] /\ i + 1 # 1
      BY <1>2
    <3>2. todo[i + 1] \notin KeysIn(list)
      BY <1>2, <3>1 DEF Ahead, todo, list
    <3>3. todo[i + 1] # todo[1]
      BY <1>2, <3>1 DEF Ahead, todo
    <3>4. QED  BY <1>2, <1>7, <3>1, <3>2, <3>3
  <2>4. ASSUME NEW x \in new.applicable
        PROVE  x \in KeysIn(more) \/ \E i \in DOMAIN rest : rest[i] = x
    <3>1. x \in KeysIn(list) \/ \E i \in 1 .. Len(todo) : todo[i] = x
      BY <1>2 DEF Ahead, todo, list
    <3>2. ASSUME NEW i \in 1 .. Len(todo), todo[i] = x, i # 1 PROVE \E j \in DOMAIN rest : rest[j] = x
      <4>1. i - 1 \in 1 .. Len(todo) - 1 /\ (i - 1) + 1 = i
        BY <1>2, <3>2
      <4>2. rest[i - 1] = x
        BY <1>2, <3>2, <4>1
      <4>3. QED  BY <1>2, <4>1, <4>2
    <3>3. QED  BY <1>2, <1>7, <3>1, <3>2
  <2>5. ASSUME NEW i \in DOMAIN rest, NEW j \in DOMAIN rest, i < j, rest[j] \in Needed(new)
        PROVE  rest[i] \in Needed(new)
    <3>1. /\ i + 1 \in 1 .. Len(todo) /\ j + 1 \in 1 .. Len(todo) /\ i + 1 < j + 1
          /\ rest[i] = todo[i + 1] /\ rest[j] = todo[j + 1]
      BY <1>2, <2>5
    <3>2. todo[i + 1] \in Needed(old)
      BY <1>2, <1>11, <2>5, <3>1 DEF Ahead, todo
    <3>3. QED  BY <1>11, <3>1, <3>2
  <2>6. QED  BY <2>1, <2>2, <2>3, <2>4, <2>5 DEF Ahead, rest, more
<1>15. QED
  BY <1>2, <1>3, <1>5, <1>6, <1>7, <1>8, <1>9, <1>10, <1>12, <1>13, <1>14 DEF Took, rest, list, more, S

--------------------------------------------------------------------------------
(****************************************************************************)
(* The actions.                                                             *)
(****************************************************************************)
LEMMA NoKeys == KeysIn(<<>>) = {} /\ Once(<<>>) /\ <<>> \in Seq(Line) /\ DOMAIN <<>> = {}
BY DEF KeysIn, Once

LEMMA CompileWholly ==
  ASSUME ContextInv, CoverInv, NEW c \in Contexts, NEW request \in Requests, Compile(c, request)
  PROVE  CoverInv'
<1>1. summaries' = summaries
  BY DEF Compile
<1>2. CASE ScopeResolves(structure, request, Scopes)
  <2> DEFINE S == Applicable(request)
  <2>1. PICK r : /\ contexts' = [contexts EXCEPT ![c] = r]
                 /\ r = [Idle EXCEPT !.phase = "compiling", !.request = request,
                                     !.applicable = S, !.todo = TierOrder(S)]
    BY <1>2 DEF Compile
  <2>2. S \subseteq Sources
    BY DEF Applicable
  <2> DEFINE todo == TierOrder(S)
  <2>3. /\ Arranges(todo, S)
        /\ \A i, j \in 1 .. Len(todo) :
             i < j /\ Entry[todo[j]].tier # "optional" => Entry[todo[i]].tier # "optional"
    BY <2>2, TiersArrange
  <2> HIDE DEF S, todo
  <2>4. /\ r.phase = "compiling" /\ r.request = request /\ r.applicable = S /\ r.todo = todo
        /\ r.used = 0 /\ r.text = <<>> /\ r.entries = <<>>
    BY <2>1 DEF Idle, todo
  <2>5. todo \in Seq(S) /\ DOMAIN todo = 1 .. Len(todo) /\ \A i \in 1 .. Len(todo) : todo[i] \in S
    BY <2>3 DEF Arranges
  <2>6. Ahead(r)
    <3>1. r.request.budget \in Nat
      BY <2>4, RequestsAssumption
    <3>2. \A i \in 1 .. Len(todo) : todo[i] \in Needed(r) <=> Entry[todo[i]].tier # "optional"
      BY <2>4, <2>5 DEF Needed
    <3>3. \A i, j \in 1 .. Len(todo) : i < j /\ todo[j] \in Needed(r) => todo[i] \in Needed(r)
      BY <2>3, <3>2
    <3>4. KeysIn(r.entries) = {}
      BY <2>4, NoKeys
    <3>5. /\ \A i, j \in 1 .. Len(todo) : todo[i] = todo[j] => i = j
          /\ \A s \in S : \E i \in 1 .. Len(todo) : todo[i] = s
      BY <2>3 DEF Arranges
    <3>6. QED  BY <2>2, <2>4, <2>5, <3>1, <3>3, <3>4, <3>5 DEF Ahead
  <2>7. Behind(r)
    <3>1. KeysIn(r.entries) = {} /\ Once(r.entries) /\ SourcesIn(r.text) = {}
      BY <2>4, NoKeys, EmptyText
    <3>2. SumFunctionOnSet(NeededSizes(r), {}) = 0
      BY SumOfNothing
    <3>3. QED  BY <2>4, <3>1, <3>2 DEF Behind
  <2>8. BudgetOK(r)
    <3>1. DOMAIN r.text = {}
      BY <2>4, NoKeys
    <3>2. SumFunctionOnSet(Sizes(r.text), DOMAIN r.text) = 0
      BY <3>1, SumOfNothing
    <3>3. r.used <= r.request.budget
      BY <2>4, <2>6 DEF Ahead
    <3>4. QED  BY <2>4, <3>2, <3>3 DEF BudgetOK
  <2>9. ReceiptOK(r)
    BY <2>4, NoKeys DEF ReceiptOK
  <2>10. QED  BY <1>1, <2>1, <2>6, <2>7, <2>8, <2>9, OneWholly DEF Wholly
<1>3. CASE ~ScopeResolves(structure, request, Scopes)
  <2> DEFINE list == FailedReceipt(<<>>, Sources)
  <2>1. PICK r : /\ contexts' = [contexts EXCEPT ![c] = r]
                 /\ r = [Idle EXCEPT !.phase = "failed", !.request = request,
                                     !.applicable = Sources, !.entries = list]
    BY <1>3 DEF Compile
  <2>2. /\ list \in Seq(Line) /\ Covers(list, Sources)
        /\ \A i \in DOMAIN list : list[i].sent = FALSE
    <3>1. /\ <<>> \in Seq(Line) /\ Once(<<>>) /\ KeysIn(<<>>) \subseteq Sources
          /\ \A i \in DOMAIN <<>> : <<>>[i].sent = FALSE
      BY NoKeys
    <3>2. Sources \in SUBSET Sources
      OBVIOUS
    <3>3. QED  BY <3>1, <3>2, FailedCovers
  <2> HIDE DEF list
  <2>3. r.phase = "failed" /\ r.applicable = Sources /\ r.entries = list
    BY <2>1 DEF Idle
  <2>4. ReceiptOK(r)
    BY <2>2, <2>3 DEF ReceiptOK
  <2>5. BudgetOK(r)
    BY <2>3 DEF BudgetOK
  <2>6. QED  BY <1>1, <2>1, <2>3, <2>4, <2>5, OneWholly DEF Wholly
<1>4. QED  BY <1>2, <1>3

\* The size of what is selected, and of a needed source whatever else is in the text.
LEMMA SelectedSize ==
  ASSUME ContextInv, NEW r, NEW s \in Sources
  PROVE  /\ SizeOf(s, FormOf(r, s)) \in Nat
         /\ SizeOf(s, NeededForm(s)) \in Nat
         /\ FormOf(r, s) \in {"raw", "compacted"}
         /\ Entry[s].tier # "optional" => FormOf(r, s) = NeededForm(s)
<1>1. FormOf(r, s) = "compacted" => CurrentSummary(s)
  BY DEF FormOf
<1>2. NeededForm(s) = "compacted" => CurrentSummary(s)
  BY DEF NeededForm
<1>3. CurrentSummary(s) => summaries[s].size \in Nat
  BY SizesAssumption DEF CurrentSummary, ContextInv, SetsOK
<1>4. Entry[s].size \in Nat
  BY SizesAssumption
<1>5. Entry[s].tier # "optional" => FormOf(r, s) = NeededForm(s)
  BY EntryAssumption DEF FormOf, NeededForm
<1>6. FormOf(r, s) \in {"raw", "compacted"}
  BY DEF FormOf
<1>7. QED  BY <1>1, <1>2, <1>3, <1>4, <1>5, <1>6 DEF SizeOf

\* A block at the end of a text adds its size.
LEMMA LongerText ==
  ASSUME NEW text \in Seq(Block), NEW b \in Block
  PROVE  /\ SumFunctionOnSet(Sizes(text), DOMAIN text) \in Nat
         /\ SumFunctionOnSet(Sizes(Append(text, b)), DOMAIN Append(text, b))
              = SumFunctionOnSet(Sizes(text), DOMAIN text) + b.size
<1> DEFINE n == Len(text)
           more == Append(text, b)
           D == 1 .. n
           r == n + 1
           f == Sizes(text)
           g == Sizes(more)
<1>1. /\ n \in Nat /\ DOMAIN text = D /\ DOMAIN more = 1 .. r
      /\ \A i \in D : more[i] = text[i] /\ text[i] \in Block
      /\ more[r] = b
  BY Longer
<1>2. IsFiniteSet(D)
  <2>1. n \in Nat
    OBVIOUS
  <2> HIDE DEF n
  <2>2. QED  BY <2>1, FS_Interval
<1>3. r \notin D /\ 1 .. r = D \cup {r} /\ r \in 1 .. r /\ \A i \in D : i \in 1 .. r
  BY <1>1
<1> HIDE DEF n, r, more, D
<1>4. b.size \in Nat /\ \A i \in D : text[i].size \in Nat
  BY <1>1 DEF Block
<1>5. \A i \in D : f[i] \in Nat /\ g[i] = f[i]
  BY <1>1, <1>3, <1>4 DEF Sizes
<1>6. g[r] = b.size /\ g[r] \in Nat
  BY <1>1, <1>3, <1>4 DEF Sizes
<1> HIDE DEF f, g
<1>7. SumFunctionOnSet(g, D \cup {r}) = SumFunctionOnSet(f, D) + g[r]
  <2>1. r \notin D
    BY <1>3
  <2>2. g[r] \in Nat
    BY <1>6
  <2>3. QED  BY <1>2, <1>5, <2>1, <2>2, SumAdds, ZenonT(30)
<1>8. SumFunctionOnSet(f, D) \in Nat
  BY <1>2, <1>5, SumTakes
<1>9. QED  BY <1>1, <1>3, <1>6, <1>7, <1>8 DEF f, g, more

\* One needed source more, among all that are needed.
LEMMA NeededAdds ==
  ASSUME ContextInv, NEW r, r.applicable \subseteq Sources,
         NEW S \in SUBSET Needed(r), NEW s \in Needed(r), s \notin S
  PROVE  /\ SumFunctionOnSet(NeededSizes(r), S) \in Nat
         /\ SumFunctionOnSet(NeededSizes(r), Needed(r)) \in Nat
         /\ SumFunctionOnSet(NeededSizes(r), S \cup {s})
              = SumFunctionOnSet(NeededSizes(r), S) + SizeOf(s, NeededForm(s))
         /\ SumFunctionOnSet(NeededSizes(r), S \cup {s})
              <= SumFunctionOnSet(NeededSizes(r), Needed(r))
<1> DEFINE T == Needed(r)
           f == NeededSizes(r)
<1>1. T \subseteq Sources
  BY DEF Needed
<1>2. IsFiniteSet(T)
  BY <1>1, SourcesAssumption, FS_Subset
<1>3. IsFiniteSet(S)
  BY <1>2, FS_Subset
<1>4. ASSUME NEW x \in T PROVE f[x] = SizeOf(x, NeededForm(x)) /\ f[x] \in Nat
  <2>1. x \in Sources
    BY <1>1
  <2>2. SizeOf(x, NeededForm(x)) \in Nat
    BY <2>1, SelectedSize
  <2>3. QED  BY <2>2 DEF NeededSizes
<1> HIDE DEF T, f
<1>5. \A x \in T : f[x] \in Nat
  BY <1>4
<1>6. \A x \in S : f[x] \in Nat /\ f[x] = f[x]
  BY <1>5 DEF T
<1>7. f[s] \in Nat /\ f[s] = SizeOf(s, NeededForm(s))
  BY <1>4 DEF T
<1>8. SumFunctionOnSet(f, S \cup {s}) = SumFunctionOnSet(f, S) + f[s]
  BY <1>3, <1>6, <1>7, SumAdds
<1>9. SumFunctionOnSet(f, S) \in Nat
  BY <1>3, <1>6, SumTakes
<1>10. SumFunctionOnSet(f, T) \in Nat
  BY <1>2, <1>5, SumTakes
<1>11. S \cup {s} \in SUBSET T
  BY DEF T
<1>12. SumFunctionOnSet(f, S \cup {s}) <= SumFunctionOnSet(f, T)
  BY <1>2, <1>5, <1>11, SumOfPart
<1>13. QED  BY <1>7, <1>8, <1>9, <1>10, <1>12 DEF f, T

\* What a compilation that goes on keeps of its receipt.
LEMMA NoneSent ==
  ASSUME NEW old, NEW new, ReceiptOK(old), old.phase = "compiling", new.phase = "compiling",
         new.entries \in Seq(Line),
         \A i \in DOMAIN new.entries :
           new.entries[i].sent = FALSE \/ \E j \in DOMAIN old.entries : new.entries[i] = old.entries[j]
  PROVE  /\ \A i \in DOMAIN new.entries : new.entries[i].sent = FALSE
         /\ ReceiptOK(new)
<1>1. \A j \in DOMAIN old.entries : ~old.entries[j].sent /\ old.entries[j] \in Line
  BY DEF ReceiptOK
<1>2. \A j \in DOMAIN old.entries : old.entries[j].sent \in BOOLEAN
  BY <1>1 DEF Line
<1>3. \A j \in DOMAIN old.entries : old.entries[j].sent = FALSE
  BY <1>1, <1>2
<1>4. \A i \in DOMAIN new.entries : new.entries[i].sent = FALSE
  BY <1>3
<1>5. QED  BY <1>4 DEF ReceiptOK

LEMMA SelectWholly ==
  ASSUME ContextInv, CoverInv, NEW c \in Contexts, Select(c)
  PROVE  CoverInv'
<1> DEFINE old == contexts[c]
           new == contexts'[c]
<1>1. PICK s \in Sources :
        /\ Compiling(c, s)
        /\ Selectable(contexts[c], s)
        /\ contexts' = [contexts EXCEPT
             ![c].todo = Tail(@),
             ![c].used = @ + SizeOf(s, FormOf(contexts[c], s)),
             ![c].text = Append(@, [source |-> s, form |-> FormOf(contexts[c], s),
                                    size |-> SizeOf(s, FormOf(contexts[c], s))]),
             ![c].entries = Append(@, ReceiptEntry(s, FormOf(contexts[c], s))),
             ![c].keys = @ \cup Promised(s)]
        /\ summaries' = summaries
  BY DEF Select
<1> DEFINE form == FormOf(old, s)
           size == SizeOf(s, form)
           block == [source |-> s, form |-> form, size |-> size]
<1>2. /\ old.phase = "compiling" /\ ContextOK(old) /\ Wholly(old)
      /\ old.todo # <<>> /\ s = Head(old.todo)
  BY <1>1 DEF Compiling, ContextInv, ContextsOK, CoverInv
<1>3. /\ new = [old EXCEPT !.todo = Tail(@), !.used = @ + size, !.text = Append(@, block),
                  !.entries = Append(@, ReceiptEntry(s, form)), !.keys = @ \cup Promised(s)]
      /\ contexts' = [contexts EXCEPT ![c] = new]
  BY <1>1 DEF ContextInv, ContextsOK
<1> HIDE DEF new
<1>4. /\ new.phase = old.phase /\ new.request = old.request /\ new.applicable = old.applicable
      /\ new.todo = Tail(old.todo) /\ new.used = old.used + size
      /\ new.text = Append(old.text, block)
      /\ new.entries = Append(old.entries, ReceiptEntry(s, form))
  BY <1>2, <1>3 DEF ContextOK, IsContext
<1> HIDE DEF old
<1>5. Ahead(old) /\ Behind(old) /\ ReceiptOK(old) /\ BudgetOK(old) /\ old.entries \in Seq(Line)
  BY <1>2 DEF Wholly, ReceiptOK
<1>6. /\ size \in Nat /\ form \in {"raw", "compacted"}
      /\ Entry[s].tier # "optional" => form = NeededForm(s)
  BY SelectedSize
<1>7. Fits(old, s, form)
  BY <1>1 DEF Selectable, old
<1> HIDE DEF form
<1>8. form \in {"raw", "compacted", "excluded"}
  BY <1>6
<1>9a. Took(old, new, s)
  BY <1>2, <1>4, <1>5, <1>8, TookOne
<1>9. /\ s \in old.applicable /\ s \in Sources /\ s \notin KeysIn(old.entries)
      /\ new.entries \in Seq(Line)
      /\ KeysIn(new.entries) = KeysIn(old.entries) \cup {s}
      /\ \A i \in DOMAIN new.entries :
           new.entries[i].sent = FALSE \/ \E j \in DOMAIN old.entries : new.entries[i] = old.entries[j]
      /\ Ahead(new)
      /\ Once(new.entries)
      /\ KeysIn(new.entries) \subseteq new.applicable
      /\ \A i \in DOMAIN new.todo : new.todo[i] \in Needed(new) => KeysIn(new.entries) \subseteq Needed(new)
  BY <1>9a DEF Took
<1>10. ReceiptOK(new)
  BY <1>2, <1>4, <1>5, <1>9, NoneSent
<1>11. block \in Block /\ block.source = s /\ block.size = size
  BY <1>6 DEF Block
<1>12. old.text \in Seq(Block) /\ old.used \in Nat
  BY <1>2 DEF ContextOK
<1> HIDE DEF block, size
<1>13. BudgetOK(new)
  <2>1. SumFunctionOnSet(Sizes(new.text), DOMAIN new.text)
          = SumFunctionOnSet(Sizes(old.text), DOMAIN old.text) + size
    BY <1>4, <1>11, <1>12, LongerText
  <2>2. old.used = SumFunctionOnSet(Sizes(old.text), DOMAIN old.text)
    BY <1>2, <1>5 DEF BudgetOK
  <2>3. old.used + size <= old.request.budget
    BY <1>7 DEF Fits, size
  <2>4. QED  BY <1>4, <2>1, <2>2, <2>3 DEF BudgetOK
<1>14. SourcesIn(new.text) = SourcesIn(old.text) \cup {s}
  BY <1>4, <1>11, <1>12, AppendedSources
<1>15. SourcesIn(new.text) \subseteq KeysIn(new.entries) /\ s \notin SourcesIn(old.text)
  BY <1>5, <1>9, <1>14 DEF Behind
<1>16. ASSUME SourcesIn(new.text) \subseteq Needed(new)
       PROVE  new.used = SumFunctionOnSet(NeededSizes(new), SourcesIn(new.text))
  <2>1. Needed(new) = Needed(old) /\ NeededSizes(new) = NeededSizes(old)
    BY <1>4 DEF Needed, NeededSizes
  <2>2. SourcesIn(old.text) \in SUBSET Needed(old) /\ s \in Needed(old)
    BY <1>14, <1>16, <2>1
  <2>3. old.used = SumFunctionOnSet(NeededSizes(old), SourcesIn(old.text))
    BY <1>5, <2>2 DEF Behind
  <2>4. size = SizeOf(s, NeededForm(s))
    BY <1>6, <2>2 DEF Needed, size
  <2>5. old.applicable \subseteq Sources
    BY <1>5 DEF Ahead
  <2>6. SumFunctionOnSet(NeededSizes(old), SourcesIn(old.text) \cup {s})
          = SumFunctionOnSet(NeededSizes(old), SourcesIn(old.text)) + SizeOf(s, NeededForm(s))
    BY <1>15, <2>2, <2>5, NeededAdds
  <2>7. QED  BY <1>4, <1>14, <2>1, <2>3, <2>4, <2>6
<1>17. Behind(new)
  BY <1>9, <1>15, <1>16 DEF Behind
<1>18. Wholly(new)
  BY <1>9, <1>10, <1>13, <1>17 DEF Wholly
<1>19. QED  BY <1>1, <1>3, <1>18, OneWholly

LEMMA LeaveOutWholly ==
  ASSUME ContextInv, CoverInv, NEW c \in Contexts, LeaveOut(c)
  PROVE  CoverInv'
<1> DEFINE old == contexts[c]
           new == contexts'[c]
<1>1. PICK s \in Sources :
        /\ Compiling(c, s)
        /\ contexts' = [contexts EXCEPT
             ![c].todo = Tail(@),
             ![c].entries = Append(@, ReceiptEntry(s, "excluded"))]
        /\ summaries' = summaries
  BY DEF LeaveOut
<1>2. /\ old.phase = "compiling" /\ ContextOK(old) /\ Wholly(old)
      /\ old.todo # <<>> /\ s = Head(old.todo)
  BY <1>1 DEF Compiling, ContextInv, ContextsOK, CoverInv
<1>3. /\ new = [old EXCEPT !.todo = Tail(@), !.entries = Append(@, ReceiptEntry(s, "excluded"))]
      /\ contexts' = [contexts EXCEPT ![c] = new]
  BY <1>1 DEF ContextInv, ContextsOK
<1> HIDE DEF new
<1>4. /\ new.phase = old.phase /\ new.request = old.request /\ new.applicable = old.applicable
      /\ new.todo = Tail(old.todo) /\ new.used = old.used /\ new.text = old.text
      /\ new.entries = Append(old.entries, ReceiptEntry(s, "excluded"))
  BY <1>2, <1>3 DEF ContextOK, IsContext
<1> HIDE DEF old
<1>5. Ahead(old) /\ Behind(old) /\ ReceiptOK(old) /\ BudgetOK(old) /\ old.entries \in Seq(Line)
  BY <1>2 DEF Wholly, ReceiptOK
<1>6. "excluded" \in {"raw", "compacted", "excluded"}
  OBVIOUS
<1>7a. Took(old, new, s)
  BY <1>2, <1>4, <1>5, <1>6, TookOne
<1>7. /\ new.entries \in Seq(Line)
      /\ KeysIn(new.entries) = KeysIn(old.entries) \cup {s}
      /\ \A i \in DOMAIN new.entries :
           new.entries[i].sent = FALSE \/ \E j \in DOMAIN old.entries : new.entries[i] = old.entries[j]
      /\ Ahead(new)
      /\ Once(new.entries)
      /\ KeysIn(new.entries) \subseteq new.applicable
      /\ \A i \in DOMAIN new.todo : new.todo[i] \in Needed(new) => KeysIn(new.entries) \subseteq Needed(new)
  BY <1>7a DEF Took
<1>8. ReceiptOK(new)
  BY <1>2, <1>4, <1>5, <1>7, NoneSent
<1>9. BudgetOK(new)
  BY <1>2, <1>4, <1>5 DEF BudgetOK
<1>10. Needed(new) = Needed(old) /\ NeededSizes(new) = NeededSizes(old)
  BY <1>4 DEF Needed, NeededSizes
<1>11. SourcesIn(new.text) \subseteq KeysIn(new.entries)
  BY <1>4, <1>5, <1>7 DEF Behind
<1>12. SourcesIn(new.text) \subseteq Needed(new) =>
         new.used = SumFunctionOnSet(NeededSizes(new), SourcesIn(new.text))
  BY <1>4, <1>5, <1>10 DEF Behind
<1>13. Behind(new)
  BY <1>7, <1>11, <1>12 DEF Behind
<1>14. Wholly(new)
  BY <1>7, <1>8, <1>9, <1>13 DEF Wholly
<1>15. QED  BY <1>1, <1>3, <1>14, OneWholly

LEMMA FinishWholly ==
  ASSUME ContextInv, CoverInv, NEW c \in Contexts, Finish(c)
  PROVE  CoverInv'
<1> DEFINE old == contexts[c]
           new == contexts'[c]
<1>1. /\ old.phase = "compiling" /\ ContextOK(old) /\ Wholly(old) /\ old.todo = <<>>
      /\ new = [old EXCEPT !.phase = "ready", !.entries = Sorted(@)]
      /\ contexts' = [contexts EXCEPT ![c] = new]
      /\ summaries' = summaries
  BY DEF Finish, ContextInv, ContextsOK, CoverInv
<1> HIDE DEF new
<1>2. /\ new.phase = "ready" /\ new.request = old.request /\ new.applicable = old.applicable
      /\ new.used = old.used /\ new.text = old.text /\ new.entries = Sorted(old.entries)
  BY <1>1 DEF ContextOK, IsContext
<1> HIDE DEF old
<1>3. Ahead(old) /\ Behind(old) /\ ReceiptOK(old) /\ BudgetOK(old) /\ old.entries \in Seq(Line)
  BY <1>1 DEF Wholly, ReceiptOK
<1>4. KeysIn(old.entries) = old.applicable
  BY <1>1, <1>3, NoKeys DEF Ahead, Behind
<1>5. old.applicable \in SUBSET Sources /\ Once(old.entries)
  BY <1>3 DEF Ahead, Behind
<1>6. Covers(old.entries, old.applicable)
  BY <1>3, <1>4, <1>5, OneLineEach
<1>7. /\ new.entries \in Seq(Line)
      /\ \A k \in DOMAIN new.entries : \E i \in DOMAIN old.entries : new.entries[k] = old.entries[i]
      /\ Covers(new.entries, new.applicable)
  BY <1>2, <1>3, <1>5, <1>6, SortedCovers
<1>8. \A i \in DOMAIN old.entries : ~old.entries[i].sent
  BY <1>1, <1>3 DEF ReceiptOK
<1>9. \A k \in DOMAIN new.entries : ~new.entries[k].sent
  BY <1>7, <1>8
<1>10. ReceiptOK(new)
  BY <1>2, <1>7, <1>9 DEF ReceiptOK
<1>11. BudgetOK(new)
  BY <1>1, <1>2, <1>3 DEF BudgetOK
<1>12. Wholly(new)
  BY <1>2, <1>10, <1>11 DEF Wholly
<1>13. QED  BY <1>1, <1>12, OneWholly

LEMMA HandoffWholly ==
  ASSUME ContextInv, CoverInv, NEW c \in Contexts, Handoff(c)
  PROVE  CoverInv'
<1> DEFINE old == contexts[c]
           new == contexts'[c]
<1>1. /\ old.phase = "ready" /\ ContextOK(old) /\ Wholly(old)
      /\ new = [old EXCEPT !.phase = "sent", !.entries = Marked(@, old.keys), !.keys = {}]
      /\ contexts' = [contexts EXCEPT ![c] = new]
      /\ summaries' = summaries
  BY DEF Handoff, ContextInv, ContextsOK, CoverInv
<1> HIDE DEF new
<1>2. /\ new.phase = "sent" /\ new.request = old.request /\ new.applicable = old.applicable
      /\ new.used = old.used /\ new.text = old.text
      /\ new.entries = Marked(old.entries, old.keys)
  BY <1>1 DEF ContextOK, IsContext
<1> HIDE DEF old
<1>3. ReceiptOK(old) /\ BudgetOK(old) /\ old.entries \in Seq(Line)
      /\ Covers(old.entries, old.applicable)
  BY <1>1 DEF Wholly, ReceiptOK
<1>4. SourcesIn(old.text) \cap Secrets = old.keys
  BY <1>1 DEF ContextOK, Unsent
<1>5. /\ new.entries \in Seq(Line)
      /\ DOMAIN new.entries = DOMAIN old.entries
      /\ \A i \in DOMAIN old.entries :
           /\ new.entries[i].secret = old.entries[i].secret
           /\ new.entries[i].key = old.entries[i].key
           /\ new.entries[i].sent = (old.entries[i].secret /\ old.entries[i].key \in old.keys)
      /\ \A S : Covers(old.entries, S) => Covers(new.entries, S)
  BY <1>2, <1>3, MarkedCovers
<1>6. ASSUME NEW i \in DOMAIN new.entries
      PROVE  new.entries[i].sent <=> /\ new.entries[i].secret
                                     /\ new.entries[i].key \in SourcesIn(new.text)
  <2>1. old.entries[i] \in Line
    BY <1>3, <1>5
  <2>2. old.entries[i].secret => old.entries[i].key \in Secrets
    BY <2>1 DEF Line, Secrets
  <2>3. old.entries[i].secret =>
          (old.entries[i].key \in old.keys <=> old.entries[i].key \in SourcesIn(old.text))
    BY <1>4, <2>2
  <2>4. /\ new.entries[i].secret = old.entries[i].secret
        /\ new.entries[i].key = old.entries[i].key
        /\ new.entries[i].sent = (old.entries[i].secret /\ old.entries[i].key \in old.keys)
    BY <1>5
  <2>5. QED  BY <1>2, <2>3, <2>4, Zenon
<1>7. Covers(new.entries, new.applicable)
  BY <1>2, <1>3, <1>5
<1>8. ReceiptOK(new)
  BY <1>2, <1>5, <1>6, <1>7 DEF ReceiptOK
<1>9. BudgetOK(new)
  BY <1>1, <1>2, <1>3 DEF BudgetOK
<1>10. Wholly(new)
  BY <1>2, <1>8, <1>9 DEF Wholly
<1>11. QED  BY <1>1, <1>10, OneWholly

\* The source a compilation stops at is the first to do, and cannot be selected.
LEMMA StopsAt ==
  ASSUME ContextInv, CoverInv, NEW c \in Contexts, Stop(c)
  PROVE  \E s \in Sources : \E r :
           /\ s = Head(contexts[c].todo) /\ contexts[c].todo # <<>>
           /\ contexts[c].phase = "compiling"
           /\ ~Selectable(contexts[c], s)
           /\ Entry[s].tier # "optional"
           /\ contexts' = [contexts EXCEPT ![c] = r]
           /\ summaries' = summaries
           /\ r.phase = "failed" /\ r.text = <<>> /\ r.applicable = contexts[c].applicable
           /\ r.entries = FailedReceipt(Append(contexts[c].entries, ReceiptEntry(s, "excluded")),
                                        contexts[c].applicable)
<1> DEFINE list(s) == FailedReceipt(Append(contexts[c].entries, ReceiptEntry(s, "excluded")),
                                    contexts[c].applicable)
           r == contexts'[c]
<1>1. PICK s \in Sources :
        /\ Compiling(c, s) /\ ~Selectable(contexts[c], s) /\ Entry[s].tier # "optional"
        /\ contexts' = [contexts EXCEPT
             ![c].phase = "failed", ![c].todo = <<>>, ![c].text = <<>>, ![c].keys = {},
             ![c].entries = FailedReceipt(Append(@, ReceiptEntry(s, "excluded")),
                                          contexts[c].applicable)]
        /\ summaries' = summaries
  BY DEF Stop
<1>2. contexts' = [contexts EXCEPT
             ![c].phase = "failed", ![c].todo = <<>>, ![c].text = <<>>, ![c].keys = {},
             ![c].entries = list(s)]
  BY <1>1 DEF ContextInv, ContextsOK, ContextOK, IsContext
<1> HIDE DEF list
<1>3. ContextOK(contexts[c]) /\ contexts = [d \in Contexts |-> contexts[d]]
  BY DEF ContextInv, ContextsOK
<1>4. /\ contexts' = [contexts EXCEPT ![c] = r]
      /\ r = [contexts[c] EXCEPT !.phase = "failed", !.todo = <<>>, !.text = <<>>,
                                 !.keys = {}, !.entries = list(s)]
  BY <1>2, <1>3
<1> HIDE DEF r
<1>5. r.phase = "failed" /\ r.text = <<>> /\ r.applicable = contexts[c].applicable /\ r.entries = list(s)
  BY <1>3, <1>4 DEF ContextOK, IsContext
<1>6. QED  BY <1>1, <1>4, <1>5 DEF Compiling, list

\* The receipt it would have had if it had gone on.
LEMMA StopTook ==
  ASSUME ContextInv, CoverInv, NEW c \in Contexts, contexts[c].phase = "compiling",
         NEW s, s = Head(contexts[c].todo), contexts[c].todo # <<>>
  PROVE  \E new : /\ Took(contexts[c], new, s)
                  /\ new.applicable = contexts[c].applicable
                  /\ new.entries = Append(contexts[c].entries, ReceiptEntry(s, "excluded"))
<1> DEFINE old == contexts[c]
           new == [old EXCEPT !.todo = Tail(@), !.entries = Append(@, ReceiptEntry(s, "excluded"))]
<1>1. ContextOK(old) /\ Wholly(old)
  BY DEF ContextInv, ContextsOK, CoverInv
<1>2. /\ new.request = old.request /\ new.applicable = old.applicable /\ new.todo = Tail(old.todo)
      /\ new.entries = Append(old.entries, ReceiptEntry(s, "excluded"))
  BY <1>1 DEF ContextOK, IsContext
<1> HIDE DEF new
<1>3. Ahead(old) /\ Behind(old) /\ old.entries \in Seq(Line)
  BY <1>1 DEF Wholly, ReceiptOK
<1>4. "excluded" \in {"raw", "compacted", "excluded"}
  OBVIOUS
<1> HIDE DEF old
<1>5. old.todo # <<>> /\ s = Head(old.todo)
  BY DEF old
<1>6. Took(old, new, s)
  BY <1>2, <1>3, <1>4, <1>5, TookOne
<1>7. QED  BY <1>2, <1>6 DEF old

LEMMA StopWholly ==
  ASSUME ContextInv, CoverInv, NEW c \in Contexts, Stop(c)
  PROVE  CoverInv'
<1>0. PICK s \in Sources : \E r :
        /\ s = Head(contexts[c].todo) /\ contexts[c].todo # <<>>
        /\ contexts[c].phase = "compiling"
        /\ contexts' = [contexts EXCEPT ![c] = r]
        /\ summaries' = summaries
        /\ r.phase = "failed" /\ r.text = <<>> /\ r.applicable = contexts[c].applicable
        /\ r.entries = FailedReceipt(Append(contexts[c].entries, ReceiptEntry(s, "excluded")),
                                     contexts[c].applicable)
  BY StopsAt
<1>1. PICK r :
        /\ s = Head(contexts[c].todo) /\ contexts[c].todo # <<>>
        /\ contexts[c].phase = "compiling"
        /\ contexts' = [contexts EXCEPT ![c] = r]
        /\ summaries' = summaries
        /\ r.phase = "failed" /\ r.text = <<>> /\ r.applicable = contexts[c].applicable
        /\ r.entries = FailedReceipt(Append(contexts[c].entries, ReceiptEntry(s, "excluded")),
                                     contexts[c].applicable)
  BY <1>0
<1> DEFINE old == contexts[c]
<1>2. PICK new : /\ Took(old, new, s)
                 /\ new.applicable = old.applicable
                 /\ new.entries = Append(old.entries, ReceiptEntry(s, "excluded"))
  BY <1>1, StopTook
<1> DEFINE list == new.entries
           S == old.applicable
<1>3. Wholly(old)
  BY DEF CoverInv
<1>4. S \in SUBSET Sources
  BY <1>1, <1>3 DEF Wholly, Ahead
<1>5. list \in Seq(Line) /\ Once(list) /\ KeysIn(list) \subseteq S
  BY <1>2 DEF Took
<1>6. \A i \in DOMAIN list : list[i].sent = FALSE
  <2>1. \A j \in DOMAIN old.entries : ~old.entries[j].sent /\ old.entries[j] \in Line
    BY <1>1, <1>3 DEF Wholly, ReceiptOK
  <2>2. \A j \in DOMAIN old.entries : old.entries[j].sent \in BOOLEAN
    BY <2>1 DEF Line
  <2>3. \A j \in DOMAIN old.entries : old.entries[j].sent = FALSE
    BY <2>1, <2>2
  <2>4. QED  BY <1>2, <2>3 DEF Took
<1>7. r.entries = FailedReceipt(list, S) /\ r.applicable = S
  BY <1>1, <1>2
<1> HIDE DEF list, S, old
<1>8. /\ FailedReceipt(list, S) \in Seq(Line) /\ Covers(FailedReceipt(list, S), S)
      /\ \A i \in DOMAIN FailedReceipt(list, S) : FailedReceipt(list, S)[i].sent = FALSE
  BY <1>4, <1>5, <1>6, FailedCovers
<1>9. ReceiptOK(r)
  BY <1>1, <1>7, <1>8 DEF ReceiptOK
<1>10. BudgetOK(r)
  BY <1>1 DEF BudgetOK
<1>11. Wholly(r)
  BY <1>1, <1>9, <1>10 DEF Wholly
<1>12. QED  BY <1>1, <1>11, OneWholly

\* Until an optional source was looked at, only needed ones are in the text.
LEMMA StopMust ==
  ASSUME ContextInv, CoverInv, NEW c \in Contexts, Stop(c)
  PROVE  MustStop(contexts[c])
<1> DEFINE old == contexts[c]
<1>1. PICK s \in Sources :
        /\ s = Head(old.todo) /\ old.todo # <<>> /\ old.phase = "compiling"
        /\ ~Selectable(old, s) /\ Entry[s].tier # "optional"
  BY StopsAt
<1>2. ContextOK(old) /\ Wholly(old)
  BY DEF ContextInv, ContextsOK, CoverInv
<1>3. PICK new : Took(old, new, s)
  BY <1>1, StopTook
<1> DEFINE form == FormOf(old, s)
           S == SourcesIn(old.text)
           budget == old.request.budget
<1>4. s \in Needed(old) /\ old.applicable \subseteq Sources /\ budget \in Nat
  BY <1>1, <1>2, <1>3 DEF Took, Needed, Wholly, Ahead
<1>5. S \in SUBSET Needed(old) /\ s \notin S
  <2>1. KeysIn(old.entries) \subseteq Needed(old) /\ s \notin KeysIn(old.entries)
    BY <1>3, <1>4 DEF Took
  <2>2. S \subseteq KeysIn(old.entries)
    BY <1>1, <1>2 DEF Wholly, Behind
  <2>3. QED  BY <2>1, <2>2
<1>6. old.used = SumFunctionOnSet(NeededSizes(old), S)
  BY <1>1, <1>2, <1>5 DEF Wholly, Behind
<1>7. SizeOf(s, form) = SizeOf(s, NeededForm(s)) /\ SizeOf(s, form) \in Nat
  BY <1>1, SelectedSize
<1>8. s \notin old.keys
  BY <1>1, <1>2, <1>5 DEF ContextOK, Unsent
<1> HIDE DEF old, form, S
<1>9. CASE s \notin held
  BY <1>4, <1>9 DEF MustStop, old
<1>10. CASE ~Confirmed(s)
  <2>1. Secret(s) /\ s \notin available \cup old.keys
    BY <1>8, <1>10 DEF Confirmed
  <2>2. QED  BY <1>4, <2>1 DEF MustStop, old
<1>11. CASE ~Fits(old, s, form)
  <2>1. ~(old.used + SizeOf(s, form) <= budget)
    BY <1>11 DEF Fits, form, old
  <2>2. /\ SumFunctionOnSet(NeededSizes(old), S) \in Nat
        /\ SumFunctionOnSet(NeededSizes(old), Needed(old)) \in Nat
        /\ SumFunctionOnSet(NeededSizes(old), S \cup {s})
             = SumFunctionOnSet(NeededSizes(old), S) + SizeOf(s, NeededForm(s))
        /\ SumFunctionOnSet(NeededSizes(old), S \cup {s})
             <= SumFunctionOnSet(NeededSizes(old), Needed(old))
    BY <1>4, <1>5, NeededAdds
  <2>3. SumFunctionOnSet(NeededSizes(old), Needed(old)) > budget
    <3> HIDE DEF budget
    <3>1. QED  BY <1>4, <1>6, <1>7, <2>1, <2>2
  <2>4. QED  BY <2>3 DEF MustStop, old
<1>12. Fits(old, s, form) /\ Confirmed(s) /\ s \in held => Selectable(old, s)
  BY DEF Selectable, form
<1>13. QED  BY <1>1, <1>9, <1>10, <1>11, <1>12 DEF old

--------------------------------------------------------------------------------
(****************************************************************************)
(* The theorems about receipts.                                             *)
(****************************************************************************)
LEMMA DiscardWholly ==
  ASSUME ContextInv, CoverInv, NEW c \in Contexts, Discard(c)
  PROVE  CoverInv'
<1>1. contexts' = [contexts EXCEPT ![c] = Idle] /\ summaries' = summaries
  BY DEF Discard
<1>2. QED  BY <1>1, IdleWholly, OneWholly

LEMMA NextCover == ContextInv /\ CoverInv /\ [Next]_vars => CoverInv'
<1> SUFFICES ASSUME ContextInv, CoverInv, [Next]_vars PROVE CoverInv'
  OBVIOUS
<1>1. ASSUME NEW s \in Secrets, ConfirmSecretTransmission(s) PROVE CoverInv'
  BY <1>1, AllWholly DEF ConfirmSecretTransmission
<1>2. ASSUME NEW summary \in Summaries, WithSummary(summary) PROVE CoverInv'
  BY <1>2, AllWholly DEF WithSummary
<1>3. ASSUME NEW st \in Structures, WithStructure(st) PROVE CoverInv'
  BY <1>3, AllWholly DEF WithStructure
<1>4. ASSUME NEW c \in Contexts,
             \/ \E request \in Requests : Compile(c, request)
             \/ Select(c) \/ LeaveOut(c) \/ Stop(c) \/ Finish(c) \/ Handoff(c) \/ Discard(c)
      PROVE  CoverInv'
  BY <1>4, CompileWholly, SelectWholly, LeaveOutWholly, StopWholly, FinishWholly, HandoffWholly,
     DiscardWholly
<1>5. CASE UNCHANGED vars
  BY <1>5, AllWholly DEF vars
<1>6. QED  BY <1>1, <1>2, <1>3, <1>4, <1>5 DEF Next

\* A compilation that is under way fails at a needed source and nowhere else.
LEMMA FailsByStop ==
  ASSUME ContextInv, [Next]_vars, NEW c \in Contexts,
         contexts[c].phase = "compiling", contexts'[c].phase = "failed"
  PROVE  Stop(c)
<1>1. contexts' # contexts
  OBVIOUS
<1>2. \A d \in Contexts : IsContext(contexts[d])
  BY DEF ContextInv, ContextsOK, ContextOK
<1>3. contexts = [d \in Contexts |-> contexts[d]]
  BY DEF ContextInv, ContextsOK
<1>4. PICK d \in Contexts :
        \/ \E request \in Requests : Compile(d, request)
        \/ Select(d) \/ LeaveOut(d) \/ Stop(d) \/ Finish(d) \/ Handoff(d) \/ Discard(d)
  <2>1. Next
    BY <1>1 DEF vars
  <2>2. ASSUME NEW s \in Secrets, ConfirmSecretTransmission(s) PROVE FALSE
    BY <1>1, <2>2 DEF ConfirmSecretTransmission
  <2>3. ASSUME NEW summary \in Summaries, WithSummary(summary) PROVE FALSE
    BY <1>1, <2>3 DEF WithSummary
  <2>4. ASSUME NEW st \in Structures, WithStructure(st) PROVE FALSE
    BY <1>1, <2>4 DEF WithStructure
  <2>5. QED  BY <2>1, <2>2, <2>3, <2>4 DEF Next
<1>5. ASSUME d # c PROVE contexts'[c] = contexts[c]
  <2>1. CASE \E request \in Requests : Compile(d, request)
    BY <1>3, <1>5, <2>1 DEF Compile
  <2>2. CASE Select(d)
    BY <1>3, <1>5, <2>2 DEF Select
  <2>3. CASE LeaveOut(d)
    BY <1>3, <1>5, <2>3 DEF LeaveOut
  <2>4. CASE Stop(d)
    BY <1>3, <1>5, <2>4 DEF Stop
  <2>5. CASE Finish(d)
    BY <1>3, <1>5, <2>5 DEF Finish
  <2>6. CASE Handoff(d)
    BY <1>3, <1>5, <2>6 DEF Handoff
  <2>7. CASE Discard(d)
    BY <1>3, <1>5, <2>7 DEF Discard
  <2>8. QED  BY <1>4, <2>1, <2>2, <2>3, <2>4, <2>5, <2>6, <2>7
<1>6. d = c
  BY <1>5
<1>7. ~\E request \in Requests : Compile(c, request)
  BY DEF Compile
<1>8. ~Select(c)
  <2>1. ASSUME Select(c) PROVE contexts'[c].phase = contexts[c].phase
    BY <1>2, <1>3, <2>1 DEF Select, IsContext
  <2>2. QED  BY <2>1
<1>9. ~LeaveOut(c)
  <2>1. ASSUME LeaveOut(c) PROVE contexts'[c].phase = contexts[c].phase
    BY <1>2, <1>3, <2>1 DEF LeaveOut, IsContext
  <2>2. QED  BY <2>1
<1>10. ~Finish(c)
  <2>1. ASSUME Finish(c) PROVE contexts'[c].phase = "ready"
    BY <1>2, <1>3, <2>1 DEF Finish, IsContext
  <2>2. QED  BY <2>1
<1>11. ~Handoff(c) /\ ~Discard(c)
  BY DEF Handoff, Discard
<1>12. QED  BY <1>4, <1>6, <1>7, <1>8, <1>9, <1>10, <1>11

\* The target and what it lies in, level by level.
LEMMA AncestorsAre ==
  ASSUME NEW st, WellFormed(st), st # None, NEW t
  PROVE  TargetAndAncestors(st, t)
           = {t, Above(st, t), Above(st, Above(st, t)), Above(st, Above(st, Above(st, t)))}
<1> DEFINE B == DOMAIN st.boxes
           S == DOMAIN st.scenes
           C == DOMAIN st.chapters
           P == st.parts
<1>1. /\ \A x \in B : st.boxes[x] \in S
      /\ \A x \in S : st.scenes[x] \in C
      /\ \A x \in C : st.chapters[x] \in P
  BY DEF WellFormed
<1>2. /\ \A x \in B : x \notin S /\ x \notin C /\ x \notin P
      /\ \A x \in S : x \notin C /\ x \notin P
      /\ \A x \in C : x \notin P
      /\ None \notin S /\ None \notin C /\ None \notin P
  BY DEF WellFormed
<1>3. \A x : Above(st, x) = IF x \in B THEN st.boxes[x]
                            ELSE IF x \in S THEN st.scenes[x]
                            ELSE IF x \in C THEN st.chapters[x] ELSE x
  BY DEF Above
<1>4. TargetAndAncestors(st, t) = {t} \cup ({SceneOf(st, t), ChapterOf(st, t), PartOf(st, t)} \ {None})
  BY DEF TargetAndAncestors, AncestorIds
<1>5. CASE t \in B
  <2> DEFINE s == st.boxes[t]
             c == st.scenes[s]
             p == st.chapters[c]
  <2>1. s \in S /\ c \in C /\ p \in P
    BY <1>1, <1>5
  <2>2. SceneOf(st, t) = s /\ ChapterOf(st, t) = c /\ PartOf(st, t) = p
    BY <1>5, <2>1 DEF SceneOf, ChapterOf, PartOf
  <2>3. s # None /\ c # None /\ p # None
    BY <1>2, <2>1
  <2>4. Above(st, t) = s /\ Above(st, s) = c /\ Above(st, c) = p
    BY <1>2, <1>3, <1>5, <2>1
  <2> HIDE DEF s, c, p
  <2>5. QED  BY <1>4, <2>2, <2>3, <2>4
<1>6. CASE t \in S
  <2> DEFINE c == st.scenes[t]
             p == st.chapters[c]
  <2>1. t \notin B /\ c \in C /\ p \in P
    BY <1>1, <1>2, <1>6
  <2>2. SceneOf(st, t) = t /\ ChapterOf(st, t) = c /\ PartOf(st, t) = p
    BY <1>6, <2>1 DEF SceneOf, ChapterOf, PartOf
  <2>3. t # None /\ c # None /\ p # None
    BY <1>2, <1>6, <2>1
  <2>4. Above(st, t) = c /\ Above(st, c) = p /\ Above(st, p) = p
    BY <1>2, <1>3, <1>6, <2>1
  <2> HIDE DEF c, p
  <2>5. QED  BY <1>4, <2>2, <2>3, <2>4
<1>7. CASE t \in C
  <2> DEFINE p == st.chapters[t]
  <2>1. t \notin B /\ t \notin S /\ p \in P
    BY <1>1, <1>2, <1>7
  <2>2. SceneOf(st, t) = None /\ ChapterOf(st, t) = t /\ PartOf(st, t) = p
    BY <1>2, <1>7, <2>1 DEF SceneOf, ChapterOf, PartOf
  <2>3. t # None /\ p # None
    BY <1>2, <1>7, <2>1
  <2>4. Above(st, t) = p /\ Above(st, p) = p
    BY <1>2, <1>3, <1>7, <2>1
  <2> HIDE DEF p
  <2>5. QED  BY <1>4, <2>2, <2>3, <2>4
<1>8. CASE t \notin B /\ t \notin S /\ t \notin C
  <2>1. SceneOf(st, t) = None /\ ChapterOf(st, t) = None /\ PartOf(st, t) \in {t, None}
    BY <1>2, <1>8 DEF SceneOf, ChapterOf, PartOf
  <2>2. Above(st, t) = t
    BY <1>3, <1>8
  <2>3. QED  BY <1>4, <2>1, <2>2
<1>9. QED  BY <1>5, <1>6, <1>7, <1>8

LEMMA AncestryHolds == ContextInv => ScopeIsAncestry
<1> SUFFICES ASSUME ContextInv, structure # None, NEW request \in Requests, NEW s \in Sources,
                    Entry[s].scope.level \in {"part", "chapter", "scene"},
                    ScopeResolves(structure, request, Scopes)
             PROVE  s \in Applicable(request) <=>
                      Entry[s].scope.id \in
                        {request.target, Above(structure, request.target),
                         Above(structure, Above(structure, request.target)),
                         Above(structure, Above(structure, Above(structure, request.target)))}
  BY DEF ScopeIsAncestry
<1>1. WellFormed(structure)
  <2>1. structure \in Structures
    BY DEF ContextInv, SetsOK
  <2>2. structure.valid
    BY DEF ScopeResolves
  <2>3. QED  BY <2>1, <2>2, StructuresAssumption
<1>2. s \in Applicable(request)
        <=> Entry[s].scope.id \in TargetAndAncestors(structure, request.target)
  BY DEF Applicable, AppliesTo
<1>3. QED  BY <1>1, <1>2, AncestorsAre

\* An optional source never keeps out a needed one.
THEOREM OptionalKeepsNoneOut == Spec => OptionalNeverDisplaces
<1>1. ContextInv /\ CoverInv /\ [Next]_vars =>
        [\A c \in Contexts :
           contexts[c].phase = "compiling" /\ contexts'[c].phase = "failed" => MustStop(contexts[c])]_vars
  BY FailsByStop, StopMust
<1>2. QED
  BY <1>1, InitInv, NextInv, InitCover, NextCover, PTL DEF Spec, OptionalNeverDisplaces

\* A receipt has a line for each applicable source, and they are those the target lies in.
THEOREM ReceiptsAreTrue == Spec => []ReceiptIsTrue
<1>1. ContextInv /\ CoverInv => ReceiptCoversAll
  <2> SUFFICES ASSUME CoverInv, NEW c \in Contexts, contexts[c].phase \in {"failed", "ready", "sent"}
               PROVE  /\ Len(contexts[c].entries) = Cardinality(contexts[c].applicable)
                      /\ \A s \in contexts[c].applicable :
                           Cardinality(EntriesShowing(contexts[c].entries, s)) =
                             Cardinality({x \in contexts[c].applicable :
                                            Secret(x) = Secret(s) /\ Shown(x) = Shown(s)})
    BY DEF ReceiptCoversAll
  <2>1. Covers(contexts[c].entries, contexts[c].applicable)
    BY DEF CoverInv, Wholly, ReceiptOK
  <2>2. QED  BY <2>1 DEF Covers, Like
<1>2. ContextInv /\ CoverInv => ReceiptTellsTransmission
  BY DEF CoverInv, Wholly, ReceiptOK, ReceiptTellsTransmission
<1>3. ContextInv /\ CoverInv => WithinBudget
  BY DEF CoverInv, Wholly, BudgetOK, WithinBudget
<1>4. ContextInv => TypeOK
  BY DEF ContextInv, SetsOK, ContextsOK, ContextOK, CountsOK, TypeOK
<1>5. ContextInv /\ CoverInv => ReceiptIsTrue
  BY <1>1, <1>2, <1>3, <1>4, AncestryHolds DEF ReceiptIsTrue
<1>6. QED
  BY <1>5, InitInv, NextInv, InitCover, NextCover, PTL DEF Spec

--------------------------------------------------------------------------------
(****************************************************************************)
(* A fetched page: what was asked for is the chain and, once it was asked,  *)
(* the current URL.                                                         *)
(****************************************************************************)
WebTypes ==
  /\ Web!TypeOK
  /\ chain \in Seq(Public) /\ asked \in Seq(Public)
  /\ initial \in Urls /\ current \in Urls

Route ==
  /\ pc = "new" => chain = <<>> /\ asked = <<>>
  /\ pc = "ask" => asked = chain /\ current \in Public
  /\ pc \in {"answer", "body", "done"} => asked = Append(chain, current)
  /\ Len(chain) <= MaxRedirects /\ Len(asked) <= MaxRedirects + 1
  /\ IF chain = <<>> THEN current = initial ELSE chain[1] = initial

AskedOnce ==
  /\ visited = {asked[i] : i \in DOMAIN asked}
  /\ \A i, j \in DOMAIN asked : asked[i] = asked[j] => i = j

Held ==
  /\ body <= MaxBytes
  /\ pc = "done" => metadata = IF secret THEN None ELSE Web!Metadata

WebInv == WebTypes /\ Route /\ AskedOnce /\ Held

LEMMA WebInit == Web!Init => WebInv
<1> SUFFICES ASSUME Web!Limits, Web!Init PROVE WebInv
  BY WebAssumption
<1>1. <<>> \in Seq(Public) /\ <<>> \in Seq(Urls) /\ Len(<<>>) = 0 /\ DOMAIN <<>> = {}
  OBVIOUS
<1>2. WebTypes
  BY <1>1 DEF Web!Init, Web!TypeOK, WebTypes
<1>3. Route
  BY <1>1 DEF Web!Init, Web!Limits, Route
<1>4. AskedOnce
  BY <1>1 DEF Web!Init, AskedOnce
<1>5. Held
  BY DEF Web!Init, Web!Limits, Held
<1>6. QED
  BY <1>2, <1>3, <1>4, <1>5 DEF WebInv

\* A fetch that fails keeps what it has.
LEMMA FailKeeps == WebInv /\ Web!Fail => WebInv'
BY DEF WebInv, WebTypes, Web!TypeOK, Route, AskedOnce, Held, Web!Fail, Web!Go

LEMMA AskKeeps == WebInv /\ Web!Ask => WebInv'
<1> SUFFICES ASSUME WebInv, Web!Ask, ~Web!Fail PROVE WebInv'
  BY FailKeeps
<1>1. /\ pc = "ask" /\ pc' = "answer" /\ current \notin visited
      /\ visited' = visited \cup {current} /\ asked' = Append(asked, current)
      /\ UNCHANGED <<initial, current, chain, body, secret, metadata>>
  BY DEF Web!Ask, Web!Go
<1>2. asked = chain /\ current \in Public /\ asked \in Seq(Public)
  BY <1>1 DEF WebInv, Route, WebTypes
<1>3. /\ asked' \in Seq(Public) /\ Len(asked') = Len(asked) + 1
      /\ DOMAIN asked = 1 .. Len(asked) /\ DOMAIN asked' = 1 .. Len(asked) + 1
      /\ \A i \in 1 .. Len(asked) : asked'[i] = asked[i]
      /\ asked'[Len(asked) + 1] = current
      /\ Len(asked) \in Nat
  BY <1>1, <1>2, Longer DEF WebInv
<1>4. WebTypes'
  BY <1>1, <1>2, <1>3 DEF WebInv, WebTypes, Web!TypeOK
<1>5. Route'
  <2>1. Len(asked) <= MaxRedirects /\ MaxRedirects \in Nat
    BY <1>2, WebAssumption DEF WebInv, Route, Web!Limits
  <2>2. Len(asked') <= MaxRedirects + 1
    BY <1>3, <2>1
  <2>3. QED
    BY <1>1, <1>2, <2>2 DEF WebInv, Route
<1>6. AskedOnce'
  <2>1. visited = {asked[i] : i \in DOMAIN asked}
    BY DEF WebInv, AskedOnce
  <2>2. visited' = {asked'[i] : i \in DOMAIN asked'}
    BY <1>1, <1>3, <2>1
  <2>3. \A i \in DOMAIN asked : asked'[i] # current
    BY <1>1, <1>3, <2>1
  <2>4. ASSUME NEW i \in DOMAIN asked', NEW j \in DOMAIN asked', asked'[i] = asked'[j]
        PROVE  i = j
    <3>1. (i \in DOMAIN asked \/ i = Len(asked) + 1) /\ (j \in DOMAIN asked \/ j = Len(asked) + 1)
      BY <1>3
    <3>2. QED
      BY <1>3, <2>3, <2>4, <3>1 DEF WebInv, AskedOnce
  <2>5. QED
    BY <2>2, <2>4 DEF AskedOnce
<1>7. Held'
  BY <1>1 DEF WebInv, Held
<1>8. QED
  BY <1>4, <1>5, <1>6, <1>7 DEF WebInv

LEMMA RedirectKeeps == ASSUME WebInv, NEW url \in Urls \cup {None}, Web!Redirect(url) PROVE WebInv'
<1> SUFFICES ASSUME ~Web!Fail PROVE WebInv'
  BY FailKeeps
<1>1. /\ pc = "answer" /\ pc' = "ask" /\ chain' = Append(chain, current) /\ current' = url
      /\ url \in Public /\ Len(Append(chain, current)) <= MaxRedirects
      /\ UNCHANGED <<initial, visited, body, secret, metadata, asked>>
  BY DEF Web!Redirect, Web!Go, Web!Target, Web!Safe, Web!Allowed
<1>2. asked = chain' /\ Public \subseteq Urls
  BY <1>1, WebAssumption DEF WebInv, Route, Web!Limits
<1>3. /\ chain \in Seq(Public) /\ chain' \in Seq(Public) /\ chain' # <<>>
  BY <1>1, <1>2 DEF WebInv, WebTypes, Route
<1>4. chain'[1] = initial
  <2>1. CASE chain = <<>>
    BY <2>1, <1>1 DEF WebInv, Route
  <2>2. CASE chain # <<>>
    <3>1. Len(chain) >= 1 /\ chain[1] = initial
      BY <2>2, <1>3 DEF WebInv, Route
    <3>2. \A i \in 1 .. Len(chain) : chain'[i] = chain[i]
      BY <1>1, <1>3 DEF WebInv, WebTypes
    <3>3. QED
      BY <3>1, <3>2, <1>3
  <2>3. QED
    BY <2>1, <2>2
<1>5. WebTypes'
  BY <1>1, <1>2, <1>3 DEF WebInv, WebTypes, Web!TypeOK
<1>6. Route'
  BY <1>1, <1>2, <1>3, <1>4 DEF WebInv, Route
<1>7. AskedOnce' /\ Held'
  BY <1>1 DEF WebInv, AskedOnce, Held
<1>8. QED
  BY <1>5, <1>6, <1>7 DEF WebInv

LEMMA WebNext == WebInv /\ (Web!Next \/ UNCHANGED webVars) => WebInv'
<1> SUFFICES ASSUME WebInv, Web!Next \/ UNCHANGED webVars PROVE WebInv'
  OBVIOUS
<1>1. CASE Web!Start
  <2> SUFFICES ASSUME ~Web!Fail PROVE WebInv'
    BY FailKeeps
  <2>1. /\ pc = "new" /\ pc' = "ask" /\ initial \in Public
        /\ UNCHANGED <<initial, current, chain, visited, body, secret, metadata, asked>>
    BY <1>1 DEF Web!Start, Web!Go, Web!Safe
  <2>2. QED
    BY <2>1 DEF WebInv, WebTypes, Web!TypeOK, Route, AskedOnce, Held
<1>2. CASE Web!Ask
  BY <1>2, AskKeeps
<1>3. CASE Web!Refused
  BY <1>3, FailKeeps DEF Web!Refused
<1>4. CASE Web!Finish
  <2> SUFFICES ASSUME ~Web!Fail PROVE WebInv'
    BY FailKeeps
  <2>1. /\ pc = "body" /\ pc' = "done" /\ metadata' = IF secret THEN None ELSE Web!Metadata
        /\ UNCHANGED <<initial, current, chain, visited, body, secret, asked>>
    BY <1>4 DEF Web!Finish, Web!Go
  <2>2. QED
    BY <2>1 DEF WebInv, WebTypes, Web!TypeOK, Route, AskedOnce, Held, Web!Metadata
<1>5. CASE \E url \in Urls \cup {None} : Web!Redirect(url)
  BY <1>5, RedirectKeeps
<1>6. CASE \E declared \in {None} \cup 0 .. MaxBytes + 1 : Web!Succeeds(declared)
  <2> SUFFICES ASSUME ~Web!Fail PROVE WebInv'
    BY FailKeeps
  <2>1. /\ pc = "answer" /\ pc' = "body"
        /\ UNCHANGED <<initial, current, chain, visited, body, secret, metadata, asked>>
    BY <1>6 DEF Web!Succeeds, Web!Go
  <2>2. QED
    BY <2>1 DEF WebInv, WebTypes, Web!TypeOK, Route, AskedOnce, Held
<1>7. CASE \E size \in 1 .. MaxChunk : Web!Chunk(size)
  <2> SUFFICES ASSUME ~Web!Fail PROVE WebInv'
    BY FailKeeps
  <2>1. PICK size \in 1 .. MaxChunk : Web!Chunk(size)
    BY <1>7
  <2>2. /\ pc = "body" /\ body' = body + size /\ body + size <= MaxBytes
        /\ UNCHANGED <<pc, initial, current, chain, visited, secret, metadata, asked>>
    BY <2>1 DEF Web!Chunk, Web!Room
  <2>3. body' \in Nat
    BY <2>2, WebAssumption DEF WebInv, WebTypes, Web!TypeOK, Web!Limits
  <2>4. QED
    BY <2>2, <2>3 DEF WebInv, WebTypes, Web!TypeOK, Route, AskedOnce, Held
<1>8. CASE Web!Stopped \/ UNCHANGED webVars
  <2>1. UNCHANGED webVars
    BY <1>8 DEF Web!Stopped, Web!vars, webVars
  <2>2. QED
    BY <2>1 DEF webVars, WebInv, WebTypes, Web!TypeOK, Route, AskedOnce, Held, Web!Metadata
<1>9. QED
  BY <1>1, <1>2, <1>3, <1>4, <1>5, <1>6, <1>7, <1>8 DEF Web!Next

LEMMA WebPromises == WebInv => RouteIsChecked
<1> SUFFICES ASSUME WebInv PROVE RouteIsChecked
  OBVIOUS
<1>1. Web!TypeOK /\ Web!BodyWithinLimit
  BY DEF WebInv, WebTypes, Held, Web!BodyWithinLimit
<1>2. asked \in Seq(Public)
  BY DEF WebInv, WebTypes
<1>3. Web!RequestsAreChecked
  <2>1. \A i \in DOMAIN asked : asked[i] \in Public
    BY <1>2
  <2>2. QED
    BY <2>1 DEF WebInv, Route, AskedOnce, Web!RequestsAreChecked, Web!Range, Web!IsInjective
<1>4. Web!ProvenanceIsTheRoute
  <2> SUFFICES ASSUME pc = "done", ~secret PROVE Web!ProvenanceIsTheRoute
    BY DEF WebInv, Held, Web!ProvenanceIsTheRoute
  <2>1. /\ asked = Append(chain, current) /\ chain \in Seq(Public)
        /\ metadata = [initial |-> initial, final |-> current, chain |-> Append(chain, current)]
    BY DEF WebInv, WebTypes, Route, Held, Web!Metadata
  <2>2. asked[1] = initial
    <3>1. CASE chain = <<>>
      BY <2>1, <3>1 DEF WebInv, Route
    <3>2. CASE chain # <<>>
      <4>1. Len(chain) \in Nat /\ Len(chain) >= 1 /\ chain[1] = initial
        BY <3>2, <2>1 DEF WebInv, Route
      <4>2. \A i \in 1 .. Len(chain) : asked[i] = chain[i]
        BY <2>1
      <4>3. QED
        BY <4>1, <4>2
    <3>3. QED
      BY <3>1, <3>2
  <2>3. Head(asked) = asked[1] /\ asked[Len(asked)] = current
    BY <1>2, <2>1
  <2>4. QED
    BY <2>1, <2>2, <2>3 DEF Web!ProvenanceIsTheRoute, Web!Last
<1>5. QED
  BY <1>1, <1>3, <1>4 DEF RouteIsChecked

\* A fetch asks for checked URLs only, for none twice and for no more than the redirects allow;
\* the metadata of its snapshot are the route it took, and it holds no more than max_bytes.
THEOREM CheckedRoute == KindSpec => []RouteIsChecked
<1>1. KindInit => WebInv
  BY WebInit DEF KindInit
<1>2. ASSUME WebInv, [KindNext]_<<kind, vars, grantVars, webVars, catalogVars>> PROVE WebInv'
  <2>1. Web!Next \/ UNCHANGED webVars
    BY <1>2 DEF KindNext, ContextStep, GrantStep, WebStep, CatalogStep
  <2>2. QED
    BY <1>2, <2>1, WebNext
<1>3. QED
  BY <1>1, <1>2, WebPromises, PTL DEF KindSpec

--------------------------------------------------------------------------------
(****************************************************************************)
(* The catalog: while nothing was damaged the artifacts of all snapshots    *)
(* that are not secret are there as they were written.                      *)
(****************************************************************************)
Stored(s) ==
  \A path \in DOMAIN Catalog!Artifacts(s) :
    path \in DOMAIN stored /\ stored[path] = Catalog!Artifacts(s)[path]

IsStore(store) ==
  \A path \in DOMAIN store : path[1] \in {"raw", "context.txt"} /\ path[2] \in Catalog!Raw

CatalogInv ==
  /\ snapshots \subseteq Catalog!Ingested
  /\ IsStore(stored)
  /\ damage \in 0 .. MaxDamage
  /\ loaded.state \in {"no", "loaded", "refused"}
  /\ \A pair \in loaded.found : pair[1] \in snapshots
  /\ Catalog!LoadedIsIngested
  /\ damage = 0 => \A s \in snapshots : Stored(s)
  /\ Catalog!AllAreFound

\* What ingestion makes of bytes, by kind.
LEMMA Kinds ==
  ASSUME NEW s \in Catalog!Ingested
  PROVE  /\ s = Catalog!Snapshot(s.kind, s.raw, s.content, s.secret, s.web)
         /\ s.raw \in Catalog!Raw /\ s.secret \in BOOLEAN
         /\ s.content \in {s.raw, Catalog!Converted(s.raw)}
         /\ s.kind # "web" => s.web = None
         /\ s.kind = "web" => /\ s.raw \in Pages /\ s.content = Catalog!Converted(s.raw)
                              /\ s.web = IF s.secret THEN None ELSE Catalog!WebMetadata(s.raw)
<1>1. CASE \E raw \in Texts \cup Pages, b \in BOOLEAN : s = Catalog!FromText(raw, b)
  BY <1>1 DEF Catalog!FromText, Catalog!Snapshot, Catalog!Raw
<1>2. CASE \E raw \in Pdfs, b \in BOOLEAN : s = Catalog!FromPdf(raw, b)
  BY <1>2 DEF Catalog!FromPdf, Catalog!Snapshot, Catalog!Raw
<1>3. CASE \E raw \in Pages, b \in BOOLEAN : s = Catalog!FromWeb(raw, b)
  BY <1>3 DEF Catalog!FromWeb, Catalog!Snapshot, Catalog!Raw
<1>4. QED
  BY <1>1, <1>2, <1>3 DEF Catalog!Ingested

LEMMA IngestedValidates == Catalog!EveryIngestedValidates
<1> SUFFICES ASSUME NEW s \in Catalog!Ingested
             PROVE  Catalog!Validates(Catalog!EntryOf(s))
  BY DEF Catalog!EveryIngestedValidates
<1>1. s.kind = "web" /\ ~s.secret => s.web # None
  BY Kinds, CatalogAssumption DEF Catalog!Limits
<1>2. s.web # None => s.web.raw_sha256 = s.raw /\ s.web.content_sha256 = s.content
  <2>1. CASE s.kind = "web" /\ ~s.secret
    <3>1. s.web = Catalog!WebMetadata(s.raw) /\ s.content = Catalog!Converted(s.raw)
      BY <2>1, Kinds
    <3>2. QED
      BY <3>1 DEF Catalog!WebMetadata
  <2>2. CASE ~(s.kind = "web" /\ ~s.secret)
    <3>1. s.web = None
      BY <2>2, Kinds
    <3>2. QED
      BY <3>1
  <2>3. QED
    BY <2>1, <2>2
<1>3. s.secret => s.web = None
  BY Kinds
<1>4. s.kind # "web" => s.web = None
  BY Kinds
<1>5. QED
  BY <1>1, <1>2, <1>3, <1>4
     DEF Catalog!Validates, Catalog!EntryOf, Catalog!Reference, Catalog!HasExpectedArtifactPaths

\* Artifacts with the same path have the same bytes, whatever they come from.
LEMMA PathsAgree ==
  ASSUME NEW s \in Catalog!Ingested, NEW x \in Catalog!Ingested, ~s.secret, ~x.secret,
         NEW path \in DOMAIN Catalog!Artifacts(s) \cap DOMAIN Catalog!Artifacts(x)
  PROVE  Catalog!Artifacts(s)[path] = Catalog!Artifacts(x)[path]
<1>1. s.content \in {s.raw, Catalog!Converted(s.raw)} /\ x.content \in {x.raw, Catalog!Converted(x.raw)}
  BY Kinds
<1>2. QED
  BY <1>1 DEF Catalog!Artifacts, Catalog!RawPath, Catalog!ContentPath

\* The artifacts of a snapshot that is not secret are its bytes and its text.
LEMMA ArtifactsOf ==
  ASSUME NEW s \in Catalog!Ingested, ~s.secret
  PROVE  LET raw == Catalog!RawPath(s.raw)
             text == Catalog!ContentPath(s.raw, s.content)
         IN  /\ DOMAIN Catalog!Artifacts(s) = {raw, text}
             /\ Catalog!Artifacts(s)[raw] = s.raw
             /\ Catalog!Artifacts(s)[text] = s.content
BY DEF Catalog!Artifacts, Catalog!RawPath, Catalog!ContentPath

\* A snapshot read back from its own artifacts is the snapshot.
LEMMA ReadBack ==
  ASSUME NEW s \in Catalog!Ingested, ~s.secret, Stored(s)
  PROVE  /\ Catalog!FromArtifacts(Catalog!EntryOf(s)) = s
         /\ Catalog!Readable(Catalog!EntryOf(s))
         /\ Catalog!MatchesEntry(s, Catalog!EntryOf(s))
<1> DEFINE raw == Catalog!RawPath(s.raw)
           text == Catalog!ContentPath(s.raw, s.content)
<1>1. {raw, text} \subseteq DOMAIN stored /\ stored[raw] = s.raw /\ stored[text] = s.content
  BY ArtifactsOf DEF Stored
<1>2. LET e == Catalog!EntryOf(s)
      IN  /\ e.kind = s.kind /\ e.web = s.web /\ e.expected_sha256 = s.raw
          /\ e.snapshot.ephemeral = s.secret /\ e.snapshot.content_sha256 = s.content
          /\ e.snapshot.raw_artifact = raw /\ e.snapshot.content_artifact = text
  BY DEF Catalog!EntryOf, Catalog!Reference
<1>3. s = Catalog!Snapshot(s.kind, s.raw, s.content, s.secret, s.web) /\ s.secret = FALSE
  BY Kinds
<1> HIDE DEF raw, text
<1>4. Catalog!FromArtifacts(Catalog!EntryOf(s)) = s
  BY <1>1, <1>2, <1>3 DEF Catalog!FromArtifacts, Catalog!Snapshot
<1>5. Catalog!Readable(Catalog!EntryOf(s))
  BY <1>1, <1>2, <1>3 DEF Catalog!Readable
<1>6. Catalog!MatchesEntry(s, Catalog!EntryOf(s))
  BY <1>2, Kinds DEF Catalog!MatchesEntry
<1>7. QED
  BY <1>4, <1>5, <1>6

\* What matches the entry of a snapshot, and was read from artifacts, is the snapshot.
LEMMA MatchIsSame ==
  ASSUME NEW s \in Catalog!Ingested, NEW x \in Catalog!Ingested,
         Catalog!MatchesEntry(Catalog!FromArtifacts(Catalog!EntryOf(x)), Catalog!EntryOf(s))
  PROVE  Catalog!FromArtifacts(Catalog!EntryOf(x)) = s /\ ~s.secret
<1> DEFINE f == Catalog!FromArtifacts(Catalog!EntryOf(x))
<1>1. f = Catalog!Snapshot(f.kind, f.raw, f.content, f.secret, f.web) /\ f.secret = FALSE
  BY DEF Catalog!FromArtifacts, Catalog!Snapshot
<1>2. LET e == Catalog!EntryOf(s)
      IN  /\ e.kind = s.kind /\ e.web = s.web /\ e.expected_sha256 = s.raw
          /\ e.snapshot.ephemeral = s.secret /\ e.snapshot.content_sha256 = s.content
  BY DEF Catalog!EntryOf, Catalog!Reference
<1>3. s = Catalog!Snapshot(s.kind, s.raw, s.content, s.secret, s.web)
  BY Kinds
<1> HIDE DEF f
<1>4. /\ f.raw = s.raw /\ f.content = s.content /\ f.kind = s.kind /\ f.secret = s.secret
      /\ f.web = s.web
  BY <1>2 DEF Catalog!MatchesEntry, f
<1>5. f = s
  BY <1>1, <1>3, <1>4
<1>6. QED
  BY <1>1, <1>4, <1>5 DEF f

LEMMA CatalogInit == Catalog!Init => CatalogInv
<1> SUFFICES ASSUME Catalog!Init PROVE CatalogInv
  OBVIOUS
<1>1. DOMAIN stored = {} /\ snapshots = {} /\ damage = 0 /\ loaded = Catalog!NotLoaded
  BY DEF Catalog!Init
<1>2. loaded.state = "no" /\ loaded.found = {}
  BY <1>1 DEF Catalog!NotLoaded
<1>3. QED
  BY <1>1, <1>2, CatalogAssumption
     DEF CatalogInv, IsStore, Catalog!LoadedIsIngested, Catalog!AllAreFound, Catalog!Limits

\* After a step that leaves nothing loaded the promises about what is loaded hold.
LEMMA NothingLoaded ==
  ASSUME loaded' = Catalog!NotLoaded
  PROVE  /\ loaded'.state = "no" /\ loaded'.found = {}
         /\ Catalog!LoadedIsIngested' /\ Catalog!AllAreFound'
<1>1. loaded'.state = "no" /\ loaded'.found = {}
  BY DEF Catalog!NotLoaded
<1>2. QED
  BY <1>1 DEF Catalog!LoadedIsIngested, Catalog!AllAreFound

LEMMA RegisterKeeps ==
  ASSUME CatalogInv, NEW s \in Catalog!Ingested, Catalog!Register(s)
  PROVE  CatalogInv'
<1> DEFINE new == Catalog!Artifacts(s)
<1>1. /\ snapshots' = snapshots \cup {s} /\ loaded' = Catalog!NotLoaded /\ damage' = damage
      /\ stored' = [path \in DOMAIN stored \cup DOMAIN new |->
                      IF path \in DOMAIN new THEN new[path] ELSE stored[path]]
  BY DEF Catalog!Register
<1>2. snapshots \subseteq Catalog!Ingested /\ snapshots' \subseteq Catalog!Ingested
  BY <1>1 DEF CatalogInv
<1>3. IsStore(stored')
  <2>1. ASSUME NEW path \in DOMAIN new
        PROVE  path[1] \in {"raw", "context.txt"} /\ path[2] \in Catalog!Raw
    <3>1. ~s.secret
      BY <2>1 DEF Catalog!Artifacts
    <3>2. s.raw \in Catalog!Raw
      BY Kinds
    <3>3. QED
      BY <2>1, <3>1, <3>2 DEF Catalog!Artifacts, Catalog!RawPath, Catalog!ContentPath
  <2>2. QED
    BY <1>1, <2>1 DEF CatalogInv, IsStore
<1>4. ASSUME damage = 0, NEW x \in snapshots' PROVE Stored(x)'
  <2>1. x \in Catalog!Ingested
    BY <1>2
  <2>2. ASSUME NEW path \in DOMAIN Catalog!Artifacts(x)
        PROVE  path \in DOMAIN stored' /\ stored'[path] = Catalog!Artifacts(x)[path]
    <3>1. CASE path \in DOMAIN new
      <4>1. ~s.secret /\ ~x.secret
        BY <2>2, <3>1 DEF Catalog!Artifacts
      <4>2. new[path] = Catalog!Artifacts(x)[path]
        BY <2>1, <2>2, <3>1, <4>1, PathsAgree
      <4>3. QED
        BY <1>1, <3>1, <4>2
    <3>2. CASE path \notin DOMAIN new
      <4>1. Stored(x)
        BY <1>1, <1>4, <2>2, <3>2 DEF CatalogInv
      <4>2. QED
        BY <1>1, <2>2, <3>2, <4>1 DEF Stored
    <3>3. QED
      BY <3>1, <3>2
  <2>3. QED
    BY <2>2 DEF Stored
<1>5. QED
  BY <1>1, <1>2, <1>3, <1>4, NothingLoaded DEF CatalogInv

LEMMA DamageKeeps ==
  ASSUME CatalogInv, NEW path \in DOMAIN stored, NEW bytes, Catalog!Damage(path, bytes)
  PROVE  CatalogInv'
<1>1. /\ damage < MaxDamage /\ damage' = damage + 1 /\ loaded' = Catalog!NotLoaded
      /\ snapshots' = snapshots
  BY DEF Catalog!Damage
<1>2. DOMAIN stored' \subseteq DOMAIN stored
  BY DEF Catalog!Damage, Catalog!Restrict
<1>3. IsStore(stored')
  BY <1>2 DEF CatalogInv, IsStore
<1>4. damage' \in 0 .. MaxDamage /\ damage' # 0
  BY <1>1, CatalogAssumption DEF CatalogInv, Catalog!Limits
<1>5. QED
  BY <1>1, <1>3, <1>4, NothingLoaded DEF CatalogInv

\* What a run finds.
LEMMA LoadKeeps ==
  ASSUME CatalogInv, Catalog!Load
  PROVE  CatalogInv'
<1>1. snapshots \subseteq Catalog!Ingested /\ UNCHANGED <<snapshots, stored, damage>>
  BY DEF CatalogInv, Catalog!Load
<1> DEFINE pairs == {pair \in snapshots \X Catalog!Found :
                       Catalog!MatchesEntry(pair[2], Catalog!EntryOf(pair[1]))}
           all == \A s \in snapshots :
                    (\E f \in Catalog!Found : f.raw = s.raw) =>
                      \E f \in Catalog!Found : Catalog!MatchesEntry(f, Catalog!EntryOf(s))
<1>2. loaded' = IF all THEN [state |-> "loaded", found |-> pairs]
                ELSE [state |-> "refused", found |-> {}]
  BY DEF Catalog!Load
<1>3. /\ loaded'.state \in {"loaded", "refused"}
      /\ loaded'.found = IF all THEN pairs ELSE {}
  BY <1>2
<1>4. ASSUME NEW pair \in pairs
      PROVE  pair[1] \in snapshots /\ pair[2] = pair[1] /\ ~pair[1].secret
  <2>1. PICK s \in snapshots, f \in Catalog!Found :
          pair = <<s, f>> /\ Catalog!MatchesEntry(f, Catalog!EntryOf(s))
    BY <1>4
  <2>2. PICK x \in snapshots : f = Catalog!FromArtifacts(Catalog!EntryOf(x))
    BY DEF Catalog!Found
  <2>3. f = s /\ ~s.secret
    BY <1>1, <2>1, <2>2, MatchIsSame
  <2>4. QED
    BY <2>1, <2>3
<1>5. /\ \A pair \in loaded'.found : pair[1] \in snapshots'
      /\ Catalog!LoadedIsIngested'
  BY <1>1, <1>3, <1>4 DEF Catalog!LoadedIsIngested
<1>6. ASSUME damage = 0, ~Catalog!SharedWithSecret, NEW s \in snapshots, ~s.secret
      PROVE  <<s, s>> \in loaded'.found
  <2>1. ASSUME NEW x \in snapshots, ~x.secret
        PROVE  /\ x \in Catalog!Found
               /\ Catalog!MatchesEntry(x, Catalog!EntryOf(x))
    <3>1. Stored(x) /\ x \in Catalog!Ingested
      BY <1>1, <1>6 DEF CatalogInv
    <3>2. QED
      BY <2>1, <3>1, ReadBack DEF Catalog!Found
  <2>2. ASSUME NEW x \in snapshots, NEW f \in Catalog!Found, f.raw = x.raw
        PROVE  ~x.secret
    <3>1. PICK y \in snapshots : /\ Catalog!Readable(Catalog!EntryOf(y))
                                 /\ f = Catalog!FromArtifacts(Catalog!EntryOf(y))
      BY DEF Catalog!Found
    <3>2. ~y.secret
      BY <3>1 DEF Catalog!Readable, Catalog!EntryOf, Catalog!Reference
    <3>3. f = y
      BY <1>1, <1>6, <3>1, <3>2, ReadBack DEF CatalogInv
    <3>4. QED
      BY <1>6, <2>2, <3>2, <3>3 DEF Catalog!SharedWithSecret
  <2>3. all
    BY <2>1, <2>2
  <2>4. <<s, s>> \in pairs
    BY <1>6, <2>1
  <2>5. QED
    BY <1>3, <2>3, <2>4
<1> HIDE DEF pairs, all
<1>7. Catalog!AllAreFound'
  BY <1>1, <1>6 DEF Catalog!AllAreFound, Catalog!SharedWithSecret
<1>8. damage = 0 => \A s \in snapshots' : Stored(s)'
  BY <1>1 DEF CatalogInv, Stored
<1>9. QED
  BY <1>1, <1>3, <1>5, <1>7, <1>8 DEF CatalogInv, IsStore

LEMMA CatalogStays == CatalogInv /\ UNCHANGED catalogVars => CatalogInv'
BY DEF catalogVars, CatalogInv, IsStore, Stored, Catalog!LoadedIsIngested, Catalog!AllAreFound,
       Catalog!SharedWithSecret

\* What was ingested is read back as it was or not at all, whatever happens to its artifacts, and
\* all of it is found while they are unharmed.
THEOREM FoundAsStored == KindSpec => []StoredIsFound
<1>1. KindInit => CatalogInv
  BY CatalogInit DEF KindInit
<1>2. ASSUME CatalogInv, [KindNext]_<<kind, vars, grantVars, webVars, catalogVars>> PROVE CatalogInv'
  <2>1. Catalog!Next \/ UNCHANGED catalogVars
    BY <1>2 DEF KindNext, ContextStep, GrantStep, WebStep, CatalogStep
  <2>2. QED
    BY <1>2, <2>1, CatalogStays, RegisterKeeps, DamageKeeps, LoadKeeps DEF Catalog!Next
<1>3. CatalogInv => StoredIsFound
  BY IngestedValidates DEF CatalogInv, IsStore, StoredIsFound, Catalog!TypeOK
<1>4. QED
  BY <1>1, <1>2, <1>3, PTL DEF KindSpec

--------------------------------------------------------------------------------
(****************************************************************************)
(* A grant.                                                                 *)
(****************************************************************************)
NamesOf(of) == Grant(of)!NameSet

\* The inode that is read under a name now.
Now(of, n) == IF of.kind = "file" THEN Grant(of)!HeldInode ELSE entries[n]

FilesOf(of) == [cells : Seq(of.bytes), stamp : Nat]

DiskOK(of) ==
  /\ disk \in Seq(FilesOf(of)) /\ Len(of.names) <= Len(disk)
  /\ clock \in 0 .. of.edits
  /\ \A i \in DOMAIN disk : disk[i].stamp <= clock
  /\ \A i \in DOMAIN disk : <<i, disk[i].stamp, disk[i].cells>> \in versions
  /\ entries \in [NamesOf(of) -> DOMAIN disk \cup {None, Link}]
  /\ offset \in [of.readers \cup {Grant(of)!Shared} -> Nat]

\* A fingerprint of one version of a file that is no newer than the file is now.
WholeIn(print, files, all) ==
  /\ print.inode \in DOMAIN files /\ print.stamp \in Nat
  /\ print.stamp <= files[print.inode].stamp
  /\ <<print.inode, print.stamp, print.sha256>> \in all

Whole(print) == WholeIn(print, disk, versions)

FrozenOK(of) ==
  frozen # None =>
    /\ DOMAIN frozen \subseteq NamesOf(of)
    /\ \A n \in DOMAIN frozen : Whole(frozen[n])

IsReader(x) ==
  x = [pass |-> x.pass, pc |-> x.pc, want |-> x.want, todo |-> x.todo, inode |-> x.inode,
       stamp |-> x.stamp, bytes |-> x.bytes, found |-> x.found, kept |-> x.kept, seen |-> x.seen]

Passes == {"idle", "freeze", "before", "file", "after", "returned", "refused"}

Resting == {"idle", "returned", "refused"}

Shape(of, x) ==
  /\ IsReader(x)
  /\ x.pass \in Passes
  /\ x.pc \in {"none", "enumerate", "open", "stat", "read"}
  /\ x.pc = "none" <=> x.pass \in Resting
  /\ x.todo \subseteq NamesOf(of) /\ DOMAIN x.found \subseteq NamesOf(of)
  /\ x.pc \in {"stat", "read"} => x.todo # {} /\ x.inode \in DOMAIN disk
  /\ x.pc = "read" =>
       /\ x.stamp \in Nat /\ x.stamp <= disk[x.inode].stamp
       /\ x.bytes \in Seq(of.bytes)

\* The reader that freezes is alone: the shared handle stands after the bytes it has.
Freezing(of, r) ==
  LET x == readers[r]
  IN  x.pass = "freeze" =>
        /\ frozen = None
        /\ \A s \in of.readers \ {r} : readers[s].pass = "idle"
        /\ \A n \in DOMAIN x.found : Whole(x.found[n])
        /\ x.pc = "read" =>
             /\ offset[Grant(of)!Handle(r)] = Len(x.bytes)
             /\ disk[x.inode].stamp = x.stamp =>
                  /\ Len(x.bytes) <= Len(disk[x.inode].cells)
                  /\ \A i \in 1 .. Len(x.bytes) : x.bytes[i] = disk[x.inode].cells[i]

Reading(x) ==
  /\ x.pass \in {"before", "file", "after", "returned"} => frozen # None
  /\ x.pass = "file" =>
       /\ x.want \in DOMAIN frozen /\ x.pc # "enumerate"
       /\ \/ x.todo = {x.want}
          \/ x.todo = {} /\ x.want \in DOMAIN x.found /\ x.found[x.want].sha256 = x.kept
  /\ x.pass \in {"after", "returned"} =>
       x.want \in DOMAIN frozen /\ x.kept = frozen[x.want].sha256

\* While the set is compared once more: what was seen of a granted file, what is there now, and
\* what the comparison has of it.
SeenOf(of, x, n) ==
  /\ x.seen[n] = <<x.seen[n][1], x.seen[n][2]>> /\ x.seen[n][2] \in Nat
  /\ Now(of, n) = frozen[n].inode => x.seen[n][1] = frozen[n].inode
  /\ x.seen[n][1] = frozen[n].inode =>
       frozen[n].stamp <= x.seen[n][2] /\ x.seen[n][2] <= disk[frozen[n].inode].stamp
  /\ x.pc \in {"stat", "read"} /\ n = Grant(of)!First(x.todo) /\ x.inode = frozen[n].inode =>
       x.seen[n][1] = frozen[n].inode /\ (x.pc = "read" => x.seen[n][2] <= x.stamp)
  /\ n \in DOMAIN x.found /\ x.found[n].inode = frozen[n].inode =>
       x.seen[n][1] = frozen[n].inode /\ x.seen[n][2] <= x.found[n].stamp

Seen(of, x) ==
  /\ x.pass = "after" => \A n \in DOMAIN frozen : SeenOf(of, x, n)
  /\ x.pass = "returned" =>
       \A n \in DOMAIN frozen : x.seen[n] = <<frozen[n].inode, frozen[n].stamp>>

Good(of, r) ==
  Shape(of, readers[r]) /\ Freezing(of, r) /\ Reading(readers[r]) /\ Seen(of, readers[r])

ReadersOK(of) ==
  /\ readers = [r \in of.readers |-> readers[r]]
  /\ \A r \in of.readers : Good(of, r)

GrantInv(of) == DiskOK(of) /\ FrozenOK(of) /\ ReadersOK(of)

LEMMA PlacesOK ==
  ASSUME NEW of, Grant(of)!Limits
  PROVE  /\ DOMAIN of.names = 1 .. Len(of.names) /\ Len(of.names) \in Nat
         /\ \A n \in NamesOf(of) : Grant(of)!Place(n) \in 1 .. Len(of.names)
         /\ of.kind = "file" => Grant(of)!HeldInode \in 1 .. Len(of.names)
<1>1. of.names \in Seq(Grant(of)!NameSet)
  BY DEF Grant!Limits
<1>2. DOMAIN of.names = 1 .. Len(of.names) /\ Len(of.names) \in Nat
  BY <1>1
<1>3. ASSUME NEW n \in NamesOf(of) PROVE Grant(of)!Place(n) \in 1 .. Len(of.names)
  <2>1. \E i \in DOMAIN of.names : of.names[i] = n
    BY DEF NamesOf, Grant!NameSet
  <2>2. QED
    BY <1>2, <2>1 DEF Grant!Place
<1>4. ASSUME of.kind = "file" PROVE Grant(of)!HeldInode \in 1 .. Len(of.names)
  <2>1. PICK n \in NamesOf(of) : of.granted = {n}
    BY <1>4 DEF Grant!Limits, NamesOf
  <2>2. QED
    BY <1>3, <2>1 DEF Grant!HeldInode
<1>5. QED
  BY <1>2, <1>3, <1>4

\* The next file is one of those that are left.
LEMMA FirstIn ==
  ASSUME NEW of, Grant(of)!Limits, NEW names \in SUBSET NamesOf(of), names # {}
  PROVE  Grant(of)!First(names) \in names
<1> DEFINE places == {Grant(of)!Place(n) : n \in names}
<1>1. places \subseteq Nat /\ places # {}
  BY PlacesOK
<1>2. PICK p \in places : \A q \in places : p <= q
  <2> HIDE DEF places
  <2>1. QED
    BY <1>1, Smallest
<1>3. PICK n \in names : p = Grant(of)!Place(n)
  BY <1>2
<1>4. \A m \in names : Grant(of)!Place(n) <= Grant(of)!Place(m)
  BY <1>2, <1>3
<1>5. QED
  BY <1>3, <1>4 DEF Grant!First

LEMMA GrantFirst ==
  ASSUME NEW of, Grant(of)!Limits, Grant(of)!Init
  PROVE  GrantInv(of)
<1>1. PICK cells \in of.first :
        /\ disk = [i \in DOMAIN of.names |-> [cells |-> cells, stamp |-> 0]]
        /\ entries = [n \in Grant(of)!NameSet |->
                        IF n \in of.granted THEN Grant(of)!Place(n) ELSE None]
        /\ clock = 0
        /\ offset = [h \in of.readers \cup {Grant(of)!Shared} |-> 0]
        /\ frozen = None
        /\ readers = [r \in of.readers |-> Grant(of)!Idle]
        /\ versions = {<<i, 0, cells>> : i \in DOMAIN of.names}
  BY DEF Grant!Init
<1>2. cells \in Seq(of.bytes) /\ of.edits \in Nat
  BY DEF Grant!Limits
<1>3. DOMAIN of.names = 1 .. Len(of.names) /\ Len(of.names) \in Nat
  BY PlacesOK
<1>4. DiskOK(of)
  <2>1. disk \in Seq(FilesOf(of)) /\ DOMAIN disk = 1 .. Len(of.names) /\ Len(disk) = Len(of.names)
    BY <1>1, <1>2, <1>3 DEF FilesOf
  <2>2. entries \in [NamesOf(of) -> DOMAIN disk \cup {None, Link}]
    BY <1>1, <2>1, PlacesOK DEF NamesOf
  <2>3. QED
    BY <1>1, <1>2, <1>3, <2>1, <2>2 DEF DiskOK
<1>5. ASSUME NEW r \in of.readers PROVE Good(of, r)
  <2>1. readers[r] = Grant(of)!Idle
    BY <1>1
  <2>2. QED
    BY <2>1 DEF Grant!Idle, Good, Shape, IsReader, Passes, Resting, Freezing, Reading, Seen
<1>6. QED
  BY <1>1, <1>4, <1>5 DEF GrantInv, FrozenOK, ReadersOK

-----------------------------------------------------------------------------
\* What other programs do: files grow, get new stamps, and names get new inodes or lose theirs.
Grows(of) ==
  /\ DiskOK(of)'
  /\ DOMAIN disk \subseteq DOMAIN disk'
  /\ \A i \in DOMAIN disk : disk'[i] = disk[i] \/ disk'[i].stamp = clock + 1
  /\ \A n \in NamesOf(of) : entries'[n] = entries[n] \/ entries'[n] \notin DOMAIN disk
  /\ versions \subseteq versions'
  /\ UNCHANGED <<frozen, readers, offset>>

\* A changed disk with all its versions.
LEMMA ChangeGrows ==
  ASSUME NEW of, Grant(of)!Limits, DiskOK(of), NEW newDisk \in Seq(FilesOf(of)),
         Grant(of)!Changed(newDisk),
         DOMAIN disk \subseteq DOMAIN newDisk, Len(disk) <= Len(newDisk),
         \A i \in DOMAIN disk : newDisk[i] = disk[i] \/ newDisk[i].stamp = clock + 1,
         \A i \in DOMAIN newDisk : newDisk[i].stamp <= clock + 1,
         entries' \in [NamesOf(of) -> DOMAIN newDisk \cup {None, Link}],
         \A n \in NamesOf(of) : entries'[n] = entries[n] \/ entries'[n] \notin DOMAIN disk
  PROVE  Grows(of)
<1>1. /\ clock < of.edits /\ clock' = clock + 1 /\ disk' = newDisk
      /\ versions' = versions \cup {<<i, newDisk[i].stamp, newDisk[i].cells>> : i \in DOMAIN newDisk}
      /\ UNCHANGED <<frozen, readers, offset>>
  BY DEF Grant!Changed
<1>2. of.edits \in Nat
  BY DEF Grant!Limits
<1>3. DiskOK(of)'
  <2>1. clock' \in 0 .. of.edits
    BY <1>1, <1>2 DEF DiskOK
  <2>2. \A i \in DOMAIN newDisk : <<i, newDisk[i].stamp, newDisk[i].cells>> \in versions'
    BY <1>1
  <2>3. Len(of.names) <= Len(newDisk)
    BY PlacesOK DEF DiskOK
  <2>4. QED
    BY <1>1, <2>1, <2>2, <2>3 DEF DiskOK
<1>4. QED
  BY <1>1, <1>3 DEF Grows

\* An inode with new contents and a new stamp.
LEMMA StampedFile ==
  ASSUME NEW of, Grant(of)!Limits, DiskOK(of), NEW i \in DOMAIN disk, NEW cells \in Seq(of.bytes)
  PROVE  LET new == Grant(of)!Stamped(i, cells)
         IN  /\ new \in Seq(FilesOf(of)) /\ DOMAIN new = DOMAIN disk /\ Len(new) = Len(disk)
             /\ \A j \in DOMAIN disk : new[j] = disk[j] \/ new[j].stamp = clock + 1
             /\ \A j \in DOMAIN disk : new[j].stamp <= clock + 1
<1> DEFINE file == [cells |-> cells, stamp |-> clock + 1]
           new == [disk EXCEPT ![i] = file]
<1>1. clock \in Nat /\ disk \in Seq(FilesOf(of))
  BY DEF DiskOK, Grant!Limits
<1>2. file \in FilesOf(of) /\ file.stamp = clock + 1
  BY <1>1 DEF FilesOf
<1> HIDE DEF file
<1>3. new \in Seq(FilesOf(of)) /\ DOMAIN new = DOMAIN disk /\ Len(new) = Len(disk)
  BY <1>1, <1>2
<1>4. \A j \in DOMAIN disk : new[j] = IF j = i THEN file ELSE disk[j]
  BY <1>1
<1>5. \A j \in DOMAIN disk : disk[j].stamp \in Nat /\ disk[j].stamp <= clock
  <2>1. \A j \in DOMAIN disk : disk[j] \in FilesOf(of)
    BY <1>1
  <2>2. QED
    BY <2>1 DEF DiskOK, FilesOf
<1>6. \A j \in DOMAIN disk : new[j].stamp <= clock + 1
  BY <1>1, <1>2, <1>4, <1>5
<1>7. QED
  BY <1>2, <1>3, <1>4, <1>6 DEF Grant!Stamped, file

LEMMA StampGrows ==
  ASSUME NEW of, Grant(of)!Limits, DiskOK(of), NEW i \in DOMAIN disk, NEW cells \in Seq(of.bytes),
         Grant(of)!Changed(Grant(of)!Stamped(i, cells)),
         entries' \in [NamesOf(of) -> DOMAIN disk \cup {None, Link}],
         \A n \in NamesOf(of) : entries'[n] = entries[n] \/ entries'[n] \notin DOMAIN disk
  PROVE  Grows(of)
<1> DEFINE new == Grant(of)!Stamped(i, cells)
<1>1. /\ new \in Seq(FilesOf(of)) /\ DOMAIN new = DOMAIN disk /\ Len(new) = Len(disk)
      /\ \A j \in DOMAIN disk : new[j] = disk[j] \/ new[j].stamp = clock + 1
      /\ \A j \in DOMAIN disk : new[j].stamp <= clock + 1
  BY StampedFile
<1>2. Len(disk) \in Nat /\ Grant(of)!Changed(new)
  BY DEF DiskOK
<1> HIDE DEF new
<1>3. Len(disk) <= Len(new)
  BY <1>1, <1>2
<1>4. QED
  BY <1>1, <1>2, <1>3, ChangeGrows

\* A file with one more cell, with another one, or with all but the last.
LEMMA OtherCells ==
  ASSUME NEW S, NEW cells \in Seq(S)
  PROVE  /\ \A v \in S : Append(cells, v) \in Seq(S)
         /\ \A i \in DOMAIN cells, v \in S : [cells EXCEPT ![i] = v] \in Seq(S)
         /\ cells # <<>> => SubSeq(cells, 1, Len(cells) - 1) \in Seq(S)
         /\ [1 .. 2 -> S] \subseteq Seq(S)
<1>1. \A v \in S : Append(cells, v) \in Seq(S)
  OBVIOUS
<1>2. \A i \in DOMAIN cells, v \in S : [cells EXCEPT ![i] = v] \in Seq(S)
  OBVIOUS
<1>3. cells # <<>> => SubSeq(cells, 1, Len(cells) - 1) \in Seq(S)
  OBVIOUS
<1>4. ASSUME NEW f \in [1 .. 2 -> S] PROVE f \in Seq(S)
  <2>1. \E k \in Nat : f \in [1 .. k -> S]
    OBVIOUS
  <2>2. QED
    BY <2>1
<1>5. QED
  BY <1>1, <1>2, <1>3, <1>4

LEMMA EditGrows ==
  ASSUME NEW of, Grant(of)!Limits, DiskOK(of), Grant(of)!Edit
  PROVE  Grows(of)
<1>1. PICK n \in NamesOf(of) :
        \/ \E i \in 1 .. 3, v \in of.bytes : Grant(of)!Overwrite(n, i, v)
        \/ \E v \in of.bytes : Grant(of)!Extend(n, v)
        \/ Grant(of)!Truncate(n)
        \/ \E cells \in Grant(of)!Cells : Grant(of)!Replace(n, cells)
        \/ Grant(of)!Unlink(n)
        \/ Grant(of)!PutLink(n)
  BY DEF Grant!Edit, NamesOf
<1>0. /\ disk \in Seq(FilesOf(of)) /\ DOMAIN disk = 1 .. Len(disk) /\ Len(disk) \in Nat
      /\ clock \in Nat
      /\ entries \in [NamesOf(of) -> DOMAIN disk \cup {None, Link}]
      /\ {None, Link} \cap Nat = {}
  BY DEF DiskOK, Grant!Limits
<1>2. \A i \in DOMAIN disk : disk[i].cells \in Seq(of.bytes) /\ disk[i].stamp \in Nat
  <2>1. \A i \in DOMAIN disk : disk[i] \in FilesOf(of)
    BY <1>0
  <2>2. QED
    BY <2>1 DEF FilesOf
<1>3. ASSUME NEW cells \in Seq(of.bytes), entries[n] \in DOMAIN disk,
             Grant(of)!Changed(Grant(of)!Stamped(entries[n], cells)), UNCHANGED entries
      PROVE  Grows(of)
  BY <1>0, <1>3, StampGrows, SMTT(30)
<1>4. ASSUME NEW target \in {None, Link}, Grant(of)!Changed(Grant(of)!Unlinked(n)),
             entries' = [entries EXCEPT ![n] = target]
      PROVE  Grows(of)
  <2>1. /\ entries' \in [NamesOf(of) -> DOMAIN disk \cup {None, Link}]
        /\ \A m \in NamesOf(of) : entries'[m] = entries[m] \/ entries'[m] \notin DOMAIN disk
    BY <1>0, <1>4
  <2>2. CASE entries[n] \in DOMAIN disk
    <3>1. Grant(of)!Unlinked(n) = Grant(of)!Stamped(entries[n], disk[entries[n]].cells)
      BY <2>2 DEF Grant!Unlinked, Grant!Inode
    <3>2. disk[entries[n]].cells \in Seq(of.bytes)
      BY <1>2, <2>2
    <3>3. QED
      BY <1>4, <2>1, <2>2, <3>1, <3>2, StampGrows, SMTT(30)
  <2>3. CASE entries[n] \notin DOMAIN disk
    <3>1. Grant(of)!Unlinked(n) = disk
      BY <2>3 DEF Grant!Unlinked, Grant!Inode
    <3>2. \A i \in DOMAIN disk : disk[i].stamp <= clock + 1
      BY <1>0, <1>2 DEF DiskOK
    <3>3. QED
      BY <1>0, <1>4, <2>1, <3>1, <3>2, ChangeGrows, SMTT(30)
  <2>4. QED
    BY <2>2, <2>3
<1>5. ASSUME NEW cells \in Grant(of)!Cells, Grant(of)!Replace(n, cells)
      PROVE  Grows(of)
  <2> DEFINE left == Grant(of)!Unlinked(n)
             file == [cells |-> cells, stamp |-> clock + 1]
             new == Append(left, file)
  <2>1. Grant(of)!Changed(new) /\ entries' = [entries EXCEPT ![n] = Len(disk) + 1]
    BY <1>5 DEF Grant!Replace
  <2>2. file \in FilesOf(of) /\ file.stamp = clock + 1
    <3>1. cells \in Seq(of.bytes)
      BY <1>5, OtherCells DEF Grant!Cells
    <3>2. QED
      BY <1>0, <3>1 DEF FilesOf
  <2>3. /\ left \in Seq(FilesOf(of)) /\ DOMAIN left = DOMAIN disk /\ Len(left) = Len(disk)
        /\ \A j \in DOMAIN disk : left[j] = disk[j] \/ left[j].stamp = clock + 1
        /\ \A j \in DOMAIN disk : left[j].stamp <= clock + 1
    <3>1. CASE entries[n] \in DOMAIN disk
      BY <1>2, <3>1, StampedFile DEF Grant!Unlinked, Grant!Inode
    <3>2. CASE entries[n] \notin DOMAIN disk
      <4>1. left = disk
        BY <3>2 DEF Grant!Unlinked, Grant!Inode
      <4>2. \A i \in DOMAIN disk : disk[i].stamp <= clock + 1
        BY <1>0, <1>2 DEF DiskOK
      <4>3. QED
        BY <1>0, <4>1, <4>2
    <3>3. QED
      BY <3>1, <3>2
  <2> HIDE DEF left, file
  <2>4. /\ new \in Seq(FilesOf(of)) /\ DOMAIN new = 1 .. Len(disk) + 1 /\ Len(new) = Len(disk) + 1
        /\ \A j \in DOMAIN disk : new[j] = left[j]
        /\ new[Len(disk) + 1] = file
    BY <1>0, <2>2, <2>3
  <2>5. DOMAIN disk \subseteq DOMAIN new /\ Len(disk) + 1 \notin DOMAIN disk
    BY <1>0, <2>4
  <2>6. /\ entries' \in [NamesOf(of) -> DOMAIN new \cup {None, Link}]
        /\ \A m \in NamesOf(of) : entries'[m] = entries[m] \/ entries'[m] \notin DOMAIN disk
    BY <1>0, <2>1, <2>4, <2>5
  <2>7. \A j \in DOMAIN new : new[j].stamp <= clock + 1
    <3>1. ASSUME NEW j \in DOMAIN new PROVE new[j].stamp <= clock + 1
      <4>1. CASE j \in DOMAIN disk
        BY <2>3, <2>4, <4>1
      <4>2. CASE j = Len(disk) + 1
        BY <1>0, <2>2, <2>4, <4>2
      <4>3. QED
        BY <1>0, <2>4, <4>1, <4>2
    <3>2. QED
      BY <3>1
  <2>8. \A j \in DOMAIN disk : new[j] = disk[j] \/ new[j].stamp = clock + 1
    BY <2>3, <2>4
  <2> HIDE DEF new
  <2>9. QED
    BY <1>0, <2>1, <2>4, <2>5, <2>6, <2>7, <2>8, ChangeGrows
<1>6. CASE \E i \in 1 .. 3, v \in of.bytes : Grant(of)!Overwrite(n, i, v)
  BY <1>2, <1>3, <1>6, OtherCells DEF Grant!Overwrite, Grant!Inode
<1>7. CASE \E v \in of.bytes : Grant(of)!Extend(n, v)
  BY <1>2, <1>3, <1>7, OtherCells DEF Grant!Extend, Grant!Inode
<1>8. CASE Grant(of)!Truncate(n)
  BY <1>2, <1>3, <1>8, OtherCells DEF Grant!Truncate, Grant!Inode
<1>9. CASE Grant(of)!Unlink(n) \/ Grant(of)!PutLink(n)
  BY <1>4, <1>9 DEF Grant!Unlink, Grant!PutLink
<1>10. QED
  BY <1>1, <1>5, <1>6, <1>7, <1>8, <1>9

LEMMA GrowKeeps ==
  ASSUME NEW of, GrantInv(of), Grows(of)
  PROVE  GrantInv(of)'
<1>0. /\ DiskOK(of)' /\ DOMAIN disk \subseteq DOMAIN disk'
      /\ versions \subseteq versions' /\ UNCHANGED <<frozen, readers, offset>>
      /\ clock \in Nat
  BY DEF Grows, GrantInv, DiskOK
<1>1. \A i \in DOMAIN disk : /\ disk[i].stamp \in Nat /\ disk[i].stamp <= clock
                             /\ disk'[i].stamp \in Nat
  <2>1. disk \in Seq(FilesOf(of)) /\ disk' \in Seq(FilesOf(of))
    BY <1>0 DEF GrantInv, DiskOK
  <2>2. \A i \in DOMAIN disk : disk[i] \in FilesOf(of) /\ disk'[i] \in FilesOf(of)
    BY <1>0, <2>1
  <2>3. QED
    BY <2>2 DEF FilesOf, GrantInv, DiskOK
<1>2. \A i \in DOMAIN disk : /\ disk[i].stamp <= disk'[i].stamp
                             /\ disk'[i].stamp <= clock => disk'[i] = disk[i]
  BY <1>0, <1>1 DEF Grows
<1>3. \A print : WholeIn(print, disk, versions) => WholeIn(print, disk', versions')
  BY <1>0, <1>1, <1>2 DEF WholeIn
<1>4. FrozenOK(of)'
  BY <1>0, <1>3 DEF GrantInv, FrozenOK, Whole, NamesOf, Grant!NameSet
<1>5. ASSUME NEW r \in of.readers PROVE Good(of, r)'
  <2> DEFINE x == readers[r]
  <2>0. Good(of, r) /\ x' = x
    BY <1>0 DEF GrantInv, ReadersOK
  <2>1. Shape(of, x)'
    <3>1. x.pc = "read" => x.stamp <= disk'[x.inode].stamp
      BY <1>1, <1>2, <2>0 DEF Good, Shape
    <3>2. QED
      BY <1>0, <2>0, <3>1 DEF Good, Shape, IsReader, NamesOf
  <2>2. Freezing(of, r)'
    <3> SUFFICES ASSUME x.pass = "freeze" PROVE Freezing(of, r)'
      BY <2>0 DEF Freezing
    <3>1. \A n \in DOMAIN x.found : WholeIn(x.found[n], disk', versions')
      BY <1>3, <2>0 DEF Good, Freezing, Whole
    <3>2. ASSUME x.pc = "read", disk'[x.inode].stamp = x.stamp
          PROVE  disk'[x.inode] = disk[x.inode]
      <4>1. x.inode \in DOMAIN disk /\ x.stamp <= disk[x.inode].stamp /\ x.stamp \in Nat
        BY <2>0, <3>2 DEF Good, Shape
      <4>2. QED
        BY <1>0, <1>1, <1>2, <3>2, <4>1
    <3>3. QED
      BY <1>0, <2>0, <3>1, <3>2 DEF Good, Freezing, Whole
  <2>3. Reading(x)'
    BY <1>0, <2>0 DEF Good, Reading
  <2>4. Seen(of, x)'
    <3>1. ASSUME x.pass = "after", NEW n \in DOMAIN frozen PROVE SeenOf(of, x, n)'
      <4>1. frozen # None /\ n \in NamesOf(of) /\ Whole(frozen[n]) /\ SeenOf(of, x, n)
        BY <2>0, <3>1 DEF Good, Reading, Seen, GrantInv, FrozenOK
      <4>2. frozen[n].inode \in DOMAIN disk /\ frozen[n].stamp \in Nat /\ x.seen[n][2] \in Nat
        BY <4>1 DEF Whole, WholeIn, SeenOf
      <4>3. Now(of, n)' = frozen[n].inode => Now(of, n) = frozen[n].inode
        BY <4>1, <4>2 DEF Now, Grows, Grant!HeldInode, Grant!Place
      <4>4. x.seen[n][1] = frozen[n].inode => x.seen[n][2] <= disk'[frozen[n].inode].stamp
        BY <1>1, <1>2, <4>1, <4>2 DEF SeenOf
      <4>5. QED
        BY <1>0, <2>0, <4>1, <4>3, <4>4 DEF SeenOf, Grant!First, Grant!Place
    <3>2. QED
      BY <1>0, <2>0, <3>1 DEF Good, Seen
  <2>5. QED
    BY <2>1, <2>2, <2>3, <2>4 DEF Good
<1>6. QED
  BY <1>0, <1>4, <1>5 DEF GrantInv, ReadersOK

-----------------------------------------------------------------------------
\* One reader changes; no other is freezing, so none depends on the shared handle.
LEMMA OneReader ==
  ASSUME NEW of, GrantInv(of), NEW r \in of.readers, NEW x, readers' = [readers EXCEPT ![r] = x],
         UNCHANGED <<disk, entries, clock, versions, frozen>>,
         offset' \in [of.readers \cup {Grant(of)!Shared} -> Nat],
         \A s \in of.readers \ {r} : readers[s].pass # "freeze",
         readers'[r] = x => Good(of, r)'
  PROVE  GrantInv(of)'
<1>1. readers = [s \in of.readers |-> readers[s]]
  BY DEF GrantInv, ReadersOK
<1>2. readers' = [s \in of.readers |-> IF s = r THEN x ELSE readers[s]]
  BY <1>1
<1>3. ASSUME NEW s \in of.readers \ {r} PROVE Good(of, s)'
  <2>1. Good(of, s) /\ readers'[s] = readers[s] /\ readers[s].pass # "freeze"
    BY <1>2 DEF GrantInv, ReadersOK
  <2>2. Shape(of, readers[s])'
    BY <2>1 DEF Good, Shape, IsReader, NamesOf, Grant!NameSet
  <2>3. Freezing(of, s)' /\ Reading(readers[s])'
    BY <2>1 DEF Good, Freezing, Reading
  <2>4. Seen(of, readers[s])'
    <3>1. ASSUME NEW n \in DOMAIN frozen, readers[s].pass = "after"
          PROVE  SeenOf(of, readers[s], n)'
      <4>1. SeenOf(of, readers[s], n)
        BY <2>1, <3>1 DEF Good, Seen
      <4>2. Now(of, n)' = Now(of, n)
        BY DEF Now, Grant!HeldInode, Grant!Place
      <4>3. Grant(of)!First(readers[s].todo)' = Grant(of)!First(readers[s].todo)
        BY <2>1 DEF Grant!First, Grant!Place
      <4>4. QED
        BY <2>1, <4>1, <4>2, <4>3 DEF SeenOf
    <3>2. QED
      BY <2>1, <3>1 DEF Good, Seen
  <2>5. QED
    BY <2>2, <2>3, <2>4 DEF Good
<1>4. DiskOK(of)' /\ FrozenOK(of)'
  BY DEF GrantInv, DiskOK, FrozenOK, Whole, WholeIn, NamesOf, Grant!NameSet, Grant!Shared
<1>5. readers' = [s \in of.readers |-> readers'[s]] /\ readers'[r] = x
  BY <1>2
<1>6. QED
  BY <1>3, <1>4, <1>5 DEF GrantInv, ReadersOK

\* A reader that is at work: then no other one freezes.
LEMMA AtWork ==
  ASSUME NEW of, GrantInv(of), NEW r \in of.readers, readers[r].pass # "idle"
  PROVE  /\ \A s \in of.readers \ {r} : readers[s].pass # "freeze"
         /\ Good(of, r) /\ IsReader(readers[r])
BY DEF GrantInv, ReadersOK, Good, Freezing, Shape

\* What a reader is at first, when it was refused and when it begins.
LEMMA FromIdle ==
  ASSUME NEW of
  PROVE  LET x == Grant(of)!Idle
         IN  /\ IsReader(x) /\ x.pass = "idle" /\ x.pc = "none" /\ x.todo = {} /\ DOMAIN x.found = {}
BY DEF Grant!Idle, IsReader

LEMMA Refusing ==
  ASSUME NEW of, NEW x, x = Grant(of)!Refused(0)
  PROVE  IsReader(x) /\ x.pass = "refused" /\ x.pc = "none" /\ x.todo = {} /\ DOMAIN x.found = {}
<1>1. x = [pass |-> "refused", pc |-> "none", want |-> None, todo |-> {}, inode |-> 0,
           stamp |-> 0, bytes |-> <<>>, found |-> <<>>, kept |-> <<>>, seen |-> <<>>]
  BY DEF Grant!Refused, Grant!Idle
<1>2. QED
  BY <1>1 DEF IsReader

\* A reader at rest is a good one.
LEMMA AtRest ==
  ASSUME NEW of, NEW r, NEW x, readers'[r] = x, IsReader(x),
         x.pass \in {"idle", "refused"}, x.pc = "none", x.todo = {}, DOMAIN x.found = {}
  PROVE  Good(of, r)'
<1>1. Shape(of, readers[r])'
  BY DEF Shape, Passes, Resting, IsReader
<1>2. QED
  BY <1>1 DEF Good, Freezing, Reading, Seen

LEMMA RefuseKeeps ==
  ASSUME NEW of, GrantInv(of), NEW r \in of.readers, readers[r].pass # "idle", Grant(of)!Refuse(r)
  PROVE  GrantInv(of)'
<1>1. PICK x : x = Grant(of)!Refused(0)
  OBVIOUS
<1>2. /\ readers' = [readers EXCEPT ![r] = x]
      /\ UNCHANGED <<disk, entries, clock, versions, frozen, offset>>
  BY <1>1 DEF Grant!Refuse, Grant!Refused, Grant!Step
<1>3. /\ x.pass = "refused" /\ x.pc = "none" /\ x.todo = {} /\ DOMAIN x.found = {} /\ IsReader(x)
  BY <1>1, Refusing
<1>4. ASSUME readers'[r] = x PROVE Good(of, r)'
  BY <1>3, <1>4, AtRest
<1>5. offset' \in [of.readers \cup {Grant(of)!Shared} -> Nat]
  BY <1>2 DEF GrantInv, DiskOK, Grant!Shared
<1>6. QED
  BY <1>2, <1>4, <1>5, AtWork, OneReader

LEMMA EnumerateKeeps ==
  ASSUME NEW of, Grant(of)!Limits, GrantInv(of), NEW r \in of.readers, Grant(of)!Enumerate(r)
  PROVE  GrantInv(of)'
<1> DEFINE y == readers[r]
<1>1. y.pc = "enumerate" /\ Good(of, r)
  BY DEF Grant!Enumerate, GrantInv, ReadersOK
<1>2. y.pass \notin Resting /\ IsReader(y)
  BY <1>1 DEF Good, Shape
<1>3. CASE Grant(of)!Refuse(r)
  BY <1>2, <1>3, RefuseKeeps DEF Resting
<1> SUFFICES ASSUME ~Grant(of)!Refuse(r) PROVE GrantInv(of)'
  BY <1>3
<1>4. PICK todo, x :
        /\ todo \subseteq NamesOf(of)
        /\ x = [y EXCEPT !.pc = "open", !.todo = todo]
        /\ readers' = [readers EXCEPT ![r] = x]
        /\ UNCHANGED <<disk, entries, clock, versions, frozen, offset>>
  <2>1. Grant(of)!Present \subseteq NamesOf(of) /\ of.granted \subseteq NamesOf(of)
    BY DEF Grant!Present, NamesOf, Grant!Limits
  <2>2. QED
    BY <2>1 DEF Grant!Enumerate, Grant!Step
<1>5. /\ IsReader(x) /\ x.pc = "open" /\ x.todo = todo /\ x.pass = y.pass /\ x.want = y.want
      /\ x.found = y.found /\ x.kept = y.kept /\ x.seen = y.seen
  BY <1>2, <1>4 DEF IsReader
<1>6. ASSUME readers'[r] = x PROVE Good(of, r)'
  <2>1. Shape(of, readers[r])'
    BY <1>1, <1>2, <1>4, <1>5, <1>6 DEF Good, Shape, IsReader, NamesOf, Grant!NameSet
  <2>2. Freezing(of, r)'
    <3>1. \A s \in of.readers \ {r} : readers'[s] = readers[s]
      BY <1>4 DEF GrantInv, ReadersOK
    <3>2. QED
      BY <1>1, <1>4, <1>5, <1>6, <3>1 DEF Good, Freezing, Whole
  <2>3. Reading(readers[r])'
    BY <1>1, <1>4, <1>5, <1>6 DEF Good, Reading
  <2>4. Seen(of, readers[r])'
    <3>1. x.pass # "returned"
      BY <1>2, <1>5 DEF Resting
    <3>2. ASSUME x.pass = "after", NEW n \in DOMAIN frozen PROVE SeenOf(of, readers[r], n)'
      <4>1. SeenOf(of, y, n)
        BY <1>1, <1>5, <3>2 DEF Good, Seen
      <4>2. Now(of, n)' = Now(of, n)
        BY <1>4 DEF Now, Grant!HeldInode, Grant!Place
      <4>3. QED
        BY <1>4, <1>5, <1>6, <4>1, <4>2 DEF SeenOf
    <3>3. QED
      BY <1>4, <1>5, <1>6, <3>1, <3>2 DEF Seen
  <2>5. QED
    BY <2>1, <2>2, <2>3, <2>4 DEF Good
<1>7. offset' \in [of.readers \cup {Grant(of)!Shared} -> Nat]
  BY <1>4 DEF GrantInv, DiskOK, Grant!Shared
<1>8. QED
  BY <1>2, <1>4, <1>6, <1>7, AtWork, OneReader DEF Resting

LEMMA OpenKeeps ==
  ASSUME NEW of, Grant(of)!Limits, GrantInv(of), NEW r \in of.readers, Grant(of)!Open(r)
  PROVE  GrantInv(of)'
<1> DEFINE y == readers[r]
           n == Grant(of)!First(y.todo)
<1>1. y.pc = "open" /\ y.todo # {} /\ Good(of, r)
  BY DEF Grant!Open, GrantInv, ReadersOK
<1>2. y.pass \notin Resting /\ IsReader(y)
  BY <1>1 DEF Good, Shape
<1>3. CASE Grant(of)!Refuse(r)
  BY <1>2, <1>3, RefuseKeeps DEF Resting
<1> SUFFICES ASSUME ~Grant(of)!Refuse(r) PROVE GrantInv(of)'
  BY <1>3
<1>4. PICK x :
        /\ x = [y EXCEPT !.pc = "stat", !.inode = Now(of, n)]
        /\ readers' = [readers EXCEPT ![r] = x]
        /\ UNCHANGED <<disk, entries, clock, versions, frozen, offset>>
  BY DEF Grant!Open, Grant!Step, Now
<1>5. Now(of, n) \in DOMAIN disk
  <2>1. CASE of.kind = "file"
    <3>1. DOMAIN disk = 1 .. Len(disk) /\ Len(disk) \in Nat /\ Len(of.names) <= Len(disk)
      BY DEF GrantInv, DiskOK
    <3>2. QED
      BY <2>1, <3>1, PlacesOK DEF Now
  <2>2. CASE of.kind # "file"
    <3>1. of.kind = "directory"
      BY <2>2 DEF Grant!Limits
    <3>2. QED
      BY <2>2, <3>1 DEF Grant!Open, Grant!Inode, Now
  <2>3. QED
    BY <2>1, <2>2
<1>6. /\ IsReader(x) /\ x.pc = "stat" /\ x.todo = y.todo /\ x.pass = y.pass /\ x.want = y.want
      /\ x.found = y.found /\ x.kept = y.kept /\ x.seen = y.seen /\ x.inode = Now(of, n)
  BY <1>2, <1>4 DEF IsReader
<1>7. ASSUME readers'[r] = x PROVE Good(of, r)'
  <2>1. Shape(of, readers[r])'
    BY <1>1, <1>2, <1>4, <1>5, <1>6, <1>7 DEF Good, Shape, IsReader, NamesOf, Grant!NameSet
  <2>2. Freezing(of, r)'
    <3>1. \A s \in of.readers \ {r} : readers'[s] = readers[s]
      BY <1>4 DEF GrantInv, ReadersOK
    <3>2. QED
      BY <1>1, <1>4, <1>6, <1>7, <3>1 DEF Good, Freezing, Whole
  <2>3. Reading(readers[r])'
    BY <1>1, <1>4, <1>6, <1>7 DEF Good, Reading
  <2>4. Seen(of, readers[r])'
    <3>1. x.pass # "returned"
      BY <1>2, <1>6 DEF Resting
    <3>2. ASSUME x.pass = "after", NEW m \in DOMAIN frozen PROVE SeenOf(of, readers[r], m)'
      <4>1. SeenOf(of, y, m)
        BY <1>1, <1>6, <3>2 DEF Good, Seen
      <4>2. Now(of, m)' = Now(of, m)
        BY <1>4 DEF Now, Grant!HeldInode, Grant!Place
      <4>3. Grant(of)!First(x.todo)' = n
        BY <1>6 DEF Grant!First, Grant!Place
      <4>4. m = n /\ x.inode = frozen[m].inode => x.seen[m][1] = frozen[m].inode
        BY <1>6, <4>1 DEF SeenOf
      <4> HIDE DEF n
      <4>5. QED
        BY <1>4, <1>6, <1>7, <4>1, <4>2, <4>3, <4>4 DEF SeenOf
    <3>3. QED
      BY <1>4, <1>6, <1>7, <3>1, <3>2 DEF Seen
  <2>5. QED
    BY <2>1, <2>2, <2>3, <2>4 DEF Good
<1>8. offset' \in [of.readers \cup {Grant(of)!Shared} -> Nat]
  BY <1>4 DEF GrantInv, DiskOK, Grant!Shared
<1>9. QED
  BY <1>2, <1>4, <1>7, <1>8, AtWork, OneReader DEF Resting

LEMMA StatKeeps ==
  ASSUME NEW of, Grant(of)!Limits, GrantInv(of), NEW r \in of.readers, Grant(of)!Stat(r)
  PROVE  GrantInv(of)'
<1> DEFINE y == readers[r]
           h == Grant(of)!Handle(r)
<1>1. y.pc = "stat" /\ Good(of, r)
  BY DEF Grant!Stat, GrantInv, ReadersOK
<1>2. y.pass \notin Resting /\ IsReader(y) /\ y.inode \in DOMAIN disk
  BY <1>1 DEF Good, Shape
<1>3. PICK x :
        /\ x = [y EXCEPT !.pc = "read", !.stamp = disk[y.inode].stamp, !.bytes = <<>>]
        /\ readers' = [readers EXCEPT ![r] = x]
        /\ offset' = [offset EXCEPT ![h] = 0]
        /\ UNCHANGED <<disk, entries, clock, versions, frozen>>
  BY DEF Grant!Stat, Grant!Step
<1>4. h \in of.readers \cup {Grant(of)!Shared}
  BY DEF Grant!Handle
<1>5. /\ offset' \in [of.readers \cup {Grant(of)!Shared} -> Nat]
      /\ offset'[h] = 0
  BY <1>3, <1>4 DEF GrantInv, DiskOK
<1>6. /\ IsReader(x) /\ x.pc = "read" /\ x.todo = y.todo /\ x.pass = y.pass /\ x.want = y.want
      /\ x.found = y.found /\ x.kept = y.kept /\ x.seen = y.seen /\ x.inode = y.inode
      /\ x.stamp = disk[y.inode].stamp /\ x.bytes = <<>>
  BY <1>2, <1>3 DEF IsReader
<1>7. disk[y.inode].stamp \in Nat
  <2>1. disk[y.inode] \in FilesOf(of)
    BY <1>2 DEF GrantInv, DiskOK
  <2>2. QED
    BY <2>1 DEF FilesOf
<1>8. x.bytes \in Seq(of.bytes) /\ Len(x.bytes) = 0
  BY <1>6
<1>9. ASSUME readers'[r] = x PROVE Good(of, r)'
  <2>1. Shape(of, readers[r])'
    <3>1. x.todo # {}
      BY <1>1, <1>6 DEF Good, Shape
    <3>2. QED
      BY <1>1, <1>2, <1>3, <1>6, <1>7, <1>8, <1>9, <3>1
         DEF Good, Shape, IsReader, NamesOf, Grant!NameSet
  <2>2. Freezing(of, r)'
    <3>1. \A s \in of.readers \ {r} : readers'[s] = readers[s]
      BY <1>3 DEF GrantInv, ReadersOK
    <3>2. offset'[Grant(of)!Handle(r)] = Len(x.bytes) /\ Grant(of)!Handle(r)' = h
      BY <1>5, <1>8 DEF Grant!Handle
    <3>3. Len(x.bytes) <= Len(disk[x.inode].cells)
      <4>1. disk[y.inode] \in FilesOf(of)
        BY <1>2 DEF GrantInv, DiskOK
      <4>2. Len(disk[y.inode].cells) \in Nat
        BY <4>1 DEF FilesOf
      <4>3. QED
        BY <1>6, <1>8, <4>2
    <3>4. QED
      BY <1>1, <1>3, <1>6, <1>8, <1>9, <3>1, <3>2, <3>3 DEF Good, Freezing, Whole
  <2>3. Reading(readers[r])'
    BY <1>1, <1>3, <1>6, <1>9 DEF Good, Reading
  <2>4. Seen(of, readers[r])'
    <3>1. x.pass # "returned"
      BY <1>2, <1>6 DEF Resting
    <3>2. ASSUME x.pass = "after", NEW m \in DOMAIN frozen PROVE SeenOf(of, readers[r], m)'
      <4>1. SeenOf(of, y, m)
        BY <1>1, <1>6, <3>2 DEF Good, Seen
      <4>2. Now(of, m)' = Now(of, m)
        BY <1>3 DEF Now, Grant!HeldInode, Grant!Place
      <4>3. Grant(of)!First(x.todo)' = Grant(of)!First(y.todo)
        BY <1>6 DEF Grant!First, Grant!Place
      <4>4. m = Grant(of)!First(y.todo) /\ x.inode = frozen[m].inode =>
              x.seen[m][1] = frozen[m].inode /\ x.seen[m][2] <= x.stamp
        BY <1>1, <1>6, <4>1 DEF SeenOf
      <4>5. QED
        BY <1>3, <1>6, <1>9, <4>1, <4>2, <4>3, <4>4 DEF SeenOf
    <3>3. QED
      BY <1>3, <1>6, <1>9, <3>1, <3>2 DEF Seen
  <2>5. QED
    BY <2>1, <2>2, <2>3, <2>4 DEF Good
<1>10. QED
  BY <1>2, <1>3, <1>5, <1>9, AtWork, OneReader DEF Resting

\* Two sequences, one after the other.
LEMMA Joined ==
  ASSUME NEW S, NEW s \in Seq(S), NEW u \in Seq(S)
  PROVE  /\ s \o u \in Seq(S) /\ Len(s \o u) = Len(s) + Len(u)
         /\ \A i \in 1 .. Len(s) : (s \o u)[i] = s[i]
         /\ \A i \in 1 .. Len(u) : (s \o u)[Len(s) + i] = u[i]
OBVIOUS

\* What one call of read appends.
LEMMA ReadOn ==
  ASSUME NEW S, NEW cells \in Seq(S), NEW off \in Nat,
         NEW k \in 1 .. Len(SubSeq(cells, off + 1, Len(cells)))
  PROVE  LET part == SubSeq(SubSeq(cells, off + 1, Len(cells)), 1, k)
         IN  /\ part \in Seq(S) /\ Len(part) = k /\ k \in Nat /\ off + k <= Len(cells)
             /\ \A i \in 1 .. k : part[i] = cells[off + i]
<1> DEFINE rest == SubSeq(cells, off + 1, Len(cells))
           part == SubSeq(rest, 1, k)
<1>1. /\ rest \in Seq(S) /\ k \in Nat /\ k >= 1 /\ k <= Len(rest) /\ Len(cells) \in Nat
      /\ Len(rest) = IF off + 1 <= Len(cells) THEN Len(cells) - off ELSE 0
      /\ \A i \in 1 .. Len(rest) : rest[i] = cells[off + i]
  OBVIOUS
<1>2. off + k <= Len(cells)
  BY <1>1
<1> HIDE DEF rest
<1>3. part \in Seq(S) /\ Len(part) = k /\ \A i \in 1 .. k : part[i] = rest[i]
  BY <1>1
<1>4. \A i \in 1 .. k : part[i] = cells[off + i]
  BY <1>1, <1>3
<1>5. QED
  BY <1>1, <1>2, <1>3, <1>4 DEF rest

\* What one call of read returns: k of the cells behind off.
IsPart(part, k, cells, off) ==
  /\ k \in 1 .. Len(SubSeq(cells, off + 1, Len(cells)))
  /\ part = SubSeq(SubSeq(cells, off + 1, Len(cells)), 1, k)

LEMMA ReadPart ==
  ASSUME NEW S, NEW cells \in Seq(S), NEW off \in Nat, NEW k, NEW part, IsPart(part, k, cells, off)
  PROVE  /\ part \in Seq(S) /\ Len(part) = k /\ k \in Nat /\ off + k <= Len(cells)
         /\ \A i \in 1 .. k : part[i] = cells[off + i]
BY ReadOn DEF IsPart

LEMMA ReadSomeKeeps ==
  ASSUME NEW of, Grant(of)!Limits, GrantInv(of), NEW r \in of.readers, Grant(of)!ReadSome(r)
  PROVE  GrantInv(of)'
<1> DEFINE y == readers[r]
           h == Grant(of)!Handle(r)
           cells == disk[y.inode].cells
<1>1. y.pc = "read" /\ Good(of, r)
  BY DEF Grant!ReadSome, GrantInv, ReadersOK
<1>2. /\ y.pass \notin Resting /\ IsReader(y) /\ y.inode \in DOMAIN disk
      /\ y.bytes \in Seq(of.bytes)
  BY <1>1 DEF Good, Shape
<1>3. h \in of.readers \cup {Grant(of)!Shared} /\ offset[h] \in Nat
  BY DEF Grant!Handle, GrantInv, DiskOK
<1>4. cells \in Seq(of.bytes)
  <2>1. disk[y.inode] \in FilesOf(of)
    BY <1>2 DEF GrantInv, DiskOK
  <2>2. QED
    BY <2>1 DEF FilesOf
<1>5. PICK had : had = y.bytes
  OBVIOUS
<1>6. PICK k, part, x :
        /\ part \in Seq(of.bytes) /\ Len(part) = k /\ k \in Nat /\ offset[h] + k <= Len(cells)
        /\ \A i \in 1 .. k : part[i] = cells[offset[h] + i]
        /\ x = [y EXCEPT !.bytes = had \o part]
        /\ readers' = [readers EXCEPT ![r] = x]
        /\ offset' = [offset EXCEPT ![h] = offset[h] + k]
        /\ UNCHANGED <<disk, entries, clock, versions, frozen>>
  <2>1. PICK k, part, x :
          /\ IsPart(part, k, cells, offset[h])
          /\ x = [y EXCEPT !.bytes = had \o part]
          /\ readers' = [readers EXCEPT ![r] = x]
          /\ offset' = [offset EXCEPT ![h] = offset[h] + k]
          /\ UNCHANGED <<disk, entries, clock, versions, frozen>>
    BY <1>5, ZenonT(60) DEF Grant!ReadSome, Grant!Step, Grant!Rest, IsPart
  <2> HIDE DEF y, h, cells
  <2>2. /\ part \in Seq(of.bytes) /\ Len(part) = k /\ k \in Nat /\ offset[h] + k <= Len(cells)
        /\ \A i \in 1 .. k : part[i] = cells[offset[h] + i]
    BY <1>3, <1>4, <2>1, ReadPart
  <2>3. QED
    BY <2>1, <2>2, Zenon
<1> HIDE DEF cells, h
<1>7. /\ offset' \in [of.readers \cup {Grant(of)!Shared} -> Nat]
      /\ offset'[h] = offset[h] + k
  <2>1. offset[h] + k \in Nat
    BY <1>3, <1>6
  <2>2. QED
    BY <1>3, <1>6, <2>1, ZenonT(60) DEF GrantInv, DiskOK
<1>8. /\ IsReader(x) /\ x.pc = "read" /\ x.todo = y.todo /\ x.pass = y.pass /\ x.want = y.want
      /\ x.found = y.found /\ x.kept = y.kept /\ x.seen = y.seen /\ x.inode = y.inode
      /\ x.stamp = y.stamp
      /\ x.bytes = had \o part
  BY <1>1, <1>2, <1>6 DEF IsReader
<1>9. /\ x.bytes \in Seq(of.bytes) /\ Len(x.bytes) = Len(y.bytes) + k
      /\ k \in Nat /\ offset[h] + k <= Len(cells)
      /\ \A i \in 1 .. Len(y.bytes) : x.bytes[i] = y.bytes[i]
      /\ \A i \in 1 .. k : x.bytes[Len(y.bytes) + i] = cells[offset[h] + i]
  <2>1. had \in Seq(of.bytes)
    BY <1>5, <1>2
  <2>2. part \in Seq(of.bytes)
    BY <1>6
  <2>3. /\ had \o part \in Seq(of.bytes) /\ Len(had \o part) = Len(had) + Len(part)
        /\ \A i \in 1 .. Len(had) : (had \o part)[i] = had[i]
        /\ \A i \in 1 .. Len(part) : (had \o part)[Len(had) + i] = part[i]
    BY <2>1, <2>2, Joined
  <2>4. QED
    BY <1>5, <1>6, <1>8, <2>3, ZenonT(60)
<1>10. UNCHANGED <<disk, entries, clock, versions, frozen>>
  BY <1>6
<1>11. ASSUME readers'[r] = x PROVE Good(of, r)'
  <2>1. Shape(of, readers[r])'
    BY <1>1, <1>2, <1>10, <1>8, <1>9, <1>11 DEF Good, Shape, IsReader, NamesOf, Grant!NameSet
  <2>2. Freezing(of, r)'
    <3> SUFFICES ASSUME y.pass = "freeze" PROVE Freezing(of, r)'
      BY <1>8, <1>11 DEF Freezing
    <3>1. \A s \in of.readers \ {r} : readers'[s] = readers[s]
      BY <1>6 DEF GrantInv, ReadersOK
    <3>2. offset[h] = Len(y.bytes) /\ Len(y.bytes) \in Nat
      BY <1>1, <1>2 DEF Good, Freezing, h
    <3>3. offset'[h] = Len(x.bytes) /\ Grant(of)!Handle(r)' = h
      BY <1>7, <1>9, <3>2 DEF Grant!Handle, h
    <3>4. ASSUME disk[y.inode].stamp = y.stamp
          PROVE  /\ Len(x.bytes) <= Len(cells)
                 /\ \A i \in 1 .. Len(x.bytes) : x.bytes[i] = cells[i]
      <4>1. \A i \in 1 .. Len(y.bytes) : y.bytes[i] = cells[i]
        BY <1>1, <3>4 DEF Good, Freezing, cells
      <4>2. ASSUME NEW i \in 1 .. Len(x.bytes) PROVE x.bytes[i] = cells[i]
        <5>1. CASE i \in 1 .. Len(y.bytes)
          BY <1>9, <4>1, <5>1
        <5>2. CASE i \notin 1 .. Len(y.bytes)
          <6>1. i - Len(y.bytes) \in 1 .. k /\ Len(y.bytes) + (i - Len(y.bytes)) = i
            BY <1>9, <3>2, <5>2
          <6>2. QED
            BY <1>9, <3>2, <6>1
        <5>3. QED
          BY <5>1, <5>2
      <4>3. QED
        BY <1>9, <3>2, <4>2
    <3>5. /\ frozen = None /\ \A s \in of.readers \ {r} : readers[s].pass = "idle"
          /\ \A n \in DOMAIN y.found : WholeIn(y.found[n], disk, versions)
      BY <1>1 DEF Good, Freezing, Whole
    <3>6. \A n \in DOMAIN x.found : WholeIn(x.found[n], disk', versions')
      BY <1>10, <1>8, <3>5
    <3>7. frozen' = None /\ \A s \in of.readers \ {r} : readers'[s].pass = "idle"
      BY <1>10, <3>1, <3>5
    <3>8. disk'[x.inode].stamp = x.stamp =>
            /\ Len(x.bytes) <= Len(disk'[x.inode].cells)
            /\ \A i \in 1 .. Len(x.bytes) : x.bytes[i] = disk'[x.inode].cells[i]
      BY <1>10, <1>8, <3>4 DEF cells
    <3>9. QED
      BY <1>11, <3>3, <3>6, <3>7, <3>8 DEF Freezing, Whole
  <2>3. Reading(readers[r])'
    BY <1>1, <1>10, <1>8, <1>11 DEF Good, Reading
  <2>4. Seen(of, readers[r])'
    <3>1. x.pass # "returned"
      BY <1>2, <1>8 DEF Resting
    <3>2. ASSUME x.pass = "after", NEW m \in DOMAIN frozen PROVE SeenOf(of, readers[r], m)'
      <4>1. SeenOf(of, y, m)
        BY <1>1, <1>8, <3>2 DEF Good, Seen
      <4>2. Now(of, m)' = Now(of, m)
        BY <1>10 DEF Now, Grant!HeldInode, Grant!Place
      <4>3. Grant(of)!First(x.todo)' = Grant(of)!First(y.todo)
        BY <1>8 DEF Grant!First, Grant!Place
      <4>4. QED
        BY <1>1, <1>10, <1>8, <1>11, <4>1, <4>2, <4>3 DEF SeenOf
    <3>3. QED
      BY <1>10, <1>8, <1>11, <3>1, <3>2 DEF Seen
  <2>5. QED
    BY <2>1, <2>2, <2>3, <2>4 DEF Good
<1>12. QED
  BY <1>2, <1>6, <1>7, <1>11, AtWork, OneReader DEF Resting

\* Nothing is left to read and the file is as it was: then all of it was read.
LEMMA AllRead ==
  ASSUME NEW S, NEW cells \in Seq(S), NEW bytes \in Seq(S), Len(cells) = Len(bytes),
         \A i \in 1 .. Len(bytes) : bytes[i] = cells[i]
  PROVE  bytes = cells
OBVIOUS

LEMMA ReadEndKeeps ==
  ASSUME NEW of, Grant(of)!Limits, GrantInv(of), NEW r \in of.readers, Grant(of)!ReadEnd(r)
  PROVE  GrantInv(of)'
<1> DEFINE y == readers[r]
           n == Grant(of)!First(y.todo)
           print == [sha256 |-> y.bytes, inode |-> y.inode, stamp |-> y.stamp]
           found == [m \in DOMAIN y.found \cup {n} |-> IF m = n THEN print ELSE y.found[m]]
<1>1. y.pc = "read" /\ Good(of, r)
  BY DEF Grant!ReadEnd, GrantInv, ReadersOK
<1>2. /\ y.pass \notin Resting /\ IsReader(y) /\ y.inode \in DOMAIN disk
      /\ y.bytes \in Seq(of.bytes) /\ y.todo # {} /\ y.todo \subseteq NamesOf(of)
  BY <1>1 DEF Good, Shape
<1>3. CASE Grant(of)!Refuse(r)
  BY <1>2, <1>3, RefuseKeeps DEF Resting
<1> SUFFICES ASSUME ~Grant(of)!Refuse(r) PROVE GrantInv(of)'
  BY <1>3
<1>4. n \in y.todo /\ n \in NamesOf(of)
  BY <1>2, FirstIn
<1>5. disk[y.inode].stamp = y.stamp /\ Len(disk[y.inode].cells) = Len(y.bytes)
  BY DEF Grant!ReadEnd, Grant!Unchanged
<1>6. PICK x :
        /\ x = [y EXCEPT
                 !.pc = "open", !.kept = IF y.pass = "file" THEN y.bytes ELSE y.kept,
                 !.todo = y.todo \ {n}, !.inode = 0, !.stamp = 0, !.bytes = <<>>, !.found = found]
        /\ readers' = [readers EXCEPT ![r] = x]
        /\ UNCHANGED <<disk, entries, clock, versions, frozen, offset>>
  <2> HIDE DEF n
  <2>1. QED
    BY DEF Grant!ReadEnd, Grant!Step, Grant!Insert, Grant!Fingerprint, n
<1> HIDE DEF found, n
<1>7. /\ IsReader(x) /\ x.pc = "open" /\ x.todo = y.todo \ {n} /\ x.pass = y.pass /\ x.want = y.want
      /\ x.found = found /\ x.seen = y.seen
      /\ x.kept = IF y.pass = "file" THEN y.bytes ELSE y.kept
  BY <1>2, <1>6 DEF IsReader
<1>8. /\ DOMAIN found = DOMAIN y.found \cup {n} /\ found[n] = print
      /\ \A m \in DOMAIN y.found : m # n => found[m] = y.found[m]
  BY DEF found
<1>9. /\ y.stamp \in Nat /\ y.stamp <= disk[y.inode].stamp
      /\ print.inode = y.inode /\ print.stamp = y.stamp /\ print.sha256 = y.bytes
  BY <1>1 DEF Good, Shape
<1> HIDE DEF print
<1>10. ASSUME readers'[r] = x PROVE Good(of, r)'
  <2>1. Shape(of, readers[r])'
    <3>1. DOMAIN x.found \subseteq NamesOf(of) /\ x.todo \subseteq NamesOf(of)
      BY <1>1, <1>2, <1>4, <1>7, <1>8 DEF Good, Shape
    <3>2. QED
      BY <1>1, <1>2, <1>7, <1>10, <3>1 DEF Good, Shape, IsReader, NamesOf, Grant!NameSet
  <2>2. Freezing(of, r)'
    <3> SUFFICES ASSUME y.pass = "freeze" PROVE Freezing(of, r)'
      BY <1>7, <1>10 DEF Freezing
    <3>1. \A s \in of.readers \ {r} : readers'[s] = readers[s]
      BY <1>6 DEF GrantInv, ReadersOK
    <3>2. /\ frozen = None /\ \A s \in of.readers \ {r} : readers[s].pass = "idle"
          /\ \A m \in DOMAIN y.found : WholeIn(y.found[m], disk, versions)
          /\ \A i \in 1 .. Len(y.bytes) : y.bytes[i] = disk[y.inode].cells[i]
      BY <1>1, <1>5 DEF Good, Freezing, Whole
    <3>3. WholeIn(print, disk, versions)
      <4>1. PICK had, cells : had = y.bytes /\ cells = disk[y.inode].cells
        OBVIOUS
      <4>2. cells \in Seq(of.bytes)
        <5>1. disk[y.inode] \in FilesOf(of)
          BY <1>2 DEF GrantInv, DiskOK
        <5>2. QED
          BY <4>1, <5>1 DEF FilesOf
      <4>3. had = cells
        BY <1>2, <1>5, <3>2, <4>1, <4>2, AllRead
      <4>4. <<y.inode, disk[y.inode].stamp, disk[y.inode].cells>> \in versions
        BY <1>2 DEF GrantInv, DiskOK
      <4>5. QED
        BY <1>2, <1>5, <1>9, <4>1, <4>3, <4>4 DEF WholeIn
    <3>4. \A m \in DOMAIN x.found : WholeIn(x.found[m], disk', versions')
      <4>1. ASSUME NEW m \in DOMAIN found PROVE WholeIn(found[m], disk, versions)
        <5>1. CASE m = n
          BY <1>8, <3>3, <5>1
        <5>2. CASE m # n
          BY <1>8, <3>2, <5>2
        <5>3. QED
          BY <5>1, <5>2
      <4>2. QED
        BY <1>6, <1>7, <4>1
    <3>5. QED
      BY <1>6, <1>7, <1>10, <3>1, <3>2, <3>4 DEF Freezing, Whole
  <2>3. Reading(readers[r])'
    <3>1. ASSUME y.pass = "file"
          PROVE  /\ x.want \in DOMAIN frozen /\ x.todo = {}
                 /\ x.want \in DOMAIN x.found /\ x.found[x.want].sha256 = x.kept
      <4>1. y.want \in DOMAIN frozen /\ y.todo = {y.want}
        BY <1>1, <1>2, <3>1 DEF Good, Reading
      <4>2. n = y.want
        BY <1>4, <4>1
      <4>3. QED
        BY <1>7, <1>8, <1>9, <3>1, <4>1, <4>2
    <3>2. x.pass \in {"before", "file", "after", "returned"} => frozen # None
      BY <1>1, <1>7 DEF Good, Reading
    <3>3. x.pass \in {"after", "returned"} => x.want \in DOMAIN frozen /\ x.kept = frozen[x.want].sha256
      BY <1>1, <1>7 DEF Good, Reading
    <3>4. QED
      BY <1>6, <1>7, <1>10, <3>1, <3>2, <3>3 DEF Reading
  <2>4. Seen(of, readers[r])'
    <3>1. x.pass # "returned"
      BY <1>2, <1>7 DEF Resting
    <3>2. ASSUME x.pass = "after", NEW m \in DOMAIN frozen PROVE SeenOf(of, readers[r], m)'
      <4>1. SeenOf(of, y, m)
        BY <1>1, <1>7, <3>2 DEF Good, Seen
      <4>2. Now(of, m)' = Now(of, m)
        BY <1>6 DEF Now, Grant!HeldInode, Grant!Place
      <4>3. ASSUME m \in DOMAIN found, found[m].inode = frozen[m].inode
            PROVE  y.seen[m][1] = frozen[m].inode /\ y.seen[m][2] <= found[m].stamp
        <5>1. CASE m = n
          BY <1>1, <1>8, <1>9, <4>1, <4>3, <5>1 DEF SeenOf, n
        <5>2. CASE m # n
          BY <1>8, <4>1, <4>3, <5>2 DEF SeenOf
        <5>3. QED
          BY <5>1, <5>2
      <4>4. QED
        BY <1>6, <1>7, <1>10, <4>1, <4>2, <4>3 DEF SeenOf
    <3>3. QED
      BY <1>6, <1>7, <1>10, <3>1, <3>2 DEF Seen
  <2>5. QED
    BY <2>1, <2>2, <2>3, <2>4 DEF Good
<1>11. offset' \in [of.readers \cup {Grant(of)!Shared} -> Nat]
  BY <1>6 DEF GrantInv, DiskOK, Grant!Shared
<1>12. \A s \in of.readers \ {r} : readers[s].pass # "freeze"
  BY <1>2, AtWork DEF Resting
<1>13. /\ readers' = [readers EXCEPT ![r] = x]
       /\ UNCHANGED <<disk, entries, clock, versions, frozen>>
  BY <1>6
<1>14. QED
  BY <1>10, <1>11, <1>12, <1>13, OneReader

LEMMA FreezeKeeps ==
  ASSUME NEW of, Grant(of)!Limits, GrantInv(of), NEW r \in of.readers, Grant(of)!Freeze(r)
  PROVE  GrantInv(of)'
<1>1. PICK y, x :
        /\ y = Grant(of)!Idle
        /\ x = [y EXCEPT !.pass = "freeze", !.pc = "enumerate"]
        /\ readers' = [readers EXCEPT ![r] = x]
        /\ UNCHANGED <<disk, entries, clock, versions, frozen, offset>>
  BY DEF Grant!Freeze, Grant!Step, Grant!Begin
<1>2. frozen = None /\ \A s \in of.readers : readers[s].pass = "idle"
  BY DEF Grant!Freeze
<1>3. /\ IsReader(x) /\ x.pass = "freeze" /\ x.pc = "enumerate" /\ x.todo = {}
      /\ DOMAIN x.found = {}
  <2>1. IsReader(y) /\ y.todo = {} /\ DOMAIN y.found = {}
    BY <1>1, FromIdle
  <2>2. /\ IsReader(x) /\ x.pass = "freeze" /\ x.pc = "enumerate" /\ x.todo = y.todo
        /\ x.found = y.found
    BY <1>1, <2>1 DEF IsReader
  <2>3. QED
    BY <2>1, <2>2
<1>4. ASSUME readers'[r] = x PROVE Good(of, r)'
  <2>1. Shape(of, readers[r])'
    BY <1>3, <1>4 DEF Shape, IsReader, Passes, Resting
  <2>2. \A s \in of.readers \ {r} : readers'[s].pass = "idle"
    BY <1>1, <1>2 DEF GrantInv, ReadersOK
  <2>3. Freezing(of, r)'
    BY <1>1, <1>2, <1>3, <1>4, <2>2 DEF Freezing
  <2>4. QED
    BY <1>3, <1>4, <2>1, <2>3 DEF Good, Reading, Seen
<1>5. offset' \in [of.readers \cup {Grant(of)!Shared} -> Nat]
  BY <1>1 DEF GrantInv, DiskOK, Grant!Shared
<1>6. QED
  BY <1>1, <1>2, <1>4, <1>5, OneReader

\* All are at rest when a grant is frozen.
LEMMA FrozenKeeps ==
  ASSUME NEW of, Grant(of)!Limits, GrantInv(of), NEW r \in of.readers, Grant(of)!Frozen(r)
  PROVE  GrantInv(of)'
<1>1. PICK x : x = Grant(of)!Idle
  OBVIOUS
<1>2. /\ frozen' = readers[r].found /\ readers' = [readers EXCEPT ![r] = x]
      /\ UNCHANGED <<disk, entries, clock, versions, offset>>
      /\ readers[r].pass = "freeze" /\ Good(of, r)
  BY <1>1 DEF Grant!Frozen, Grant!Step, GrantInv, ReadersOK
<1>3. IsReader(x) /\ x.pass = "idle" /\ x.pc = "none" /\ x.todo = {} /\ DOMAIN x.found = {}
  BY <1>1, FromIdle
<1>4. /\ \A s \in of.readers \ {r} : readers[s].pass = "idle"
      /\ DOMAIN frozen' \subseteq NamesOf(of)
      /\ \A n \in DOMAIN frozen' : WholeIn(frozen'[n], disk, versions)
  BY <1>2 DEF Good, Freezing, Shape, Whole
<1>5. DiskOK(of)' /\ FrozenOK(of)'
  BY <1>2, <1>4 DEF GrantInv, DiskOK, FrozenOK, Whole, NamesOf, Grant!NameSet, Grant!Shared
<1>6. readers' = [s \in of.readers |-> IF s = r THEN x ELSE readers[s]]
  BY <1>2 DEF GrantInv, ReadersOK
<1>7. ASSUME NEW s \in of.readers PROVE Good(of, s)'
  <2>1. CASE s = r
    BY <1>3, <1>6, <2>1, AtRest
  <2>2. CASE s # r
    <3>1. readers'[s] = readers[s] /\ readers[s].pass = "idle" /\ Shape(of, readers[s])
      BY <1>4, <1>6, <2>2 DEF GrantInv, ReadersOK, Good
    <3>2. Shape(of, readers[s])'
      BY <1>2, <3>1 DEF Shape, IsReader, NamesOf, Grant!NameSet
    <3>3. QED
      BY <3>1, <3>2 DEF Good, Freezing, Reading, Seen
  <2>3. QED
    BY <2>1, <2>2
<1>8. QED
  BY <1>5, <1>6, <1>7 DEF GrantInv, ReadersOK

LEMMA ReadFileKeeps ==
  ASSUME NEW of, Grant(of)!Limits, GrantInv(of), NEW r \in of.readers, NEW n \in NamesOf(of),
         Grant(of)!ReadFile(r, n)
  PROVE  GrantInv(of)'
<1>1. PICK i, y, x :
        /\ i = Grant(of)!Idle
        /\ y = [i EXCEPT !.want = n]
        /\ x = [y EXCEPT !.pass = "before", !.pc = "enumerate"]
        /\ readers' = [readers EXCEPT ![r] = x]
        /\ UNCHANGED <<disk, entries, clock, versions, frozen, offset>>
  BY DEF Grant!ReadFile, Grant!Step, Grant!Begin
<1>2. frozen # None /\ \A s \in of.readers : readers[s].pass # "freeze"
  BY DEF Grant!ReadFile, GrantInv, ReadersOK, Good, Freezing
<1>3. IsReader(i) /\ i.todo = {} /\ DOMAIN i.found = {}
  BY <1>1, FromIdle
<1>4. IsReader(y) /\ y.todo = {} /\ DOMAIN y.found = {}
  BY <1>1, <1>3 DEF IsReader
<1>5. /\ IsReader(x) /\ x.pass = "before" /\ x.pc = "enumerate" /\ x.todo = {}
      /\ DOMAIN x.found = {}
  <2>1. /\ IsReader(x) /\ x.pass = "before" /\ x.pc = "enumerate" /\ x.todo = y.todo
        /\ x.found = y.found
    BY <1>1, <1>4 DEF IsReader
  <2>2. QED
    BY <1>4, <2>1
<1>6. ASSUME readers'[r] = x PROVE Good(of, r)'
  <2>1. Shape(of, readers[r])'
    BY <1>5, <1>6 DEF Shape, IsReader, Passes, Resting
  <2>2. QED
    BY <1>1, <1>2, <1>5, <1>6, <2>1 DEF Good, Freezing, Reading, Seen
<1>7. offset' \in [of.readers \cup {Grant(of)!Shared} -> Nat]
  BY <1>1 DEF GrantInv, DiskOK, Grant!Shared
<1>8. QED
  BY <1>1, <1>2, <1>6, <1>7, OneReader

LEMMA ValidatedKeeps ==
  ASSUME NEW of, Grant(of)!Limits, GrantInv(of), NEW r \in of.readers, Grant(of)!Validated(r)
  PROVE  GrantInv(of)'
<1> DEFINE y == readers[r]
<1>1. y.pass = "before" /\ Good(of, r) /\ IsReader(y)
  BY DEF Grant!Validated, GrantInv, ReadersOK, Good, Shape
<1>2. CASE Grant(of)!Refuse(r)
  BY <1>1, <1>2, RefuseKeeps
<1> SUFFICES ASSUME ~Grant(of)!Refuse(r) PROVE GrantInv(of)'
  BY <1>2
<1>3. PICK x :
        /\ x = [y EXCEPT !.pass = "file", !.pc = "open", !.todo = {y.want}, !.found = <<>>]
        /\ readers' = [readers EXCEPT ![r] = x]
        /\ UNCHANGED <<disk, entries, clock, versions, frozen, offset>>
  BY DEF Grant!Validated, Grant!Step
<1>4. y.want \in DOMAIN frozen /\ frozen # None /\ y.want \in NamesOf(of)
  BY <1>1 DEF Grant!Validated, Good, Reading, GrantInv, FrozenOK
<1>5. /\ IsReader(x) /\ x.pass = "file" /\ x.pc = "open" /\ x.todo = {y.want} /\ x.want = y.want
      /\ x.found = <<>>
  BY <1>1, <1>3 DEF IsReader
<1>6. DOMAIN x.found = {}
  BY <1>5
<1>7. ASSUME readers'[r] = x PROVE Good(of, r)'
  <2>1. Shape(of, readers[r])'
    BY <1>4, <1>5, <1>6, <1>7 DEF Shape, IsReader, Passes, Resting, NamesOf, Grant!NameSet
  <2>2. QED
    BY <1>3, <1>4, <1>5, <1>7, <2>1 DEF Good, Freezing, Reading, Seen
<1>8. offset' \in [of.readers \cup {Grant(of)!Shared} -> Nat]
  BY <1>3 DEF GrantInv, DiskOK, Grant!Shared
<1>9. QED
  BY <1>1, <1>3, <1>7, <1>8, AtWork, OneReader

\* What the names of the grant stand for when the file was read: no older than what was granted.
LEMMA FileReadKeeps ==
  ASSUME NEW of, Grant(of)!Limits, GrantInv(of), NEW r \in of.readers, Grant(of)!FileRead(r)
  PROVE  GrantInv(of)'
<1> DEFINE y == readers[r]
           seen == [n \in NamesOf(of) |-> Grant(of)!Current(n)]
<1>1. y.pass = "file" /\ y.todo = {} /\ Good(of, r) /\ IsReader(y)
  BY DEF Grant!FileRead, Grant!PassDone, GrantInv, ReadersOK, Good, Shape
<1>2. CASE Grant(of)!Refuse(r)
  BY <1>1, <1>2, RefuseKeeps
<1> SUFFICES ASSUME ~Grant(of)!Refuse(r) PROVE GrantInv(of)'
  BY <1>2
<1>3. PICK z, x :
        /\ z = [y EXCEPT !.pass = "after", !.pc = "enumerate"]
        /\ x = [z EXCEPT !.found = <<>>, !.seen = seen]
        /\ readers' = [readers EXCEPT ![r] = x]
        /\ UNCHANGED <<disk, entries, clock, versions, frozen, offset>>
  BY DEF Grant!FileRead, Grant!Step, Grant!Begin, NamesOf
<1>4. /\ frozen # None /\ y.want \in DOMAIN frozen
      /\ y.kept = frozen[y.want].sha256
  <2>1. y.found[y.want] = frozen[y.want]
    BY <1>1 DEF Grant!FileRead, Grant!SameFile
  <2>2. y.todo # {y.want}
    BY <1>1
  <2>3. QED
    BY <1>1, <2>1, <2>2 DEF Good, Reading
<1> HIDE DEF seen
<1>5. /\ IsReader(z) /\ z.pass = "after" /\ z.pc = "enumerate" /\ z.todo = {}
      /\ z.want = y.want /\ z.kept = y.kept
  BY <1>1, <1>3 DEF IsReader
<1>6. /\ IsReader(x) /\ x.pass = "after" /\ x.pc = "enumerate" /\ x.todo = {} /\ x.want = y.want
      /\ x.kept = y.kept /\ x.found = <<>> /\ x.seen = seen
  BY <1>3, <1>5 DEF IsReader
<1>7. DOMAIN x.found = {}
  BY <1>6
<1>8. ASSUME readers'[r] = x PROVE Good(of, r)'
  <2>1. Shape(of, readers[r])'
    BY <1>6, <1>7, <1>8 DEF Shape, IsReader, Passes, Resting
  <2>2. ASSUME NEW n \in DOMAIN frozen PROVE SeenOf(of, readers[r], n)'
    <3> DEFINE i == Now(of, n)
    <3>1. n \in NamesOf(of) /\ WholeIn(frozen[n], disk, versions)
      BY <1>4 DEF GrantInv, FrozenOK, Whole
    <3>2. seen[n] = IF i \in DOMAIN disk THEN <<i, disk[i].stamp>> ELSE <<0, 0>>
      BY <3>1 DEF seen, Grant!Current, Now
    <3>3. /\ frozen[n].inode \in DOMAIN disk /\ frozen[n].stamp \in Nat
          /\ frozen[n].stamp <= disk[frozen[n].inode].stamp
          /\ \A j \in DOMAIN disk : j # 0 /\ disk[j].stamp \in Nat
      <4>1. disk \in Seq(FilesOf(of))
        BY DEF GrantInv, DiskOK
      <4>2. \A j \in DOMAIN disk : disk[j] \in FilesOf(of)
        BY <4>1
      <4>3. \A j \in DOMAIN disk : disk[j].stamp \in Nat
        BY <4>2 DEF FilesOf
      <4>4. 0 \notin DOMAIN disk
        BY <4>1
      <4>5. QED
        BY <3>1, <4>3, <4>4 DEF WholeIn
    <3> HIDE DEF i
    <3>4. seen[n] = <<seen[n][1], seen[n][2]>> /\ seen[n][2] \in Nat
      BY <3>2, <3>3
    <3>5. i = frozen[n].inode => seen[n][1] = frozen[n].inode
      BY <3>2, <3>3
    <3>6. seen[n][1] = frozen[n].inode =>
            frozen[n].stamp <= seen[n][2] /\ seen[n][2] <= disk[frozen[n].inode].stamp
      BY <3>2, <3>3
    <3>7. Now(of, n)' = i
      BY <1>3 DEF Now, Grant!HeldInode, Grant!Place, i
    <3>8. QED
      BY <1>3, <1>6, <1>7, <1>8, <3>4, <3>5, <3>6, <3>7 DEF SeenOf
  <2>3. QED
    BY <1>3, <1>4, <1>6, <1>8, <2>1, <2>2 DEF Good, Freezing, Reading, Seen
<1>9. offset' \in [of.readers \cup {Grant(of)!Shared} -> Nat]
  BY <1>3 DEF GrantInv, DiskOK, Grant!Shared
<1>10. QED
  BY <1>1, <1>3, <1>8, <1>9, AtWork, OneReader

\* The comparison found all that was granted, so none of it had changed when the file was read.
LEMMA ReturnedKeeps ==
  ASSUME NEW of, Grant(of)!Limits, GrantInv(of), NEW r \in of.readers, Grant(of)!Returned(r)
  PROVE  GrantInv(of)'
<1> DEFINE y == readers[r]
<1>1. y.pass = "after" /\ y.todo = {} /\ Good(of, r) /\ IsReader(y)
  BY DEF Grant!Returned, Grant!PassDone, GrantInv, ReadersOK, Good, Shape
<1>2. CASE Grant(of)!Refuse(r)
  BY <1>1, <1>2, RefuseKeeps
<1> SUFFICES ASSUME ~Grant(of)!Refuse(r) PROVE GrantInv(of)'
  BY <1>2
<1>3. PICK x :
        /\ x = [y EXCEPT !.pass = "returned", !.pc = "none", !.found = <<>>]
        /\ readers' = [readers EXCEPT ![r] = x]
        /\ UNCHANGED <<disk, entries, clock, versions, frozen, offset>>
  BY DEF Grant!Returned, Grant!Step
<1>4. y.found = frozen /\ frozen # None
  BY <1>1 DEF Grant!Returned, Grant!SameSet, Good, Reading
<1>5. /\ IsReader(x) /\ x.pass = "returned" /\ x.pc = "none" /\ x.todo = {} /\ x.want = y.want
      /\ x.kept = y.kept /\ x.found = <<>> /\ x.seen = y.seen
  BY <1>1, <1>3 DEF IsReader
<1>6. DOMAIN x.found = {}
  BY <1>5
<1>7. ASSUME NEW n \in DOMAIN frozen PROVE y.seen[n] = <<frozen[n].inode, frozen[n].stamp>>
  <2>1. SeenOf(of, y, n)
    BY <1>1 DEF Good, Seen
  <2>2. y.seen[n][1] = frozen[n].inode /\ y.seen[n][2] <= frozen[n].stamp
    BY <1>4, <2>1 DEF SeenOf
  <2>3. frozen[n].stamp <= y.seen[n][2] /\ y.seen[n][2] \in Nat
    BY <2>1, <2>2 DEF SeenOf
  <2>4. frozen[n].stamp \in Nat
    BY <1>4 DEF GrantInv, FrozenOK, Whole, WholeIn
  <2>5. y.seen[n][2] = frozen[n].stamp
    BY <2>2, <2>3, <2>4
  <2>6. QED
    BY <2>1, <2>2, <2>5 DEF SeenOf
<1>8. ASSUME readers'[r] = x PROVE Good(of, r)'
  <2>1. Shape(of, readers[r])'
    BY <1>5, <1>6, <1>8 DEF Shape, IsReader, Passes, Resting
  <2>2. Reading(readers[r])'
    BY <1>1, <1>3, <1>5, <1>8 DEF Good, Reading
  <2>3. QED
    BY <1>3, <1>5, <1>7, <1>8, <2>1, <2>2, ZenonT(60) DEF Good, Freezing, Seen
<1>9. offset' \in [of.readers \cup {Grant(of)!Shared} -> Nat]
  BY <1>3 DEF GrantInv, DiskOK, Grant!Shared
<1>10. QED
  BY <1>1, <1>3, <1>8, <1>9, AtWork, OneReader

LEMMA GrantNext ==
  ASSUME NEW of, Grant(of)!Limits, GrantInv(of), Grant(of)!Next
  PROVE  GrantInv(of)'
<1>1. CASE Grant(of)!Edit
  BY <1>1, EditGrows, GrowKeeps DEF GrantInv
<1>2. ASSUME NEW r \in of.readers,
             \/ Grant(of)!Freeze(r) \/ Grant(of)!Frozen(r)
             \/ \E n \in NamesOf(of) : Grant(of)!ReadFile(r, n)
             \/ Grant(of)!Enumerate(r) \/ Grant(of)!Open(r) \/ Grant(of)!Stat(r)
             \/ Grant(of)!ReadSome(r) \/ Grant(of)!ReadEnd(r)
             \/ Grant(of)!Validated(r) \/ Grant(of)!FileRead(r) \/ Grant(of)!Returned(r)
      PROVE  GrantInv(of)'
  BY <1>2, FreezeKeeps, FrozenKeeps, ReadFileKeeps, EnumerateKeeps, OpenKeeps, StatKeeps,
     ReadSomeKeeps, ReadEndKeeps, ValidatedKeeps, FileReadKeeps, ReturnedKeeps
<1>3. QED
  BY <1>1, <1>2 DEF Grant!Next, NamesOf

LEMMA GrantStays ==
  ASSUME NEW of, GrantInv(of), UNCHANGED grantVars
  PROVE  GrantInv(of)'
<1>1. DiskOK(of)' /\ FrozenOK(of)'
  BY DEF grantVars, GrantInv, DiskOK, FrozenOK, Whole, WholeIn, NamesOf, Grant!NameSet, Grant!Shared
<1>2. ASSUME NEW r \in of.readers PROVE Good(of, r)'
  <2>1. Good(of, r)
    BY DEF GrantInv, ReadersOK
  <2>2. Shape(of, readers[r])'
    BY <2>1 DEF grantVars, Good, Shape, IsReader, NamesOf, Grant!NameSet
  <2>3. Freezing(of, r)'
    BY <2>1 DEF grantVars, Good, Freezing, Whole, WholeIn, Grant!Handle, Grant!Shared
  <2>4. Reading(readers[r])'
    BY <2>1 DEF grantVars, Good, Reading
  <2>5. Seen(of, readers[r])'
    <3>1. ASSUME NEW n \in DOMAIN frozen, SeenOf(of, readers[r], n) PROVE SeenOf(of, readers[r], n)'
      <4>1. Now(of, n)' = Now(of, n)
        BY DEF grantVars, Now, Grant!HeldInode, Grant!Place
      <4>2. QED
        BY <3>1, <4>1 DEF grantVars, SeenOf
    <3>2. QED
      BY <2>1, <3>1 DEF grantVars, Good, Seen
  <2>6. QED
    BY <2>2, <2>3, <2>4, <2>5 DEF Good
<1>3. QED
  BY <1>1, <1>2 DEF grantVars, GrantInv, ReadersOK

\* What the invariant says of a grant.
LEMMA GrantPromises ==
  ASSUME NEW of, GrantInv(of)
  PROVE  Kept(of)
<1>1. Grant(of)!FrozenIsWhole
  BY DEF GrantInv, FrozenOK, Whole, WholeIn, Grant!FrozenIsWhole
<1>2. Grant(of)!ReturnedIsGranted /\ Grant(of)!GrantHeldWhenRead
  <2>1. ASSUME NEW r \in of.readers, readers[r].pass = "returned"
        PROVE  LET x == readers[r]
               IN  /\ <<frozen[x.want].inode, frozen[x.want].stamp, x.kept>> \in versions
                   /\ \A n \in DOMAIN frozen : x.seen[n] = <<frozen[n].inode, frozen[n].stamp>>
    <3>1. Reading(readers[r]) /\ Seen(of, readers[r])
      BY DEF GrantInv, ReadersOK, Good
    <3>2. QED
      BY <1>1, <2>1, <3>1 DEF Reading, Seen, Grant!FrozenIsWhole
  <2>2. QED
    BY <2>1 DEF Grant!ReturnedIsGranted, Grant!GrantHeldWhenRead, Grant!Returning
<1>3. Grant(of)!TypeOK
  <2>1. \A i \in DOMAIN disk : disk[i].cells \in Seq(of.bytes) /\ disk[i].stamp \in 0 .. clock
    <3>1. disk \in Seq(FilesOf(of))
      BY DEF GrantInv, DiskOK
    <3>2. \A i \in DOMAIN disk : disk[i] \in FilesOf(of)
      BY <3>1
    <3>3. \A i \in DOMAIN disk : disk[i].cells \in Seq(of.bytes) /\ disk[i].stamp \in Nat
      BY <3>2 DEF FilesOf
    <3>4. QED
      BY <3>3 DEF GrantInv, DiskOK
  <2>2. ASSUME NEW r \in of.readers
        PROVE  LET x == readers[r]
               IN  /\ x.pass \in Passes
                   /\ x.pc \in {"none", "enumerate", "open", "stat", "read"}
                   /\ x.pc \in {"stat", "read"} => x.todo # {}
                   /\ x.pc = "none" <=> x.pass \in Resting
    BY DEF GrantInv, ReadersOK, Good, Shape
  <2>3. \A h \in DOMAIN offset : offset[h] \in Nat
    BY DEF GrantInv, DiskOK
  <2>4. QED
    BY <2>1, <2>2, <2>3 DEF Grant!TypeOK, Passes, Resting, GrantInv, DiskOK, FrozenOK, NamesOf
<1>4. QED
  BY <1>1, <1>2, <1>3 DEF Kept

\* Whatever other programs write between the system calls of a grant, it holds no mixture of two
\* versions of a file, and a read returns the granted bytes of files that were all still granted:
\* for any names, contents, readers and bounds.
THEOREM EveryGrantKept ==
  ASSUME NEW CONSTANT of, Grant(of)!Limits
  PROVE  Grant(of)!Spec => []Kept(of)
<1>1. Grant(of)!Init => GrantInv(of)
  BY GrantFirst
<1>2. GrantInv(of) /\ [Grant(of)!Next]_(Grant(of)!vars) => GrantInv(of)'
  BY GrantNext, GrantStays DEF Grant!vars, grantVars
<1>3. GrantInv(of) => Kept(of)
  BY GrantPromises
<1>4. QED
  BY <1>1, <1>2, <1>3, PTL DEF Grant!Spec

\* Whatever other programs write between the system calls of a grant, a person grants no mixture
\* of two versions of a file, a read returns bytes of the granted version although the readers
\* share the offset of one handle, and every granted file was still there when it had them.
THEOREM GrantKept == KindSpec => []GrantsAreKept
<1> DEFINE Inv == IF kind = "file" THEN GrantInv(OneFile) ELSE GrantInv(Directory)
<1>1. KindInit => Inv
  BY GrantAssumption, GrantFirst DEF KindInit
<1>2. ASSUME Inv, [KindNext]_<<kind, vars, grantVars, webVars, catalogVars>> PROVE Inv'
  <2>1. kind' = kind
    BY <1>2 DEF KindNext, ContextStep, GrantStep, WebStep, CatalogStep
  <2>2. CASE kind = "file"
    <3>1. Grant(OneFile)!Next \/ UNCHANGED grantVars
      BY <1>2, <2>2 DEF KindNext, ContextStep, GrantStep, WebStep, CatalogStep
    <3>2. QED
      BY <1>2, <2>1, <2>2, <3>1, GrantAssumption, GrantNext, GrantStays
  <2>3. CASE kind # "file"
    <3>1. Grant(Directory)!Next \/ UNCHANGED grantVars
      BY <1>2, <2>3 DEF KindNext, ContextStep, GrantStep, WebStep, CatalogStep
    <3>2. QED
      BY <1>2, <2>1, <2>3, <3>1, GrantAssumption, GrantNext, GrantStays
  <2>4. QED
    BY <2>2, <2>3
<1>3. Inv => GrantsAreKept
  BY GrantPromises DEF GrantsAreKept
<1>4. QED
  BY <1>1, <1>2, <1>3, PTL DEF KindSpec
================================================================================
