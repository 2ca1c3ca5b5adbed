---------------------------- MODULE ContextCompiler ----------------------------
(****************************************************************************)
(* context.rs: which sources of a project enter a model's context, in which *)
(* form, and how the one-time confirmation of a secret source is used up.   *)
(* Several contexts may be compiled, kept, dropped and handed off at once:  *)
(* they share the confirmations behind one lock, which is released between  *)
(* two sources, so a compilation is one step per source.                    *)
(*                                                                          *)
(* A source is the position of its id in the sorted manifest.  Its id fixes *)
(* its hash, so a confirmation, the pair of both, is named by the source.   *)
(****************************************************************************)
EXTENDS Integers, Sequences, FiniteSets, Functions, TLC, ContextScope

CONSTANTS
  Sources,        \* the manifest's entries, a set of naturals
  Entry,          \* [Sources -> [tier, scope, hash, content, secret, size]]
  Given,          \* the snapshots a caller may pass: [hash, content, secret]
  Summaries,      \* the summaries a caller may set: [source, hash, usable, size]
  Requests,       \* [target, known, role, budget]
  Structures,     \* the structures a caller may set
  Contexts,       \* the compilations and compiled contexts alive at once
  MaxConfirms     \* a bound on the confirmations of one source

ASSUME SourcesAssumption == Sources \subseteq Nat /\ IsFiniteSet(Sources)
ASSUME SizesAssumption ==
  /\ \A s \in Sources : Entry[s].secret \in BOOLEAN /\ Entry[s].size \in Nat
  /\ \A summary \in Summaries : summary.size \in Nat
ASSUME EntryAssumption ==
  \A s \in Sources :
    /\ Entry[s].hash \in Nat
    /\ Entry[s].tier \in {"required", "compactable", "optional"}
ASSUME RequestsAssumption == \A request \in Requests : request.budget \in Nat
ASSUME StructuresAssumption ==
  /\ None \notin Structures
  /\ \A st \in Structures : st.valid => WellFormed(st)
ASSUME ConfirmsAssumption == MaxConfirms \in Nat

VARIABLES
  held,           \* the sources with a snapshot
  summaries,      \* a summary, or None, of each source
  structure,      \* the story structure, or None
  available,      \* confirmed and not promised to any context
  reserved,       \* promised to a context that is compiled or being compiled
  contexts,       \* one record for each of Contexts
  confirms,       \* ghost: how often a person confirmed each secret
  transmitted     \* ghost: how often the text of each secret was handed off

vars == <<held, summaries, structure, available, reserved, contexts, confirms, transmitted>>

Secret(s) == Entry[s].secret

Secrets == {s \in Sources : Secret(s)}

(****************************************************************************)
(* The compiler.  A source whose hash some snapshot has must have one that  *)
(* matches in full, or there is no compiler.                                *)
(****************************************************************************)
Matches(g, s) ==
  /\ g.hash = Entry[s].hash
  /\ g.content = Entry[s].content
  /\ g.secret = Entry[s].secret

SnapshotsOf(given) == {s \in Sources : \E g \in given : Matches(g, s)}

Accepted(given) ==
  \A s \in Sources : (\E g \in given : g.hash = Entry[s].hash) => s \in SnapshotsOf(given)

Idle == [phase |-> "none", request |-> None, applicable |-> {}, todo |-> <<>>,
         used |-> 0, text |-> <<>>, entries |-> <<>>, keys |-> {}]

Init ==
  /\ \E given \in SUBSET Given : Accepted(given) /\ held = SnapshotsOf(given)
  /\ summaries = [s \in Sources |-> None]
  /\ structure = None
  /\ available = {}
  /\ reserved = {}
  /\ contexts = [c \in Contexts |-> Idle]
  /\ confirms = [s \in Secrets |-> 0]
  /\ transmitted = [s \in Secrets |-> 0]

\* with_summary and with_structure take the compiler by value: no compilation borrows it.
Unborrowed == \A c \in Contexts : contexts[c].phase # "compiling"

WithSummary(summary) ==
  /\ Unborrowed
  /\ summaries' = [summaries EXCEPT ![summary.source] = summary]
  /\ UNCHANGED <<held, structure, available, reserved, contexts, confirms, transmitted>>

WithStructure(st) ==
  /\ Unborrowed
  /\ structure' = st
  /\ UNCHANGED <<held, summaries, available, reserved, contexts, confirms, transmitted>>

\* Mutant: a promised confirmation does not stop a second one.
ConfirmWhilePromised(s) ==
  /\ s \in held
  /\ s \notin available
  /\ confirms[s] < MaxConfirms
  /\ available' = available \cup {s}
  /\ confirms' = [confirms EXCEPT ![s] = @ + 1]
  /\ UNCHANGED <<held, summaries, structure, reserved, contexts, transmitted>>

\* A person's confirmation is refused while an earlier one is unused or promised.
ConfirmSecretTransmission(s) ==
  /\ s \in held
  /\ s \notin available \cup reserved
  /\ confirms[s] < MaxConfirms
  /\ available' = available \cup {s}
  /\ confirms' = [confirms EXCEPT ![s] = @ + 1]
  /\ UNCHANGED <<held, summaries, structure, reserved, contexts, transmitted>>

(****************************************************************************)
(* Receipts.  An entry shows the id of a source, or the hash alone of a     *)
(* secret one; key is the id that stays in memory.                          *)
(****************************************************************************)
Shown(s) == IF Secret(s) THEN Entry[s].hash ELSE s

ReceiptEntry(s, disposition) ==
  [secret |-> Secret(s), shown |-> Shown(s), key |-> s, disposition |-> disposition, sent |-> FALSE]

\* Hashes are hexadecimal and come before every id.
Before(e, f) == IF e.secret = f.secret THEN e.shown < f.shown ELSE e.secret

\* sort_by is stable: entries that show the same hash stay in the order they were made.
Precedes(e, f, i, j) == Before(e, f) \/ (~Before(f, e) /\ i < j)

Sorted(entries) ==
  [k \in DOMAIN entries |->
     entries[CHOOSE i \in DOMAIN entries :
       Cardinality({j \in DOMAIN entries : Precedes(entries[j], entries[i], j, i)}) = k - 1]]

EntriesShowing(entries, s) ==
  {i \in DOMAIN entries : entries[i].secret = Secret(s) /\ entries[i].shown = Shown(s)}

\* Mutant: one entry with a hash accounts for every secret source with that hash.
UnaccountedHashes(entries, applicable) ==
  {s \in applicable : EntriesShowing(entries, s) = {}}

\* A failed receipt counts the entries of secret sources by hash, in the order of their ids.
Unaccounted(entries, applicable) ==
  {s \in applicable :
     Cardinality({x \in applicable : Secret(x) = Secret(s) /\ Shown(x) = Shown(s) /\ x <= s})
       > Cardinality(EntriesShowing(entries, s))}

InOrder(sources) ==
  [i \in 1 .. Cardinality(sources) |->
     CHOOSE s \in sources : Cardinality({x \in sources : x < s}) = i - 1]

FailedReceipt(entries, applicable) ==
  LET rest == InOrder(Unaccounted(entries, applicable))
  IN  Sorted(entries \o [i \in DOMAIN rest |-> ReceiptEntry(rest[i], "excluded")])

(****************************************************************************)
(* compile.                                                                 *)
(****************************************************************************)
Scopes == {Entry[s].scope : s \in Sources}

Applicable(request) ==
  {s \in Sources : AppliesTo(Entry[s].scope, TargetAndAncestors(structure, request.target), request.role)}

\* Mutant: the sources are taken in the order of the manifest.
ManifestOrder(sources) == InOrder(sources)

TierOrder(sources) ==
  InOrder({s \in sources : Entry[s].tier = "required"})
    \o InOrder({s \in sources : Entry[s].tier = "compactable"})
    \o InOrder({s \in sources : Entry[s].tier = "optional"})

Compile(c, request) ==
  /\ contexts[c].phase \in {"none", "failed", "sent"}
  /\ contexts' = [contexts EXCEPT ![c] =
       IF ScopeResolves(structure, request, Scopes)
       THEN [Idle EXCEPT !.phase = "compiling", !.request = request,
                         !.applicable = Applicable(request),
                         !.todo = TierOrder(Applicable(request))]
       ELSE [Idle EXCEPT !.phase = "failed", !.request = request,
                         !.applicable = Sources,
                         !.entries = FailedReceipt(<<>>, Sources)]]
  /\ UNCHANGED <<held, summaries, structure, available, reserved, confirms, transmitted>>

\* A secret source never goes in as its summary, nor any source as a summary of other bytes.
CurrentSummary(s) ==
  /\ ~Secret(s)
  /\ summaries[s] # None
  /\ summaries[s].hash = Entry[s].hash
  /\ summaries[s].usable

SizeOf(s, form) == IF form = "compacted" THEN summaries[s].size ELSE Entry[s].size

Fits(context, s, form) == context.used + SizeOf(s, form) <= context.request.budget

\* An optional source whose summary does not fit is tried raw.
FormOf(context, s) ==
  IF /\ Entry[s].tier # "required"
     /\ CurrentSummary(s)
     /\ Entry[s].tier = "optional" => Fits(context, s, "compacted")
  THEN "compacted" ELSE "raw"

\* Mutant: a secret source goes in without a confirmation.
Unchecked(s) == s \in Sources

Confirmed(s) == Secret(s) => s \in available

Selectable(context, s) ==
  s \in held /\ Fits(context, s, FormOf(context, s)) /\ Confirmed(s)

Compiling(c, s) ==
  /\ contexts[c].phase = "compiling"
  /\ contexts[c].todo # <<>>
  /\ s = Head(contexts[c].todo)

\* Only a secret source is promised.
Promised(s) == IF Secret(s) THEN {s} ELSE {}

Select(c) ==
  \E s \in Sources :
    /\ Compiling(c, s)
    /\ Selectable(contexts[c], s)
    /\ LET form == FormOf(contexts[c], s)
       IN  /\ contexts' = [contexts EXCEPT
                ![c].todo = Tail(@),
                ![c].used = @ + SizeOf(s, form),
                ![c].text = Append(@, [source |-> s, form |-> form,
                                        size |-> SizeOf(s, form)]),
                ![c].entries = Append(@, ReceiptEntry(s, form)),
                ![c].keys = @ \cup Promised(s)]
           /\ available' = available \ Promised(s)
           /\ reserved' = reserved \cup Promised(s)
    /\ UNCHANGED <<held, summaries, structure, confirms, transmitted>>

LeaveOut(c) ==
  \E s \in Sources :
    /\ Compiling(c, s)
    /\ ~Selectable(contexts[c], s)
    /\ Entry[s].tier = "optional"
    /\ contexts' = [contexts EXCEPT
         ![c].todo = Tail(@),
         ![c].entries = Append(@, ReceiptEntry(s, "excluded"))]
    /\ UNCHANGED <<held, summaries, structure, available, reserved, confirms, transmitted>>

\* Dropping a reservation gives back what it was promised.
GivenBack(c) == reserved \cap contexts[c].keys

DropReservation(c) ==
  /\ reserved' = reserved \ contexts[c].keys
  /\ available' = available \cup GivenBack(c)

\* A source that must go in and cannot stops the compilation; its reservation is dropped.
Stop(c) ==
  \E s \in Sources :
    /\ Compiling(c, s)
    /\ ~Selectable(contexts[c], s)
    /\ Entry[s].tier # "optional"
    /\ contexts' = [contexts EXCEPT
         ![c].phase = "failed", ![c].todo = <<>>, ![c].text = <<>>, ![c].keys = {},
         ![c].entries = FailedReceipt(Append(@, ReceiptEntry(s, "excluded")),
                                      contexts[c].applicable)]
    /\ DropReservation(c)
    /\ UNCHANGED <<held, summaries, structure, confirms, transmitted>>

Finish(c) ==
  /\ contexts[c].phase = "compiling"
  /\ contexts[c].todo = <<>>
  /\ contexts' = [contexts EXCEPT ![c].phase = "ready", ![c].entries = Sorted(@)]
  /\ UNCHANGED <<held, summaries, structure, available, reserved, confirms, transmitted>>

(****************************************************************************)
(* handoff consumes the reservation.  The text of a compiled context is     *)
(* private and never changed, so its hash always matches.                   *)
(****************************************************************************)
SourcesIn(text) == {text[i].source : i \in DOMAIN text}

Marked(entries, keys) ==
  [i \in DOMAIN entries |->
     [entries[i] EXCEPT !.sent = entries[i].secret /\ entries[i].key \in keys]]

Handoff(c) ==
  /\ contexts[c].phase = "ready"
  /\ contexts[c].keys \subseteq reserved
  /\ reserved' = reserved \ contexts[c].keys
  /\ contexts' = [contexts EXCEPT
       ![c].phase = "sent",
       ![c].entries = Marked(@, contexts[c].keys),
       ![c].keys = {}]
  /\ transmitted' = [s \in Secrets |->
       transmitted[s] + (IF s \in SourcesIn(contexts[c].text) THEN 1 ELSE 0)]
  /\ UNCHANGED <<held, summaries, structure, available, confirms>>

\* A compiled context is dropped by its holder, or by another compiler's refusal to hand it off.
Discard(c) ==
  /\ contexts[c].phase = "ready"
  /\ DropReservation(c)
  /\ contexts' = [contexts EXCEPT ![c] = Idle]
  /\ UNCHANGED <<held, summaries, structure, confirms, transmitted>>

Next ==
  \/ \E s \in Secrets : ConfirmSecretTransmission(s)
  \/ \E summary \in Summaries : WithSummary(summary)
  \/ \E st \in Structures : WithStructure(st)
  \/ \E c \in Contexts :
       \/ \E request \in Requests : Compile(c, request)
       \/ Select(c)
       \/ LeaveOut(c)
       \/ Stop(c)
       \/ Finish(c)
       \/ Handoff(c)
       \/ Discard(c)

Spec == Init /\ [][Next]_vars

(****************************************************************************)
(* Properties.                                                              *)
(****************************************************************************)
TypeOK ==
  /\ held \subseteq Sources
  /\ summaries \in [Sources -> Summaries \cup {None}]
  /\ structure \in Structures \cup {None}
  /\ available \subseteq Secrets /\ reserved \subseteq Secrets
  /\ DOMAIN contexts = Contexts
  /\ \A c \in Contexts :
       /\ contexts[c].phase \in {"none", "compiling", "ready", "failed", "sent"}
       /\ contexts[c].keys \subseteq Secrets
       /\ contexts[c].used \in Nat
  /\ confirms \in [Secrets -> 0 .. MaxConfirms]
  /\ transmitted \in [Secrets -> Nat]

Bit(b) == IF b THEN 1 ELSE 0

\* context.rs:62 and 442-510: a person's confirmation of a secret source is used up by exactly
\* one handoff of its text, whatever compilations, failures and dropped contexts come between:
\* each one is still free, promised to one context, or spent, never two of these, never lost.
EachConfirmationOnce ==
  \A s \in Secrets :
    confirms[s] = transmitted[s] + Bit(s \in available) + Bit(s \in reserved)

\* Two contexts that are compiled at once never promise the same secret, and a context that
\* carries the text of a secret has the promise for it.
OneContextPerSecret ==
  \A c \in Contexts :
    contexts[c].phase \in {"compiling", "ready"} =>
      /\ SourcesIn(contexts[c].text) \cap Secrets = contexts[c].keys
      /\ contexts[c].keys \subseteq reserved
      /\ \A d \in Contexts \ {c} : contexts[d].keys \cap contexts[c].keys = {}

\* context.rs:997-1050: a receipt, of a compilation that stopped as well as of one that ended,
\* has one entry for each applicable source, also where two secret sources share one hash.
ReceiptCoversAll ==
  \A c \in Contexts :
    LET context == contexts[c]
    IN  context.phase \in {"failed", "ready", "sent"} =>
          /\ Len(context.entries) = Cardinality(context.applicable)
          /\ \A s \in context.applicable :
               Cardinality(EntriesShowing(context.entries, s)) =
                 Cardinality({x \in context.applicable :
                                Secret(x) = Secret(s) /\ Shown(x) = Shown(s)})

\* context.rs:855-860: the receipt of a handoff says of a secret source that it was transmitted
\* exactly if its text was, and no other receipt says so of any.
ReceiptTellsTransmission ==
  \A c \in Contexts : \A i \in DOMAIN contexts[c].entries :
    LET e == contexts[c].entries[i]
    IN  e.sent <=> /\ contexts[c].phase = "sent"
                   /\ e.secret
                   /\ e.key \in SourcesIn(contexts[c].text)

Needed(context) == {s \in context.applicable : Entry[s].tier # "optional"}

NeededForm(s) ==
  IF Entry[s].tier = "compactable" /\ CurrentSummary(s) THEN "compacted" ELSE "raw"

NeededSizes(context) == [s \in Needed(context) |-> SizeOf(s, NeededForm(s))]

\* A needed source has no snapshot or no confirmation, or the needed ones alone do not fit.
MustStop(context) ==
  \/ \E s \in Needed(context) :
       s \notin held \/ (Secret(s) /\ s \notin available \cup context.keys)
  \/ SumFunctionOnSet(NeededSizes(context), Needed(context)) > context.request.budget

\* sources.rs:121-127: an optional source never keeps out one that is needed: a compilation
\* stops only if the needed sources would have stopped it by themselves.
OptionalNeverDisplaces ==
  [][\A c \in Contexts :
       contexts[c].phase = "compiling" /\ contexts'[c].phase = "failed" => MustStop(contexts[c])]_vars

Sizes(text) == [i \in DOMAIN text |-> text[i].size]

\* The text of a context never exceeds the request's budget, and the estimate is its length.
WithinBudget ==
  \A c \in Contexts :
    LET context == contexts[c]
        length == SumFunctionOnSet(Sizes(context.text), DOMAIN context.text)
    IN  context.phase \in {"compiling", "ready", "sent"} =>
          context.used = length /\ length <= context.request.budget

Above(st, id) ==
  IF id \in DOMAIN st.boxes THEN st.boxes[id]
  ELSE IF id \in DOMAIN st.scenes THEN st.scenes[id]
  ELSE IF id \in DOMAIN st.chapters THEN st.chapters[id] ELSE id

\* context.rs:868-959: a source of a part, a chapter or a scene is in the context of a target if
\* and only if the target is that element or lies anywhere below it, at every depth.
ScopeIsAncestry ==
  structure # None =>
    \A request \in Requests, s \in Sources :
      LET scope == Entry[s].scope
          up1 == Above(structure, request.target)
          up2 == Above(structure, up1)
          up3 == Above(structure, up2)
      IN  (/\ scope.level \in {"part", "chapter", "scene"}
           /\ ScopeResolves(structure, request, Scopes)) =>
             (s \in Applicable(request) <=> scope.id \in {request.target, up1, up2, up3})
================================================================================
