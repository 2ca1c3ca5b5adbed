--------------------------- MODULE MCContextCompiler ---------------------------
(****************************************************************************)
(* What a model's context is made of, checked one kind of behaviour at a    *)
(* time: two contexts that compete for secret sources with the same bytes   *)
(* ("secrets"), one context with sources of every tier, scope and form      *)
(* ("coverage"), a granted directory of two files, with a third name that   *)
(* folds to that of one of them ("directory"), one granted file that two    *)
(* threads read ("file"), a page that is fetched ("fetch") and the catalog  *)
(* of snapshots ("catalog").  What a kind is not about is at rest.          *)
(****************************************************************************)
EXTENDS ContextCompiler

CONSTANTS writer, editor, box1, scene1, chapter1, part1, prologue, place,
          Link, name1, name2, name3, Bytes, Readers,    \* of SourceGrant
          Urls, Public, MaxRedirects, MaxBytes, MaxChunk,  \* of WebSnapshot
          Texts, Pages, Pdfs, Damaged, MaxDamage        \* of SourceCatalog

VARIABLES
  kind,
  disk, entries, clock, offset, frozen, readers, versions,
  pc, initial, current, chain, visited, body, secret, metadata, asked,
  snapshots, stored, damage, loaded

grantVars == <<disk, entries, clock, offset, frozen, readers, versions>>
webVars == <<pc, initial, current, chain, visited, body, secret, metadata, asked>>
catalogVars == <<snapshots, stored, damage, loaded>>

Web == INSTANCE WebSnapshot

Catalog == INSTANCE SourceCatalog WITH disk <- stored

\* A grant of some files of a kind.
Grant(of) ==
  INSTANCE SourceGrant
    WITH Kind <- of.kind, Names <- of.names, Granted <- of.granted, Alias <- of.alias,
         Bytes <- of.bytes, FirstCells <- of.first, Readers <- of.readers,
         MaxEdits <- of.edits, MaxBytes <- 4

\* What the files hold is a matter of the one file, which of them there are of the directory.
Directory ==
  [kind |-> "directory", names |-> <<name1, name2, name3>>, granted |-> {name1, name2},
   alias |-> (name1 :> name1) @@ (name2 :> name2) @@ (name3 :> name1),
   bytes |-> {0}, first |-> {<<0, 0>>}, readers |-> {CHOOSE r \in Readers : TRUE}, edits |-> 2]

OneFile ==
  [kind |-> "file", names |-> <<name1>>, granted |-> {name1}, alias |-> (name1 :> name1),
   bytes |-> Bytes, first |-> {<<0, 1>>}, readers |-> Readers, edits |-> 1]

ASSUME GrantAssumption == Grant(Directory)!Limits /\ Grant(OneFile)!Limits
ASSUME WebAssumption == Web!Limits
ASSUME CatalogAssumption == Catalog!Limits

(****************************************************************************)
(* The manifest.                                                            *)
(****************************************************************************)
Of(level, id) == [level |-> level, id |-> id]

Work == Of("work", None)

Plain(tier, scope, hash, size) ==
  [tier |-> tier, scope |-> scope, hash |-> hash, content |-> hash,
   secret |-> FALSE, size |-> size]

\* The secret sources have the same bytes.
Hidden(tier, scope, size) ==
  [tier |-> tier, scope |-> scope, hash |-> 9, content |-> 9,
   secret |-> TRUE, size |-> size]

AllSources == 1 .. 8

Manifest ==
  <<Plain("required", Work, 1, 1),
    Plain("compactable", Of("scene", scene1), 2, 3),
    Plain("optional", Of("chapter", chapter1), 3, 2),
    Hidden("compactable", Of("role", writer), 2),
    Hidden("required", Of("part", part1), 1),
    Plain("optional", Of("part", part1), 1, 2),
    Hidden("required", Of("role", editor), 2),
    Hidden("optional", Work, 2)>>

\* The matching snapshots, and one with the hash of sources 1 and 6 that matches neither.
AnySnapshots ==
  {[hash |-> Manifest[s].hash, content |-> Manifest[s].content, secret |-> Manifest[s].secret] :
     s \in AllSources}
  \cup {[hash |-> 1, content |-> 7, secret |-> FALSE]}

Summary(s, hash, usable) == [source |-> s, hash |-> hash, usable |-> usable, size |-> 1]

\* Current ones, one of older bytes, an empty one, and one of a secret source.
AnySummaries ==
  {Summary(2, 2, TRUE), Summary(2, 3, TRUE), Summary(3, 3, TRUE), Summary(3, 3, FALSE),
   Summary(4, 9, TRUE)}

Ask(target, role, budget) == [target |-> target, known |-> TRUE, role |-> role, budget |-> budget]

SecretRequests == {Ask(prologue, writer, 5), Ask(prologue, editor, 4), Ask(prologue, editor, 5)}

CoverageRequests ==
  {Ask(target, writer, 8) : target \in {box1, scene1, chapter1, part1, place}}
    \cup {Ask(box1, writer, 5), [Ask(box1, editor, 8) EXCEPT !.known = FALSE]}

AllRequests == SecretRequests \cup CoverageRequests

Outline(valid) ==
  [boxes |-> (box1 :> scene1), scenes |-> (scene1 :> chapter1),
   chapters |-> (chapter1 :> part1), parts |-> {part1, prologue}, valid |-> valid]

Outlines == {Outline(valid) : valid \in BOOLEAN}

(****************************************************************************)
(* The steps of a kind.                                                     *)
(****************************************************************************)
\* Of both kinds, with the requests and the contexts of one.
Compilation(requests, compilations) ==
  \E x \in compilations :
    \/ \E request \in requests : Compile(x, request)
    \/ Select(x) \/ LeaveOut(x) \/ Stop(x) \/ Finish(x) \/ Handoff(x) \/ Discard(x)

\* The structure comes first; nothing is summarised; source 5 is of another part.
SecretStep ==
  /\ kind = "secrets"
  /\ \/ structure = None /\ WithStructure(Outline(TRUE))
     \/ /\ structure # None
        /\ \/ \E s \in Secrets \ {5} : ConfirmSecretTransmission(s)
           \/ Compilation(SecretRequests, Contexts)

OneContext == {CHOOSE x \in Contexts : TRUE}

\* One context, one summary, and one confirmation of each of two secrets.
CoverageStep ==
  /\ kind = "coverage"
  /\ \/ \E s \in {4, 5} : confirms[s] = 0 /\ ConfirmSecretTransmission(s)
     \/ /\ \A s \in Sources : summaries[s] = None
        /\ \E summary \in Summaries : WithSummary(summary)
     \/ \E st \in Structures : WithStructure(st)
     \/ Compilation(CoverageRequests, OneContext)

ContextStep ==
  /\ SecretStep \/ CoverageStep
  /\ UNCHANGED <<kind, grantVars, webVars, catalogVars>>

GrantStep ==
  /\ \/ kind = "directory" /\ Grant(Directory)!Next
     \/ kind = "file" /\ Grant(OneFile)!Next
  /\ UNCHANGED <<kind, vars, webVars, catalogVars>>

WebStep ==
  /\ kind = "fetch"
  /\ Web!Next
  /\ UNCHANGED <<kind, vars, grantVars, catalogVars>>

CatalogStep ==
  /\ kind = "catalog"
  /\ Catalog!Next
  /\ UNCHANGED <<kind, vars, grantVars, webVars>>

\* Of the hashes of the manifest, the snapshots of at most one are missing.
MissesAtMostOne == Cardinality({Entry[s].hash : s \in Sources \ held}) <= 1

KindInit ==
  /\ kind \in {"secrets", "coverage", "directory", "file", "fetch", "catalog"}
  /\ Init
  /\ CASE kind = "coverage" -> MissesAtMostOne
       [] kind = "secrets" -> held \in {{}, {1, 4, 5, 6, 7, 8}}
       [] OTHER -> held = {}
  /\ IF kind = "file" THEN Grant(OneFile)!Init ELSE Grant(Directory)!Init
  /\ Web!Init
  /\ kind = "fetch" \/ (~secret /\ initial = CHOOSE url \in Public : TRUE)
  /\ Catalog!Init

KindNext == ContextStep \/ GrantStep \/ WebStep \/ CatalogStep

KindSpec == KindInit /\ [][KindNext]_<<kind, vars, grantVars, webVars, catalogVars>>

(****************************************************************************)
(* What the parts promise.                                                  *)
(****************************************************************************)
\* context.rs:560-790 and 1000-1074: whatever ended a compilation, its receipt names every
\* source the request is about, tells which texts are transmitted and stays within the budget;
\* what the request is about are the sources of what the target lies in.
ReceiptIsTrue ==
  /\ TypeOK
  /\ kind = "coverage" => ScopeIsAncestry
  /\ ReceiptCoversAll
  /\ ReceiptTellsTransmission
  /\ WithinBudget

Kept(of) ==
  /\ Grant(of)!TypeOK /\ Grant(of)!FrozenIsWhole
  /\ Grant(of)!ReturnedIsGranted /\ Grant(of)!GrantHeldWhenRead

\* sources.rs:696-801 and 1252-1294: a grant never holds, and a read never returns, a mixture
\* of two versions of a file, nor the bytes of another reader of the same handle; and every
\* granted file was still the granted one when a read had its bytes.
GrantsAreKept ==
  /\ kind = "directory" => Kept(Directory)
  /\ kind = "file" => Kept(OneFile)

\* sources.rs:944-1024 and 1113-1133: every request of a fetch goes to a URL that was checked,
\* none twice and at most max_redirects after the first; the metadata of the snapshot are the
\* route its bytes came by, and no more of them are held than the limit.
RouteIsChecked ==
  /\ Web!TypeOK
  /\ Web!RequestsAreChecked
  /\ Web!ProvenanceIsTheRoute
  /\ Web!BodyWithinLimit

\* sources.rs:145-289, workflow.rs:2493-2531: what is ingested has an entry that the manifest
\* accepts, a source enters a context with the text that was ingested or not at all, and all
\* sources whose artifacts are unharmed are found.
StoredIsFound ==
  /\ Catalog!TypeOK
  /\ Catalog!EveryIngestedValidates
  /\ Catalog!LoadedIsIngested
  /\ Catalog!AllAreFound
================================================================================
