------------------------------ MODULE SourceCatalog ------------------------------
(****************************************************************************)
(* Snapshots, their entries in the source manifest, their two artifacts     *)
(* under 資料/snapshots, and what a run finds of them when it compiles a    *)
(* chapter's context (workflow.rs, compile_project_context), after files    *)
(* were lost or changed.  Bytes are their own hashes: equal if and only if  *)
(* the hashes are.  The compiler itself is ContextCompiler's.               *)
(****************************************************************************)
EXTENDS Integers, Sequences, FiniteSets, Functions

CONSTANTS
  Texts,          \* contents of text and Markdown files
  Pages,          \* web pages: the bytes, before conversion
  Pdfs,           \* PDF files: the bytes, before extraction
  Damaged,        \* bytes an artifact may be changed to
  MaxDamage,      \* a bound on the artifacts lost or changed
  None

Raw == Texts \cup Pages \cup Pdfs

\* htmd and the PDF extraction give other bytes than those they read.
Converted(raw) == <<"converted", raw>>

WebMetadata(raw) == [raw_sha256 |-> raw, content_sha256 |-> Converted(raw)]

Limits == MaxDamage \in Nat /\ \A raw \in Pages : WebMetadata(raw) # None

VARIABLES
  snapshots,      \* what was ingested and approved
  disk,           \* [path -> bytes] of the artifacts that exist
  damage,         \* how often an artifact was lost or changed
  loaded          \* the last run: [state, found], found the sources with their snapshots

vars == <<snapshots, disk, damage, loaded>>

(****************************************************************************)
(* Snapshots.                                                               *)
(****************************************************************************)
Snapshot(kind, raw, content, secret, web) ==
  [kind |-> kind, raw |-> raw, content |-> content, secret |-> secret, web |-> web]

FromText(raw, secret) == Snapshot("text", raw, raw, secret, None)

FromPdf(raw, secret) == Snapshot("pdf", raw, Converted(raw), secret, None)

FromWeb(raw, secret) ==
  Snapshot("web", raw, Converted(raw), secret, IF secret THEN None ELSE WebMetadata(raw))

Ingested ==
  {FromText(raw, s) : raw \in Texts \cup Pages, s \in BOOLEAN}
    \cup {FromPdf(raw, s) : raw \in Pdfs, s \in BOOLEAN}
    \cup {FromWeb(raw, s) : raw \in Pages, s \in BOOLEAN}

RawPath(raw) == <<"raw", raw>>

\* Mutant: the text is kept under the same name as the bytes it comes from.
OnePath(raw, content) == RawPath(raw)

ContentPath(raw, content) == IF raw = content THEN RawPath(raw) ELSE <<"context.txt", raw>>

\* Snapshot::reference.
Reference(s) ==
  [raw_sha256 |-> s.raw,
   content_sha256 |-> s.content,
   raw_artifact |-> IF s.secret THEN None ELSE RawPath(s.raw),
   content_artifact |-> IF s.secret THEN None ELSE ContentPath(s.raw, s.content),
   ephemeral |-> s.secret]

\* A snapshot is one source, so its entry is known by it.
EntryOf(s) ==
  [kind |-> s.kind, expected_sha256 |-> s.raw, snapshot |-> Reference(s), web |-> s.web]

Artifacts(s) ==
  IF s.secret THEN <<>>
  ELSE [path \in {RawPath(s.raw), ContentPath(s.raw, s.content)} |->
          IF path = RawPath(s.raw) THEN s.raw ELSE s.content]

(****************************************************************************)
(* The manifest.                                                            *)
(****************************************************************************)
HasExpectedArtifactPaths(reference) ==
  /\ reference.raw_artifact = RawPath(reference.raw_sha256)
  /\ reference.content_artifact = ContentPath(reference.raw_sha256, reference.content_sha256)

\* SourceManifest::validate, for one entry.
Validates(entry) ==
  /\ entry.expected_sha256 = entry.snapshot.raw_sha256
  /\ entry.snapshot.ephemeral =>
       /\ entry.snapshot.raw_artifact = None
       /\ entry.snapshot.content_artifact = None
       /\ entry.web = None
  /\ ~entry.snapshot.ephemeral => HasExpectedArtifactPaths(entry.snapshot)
  /\ entry.kind = "web" /\ ~entry.snapshot.ephemeral => entry.web # None
  /\ entry.kind # "web" => entry.web = None
  /\ entry.web # None =>
       /\ entry.web.raw_sha256 = entry.snapshot.raw_sha256
       /\ entry.web.content_sha256 = entry.snapshot.content_sha256

\* Snapshot::matches_entry; the hashes of a snapshot are those of its bytes.
MatchesEntry(s, entry) ==
  /\ s.raw = entry.expected_sha256
  /\ s.content = entry.snapshot.content_sha256
  /\ s.kind = entry.kind
  /\ s.secret = entry.snapshot.ephemeral
  /\ IF s.kind = "web" /\ ~s.secret THEN s.web = entry.web ELSE s.web = None /\ entry.web = None

(****************************************************************************)
(* The steps.                                                               *)
(****************************************************************************)
NotLoaded == [state |-> "no", found |-> {}]

Init ==
  /\ snapshots = {}
  /\ disk = <<>>
  /\ damage = 0
  /\ loaded = NotLoaded

\* A source is ingested, and approved with the artifacts it needs.
Register(s) ==
  /\ s \notin snapshots
  /\ Validates(EntryOf(s))
  /\ snapshots' = snapshots \cup {s}
  /\ disk' = [path \in DOMAIN disk \cup DOMAIN Artifacts(s) |->
                IF path \in DOMAIN Artifacts(s) THEN Artifacts(s)[path] ELSE disk[path]]
  /\ loaded' = NotLoaded
  /\ UNCHANGED damage

Damage(path, bytes) ==
  /\ damage < MaxDamage
  /\ damage' = damage + 1
  /\ disk' = IF bytes = None THEN Restrict(disk, DOMAIN disk \ {path})
             ELSE [disk EXCEPT ![path] = bytes]
  /\ loaded' = NotLoaded
  /\ UNCHANGED snapshots

\* Secret sources and those with a missing artifact are passed over.
Readable(entry) ==
  /\ ~entry.snapshot.ephemeral
  /\ {entry.snapshot.raw_artifact, entry.snapshot.content_artifact} \subseteq DOMAIN disk

\* Snapshot::from_artifacts: the hashes are those of what was read.
FromArtifacts(entry) ==
  Snapshot(entry.kind, disk[entry.snapshot.raw_artifact],
           disk[entry.snapshot.content_artifact], FALSE, entry.web)

Found == {FromArtifacts(EntryOf(s)) : s \in {x \in snapshots : Readable(EntryOf(x))}}

\* ContextCompiler::new refuses them all if one source's bytes are there and nothing matches it.
Load ==
  /\ loaded = NotLoaded
  /\ loaded' =
       IF \A s \in snapshots :
            (\E f \in Found : f.raw = s.raw) => \E f \in Found : MatchesEntry(f, EntryOf(s))
       THEN [state |-> "loaded",
             found |-> {pair \in snapshots \X Found : MatchesEntry(pair[2], EntryOf(pair[1]))}]
       ELSE [state |-> "refused", found |-> {}]
  /\ UNCHANGED <<snapshots, disk, damage>>

Next ==
  \/ \E s \in Ingested : Register(s)
  \/ \E path \in DOMAIN disk, bytes \in Damaged \cup {None} : Damage(path, bytes)
  \/ Load

Spec == Init /\ [][Next]_vars

(****************************************************************************)
(* Properties.                                                              *)
(****************************************************************************)
TypeOK ==
  /\ snapshots \subseteq Ingested
  /\ \A path \in DOMAIN disk : path[1] \in {"raw", "context.txt"} /\ path[2] \in Raw
  /\ damage \in 0 .. MaxDamage
  /\ loaded.state \in {"no", "loaded", "refused"}
  /\ \A pair \in loaded.found : pair[1] \in snapshots

\* sources.rs:145-162 and 181-289: whatever is ingested, secret or not, as text, PDF or page,
\* has an entry that the manifest accepts.
EveryIngestedValidates == \A s \in Ingested : Validates(EntryOf(s))

\* workflow.rs:2493-2531: a source enters a context with exactly the text that was ingested,
\* whatever happened to the artifacts of it and of the others, and never if it is secret.
LoadedIsIngested ==
  \A pair \in loaded.found : pair[2] = pair[1] /\ ~pair[1].secret

\* Sources whose artifacts are unharmed are all found, however many share their bytes: kinds
\* have paths of their own, and only a secret source with the bytes of a stored one is in the way.
SharedWithSecret ==
  \E s, x \in snapshots : s.secret /\ ~x.secret /\ s.raw = x.raw

AllAreFound ==
  damage = 0 /\ loaded # NotLoaded /\ ~SharedWithSecret =>
    \A s \in snapshots : s.secret \/ <<s, s>> \in loaded.found
==================================================================================
