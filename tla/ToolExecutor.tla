---------------------------- MODULE ToolExecutor ----------------------------
(***************************************************************************)
(* The model's tools (src/tools.rs): the fixed table of what each role may *)
(* use, the executor that runs one request below the workspace, and the    *)
(* artifact store that keeps every result under its hash, within limits.   *)
(*                                                                         *)
(* A result, a file and a range are sequences of bytes, and the hash of    *)
(* one stands for it (SHA-256 does not collide).  Characters have one byte *)
(* or two; a file, a range and the part of a result that is shown may end  *)
(* inside one, and bytes need not be text at all.  The limits are the      *)
(* constants of tools.rs:27-30 made small.  How a git query is read from   *)
(* its process is GitQuery's; here it answers with some bytes or fails.    *)
(***************************************************************************)
EXTENDS Naturals, Sequences, FiniteSets, Functions

CONSTANTS
  Byte,
  Lead,         \* bytes that begin a character of two, and
  Trail,        \* those that end one; any other byte is a character
  Replacement,  \* U+FFFD, in what is shown
  Path,         \* paths a request may name
  Unsafe,       \* those that are empty, absolute, climb, or are .git's
  None,
  MaxLength,    \* bound: bytes of a file
  MaxResult,    \* MAX_RESULT_BYTES
  MaxVisible,   \* MAX_VISIBLE_TOKENS, in bytes
  MaxSession,   \* MAX_SESSION_BYTES
  MaxCalls,     \* MAX_CALLS
  MaxProtect    \* bound: references of an artifact

Limits ==
  /\ {MaxLength, MaxResult, MaxVisible, MaxSession, MaxCalls, MaxProtect}
       \subseteq Nat
  /\ IsFiniteSet(Path) /\ Unsafe \subseteq Path
  /\ Lead \cup Trail \subseteq Byte /\ Replacement \notin Byte

Bytes(n) == UNION {[1..k -> Byte] : k \in 0..n}

(***************************************************************************)
(* Text.  The conversion of bytes that are not UTF-8 shows a replacement   *)
(* in the place of each byte that is in no whole character.                *)
(***************************************************************************)
Plain == Byte \ (Lead \cup Trail)

InCharacter(bytes, i) ==
  \/ bytes[i] \in Plain
  \/ bytes[i] \in Lead /\ i < Len(bytes) /\ bytes[i + 1] \in Trail
  \/ bytes[i] \in Trail /\ i > 1 /\ bytes[i - 1] \in Lead

Utf8(bytes) == \A i \in DOMAIN bytes : InCharacter(bytes, i)

\* String::from_utf8_lossy.
Lossy(bytes) ==
  [i \in DOMAIN bytes |->
     IF InCharacter(bytes, i) THEN bytes[i] ELSE Replacement]

Shown(n) == UNION {[1..k -> Byte \cup {Replacement}] : k \in 0..n}

(***************************************************************************)
(* Roles and tools.                                                        *)
(***************************************************************************)
ToolRole == {"author", "consistency_critic", "style_critic", "fact_critic",
             "coordinator"}

AllTools == {"read_file", "search_files", "edit_candidate", "diff", "import",
             "git", "shell", "web", "subagent"}

ForRole(r) ==
  IF r \in {"author", "coordinator"} THEN AllTools
  ELSE {"read_file", "search_files", "diff", "import", "git", "web"}

\* model_definitions: what a request of a role offers the model.
Exposed(r) ==
  ForRole(r) \cap {"read_file", "search_files", "diff", "import", "git"}

Request ==
  [tool : {"read_file", "import"}, path : Path]
    \cup [tool : {"search_files"}, query : Plain]
    \cup [tool : {"edit_candidate"}, path : Path, contents : Bytes(MaxLength)]
    \cup [tool : {"diff"}]
    \cup [tool : {"git"}, query : {"status", "diff"}]

VARIABLES
  files,       \* the workspace
  role,        \* the executor's role, None while there is no executor
  artifacts,   \* hash -> references
  accounted,   \* accounted_bytes
  calls,
  result       \* what the last operation answered

toolVars == <<files, role, artifacts, accounted, calls, result>>

\* A path leads to a regular file, to nothing, or to something that is never
\* followed: a link, a directory, a path through either.
File == [kind : {"file"}, bytes : Bytes(MaxLength)]
          \cup [kind : {"absent", "other"}, bytes : {<<>>}]

Failed == [ok |-> FALSE]

ToolResult ==
  [ok : {TRUE}, sha256 : Bytes(MaxResult), total_bytes : 0..MaxResult,
   visible : Shown(MaxVisible), truncated : BOOLEAN]

TypeOK ==
  /\ files \in [Path \ Unsafe -> File]
  /\ role \in ToolRole \cup {None}
  /\ DOMAIN artifacts \subseteq Bytes(MaxResult)
  /\ Range(artifacts) \subseteq 0..MaxProtect
  /\ accounted \in 0..((MaxCalls + 1) * MaxResult)
  /\ calls \in 0..(MaxCalls + 1)
  /\ result \in {None, Failed} \cup ToolResult

NoArtifacts == [b \in {} |-> 0]

NoExecutor ==
  /\ role = None
  /\ artifacts = NoArtifacts
  /\ accounted = 0
  /\ calls = 0

NewExecutor(r) ==
  /\ role' = r
  /\ artifacts' = NoArtifacts
  /\ accounted' = 0
  /\ calls' = 0

(***************************************************************************)
(* The artifact store.  A byte is accounted before it is kept, and stays   *)
(* accounted when the limit refuses it.                                    *)
(***************************************************************************)
Min2(a, b) == IF a < b THEN a ELSE b

\* result_for, from the start of the artifact.
ResultFor(bytes) ==
  [ok |-> TRUE, sha256 |-> bytes, total_bytes |-> Len(bytes),
   visible |-> Lossy(SubSeq(bytes, 1, Min2(Len(bytes), MaxVisible))),
   truncated |-> Len(bytes) > MaxVisible]

Keep(bytes) ==
  artifacts' = IF bytes \in DOMAIN artifacts THEN artifacts
               ELSE [b \in DOMAIN artifacts \cup {bytes} |->
                       IF b = bytes THEN 0 ELSE artifacts[b]]

\* Mutant: the bytes of a result are not kept.
StoreUnkept(bytes) ==
  IF Len(bytes) > MaxResult
    THEN /\ result' = Failed
         /\ UNCHANGED <<artifacts, accounted>>
    ELSE /\ accounted' = accounted + Len(bytes)
         /\ UNCHANGED artifacts
         /\ result' = IF accounted' > MaxSession THEN Failed
                      ELSE ResultFor(bytes)

\* account.
Accounted(bytes) == accounted + Len(bytes)

\* store, and the end of read_range.
Store(bytes) ==
  IF Len(bytes) > MaxResult
    THEN /\ result' = Failed
         /\ UNCHANGED <<artifacts, accounted>>
    ELSE /\ accounted' = Accounted(bytes)
         /\ IF accounted' > MaxSession
              THEN /\ result' = Failed
                   /\ UNCHANGED artifacts
              ELSE /\ Keep(bytes)
                   /\ result' = ResultFor(bytes)

\* note_call counts the refused call too.
NoteCall == calls' = calls + 1

TooManyCalls == calls + 1 > MaxCalls

(***************************************************************************)
(* The workspace.                                                          *)
(***************************************************************************)
\* validate_relative.
Relative(p) == p \notin Unsafe

\* open_parent follows no link, and the leaf is opened with O_NOFOLLOW.
Reached(p, kinds) == files[p].kind \in kinds

Readable(p) ==
  /\ Relative(p)
  /\ Reached(p, {"file"})
  /\ Len(files[p].bytes) <= MaxResult

ReadFile(p) == IF Readable(p) THEN {files[p].bytes} ELSE {}

\* search_directory walks every directory but .git and .phemius, and one
\* unreadable file fails the whole search; one that is not text is passed
\* over.  What is found of a match is the byte itself, so the order in which the file system lists a directory does
\* not show.
Searched == {p \in DOMAIN files : files[p].kind = "file"}

Matches(query) ==
  UNION {{p} \X {i \in DOMAIN files[p].bytes : files[p].bytes[i] = query} :
           p \in {q \in Searched : Utf8(files[q].bytes)}}

\* append_search_result refuses before it appends.
WithinSearch(found) == Len(found) <= MaxResult

SearchFiles(query) ==
  IF \E p \in Searched : ~Readable(p) THEN {}
  ELSE {found \in {[k \in 1..Cardinality(Matches(query)) |-> query]} :
          WithinSearch(found)}

\* What a read-only request may answer; it fails when that is nothing, and a
\* git query may always fail.
Output(request) ==
  CASE request.tool \in {"read_file", "import"} -> ReadFile(request.path)
    [] request.tool = "search_files" -> SearchFiles(request.query)
    [] request.tool \in {"diff", "git"} -> Bytes(MaxResult)

MayFail(request) == request.tool \in {"diff", "git"} \/ Output(request) = {}

\* write_candidate: the file is truncated when it is opened, and a write that
\* fails leaves a prefix of the contents.
Writable(p) == Relative(p) /\ Reached(p, {"file", "absent"})

Written(p, bytes) ==
  files' = [files EXCEPT ![p] = [kind |-> "file", bytes |-> bytes]]

(***************************************************************************)
(* Operations of ToolExecutor.                                             *)
(***************************************************************************)
Refuse ==
  /\ result' = Failed
  /\ UNCHANGED <<files, artifacts, accounted>>

\* execute: every way a request ends.
Execute(request) ==
  /\ role # None
  /\ UNCHANGED role
  /\ IF request.tool \notin ForRole(role)
       THEN Refuse /\ UNCHANGED calls
       ELSE /\ NoteCall
            /\ \/ TooManyCalls /\ Refuse
               \/ /\ ~TooManyCalls
                  /\ request.tool # "edit_candidate"
                  /\ \/ MayFail(request) /\ Refuse
                     \/ /\ \E bytes \in Output(request) : Store(bytes)
                        /\ UNCHANGED files
               \/ /\ ~TooManyCalls
                  /\ request.tool = "edit_candidate"
                  /\ \/ /\ Writable(request.path)
                        /\ Len(request.contents) <= MaxResult
                        /\ Written(request.path, request.contents)
                        /\ \E b \in Plain : Store(<<b>>)  \* the notice
                     \/ /\ Writable(request.path)
                        /\ Len(request.contents) <= MaxResult
                        /\ \E k \in 0..Len(request.contents) :
                             Written(request.path,
                                     SubSeq(request.contents, 1, k))
                        /\ result' = Failed
                        /\ UNCHANGED <<artifacts, accounted>>
                     \/ /\ \/ ~Writable(request.path)
                           \/ Len(request.contents) > MaxResult
                        /\ Refuse

HasRange(sha256, start, end) ==
  /\ sha256 \in DOMAIN artifacts
  /\ start <= end /\ end <= Len(sha256)

\* read_artifact_range, of any hash and any range.
ReadRange(sha256, start, end) ==
  /\ role # None
  /\ NoteCall
  /\ UNCHANGED <<files, role>>
  /\ IF TooManyCalls \/ ~HasRange(sha256, start, end)
       THEN /\ result' = Failed
            /\ UNCHANGED <<artifacts, accounted>>
       ELSE Store(SubSeq(sha256, start + 1, end))

Protect(sha256) ==
  /\ role # None
  /\ IF sha256 \in DOMAIN artifacts
       THEN /\ artifacts[sha256] < MaxProtect
            /\ artifacts' = [artifacts EXCEPT ![sha256] = @ + 1]
            /\ UNCHANGED result
       ELSE /\ result' = Failed
            /\ UNCHANGED artifacts
  /\ UNCHANGED <<files, role, accounted, calls>>

Release(sha256) ==
  /\ role # None
  /\ IF sha256 \in DOMAIN artifacts /\ artifacts[sha256] > 0
       THEN /\ artifacts' = [artifacts EXCEPT ![sha256] = @ - 1]
            /\ UNCHANGED result
       ELSE /\ result' = Failed
            /\ UNCHANGED artifacts
  /\ UNCHANGED <<files, role, accounted, calls>>

\* Anybody may change the workspace while a model works in it.
Outside(p) ==
  /\ \E file \in File : files' = [files EXCEPT ![p] = file]
  /\ UNCHANGED <<role, artifacts, accounted, calls, result>>

(***************************************************************************)
(* An executor by itself, its public operations called in any order.       *)
(***************************************************************************)
Open(r) ==
  /\ role = None
  /\ NewExecutor(r)
  /\ UNCHANGED <<files, result>>

Init ==
  /\ files \in [Path \ Unsafe -> File]
  /\ NoExecutor
  /\ result = None

Next ==
  \/ \E r \in ToolRole : Open(r)
  \/ /\ calls <= MaxCalls
     /\ \/ \E request \in Request : Execute(request)
        \/ \E sha256 \in Bytes(MaxResult), start, end \in 0..(MaxResult + 1) :
             ReadRange(sha256, start, end)
  \/ \E sha256 \in Bytes(MaxResult) : Protect(sha256) \/ Release(sha256)
  \/ \E p \in DOMAIN files : Outside(p)

Spec == Init /\ [][Next]_toolVars

(***************************************************************************)
(* Properties.                                                             *)
(***************************************************************************)
\* What the store keeps fits the session's limit, whatever was refused before
\* (account adds before it checks): reads, ranges of what was read and calls
\* that failed half way all count (tools.rs:601-614, 616-641, 659-669).
RetainedFits ==
  SumFunction([b \in DOMAIN artifacts |-> Len(b)]) <= MaxSession

\* A result can be read again: the hash the model was given names a kept
\* artifact of the length it was told.  A text that is not marked as truncated
\* is as long as the artifact, and of an artifact that is UTF-8 every byte of
\* it is shown; in a truncated one only the last may be of a character that
\* was cut (tools.rs:345-352, 671-689).
ResultIsRetained ==
  result \in ToolResult =>
    /\ result.sha256 \in DOMAIN artifacts
    /\ result.total_bytes = Len(result.sha256)
    /\ ~result.truncated => Len(result.visible) = result.total_bytes
    /\ Utf8(result.sha256) =>
         \A i \in DOMAIN result.visible :
           \/ result.visible[i] = result.sha256[i]
           \/ result.truncated /\ i = Len(result.visible)
=============================================================================
