------------------------------ MODULE WebSnapshot ------------------------------
(****************************************************************************)
(* snapshot_web of sources.rs: one page is fetched, hop by hop, from        *)
(* servers that may answer each request with anything.  A body is the       *)
(* number of its bytes; a URL that may not be asked for is one that is not  *)
(* https, carries a user or names a host that is not public.                *)
(****************************************************************************)
EXTENDS Integers, Sequences, FiniteSets, TLC, SequencesExt

CONSTANTS
  Urls,           \* the URLs servers may name
  Public,         \* those that may be asked for
  MaxRedirects,   \* limits.max_redirects
  MaxBytes,       \* limits.max_bytes
  MaxChunk,       \* a bound on the size of one chunk
  None

Limits ==
  /\ Public \subseteq Urls
  /\ MaxRedirects \in Nat /\ MaxBytes \in Nat /\ MaxChunk \in Nat

VARIABLES
  pc,             \* "new", "ask", "answer", "body", "done" or "failed"
  initial,        \* the URL a person named
  current,        \* the URL of this hop
  chain,          \* the URLs that redirected
  visited,        \* the URLs that were asked for
  body,           \* the bytes read so far
  secret,         \* whether the snapshot is to leave no metadata
  metadata,       \* of the finished snapshot
  asked           \* ghost: the requests that were sent, in order

vars == <<pc, initial, current, chain, visited, body, secret, metadata, asked>>

Init ==
  /\ pc = "new"
  /\ initial \in Urls
  /\ current = initial
  /\ secret \in BOOLEAN
  /\ chain = <<>>
  /\ visited = {}
  /\ body = 0
  /\ metadata = None
  /\ asked = <<>>

\* validate_web_url.
Safe(url) == url \in Public

Go(next) == pc' = next

Fail == Go("failed") /\ UNCHANGED <<initial, current, chain, visited, body, secret, metadata, asked>>

Start ==
  /\ pc = "new"
  /\ IF Safe(initial)
     THEN Go("ask") /\ UNCHANGED <<initial, current, chain, visited, body, secret, metadata, asked>>
     ELSE Fail

Ask ==
  /\ pc = "ask"
  /\ IF current \in visited
     THEN Fail
     ELSE /\ visited' = visited \cup {current}
          /\ asked' = Append(asked, current)
          /\ Go("answer")
          /\ UNCHANGED <<initial, current, chain, body, secret, metadata>>

\* The chain with this hop still has as many hops as are allowed.
Allowed(hops) == Len(hops) <= MaxRedirects

\* redirect_target: a Location header that names a URL that may be asked for.
Target(url) == url # None /\ Safe(url)

Redirect(url) ==
  /\ pc = "answer"
  /\ LET hops == Append(chain, current)
     IN  IF Target(url) /\ Allowed(hops)
         THEN /\ chain' = hops
              /\ current' = url
              /\ Go("ask")
              /\ UNCHANGED <<initial, visited, body, secret, metadata, asked>>
         ELSE Fail

\* A status that is no success, or a transport that failed at any time.
Refused == pc \in {"answer", "body"} /\ Fail

\* A length that is declared is compared; one that is missing is not.
Succeeds(declared) ==
  /\ pc = "answer"
  /\ IF declared # None /\ declared > MaxBytes
     THEN Fail
     ELSE Go("body") /\ UNCHANGED <<initial, current, chain, visited, body, secret, metadata, asked>>

Room(size) == body + size <= MaxBytes

Chunk(size) ==
  /\ pc = "body"
  /\ IF Room(size)
     THEN /\ body' = body + size
          /\ UNCHANGED <<pc, initial, current, chain, visited, secret, metadata, asked>>
     ELSE Fail

\* Mutant: the chain of the metadata is that of the redirects alone.
Hops == [initial |-> initial, final |-> current, chain |-> chain]

\* finish_web_snapshot: the chain of the metadata ends with the final URL.
Metadata == [initial |-> initial, final |-> current, chain |-> Append(chain, current)]

\* The body ends; bytes that are not UTF-8 or do not convert make no snapshot.
Finish ==
  /\ pc = "body"
  /\ \/ Fail
     \/ /\ Go("done")
        /\ metadata' = IF secret THEN None ELSE Metadata
        /\ UNCHANGED <<initial, current, chain, visited, body, secret, asked>>

Stopped == pc \in {"done", "failed"} /\ UNCHANGED vars

Next ==
  \/ Start \/ Ask \/ Refused \/ Finish \/ Stopped
  \/ \E url \in Urls \cup {None} : Redirect(url)
  \/ \E declared \in {None} \cup 0 .. MaxBytes + 1 : Succeeds(declared)
  \/ \E size \in 1 .. MaxChunk : Chunk(size)

Spec == Init /\ [][Next]_vars

(****************************************************************************)
(* Properties.                                                              *)
(****************************************************************************)
TypeOK ==
  /\ pc \in {"new", "ask", "answer", "body", "done", "failed"}
  /\ {initial, current} \subseteq Urls
  /\ chain \in Seq(Public) /\ asked \in Seq(Urls)
  /\ visited \subseteq Urls
  /\ body \in Nat
  /\ secret \in BOOLEAN

\* sources.rs:944-1024: whatever servers answer, each request goes to a URL that was checked, no
\* URL is asked for twice, and there are at most max_redirects of them after the first.
RequestsAreChecked ==
  /\ Range(asked) \subseteq Public
  /\ IsInjective(asked)
  /\ Len(asked) <= MaxRedirects + 1

\* sources.rs:1113-1133: the metadata of a snapshot names exactly the URLs that were asked for,
\* in their order, from the one a person named to the one the bytes came from; that of a secret
\* snapshot names none.
ProvenanceIsTheRoute ==
  pc = "done" =>
    IF secret THEN metadata = None
    ELSE /\ metadata.chain = asked
         /\ metadata.initial = Head(asked)
         /\ metadata.final = Last(asked)

\* sources.rs:1013-1020: no more bytes are held than the limit, also when the server declared
\* no length or a smaller one.
BodyWithinLimit == body <= MaxBytes
================================================================================
