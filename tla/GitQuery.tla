------------------------------ MODULE GitQuery ------------------------------
(***************************************************************************)
(* One read-only git query of the tool executor (src/tools.rs:496-539):    *)
(* the child process, the two threads that read its pipes up to a limit,   *)
(* and the caller that waits for the process and then for the threads.     *)
(*                                                                         *)
(* A stream is counted in bytes.  The child writes its bytes in any order, *)
(* and a write to a full pipe blocks it until the reader makes room.       *)
(***************************************************************************)
EXTENDS Naturals

CONSTANTS
  OutLimit,    \* MAX_RESULT_BYTES
  ErrLimit,    \* MAX_GIT_STDERR_BYTES
  Capacity,    \* of a pipe
  MaxWritten   \* bound: bytes the child writes to a stream

Limits ==
  /\ OutLimit \in Nat /\ ErrLimit \in Nat
  /\ Capacity \in Nat \ {0} /\ MaxWritten \in Nat

Stream == {"out", "err"}
Limit == [s \in Stream |-> IF s = "out" THEN OutLimit ELSE ErrLimit]

VARIABLES
  written,   \* what the child writes to each stream in all
  left,      \* what it has not written yet
  writing,   \* the stream its current write is to, or "none"
  child,     \* "running", "succeeded", "failed", "killed"
  reaped,
  pipe,      \* bytes in each pipe
  reader,    \* "reading", "killing", "ended", "over"
  got,       \* bytes each reader has kept
  overflow,
  caller     \* "waiting", "joining", "checking", "ok", "error"

vars == <<written, left, writing, child, reaped, pipe, reader, got, overflow,
          caller>>

TypeOK ==
  /\ written \in [Stream -> 0..MaxWritten]
  /\ left \in [Stream -> 0..MaxWritten]
  /\ writing \in Stream \cup {"none"}
  /\ child \in {"running", "succeeded", "failed", "killed"}
  /\ reaped \in BOOLEAN
  /\ pipe \in [Stream -> 0..Capacity]
  /\ reader \in [Stream -> {"reading", "killing", "ended", "over"}]
  /\ got \in [Stream -> Nat] /\ \A s \in Stream : got[s] <= Limit[s]
  /\ overflow \in BOOLEAN
  /\ caller \in {"waiting", "joining", "checking", "ok", "error"}

Init ==
  /\ written \in [Stream -> 0..MaxWritten]
  /\ left = written
  /\ writing = "none"
  /\ child = "running"
  /\ reaped = FALSE
  /\ pipe = [s \in Stream |-> 0]
  /\ reader = [s \in Stream |-> "reading"]
  /\ got = [s \in Stream |-> 0]
  /\ overflow = FALSE
  /\ caller = "waiting"

(***************************************************************************)
(* The child.                                                              *)
(***************************************************************************)
BeginWrite(s) ==
  /\ child = "running" /\ writing = "none" /\ left[s] > 0
  /\ writing' = s
  /\ UNCHANGED <<written, left, child, reaped, pipe, reader, got, overflow,
                 caller>>

\* A pipe nobody reads any more ends the process that writes to it.
Write(s) ==
  /\ child = "running" /\ writing = s
  /\ writing' = "none"
  /\ \/ /\ reader[s] \in {"reading", "killing"} /\ pipe[s] < Capacity
        /\ pipe' = [pipe EXCEPT ![s] = @ + 1]
        /\ left' = [left EXCEPT ![s] = @ - 1]
        /\ UNCHANGED child
     \/ /\ reader[s] \in {"ended", "over"}
        /\ child' = "killed"
        /\ UNCHANGED <<pipe, left>>
  /\ UNCHANGED <<written, reaped, reader, got, overflow, caller>>

Exit ==
  /\ child = "running" /\ writing = "none"
  /\ \A s \in Stream : left[s] = 0
  /\ child' \in {"succeeded", "failed"}
  /\ UNCHANGED <<written, left, writing, reaped, pipe, reader, got, overflow,
                 caller>>

(***************************************************************************)
(* A reader thread (bounded_git_reader, read_bounded).                     *)
(***************************************************************************)
\* Mutant: a reader never asks for more than it may keep.
RoomToTheLimit(s) == Limit[s] - got[s]

\* Bytes read_bounded asks for: one more than may be kept.
Room(s) == Limit[s] + 1 - got[s]

MayKeep(s, n) == got[s] + n <= Limit[s]

MayRead(s) == reader[s] = "reading"

Read(s) ==
  /\ MayRead(s)
  /\ pipe[s] > 0
  /\ \E n \in 1..pipe[s] :
       /\ n <= Room(s)
       /\ pipe' = [pipe EXCEPT ![s] = @ - n]
       /\ IF MayKeep(s, n)
            THEN /\ got' = [got EXCEPT ![s] = @ + n]
                 /\ UNCHANGED <<reader, overflow>>
            ELSE /\ overflow' = TRUE
                 /\ reader' = [reader EXCEPT ![s] =
                                 IF overflow THEN "over" ELSE "killing"]
                 /\ UNCHANGED got
  /\ UNCHANGED <<written, left, writing, child, reaped, caller>>

\* A read of no bytes: the pipe is closed, or none were asked for.
EndOfStream(s) ==
  /\ MayRead(s)
  /\ \/ pipe[s] = 0 /\ child # "running"
     \/ Room(s) = 0
  /\ reader' = [reader EXCEPT ![s] = "ended"]
  /\ UNCHANGED <<written, left, writing, child, reaped, pipe, got, overflow,
                 caller>>

\* SIGKILL to the child's process identifier; the thread's end of the pipe is
\* closed when it returns.
Kill(s) ==
  /\ reader[s] = "killing"
  /\ reader' = [reader EXCEPT ![s] = "over"]
  /\ child' = IF child = "running" THEN "killed" ELSE child
  /\ UNCHANGED <<written, left, writing, reaped, pipe, got, overflow, caller>>

(***************************************************************************)
(* The caller.                                                             *)
(***************************************************************************)
Wait ==
  /\ caller = "waiting" /\ child # "running"
  /\ reaped' = TRUE
  /\ caller' = "joining"
  /\ UNCHANGED <<written, left, writing, child, pipe, reader, got, overflow>>

\* An error of the first thread returns before the second is joined.
JoinOut ==
  /\ caller = "joining" /\ reader["out"] \in {"ended", "over"}
  /\ caller' = IF reader["out"] = "ended" THEN "checking" ELSE "error"
  /\ UNCHANGED <<written, left, writing, child, reaped, pipe, reader, got,
                 overflow>>

JoinErr ==
  /\ caller = "checking" /\ reader["err"] \in {"ended", "over"}
  /\ caller' = IF reader["err"] = "ended" /\ ~overflow /\ child = "succeeded"
               THEN "ok" ELSE "error"
  /\ UNCHANGED <<written, left, writing, child, reaped, pipe, reader, got,
                 overflow>>

Child == (\E s \in Stream : BeginWrite(s) \/ Write(s)) \/ Exit
Reader(s) == Read(s) \/ EndOfStream(s) \/ Kill(s)
Caller == Wait \/ JoinOut \/ JoinErr

Next == Child \/ (\E s \in Stream : Reader(s)) \/ Caller

\* Processes and threads are scheduled; the bytes of the child are finite.
Spec ==
  /\ Init /\ [][Next]_vars
  /\ WF_vars(Child)
  /\ \A s \in Stream : WF_vars(Reader(s))
  /\ WF_vars(Caller)

(***************************************************************************)
(* Properties.                                                             *)
(***************************************************************************)
\* A query that succeeds has all of what git wrote, however the threads, the
\* exit of the process and the limits fell (tools.rs:496-539, 716-738).
OkIsWhole ==
  caller = "ok" =>
    /\ got = written
    /\ child = "succeeded"

\* A query returns: a child that fills one pipe while the other is read, or
\* that writes more than the limit, does not hold it up (tools.rs:510-532).
Returns == <>(caller \in {"ok", "error"})
=============================================================================
