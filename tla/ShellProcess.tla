----------------------------- MODULE ShellProcess -----------------------------
(****************************************************************************)
(* capture_child and terminate_group of sandbox.rs: a shell command runs in *)
(* a process group of its own, its leader may leave other processes behind  *)
(* in it, and the call that reads their output ends by itself, at a limit   *)
(* or because its future is dropped.  Output is counted in bytes.           *)
(****************************************************************************)
EXTENDS Integers, FiniteSets

CONSTANTS
  Process,       \* those the command may start
  Leader,        \* the one that is started first
  OutputLimit,   \* request.output_limit
  Capacity,      \* of a pipe
  MaxWritten     \* a bound on the bytes written to one stream

Limits ==
  /\ Leader \in Process
  /\ OutputLimit \in Nat /\ MaxWritten \in Nat /\ Capacity \in Nat \ {0}

Stream == {"stdout", "stderr"}

VARIABLES
  alive,      \* the processes that run
  born,       \* the processes that ever did
  holds,      \* [Stream -> the processes that have it open]
  stubborn,   \* those that ignore SIGTERM
  pipe,       \* [Stream -> the bytes in it]
  written,    \* [Stream -> the bytes ever written to it]
  pc,         \* "top", "select", "limit", "term", "kill", "returned" or "dropped"
  open,       \* the streams that did not end yet
  got,        \* [Stream -> the bytes read from it]
  reaped,     \* whether the leader was waited for, so that child.id() is None
  status,     \* whether the loop has the exit status
  late,       \* whether the deadline passed
  result      \* "none", "ok", "time", "output" or "failed"

processes == <<alive, born, holds, stubborn, pipe, written>>
call == <<pc, open, got, reaped, status, result>>
vars == <<alive, born, holds, stubborn, pipe, written, pc, open, got, reaped, status, late, result>>

Init ==
  /\ alive = {Leader} /\ born = {Leader}
  /\ holds = [s \in Stream |-> {Leader}]
  /\ stubborn \in SUBSET Process
  /\ pipe = [s \in Stream |-> 0] /\ written = [s \in Stream |-> 0]
  /\ pc = "top" /\ open = Stream /\ got = [s \in Stream |-> 0]
  /\ reaped = FALSE /\ status = FALSE
  /\ late = FALSE
  /\ result = "none"

Total == got["stdout"] + got["stderr"]

(****************************************************************************)
(* The processes of the group.                                              *)
(****************************************************************************)
Dead(killed) ==
  /\ alive' = alive \ killed
  /\ holds' = [s \in Stream |-> holds[s] \ killed]

\* A child has the streams of its parent.
Fork(p, child) ==
  /\ p \in alive /\ child \notin born
  /\ alive' = alive \cup {child} /\ born' = born \cup {child}
  /\ holds' = [s \in Stream |-> IF p \in holds[s] THEN holds[s] \cup {child} ELSE holds[s]]
  /\ UNCHANGED <<stubborn, pipe, written, call, late>>

Write(p, s) ==
  /\ p \in alive \cap holds[s]
  /\ pipe[s] < Capacity /\ written[s] < MaxWritten
  /\ pipe' = [pipe EXCEPT ![s] = @ + 1]
  /\ written' = [written EXCEPT ![s] = @ + 1]
  /\ UNCHANGED <<alive, born, holds, stubborn, call, late>>

Close(p, s) ==
  /\ p \in alive \cap holds[s]
  /\ holds' = [holds EXCEPT ![s] = @ \ {p}]
  /\ UNCHANGED <<alive, born, stubborn, pipe, written, call, late>>

Exit(p) ==
  /\ p \in alive
  /\ Dead({p})
  /\ UNCHANGED <<born, stubborn, pipe, written, call, late>>

(****************************************************************************)
(* The call.                                                                *)
(****************************************************************************)
Go(next) == pc' = next /\ UNCHANGED <<open, got, reaped, status, result>>

Deadline == ~late /\ late' = TRUE /\ UNCHANGED <<processes, call>>

\* The loop goes on until both streams ended and the leader was waited for.
Complete == open = {} /\ status

Top ==
  /\ pc = "top"
  /\ IF Complete
     THEN pc' = "returned" /\ result' = "ok" /\ UNCHANGED <<open, got, reaped, status>>
     ELSE IF late
     THEN pc' = "limit" /\ result' = "time" /\ UNCHANGED <<open, got, reaped, status>>
     ELSE Go("select")
  /\ UNCHANGED <<processes, late>>

OverLimit(bytes) == bytes["stdout"] + bytes["stderr"] > OutputLimit

\* Whatever branch of the select ran, the bytes are compared with the limit.
Checked(bytes) ==
  IF OverLimit(bytes) THEN pc' = "limit" /\ result' = "output" ELSE pc' = "top" /\ UNCHANGED result

Read(s) ==
  /\ pc = "select" /\ s \in open /\ pipe[s] > 0
  /\ \E n \in 1 .. pipe[s] :
       /\ pipe' = [pipe EXCEPT ![s] = @ - n]
       /\ got' = [got EXCEPT ![s] = @ + n]
       /\ Checked(got')
  /\ UNCHANGED <<alive, born, holds, stubborn, written, open, reaped, status, late>>

EndOfStream(s) ==
  /\ pc = "select" /\ s \in open /\ pipe[s] = 0 /\ holds[s] = {}
  /\ open' = open \ {s}
  /\ Checked(got)
  /\ UNCHANGED <<processes, got, reaped, status, late>>

Wait ==
  /\ pc = "select" /\ ~status /\ Leader \notin alive
  /\ status' = TRUE /\ reaped' = TRUE
  /\ Checked(got)
  /\ UNCHANGED <<processes, open, got, late>>

\* Mutant: the deadline is looked at only before a read.
NoSleep == FALSE /\ UNCHANGED vars

Sleep ==
  /\ pc = "select" /\ late
  /\ pc' = "limit" /\ result' = "time"
  /\ UNCHANGED <<processes, open, got, reaped, status, late>>

\* SIGTERM ends those that do not ignore it.
Heeding == alive \ stubborn

\* Mutant: the signal is sent to the leader alone.
OnlyLeader(which) == which \cap {Leader}

Signalled(which) == which

\* terminate_group: nothing is sent once the leader was waited for; a signal to a group of which
\* nothing runs may be refused, and the guard then is still armed.
Terminate ==
  /\ pc = "limit"
  /\ IF reaped
     THEN Go("returned") /\ UNCHANGED processes
     ELSE \/ /\ Dead(Signalled(Heeding))
             /\ Go("term")
             /\ UNCHANGED <<born, stubborn, pipe, written>>
          \/ /\ alive = {}
             /\ pc' = "dropped" /\ result' = "failed"
             /\ UNCHANGED <<processes, open, got, reaped, status>>
  /\ UNCHANGED late

Reap ==
  /\ pc \in {"term", "kill"} /\ Leader \notin alive
  /\ pc' = "returned" /\ reaped' = TRUE
  /\ UNCHANGED <<processes, open, got, status, late, result>>

\* The leader did not end within 250 ms.
GraceOver ==
  /\ pc = "term" /\ Leader \in alive
  /\ Dead(Signalled(alive))
  /\ Go("kill")
  /\ UNCHANGED <<born, stubborn, pipe, written, late>>

Killed == IF reaped THEN {} ELSE alive

\* The future is dropped, or a read fails: the guard's Drop sends both signals, unless the leader
\* was waited for.
Drop ==
  /\ pc \in {"select", "term", "kill"}
  /\ Dead(Killed)
  /\ pc' = "dropped" /\ result' = "failed"
  /\ UNCHANGED <<born, stubborn, pipe, written, open, got, reaped, status, late>>

Polled ==
  \/ Top \/ (\E s \in Stream : Read(s) \/ EndOfStream(s)) \/ Wait \/ Sleep
  \/ Terminate \/ Reap \/ GraceOver

Next ==
  \/ \E p, q \in Process : Fork(p, q)
  \/ \E p \in Process : Exit(p) \/ \E s \in Stream : Write(p, s) \/ Close(p, s)
  \/ Deadline
  \/ Polled \/ Drop

\* Time passes and the call's task is polled; nothing is assumed of the processes.
Spec ==
  /\ Init /\ [][Next]_vars
  /\ WF_vars(Deadline)
  /\ WF_vars(Polled)

(****************************************************************************)
(* Properties.                                                              *)
(****************************************************************************)
TypeOK ==
  /\ alive \subseteq born /\ born \subseteq Process
  /\ \A s \in Stream :
       /\ holds[s] \subseteq alive
       /\ pipe[s] \in 0 .. Capacity
       /\ got[s] + pipe[s] = written[s]
  \* What the call holds is bounded, whatever was written.
  /\ Total <= OutputLimit + Capacity
  /\ pc \in {"top", "select", "limit", "term", "kill", "returned", "dropped"}
  /\ open \subseteq Stream
  /\ status => reaped
  /\ result \in {"none", "ok", "time", "output", "failed"}

\* sandbox.rs:384-419: the outcome of a command has everything its processes ever wrote, those
\* the leader left behind included, and at most the limit.
OutcomeIsWhole ==
  result = "ok" =>
    /\ got = written
    /\ \A s \in Stream : holds[s] = {}
    /\ Leader \notin alive
    /\ Total <= OutputLimit

\* sandbox.rs:422-442 and 461-474: however the call ends, the leader has ended; and if it was
\* not waited for before, so has its whole group, except what ignores SIGTERM at a limit.
NoneLeftRunning ==
  pc \in {"returned", "dropped"} =>
    /\ Leader \notin alive
    /\ result # "ok" /\ ~status /\ (pc = "dropped" \/ stubborn = {}) => alive = {}

\* sandbox.rs:384-442: a command that is silent, that writes without end or that ignores SIGTERM
\* does not hold up the call.
Returns == <>(pc \in {"returned", "dropped"})

\* docs/superpowers/plans/2026-08-22-phemius-v0.1.md:700: "terminate the child process group on
\* timeout or cancellation", here of processes that all heed SIGTERM.
GroupIsTerminated ==
  pc \in {"returned", "dropped"} /\ result # "ok" /\ stubborn = {} => alive = {}
===============================================================================
