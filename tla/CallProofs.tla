------------------------------ MODULE CallProofs ------------------------------
(***************************************************************************)
(* The calls the program makes, for any limits, bytes, processes, answers  *)
(* and interleavings: a git query that succeeds has all of what git wrote  *)
(* and a shell command all of what its processes wrote; the executor keeps *)
(* what it answers with; the tool loop runs the calls of a whole answer,   *)
(* and asks again with the results of all of them.                         *)
(***************************************************************************)
EXTENDS MCCalls, SumProofs

-----------------------------------------------------------------------------
(***************************************************************************)
(* The git query.  Until its reader gives up, each byte of a stream was    *)
(* kept, is in the pipe or is still to be written; a reader that ended     *)
(* left an empty pipe of a child that writes no more.                      *)
(***************************************************************************)
Streams == {"out", "err"}

Counted(s) ==
  /\ reader[s] \in {"reading", "ended"} =>
       gitGot[s] + gitPipe[s] + left[s] = gitWritten[s]
  /\ reader[s] = "ended" => gitPipe[s] = 0 /\ child # "running"
  /\ child = "succeeded" => left[s] = 0
  /\ writing = s /\ child = "running" => left[s] > 0

Joined ==
  /\ caller \in {"checking", "ok"} => reader["out"] = "ended"
  /\ caller = "ok" => reader["err"] = "ended" /\ child = "succeeded"

GitInv == Git!TypeOK /\ (\A s \in Streams : Counted(s)) /\ Joined

LEMMA LimitsAreNatural == \A s \in Streams : Git!Limit[s] \in Nat
BY GitAssumption DEF Git!Limits, Git!Limit, Git!Stream, Streams

LEMMA GitFirst ==
  ASSUME Git!Init
  PROVE  GitInv
<1>1. Git!TypeOK
  <2>1. gitGot \in [Streams -> Nat] /\ \A s \in Streams : gitGot[s] <= Git!Limit[s]
    BY LimitsAreNatural DEF Git!Init, Git!Stream, Streams
  <2>2. gitPipe \in [Streams -> 0 .. Capacity] /\ left \in [Streams -> 0 .. MaxWritten]
    BY GitAssumption DEF Git!Init, Git!Limits, Git!Stream, Streams
  <2>3. QED
    BY <2>1, <2>2 DEF Git!Init, Git!TypeOK, Git!Stream, Streams
<1>2. \A s \in Streams : Counted(s)
  BY GitAssumption DEF Git!Init, Git!Limits, Git!Stream, Streams, Counted
<1>3. QED
  BY <1>1, <1>2 DEF Git!Init, GitInv, Joined

LEMMA GitNext ==
  ASSUME GitInv, Git!Next
  PROVE  GitInv'
<1> USE GitAssumption DEF Git!Limits, Git!Stream, Streams
<1>1. ASSUME NEW s \in Streams, Git!BeginWrite(s)
      PROVE  GitInv'
  BY <1>1 DEF Git!BeginWrite, GitInv, Git!TypeOK, Counted, Joined
<1>2. ASSUME NEW s \in Streams, Git!Write(s)
      PROVE  GitInv'
  BY <1>2 DEF Git!Write, GitInv, Git!TypeOK, Counted, Joined
<1>3. ASSUME Git!Exit
      PROVE  GitInv'
  BY <1>3 DEF Git!Exit, GitInv, Git!TypeOK, Counted, Joined
<1>4. ASSUME NEW s \in Streams, Git!Read(s)
      PROVE  GitInv'
  <2>1. PICK n \in 1 .. gitPipe[s] :
          /\ gitPipe' = [gitPipe EXCEPT ![s] = @ - n]
          /\ IF Git!MayKeep(s, n)
               THEN /\ gitGot' = [gitGot EXCEPT ![s] = @ + n]
                    /\ UNCHANGED <<reader, overflow>>
               ELSE /\ overflow' = TRUE
                    /\ reader' = [reader EXCEPT ![s] =
                                    IF overflow THEN "over" ELSE "killing"]
                    /\ UNCHANGED gitGot
    BY <1>4 DEF Git!Read
  <2>2. /\ reader[s] = "reading"
        /\ UNCHANGED <<gitWritten, left, writing, child, gitReaped, caller>>
    BY <1>4 DEF Git!Read, Git!MayRead
  <2>3. Git!TypeOK'
    <3>1. gitPipe' \in [Streams -> 0 .. Capacity]
      BY <2>1 DEF GitInv, Git!TypeOK
    <3>2. gitGot' \in [Streams -> Nat] /\ \A t \in Streams : gitGot'[t] <= Git!Limit[t]
      BY <2>1, LimitsAreNatural DEF GitInv, Git!TypeOK, Git!MayKeep
    <3>3. QED
      BY <2>1, <2>2, <3>1, <3>2, ZenonT(60) DEF GitInv, Git!TypeOK
  <2>4. ASSUME NEW t \in Streams
        PROVE  Counted(t)'
    BY <2>1, <2>2 DEF GitInv, Git!TypeOK, Counted
  <2>5. QED
    BY <2>1, <2>2, <2>3, <2>4 DEF GitInv, Git!TypeOK, Joined
<1>5. ASSUME NEW s \in Streams, Git!EndOfStream(s)
      PROVE  GitInv'
  BY <1>5, LimitsAreNatural DEF Git!EndOfStream, Git!MayRead, Git!Room, GitInv, Git!TypeOK, Counted, Joined
<1>6. ASSUME NEW s \in Streams, Git!Kill(s)
      PROVE  GitInv'
  BY <1>6 DEF Git!Kill, GitInv, Git!TypeOK, Counted, Joined
<1>7. ASSUME Git!Wait
      PROVE  GitInv'
  BY <1>7 DEF Git!Wait, GitInv, Git!TypeOK, Counted, Joined
<1>8. ASSUME Git!JoinOut \/ Git!JoinErr
      PROVE  GitInv'
  BY <1>8 DEF Git!JoinOut, Git!JoinErr, GitInv, Git!TypeOK, Counted, Joined
<1>9. QED
  BY <1>1, <1>2, <1>3, <1>4, <1>5, <1>6, <1>7, <1>8
     DEF Git!Next, Git!Child, Git!Reader, Git!Caller

\* A git query that succeeds has all of what git wrote: its readers kept every
\* byte of both streams before it said so, however the threads, the exit of the
\* process and the limits fell (tools.rs:496-539, 716-738).
THEOREM QueryHasAll == KindSpec => []QueryIsWhole
<1>1. KindInit => GitInv
  BY GitFirst DEF KindInit
<1>2. GitInv /\ [KindNext]_<<kind, vars, gitVars, shellVars, chapterVars, approvalVars>> => GitInv'
  <2> SUFFICES ASSUME GitInv,
                      [KindNext]_<<kind, vars, gitVars, shellVars, chapterVars, approvalVars>>
               PROVE  GitInv'
    OBVIOUS
  <2>1. CASE GitStep
    BY <2>1, GitNext DEF GitStep
  <2>2. CASE UNCHANGED gitVars
    BY <2>2 DEF gitVars, GitInv, Git!TypeOK, Git!Stream, Counted, Joined
  <2>3. QED
    BY <2>1, <2>2 DEF KindNext, LoopStep, ExecutorStep, ShellStep, WritingStep, ApplyingStep
<1>3. GitInv => QueryIsWhole
  BY GitAssumption
     DEF GitInv, QueryIsWhole, Git!OkIsWhole, Git!TypeOK, Git!Stream, Git!Limits,
         Streams, Counted, Joined
<1>4. QED
  BY <1>1, <1>2, <1>3, PTL DEF KindSpec

-----------------------------------------------------------------------------
(***************************************************************************)
(* The shell command.                                                      *)
(***************************************************************************)
ShellStreams == {"stdout", "stderr"}

GroupTypes ==
  /\ alive \subseteq born /\ born \subseteq Group /\ Leader \in born
  /\ holds \in [ShellStreams -> SUBSET alive]
  /\ stubborn \in SUBSET Group
  /\ pipe \in [ShellStreams -> 0 .. Capacity]
  /\ written \in [ShellStreams -> Nat] /\ got \in [ShellStreams -> Nat]
  /\ \A s \in ShellStreams : got[s] + pipe[s] = written[s]

\* What the call has seen is true: an ended stream stays empty, and a leader
\* that was waited for is not alive.
SeenOK ==
  /\ open \subseteq ShellStreams
  /\ \A s \in ShellStreams \ open : pipe[s] = 0 /\ holds[s] = {}
  /\ status \in BOOLEAN /\ reaped \in BOOLEAN
  /\ status => reaped
  /\ reaped => Leader \notin alive

Ended == {"returned", "dropped"}

\* What the place of the call says.
PlaceOK ==
  /\ shellPc \in {"top", "select", "limit", "term", "kill"} \cup Ended
  /\ shellResult \in {"none", "ok", "time", "output", "failed"}
  /\ Sh!Total <= OutputLimit + Capacity
  /\ shellPc \in {"top", "select"} =>
       shellResult = "none" /\ Sh!Total <= OutputLimit
  /\ shellPc \notin {"returned"} => shellResult # "ok"
  /\ shellPc \in {"top", "select", "limit"} => (reaped <=> status)
  /\ shellPc \in {"term", "kill"} => ~reaped
  /\ shellPc = "term" /\ stubborn = {} => alive = {}
  /\ shellPc = "kill" => alive = {}

\* How the call ended.
EndOK ==
  /\ shellResult = "ok" => open = {} /\ status /\ Sh!Total <= OutputLimit
  /\ shellPc \in Ended => Leader \notin alive
  /\ shellPc \in Ended /\ shellResult # "ok" /\ ~status
       /\ (shellPc = "dropped" \/ stubborn = {}) => alive = {}

ShellInv == GroupTypes /\ SeenOK /\ PlaceOK /\ EndOK

LEMMA ShellFirst ==
  ASSUME Sh!Init
  PROVE  ShellInv
<1>1. GroupTypes
  BY ShellAssumption DEF Sh!Init, Sh!Limits, Sh!Stream, GroupTypes, ShellStreams
<1>2. Sh!Total = 0
  BY DEF Sh!Init, Sh!Total, Sh!Stream
<1>3. SeenOK
  BY DEF Sh!Init, Sh!Stream, SeenOK, ShellStreams
<1>4. QED
  BY <1>1, <1>2, <1>3, ShellAssumption
     DEF Sh!Init, Sh!Limits, ShellInv, PlaceOK, EndOK, Ended

\* Where processes ended, what was seen of them stays true.
LEMMA FewerSeen ==
  ASSUME SeenOK, alive' \subseteq alive, \A s \in ShellStreams : holds'[s] \subseteq holds[s],
         UNCHANGED <<pipe, open, status, reaped>>
  PROVE  SeenOK'
BY DEF SeenOK

\* The processes of the group go on by themselves; a call that has ended, or
\* that has killed them, is not disturbed by what they do.
LEMMA GroupSteps ==
  ASSUME ShellInv,
         UNCHANGED <<shellPc, open, got, reaped, status, shellResult>>,
         GroupTypes',
         \A s \in ShellStreams : holds[s] = {} => holds'[s] = {} /\ pipe'[s] = pipe[s],
         Leader \in alive' => Leader \in alive,
         alive = {} => alive' = {},
         UNCHANGED stubborn
  PROVE  ShellInv'
<1>1. Sh!Total' = Sh!Total
  BY DEF Sh!Total
<1>2. SeenOK'
  BY DEF ShellInv, SeenOK
<1>3. PlaceOK'
  BY <1>1 DEF ShellInv, PlaceOK
<1>4. EndOK'
  BY <1>1 DEF ShellInv, EndOK
<1>5. QED
  BY <1>2, <1>3, <1>4 DEF ShellInv

LEMMA GroupKeeps ==
  ASSUME ShellInv, NEW p \in Group,
         \/ \E q \in Group : Sh!Fork(p, q)
         \/ Sh!Exit(p)
         \/ \E s \in ShellStreams : Sh!Write(p, s) \/ Sh!Close(p, s)
  PROVE  ShellInv'
<1> USE DEF Sh!Stream, ShellStreams
<1>1. ASSUME NEW q \in Group, Sh!Fork(p, q)
      PROVE  ShellInv'
  <2>1. GroupTypes'
    BY <1>1 DEF Sh!Fork, Sh!call, ShellInv, GroupTypes
  <2>2. QED
    BY <1>1, <2>1, GroupSteps DEF Sh!Fork, Sh!call, ShellInv, GroupTypes
<1>2. ASSUME Sh!Exit(p)
      PROVE  ShellInv'
  <2>1. GroupTypes'
    BY <1>2 DEF Sh!Exit, Sh!Dead, Sh!call, ShellInv, GroupTypes
  <2>2. QED
    BY <1>2, <2>1, GroupSteps DEF Sh!Exit, Sh!Dead, Sh!call, ShellInv, GroupTypes
<1>3. ASSUME NEW s \in ShellStreams, Sh!Write(p, s)
      PROVE  ShellInv'
  <2>1. GroupTypes'
    <3>1. pipe' \in [ShellStreams -> 0 .. Capacity] /\ written' \in [ShellStreams -> Nat]
      BY <1>3, ShellAssumption DEF Sh!Limits, Sh!Write, Sh!call, ShellInv, GroupTypes
    <3>2. \A t \in ShellStreams : got[t] + pipe'[t] = written'[t]
      BY <1>3, ShellAssumption DEF Sh!Limits, Sh!Write, ShellInv, GroupTypes
    <3>3. QED
      BY <1>3, <3>1, <3>2 DEF Sh!Write, Sh!call, ShellInv, GroupTypes
  <2>2. QED
    BY <1>3, <2>1, GroupSteps DEF Sh!Write, Sh!call, ShellInv, GroupTypes
<1>4. ASSUME NEW s \in ShellStreams, Sh!Close(p, s)
      PROVE  ShellInv'
  <2>1. GroupTypes'
    BY <1>4 DEF Sh!Close, Sh!call, ShellInv, GroupTypes
  <2>2. QED
    BY <1>4, <2>1, GroupSteps DEF Sh!Close, Sh!call, ShellInv, GroupTypes
<1>5. QED
  BY <1>1, <1>2, <1>3, <1>4

LEMMA TotalIsNatural ==
  ASSUME ShellInv
  PROVE  Sh!Total \in Nat
BY DEF ShellInv, GroupTypes, ShellStreams, Sh!Total

LEMMA CallKeeps ==
  ASSUME ShellInv, Sh!Polled \/ Sh!Drop
  PROVE  ShellInv'
<1> USE DEF Sh!Stream, ShellStreams
<1>0. OutputLimit \in Nat /\ Capacity \in Nat /\ Sh!Total \in Nat
  BY ShellAssumption, TotalIsNatural DEF Sh!Limits
<1>1. ASSUME Sh!Top
      PROVE  ShellInv'
  <2>1. GroupTypes' /\ Sh!Total' = Sh!Total
    BY <1>1 DEF Sh!Top, Sh!Go, Sh!processes, ShellInv, GroupTypes, Sh!Total
  <2>2. SeenOK'
    BY <1>1 DEF Sh!Top, Sh!Go, Sh!processes, ShellInv, SeenOK
  <2>3. PlaceOK' /\ EndOK'
    BY <1>1, <2>1
       DEF Sh!Top, Sh!Go, Sh!Complete, Sh!processes, ShellInv, SeenOK, PlaceOK, EndOK, Ended
  <2>4. QED
    BY <2>1, <2>2, <2>3 DEF ShellInv
<1>2. ASSUME NEW s \in ShellStreams, Sh!Read(s)
      PROVE  ShellInv'
  <2>1. PICK n \in 1 .. pipe[s] :
          /\ pipe' = [pipe EXCEPT ![s] = @ - n]
          /\ got' = [got EXCEPT ![s] = @ + n]
          /\ Sh!Checked(got')
    BY <1>2 DEF Sh!Read
  <2>2. /\ UNCHANGED <<alive, born, holds, stubborn, written, open, reaped, status>>
        /\ shellPc = "select" /\ s \in open
    BY <1>2 DEF Sh!Read
  <2>3. GroupTypes'
    <3>1. pipe' \in [ShellStreams -> 0 .. Capacity] /\ got' \in [ShellStreams -> Nat]
      BY <1>0, <2>1 DEF ShellInv, GroupTypes
    <3>2. \A t \in ShellStreams : got'[t] + pipe'[t] = written[t]
      BY <1>0, <2>1 DEF ShellInv, GroupTypes
    <3>3. QED
      BY <2>2, <3>1, <3>2 DEF ShellInv, GroupTypes
  <2>4. Sh!Total' = Sh!Total + n /\ n <= Capacity /\ n \in Nat
    <3>1. pipe[s] \in 0 .. Capacity /\ got \in [ShellStreams -> Nat]
      BY DEF ShellInv, GroupTypes
    <3>2. got'["stdout"] + got'["stderr"] = got["stdout"] + got["stderr"] + n
      BY <1>0, <2>1, <3>1
    <3>3. QED
      BY <1>0, <2>1, <3>1, <3>2 DEF Sh!Total
  <2>5. SeenOK'
    BY <2>1, <2>2 DEF ShellInv, SeenOK, GroupTypes
  <2>6. Sh!OverLimit(got') <=> Sh!Total' > OutputLimit
    BY DEF Sh!OverLimit, Sh!Total
  <2>7. PlaceOK' /\ EndOK'
    BY <2>1, <2>2, <2>4, <2>6, <1>0 DEF Sh!Checked, ShellInv, PlaceOK, EndOK, Ended
  <2>8. QED
    BY <2>3, <2>5, <2>7 DEF ShellInv
<1>3. ASSUME NEW s \in ShellStreams, Sh!EndOfStream(s)
      PROVE  ShellInv'
  <2>1. GroupTypes' /\ Sh!Total' = Sh!Total
    BY <1>3 DEF Sh!EndOfStream, Sh!processes, ShellInv, GroupTypes, Sh!Total
  <2>2. SeenOK'
    BY <1>3 DEF Sh!EndOfStream, Sh!processes, ShellInv, SeenOK
  <2>3. Sh!OverLimit(got) <=> Sh!Total > OutputLimit
    BY DEF Sh!OverLimit, Sh!Total
  <2>4. PlaceOK' /\ EndOK'
    BY <1>0, <1>3, <2>1, <2>3
       DEF Sh!EndOfStream, Sh!Checked, Sh!processes, ShellInv, PlaceOK, EndOK, Ended
  <2>5. QED
    BY <2>1, <2>2, <2>4 DEF ShellInv
<1>4. ASSUME Sh!Wait
      PROVE  ShellInv'
  <2>1. GroupTypes' /\ Sh!Total' = Sh!Total
    BY <1>4 DEF Sh!Wait, Sh!processes, ShellInv, GroupTypes, Sh!Total
  <2>2. SeenOK'
    BY <1>4 DEF Sh!Wait, Sh!processes, ShellInv, SeenOK
  <2>3. Sh!OverLimit(got) <=> Sh!Total > OutputLimit
    BY DEF Sh!OverLimit, Sh!Total
  <2>4. PlaceOK' /\ EndOK'
    BY <1>0, <1>4, <2>1, <2>3
       DEF Sh!Wait, Sh!Checked, Sh!processes, ShellInv, PlaceOK, EndOK, Ended
  <2>5. QED
    BY <2>1, <2>2, <2>4 DEF ShellInv
<1>5. ASSUME Sh!Sleep
      PROVE  ShellInv'
  <2>1. GroupTypes' /\ Sh!Total' = Sh!Total
    BY <1>5 DEF Sh!Sleep, Sh!processes, ShellInv, GroupTypes, Sh!Total
  <2>2. QED
    BY <1>0, <1>5, <2>1
       DEF Sh!Sleep, Sh!processes, ShellInv, SeenOK, PlaceOK, EndOK, Ended
<1>6. ASSUME Sh!Terminate
      PROVE  ShellInv'
  <2>1. GroupTypes' /\ Sh!Total' = Sh!Total
    BY <1>6
       DEF Sh!Terminate, Sh!Go, Sh!Dead, Sh!Signalled, Sh!Heeding, Sh!processes, ShellInv,
           GroupTypes, Sh!Total
  <2>2. SeenOK'
    <3>1. /\ alive' \subseteq alive /\ UNCHANGED <<pipe, open, status, reaped>>
          /\ \A s \in ShellStreams : holds'[s] \subseteq holds[s]
      BY <1>6
         DEF Sh!Terminate, Sh!Go, Sh!Dead, Sh!Signalled, Sh!Heeding, Sh!processes, ShellInv,
             GroupTypes
    <3>2. QED
      BY <3>1, FewerSeen DEF ShellInv
  <2>3. PlaceOK' /\ EndOK'
    BY <1>6, <2>1
       DEF Sh!Terminate, Sh!Go, Sh!Dead, Sh!Signalled, Sh!Heeding, Sh!processes, ShellInv,
           SeenOK, PlaceOK, EndOK, Ended
  <2>4. QED
    BY <2>1, <2>2, <2>3 DEF ShellInv
<1>7. ASSUME Sh!Reap
      PROVE  ShellInv'
  <2>1. GroupTypes' /\ Sh!Total' = Sh!Total
    BY <1>7 DEF Sh!Reap, Sh!processes, ShellInv, GroupTypes, Sh!Total
  <2>2. QED
    BY <1>7, <2>1 DEF Sh!Reap, Sh!processes, ShellInv, SeenOK, PlaceOK, EndOK, Ended
<1>8. ASSUME Sh!GraceOver
      PROVE  ShellInv'
  <2>1. GroupTypes' /\ Sh!Total' = Sh!Total /\ alive' = {}
    BY <1>8 DEF Sh!GraceOver, Sh!Go, Sh!Dead, Sh!Signalled, ShellInv, GroupTypes, Sh!Total
  <2>2. SeenOK'
    <3>1. /\ alive' \subseteq alive /\ UNCHANGED <<pipe, open, status, reaped>>
          /\ \A s \in ShellStreams : holds'[s] \subseteq holds[s]
      BY <1>8 DEF Sh!GraceOver, Sh!Go, Sh!Dead, Sh!Signalled, ShellInv, GroupTypes
    <3>2. QED
      BY <3>1, FewerSeen DEF ShellInv
  <2>3. PlaceOK' /\ EndOK'
    BY <1>8, <2>1 DEF Sh!GraceOver, Sh!Go, ShellInv, SeenOK, PlaceOK, EndOK, Ended
  <2>4. QED
    BY <2>1, <2>2, <2>3 DEF ShellInv
<1>9. ASSUME Sh!Drop
      PROVE  ShellInv'
  <2>1. GroupTypes' /\ Sh!Total' = Sh!Total
    BY <1>9 DEF Sh!Drop, Sh!Dead, Sh!Killed, ShellInv, GroupTypes, Sh!Total
  <2>2. SeenOK' /\ (~reaped => alive' = {})
    <3>1. /\ alive' \subseteq alive /\ UNCHANGED <<pipe, open, status, reaped>>
          /\ \A s \in ShellStreams : holds'[s] \subseteq holds[s]
          /\ ~reaped => alive' = {}
      BY <1>9 DEF Sh!Drop, Sh!Dead, Sh!Killed, ShellInv, GroupTypes
    <3>2. QED
      BY <3>1, FewerSeen DEF ShellInv
  <2>3. PlaceOK' /\ EndOK'
    BY <1>9, <2>1, <2>2 DEF Sh!Drop, ShellInv, SeenOK, PlaceOK, EndOK, Ended
  <2>4. QED
    BY <2>1, <2>2, <2>3 DEF ShellInv
<1>10. QED
  BY <1>1, <1>2, <1>3, <1>4, <1>5, <1>6, <1>7, <1>8, <1>9 DEF Sh!Polled

LEMMA ShellNext ==
  ASSUME ShellInv, Sh!Next
  PROVE  ShellInv'
<1>1. CASE Sh!Deadline
  BY <1>1
     DEF Sh!Deadline, Sh!processes, Sh!call, ShellInv, GroupTypes, SeenOK, PlaceOK, EndOK, Sh!Total
<1>2. QED
  BY <1>1, GroupKeeps, CallKeeps DEF Sh!Next, Sh!Stream, ShellStreams

\* A shell command that succeeds has all of what was written, by the processes
\* its leader left behind too; and nothing it started runs on after a limit or
\* a cancellation that came before its leader was waited for (sandbox.rs:384-442,
\* 461-474).
THEOREM CommandHasAll == KindSpec => []CommandIsWhole
<1>1. KindInit => ShellInv
  BY ShellFirst DEF KindInit
<1>2. ShellInv /\ [KindNext]_<<kind, vars, gitVars, shellVars, chapterVars, approvalVars>> => ShellInv'
  <2> SUFFICES ASSUME ShellInv,
                      [KindNext]_<<kind, vars, gitVars, shellVars, chapterVars, approvalVars>>
               PROVE  ShellInv'
    OBVIOUS
  <2>1. CASE ShellStep
    BY <2>1, ShellNext DEF ShellStep
  <2>2. CASE UNCHANGED shellVars
    BY <2>2 DEF shellVars, ShellInv, GroupTypes, SeenOK, PlaceOK, EndOK, Sh!Total
  <2>3. QED
    BY <2>1, <2>2 DEF KindNext, LoopStep, ExecutorStep, GitStep, WritingStep, ApplyingStep
<1>3. ShellInv => CommandIsWhole
  <2> SUFFICES ASSUME ShellInv
               PROVE  CommandIsWhole
    OBVIOUS
  <2>1. Sh!TypeOK
    BY DEF ShellInv, GroupTypes, SeenOK, PlaceOK, Sh!TypeOK, Sh!Stream, ShellStreams, Ended
  <2>2. Sh!OutcomeIsWhole
    <3> SUFFICES ASSUME shellResult = "ok"
                 PROVE  /\ got = written
                        /\ \A s \in ShellStreams : holds[s] = {}
                        /\ Leader \notin alive
                        /\ Sh!Total <= OutputLimit
      BY DEF Sh!OutcomeIsWhole, Sh!Stream, ShellStreams
    <3>1. \A s \in ShellStreams : pipe[s] = 0 /\ holds[s] = {}
      BY DEF ShellInv, SeenOK, EndOK
    <3>2. \A s \in ShellStreams : got[s] = written[s]
      BY <3>1 DEF ShellInv, GroupTypes
    <3>3. got = written
      BY <3>2 DEF ShellInv, GroupTypes
    <3>4. QED
      BY <3>1, <3>3 DEF ShellInv, SeenOK, EndOK
  <2>3. Sh!NoneLeftRunning
    BY DEF ShellInv, EndOK, Sh!NoneLeftRunning, Ended
  <2>4. QED
    BY <2>1, <2>2, <2>3 DEF CommandIsWhole
<1>4. QED
  BY <1>1, <1>2, <1>3, PTL DEF KindSpec

-----------------------------------------------------------------------------
(***************************************************************************)
(* The executor: its types, and the artifacts it keeps.                    *)
(***************************************************************************)
LEMMA BytesAre ==
  ASSUME NEW n \in Nat, NEW b
  PROVE  b \in Tools!Bytes(n) <=> b \in Seq(Byte) /\ Len(b) <= n
<1>1. ASSUME b \in Tools!Bytes(n)
      PROVE  b \in Seq(Byte) /\ Len(b) <= n
  <2>1. PICK k \in 0 .. n : b \in [1 .. k -> Byte]
    BY <1>1 DEF Tools!Bytes
  <2>2. QED
    BY <2>1
<1>2. ASSUME b \in Seq(Byte), Len(b) <= n
      PROVE  b \in Tools!Bytes(n)
  <2>1. Len(b) \in 0 .. n /\ b \in [1 .. Len(b) -> Byte]
    BY <1>2
  <2>2. QED
    BY <2>1 DEF Tools!Bytes
<1>3. QED
  BY <1>1, <1>2

Weight(store) == [b \in DOMAIN store |-> Len(b)]

StoreTypes ==
  /\ files \in [Path \ Unsafe -> Tools!File]
  /\ role \in Tools!ToolRole \cup {None}
  /\ DOMAIN artifacts \subseteq Tools!Bytes(MaxResult)
  /\ \A b \in DOMAIN artifacts : artifacts[b] \in 0 .. MaxProtect
  /\ result \in {None, Tools!Failed} \cup Tools!ToolResult

\* What is kept is accounted, and no call accounts more than one result.
StoreCounts ==
  /\ calls \in 0 .. (MaxCalls + 1)
  /\ accounted \in Nat /\ accounted <= calls * MaxResult
  /\ IsFiniteSet(DOMAIN artifacts)
  /\ SumFunction(Weight(artifacts)) <= accounted
  /\ Tools!RetainedFits

StoreInv == StoreTypes /\ StoreCounts

LEMMA LimitTypes ==
  /\ MaxLength \in Nat /\ MaxResult \in Nat /\ MaxVisible \in Nat
  /\ MaxSession \in Nat /\ MaxCalls \in Nat /\ MaxProtect \in Nat
  /\ IsFiniteSet(Path) /\ Unsafe \subseteq Path
<1>1. /\ {MaxLength, MaxResult, MaxVisible, MaxSession, MaxCalls, MaxProtect} \subseteq Nat
      /\ Tools!IsFiniteSet(Path) /\ Unsafe \subseteq Path
  BY ToolsAssumption DEF Tools!Limits
<1>2. IsFiniteSet(Path)
  BY <1>1 DEF IsFiniteSet, Tools!IsFiniteSet
<1>3. QED
  BY <1>1, <1>2

LEMMA SameSum ==
  ASSUME NEW f
  PROVE  Tools!SumFunction(f) = SumFunction(f)
BY DEF Tools!SumFunction, Tools!SumFunctionOnSet, Tools!FoldFunctionOnSet, Tools!MapThenFoldSet,
       SumFunction, SumFunctionOnSet, FoldFunctionOnSet, MapThenFoldSet

LEMMA StoreIsTyped ==
  ASSUME StoreInv
  PROVE  Tools!TypeOK
<1>1. accounted <= (MaxCalls + 1) * MaxResult
  <2>1. calls * MaxResult <= (MaxCalls + 1) * MaxResult
    <3> DEFINE rest == MaxCalls + 1 - calls
    <3>1. rest \in Nat /\ calls \in Nat /\ MaxCalls + 1 = calls + rest
      BY LimitTypes DEF StoreInv, StoreCounts
    <3> HIDE DEF rest
    <3>2. (calls + rest) * MaxResult = calls * MaxResult + rest * MaxResult
      BY <3>1, LimitTypes
    <3>3. rest * MaxResult \in Nat /\ calls * MaxResult \in Nat
      BY <3>1, LimitTypes
    <3>4. QED
      BY <3>1, <3>2, <3>3
  <2>2. calls * MaxResult \in Nat /\ (MaxCalls + 1) * MaxResult \in Nat
    BY LimitTypes DEF StoreInv, StoreCounts
  <2>3. QED
    BY <2>1, <2>2 DEF StoreInv, StoreCounts
<1>2. accounted \in 0 .. ((MaxCalls + 1) * MaxResult)
  BY <1>1, LimitTypes DEF StoreInv, StoreCounts
<1>3. Tools!Range(artifacts) \subseteq 0 .. MaxProtect
  BY DEF StoreInv, StoreTypes, Tools!Range
<1>4. QED
  BY <1>2, <1>3 DEF StoreInv, StoreTypes, StoreCounts, Tools!TypeOK

LEMMA EmptyWeight == SumFunction(Weight(Tools!NoArtifacts)) = 0
BY SumOfNothing DEF SumFunction, Weight, Tools!NoArtifacts

\* A new text adds its length.
LEMMA KeepAdds ==
  ASSUME NEW store, IsFiniteSet(DOMAIN store), NEW more, NEW b \in Seq(Byte),
         DOMAIN store \subseteq Seq(Byte),
         b \notin DOMAIN store, DOMAIN more = DOMAIN store \cup {b}
  PROVE  /\ SumFunction(Weight(more)) = SumFunction(Weight(store)) + Len(b)
         /\ SumFunction(Weight(store)) \in Nat
<1> DEFINE f == Weight(store)
           g == Weight(more)
<1>1. /\ DOMAIN f = DOMAIN store /\ DOMAIN g = DOMAIN store \cup {b}
      /\ \A x \in DOMAIN store : f[x] \in Nat /\ g[x] = f[x]
      /\ g[b] = Len(b) /\ g[b] \in Nat
  BY DEF Weight
<1> HIDE DEF f, g
<1>2. SumFunctionOnSet(g, DOMAIN store \cup {b}) = SumFunctionOnSet(f, DOMAIN store) + g[b]
  BY <1>1, SumAdds
<1>3. SumFunctionOnSet(f, DOMAIN store) \in Nat
  BY <1>1, SumTakes
<1>4. SumFunction(g) = SumFunction(f) + Len(b) /\ SumFunction(f) \in Nat
  BY <1>1, <1>2, <1>3 DEF SumFunction
<1>5. QED
  BY <1>4 DEF f, g

LEMMA SumIsNatural ==
  ASSUME StoreInv
  PROVE  SumFunction(Weight(artifacts)) \in Nat
<1>1. \A b \in DOMAIN artifacts : Weight(artifacts)[b] \in Nat
  BY BytesAre, LimitTypes DEF StoreInv, StoreTypes, Weight
<1>2. DOMAIN Weight(artifacts) = DOMAIN artifacts
  BY DEF Weight
<1>3. QED
  BY <1>1, <1>2, SumTakes DEF SumFunction, StoreInv, StoreCounts

\* Bytes are shown one for one, those of a whole character as they are.
LEMMA LossyShows ==
  ASSUME NEW b \in Seq(Byte)
  PROVE  /\ Tools!Lossy(b) \in Seq(Byte \cup {Replacement})
         /\ Len(Tools!Lossy(b)) = Len(b)
         /\ \A i \in 1 .. Len(b) :
              Tools!InCharacter(b, i) => Tools!Lossy(b)[i] = b[i]
<1> DEFINE v == Tools!Lossy(b)
<1>1. DOMAIN b = 1 .. Len(b) /\ Len(b) \in Nat /\ \A i \in 1 .. Len(b) : b[i] \in Byte
  OBVIOUS
<1>2. v = [i \in 1 .. Len(b) |-> IF Tools!InCharacter(b, i) THEN b[i] ELSE Replacement]
  BY <1>1 DEF Tools!Lossy
<1> HIDE DEF v
<1>3. v \in [1 .. Len(b) -> Byte \cup {Replacement}]
  BY <1>1, <1>2
<1>4. v \in Seq(Byte \cup {Replacement}) /\ Len(v) = Len(b)
  BY <1>1, <1>3
<1>5. \A i \in 1 .. Len(b) : Tools!InCharacter(b, i) => v[i] = b[i]
  BY <1>2
<1>6. QED
  BY <1>4, <1>5 DEF v

\* A prefix of a text has its characters, but for one cut at its end.
LEMMA PrefixIsText ==
  ASSUME NEW b \in Seq(Byte), Tools!Utf8(b), NEW m \in 0 .. Len(b), NEW i \in 1 .. m,
         i < m \/ m = Len(b)
  PROVE  Tools!InCharacter(SubSeq(b, 1, m), i) /\ SubSeq(b, 1, m)[i] = b[i]
<1> DEFINE v == SubSeq(b, 1, m)
<1>1. v \in Seq(Byte) /\ Len(v) = m /\ \A j \in 1 .. m : v[j] = b[j]
  OBVIOUS
<1>2. i \in DOMAIN b /\ i \in 1 .. Len(b)
  OBVIOUS
<1>3. Tools!InCharacter(b, i)
  BY <1>2 DEF Tools!Utf8
<1> HIDE DEF v
<1>4. v[i] = b[i]
  BY <1>1
<1>5. CASE b[i] \in Tools!Plain
  BY <1>4, <1>5 DEF Tools!InCharacter
<1>6. CASE b[i] \in Lead /\ i < Len(b) /\ b[i + 1] \in Trail
  <2>1. i < m /\ i + 1 \in 1 .. m
    BY <1>6
  <2>2. QED
    BY <1>1, <1>4, <1>6, <2>1 DEF Tools!InCharacter
<1>7. CASE b[i] \in Trail /\ i > 1 /\ b[i - 1] \in Lead
  <2>1. i - 1 \in 1 .. m
    BY <1>7
  <2>2. QED
    BY <1>1, <1>4, <1>7, <2>1 DEF Tools!InCharacter
<1>8. QED
  BY <1>3, <1>4, <1>5, <1>6, <1>7 DEF Tools!InCharacter, v

\* What result_for shows of an artifact: as much of it as the limit allows,
\* and all of a text but a character that is cut.
ShowsText(r, b) ==
  /\ ~r.truncated => Len(r.visible) = Len(b)
  /\ Tools!Utf8(b) =>
       \A i \in DOMAIN r.visible :
         r.visible[i] = b[i] \/ (r.truncated /\ i = Len(r.visible))

\* result_for answers with a text that is typed and told in full or cut.
LEMMA ResultIs ==
  ASSUME NEW b \in Tools!Bytes(MaxResult)
  PROVE  /\ Tools!ResultFor(b) \in Tools!ToolResult
         /\ Tools!ResultFor(b).sha256 = b
         /\ Tools!ResultFor(b).total_bytes = Len(b)
         /\ ShowsText(Tools!ResultFor(b), b)
<1>1. b \in Seq(Byte) /\ Len(b) \in 0 .. MaxResult
  BY BytesAre, LimitTypes
<1> DEFINE m == Tools!Min2(Len(b), MaxVisible)
           p == SubSeq(b, 1, m)
           v == Tools!Lossy(p)
           r == Tools!ResultFor(b)
<1>2. m \in 0 .. Len(b) /\ m <= MaxVisible /\ (Len(b) <= MaxVisible => m = Len(b))
  BY <1>1, LimitTypes DEF Tools!Min2
<1>3. p \in Seq(Byte) /\ Len(p) = m
  BY <1>1, <1>2
<1>4. r = [ok |-> TRUE, sha256 |-> b, total_bytes |-> Len(b),
           visible |-> v, truncated |-> Len(b) > MaxVisible]
  BY DEF Tools!ResultFor
<1> HIDE DEF m, r
<1>5. /\ v \in Seq(Byte \cup {Replacement}) /\ Len(v) = m /\ DOMAIN v = 1 .. m
      /\ \A i \in 1 .. m : Tools!InCharacter(p, i) => v[i] = p[i]
  <2>1. v \in Seq(Byte \cup {Replacement}) /\ Len(v) = m
        /\ \A i \in 1 .. m : Tools!InCharacter(p, i) => v[i] = p[i]
    BY <1>3, LossyShows
  <2> HIDE DEF v
  <2>2. QED
    BY <2>1
<1>6. v \in Tools!Shown(MaxVisible)
  <2> HIDE DEF v
  <2>1. m \in 0 .. MaxVisible /\ v \in [1 .. m -> Byte \cup {Replacement}]
    BY <1>2, <1>5, LimitTypes
  <2>2. QED
    BY <2>1 DEF Tools!Shown
<1>7. r \in Tools!ToolResult
  <2> HIDE DEF v
  <2>1. (Len(b) > MaxVisible) \in BOOLEAN
    OBVIOUS
  <2>2. QED
    BY <1>1, <1>4, <1>6, <2>1 DEF Tools!ToolResult
<1>8. ~r.truncated => m = Len(b)
  <2>1. r.truncated = (Len(b) > MaxVisible)
    BY <1>4
  <2>2. CASE Len(b) > MaxVisible
    <3>1. r.truncated = TRUE
      BY <2>1, <2>2, Zenon
    <3>2. QED
      BY <3>1
  <2>3. Len(b) > MaxVisible \/ Len(b) <= MaxVisible
    BY <1>1, LimitTypes
  <2>4. QED
    BY <1>2, <2>2, <2>3
<1>9. ASSUME Tools!Utf8(b), NEW i \in 1 .. m, ~r.truncated \/ i # m
      PROVE  v[i] = b[i]
  <2>1. i < m \/ m = Len(b)
    BY <1>2, <1>8, <1>9
  <2>2. Tools!InCharacter(p, i) /\ p[i] = b[i]
    BY <1>1, <1>2, <1>9, <2>1, PrefixIsText
  <2>3. QED
    BY <1>5, <2>2
<1>10. r.visible = v /\ r.sha256 = b /\ r.total_bytes = Len(b)
  BY <1>4
<1>11. ShowsText(r, b)
  <2> HIDE DEF v
  <2>1. ~r.truncated => Len(v) = Len(b)
    BY <1>5, <1>8
  <2>2. ASSUME Tools!Utf8(b), NEW i \in DOMAIN v
        PROVE  v[i] = b[i] \/ (r.truncated /\ i = Len(v))
    BY <1>5, <1>9, <2>2
  <2>3. QED
    BY <1>10, <2>1, <2>2 DEF ShowsText
<1>12. QED
  BY <1>7, <1>10, <1>11 DEF r

\* One call that keeps a text, or is refused.
LEMMA StoreKeeps ==
  ASSUME StoreInv, calls <= MaxCalls, calls' = calls + 1,
         files' \in [Path \ Unsafe -> Tools!File], UNCHANGED role,
         NEW b \in Seq(Byte), Tools!Store(b)
  PROVE  StoreInv' /\ Tools!ResultIsRetained'
<1>1. calls' \in 0 .. (MaxCalls + 1) /\ calls \in Nat
  BY LimitTypes DEF StoreInv, StoreCounts
<1>2. calls' * MaxResult = calls * MaxResult + MaxResult /\ calls * MaxResult \in Nat
  BY <1>1, LimitTypes
<1>3. Tools!Failed \notin Tools!ToolResult
  BY DEF Tools!Failed, Tools!ToolResult
<1>4. SumFunction(Weight(artifacts)) \in Nat
  BY SumIsNatural
<1>5. ASSUME result' = Tools!Failed, UNCHANGED artifacts,
             accounted' \in Nat, accounted <= accounted', accounted' <= accounted + MaxResult
      PROVE  StoreInv' /\ Tools!ResultIsRetained'
  <2>1. StoreTypes'
    BY <1>5 DEF StoreInv, StoreTypes
  <2>2. accounted' <= calls' * MaxResult
    BY <1>2, <1>5, LimitTypes DEF StoreInv, StoreCounts
  <2>3. SumFunction(Weight(artifacts))' <= accounted'
    BY <1>4, <1>5 DEF StoreInv, StoreCounts
  <2>4. Tools!RetainedFits'
    BY <1>5 DEF StoreInv, StoreCounts, Tools!RetainedFits
  <2>5. Tools!ResultIsRetained'
    BY <1>3, <1>5 DEF Tools!ResultIsRetained
  <2>6. QED
    BY <1>1, <1>5, <2>1, <2>2, <2>3, <2>4, <2>5 DEF StoreInv, StoreCounts
<1>6. CASE Len(b) > MaxResult
  BY <1>5, <1>6, LimitTypes DEF Tools!Store, StoreInv, StoreCounts
<1>7. CASE Len(b) <= MaxResult /\ accounted + Len(b) > MaxSession
  <2>1. result' = Tools!Failed /\ UNCHANGED artifacts /\ accounted' = accounted + Len(b)
    BY <1>7, LimitTypes DEF Tools!Store, Tools!Accounted
  <2>2. QED
    BY <1>5, <1>7, <2>1, LimitTypes DEF StoreInv, StoreCounts
<1>8. CASE Len(b) <= MaxResult /\ accounted + Len(b) <= MaxSession
  <2>1. /\ Tools!Keep(b) /\ result' = Tools!ResultFor(b)
        /\ accounted' = accounted + Len(b)
    BY <1>8, LimitTypes DEF Tools!Store, Tools!Accounted, StoreInv, StoreCounts
  <2>2. b \in Tools!Bytes(MaxResult) /\ Len(b) \in Nat
    BY <1>8, BytesAre, LimitTypes
  <2>3. /\ DOMAIN artifacts' = DOMAIN artifacts \cup {b}
        /\ \A x \in DOMAIN artifacts' : artifacts'[x] \in 0 .. MaxProtect
    BY <2>1, LimitTypes DEF Tools!Keep, StoreInv, StoreTypes
  <2>4. StoreTypes'
    BY <2>1, <2>2, <2>3, ResultIs DEF StoreInv, StoreTypes
  <2>5. IsFiniteSet(DOMAIN artifacts')
    BY <2>3, FS_AddElement DEF StoreInv, StoreCounts
  <2>6. /\ accounted' \in Nat /\ accounted' <= MaxSession
        /\ accounted' <= calls' * MaxResult
    BY <1>2, <1>8, <2>1, <2>2, LimitTypes DEF StoreInv, StoreCounts
  <2>7. SumFunction(Weight(artifacts')) <= accounted'
    <3>1. CASE b \in DOMAIN artifacts
      <4>1. artifacts' = artifacts
        BY <2>1, <3>1 DEF Tools!Keep
      <4>2. QED
        BY <1>4, <2>1, <2>2, <4>1 DEF StoreInv, StoreCounts
    <3>2. CASE b \notin DOMAIN artifacts
      <4>1. DOMAIN artifacts \subseteq Seq(Byte)
        BY BytesAre, LimitTypes DEF StoreInv, StoreTypes
      <4>2. SumFunction(Weight(artifacts')) = SumFunction(Weight(artifacts)) + Len(b)
        BY <2>3, <3>2, <4>1, KeepAdds DEF StoreInv, StoreCounts
      <4>3. QED
        BY <1>4, <2>1, <2>2, <4>2 DEF StoreInv, StoreCounts
    <3>3. QED
      BY <3>1, <3>2
  <2>8. SumFunction(Weight(artifacts')) \in Nat
    <3>1. \A x \in DOMAIN artifacts' : Weight(artifacts')[x] \in Nat
      BY <2>4, BytesAre, LimitTypes DEF StoreTypes, Weight
    <3>2. DOMAIN Weight(artifacts') = DOMAIN artifacts'
      BY DEF Weight
    <3>3. QED
      BY <2>5, <3>1, <3>2, SumTakes DEF SumFunction
  <2>9. Tools!RetainedFits'
    <3>1. SumFunction(Weight(artifacts')) <= MaxSession
      BY <2>6, <2>7, <2>8, LimitTypes
    <3>2. QED
      BY <3>1, SameSum DEF Tools!RetainedFits, Weight
  <2>10. Tools!ResultIsRetained'
    <3> DEFINE shown == Tools!ResultFor(b)
    <3>1. /\ shown \in Tools!ToolResult /\ shown.sha256 = b
          /\ shown.total_bytes = Len(b) /\ ShowsText(shown, b)
      BY <2>2, ResultIs
    <3> HIDE DEF shown
    <3>2. result' = shown /\ b \in DOMAIN artifacts'
      BY <2>1, <2>3 DEF shown
    <3>3. QED
      BY <3>1, <3>2 DEF ShowsText, Tools!ResultIsRetained
  <2>11. QED
    BY <1>1, <2>4, <2>5, <2>6, <2>7, <2>9, <2>10 DEF StoreInv, StoreCounts
<1>9. Len(b) \in Nat /\ accounted \in Nat
  BY DEF StoreInv, StoreCounts
<1>10. QED
  BY <1>6, <1>7, <1>8, <1>9, LimitTypes

\* A call that answers with a failure keeps nothing.
LEMMA RefuseKeeps ==
  ASSUME StoreInv, calls <= MaxCalls, calls' \in {calls, calls + 1},
         files' \in [Path \ Unsafe -> Tools!File], UNCHANGED role,
         result' = Tools!Failed, UNCHANGED <<artifacts, accounted>>
  PROVE  StoreInv' /\ Tools!ResultIsRetained'
<1>1. calls' \in 0 .. (MaxCalls + 1) /\ calls \in Nat
  BY LimitTypes DEF StoreInv, StoreCounts
<1>2. accounted' <= calls' * MaxResult
  <2>1. (calls + 1) * MaxResult = calls * MaxResult + MaxResult /\ calls * MaxResult \in Nat
    BY <1>1, LimitTypes
  <2>2. accounted \in Nat /\ accounted <= calls * MaxResult
    BY DEF StoreInv, StoreCounts
  <2>3. CASE calls' = calls
    BY <2>2, <2>3
  <2>4. CASE calls' = calls + 1
    <3>1. calls' * MaxResult = calls * MaxResult + MaxResult
      BY <2>1, <2>4
    <3>2. QED
      BY <2>1, <2>2, <3>1, LimitTypes
  <2>5. QED
    BY <2>3, <2>4
<1>3. StoreTypes'
  BY DEF StoreInv, StoreTypes
<1>4. Tools!Failed \notin Tools!ToolResult
  BY DEF Tools!Failed, Tools!ToolResult
<1>5. Tools!ResultIsRetained'
  BY <1>4 DEF Tools!ResultIsRetained
<1>6. Tools!RetainedFits' /\ SumFunction(Weight(artifacts))' <= accounted'
  BY DEF StoreInv, StoreCounts, Tools!RetainedFits
<1>7. QED
  BY <1>1, <1>2, <1>3, <1>5, <1>6 DEF StoreInv, StoreCounts

LEMMA SameCardinality ==
  ASSUME NEW S
  PROVE  Tools!Cardinality(S) = Cardinality(S) /\ (Tools!IsFiniteSet(S) <=> IsFiniteSet(S))
BY DEF Cardinality, Tools!Cardinality, IsFiniteSet, Tools!IsFiniteSet

\* What a search answers is as many bytes as there are matches.
LEMMA MatchesAreCounted ==
  ASSUME StoreInv, NEW query
  PROVE  Cardinality(Tools!Matches(query)) \in Nat
<1>1. IsFiniteSet(Tools!Searched)
  <2>1. Tools!Searched \subseteq Path
    BY DEF Tools!Searched, StoreInv, StoreTypes
  <2>2. QED
    BY <2>1, LimitTypes, FS_Subset
<1>2. IsFiniteSet(1 .. MaxLength)
  BY LimitTypes, FS_Interval
<1>3. ASSUME NEW p \in Tools!Searched
      PROVE  DOMAIN files[p].bytes \subseteq 1 .. MaxLength
  <2>1. files[p] \in Tools!File /\ files[p].kind = "file"
    BY DEF Tools!Searched, StoreInv, StoreTypes
  <2>2. files[p].bytes \in Tools!Bytes(MaxLength)
    BY <2>1 DEF Tools!File
  <2>3. files[p].bytes \in Seq(Byte) /\ Len(files[p].bytes) <= MaxLength
    BY <2>2, BytesAre, LimitTypes
  <2>4. QED
    BY <2>3, LimitTypes
<1>4. Tools!Matches(query) \subseteq Tools!Searched \X (1 .. MaxLength)
  BY <1>3 DEF Tools!Matches
<1>5. IsFiniteSet(Tools!Searched \X (1 .. MaxLength))
  BY <1>1, <1>2, FS_Product
<1>6. QED
  BY <1>4, <1>5, FS_Subset, FS_CardinalityType

LEMMA OutputIsBytes ==
  ASSUME StoreInv, NEW request \in Tools!Request, request.tool # "edit_candidate",
         NEW b \in Tools!Output(request)
  PROVE  b \in Seq(Byte)
<1>1. CASE request.tool \in {"read_file", "import"}
  <2>1. request.path \in Path /\ b \in Tools!ReadFile(request.path)
    BY <1>1 DEF Tools!Output, Tools!Request
  <2>2. request.path \in Path \ Unsafe /\ b = files[request.path].bytes
        /\ files[request.path].kind = "file"
    BY <2>1 DEF Tools!ReadFile, Tools!Readable, Tools!Relative, Tools!Reached
  <2>3. files[request.path] \in Tools!File
    BY <2>2 DEF StoreInv, StoreTypes
  <2>4. b \in Tools!Bytes(MaxLength)
    BY <2>2, <2>3 DEF Tools!File
  <2>5. QED
    BY <2>4, BytesAre, LimitTypes
<1>2. CASE request.tool = "search_files"
  <2>1. request.query \in Byte
    BY <1>2 DEF Tools!Request, Tools!Plain
  <2>2. b \in Tools!SearchFiles(request.query)
    BY <1>2 DEF Tools!Output
  <2> DEFINE n == Cardinality(Tools!Matches(request.query))
  <2>3. b = [k \in 1 .. n |-> request.query]
    BY <2>2, SameCardinality DEF Tools!SearchFiles
  <2>4. n \in Nat
    BY MatchesAreCounted
  <2> HIDE DEF n
  <2>5. QED
    BY <2>1, <2>3, <2>4
<1>3. CASE request.tool \in {"diff", "git"}
  <2>1. b \in Tools!Bytes(MaxResult)
    BY <1>3 DEF Tools!Output
  <2>2. QED
    BY <2>1, BytesAre, LimitTypes
<1>4. QED
  BY <1>1, <1>2, <1>3 DEF Tools!Request

\* execute, however it ends.
LEMMA ExecuteKeeps ==
  ASSUME StoreInv, calls <= MaxCalls,
         NEW request \in Tools!Request, Tools!Execute(request)
  PROVE  /\ StoreInv' /\ Tools!ResultIsRetained'
         /\ UNCHANGED role
         /\ result'.ok => calls' <= MaxCalls
<1> USE DEF Tools!Refuse, Tools!NoteCall
<1>0. files \in [Path \ Unsafe -> Tools!File] /\ calls \in Nat /\ UNCHANGED role
  BY DEF StoreInv, StoreTypes, StoreCounts, Tools!Execute
<1>1. CASE request.tool \notin Tools!ForRole(role) /\ Tools!Refuse /\ UNCHANGED calls
  BY <1>0, <1>1, RefuseKeeps
<1>2. CASE calls' = calls + 1 /\ Tools!TooManyCalls /\ Tools!Refuse
  <2>1. ~result'.ok
    BY <1>2 DEF Tools!Failed
  <2>2. QED
    BY <1>0, <1>2, <2>1, RefuseKeeps
<1>3. ASSUME calls' = calls + 1, ~Tools!TooManyCalls
      PROVE  calls' <= MaxCalls
  BY <1>0, <1>3, LimitTypes DEF Tools!TooManyCalls
<1>4. ASSUME calls' = calls + 1, ~Tools!TooManyCalls, Tools!Refuse
      PROVE  StoreInv' /\ Tools!ResultIsRetained'
  BY <1>0, <1>4, RefuseKeeps
<1>5. ASSUME calls' = calls + 1, ~Tools!TooManyCalls, request.tool # "edit_candidate",
             UNCHANGED files, NEW b \in Tools!Output(request), Tools!Store(b)
      PROVE  StoreInv' /\ Tools!ResultIsRetained'
  <2>1. b \in Seq(Byte)
    BY <1>5, OutputIsBytes
  <2>2. QED
    BY <1>0, <1>5, <2>1, StoreKeeps
<1>6. ASSUME request.tool = "edit_candidate", Tools!Writable(request.path),
             NEW k \in 0 .. Len(request.contents),
             Tools!Written(request.path, SubSeq(request.contents, 1, k))
      PROVE  files' \in [Path \ Unsafe -> Tools!File]
  <2>1. request.path \in Path \ Unsafe /\ request.contents \in Tools!Bytes(MaxLength)
    BY <1>6 DEF Tools!Request, Tools!Writable, Tools!Relative
  <2>2. SubSeq(request.contents, 1, k) \in Tools!Bytes(MaxLength)
    <3>1. request.contents \in Seq(Byte) /\ Len(request.contents) <= MaxLength
      BY <2>1, BytesAre, LimitTypes
    <3>2. /\ SubSeq(request.contents, 1, k) \in Seq(Byte)
          /\ Len(SubSeq(request.contents, 1, k)) = k
      BY <3>1
    <3>3. k <= MaxLength
      BY <3>1, LimitTypes
    <3>4. QED
      BY <3>2, <3>3, BytesAre, LimitTypes
  <2>3. [kind |-> "file", bytes |-> SubSeq(request.contents, 1, k)] \in Tools!File
    BY <2>2 DEF Tools!File
  <2>4. QED
    BY <1>0, <1>6, <2>3 DEF Tools!Written
<1>7. ASSUME calls' = calls + 1, ~Tools!TooManyCalls, request.tool = "edit_candidate",
             Tools!Writable(request.path), Tools!Written(request.path, request.contents),
             NEW b \in Tools!Plain, Tools!Store(<<b>>)
      PROVE  StoreInv' /\ Tools!ResultIsRetained'
  <2>1. request.contents \in Seq(Byte)
    BY <1>7, BytesAre, LimitTypes DEF Tools!Request
  <2>2. /\ SubSeq(request.contents, 1, Len(request.contents)) = request.contents
        /\ Len(request.contents) \in 0 .. Len(request.contents)
    BY <2>1
  <2>3. files' \in [Path \ Unsafe -> Tools!File]
    BY <1>6, <1>7, <2>2
  <2>4. <<b>> \in Seq(Byte)
    BY DEF Tools!Plain
  <2>5. QED
    BY <1>0, <1>7, <2>3, <2>4, StoreKeeps
<1>8. ASSUME calls' = calls + 1, ~Tools!TooManyCalls, request.tool = "edit_candidate",
             Tools!Writable(request.path),
             NEW k \in 0 .. Len(request.contents),
             Tools!Written(request.path, SubSeq(request.contents, 1, k)),
             result' = Tools!Failed, UNCHANGED <<artifacts, accounted>>
      PROVE  StoreInv' /\ Tools!ResultIsRetained'
  <2>1. files' \in [Path \ Unsafe -> Tools!File]
    BY <1>6, <1>8
  <2>2. QED
    BY <1>0, <1>8, <2>1, RefuseKeeps
<1> HIDE DEF Tools!Refuse
<1>9. QED
  BY <1>0, <1>1, <1>2, <1>3, <1>4, <1>5, <1>7, <1>8 DEF Tools!Execute

LEMMA ReadRangeKeeps ==
  ASSUME StoreInv, calls <= MaxCalls,
         NEW sha256, NEW start \in Nat, NEW end \in Nat,
         Tools!ReadRange(sha256, start, end)
  PROVE  StoreInv' /\ Tools!ResultIsRetained'
<1>1. /\ files' \in [Path \ Unsafe -> Tools!File]
      /\ UNCHANGED role /\ calls' = calls + 1
  BY DEF StoreInv, StoreTypes, Tools!ReadRange, Tools!NoteCall
<1>2. CASE result' = Tools!Failed /\ UNCHANGED <<artifacts, accounted>>
  BY <1>1, <1>2, RefuseKeeps
<1>3. CASE Tools!HasRange(sha256, start, end) /\ Tools!Store(SubSeq(sha256, start + 1, end))
  <2>1. sha256 \in Seq(Byte) /\ end <= Len(sha256)
    BY <1>3, BytesAre, LimitTypes DEF Tools!HasRange, StoreInv, StoreTypes
  <2>2. SubSeq(sha256, start + 1, end) \in Seq(Byte)
    BY <2>1
  <2>3. QED
    BY <1>1, <1>3, <2>2, StoreKeeps
<1>4. QED
  BY <1>2, <1>3 DEF Tools!ReadRange

\* A reference to an artifact is counted, and nothing else changes.
LEMMA ReferenceKeeps ==
  ASSUME StoreInv, Tools!ResultIsRetained, NEW sha256,
         Tools!Protect(sha256) \/ Tools!Release(sha256)
  PROVE  StoreInv' /\ Tools!ResultIsRetained'
<1>1. UNCHANGED <<files, role, accounted, calls>>
  BY DEF Tools!Protect, Tools!Release
<1>2. CASE sha256 \in DOMAIN artifacts
  <2>1. /\ UNCHANGED result \/ result' = Tools!Failed
        /\ \/ UNCHANGED artifacts
           \/ \E n \in 0 .. MaxProtect : artifacts' = [artifacts EXCEPT ![sha256] = n]
    BY <1>2, LimitTypes DEF Tools!Protect, Tools!Release, StoreInv, StoreTypes
  <2>2. /\ DOMAIN artifacts' = DOMAIN artifacts
        /\ \A b \in DOMAIN artifacts' : artifacts'[b] \in 0 .. MaxProtect
    BY <1>2, <2>1 DEF StoreInv, StoreTypes
  <2>3. Weight(artifacts') = Weight(artifacts)
    BY <2>2 DEF Weight
  <2>4. Tools!RetainedFits'
    BY <2>3 DEF Tools!RetainedFits, Weight, StoreInv, StoreCounts
  <2>5. Tools!Failed \notin Tools!ToolResult
    BY DEF Tools!Failed, Tools!ToolResult
  <2>6. Tools!ResultIsRetained'
    BY <2>1, <2>2, <2>5 DEF Tools!ResultIsRetained
  <2>7. StoreTypes'
    BY <1>1, <2>1, <2>2 DEF StoreInv, StoreTypes
  <2>8. QED
    BY <1>1, <2>2, <2>3, <2>4, <2>6, <2>7 DEF StoreInv, StoreCounts
<1>3. CASE sha256 \notin DOMAIN artifacts
  <2>1. result' = Tools!Failed /\ UNCHANGED artifacts
    BY <1>3 DEF Tools!Protect, Tools!Release
  <2>2. StoreTypes'
    BY <1>1, <2>1 DEF StoreInv, StoreTypes
  <2>3. Tools!Failed \notin Tools!ToolResult
    BY DEF Tools!Failed, Tools!ToolResult
  <2>4. Tools!ResultIsRetained'
    BY <2>1, <2>3 DEF Tools!ResultIsRetained
  <2>5. Tools!RetainedFits' /\ SumFunction(Weight(artifacts))' <= accounted'
    BY <1>1, <2>1 DEF StoreInv, StoreCounts, Tools!RetainedFits
  <2>6. QED
    BY <1>1, <2>1, <2>2, <2>4, <2>5 DEF StoreInv, StoreCounts
<1>4. QED
  BY <1>2, <1>3

LEMMA OutsideKeeps ==
  ASSUME StoreInv, NEW p \in DOMAIN files, Tools!Outside(p)
  PROVE  StoreInv' /\ (Tools!ResultIsRetained => Tools!ResultIsRetained')
<1>1. /\ files' \in [Path \ Unsafe -> Tools!File]
      /\ UNCHANGED <<role, artifacts, accounted, calls, result>>
  BY DEF Tools!Outside, StoreInv, StoreTypes
<1>2. StoreTypes'
  BY <1>1 DEF StoreInv, StoreTypes
<1>3. StoreCounts'
  BY <1>1 DEF StoreInv, StoreCounts, Tools!RetainedFits
<1>4. QED
  BY <1>1, <1>2, <1>3 DEF StoreInv, Tools!ResultIsRetained

LEMMA NewKeeps ==
  ASSUME StoreInv, NEW r \in Tools!ToolRole \cup {None}, Tools!NewExecutor(r),
         UNCHANGED <<files, result>>
  PROVE  StoreInv'
<1>1. /\ role' = r /\ artifacts' = Tools!NoArtifacts /\ accounted' = 0 /\ calls' = 0
      /\ DOMAIN artifacts' = {}
  BY DEF Tools!NewExecutor, Tools!NoArtifacts
<1>2. StoreTypes'
  BY <1>1 DEF StoreInv, StoreTypes
<1>3. SumFunction(Weight(artifacts')) = 0
  BY <1>1, EmptyWeight
<1>4. Tools!RetainedFits'
  BY <1>3, SameSum, LimitTypes DEF Tools!RetainedFits, Weight
<1>5. IsFiniteSet(DOMAIN artifacts')
  BY <1>1, FS_EmptySet
<1>6. QED
  BY <1>1, <1>2, <1>3, <1>4, <1>5, LimitTypes DEF StoreInv, StoreCounts

LEMMA NoneKeeps ==
  ASSUME files \in [Path \ Unsafe -> Tools!File], Tools!NoExecutor,
         result \in {None, Tools!Failed} \cup Tools!ToolResult
  PROVE  StoreInv
<1>1. /\ role = None /\ artifacts = Tools!NoArtifacts /\ accounted = 0 /\ calls = 0
      /\ DOMAIN artifacts = {}
  BY DEF Tools!NoExecutor, Tools!NoArtifacts
<1>2. SumFunction(Weight(artifacts)) = 0
  BY <1>1, EmptyWeight
<1>3. Tools!RetainedFits
  BY <1>2, SameSum, LimitTypes DEF Tools!RetainedFits, Weight
<1>4. IsFiniteSet(DOMAIN artifacts)
  BY <1>1, FS_EmptySet
<1>5. StoreTypes
  BY <1>1 DEF StoreTypes
<1>6. QED
  BY <1>1, <1>2, <1>3, <1>4, <1>5, LimitTypes DEF StoreInv, StoreCounts

\* The executor by itself: it has answered nothing while it is not open.
ExecutorInv ==
  /\ StoreInv /\ Tools!ResultIsRetained
  /\ role = None => result = None /\ calls = 0

LEMMA ExecutorNext ==
  ASSUME ExecutorInv, Tools!Next
  PROVE  ExecutorInv'
<1>1. ASSUME NEW r \in Tools!ToolRole, Tools!Open(r)
      PROVE  ExecutorInv'
  <2>1. StoreInv'
    BY <1>1, NewKeeps DEF Tools!Open, ExecutorInv
  <2>2. result' = None /\ None \notin Tools!ToolResult /\ role' = r /\ r # None
    BY <1>1, NoneAssumption DEF Tools!Open, Tools!NewExecutor, ExecutorInv
  <2>3. Tools!ResultIsRetained'
    BY <2>2 DEF Tools!ResultIsRetained
  <2>4. QED
    BY <2>1, <2>2, <2>3 DEF ExecutorInv
<1>2. ASSUME calls <= MaxCalls, NEW request \in Tools!Request, Tools!Execute(request)
      PROVE  ExecutorInv'
  <2>1. StoreInv' /\ Tools!ResultIsRetained' /\ UNCHANGED role
    BY <1>2, ExecuteKeeps DEF ExecutorInv
  <2>2. role # None
    BY <1>2 DEF Tools!Execute
  <2>3. QED
    BY <2>1, <2>2 DEF ExecutorInv
<1>3. ASSUME calls <= MaxCalls, NEW sha256, NEW start \in Nat, NEW end \in Nat,
             Tools!ReadRange(sha256, start, end)
      PROVE  ExecutorInv'
  <2>1. StoreInv' /\ Tools!ResultIsRetained'
    BY <1>3, ReadRangeKeeps DEF ExecutorInv
  <2>2. role # None /\ UNCHANGED role
    BY <1>3 DEF Tools!ReadRange
  <2>3. QED
    BY <2>1, <2>2 DEF ExecutorInv
<1>4. ASSUME NEW sha256, Tools!Protect(sha256) \/ Tools!Release(sha256)
      PROVE  ExecutorInv'
  <2>1. StoreInv' /\ Tools!ResultIsRetained'
    BY <1>4, ReferenceKeeps DEF ExecutorInv
  <2>2. role # None /\ UNCHANGED role
    BY <1>4 DEF Tools!Protect, Tools!Release
  <2>3. QED
    BY <2>1, <2>2 DEF ExecutorInv
<1>5. ASSUME NEW p \in DOMAIN files, Tools!Outside(p)
      PROVE  ExecutorInv'
  <2>1. StoreInv' /\ Tools!ResultIsRetained'
    BY <1>5, OutsideKeeps DEF ExecutorInv
  <2>2. UNCHANGED <<role, result, calls>>
    BY <1>5 DEF Tools!Outside
  <2>3. QED
    BY <2>1, <2>2 DEF ExecutorInv
<1>6. 0 .. (MaxResult + 1) \subseteq Nat
  BY LimitTypes
<1>7. QED
  BY <1>1, <1>2, <1>3, <1>4, <1>5, <1>6 DEF Tools!Next

-----------------------------------------------------------------------------
(***************************************************************************)
(* The members of a finite set of numbers in their order.                  *)
(***************************************************************************)
Numbers(S) == S \subseteq Nat

Rising(s) == \A i, j \in DOMAIN s : i < j => s[i] < s[j]

LEMMA RisingExists ==
  ASSUME NEW S, Numbers(S), IsFiniteSet(S)
  PROVE  \E s \in [1 .. Cardinality(S) -> S] : Rising(s)
<1> DEFINE Bad == {t \in SUBSET S : ~\E s \in [1 .. Cardinality(t) -> t] : Rising(s)}
<1>1. Bad = {}
  <2> SUFFICES ASSUME Bad # {} PROVE FALSE
    OBVIOUS
  <2>1. PICK t \in Bad : \A u \in Bad : u \subseteq t => u = t
    <3> HIDE DEF Bad
    <3>1. Bad \in SUBSET SUBSET S
      BY DEF Bad
    <3>2. \E s \in Bad : \A t \in Bad : t \subseteq s => t = s
      BY <3>1, SmallestSet
    <3>3. QED  BY <3>2
  <2>2. t \in SUBSET Nat /\ IsFiniteSet(t)
    BY FS_Subset DEF Numbers
  <2>3. CASE t = {}
    <3>1. Cardinality(t) = 0
      BY <2>3, FS_EmptySet
    <3> DEFINE none == [k \in 1 .. 0 |-> k]
    <3>2. none \in [1 .. Cardinality(t) -> t] /\ Rising(none)
      BY <3>1 DEF Rising
    <3>3. QED  BY <3>2
  <2>4. CASE t # {}
    <3>1. PICK m \in t : \A x \in t : m <= x
      BY <2>2, <2>4, Smallest
    <3> DEFINE rest == t \ {m}
               n == Cardinality(rest)
    <3>2. n \in Nat /\ Cardinality(t) = n + 1
      <4>1. IsFiniteSet(rest) /\ Cardinality(rest) = Cardinality(t) - 1
        BY <2>2, FS_RemoveElement
      <4>2. Cardinality(t) \in Nat /\ Cardinality(rest) \in Nat
        BY <2>2, <4>1, FS_CardinalityType
      <4>3. QED  BY <4>1, <4>2
    <3>3. rest \notin Bad /\ rest \in SUBSET S
      <4>1. rest \subseteq t /\ rest # t
        BY <3>1
      <4>2. QED  BY <2>1, <4>1
    <3>4. PICK s \in [1 .. n -> rest] : Rising(s)
      BY <3>3
    <3> HIDE DEF n
    <3> DEFINE more == [k \in 1 .. (n + 1) |-> IF k = 1 THEN m ELSE s[k - 1]]
    <3>5. more \in [1 .. (n + 1) -> t]
      BY <3>1, <3>2, <3>4
    <3>6. Rising(more)
      <4> SUFFICES ASSUME NEW i \in 1 .. (n + 1), NEW j \in 1 .. (n + 1), i < j
                   PROVE  more[i] < more[j]
        BY DEF Rising
      <4>1. j - 1 \in 1 .. n /\ more[j] = s[j - 1] /\ s[j - 1] \in rest
        BY <3>2, <3>4
      <4>2. CASE i = 1
        <5>1. more[i] = m /\ m <= s[j - 1] /\ m # s[j - 1]
          BY <3>1, <3>2, <4>1, <4>2
        <5>2. m \in Nat /\ s[j - 1] \in Nat
          BY <2>2, <4>1
        <5>3. QED  BY <4>1, <5>1, <5>2
      <4>3. CASE i # 1
        <5>1. i - 1 \in 1 .. n /\ i - 1 < j - 1 /\ more[i] = s[i - 1]
          BY <3>2, <4>3
        <5>2. s[i - 1] < s[j - 1]
          BY <3>4, <4>1, <5>1 DEF Rising
        <5>3. QED  BY <4>1, <5>1, <5>2
      <4>4. QED  BY <4>2, <4>3
    <3>7. QED  BY <3>2, <3>5, <3>6
  <2>5. QED  BY <2>3, <2>4
<1>2. QED  BY <1>1

LEMMA InOrderIs ==
  ASSUME NEW S, Numbers(S), IsFiniteSet(S)
  PROVE  InOrder(S) \in [1 .. Cardinality(S) -> S] /\ Rising(InOrder(S))
BY RisingExists DEF InOrder, Rising

\* The first numbers in their order.
LEMMA FirstInOrder ==
  ASSUME NEW n \in Nat
  PROVE  InOrder(0 .. (n - 1)) = [k \in 1 .. n |-> k - 1]
<1> DEFINE s == InOrder(0 .. (n - 1))
<1>1. IsFiniteSet(0 .. (n - 1)) /\ Cardinality(0 .. (n - 1)) = n
  BY FS_Interval
<1>2. s \in [1 .. n -> 0 .. (n - 1)] /\ Rising(s)
  <2>1. Numbers(0 .. (n - 1))
    BY DEF Numbers
  <2>2. QED  BY <1>1, <2>1, InOrderIs
<1> HIDE DEF s
<1> DEFINE Low == {k \in 1 .. n : s[k] < k - 1}
           High == {k \in 1 .. n : s[n + 1 - k] > n - k}
<1>3. Low = {}
  <2> SUFFICES ASSUME Low # {} PROVE FALSE
    OBVIOUS
  <2>1. PICK k \in Low : \A j \in Low : k <= j
    <3> HIDE DEF Low
    <3>1. Low \in SUBSET Nat
      BY DEF Low
    <3>2. QED  BY <3>1, Smallest
  <2>2. s[k] \in Nat /\ k \in 1 .. n /\ s[k] < k - 1
    BY <1>2
  <2>3. k - 1 \in 1 .. n /\ ~(k <= k - 1)
    BY <2>2
  <2>4. s[k - 1] \in Nat /\ s[k - 1] < s[k]
    BY <1>2, <2>2, <2>3 DEF Rising
  <2>5. k - 1 \in Low
    BY <2>2, <2>3, <2>4
  <2>6. QED  BY <2>1, <2>3, <2>5
<1>4. High = {}
  <2> SUFFICES ASSUME High # {} PROVE FALSE
    OBVIOUS
  <2>1. PICK k \in High : \A j \in High : k <= j
    <3> HIDE DEF High
    <3>1. High \in SUBSET Nat
      BY DEF High
    <3>2. QED  BY <3>1, Smallest
  <2>2. k \in 1 .. n /\ n + 1 - k \in 1 .. n /\ s[n + 1 - k] \in 0 .. (n - 1) /\ s[n + 1 - k] > n - k
    BY <1>2
  <2>3. k # 1
    BY <2>2
  <2>4. k - 1 \in 1 .. n /\ n + 1 - (k - 1) \in 1 .. n /\ ~(k <= k - 1)
    BY <2>2, <2>3
  <2>5. s[n + 1 - k] < s[n + 1 - (k - 1)] /\ s[n + 1 - (k - 1)] \in 0 .. (n - 1)
    BY <1>2, <2>2, <2>4, SMTT(30) DEF Rising
  <2>6. k - 1 \in High
    BY <2>2, <2>4, <2>5
  <2>7. QED  BY <2>1, <2>4, <2>6
<1>5. ASSUME NEW k \in 1 .. n
      PROVE  s[k] = k - 1
  <2>1. s[k] \in 0 .. (n - 1) /\ ~(s[k] < k - 1)
    BY <1>2, <1>3
  <2>2. n + 1 - k \in 1 .. n /\ n + 1 - (n + 1 - k) = k
    OBVIOUS
  <2>3. ~(s[n + 1 - (n + 1 - k)] > n - (n + 1 - k))
    BY <1>4, <2>2
  <2>4. QED  BY <2>1, <2>2, <2>3
<1>6. QED  BY <1>2, <1>5 DEF s

-----------------------------------------------------------------------------
(***************************************************************************)
(* The loop.  While a stream runs, the pieces of a call that have arrived  *)
(* are those that were sent.  While the calls of an answer run, those that *)
(* ran and those that are to run are the calls that were sent, all of them *)
(* good ones, and the conversation lacks the results of the latter.        *)
(***************************************************************************)
Places == {"idle", "ask", "sent", "streaming", "tools", "failed"}

LoopTypes ==
  /\ pc \in Places /\ agent \in Agent /\ turn \in 0 .. MaxTurns
  /\ conversation \in Seq(Message)
  /\ parts \in [Choice -> [Index -> Seq(Piece)]]
  /\ texts \subseteq Choice /\ usage \in BOOLEAN
  /\ todo \in Seq(Repertoire)
  /\ plan \in [Choice -> Seq(Repertoire)]
  /\ sent \in [Choice -> [Index -> 0 .. 2]]
  /\ over \in BOOLEAN
  /\ ran \in Seq(Repertoire)
  /\ invocations \in 0 .. MaxInvocations

PlaceOfLoop ==
  /\ role \in {None, ExecutorRole(agent)}
  /\ pc \in {"tools", "failed"} => role = ExecutorRole(agent)
  /\ pc = "idle" => role = None
  /\ pc \in {"sent", "streaming", "tools"} => turn < MaxTurns
  /\ pc # "failed" => calls <= MaxCalls
  /\ pc = "tools" => todo # << >>

PiecesOf(c, i) ==
  /\ Len(parts[c][i]) = sent[c][i]
  /\ \A k \in 1 .. sent[c][i] : parts[c][i][k] = [call |-> plan[c][i + 1], part |-> k]
  /\ sent[c][i] > 0 => i < Len(plan[c])

Arrived ==
  /\ pc \in {"sent", "streaming"} => \A c \in Choice, i \in Index : PiecesOf(c, i)
  /\ pc = "sent" => \A c \in Choice, i \in Index : sent[c][i] = 0

GoodCalls(s) ==
  \A i \in DOMAIN s :
    s[i].name \in {"read_file", "search_files", "diff", "import", "git"} /\ Fits(s[i])

Uncut == \A i \in Index : sent[0][i] # 1

RanOK ==
  /\ pc \in {"sent", "streaming"} => ran = << >>
  /\ pc = "tools" =>
       /\ over /\ Uncut /\ GoodCalls(SentCalls)
       /\ Len(SentCalls) <= MaxPlan /\ ran \o todo = SentCalls
  /\ ran # << >> => over /\ Uncut /\ GoodCalls(SentCalls) /\ IsPrefix(ran, SentCalls)

\* The answer k has its results, and another answer comes after them, before b.
AnsweredBefore(conv, k, b) ==
  LET n == Len(conv[k].ids)
  IN  /\ k + n < b
      /\ \A j \in 1 .. n : conv[k + j].kind = "tool"
      /\ conv[k + n + 1].kind = "assistant"

\* The last answer of the conversation lacks m results.
Lacks(conv, m) ==
  \E a \in DOMAIN conv :
    /\ conv[a].kind = "assistant"
    /\ Len(conv[a].ids) = Len(conv) - a + m
    /\ \A j \in (a + 1) .. Len(conv) : conv[j].kind = "tool"
    /\ \A k \in 1 .. (a - 1) : conv[k].kind = "assistant" => AnsweredBefore(conv, k, a)

ConvOK ==
  /\ pc \in {"ask", "sent", "streaming"} => conversation = << >> \/ Lacks(conversation, 0)
  /\ pc = "tools" => Lacks(conversation, Len(todo))

LoopInv == StoreInv /\ LoopTypes /\ PlaceOfLoop /\ Arrived /\ RanOK /\ ConvOK

-----------------------------------------------------------------------------
LEMMA PlanBounds ==
  MaxTurns \in Nat \ {0} /\ MaxPlan \in Nat \ {0} /\ MaxInvocations \in Nat
BY LoopAssumption

LEMMA MessageParts ==
  ASSUME NEW m \in Message
  PROVE  /\ m.kind \in {"assistant", "tool"}
         /\ m.kind = "assistant" => Len(m.ids) \in Nat
<1>1. CASE m \in [kind : {"assistant"}, ids : SeqOf({None, "id"}, MaxPlan)]
  <2>1. m.ids \in SeqOf({None, "id"}, MaxPlan) /\ m.kind = "assistant"
    BY <1>1
  <2>2. PICK n \in 0 .. MaxPlan : m.ids \in [1 .. n -> {None, "id"}]
    BY <2>1 DEF SeqOf
  <2>3. Len(m.ids) = n /\ n \in Nat
    BY <2>2, PlanBounds
  <2>4. QED
    BY <2>1, <2>3
<1>2. CASE m \in [kind : {"tool"},
                  id : {"id"} \cup ({"phemius-call"} \X (0 .. MaxTurns) \X Index)]
  BY <1>2
<1>3. QED
  BY <1>1, <1>2 DEF Message

LEMMA Gap ==
  ASSUME NEW n \in Nat, NEW k \in 1 .. n, NEW g, g = n - k
  PROVE  /\ g \in Nat /\ k + g = n /\ k + g < n + 1 /\ k + g <= n
         /\ \A j \in 1 .. g : k + j \in (k + 1) .. n
OBVIOUS

\* An answer that asks for n results lacks n.
LEMMA AnswerLacks ==
  ASSUME NEW conv \in Seq(Message), conv = << >> \/ Lacks(conv, 0),
         NEW m \in Message, m.kind = "assistant"
  PROVE  Lacks(Append(conv, m), Len(m.ids))
<1> DEFINE a == Len(conv) + 1
           next == Append(conv, m)
<1>1. /\ next \in Seq(Message) /\ Len(next) = a /\ next[a] = m
      /\ \A k \in 1 .. Len(conv) : next[k] = conv[k]
      /\ a \in DOMAIN next
  OBVIOUS
<1>2. Len(m.ids) \in Nat
  BY MessageParts
<1>3. ASSUME NEW k \in 1 .. (a - 1), next[k].kind = "assistant"
      PROVE  AnsweredBefore(next, k, a)
  <2>1. k \in 1 .. Len(conv) /\ conv[k].kind = "assistant" /\ conv # << >>
    BY <1>1, <1>3
  <2>2. PICK b \in DOMAIN conv :
          /\ conv[b].kind = "assistant"
          /\ Len(conv[b].ids) = Len(conv) - b + 0
          /\ \A j \in (b + 1) .. Len(conv) : conv[j].kind = "tool"
          /\ \A j \in 1 .. (b - 1) : conv[j].kind = "assistant" => AnsweredBefore(conv, j, b)
    BY <2>1 DEF Lacks
  <2>3. b \in 1 .. Len(conv) /\ k <= b
    BY <2>1, <2>2
  <2>4. CASE k = b
    <3>0. Len(conv) \in Nat /\ k \in Nat /\ Len(conv[k].ids) = Len(conv) - k
      BY <2>2, <2>3, <2>4
    <3>1. k + Len(conv[k].ids) = Len(conv) /\ Len(conv[k].ids) \in Nat
      BY <2>3, <2>4, <3>0, Gap
    <3>2. \A j \in 1 .. Len(conv[k].ids) : k + j \in (b + 1) .. Len(conv)
      BY <2>3, <2>4, <3>0, <3>1
    <3>3. next[k] = conv[k] /\ k + Len(conv[k].ids) + 1 = a
      BY <1>1, <2>1, <3>1
    <3>4. \A j \in 1 .. Len(conv[k].ids) : next[k + j].kind = "tool"
      <4> TAKE j \in 1 .. Len(conv[k].ids)
      <4>1. k + j \in (b + 1) .. Len(conv) /\ k + j \in 1 .. Len(conv)
        BY <2>3, <3>2
      <4>2. QED
        BY <1>1, <2>2, <4>1
    <3>5. k + Len(conv[k].ids) < a
      BY <2>3, <2>4, <3>0, Gap
    <3>6. next[a].kind = "assistant"
      BY <1>1
    <3> HIDE DEF next, a
    <3>7. QED
      BY <3>3, <3>4, <3>5, <3>6 DEF AnsweredBefore
  <2>5. CASE k < b
    <3>1. AnsweredBefore(conv, k, b)
      BY <2>1, <2>2, <2>3, <2>5
    <3> DEFINE n == Len(conv[k].ids)
    <3>2. n \in Nat
      BY <2>1, MessageParts
    <3>3. k + n + 1 \in 1 .. Len(conv) /\ \A j \in 1 .. n : k + j \in 1 .. Len(conv)
      BY <2>1, <2>3, <3>1, <3>2 DEF AnsweredBefore
    <3>4. QED
      BY <1>1, <2>1, <2>3, <3>1, <3>2, <3>3 DEF AnsweredBefore
  <2>6. QED
    BY <2>1, <2>3, <2>4, <2>5
<1> HIDE DEF next, a
<1>4. QED
  BY <1>1, <1>2, <1>3 DEF Lacks, next, a

LEMMA ResultFills ==
  ASSUME NEW conv \in Seq(Message), NEW n \in Nat, Lacks(conv, n + 1),
         NEW m \in Message, m.kind = "tool"
  PROVE  Lacks(Append(conv, m), n)
<1> DEFINE next == Append(conv, m)
<1>1. /\ next \in Seq(Message) /\ Len(next) = Len(conv) + 1 /\ next[Len(conv) + 1] = m
      /\ \A k \in 1 .. Len(conv) : next[k] = conv[k]
      /\ DOMAIN next = 1 .. (Len(conv) + 1) /\ Len(conv) \in Nat
  OBVIOUS
<1>2. PICK a \in DOMAIN conv :
        /\ conv[a].kind = "assistant"
        /\ Len(conv[a].ids) = Len(conv) - a + (n + 1)
        /\ \A j \in (a + 1) .. Len(conv) : conv[j].kind = "tool"
        /\ \A k \in 1 .. (a - 1) : conv[k].kind = "assistant" => AnsweredBefore(conv, k, a)
  BY DEF Lacks
<1>3. a \in 1 .. Len(conv)
  OBVIOUS
<1> HIDE DEF next
<1>4. a \in DOMAIN next /\ next[a].kind = "assistant"
  BY <1>1, <1>2, <1>3
<1>5. Len(next[a].ids) = Len(next) - a + n
  BY <1>1, <1>2, <1>3
<1>6. \A j \in (a + 1) .. Len(next) : next[j].kind = "tool"
  <2> TAKE j \in (a + 1) .. Len(next)
  <2>1. j = Len(conv) + 1 \/ (j \in (a + 1) .. Len(conv) /\ j \in 1 .. Len(conv))
    BY <1>1, <1>3
  <2>2. QED
    BY <1>1, <1>2, <2>1
<1>7. ASSUME NEW k \in 1 .. (a - 1), next[k].kind = "assistant"
      PROVE  AnsweredBefore(next, k, a)
  <2>1. k \in 1 .. Len(conv) /\ next[k] = conv[k] /\ AnsweredBefore(conv, k, a)
    BY <1>1, <1>2, <1>3, <1>7
  <2> DEFINE s == Len(conv[k].ids)
  <2>2. s \in Nat
    BY <1>7, <2>1, MessageParts
  <2>3. k + s + 1 \in 1 .. Len(conv) /\ \A j \in 1 .. s : k + j \in 1 .. Len(conv)
    BY <1>3, <2>1, <2>2 DEF AnsweredBefore
  <2>4. QED
    BY <1>1, <2>1, <2>2, <2>3 DEF AnsweredBefore
<1>8. QED
  BY <1>4, <1>5, <1>6, <1>7 DEF Lacks, next

LEMMA FilledIsClosed ==
  ASSUME conversation \in Seq(Message), conversation = << >> \/ Lacks(conversation, 0)
  PROVE  ConversationIsClosed
<1> SUFFICES ASSUME NEW k \in DOMAIN conversation, conversation[k].kind = "assistant"
             PROVE  /\ k + Len(conversation[k].ids) <= Len(conversation)
                    /\ \A j \in 1 .. Len(conversation[k].ids) : conversation[k + j].kind = "tool"
                    /\ \/ k + Len(conversation[k].ids) = Len(conversation)
                       \/ conversation[k + Len(conversation[k].ids) + 1].kind = "assistant"
  BY DEF ConversationIsClosed
<1>1. conversation # << >> /\ k \in 1 .. Len(conversation)
  OBVIOUS
<1>2. PICK a \in DOMAIN conversation :
        /\ conversation[a].kind = "assistant"
        /\ Len(conversation[a].ids) = Len(conversation) - a + 0
        /\ \A j \in (a + 1) .. Len(conversation) : conversation[j].kind = "tool"
        /\ \A j \in 1 .. (a - 1) :
             conversation[j].kind = "assistant" => AnsweredBefore(conversation, j, a)
  BY <1>1 DEF Lacks
<1>3. a \in 1 .. Len(conversation) /\ k <= a
  BY <1>1, <1>2
<1>4. Len(conversation[k].ids) \in Nat
  BY <1>1, MessageParts
<1> DEFINE n == Len(conversation[k].ids)
<1>5. CASE k = a
  <2>1. n = Len(conversation) - k
    BY <1>2, <1>3, <1>5
  <2> HIDE DEF n
  <2>2. /\ k + n = Len(conversation) /\ k + n <= Len(conversation)
        /\ \A j \in 1 .. n : k + j \in (k + 1) .. Len(conversation)
    <3>1. Len(conversation) \in Nat
      OBVIOUS
    <3>2. QED
      BY <1>1, <2>1, <3>1, Gap
  <2>4. \A j \in 1 .. n : conversation[k + j].kind = "tool"
    BY <1>2, <1>5, <2>2
  <2>5. QED
    BY <2>2, <2>4 DEF n
<1>6. CASE k < a
  <2>1. AnsweredBefore(conversation, k, a)
    BY <1>2, <1>3, <1>6
  <2>2. k + n <= Len(conversation)
    BY <1>3, <1>4, <2>1 DEF AnsweredBefore
  <2>3. QED
    BY <2>1, <2>2 DEF AnsweredBefore
<1>7. QED
  BY <1>1, <1>3, <1>5, <1>6

-----------------------------------------------------------------------------
(***************************************************************************)
(* The calls of an answer.                                                 *)
(***************************************************************************)
\* The calls that have been sent whole, of these plans and pieces.
SentOf(pl, se) ==
  LET complete == InOrder({i \in Index : se[0][i] = 2})
  IN  [k \in DOMAIN complete |-> pl[0][complete[k] + 1]]

LEMMA SentCallsIs == SentCalls = SentOf(plan, sent)
BY DEF SentCalls, SentOf

LEMMA IndexFinite == IsFiniteSet(Index) /\ Cardinality(Index) = MaxPlan /\ Numbers(Index)
<1>1. MaxPlan - 1 \in Int /\ MaxPlan \in Nat
  BY PlanBounds
<1>2. IsFiniteSet(0 .. (MaxPlan - 1)) /\ Cardinality(0 .. (MaxPlan - 1)) = MaxPlan
  BY <1>1, PlanBounds, FS_Interval
<1>3. QED
  BY <1>2 DEF Index, Numbers

LEMMA OrderOfSome ==
  ASSUME NEW S, S \subseteq Index
  PROVE  \E n \in 0 .. MaxPlan : InOrder(S) \in [1 .. n -> S]
<1>1. IsFiniteSet(S) /\ Cardinality(S) <= MaxPlan
  BY IndexFinite, FS_Subset
<1>2. Numbers(S)
  BY IndexFinite DEF Numbers
<1>3. Cardinality(S) \in Nat
  BY <1>1, FS_CardinalityType
<1>4. Cardinality(S) \in 0 .. MaxPlan
  BY <1>1, <1>3, PlanBounds
<1>5. QED
  BY <1>1, <1>2, <1>4, InOrderIs

\* A whole answer is put together as it was sent.
LEMMA AssembledIs ==
  ASSUME LoopTypes, \A i \in Index : PiecesOf(0, i),
         \A i \in Index : parts[0][i] # << >> => Whole(parts[0][i])
  PROVE  /\ Assembled(parts[0]) = SentCalls
         /\ Assembled(parts[0]) \in Seq(Repertoire)
         /\ Len(Assembled(parts[0])) <= MaxPlan
         /\ Uncut
<1>1. /\ parts[0] \in [Index -> Seq(Piece)] /\ sent[0] \in [Index -> 0 .. 2]
      /\ plan[0] \in Seq(Repertoire)
  BY DEF LoopTypes, Choice
<1>2. ASSUME NEW i \in Index
      PROVE  /\ sent[0][i] \in {0, 2}
             /\ parts[0][i] # << >> <=> sent[0][i] = 2
  <2>1. Len(parts[0][i]) = sent[0][i] /\ parts[0][i] \in Seq(Piece) /\ sent[0][i] \in 0 .. 2
    BY <1>1 DEF PiecesOf
  <2>2. CASE parts[0][i] = << >>
    BY <2>1, <2>2
  <2>3. CASE parts[0][i] # << >>
    <3>1. Len(parts[0][i]) = 2
      BY <2>3 DEF Whole
    <3>2. QED
      BY <2>1, <2>3, <3>1
  <2>4. QED
    BY <2>2, <2>3
<1> DEFINE P == {i \in Index : sent[0][i] = 2}
           q == InOrder(P)
<1>3. P = {i \in Index : parts[0][i] # << >>}
  BY <1>2
<1>4. PICK n \in 0 .. MaxPlan : q \in [1 .. n -> P]
  <2>1. P \subseteq Index
    OBVIOUS
  <2> HIDE DEF P
  <2>2. QED
    BY <2>1, OrderOfSome
<1>5. ASSUME NEW k \in 1 .. n
      PROVE  /\ parts[0][q[k]][1].call = plan[0][q[k] + 1]
             /\ plan[0][q[k] + 1] \in Repertoire
  <2>1. q[k] \in Index /\ sent[0][q[k]] = 2
    BY <1>4
  <2> HIDE DEF q
  <2>2. /\ parts[0][q[k]][1] = [call |-> plan[0][q[k] + 1], part |-> 1]
        /\ q[k] < Len(plan[0])
    BY <2>1 DEF PiecesOf
  <2>3. q[k] \in Nat
    BY <2>1, IndexFinite DEF Numbers
  <2>4. q[k] + 1 \in 1 .. Len(plan[0])
    BY <1>1, <2>2, <2>3
  <2>5. QED
    BY <1>1, <2>2, <2>4
<1>6. Assembled(parts[0]) = [k \in DOMAIN q |-> parts[0][q[k]][1].call]
  BY <1>3 DEF Assembled
<1>7. SentCalls = [k \in DOMAIN q |-> plan[0][q[k] + 1]]
  BY DEF SentCalls
<1> HIDE DEF q, P
<1>8. DOMAIN q = 1 .. n /\ n \in Nat /\ n <= MaxPlan
  BY <1>4, PlanBounds
<1>9. Assembled(parts[0]) = SentCalls
  BY <1>5, <1>6, <1>7, <1>8
<1>10. SentCalls \in [1 .. n -> Repertoire]
  BY <1>5, <1>7, <1>8
<1>11. SentCalls \in Seq(Repertoire) /\ Len(SentCalls) = n
  BY <1>8, <1>10
<1>12. Uncut
  BY <1>2 DEF Uncut
<1>13. QED
  BY <1>8, <1>9, <1>11, <1>12

LEMMA SeqParts ==
  ASSUME NEW S, NEW s \in Seq(S)
  PROVE  Len(s) \in Nat /\ s \in [1 .. Len(s) -> S] /\ DOMAIN s = 1 .. Len(s)
OBVIOUS

\* A scripted answer is sent whole.
LEMMA ScriptIs ==
  ASSUME NEW as \in Seq(Repertoire), Len(as) <= MaxPlan, NEW pl, NEW se,
         pl[0] = as, \A i \in Index : se[0][i] = IF i < Len(as) THEN 2 ELSE 0
  PROVE  SentOf(pl, se) = as
<1>1. PICK n \in Nat : n = Len(as) /\ as \in [1 .. n -> Repertoire]
  <2>1. Len(as) \in Nat /\ as \in [1 .. Len(as) -> Repertoire]
    BY SeqParts
  <2>2. QED
    BY <2>1
<1>2. n <= MaxPlan /\ \A i \in Index : se[0][i] = IF i < n THEN 2 ELSE 0
  BY <1>1
<1>3. {i \in Index : se[0][i] = 2} = {i \in Index : i < n}
  BY <1>2
<1>4. {i \in Index : i < n} = 0 .. (n - 1)
  <2>1. MaxPlan \in Nat /\ n \in Nat /\ n <= MaxPlan
    BY <1>2, PlanBounds
  <2>2. QED
    BY <2>1 DEF Index
<1>5. SentOf(pl, se) = [k \in DOMAIN InOrder(0 .. (n - 1)) |-> as[InOrder(0 .. (n - 1))[k] + 1]]
  BY <1>3, <1>4 DEF SentOf
<1>6. InOrder(0 .. (n - 1)) = [k \in 1 .. n |-> k - 1]
  BY FirstInOrder
<1>7. SentOf(pl, se) = [k \in 1 .. n |-> as[(k - 1) + 1]]
  BY <1>5, <1>6
<1>8. \A k \in 1 .. n : (k - 1) + 1 = k
  OBVIOUS
<1>9. as = [k \in 1 .. n |-> as[k]]
  BY <1>1
<1>10. QED
  BY <1>7, <1>8, <1>9

LEMMA SeqOfIs ==
  ASSUME NEW S, NEW n \in Nat, NEW s \in SeqOf(S, n)
  PROVE  s \in Seq(S) /\ Len(s) \in Nat /\ Len(s) <= n
<1>1. PICK k \in 0 .. n : s \in [1 .. k -> S]
  BY DEF SeqOf
<1>2. QED
  BY <1>1

LEMMA RolesAre ==
  ASSUME NEW a \in Agent
  PROVE  ExecutorRole(a) \in Tools!ToolRole
BY AgentAssumption DEF AgentRole, ExecutorRole, Tools!ToolRole

\* Calls that may be offered and fit are good.
LEMMA ValidIsGood ==
  ASSUME NEW as, ValidateToolCalls(as)
  PROVE  GoodCalls(as)
BY DEF ValidateToolCalls, GoodCalls, Offered, Tools!Exposed

-----------------------------------------------------------------------------
(***************************************************************************)
(* The steps of the loop.                                                  *)
(***************************************************************************)
LEMMA ReturnKeeps ==
  ASSUME LoopInv, NEW how, Return(how), UNCHANGED streamVars,
         plan' \in [Choice -> Seq(Repertoire)],
         sent' \in [Choice -> [Index -> 0 .. 2]], over' \in BOOLEAN,
         ran = << >> \/ UNCHANGED providerVars
  PROVE  LoopInv'
<1>1. StoreInv'
  BY NewKeeps DEF Return, LoopInv, Tools!NewExecutor
<1>2. LoopTypes'
  BY DEF Return, streamVars, LoopInv, LoopTypes, Places
<1>3. PlaceOfLoop'
  BY LimitTypes DEF Return, PlaceOfLoop
<1>4. Arrived' /\ ConvOK'
  BY DEF Return, Arrived, ConvOK
<1>5. RanOK'
  <2>1. CASE ran = << >>
    BY <2>1 DEF Return, RanOK
  <2>2. CASE UNCHANGED providerVars
    BY <2>2 DEF Return, providerVars, RanOK, LoopInv, SentCalls, Uncut
  <2>3. QED
    BY <2>1, <2>2
<1>6. QED
  BY <1>1, <1>2, <1>3, <1>4, <1>5 DEF LoopInv

LEMMA StoreUnchanged ==
  ASSUME StoreInv, UNCHANGED <<files, role, artifacts, accounted, calls, result>>
  PROVE  StoreInv'
BY DEF StoreInv, StoreTypes, StoreCounts, Tools!RetainedFits

LEMMA InvokeKeeps ==
  ASSUME LoopInv, NEW a \in Agent, Invoke(a)
  PROVE  LoopInv'
<1>1. StoreInv'
  BY StoreUnchanged DEF Invoke, LoopInv
<1>2. LoopTypes'
  BY PlanBounds DEF Invoke, streamVars, providerVars, LoopInv, LoopTypes, Places
<1>3. PlaceOfLoop'
  BY DEF Invoke, LoopInv, PlaceOfLoop
<1>4. Arrived' /\ ConvOK' /\ RanOK'
  BY DEF Invoke, Arrived, ConvOK, RanOK
<1>5. QED
  BY <1>1, <1>2, <1>3, <1>4 DEF LoopInv

LEMMA AskKeeps ==
  ASSUME LoopInv, Ask
  PROVE  LoopInv'
<1>1. StoreInv'
  BY StoreUnchanged DEF Ask, LoopInv
<1>2. LoopTypes'
  <2>1. parts' = [c \in Choice |-> [i \in Index |-> << >>]] /\ << >> \in Seq(Piece)
    BY DEF Ask, NoParts
  <2>2. parts' \in [Choice -> [Index -> Seq(Piece)]]
    BY <2>1
  <2>3. plan' = [c \in Choice |-> << >>] /\ << >> \in Seq(Repertoire)
    BY DEF Ask
  <2>4. plan' \in [Choice -> Seq(Repertoire)]
    BY <2>3
  <2>5. sent' \in [Choice -> [Index -> 0 .. 2]]
    BY DEF Ask
  <2>6. ran' \in Seq(Repertoire)
    BY <2>3 DEF Ask
  <2>7. QED
    BY <2>2, <2>4, <2>5, <2>6 DEF Ask, LoopInv, LoopTypes, Places
<1>3. PlaceOfLoop'
  BY DEF Ask, LoopInv, LoopTypes, PlaceOfLoop
<1>4. Arrived'
  BY DEF Ask, NoParts, Arrived, PiecesOf
<1>5. ConvOK' /\ RanOK'
  BY DEF Ask, LoopInv, ConvOK, RanOK, Lacks, AnsweredBefore
<1>6. QED
  BY <1>1, <1>2, <1>3, <1>4, <1>5 DEF LoopInv

LEMMA AcceptedKeeps ==
  ASSUME LoopInv, Accepted
  PROVE  LoopInv'
<1>1. PICK zero \in SeqOf(Repertoire, MaxPlan), one \in SeqOf(Repertoire, 1) :
        plan' = [c \in Choice |-> IF c = 0 THEN zero ELSE one]
  BY DEF Accepted
<1>2. zero \in Seq(Repertoire) /\ one \in Seq(Repertoire)
  BY SeqOfIs, PlanBounds
<1>3. StoreInv'
  BY StoreUnchanged DEF Accepted, LoopInv
<1>4. LoopTypes'
  BY <1>1, <1>2 DEF Accepted, streamVars, historyVars, LoopInv, LoopTypes, Places
<1>5. PlaceOfLoop'
  BY DEF Accepted, LoopInv, PlaceOfLoop
<1>6. Arrived'
  BY DEF Accepted, streamVars, LoopInv, Arrived, PiecesOf
<1>7. RanOK'
  BY DEF Accepted, historyVars, LoopInv, RanOK
<1>8. ConvOK'
  BY DEF Accepted, LoopInv, ConvOK, Lacks, AnsweredBefore
<1>9. QED
  BY <1>3, <1>4, <1>5, <1>6, <1>7, <1>8 DEF LoopInv

\* Pieces, text and usage arrive.
LEMMA StreamedKeeps ==
  ASSUME LoopInv, pc = "streaming", Streamed,
         parts' \in [Choice -> [Index -> Seq(Piece)]], texts' \subseteq Choice, usage' \in BOOLEAN,
         sent' \in [Choice -> [Index -> 0 .. 2]],
         (\A c \in Choice, i \in Index : PiecesOf(c, i))'
  PROVE  LoopInv'
<1> USE DEF Streamed, loopVars, historyVars
<1>1. StoreInv'
  BY StoreUnchanged DEF LoopInv
<1>2. LoopTypes'
  BY DEF LoopInv, LoopTypes
<1>3. PlaceOfLoop'
  BY DEF LoopInv, PlaceOfLoop
<1>4. Arrived'
  BY DEF Arrived
<1>5. RanOK'
  BY DEF LoopInv, RanOK
<1>6. ConvOK'
  BY DEF LoopInv, ConvOK, Lacks, AnsweredBefore
<1>7. QED
  BY <1>1, <1>2, <1>3, <1>4, <1>5, <1>6 DEF LoopInv

LEMMA ToolDeltaKeeps ==
  ASSUME LoopInv, NEW c \in Choice, NEW i \in Index, ToolDelta(c, i)
  PROVE  LoopInv'
<1> DEFINE piece == [call |-> plan[c][i + 1], part |-> sent[c][i] + 1]
<1>1. /\ pc = "streaming" /\ i < Len(plan[c]) /\ sent[c][i] < 2
      /\ sent' = [sent EXCEPT ![c][i] = @ + 1]
      /\ parts' = [parts EXCEPT ![c][i] = Append(@, piece)]
      /\ UNCHANGED <<texts, usage>> /\ Streamed
  BY DEF ToolDelta, Feed
<1>2. /\ parts \in [Choice -> [Index -> Seq(Piece)]] /\ sent \in [Choice -> [Index -> 0 .. 2]]
      /\ plan[c] \in Seq(Repertoire) /\ i \in Nat /\ UNCHANGED plan
  BY <1>1, IndexFinite DEF LoopInv, LoopTypes, Streamed, Numbers
<1>3. sent[c][i] \in {0, 1}
  <2>1. sent[c][i] \in 0 .. 2
    BY <1>2
  <2>2. QED
    BY <1>1, <2>1
<1>4. piece \in Piece
  <2>0. PICK n \in Nat : n = Len(plan[c])
    BY <1>2
  <2>1. i + 1 \in 1 .. Len(plan[c])
    BY <1>1, <1>2, <2>0
  <2>2. sent[c][i] + 1 \in 1 .. 2
    BY <1>1, <1>3
  <2>3. plan[c][i + 1] \in Repertoire
    BY <1>2, <2>1
  <2>4. QED
    BY <2>2, <2>3 DEF Piece
<1> HIDE DEF piece
<1>5. parts' \in [Choice -> [Index -> Seq(Piece)]]
  BY <1>1, <1>2, <1>4
<1>6. sent' \in [Choice -> [Index -> 0 .. 2]]
  <2>1. sent[c][i] + 1 \in 0 .. 2
    BY <1>3
  <2>2. [sent[c] EXCEPT ![i] = @ + 1] \in [Index -> 0 .. 2]
    BY <1>2, <2>1
  <2>3. sent' = [sent EXCEPT ![c] = [sent[c] EXCEPT ![i] = @ + 1]]
    BY <1>1, <1>2
  <2>4. QED
    BY <1>2, <2>2, <2>3
<1>7. ASSUME NEW d \in Choice, NEW j \in Index
      PROVE  PiecesOf(d, j)'
  <2>0. PiecesOf(d, j)
    BY <1>1 DEF LoopInv, Arrived
  <2>1. CASE d = c /\ j = i
    <3> DEFINE before == parts[c][i]
               s == sent[c][i]
    <3>1. before \in Seq(Piece) /\ s \in Nat /\ Len(before) = s
      BY <1>2, <2>0, <2>1 DEF PiecesOf
    <3>2. parts'[c][i] = Append(before, piece) /\ sent'[c][i] = s + 1
      BY <1>1, <1>2
    <3>3. \A k \in 1 .. s : before[k] = [call |-> plan[c][i + 1], part |-> k]
      BY <2>0, <2>1 DEF PiecesOf
    <3>4. piece = [call |-> plan[c][i + 1], part |-> s + 1]
      BY DEF piece
    <3> HIDE DEF before, s
    <3>5. Len(Append(before, piece)) = s + 1
      BY <1>4, <3>1
    <3>6. \A k \in 1 .. (s + 1) : Append(before, piece)[k] = [call |-> plan[c][i + 1], part |-> k]
      <4> TAKE k \in 1 .. (s + 1)
      <4>1. CASE k = s + 1
        BY <1>4, <3>1, <3>4, <4>1
      <4>2. CASE k # s + 1
        BY <1>4, <3>1, <3>3, <4>2
      <4>3. QED
        BY <4>1, <4>2
    <3>7. QED
      BY <1>1, <1>2, <2>1, <3>2, <3>5, <3>6 DEF PiecesOf
  <2>2. CASE ~(d = c /\ j = i)
    <3>1. parts'[d][j] = parts[d][j] /\ sent'[d][j] = sent[d][j]
      BY <1>1, <1>2, <2>2
    <3>2. QED
      BY <1>2, <2>0, <3>1 DEF PiecesOf
  <2>3. QED
    BY <2>1, <2>2
<1>8. QED
  BY <1>1, <1>5, <1>6, <1>7, StreamedKeeps DEF LoopInv, LoopTypes

LEMMA OtherDeltaKeeps ==
  ASSUME LoopInv, UsageEvent \/ \E c \in Choice : TextDelta(c)
  PROVE  LoopInv'
<1>1. /\ pc = "streaming" /\ Streamed /\ UNCHANGED <<parts, sent, plan>>
      /\ texts' \subseteq Choice /\ usage' \in BOOLEAN
  BY DEF UsageEvent, TextDelta, Streamed, LoopInv, LoopTypes
<1>2. (\A c \in Choice, i \in Index : PiecesOf(c, i))'
  BY <1>1 DEF LoopInv, Arrived, PiecesOf
<1>3. QED
  BY <1>1, <1>2, StreamedKeeps DEF LoopInv, LoopTypes

LEMMA LengthOf ==
  ASSUME NEW S, NEW n \in Nat, NEW s \in [1 .. n -> S]
  PROVE  Len(s) = n
OBVIOUS

\* What follows when an answer is whole, or is not one.
LEMMA TurnKeeps ==
  ASSUME LoopInv, pc \in {"sent", "streaming"}, NEW answer, RunTurn(answer),
         UNCHANGED streamVars,
         plan' \in [Choice -> Seq(Repertoire)],
         sent' \in [Choice -> [Index -> 0 .. 2]], over' \in BOOLEAN,
         answer.class = "ok" =>
           /\ answer.calls \in Seq(Repertoire) /\ Len(answer.calls) <= MaxPlan
           /\ over' /\ Uncut' /\ answer.calls = SentCalls'
  PROVE  LoopInv'
<1>0. ran = << >>
  BY DEF LoopInv, RanOK
<1>1. ASSUME NEW how, Return(how)
      PROVE  LoopInv'
  BY <1>0, <1>1, ReturnKeeps
<1>2. ASSUME answer.class = "ok", ValidateToolCalls(answer.calls), answer.calls # << >>,
             pc' = "tools", todo' = answer.calls,
             IF role = None THEN Tools!NewExecutor(ExecutorRole(agent))
             ELSE UNCHANGED <<role, artifacts, accounted, calls>>,
             conversation' = Append(conversation,
               [kind |-> "assistant",
                ids |-> [k \in DOMAIN answer.calls |-> answer.calls[k].id]]),
             UNCHANGED <<files, result, agent, turn, outcome, historyVars>>
      PROVE  LoopInv'
  <2> DEFINE as == answer.calls
             ids == [k \in DOMAIN as |-> as[k].id]
             m == [kind |-> "assistant", ids |-> ids]
  <2>1. /\ as \in Seq(Repertoire) /\ Len(as) <= MaxPlan
        /\ over' /\ Uncut' /\ as = SentCalls'
    BY <1>2
  <2>2. GoodCalls(as)
    BY <1>2, ValidIsGood
  <2> HIDE DEF as
  <2>3. /\ Len(as) \in Nat /\ as \in [1 .. Len(as) -> Repertoire]
        /\ DOMAIN as = 1 .. Len(as)
    BY <2>1, SeqParts
  <2>4. ids \in [1 .. Len(as) -> {None, "id"}]
    <3>1. \A k \in 1 .. Len(as) : as[k] \in Call
      BY <2>3, RepertoireAssumption
    <3>2. \A call \in Call : call.id \in {None, "id"}
      BY DEF Call
    <3>3. QED
      BY <2>3, <3>1, <3>2
  <2>5. Len(ids) = Len(as)
    <3> HIDE DEF ids
    <3>1. QED
      BY <2>3, <2>4, LengthOf
  <2>6. ids \in SeqOf({None, "id"}, MaxPlan)
    <3>1. Len(as) \in 0 .. MaxPlan
      BY <2>1, <2>3, PlanBounds
    <3> HIDE DEF ids
    <3>2. QED
      BY <2>4, <3>1 DEF SeqOf
  <2> HIDE DEF ids
  <2>7. m \in Message /\ m.kind = "assistant" /\ m.ids = ids
    BY <2>6 DEF Message
  <2> HIDE DEF m
  <2>8. conversation' = Append(conversation, m) /\ conversation \in Seq(Message)
    BY <1>2 DEF m, ids, as, LoopInv, LoopTypes
  <2>9. ExecutorRole(agent) \in Tools!ToolRole
    BY RolesAre DEF LoopInv, LoopTypes
  <2>10. StoreInv'
    <3>1. CASE role = None
      BY <1>2, <2>9, <3>1, NewKeeps DEF LoopInv
    <3>2. CASE role # None
      BY <1>2, <3>2, StoreUnchanged DEF LoopInv
    <3>3. QED
      BY <3>1, <3>2
  <2>11. LoopTypes'
    <3>1. conversation' \in Seq(Message)
      BY <2>7, <2>8
    <3>2. todo' \in Seq(Repertoire)
      BY <1>2, <2>1 DEF as
    <3>3. QED
      BY <1>2, <3>1, <3>2 DEF streamVars, historyVars, LoopInv, LoopTypes, Places
  <2>12. PlaceOfLoop'
    <3>1. calls' <= MaxCalls
      BY <1>2, LimitTypes DEF LoopInv, PlaceOfLoop, Tools!NewExecutor
    <3>2. role' = ExecutorRole(agent)
      BY <1>2 DEF LoopInv, PlaceOfLoop, Tools!NewExecutor
    <3>3. QED
      BY <1>2, <3>1, <3>2 DEF LoopInv, PlaceOfLoop
  <2>13. Arrived'
    BY <1>2 DEF Arrived
  <2>14. RanOK'
    <3>1. ran' = << >> /\ todo' = as
      BY <1>0, <1>2 DEF historyVars, as
    <3>2. ran' \o todo' = as
      BY <2>1, <3>1
    <3>3. GoodCalls(SentCalls)'
      BY <2>1, <2>2 DEF GoodCalls
    <3>4. QED
      BY <1>2, <2>1, <3>1, <3>2, <3>3 DEF RanOK
  <2>15. ConvOK'
    <3>1. conversation = << >> \/ Lacks(conversation, 0)
      BY DEF LoopInv, ConvOK
    <3>2. Lacks(Append(conversation, m), Len(m.ids))
      BY <2>7, <2>8, <3>1, AnswerLacks
    <3>3. Lacks(conversation', Len(as))
      BY <2>5, <2>7, <2>8, <3>2
    <3>4. Lacks(conversation, Len(todo))'
      BY <1>2, <3>3 DEF as, Lacks, AnsweredBefore
    <3>5. QED
      BY <1>2, <3>4 DEF ConvOK
  <2>16. QED
    BY <2>10, <2>11, <2>12, <2>13, <2>14, <2>15 DEF LoopInv
<1>3. CASE answer.class # "ok"
  BY <1>1, <1>3 DEF RunTurn
<1>4. CASE answer.class = "ok" /\ ~ValidateToolCalls(answer.calls)
  BY <1>1, <1>4 DEF RunTurn
<1>5. CASE answer.class = "ok" /\ ValidateToolCalls(answer.calls)
  BY <1>1, <1>2, <1>5 DEF RunTurn
<1>6. QED
  BY <1>3, <1>4, <1>5

LEMMA StreamEndsKeeps ==
  ASSUME LoopInv, StreamEnds
  PROVE  LoopInv'
<1>0. /\ plan \in [Choice -> Seq(Repertoire)] /\ over \in BOOLEAN
      /\ sent \in [Choice -> [Index -> 0 .. 2]]
      /\ ran \in Seq(Repertoire)
  BY DEF LoopInv, LoopTypes
<1>1. ASSUME NEW how, Return(how), UNCHANGED <<streamVars, providerVars>>
      PROVE  LoopInv'
  BY <1>0, <1>1, ReturnKeeps DEF providerVars
<1>2. CASE Done
  <2>1. /\ pc = "streaming" /\ over' = TRUE /\ RunTurn(Finish(TRUE))
        /\ UNCHANGED <<streamVars, plan, sent>>
    BY <1>2 DEF Done
  <2>2. ASSUME Finish(TRUE).class = "ok"
        PROVE  /\ Finish(TRUE).calls \in Seq(Repertoire) /\ Len(Finish(TRUE).calls) <= MaxPlan
               /\ over' /\ Uncut' /\ Finish(TRUE).calls = SentCalls'
    <3>1. /\ \A i \in Index : parts[0][i] # << >> => Whole(parts[0][i])
          /\ Finish(TRUE).calls = Assembled(parts[0])
      BY <2>2 DEF Finish, Stopped
    <3>2. \A i \in Index : PiecesOf(0, i)
      BY <2>1 DEF LoopInv, Arrived, Choice
    <3>3. /\ Assembled(parts[0]) = SentCalls
          /\ Assembled(parts[0]) \in Seq(Repertoire)
          /\ Len(Assembled(parts[0])) <= MaxPlan
          /\ Uncut
      BY <3>1, <3>2, AssembledIs DEF LoopInv
    <3>4. SentCalls' = SentCalls /\ (Uncut' <=> Uncut)
      BY <2>1 DEF SentCalls, Uncut
    <3>5. QED
      BY <2>1, <3>1, <3>3, <3>4
  <2> DEFINE answer == Finish(TRUE)
  <2>3. RunTurn(answer) /\ over' \in BOOLEAN /\ UNCHANGED streamVars /\ pc \in {"sent", "streaming"}
    BY <2>1
  <2>4. plan' \in [Choice -> Seq(Repertoire)] /\ sent' \in [Choice -> [Index -> 0 .. 2]]
    BY <1>0, <2>1
  <2>5. answer.class = "ok" =>
          /\ answer.calls \in Seq(Repertoire) /\ Len(answer.calls) <= MaxPlan
          /\ over' /\ Uncut' /\ answer.calls = SentCalls'
    BY <2>2
  <2> HIDE DEF answer
  <2>6. QED
    BY <2>3, <2>4, <2>5, TurnKeeps
<1>3. CASE Eof
  <2>1. RunTurn(Ambiguous("eof")) /\ UNCHANGED <<streamVars, providerVars>>
    BY <1>3 DEF Eof, Finish
  <2>2. Return(Ambiguous("eof"))
    BY <2>1 DEF RunTurn, Ambiguous
  <2>3. QED
    BY <1>1, <2>1, <2>2
<1>4. CASE Scripted
  <2>1. CASE \E how : Return(how) /\ UNCHANGED <<streamVars, providerVars>>
    BY <1>1, <2>1
  <2>2. ASSUME NEW as \in SeqOf(Repertoire, MaxPlan),
               plan' = [c \in Choice |-> IF c = 0 THEN as ELSE << >>],
               sent' = [c \in Choice |->
                          [i \in Index |-> IF c = 0 /\ i < Len(as) THEN 2 ELSE 0]],
               over' = TRUE, RunTurn([class |-> "ok", calls |-> as]),
               UNCHANGED streamVars, pc = "sent"
        PROVE  LoopInv'
    <3>1. as \in Seq(Repertoire) /\ Len(as) <= MaxPlan
      BY SeqOfIs, PlanBounds
    <3>2. plan' \in [Choice -> Seq(Repertoire)]
      <4>1. << >> \in Seq(Repertoire)
        OBVIOUS
      <4>2. QED
        BY <2>2, <3>1, <4>1
    <3>3. sent' \in [Choice -> [Index -> 0 .. 2]]
      BY <2>2
    <3>4. plan'[0] = as /\ \A i \in Index : sent'[0][i] = IF i < Len(as) THEN 2 ELSE 0
      BY <2>2 DEF Choice
    <3>5. SentOf(plan', sent') = as
      BY <3>1, <3>4, ScriptIs
    <3>6. SentCalls' = as
      BY <3>5 DEF SentCalls, SentOf
    <3>7. Uncut'
      <4>1. \A i \in Index : sent'[0][i] \in {0, 2}
        BY <3>4
      <4>2. QED
        BY <4>1 DEF Uncut
    <3> DEFINE answer == [class |-> "ok", calls |-> as]
    <3>8. /\ RunTurn(answer) /\ answer.calls = as
      BY <2>2
    <3> HIDE DEF answer
    <3>9. pc \in {"sent", "streaming"} /\ over' \in BOOLEAN /\ over'
      BY <2>2
    <3>10. QED
      BY <2>2, <3>1, <3>2, <3>3, <3>6, <3>7, <3>8, <3>9, TurnKeeps
  <2>3. QED
    BY <1>4, <2>1, <2>2 DEF Scripted
<1>5. CASE SendFails \/ HttpError \/ StreamBreaks
           \/ \E why \in {"error event", "malformed"} : BadEvent(why)
  BY <1>1, <1>5 DEF SendFails, HttpError, StreamBreaks, BadEvent
<1>6. QED
  BY <1>2, <1>3, <1>4, <1>5 DEF StreamEnds

\* What a good call asks of the executor.
LEMMA FromGood ==
  ASSUME NEW call \in Repertoire, Convertible(call)
  PROVE  FromCall(call) \in Tools!Request /\ FromCall(call).tool # "edit_candidate"
<1>1. CASE call.name \in {"read_file", "import"}
  BY <1>1 DEF Convertible, Fits, FromCall, Tools!Request
<1>2. CASE call.name = "search_files"
  BY <1>2 DEF Convertible, Fits, FromCall, Tools!Request
<1>3. CASE call.name = "git"
  BY <1>3 DEF Convertible, Fits, FromCall, Tools!Request
<1>4. CASE call.name = "diff"
  BY <1>4 DEF Convertible, Fits, FromCall, Tools!Request
<1>5. QED
  BY <1>1, <1>2, <1>3, <1>4 DEF Convertible

LEMMA SplitHead ==
  ASSUME NEW S, NEW r \in Seq(S), NEW t \in Seq(S), t # << >>
  PROVE  /\ Head(t) \in S /\ Tail(t) \in Seq(S)
         /\ Append(r, Head(t)) \in Seq(S)
         /\ Append(r, Head(t)) \o Tail(t) = r \o t
         /\ Len(t) = Len(Tail(t)) + 1 /\ Len(Tail(t)) \in Nat
         /\ Len(r) + Len(t) = Len(r \o t) /\ Len(r) < Len(r \o t) /\ Len(r) \in Nat
         /\ Len(r \o t) \in Nat
OBVIOUS

LEMMA PrefixOf ==
  ASSUME NEW S, NEW r \in Seq(S), NEW t \in Seq(S)
  PROVE  IsPrefix(r, r \o t)
BY DEF IsPrefix

LEMMA BelowPlan ==
  ASSUME NEW k \in Nat, NEW n, k < n, n <= MaxPlan, n \in Nat
  PROVE  k \in Index
BY PlanBounds DEF Index

LEMMA RunCallKeeps ==
  ASSUME LoopInv, RunCall
  PROVE  LoopInv'
<1> DEFINE call == Head(todo)
<1>1. /\ pc = "tools" /\ todo # << >> /\ todo \in Seq(Repertoire)
      /\ ran \in Seq(Repertoire) /\ ran \o todo = SentCalls
      /\ over /\ Uncut /\ GoodCalls(SentCalls) /\ Len(SentCalls) <= MaxPlan
      /\ calls <= MaxCalls /\ turn \in 0 .. MaxTurns /\ turn < MaxTurns
      /\ conversation \in Seq(Message) /\ Lacks(conversation, Len(todo))
      /\ role = ExecutorRole(agent)
      /\ UNCHANGED <<streamVars, providerVars>>
  BY DEF RunCall, LoopInv, LoopTypes, PlaceOfLoop, RanOK, ConvOK
<1>2. CASE Return(Stopped("tool"))
  BY <1>1, <1>2, ReturnKeeps DEF providerVars, LoopInv, LoopTypes
<1>3. ASSUME Convertible(call), Tools!Execute(FromCall(call)), ran' = Append(ran, call),
             IF ~result'.ok
             THEN pc' = "failed" /\ UNCHANGED <<todo, conversation, turn>>
             ELSE /\ conversation' = PushResult(conversation, call)
                  /\ todo' = Tail(todo)
                  /\ IF Tail(todo) = << >> THEN turn' = turn + 1 /\ pc' = "ask"
                     ELSE UNCHANGED <<turn, pc>>,
             UNCHANGED <<agent, outcome, invocations>>
      PROVE  LoopInv'
  <2>1. /\ call \in Repertoire /\ Tail(todo) \in Seq(Repertoire)
        /\ ran' \in Seq(Repertoire) /\ ran' \o Tail(todo) = SentCalls
        /\ Len(todo) = Len(Tail(todo)) + 1 /\ Len(Tail(todo)) \in Nat
        /\ Len(ran) < Len(SentCalls) /\ Len(ran) \in Nat /\ Len(SentCalls) \in Nat
    <3>1. Append(ran, Head(todo)) \o Tail(todo) = ran \o todo
      BY <1>1, SplitHead
    <3>2. QED
      BY <1>1, <1>3, <3>1, SplitHead
  <2> HIDE DEF call
  <2>2. /\ StoreInv' /\ UNCHANGED role /\ (result'.ok => calls' <= MaxCalls)
    <3>1. FromCall(call) \in Tools!Request
      BY <1>3, <2>1, FromGood
    <3>2. QED
      BY <1>1, <1>3, <3>1, ExecuteKeeps DEF LoopInv
  <2>3. /\ SentCalls' = SentCalls /\ (Uncut' <=> Uncut) /\ over' = over
    BY <1>1 DEF providerVars, SentCalls, Uncut
  <2>4. IsPrefix(ran', SentCalls)
    <3>1. IsPrefix(ran', ran' \o Tail(todo))
      BY <2>1, PrefixOf
    <3>2. QED
      BY <2>1, <3>1
  <2>5. GoodCalls(SentCalls)'
    BY <1>1, <2>3 DEF GoodCalls
  <2>6. /\ plan' \in [Choice -> Seq(Repertoire)] /\ sent' \in [Choice -> [Index -> 0 .. 2]]
        /\ parts' \in [Choice -> [Index -> Seq(Piece)]]
        /\ texts' \subseteq Choice /\ usage' \in BOOLEAN /\ over' \in BOOLEAN
        /\ agent' \in Agent /\ invocations' \in 0 .. MaxInvocations
    BY <1>1, <1>3 DEF streamVars, providerVars, LoopInv, LoopTypes
  <2>7. CASE ~result'.ok
    <3>1. pc' = "failed" /\ UNCHANGED <<todo, conversation, turn>>
      BY <1>3, <2>7
    <3>2. LoopTypes'
      BY <1>1, <2>1, <2>6, <3>1 DEF LoopTypes, Places
    <3>3. PlaceOfLoop'
      BY <1>1, <1>3, <2>2, <3>1 DEF PlaceOfLoop
    <3>4. Arrived' /\ ConvOK'
      BY <3>1 DEF Arrived, ConvOK
    <3>5. RanOK'
      BY <1>1, <2>3, <2>4, <2>5, <3>1 DEF RanOK
    <3>6. QED
      BY <2>2, <3>2, <3>3, <3>4, <3>5 DEF LoopInv
  <2>8. CASE result'.ok
    <3> DEFINE m == [kind |-> "tool", id |-> CallId(call, Len(ran))]
    <3>1. conversation' = Append(conversation, m) /\ todo' = Tail(todo)
      BY <1>3, <2>8 DEF PushResult
    <3>2. Len(ran) \in Index
      BY <1>1, <2>1, BelowPlan
    <3>3. m \in Message /\ m.kind = "tool"
      <4>1. call.id \in {None, "id"}
        BY <2>1, RepertoireAssumption DEF Call
      <4>2. CallId(call, Len(ran)) \in {"id"} \cup ({"phemius-call"} \X (0 .. MaxTurns) \X Index)
        BY <1>1, <3>2, <4>1 DEF CallId
      <4> HIDE DEF Message
      <4>3. QED
        BY <4>2 DEF Message
    <3> HIDE DEF m
    <3>4. conversation' \in Seq(Message)
      BY <1>1, <3>1, <3>3
    <3>5. Lacks(conversation', Len(todo'))
      BY <1>1, <2>1, <3>1, <3>3, ResultFills
    <3>6. Lacks(conversation, Len(todo))'
      BY <3>5 DEF Lacks, AnsweredBefore
    <3>7. turn' \in 0 .. MaxTurns /\ pc' \in {"tools", "ask"}
      BY <1>1, <1>3, <2>8, PlanBounds
    <3>8. /\ pc' = "tools" => todo' # << >> /\ turn' = turn
          /\ pc' = "ask" => todo' = << >>
      BY <1>1, <1>3, <2>8
    <3>9. LoopTypes'
      BY <2>1, <2>6, <3>1, <3>4, <3>7 DEF LoopTypes, Places
    <3>10. PlaceOfLoop'
      BY <1>1, <1>3, <2>2, <2>8, <3>7, <3>8 DEF PlaceOfLoop
    <3>11. Arrived'
      BY <3>7 DEF Arrived
    <3>12. RanOK'
      BY <1>1, <2>1, <2>3, <2>4, <2>5, <3>1, <3>7 DEF RanOK
    <3>13. ConvOK'
      <4>1. CASE pc' = "tools"
        BY <3>6, <4>1 DEF ConvOK
      <4>2. CASE pc' = "ask"
        <5>1. Len(todo') = 0
          BY <3>8, <4>2
        <5>2. Lacks(conversation', 0)
          BY <3>5, <5>1
        <5>3. QED
          BY <4>2, <5>2 DEF ConvOK, Lacks, AnsweredBefore
      <4>3. QED
        BY <3>7, <4>1, <4>2
    <3>14. QED
      BY <2>2, <3>9, <3>10, <3>11, <3>12, <3>13 DEF LoopInv
  <2>9. QED
    BY <2>7, <2>8
<1>4. QED
  BY <1>2, <1>3 DEF RunCall

LEMMA LoopStarts ==
  ASSUME Init
  PROVE  LoopInv /\ ExecutorInv
<1> USE DEF Init
<1>1. /\ files \in [Path \ Unsafe -> Tools!File] /\ result = None
      /\ role = None /\ artifacts = Tools!NoArtifacts /\ accounted = 0 /\ calls = 0
      /\ DOMAIN artifacts = {}
  BY DEF Tools!NoExecutor, Tools!NoArtifacts
<1>2. StoreInv
  BY <1>1, NoneKeeps DEF Tools!NoExecutor
<1>3. ExecutorInv
  BY <1>1, <1>2, NoneAssumption DEF ExecutorInv, Tools!ResultIsRetained
<1>4. LoopTypes
  <2>1. << >> \in Seq(Piece) /\ << >> \in Seq(Repertoire) /\ << >> \in Seq(Message)
    OBVIOUS
  <2>2. parts \in [Choice -> [Index -> Seq(Piece)]]
    BY <2>1 DEF NoParts
  <2>3. plan \in [Choice -> Seq(Repertoire)]
    BY <2>1
  <2>4. sent \in [Choice -> [Index -> 0 .. 2]]
    OBVIOUS
  <2>5. 0 \in 0 .. MaxTurns /\ 0 \in 0 .. MaxInvocations
    BY PlanBounds
  <2>6. texts \subseteq Choice /\ usage \in BOOLEAN /\ over \in BOOLEAN
    OBVIOUS
  <2>7. pc \in Places /\ agent \in Agent /\ turn = 0 /\ invocations = 0
    BY DEF Places
  <2>8. todo \in Seq(Repertoire) /\ ran \in Seq(Repertoire) /\ conversation \in Seq(Message)
    BY <2>1
  <2>9. QED
    BY <2>2, <2>3, <2>4, <2>5, <2>6, <2>7, <2>8 DEF LoopTypes
<1>5. PlaceOfLoop
  BY <1>1, LimitTypes DEF PlaceOfLoop
<1>6. Arrived /\ RanOK /\ ConvOK
  BY DEF Arrived, RanOK, ConvOK
<1>7. QED
  BY <1>2, <1>3, <1>4, <1>5, <1>6 DEF LoopInv

LEMMA LoopNext ==
  ASSUME LoopInv, Next
  PROVE  LoopInv'
<1>1. CASE AskRefused \/ TooManyTurns \/ ToolFailed
  BY <1>1, ReturnKeeps DEF AskRefused, TooManyTurns, ToolFailed, providerVars, LoopInv, LoopTypes
<1>2. CASE Stream
  BY <1>2, ToolDeltaKeeps, OtherDeltaKeeps, AcceptedKeeps DEF Stream
<1>3. ASSUME NEW p \in DOMAIN files, Outside(p)
      PROVE  LoopInv'
  <2>1. Tools!Outside(p) /\ UNCHANGED <<streamVars, providerVars, loopVars, historyVars, role, calls>>
    BY <1>3 DEF Outside, Tools!Outside
  <2>2. StoreInv'
    BY <2>1, OutsideKeeps DEF LoopInv
  <2> USE DEF streamVars, providerVars, loopVars, historyVars
  <2>3. LoopTypes'
    BY <2>1 DEF LoopInv, LoopTypes
  <2>4. PlaceOfLoop'
    BY <2>1 DEF LoopInv, PlaceOfLoop
  <2>5. Arrived'
    BY <2>1 DEF LoopInv, Arrived, PiecesOf
  <2>6. RanOK'
    BY <2>1 DEF LoopInv, RanOK, SentCalls, Uncut
  <2>7. ConvOK'
    BY <2>1 DEF LoopInv, ConvOK, Lacks, AnsweredBefore
  <2>8. QED
    BY <2>2, <2>3, <2>4, <2>5, <2>6, <2>7 DEF LoopInv
<1>4. QED
  BY <1>1, <1>2, <1>3, InvokeKeeps, AskKeeps, StreamEndsKeeps, RunCallKeeps DEF Next

LEMMA LoopRests ==
  ASSUME LoopInv, UNCHANGED vars
  PROVE  LoopInv'
<1> USE DEF vars, streamVars, providerVars, loopVars, historyVars
<1>1. StoreInv'
  BY StoreUnchanged DEF LoopInv
<1>2. LoopTypes'
  BY DEF LoopInv, LoopTypes
<1>3. PlaceOfLoop'
  BY DEF LoopInv, PlaceOfLoop
<1>4. Arrived'
  BY DEF LoopInv, Arrived, PiecesOf
<1>5. RanOK'
  BY DEF LoopInv, RanOK, SentCalls, Uncut
<1>6. ConvOK'
  BY DEF LoopInv, ConvOK, Lacks, AnsweredBefore
<1>7. QED
  BY <1>1, <1>2, <1>3, <1>4, <1>5, <1>6 DEF LoopInv

LEMMA ExecutorRests ==
  ASSUME ExecutorInv, UNCHANGED vars
  PROVE  ExecutorInv'
<1>1. UNCHANGED <<files, role, artifacts, accounted, calls, result>>
  BY DEF vars
<1>2. StoreInv'
  BY <1>1, StoreUnchanged DEF ExecutorInv
<1>3. QED
  BY <1>1, <1>2 DEF ExecutorInv, Tools!ResultIsRetained

LEMMA CallsAreTyped ==
  ASSUME LoopInv
  PROVE  TypeOK
<1>1. Tools!TypeOK
  BY StoreIsTyped DEF LoopInv
<1>2. QED
  BY <1>1 DEF LoopInv, LoopTypes, PlaceOfLoop, Places, TypeOK

LEMMA RunsGoodCalls ==
  ASSUME LoopInv
  PROVE  RunsWhatWasSent /\ AllOrNone
BY DEF LoopInv, RanOK, Uncut, GoodCalls, RunsWhatWasSent, AllOrNone

LEMMA AsksClosed ==
  ASSUME LoopInv
  PROVE  ConversationIsClosed
<1>1. CASE pc \in {"sent", "streaming"}
  <2>1. conversation \in Seq(Message) /\ (conversation = << >> \/ Lacks(conversation, 0))
    BY <1>1 DEF LoopInv, LoopTypes, ConvOK
  <2>2. QED
    BY <2>1, FilledIsClosed
<1>2. CASE pc \notin {"sent", "streaming"}
  BY <1>2 DEF ConversationIsClosed
<1>3. QED
  BY <1>1, <1>2

\* The loop by itself: whatever the provider sends, in whatever order, and
\* however often the loop is invoked, it runs what was sent whole and asks
\* with a closed conversation (workflow.rs:2206-2340).
THEOREM LoopIsSound ==
  Spec => [](TypeOK /\ RunsWhatWasSent /\ AllOrNone /\ ConversationIsClosed)
<1>1. Init => LoopInv
  BY LoopStarts
<1>2. LoopInv /\ [Next]_vars => LoopInv'
  BY LoopNext, LoopRests
<1>3. LoopInv => TypeOK /\ RunsWhatWasSent /\ AllOrNone /\ ConversationIsClosed
  BY CallsAreTyped, RunsGoodCalls, AsksClosed
<1>4. QED
  BY <1>1, <1>2, <1>3, PTL DEF Spec

-----------------------------------------------------------------------------
(***************************************************************************)
(* The kinds of behaviour together.                                        *)
(***************************************************************************)
\* An executor by itself leaves the loop at rest.
CallInv ==
  /\ kind # "artifacts" => LoopInv
  /\ kind = "artifacts" => ExecutorInv /\ pc = "idle" /\ ran = << >>

LEMMA CallStarts == KindInit => CallInv
BY LoopStarts DEF KindInit, CallInv, Init

LEMMA CallNext ==
  ASSUME CallInv, [KindNext]_<<kind, vars, gitVars, shellVars, chapterVars, approvalVars>>
  PROVE  CallInv'
<1>1. ASSUME UNCHANGED <<kind, vars>>
      PROVE  CallInv'
  <2>1. UNCHANGED kind /\ UNCHANGED vars /\ UNCHANGED <<pc, ran>>
    BY <1>1 DEF vars, loopVars, historyVars
  <2>2. CASE kind # "artifacts"
    BY <2>1, <2>2, LoopRests DEF CallInv
  <2>3. CASE kind = "artifacts"
    BY <2>1, <2>3, ExecutorRests DEF CallInv
  <2>4. QED
    BY <2>2, <2>3
<1>2. CASE LoopStep
  BY <1>2, LoopNext DEF LoopStep, CallInv
<1>3. CASE ExecutorStep
  BY <1>3, ExecutorNext DEF ExecutorStep, CallInv, loopVars, historyVars
<1>4. QED
  BY <1>1, <1>2, <1>3 DEF KindNext, GitStep, ShellStep, WritingStep, ApplyingStep

\* The calls that run are all of one complete answer, as it was sent, and good
\* ones, whatever order the pieces arrive in and wherever the stream ends
\* (openrouter.rs:156-169, 310-439, model.rs:224-240).
THEOREM OnlyWhole == KindSpec => []OnlyWhatWasSent
<1>1. CallInv => OnlyWhatWasSent
  <2> SUFFICES ASSUME CallInv PROVE OnlyWhatWasSent
    OBVIOUS
  <2>1. CASE kind = "artifacts"
    BY <2>1 DEF CallInv, OnlyWhatWasSent, RunsWhatWasSent, AllOrNone
  <2>2. CASE kind # "artifacts"
    <3>1. TypeOK /\ RunsWhatWasSent /\ AllOrNone
      BY <2>2, CallsAreTyped, RunsGoodCalls DEF CallInv
    <3>2. QED
      BY <2>2, <3>1 DEF OnlyWhatWasSent
  <2>3. QED
    BY <2>1, <2>2
<1>2. QED
  BY <1>1, CallStarts, CallNext, PTL DEF KindSpec

\* Every call of an assistant message has one result, and nothing comes
\* between them, in every request of an invocation (workflow.rs:2311-2337).
THEOREM ClosedConversation == KindSpec => []ConversationIsClosed
<1>1. CallInv => ConversationIsClosed
  <2> SUFFICES ASSUME CallInv PROVE ConversationIsClosed
    OBVIOUS
  <2>1. CASE kind = "artifacts"
    BY <2>1 DEF CallInv, ConversationIsClosed
  <2>2. CASE kind # "artifacts"
    BY <2>2, AsksClosed DEF CallInv
  <2>3. QED
    BY <2>1, <2>2
<1>2. QED
  BY <1>1, CallStarts, CallNext, PTL DEF KindSpec

\* What the executor keeps fits the limit of its session, every hash it answers
\* with is that of bytes it kept, and of a text that is not marked as truncated
\* it shows every byte (tools.rs:592-714).
THEOREM KeepsResults == KindSpec => []ResultsAreKept
<1>1. CallInv => ResultsAreKept
  BY StoreIsTyped DEF CallInv, ExecutorInv, StoreInv, StoreCounts, ResultsAreKept
<1>2. QED
  BY <1>1, CallStarts, CallNext, PTL DEF KindSpec
=============================================================================
