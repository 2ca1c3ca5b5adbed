------------------------------- MODULE MCCalls -------------------------------
(***************************************************************************)
(* The calls of the program that must return, one kind of behaviour at a   *)
(* time: the tool loop over good calls ("reads"), one turn of it over good *)
(* and bad ones ("mixed"), the executor called in any order ("artifacts"), *)
(* a git query ("git"), a shell command ("shell"), the chapter a `/write`  *)
(* writes ("writing"), and the approvals two processes apply ("applying"). *)
(* What a kind is not about is at rest.                                    *)
(***************************************************************************)
EXTENDS ToolLoop, TLC

CONSTANTS letter, opens, ends,                       \* bytes
          OutLimit, ErrLimit, Capacity, MaxWritten,  \* of GitQuery
          Group, Leader, OutputLimit, MaxShell,      \* of ShellProcess
          c1, t1, t2, m1, k1, k2, k3, k4,             \* of ChapterLifecycle
          Process, f1, f2, b1, b2, Absent            \* of ApprovalJournal

VARIABLES
  kind,
  gitWritten, left, writing, child, gitReaped, gitPipe, reader, gitGot,
  overflow, caller,
  alive, born, holds, stubborn, pipe, written, shellPc, open, got, reaped,
  status, late, shellResult,
  mem, saved, session, attached, step, work, queue, chain, file, drafts,
  reviewed, unresolved, rejected,
  live, record, cand, phase, tmp, marker, unsynced, staged, old, proof, dep,
  draft, lock, applyPc, cur, link, applyTodo, target, acked, edits

Git == INSTANCE GitQuery
         WITH written <- gitWritten, reaped <- gitReaped, pipe <- gitPipe,
              got <- gitGot

Sh == INSTANCE ShellProcess
        WITH Process <- Group, pc <- shellPc, result <- shellResult,
             MaxWritten <- MaxShell

\* Four critics in two batches, and as many revisions as the run allows.
Writing ==
  INSTANCE ChapterLifecycle
    WITH Chapter <- {c1}, Text <- {t1, t2}, Message <- {m1},
         Critic <- {k1, k2, k3, k4}, BatchSize <- 3, MaxRevisions <- 2,
         MaxDrafts <- 1, RunLengths <- {1}, Calls <- {}, Restarts <- FALSE,
         pc <- step, open <- unresolved

\* One file to replace or delete, one to create.
Seed == (f1 :> b1) @@ (f2 :> Absent)

Plans == {(f1 :> b2) @@ (f2 :> b1), (f1 :> Absent) @@ (f2 :> b1),
          (f1 :> b1) @@ (f2 :> b1), Seed}

Applying ==
  INSTANCE ApprovalJournal
    WITH Change <- {c1}, File <- {f1, f2}, Content <- {b1, b2}, MaxOrder <- 2,
         MaxEdits <- 1, EditorWaits <- FALSE,
         Faults <- {"crash", "power", "io", "marker"},
         pc <- applyPc, todo <- applyTodo, file <- target

chapterVars == <<mem, saved, session, attached, step, work, queue, chain, file,
                 drafts, reviewed, unresolved, rejected>>
approvalVars == <<live, record, cand, phase, tmp, marker, unsynced, staged, old,
                  proof, dep, draft, lock, applyPc, cur, link, applyTodo,
                  target, acked, edits>>
gitVars == <<gitWritten, left, writing, child, gitReaped, gitPipe, reader,
             gitGot, overflow, caller>>
shellVars == <<alive, born, holds, stubborn, pipe, written, shellPc, open, got,
               reaped, status, late, shellResult>>

ASSUME GitAssumption == Git!Limits
ASSUME ShellAssumption == Sh!Limits

\* The calls a provider may make.
Good == {[id |-> "id", name |-> "read_file", arg |-> "draft.md"],
         [id |-> None, name |-> "diff", arg |-> None]}
Read == [id |-> "id", name |-> "read_file", arg |-> "draft.md"]
BadRead == [id |-> "id", name |-> "read_file", arg |-> "wrong"]
Shell == [id |-> "id", name |-> "shell", arg |-> "draft.md"]
Calls == Good \cup {BadRead, Shell}

Kinds == {"reads", "mixed", "artifacts", "git", "shell", "writing", "applying"}

\* What the executor keeps and reads: a character of one byte and one of two,
\* and ends of it that are no text.
Sample == {<<>>, <<letter>>, <<opens>>, <<ends>>, <<opens, ends>>,
           <<letter, opens, ends>>}

\* A role that may change and run things, and one that only reads.
Opened == {"author", "fact_critic"}

\* The texts of a loop are short, and plain.
PlainText(bytes) == Range(bytes) \subseteq Tools!Plain
Short(read) == Len(read.bytes) <= 1 /\ PlainText(read.bytes)

(***************************************************************************)
(* The steps of a kind.  The files of a loop are short, and its texts      *)
(* plain.  That of good calls has one choice in its answers; the mixed one *)
(* does not ask again, and its files stay as they are.                     *)
(***************************************************************************)
Within ==
  /\ \A p \in DOMAIN files : Short(files'[p])
  /\ \A b \in DOMAIN artifacts' : PlainText(b)
  /\ IF kind = "reads"
       THEN /\ Range(plan'[0]) \subseteq Good /\ plan'[1] = <<>>
            /\ 1 \notin texts'
       ELSE /\ \A c \in Choice : Range(plan'[c]) \subseteq {Read, BadRead, Shell}
            /\ pc' = "sent" => turn' = 0
            /\ files' = files

LoopStep ==
  /\ kind \in {"reads", "mixed"}
  /\ Next /\ Within
  /\ UNCHANGED <<kind, gitVars, shellVars, chapterVars, approvalVars>>

ExecutorStep ==
  /\ kind = "artifacts"
  /\ Tools!Next
  /\ \A p \in DOMAIN files : files'[p].bytes \in Sample
  /\ DOMAIN artifacts' \subseteq Sample
  /\ role' \in Opened \cup {None}
  /\ UNCHANGED <<kind, streamVars, providerVars, loopVars, historyVars,
                 gitVars, shellVars, chapterVars, approvalVars>>

GitStep ==
  /\ kind = "git"
  /\ Git!Next
  /\ UNCHANGED <<kind, vars, shellVars, chapterVars, approvalVars>>

ShellStep ==
  /\ kind = "shell"
  /\ Sh!Next
  /\ UNCHANGED <<kind, vars, gitVars, chapterVars, approvalVars>>

WritingStep ==
  /\ kind = "writing"
  /\ Writing!Next
  /\ UNCHANGED <<kind, vars, gitVars, shellVars, approvalVars>>

ApplyingStep ==
  /\ kind = "applying"
  /\ Applying!Next
  /\ UNCHANGED <<kind, vars, gitVars, shellVars, chapterVars>>

KindInit ==
  /\ kind \in Kinds
  /\ Init
  /\ \/ kind = "artifacts" /\ \A p \in DOMAIN files : files[p].bytes \in Sample
     \/ kind \in {"reads", "mixed"} /\ \A p \in DOMAIN files : Short(files[p])
     \/ \A p \in DOMAIN files : files[p].kind = "absent"
  /\ Git!Init
  /\ kind = "git" \/ gitWritten = [s \in Git!Stream |-> 0]
  /\ Sh!Init
  /\ kind = "shell" \/ stubborn = {}
  /\ Writing!Init /\ Applying!Init

KindNext ==
  \/ LoopStep \/ ExecutorStep \/ GitStep \/ ShellStep
  \/ WritingStep \/ ApplyingStep

KindSpec ==
  /\ KindInit /\ [][KindNext]_<<kind, vars, gitVars, shellVars, chapterVars, approvalVars>>
  /\ Fairness
  /\ WF_gitVars(kind = "git" /\ Git!Child)
  /\ \A s \in Git!Stream : WF_gitVars(kind = "git" /\ Git!Reader(s))
  /\ WF_gitVars(kind = "git" /\ Git!Caller)
  /\ WF_shellVars(kind = "shell" /\ Sh!Deadline)
  /\ WF_shellVars(kind = "shell" /\ Sh!Polled)
  /\ WF_chapterVars(kind = "writing" /\ (Writing!Step \/ Writing!WriteFails))
  /\ \A p \in Process : WF_approvalVars(kind = "applying" /\ Applying!ApplyStep(p))

(***************************************************************************)
(* What the calls promise.                                                 *)
(***************************************************************************)
\* The calls that run are those of a complete answer, put together as they
\* were sent, and all of them are good ones (openrouter.rs:330-456,
\* model.rs:201-300).
OnlyWhatWasSent ==
  /\ kind # "artifacts" => TypeOK
  /\ RunsWhatWasSent
  /\ AllOrNone

\* What the executor keeps fits its limit, every hash it answers with is that
\* of bytes it kept, and of a text that is not marked as truncated it shows
\* every byte (tools.rs:592-714).
ResultsAreKept ==
  kind = "artifacts" =>
    Tools!TypeOK /\ Tools!RetainedFits /\ Tools!ResultIsRetained

\* A git query that succeeds has all of what git wrote, however the threads,
\* the exit of the process and the limits fell (tools.rs:496-539, 716-738).
QueryIsWhole == Git!TypeOK /\ Git!OkIsWhole

\* A shell command that succeeds has all of what was written, and nothing it
\* started runs on after a limit or a cancellation that came before its
\* leader was waited for (sandbox.rs:384-442, 461-474).
CommandIsWhole == Sh!TypeOK /\ Sh!OutcomeIsWhole /\ Sh!NoneLeftRunning

\* Each call ends: an invocation, whatever its provider sends or withholds
\* (workflow.rs:2206-2340); a git query (tools.rs:510-532); a shell command
\* (sandbox.rs:384-442); a `/write`, whatever its models answer, its critics
\* object to and its reviser gives back (workflow.rs:1676-2095); and apply
\* gives the writer lock back, whatever fails and however the canon is edited
\* meanwhile (journal.rs:134-168).
CallsEnd ==
  /\ InvocationEnds
  /\ kind = "git" => Git!Returns
  /\ kind = "shell" => Sh!Returns
  /\ Writing!WriteEnds
  /\ Applying!LockReleased
=============================================================================
