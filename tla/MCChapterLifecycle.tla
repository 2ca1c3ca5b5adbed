------------------------- MODULE MCChapterLifecycle -------------------------
(***************************************************************************)
(* Instances of ChapterLifecycle for TLC.  What is done to the controller  *)
(* in one behaviour is one of a few kinds, so that each is explored with   *)
(* as many chapters, texts and objecting critics as it needs.              *)
(***************************************************************************)
EXTENDS ChapterLifecycle, TLC

VARIABLE kind   \* [calls, chapters, texts, objecting]: what happens here

\* Two chapters of two texts and two critics, through restarts.
Restarted == [calls |-> {"reject", "compact", "restart"},
              chapters |-> 2, texts |-> 2, objecting |-> 2]

\* One chapter that is edited, compacted and rejected, through restarts.
Edited == [calls |-> {"edit", "compact", "reject", "restart"},
           chapters |-> 1, texts |-> 2, objecting |-> 1]

\* Two chapters, of which the first is edited after the second was written.
Upstream == [calls |-> {"edit", "continuous"},
             chapters |-> 2, texts |-> 1, objecting |-> 1]

\* The same with corrections of the human, and critics that find nothing.
Corrected == [calls |-> {"edit", "correct", "continuous"},
              chapters |-> 2, texts |-> 1, objecting |-> 0]

\* One chapter that is edited, rejected and written again, in one process:
\* what is rejected is forgotten by the next one.
Rejecting == [calls |-> {"edit", "reject"},
              chapters |-> 1, texts |-> 1, objecting |-> 1]

Within(k) ==
  /\ Cardinality(Registered(mem')) <= k.chapters
  /\ Cardinality({file'[d] : d \in Draft} \ {None}) <= k.texts
  /\ Cardinality(work'.failing) <= k.objecting

Call(k) ==
  \/ \E c \in Chapter : "reject" \in k.calls /\ Reject(c)
  \/ \E c \in Chapter, t \in Text : "edit" \in k.calls /\ Edit(c, t)
  \/ \E c \in Chapter : "edit" \in k.calls /\ EditFails(c)
  \/ \E c \in Chapter, o \in RecordOutcome : "correct" \in k.calls /\ Correct(c, o)
  \/ \E o \in RecordOutcome : "compact" \in k.calls /\ Compact(o)
  \/ \E n \in RunLengths : \E ids \in [1..n -> Chapter] :
       "continuous" \in k.calls /\ StartContinuous(ids)
  \/ "restart" \in k.calls /\ (Crash \/ Attach)

Always ==
  \/ \E c \in Chapter : BeginWrite(c) \/ WriteRefused(c)
  \/ Step \/ WriteFails
  \/ \E c \in Chapter, f \in FindingId, o \in RecordOutcome : Resolve(c, f, o)
  \/ \E c \in Chapter, o \in RecordOutcome : Approve(c, o)
  \/ \E c \in Chapter : ApproveUnnoticed(c)

KindInit == Init /\ kind \in {Restarted, Edited, Upstream, Corrected, Rejecting}
KindNext == (Always \/ Call(kind)) /\ Within(kind) /\ UNCHANGED kind
KindSpec == KindInit /\ [][KindNext]_<<vars, kind>>

Symmetry == Permutations(Text) \cup Permutations(Critic) \cup Permutations(Chapter)

-----------------------------------------------------------------------------
\* Within one process a changeset the human rejected is never approved,
\* however the chapter is edited and written again (reject_chapter_trusted;
\* the rejection is not recorded, so that the next process forgets it).
RejectedStaysInProcess ==
  [][kind = Rejecting /\ Len(chain') > Len(chain)
       => chain'[Len(chain')].draft \notin rejected]_vars
=============================================================================
