---------------------------- MODULE AtomicApproval ----------------------------
(***************************************************************************)
(* What an approval promises: changesets enter the canon one at a time,    *)
(* each whole and each on the canon its predecessor left.  A failure       *)
(* freezes the project; it never shows a part of a changeset as canon and  *)
(* never takes back an approval reported to the human.                     *)
(*                                                                         *)
(* ApprovalJournal implements this, with `canon` the canon a human can     *)
(* recover from the project directory.                                     *)
(***************************************************************************)
EXTENDS Naturals

CONSTANTS Change, None

VARIABLES
  canon,     \* every canon file and approval record
  draft,     \* the changesets written so far
  approved,  \* changesets whose approval is on file
  acked,     \* approvals reported to the human
  frozen,    \* a failure waits for a human
  edits      \* edits made by other programs

vars == <<canon, draft, approved, acked, frozen, edits>>

Result(c) == [files |-> draft[c].after,
              records |-> [draft[c].base.records EXCEPT ![c] = "genuine"]]

Drafted(c) == draft[c].order > 0

\* The change follows every approved one.
IsNext(c) ==
  /\ Drafted(c) /\ c \notin approved
  /\ \A d \in approved : draft[d].order < draft[c].order
  /\ draft[c].order # 1 => \E d \in approved : draft[d].order + 1 = draft[c].order

Draft == \E c \in Change : /\ ~Drafted(c)
                           /\ \A d \in Change \ {c} : draft'[d] = draft[d]
                           /\ UNCHANGED <<canon, approved, acked, frozen, edits>>

\* The whole changeset at once, on the canon it was written for.
Approve(c) ==
  /\ ~frozen
  /\ IsNext(c)
  /\ canon = draft[c].base
  /\ canon' = Result(c)
  /\ approved' = approved \cup {c}
  /\ UNCHANGED <<draft, acked, frozen, edits>>

Report(c) ==
  /\ c \in approved
  /\ acked' = acked \cup {c}
  /\ UNCHANGED <<canon, draft, approved, frozen, edits>>

\* Other programs own the canon as much as Phemius does.
Edit ==
  /\ edits' = edits + 1
  /\ UNCHANGED <<draft, approved, acked, frozen>>

Freeze ==
  /\ frozen' = TRUE
  /\ UNCHANGED <<canon, draft, approved, acked, edits>>

\* A power loss takes back approvals that were never reported, and freezes.
Lose ==
  /\ frozen' = TRUE
  /\ acked \subseteq approved'
  /\ approved' \subseteq approved /\ approved' # approved
  /\ UNCHANGED <<draft, acked, edits>>

Next ==
  \/ Draft \/ Edit \/ Freeze \/ Lose
  \/ \E c \in Change : Approve(c) \/ Report(c)

Init ==
  /\ approved = {} /\ acked = {}
  /\ \A c \in Change : ~Drafted(c)
  /\ frozen = FALSE

Spec == Init /\ [][Next]_vars
===============================================================================
