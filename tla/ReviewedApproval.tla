-------------------------- MODULE ReviewedApproval --------------------------
(***************************************************************************)
(* What the chapters promise the human: a text enters the canon only when  *)
(* the review of that very text has ended and nothing that blocks it is    *)
(* left, one changeset at a time.  A critic can only object while the      *)
(* review lasts, a revision starts the review again, and afterwards        *)
(* nothing but a human removes an objection.                               *)
(***************************************************************************)
EXTENDS Sequences

VARIABLES
  canon,      \* the approved candidates, in order
  reviewed,   \* the candidates whose review has ended
  open        \* the objections left: <<draft, <<message, text>>>>

avars == <<canon, reviewed, open>>

InReview(d) == \A x \in reviewed : x.draft # d

Objections(d, t) == {b \in open : b[1] = d /\ b[2][2] = t}

\* Critics object to a candidate, or it is revised and their objections fall.
Review ==
  /\ \E d \in {b[1] : b \in open \cup open'} :
       /\ InReview(d)
       /\ {b \in open : b[1] # d} = {b \in open' : b[1] # d}
       /\ \/ open \subseteq open'
          \/ {b \in open' : b[1] = d} = {}
  /\ UNCHANGED <<canon, reviewed>>

EndReview ==
  /\ \E x \in reviewed' :
       /\ InReview(x.draft)
       /\ reviewed' = reviewed \cup {x}
  /\ UNCHANGED <<canon, open>>

Resolve ==
  /\ \E b \in open : open' = open \ {b}
  /\ UNCHANGED <<canon, reviewed>>

Approve ==
  /\ \E x \in reviewed :
       /\ Objections(x.draft, x.text) = {}
       /\ \A i \in DOMAIN canon : canon[i].draft # x.draft
       /\ canon' = Append(canon, x)
  /\ UNCHANGED <<reviewed, open>>

AInit == canon = << >> /\ reviewed = {} /\ open = {}
ANext == Review \/ EndReview \/ Resolve \/ Approve
ASpec == AInit /\ [][ANext]_avars
=============================================================================
