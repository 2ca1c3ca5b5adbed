-------------------------- MODULE MCApprovalJournal --------------------------
(***************************************************************************)
(* Instances of ApprovalJournal for TLC.                                   *)
(***************************************************************************)
EXTENDS ApprovalRefinement, TLC

CONSTANTS p1, p2, c1, c2, f1, f2, b1, b2

\* One file to replace or delete, one to create.
MCSeed == [f \in File |-> IF f = f1 THEN b1 ELSE Absent]

\* Replace and create, delete and create, create alone, back to the seed.
MCPlans == {[f \in File |-> IF f = f1 THEN b2 ELSE b1],
            [f \in File |-> IF f = f1 THEN Absent ELSE b1],
            [f \in File |-> b1],
            MCSeed}

Symmetry == Permutations(Process) \cup Permutations(Change)
==============================================================================
