----------------------------- MODULE MCCommands -----------------------------
(***************************************************************************)
(* Instances of CommandLoop and of ProjectInit for TLC, one in a behaviour *)
(* while the other is at rest.  In a steady behaviour of CommandLoop every *)
(* process is started with the price of the first.                         *)
(***************************************************************************)
EXTENDS CommandLoop, ProjectInit

VARIABLE kind

Kinds == {"any lines", "steady lines", "project"}

KindInit ==
  /\ kind \in Kinds
  /\ Init /\ InitialRoot
  /\ kind = "project" => held = Fresh(None)
  /\ kind # "project" => exists

LineStep ==
  /\ kind # "project"
  /\ Next
  /\ kind = "steady lines" => held'.maximum = held.maximum
  /\ UNCHANGED <<initVars, kind>>

ProjectStep ==
  /\ kind = "project"
  /\ NextInit
  /\ UNCHANGED <<vars, kind>>

KindNext == LineStep \/ ProjectStep

KindSpec == KindInit /\ [][KindNext]_<<vars, initVars, kind>>

\* While the price stays, `/write` asks before a chapter may cross the warning,
\* whatever its critics make it revise; a chapter that takes turns for tools
\* goes over it unasked by no more than their maximum (write_chapter's
\* estimate, complete_model_request).
SteadyWritesAreWarned == kind = "steady lines" => WritesAreWarned
=============================================================================
