----------------------------- MODULE ProjectInit -----------------------------
(***************************************************************************)
(* initialize_project (src/project.rs): a project is made in a staging     *)
(* directory beside its root and then becomes the root, by one rename when *)
(* the root is missing, entry by entry when it exists.  Several processes  *)
(* may initialize the same root, and others may use it meanwhile: they     *)
(* make the root, and put entries into it and take them out again, but     *)
(* leave alone what an initializer moved there.                            *)
(*                                                                         *)
(* The entries are the top-level ones; what they contain is written before *)
(* the first of them is moved.                                             *)
(***************************************************************************)
EXTENDS Naturals, SequencesExt

CONSTANTS
  Initializer,   \* processes that initialize the root
  Name,          \* the entries of a project
  Foreign,       \* an entry that is none of them
  Nobody, Other, \* nobody; a program that is no initializer
  MaxTouches     \* bound: what the others do

ASSUME EntryAssumption ==
  Foreign \notin Name /\ Nobody # Other /\ {Nobody, Other} \cap Initializer = {}
ASSUME TouchAssumption == MaxTouches \in Nat

VARIABLES
  exists,    \* the root is there
  entry,     \* who put the entry into the root
  staging,   \* the entries in the staging directory of a process
  moved,     \* those it has moved, in their order
  broken,    \* one of them could not be moved back
  step,      \* what a process does next, or how its call ended
  touches

entryVars == <<exists, entry>>
callVars == <<staging, moved, broken, step>>
initVars == <<entryVars, callVars, touches>>

Empty == \A n \in DOMAIN entry : entry[n] = Nobody

Goto(p, s) == step' = [step EXCEPT ![p] = s]

\* The staging directory is removed with what is in it.
Dropped(p) ==
  /\ Goto(p, "failed")
  /\ staging' = [staging EXCEPT ![p] = {}]
  /\ UNCHANGED <<moved, broken>>

\* "refusing to overwrite non-empty project directory"
Refuse(p) ==
  /\ step[p] = "check"
  /\ exists /\ ~Empty
  /\ Goto(p, "failed")
  /\ UNCHANGED <<entryVars, staging, moved, broken, touches>>

\* Directories and files are made in a new directory beside the root.
Stage(p) ==
  /\ step[p] = "check"
  /\ ~exists \/ Empty
  /\ Goto(p, "staged")
  /\ staging' = [staging EXCEPT ![p] = Name]
  /\ UNCHANGED <<entryVars, moved, broken, touches>>

StageFails(p) ==
  /\ step[p] = "staged"
  /\ Dropped(p)
  /\ UNCHANGED <<entryVars, touches>>

\* persist looks whether the root exists.
Persist(p) ==
  /\ step[p] = "staged"
  /\ Goto(p, IF exists THEN "moving" ELSE "renaming")
  /\ UNCHANGED <<entryVars, staging, moved, broken, touches>>

\* rename_without_replacing, of the whole staging directory
Rename(p) ==
  /\ step[p] = "renaming" /\ ~exists
  /\ exists' = TRUE
  /\ entry' = [n \in DOMAIN entry |-> IF n \in Name THEN p ELSE Nobody]
  /\ staging' = [staging EXCEPT ![p] = {}]
  /\ Goto(p, "done")
  /\ UNCHANGED <<moved, broken, touches>>

RenameFails(p) ==
  /\ step[p] = "renaming"
  /\ Dropped(p)
  /\ UNCHANGED <<entryVars, touches>>

\* Mutant: a rename that replaces what is there.
MoveOver(p, n) ==
  /\ step[p] = "moving" /\ n \in staging[p]
  /\ exists
  /\ entry' = [entry EXCEPT ![n] = p]
  /\ staging' = [staging EXCEPT ![p] = @ \ {n}]
  /\ moved' = [moved EXCEPT ![p] = Append(@, n)]
  /\ UNCHANGED <<exists, broken, step, touches>>

\* One round of move_contents_into.
Move(p, n) ==
  /\ step[p] = "moving" /\ n \in staging[p]
  /\ exists /\ entry[n] = Nobody
  /\ entry' = [entry EXCEPT ![n] = p]
  /\ staging' = [staging EXCEPT ![p] = @ \ {n}]
  /\ moved' = [moved EXCEPT ![p] = Append(@, n)]
  /\ UNCHANGED <<exists, broken, step, touches>>

\* The root is gone, the entry is taken, or the call fails.
MoveFails(p) ==
  /\ step[p] = "moving" /\ staging[p] # {}
  /\ Goto(p, "rolling back")
  /\ UNCHANGED <<entryVars, staging, moved, broken, touches>>

Moved(p) ==
  /\ step[p] = "moving" /\ staging[p] = {}
  /\ Goto(p, "done")
  /\ UNCHANGED <<entryVars, staging, moved, broken, touches>>

\* One round of rollback, by name: the last one moved comes first.
RollBack(p) ==
  /\ step[p] = "rolling back" /\ moved[p] # << >>
  /\ LET n == Last(moved[p]) IN
     \/ /\ exists /\ entry[n] # Nobody
        /\ entry' = [entry EXCEPT ![n] = Nobody]
        /\ staging' = [staging EXCEPT ![p] = @ \cup {n}]
        /\ UNCHANGED broken
     \/ /\ broken' = [broken EXCEPT ![p] = TRUE]
        /\ UNCHANGED <<entry, staging>>
  /\ moved' = [moved EXCEPT ![p] = Front(@)]
  /\ UNCHANGED <<exists, step, touches>>

\* A staging directory with part of the project is disarmed: it stays.
RolledBack(p) ==
  /\ step[p] = "rolling back" /\ moved[p] = << >>
  /\ \/ /\ broken[p]
        /\ Goto(p, "stuck")
        /\ UNCHANGED <<staging, moved, broken>>
     \/ ~broken[p] /\ Dropped(p)
  /\ UNCHANGED <<entryVars, touches>>

Crash(p) ==
  /\ step[p] \in {"staged", "renaming", "moving", "rolling back"}
  /\ Goto(p, "crashed")
  /\ UNCHANGED <<entryVars, staging, moved, broken, touches>>

(***************************************************************************)
(* Other programs.                                                         *)
(***************************************************************************)
Touch ==
  /\ touches < MaxTouches
  /\ touches' = touches + 1
  /\ UNCHANGED callVars

MakeRoot == Touch /\ ~exists /\ exists' = TRUE /\ UNCHANGED entry

RemoveRoot == Touch /\ exists /\ Empty /\ exists' = FALSE /\ UNCHANGED entry

Put(n) ==
  /\ Touch
  /\ exists /\ entry[n] = Nobody
  /\ entry' = [entry EXCEPT ![n] = Other]
  /\ UNCHANGED exists

Take(n) ==
  /\ Touch
  /\ entry[n] = Other
  /\ entry' = [entry EXCEPT ![n] = Nobody]
  /\ UNCHANGED exists

Others == MakeRoot \/ RemoveRoot \/ \E n \in Name \cup {Foreign} : Put(n) \/ Take(n)

-----------------------------------------------------------------------------
InitialRoot ==
  /\ exists \in BOOLEAN
  /\ entry = [n \in Name \cup {Foreign} |-> Nobody]
  /\ staging = [p \in Initializer |-> {}]
  /\ moved = [p \in Initializer |-> << >>]
  /\ broken = [p \in Initializer |-> FALSE]
  /\ step = [p \in Initializer |-> "check"]
  /\ touches = 0

Initialize(p) ==
  \/ Refuse(p) \/ Stage(p) \/ StageFails(p) \/ Persist(p)
  \/ Rename(p) \/ RenameFails(p)
  \/ \E n \in Name : Move(p, n)
  \/ MoveFails(p) \/ Moved(p) \/ RollBack(p) \/ RolledBack(p)
  \/ Crash(p)

NextInit == (\E p \in Initializer : Initialize(p)) \/ Others

InitSpec == InitialRoot /\ [][NextInit]_initVars

-----------------------------------------------------------------------------
(***************************************************************************)
(* A persist that succeeds has made the whole project, all of it its own,  *)
(* one that fails has left nothing in the root, and one that could not     *)
(* undo its moves has every entry still in one of the two places: whatever *)
(* other calls and programs do to the root between its test and its last   *)
(* move (StagingDirectory, rename_without_replacing).                      *)
(***************************************************************************)
WholeOrNothing ==
  \A p \in Initializer :
    /\ step[p] = "done" => \A n \in Name : entry[n] = p
    /\ step[p] = "failed" => \A n \in Name : entry[n] # p
    /\ step[p] = "stuck" => \A n \in Name : entry[n] = p \/ n \in staging[p]
=============================================================================
