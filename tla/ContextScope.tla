------------------------------ MODULE ContextScope ------------------------------
(****************************************************************************)
(* target_and_ancestors of context.rs and applies_to of sources.rs: the     *)
(* sources a scope brings into the context of a target.  A structure is     *)
(* [boxes, scenes, chapters, parts, valid]: boxes, scenes and chapters map  *)
(* the ids of one level to those of the level above, parts is a set.        *)
(****************************************************************************)
EXTENDS Integers, FiniteSets

CONSTANT None     \* no structure was set, or no ancestor on a level

SceneOf(st, target) ==
  IF target \in DOMAIN st.boxes THEN st.boxes[target]
  ELSE IF target \in DOMAIN st.scenes THEN target ELSE None

ChapterOf(st, target) ==
  LET scene == SceneOf(st, target)
  IN  IF scene \in DOMAIN st.scenes THEN st.scenes[scene]
      ELSE IF target \in DOMAIN st.chapters THEN target ELSE None

PartOf(st, target) ==
  LET chapter == ChapterOf(st, target)
  IN  IF chapter \in DOMAIN st.chapters THEN st.chapters[chapter]
      ELSE IF target \in st.parts THEN target ELSE None

AncestorIds(st, target) ==
  {SceneOf(st, target), ChapterOf(st, target), PartOf(st, target)} \ {None}

TargetAndAncestors(st, target) ==
  {target} \cup (IF st = None THEN {} ELSE AncestorIds(st, target))

HierarchyScoped(scopes) ==
  \E scope \in scopes : scope.level \in {"part", "chapter", "scene"}

\* A source of one part, chapter or scene needs a structure that knows the target.
ScopeResolves(st, request, scopes) ==
  /\ request.known
  /\ IF st = None
     THEN ~HierarchyScoped(scopes)
     ELSE st.valid /\ (HierarchyScoped(scopes) => AncestorIds(st, request.target) # {})

\* What validate_structure makes sure of: no two levels share an id, and every parent exists.
WellFormed(st) ==
  /\ \A id \in DOMAIN st.boxes : st.boxes[id] \in DOMAIN st.scenes
  /\ \A id \in DOMAIN st.scenes : st.scenes[id] \in DOMAIN st.chapters
  /\ \A id \in DOMAIN st.chapters : st.chapters[id] \in st.parts
  /\ DOMAIN st.boxes \cap (DOMAIN st.scenes \cup DOMAIN st.chapters \cup st.parts) = {}
  /\ DOMAIN st.scenes \cap (DOMAIN st.chapters \cup st.parts) = {}
  /\ DOMAIN st.chapters \cap st.parts = {}
  /\ None \notin DOMAIN st.scenes \cup DOMAIN st.chapters \cup st.parts

AppliesTo(scope, ids, role) ==
  \/ scope.level = "work"
  \/ scope.level \in {"part", "chapter", "scene"} /\ scope.id \in ids
  \/ scope.level = "role" /\ scope.id = role
=================================================================================
