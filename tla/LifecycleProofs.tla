--------------------------- MODULE LifecycleProofs ---------------------------
(***************************************************************************)
(* What the human can rely on when chapters are written, edited, rejected, *)
(* corrected, approved and restored, for any chapters, texts, critics and  *)
(* limits: only reviewed text enters the canon, and the controller and its *)
(* checkpoint never take for approved what the canon does not hold, nor    *)
(* give a stale text to a later writer; and what was rejected is never     *)
(* approved by the process that was told.                                  *)
(*                                                                         *)
(* A controller is Sound between two commands, and only Loose between two  *)
(* of the changes that one command makes: the operators of ChapterLifecycle*)
(* keep Loose, and refresh_chapter_states makes it Sound.  Both speak of   *)
(* the canon and the reviews, which only grow (Grows), so that a           *)
(* checkpoint stays Sound while the program goes on.                       *)
(***************************************************************************)
EXTENDS MCChapterLifecycle, SumProofs

Old == {"Stale", "NeedsRevalidation"}

Candidates == [draft : Draft, text : Text]

\* The canon holds the changeset of a run at its place.
InChain(r, ch) == r.order \in DOMAIN ch /\ ch[r.order].draft = r.draft

RunOK(r, ch, rev, op) ==
  /\ [draft |-> r.draft, text |-> r.content] \in rev
  /\ r.base <= Len(ch)
  /\ \A i \in DOMAIN ch : ch[i].draft = r.draft => r.base < Len(ch)
  /\ \A f \in FindingId : <<r.draft, f>> \in op /\ f[2] = r.content => f \in r.blockers

\* What the rest of the invariant says of a run, of whatever state.
Keeps(r2, r1) ==
  /\ r2.draft = r1.draft /\ r2.content = r1.content
  /\ r2.base = r1.base /\ r2.order = r1.order
  /\ r2.blockers = r1.blockers

\* What only an approval, or the human's edit, changes of it.
Untouched(r2, r1) == r2.validated = r1.validated /\ r2.depends = r1.depends

LEMMA RunWithState ==
  ASSUME NEW r \in Run, NEW s \in RunState
  PROVE  /\ [r EXCEPT !.state = s] \in Run
         /\ [r EXCEPT !.state = s].state = s
         /\ Keeps([r EXCEPT !.state = s], r)
         /\ Untouched([r EXCEPT !.state = s], r)
  BY DEF Run, Keeps, Untouched

LEMMA RunWithoutFindings ==
  ASSUME NEW r \in Run
  PROVE  /\ [r EXCEPT !.findings = NoFindings] \in Run
         /\ [r EXCEPT !.findings = NoFindings].state = r.state
         /\ Keeps([r EXCEPT !.findings = NoFindings], r)
         /\ Untouched([r EXCEPT !.findings = NoFindings], r)
  BY DEF Run, Keeps, NoFindings, Untouched

LEMMA RefreshKeeps ==
  ASSUME NEW m \in Controller
  PROVE  /\ Refresh(m) \in Controller
         /\ Refresh(m).order = m.order
         /\ Refresh(m).provisional = m.provisional
         /\ \A c \in Chapter : m.run[c] = None =>
              Refresh(m).run[c] = None /\ Refresh(m).state[c] = m.state[c]
         /\ \A c \in Chapter : m.run[c] # None =>
              /\ Refresh(m).run[c] # None
              /\ Keeps(Refresh(m).run[c], m.run[c])
              /\ Untouched(Refresh(m).run[c], m.run[c])
              /\ Refresh(m).state[c] = Refresh(m).run[c].state
              /\ \/ Refresh(m).run[c].state = m.run[c].state
                 \/ /\ Refresh(m).run[c].state = "Approvable"
                    /\ m.run[c].state = "Candidate"
<1> DEFINE state(c) == IF m.run[c].state = "Candidate" /\ ~Blocked(m, c)
                       THEN "Approvable" ELSE m.run[c].state
           run == [c \in Chapter |-> IF HasRun(m, c)
                                     THEN [m.run[c] EXCEPT !.state = state(c)]
                                     ELSE None]
           all == [c \in Chapter |-> IF HasRun(m, c) THEN state(c) ELSE m.state[c]]
<1>0. /\ m = [order |-> m.order, state |-> m.state, run |-> m.run,
              falsePositive |-> m.falsePositive, provisional |-> m.provisional]
      /\ m.order \in [Chapter -> Nat]
      /\ m.state \in [Chapter -> ChapterState]
      /\ m.run \in [Chapter -> Run \cup {None}]
      /\ m.falsePositive \in [Chapter -> SUBSET FindingId]
      /\ m.provisional \in [Chapter -> Text \cup {None}]
  BY DEF Controller
<1>1. Refresh(m) = [m EXCEPT !.run = run, !.state = all]
  BY DEF Refresh
<1>2. \A c \in Chapter : HasRun(m, c) =>
        /\ m.run[c] \in Run
        /\ state(c) \in RunState
        /\ \/ state(c) = m.run[c].state
           \/ state(c) = "Approvable" /\ m.run[c].state = "Candidate"
  <2> SUFFICES ASSUME NEW c \in Chapter, HasRun(m, c)
               PROVE  /\ m.run[c] \in Run
                      /\ state(c) \in RunState
                      /\ \/ state(c) = m.run[c].state
                         \/ state(c) = "Approvable" /\ m.run[c].state = "Candidate"
    OBVIOUS
  <2>1. m.run[c] \in Run
    BY <1>0 DEF HasRun
  <2>2. m.run[c].state \in RunState
    BY <2>1 DEF Run
  <2>3. QED
    BY <2>1, <2>2 DEF RunState
<1> HIDE DEF state
<1>3. \A c \in Chapter : HasRun(m, c) =>
        /\ run[c] \in Run /\ run[c].state = state(c)
        /\ Keeps(run[c], m.run[c]) /\ Untouched(run[c], m.run[c])
  <2> SUFFICES ASSUME NEW c \in Chapter, HasRun(m, c)
               PROVE  /\ run[c] \in Run /\ run[c].state = state(c)
                      /\ Keeps(run[c], m.run[c]) /\ Untouched(run[c], m.run[c])
    OBVIOUS
  <2>1. run[c] = [m.run[c] EXCEPT !.state = state(c)]
    OBVIOUS
  <2>2. QED
    BY <2>1, <1>2, RunWithState
<1>4. /\ run \in [Chapter -> Run \cup {None}]
      /\ \A c \in Chapter : ~HasRun(m, c) => run[c] = None
  BY <1>3
<1>5. /\ all \in [Chapter -> ChapterState]
      /\ \A c \in Chapter : all[c] = IF HasRun(m, c) THEN state(c) ELSE m.state[c]
  BY <1>0, <1>2 DEF ChapterState
<1> HIDE DEF run, all
<1>6. /\ Refresh(m) \in Controller
      /\ Refresh(m).order = m.order /\ Refresh(m).provisional = m.provisional
      /\ Refresh(m).run = run /\ Refresh(m).state = all
  BY <1>0, <1>1, <1>4, <1>5 DEF Controller
<1>7. \A c \in Chapter : HasRun(m, c) => run[c] # None
  BY <1>3, NoneAssumption
<1>8. QED
  BY <1>2, <1>3, <1>4, <1>5, <1>6, <1>7 DEF HasRun

-----------------------------------------------------------------------------
LEMMA Parts ==
  ASSUME NEW m \in Controller
  PROVE  /\ m = [order |-> m.order, state |-> m.state, run |-> m.run,
                 falsePositive |-> m.falsePositive, provisional |-> m.provisional]
         /\ m.order \in [Chapter -> Nat]
         /\ m.state \in [Chapter -> ChapterState]
         /\ m.run \in [Chapter -> Run \cup {None}]
         /\ m.falsePositive \in [Chapter -> SUBSET FindingId]
         /\ m.provisional \in [Chapter -> Text \cup {None}]
  BY DEF Controller

LEMMA DropKeeps ==
  ASSUME NEW m \in Controller, NEW C
  PROVE  /\ DropFindings(m, C) \in Controller
         /\ DropFindings(m, C).order = m.order
         /\ DropFindings(m, C).state = m.state
         /\ DropFindings(m, C).provisional = m.provisional
         /\ \A c \in Chapter : m.run[c] = None => DropFindings(m, C).run[c] = None
         /\ \A c \in Chapter : m.run[c] # None =>
              /\ DropFindings(m, C).run[c] # None
              /\ Keeps(DropFindings(m, C).run[c], m.run[c])
              /\ Untouched(DropFindings(m, C).run[c], m.run[c])
              /\ DropFindings(m, C).run[c].state = m.run[c].state
<1> DEFINE run == [c \in Chapter |-> IF c \in C /\ HasRun(m, c)
                                     THEN [m.run[c] EXCEPT !.findings = NoFindings]
                                     ELSE m.run[c]]
           false == [c \in Chapter |-> IF c \in C THEN {} ELSE m.falsePositive[c]]
<1>1. DropFindings(m, C) = [m EXCEPT !.run = run, !.falsePositive = false]
  BY DEF DropFindings
<1>2. \A c \in Chapter : HasRun(m, c) =>
        /\ run[c] \in Run /\ run[c].state = m.run[c].state
        /\ Keeps(run[c], m.run[c]) /\ Untouched(run[c], m.run[c])
  <2> SUFFICES ASSUME NEW c \in Chapter, HasRun(m, c)
               PROVE  /\ run[c] \in Run /\ run[c].state = m.run[c].state
                      /\ Keeps(run[c], m.run[c]) /\ Untouched(run[c], m.run[c])
    OBVIOUS
  <2>1. m.run[c] \in Run
    BY Parts DEF HasRun
  <2>2. run[c] = [m.run[c] EXCEPT !.findings = NoFindings] \/ run[c] = m.run[c]
    OBVIOUS
  <2>3. QED
    BY <2>1, <2>2, RunWithoutFindings DEF Keeps, Untouched
<1>3. /\ run \in [Chapter -> Run \cup {None}]
      /\ \A c \in Chapter : ~HasRun(m, c) => run[c] = None
  BY <1>2 DEF HasRun
<1>4. false \in [Chapter -> SUBSET FindingId]
  BY Parts
<1> HIDE DEF run, false
<1>5. /\ DropFindings(m, C) \in Controller
      /\ DropFindings(m, C).order = m.order /\ DropFindings(m, C).state = m.state
      /\ DropFindings(m, C).provisional = m.provisional
      /\ DropFindings(m, C).run = run
  BY Parts, <1>1, <1>3, <1>4 DEF Controller
<1>6. QED
  BY <1>2, <1>3, <1>5, NoneAssumption DEF HasRun

LEMMA UpstreamKeeps ==
  ASSUME NEW m \in Controller, NEW e \in Chapter, Consistent(m)
  PROVE  /\ NoteUpstreamEdit(m, e) \in Controller
         /\ NoteUpstreamEdit(m, e).order = m.order
         /\ \A c \in Chapter : m.run[c] = None => NoteUpstreamEdit(m, e).run[c] = None
         /\ \A c \in Chapter : m.run[c] # None =>
              /\ NoteUpstreamEdit(m, e).run[c] # None
              /\ Keeps(NoteUpstreamEdit(m, e).run[c], m.run[c])
              /\ Untouched(NoteUpstreamEdit(m, e).run[c], m.run[c])
         /\ \A c \in Later(m, e) :
              /\ NoteUpstreamEdit(m, e).state[c] \in Old
              /\ NoteUpstreamEdit(m, e).provisional[c] = None
              /\ m.run[c] # None => NoteUpstreamEdit(m, e).run[c].state \in Old
         /\ \A c \in Chapter \ Later(m, e) :
              /\ NoteUpstreamEdit(m, e).state[c] = m.state[c]
              /\ NoteUpstreamEdit(m, e).provisional[c] = m.provisional[c]
              /\ m.run[c] # None =>
                   NoteUpstreamEdit(m, e).run[c].state = m.run[c].state
<1> DEFINE later == Later(m, e)
           state == [d \in Chapter |-> IF d \in later THEN Outdated(m.state[d])
                                       ELSE m.state[d]]
           run == [d \in Chapter |-> IF d \in later /\ HasRun(m, d)
                                     THEN [m.run[d] EXCEPT !.state = state[d]]
                                     ELSE m.run[d]]
           prov == [d \in Chapter |-> IF d \in later THEN None ELSE m.provisional[d]]
           n == [m EXCEPT !.state = state, !.run = run, !.provisional = prov]
<1>1. NoteUpstreamEdit(m, e) = DropFindings(n, later)
  BY DEF NoteUpstreamEdit
<1>2. later \subseteq Chapter
  BY DEF Later, Registered
<1>3. /\ state \in [Chapter -> ChapterState]
      /\ \A c \in later : state[c] \in Old
      /\ \A c \in Chapter \ later : state[c] = m.state[c]
  <2> HIDE DEF later
  <2>1. QED BY <1>2, Parts DEF Outdated, Old, ChapterState, RunState
<1>4. /\ prov \in [Chapter -> Text \cup {None}]
      /\ \A c \in later : prov[c] = None
      /\ \A c \in Chapter \ later : prov[c] = m.provisional[c]
  <2> HIDE DEF later
  <2>1. QED BY <1>2, Parts
<1> HIDE DEF state, prov, later
<1>5. \A c \in Chapter : HasRun(m, c) =>
        /\ run[c] \in Run /\ Keeps(run[c], m.run[c]) /\ Untouched(run[c], m.run[c])
        /\ c \in later => run[c].state \in Old
        /\ c \notin later => run[c].state = m.run[c].state
  <2> SUFFICES ASSUME NEW c \in Chapter, HasRun(m, c)
               PROVE  /\ run[c] \in Run /\ Keeps(run[c], m.run[c])
                      /\ Untouched(run[c], m.run[c])
                      /\ c \in later => run[c].state \in Old
                      /\ c \notin later => run[c].state = m.run[c].state
    OBVIOUS
  <2>1. m.run[c] \in Run
    BY Parts DEF HasRun
  <2>2. CASE c \in later
    <3>1. run[c] = [m.run[c] EXCEPT !.state = state[c]]
      BY <2>2
    <3>2. state[c] \in RunState /\ state[c] \in Old
      BY <2>2, <1>3 DEF RunState, Old
    <3>3. QED
      BY <2>1, <2>2, <3>1, <3>2, RunWithState
  <2>3. CASE c \notin later
    BY <2>1, <2>3 DEF Keeps, Untouched
  <2>4. QED
    BY <2>2, <2>3
<1>6. /\ run \in [Chapter -> Run \cup {None}]
      /\ \A c \in Chapter : ~HasRun(m, c) => run[c] = None
  BY <1>5 DEF HasRun
<1> HIDE DEF run
<1>7. /\ n \in Controller /\ n.order = m.order /\ n.state = state
      /\ n.run = run /\ n.provisional = prov
  BY Parts, <1>3, <1>4, <1>6 DEF Controller
<1> HIDE DEF n
<1>8. \A c \in Chapter : HasRun(m, c) => run[c] # None
  BY <1>5, NoneAssumption
<1>9. DEFINE k == DropFindings(n, later)
<1>10. /\ k \in Controller /\ k.order = n.order /\ k.state = n.state
       /\ k.provisional = n.provisional
       /\ \A c \in Chapter : n.run[c] = None => k.run[c] = None
       /\ \A c \in Chapter : n.run[c] # None =>
            /\ k.run[c] # None /\ Keeps(k.run[c], n.run[c])
            /\ Untouched(k.run[c], n.run[c]) /\ k.run[c].state = n.run[c].state
  BY <1>7, DropKeeps
<1> HIDE DEF k
<1>11. \A c \in Chapter : m.run[c] # None =>
         /\ k.run[c] # None /\ Keeps(k.run[c], m.run[c])
         /\ Untouched(k.run[c], m.run[c]) /\ k.run[c].state = run[c].state
  BY <1>5, <1>7, <1>8, <1>10 DEF HasRun, Keeps, Untouched
<1>12. QED
  BY <1>1, <1>2, <1>3, <1>4, <1>5, <1>6, <1>7, <1>10, <1>11 DEF k, later, HasRun

-----------------------------------------------------------------------------
\* The orders of the chapters are bounded: there is a next one.
Bounded(m) == \E u \in Nat : \A c \in Chapter : m.order[c] <= u

\* A run that passes for approved is in the canon, an outdated one is not
\* given to later chapters.
Settled(m, c, ch) ==
  /\ m.run[c].state = "Approved" => InChain(m.run[c], ch)
  /\ m.run[c].state \in Old => m.provisional[c] = None

\* What holds of a controller between any two of its changes.
Loose(m, ch, rev, op) ==
  /\ m \in Controller
  /\ Bounded(m)
  /\ Consistent(m)
  /\ \A c \in Chapter : m.run[c] # None =>
       RunOK(m.run[c], ch, rev, op) /\ Settled(m, c, ch)
  /\ \A c \in Chapter : m.state[c] = "Approved" =>
       m.run[c] # None /\ InChain(m.run[c], ch)
  /\ \A c \in Chapter : m.run[c] = None /\ m.state[c] \in Old =>
       m.provisional[c] = None

\* What holds of it whenever it is at rest.
Sound(m, ch, rev, op) ==
  /\ Loose(m, ch, rev, op)
  /\ \A c \in Chapter : m.state[c] \in Old => m.provisional[c] = None

LEMMA KeepsRunOK ==
  ASSUME NEW r1, NEW r2, NEW ch, NEW rev, NEW op,
         Keeps(r2, r1), RunOK(r1, ch, rev, op)
  PROVE  RunOK(r2, ch, rev, op)
  BY DEF Keeps, RunOK

LEMMA KeepsInChain ==
  ASSUME NEW r1, NEW r2, NEW ch, Keeps(r2, r1), InChain(r1, ch)
  PROVE  InChain(r2, ch)
  BY DEF Keeps, InChain

\* A change that leaves the changesets alone and approves nothing.
LEMMA LooseKept ==
  ASSUME NEW m, NEW n \in Controller, NEW ch, NEW rev, NEW op,
         Loose(m, ch, rev, op),
         n.order = m.order,
         \A c \in Chapter : m.run[c] = None => n.run[c] = None,
         \A c \in Chapter : m.run[c] # None =>
           /\ n.run[c] # None /\ Keeps(n.run[c], m.run[c])
           /\ n.run[c].state = "Approved" => m.run[c].state = "Approved"
           /\ n.run[c].state \in Old => n.provisional[c] = None,
         \A c \in Chapter : n.state[c] = "Unknown" <=> m.state[c] = "Unknown",
         \A c \in Chapter : n.state[c] = "Approved" =>
           m.state[c] = "Approved" \/ (m.run[c] # None /\ m.run[c].state = "Approved"),
         \A c \in Chapter : n.run[c] = None /\ n.state[c] \in Old =>
           n.provisional[c] = None
  PROVE  Loose(n, ch, rev, op)
<1>1. Bounded(n)
  BY DEF Loose, Bounded
<1>2. Consistent(n)
  BY DEF Loose, Consistent, Keeps
<1>3. ASSUME NEW c \in Chapter, n.run[c] # None
      PROVE  RunOK(n.run[c], ch, rev, op) /\ Settled(n, c, ch)
  <2>1. /\ m.run[c] # None /\ Keeps(n.run[c], m.run[c])
        /\ RunOK(m.run[c], ch, rev, op) /\ Settled(m, c, ch)
    BY <1>3 DEF Loose
  <2>2. RunOK(n.run[c], ch, rev, op)
    BY <2>1, KeepsRunOK
  <2>3. n.run[c].state = "Approved" => InChain(n.run[c], ch)
    BY <2>1, KeepsInChain DEF Settled
  <2>4. QED
    BY <2>1, <2>2, <2>3 DEF Settled
<1>4. ASSUME NEW c \in Chapter, n.state[c] = "Approved"
      PROVE  n.run[c] # None /\ InChain(n.run[c], ch)
  <2>1. m.run[c] # None /\ InChain(m.run[c], ch)
    BY <1>4 DEF Loose, Settled
  <2>2. QED
    BY <2>1, KeepsInChain
<1>5. QED
  BY <1>1, <1>2, <1>3, <1>4 DEF Loose

LEMMA RefreshSound ==
  ASSUME NEW m, NEW ch, NEW rev, NEW op, Loose(m, ch, rev, op)
  PROVE  Sound(Refresh(m), ch, rev, op)
<1> DEFINE n == Refresh(m)
<1>0. m \in Controller /\ Consistent(m)
  BY DEF Loose
<1>1. /\ n \in Controller /\ n.order = m.order /\ n.provisional = m.provisional
      /\ \A c \in Chapter : m.run[c] = None =>
           n.run[c] = None /\ n.state[c] = m.state[c]
      /\ \A c \in Chapter : m.run[c] # None =>
           /\ n.run[c] # None /\ Keeps(n.run[c], m.run[c])
           /\ n.state[c] = n.run[c].state
           /\ n.run[c].state = m.run[c].state \/ n.run[c].state = "Approvable"
  BY <1>0, RefreshKeeps
<1> HIDE DEF n
<1>2. \A c \in Chapter : m.run[c] # None =>
        n.run[c].state \in RunState /\ m.state[c] # "Unknown"
  BY <1>0, <1>1, Parts DEF Consistent, Run
<1>3. \A c \in Chapter : m.run[c] # None => n.state[c] # "Unknown"
  BY <1>1, <1>2 DEF RunState
<1>4. \A c \in Chapter : m.run[c] # None /\ n.run[c].state \in Old =>
        n.provisional[c] = None
  BY <1>1 DEF Loose, Settled, Old
<1>5. Loose(n, ch, rev, op)
  <2>1. \A c \in Chapter : n.state[c] = "Approved" =>
          m.state[c] = "Approved" \/ (m.run[c] # None /\ m.run[c].state = "Approved")
    <3> SUFFICES ASSUME NEW c \in Chapter, n.state[c] = "Approved", m.run[c] # None
                 PROVE  m.run[c].state = "Approved"
      BY <1>1
    <3>1. QED
      BY <1>1
  <2>2. \A c \in Chapter : n.run[c] = None /\ n.state[c] \in Old =>
          n.provisional[c] = None
    BY <1>1 DEF Loose
  <2>3. \A c \in Chapter : n.state[c] = "Unknown" <=> m.state[c] = "Unknown"
    BY <1>1, <1>2, <1>3
  <2>4. QED
    BY <1>1, <1>4, <2>1, <2>2, <2>3, LooseKept
<1>6. \A c \in Chapter : n.state[c] \in Old => n.provisional[c] = None
  BY <1>1, <1>4 DEF Loose
<1>7. QED
  BY <1>5, <1>6 DEF Sound, n

LEMMA UpstreamLoose ==
  ASSUME NEW m, NEW ch, NEW rev, NEW op, Loose(m, ch, rev, op), NEW e \in Chapter
  PROVE  /\ Loose(NoteUpstreamEdit(m, e), ch, rev, op)
         /\ Sound(m, ch, rev, op) => Sound(NoteUpstreamEdit(m, e), ch, rev, op)
<1> DEFINE n == NoteUpstreamEdit(m, e)
           later == Later(m, e)
<1>0. m \in Controller /\ Consistent(m)
  BY DEF Loose
<1>1. /\ n \in Controller /\ n.order = m.order
      /\ \A c \in Chapter : m.run[c] = None => n.run[c] = None
      /\ \A c \in Chapter : m.run[c] # None =>
           n.run[c] # None /\ Keeps(n.run[c], m.run[c])
      /\ \A c \in later :
           /\ n.state[c] \in Old /\ n.provisional[c] = None
           /\ m.run[c] # None => n.run[c].state \in Old
      /\ \A c \in Chapter \ later :
           /\ n.state[c] = m.state[c] /\ n.provisional[c] = m.provisional[c]
           /\ m.run[c] # None => n.run[c].state = m.run[c].state
  BY <1>0, UpstreamKeeps
<1>2. \A c \in later : c \in Chapter /\ m.state[c] # "Unknown"
  BY <1>0 DEF Later, Registered, Consistent
<1> HIDE DEF n, later
<1>3. ASSUME NEW c \in Chapter
      PROVE  /\ n.state[c] = "Unknown" <=> m.state[c] = "Unknown"
             /\ n.state[c] = "Approved" => m.state[c] = "Approved"
             /\ n.run[c] = None /\ n.state[c] \in Old => n.provisional[c] = None
             /\ m.run[c] # None =>
                  /\ n.run[c].state = "Approved" => m.run[c].state = "Approved"
                  /\ n.run[c].state \in Old => n.provisional[c] = None
  <2>1. CASE c \in later
    BY <1>1, <1>2, <2>1 DEF Old
  <2>2. CASE c \notin later
    BY <1>1, <2>2 DEF Loose, Settled
  <2>3. QED
    BY <2>1, <2>2
<1>4. Loose(n, ch, rev, op)
  <2>1. \A c \in Chapter : m.run[c] # None =>
          /\ n.run[c] # None /\ Keeps(n.run[c], m.run[c])
          /\ n.run[c].state = "Approved" => m.run[c].state = "Approved"
          /\ n.run[c].state \in Old => n.provisional[c] = None
    BY <1>1, <1>3
  <2>2. \A c \in Chapter : n.state[c] = "Unknown" <=> m.state[c] = "Unknown"
    BY <1>3
  <2>3. \A c \in Chapter : n.state[c] = "Approved" =>
          m.state[c] = "Approved" \/ (m.run[c] # None /\ m.run[c].state = "Approved")
    BY <1>3
  <2>4. \A c \in Chapter : n.run[c] = None /\ n.state[c] \in Old =>
          n.provisional[c] = None
    BY <1>3
  <2>5. QED
    BY <1>1, <2>1, <2>2, <2>3, <2>4, LooseKept
<1>5. Sound(m, ch, rev, op) => \A c \in Chapter : n.state[c] \in Old => n.provisional[c] = None
  BY <1>1 DEF Sound
<1>6. QED
  BY <1>4, <1>5 DEF Sound, n

LEMMA DropLoose ==
  ASSUME NEW m, NEW ch, NEW rev, NEW op, Loose(m, ch, rev, op), NEW C
  PROVE  /\ Loose(DropFindings(m, C), ch, rev, op)
         /\ Sound(m, ch, rev, op) => Sound(DropFindings(m, C), ch, rev, op)
<1> DEFINE n == DropFindings(m, C)
<1>0. m \in Controller
  BY DEF Loose
<1>1. /\ n \in Controller /\ n.order = m.order /\ n.state = m.state
      /\ n.provisional = m.provisional
      /\ \A c \in Chapter : m.run[c] = None => n.run[c] = None
      /\ \A c \in Chapter : m.run[c] # None =>
           /\ n.run[c] # None /\ Keeps(n.run[c], m.run[c])
           /\ n.run[c].state = m.run[c].state
  BY <1>0, DropKeeps
<1> HIDE DEF n
<1>2. Loose(n, ch, rev, op)
  <2>1. \A c \in Chapter : m.run[c] # None =>
          /\ n.run[c] # None /\ Keeps(n.run[c], m.run[c])
          /\ n.run[c].state = "Approved" => m.run[c].state = "Approved"
          /\ n.run[c].state \in Old => n.provisional[c] = None
    BY <1>1 DEF Loose, Settled
  <2>2. \A c \in Chapter : n.run[c] = None /\ n.state[c] \in Old =>
          n.provisional[c] = None
    BY <1>1 DEF Loose
  <2>3. QED
    BY <1>1, <2>1, <2>2, LooseKept
<1>3. QED
  BY <1>1, <1>2 DEF Sound, n

-----------------------------------------------------------------------------
\* The canon grows at its end, reviews end, and objections appear only on
\* changesets whose review has not ended.
Grows(ch, rev, op, ch2, rev2, op2) ==
  /\ ch \in Seq(Candidates)
  /\ ch2 = ch \/ \E x \in Candidates : ch2 = Append(ch, x)
  /\ rev \subseteq rev2
  /\ \A b \in op2 \ op : \A x \in rev : x.draft # b[1]

LEMMA GrownChain ==
  ASSUME NEW S, NEW ch \in Seq(S), NEW x \in S
  PROVE  /\ Append(ch, x) \in Seq(S)
         /\ Len(Append(ch, x)) = Len(ch) + 1
         /\ Len(ch) \in Nat
         /\ DOMAIN ch = 1 .. Len(ch)
         /\ DOMAIN Append(ch, x) = 1 .. (Len(ch) + 1)
         /\ \A i \in 1 .. Len(ch) : Append(ch, x)[i] = ch[i]
         /\ Append(ch, x)[Len(ch) + 1] = x
  OBVIOUS

LEMMA InChainKept ==
  ASSUME NEW ch, NEW rev, NEW op, NEW ch2, NEW rev2, NEW op2,
         Grows(ch, rev, op, ch2, rev2, op2), NEW r, InChain(r, ch)
  PROVE  InChain(r, ch2)
<1>1. CASE ch2 = ch
  BY <1>1
<1>2. CASE \E x \in Candidates : ch2 = Append(ch, x)
  BY <1>2, GrownChain DEF Grows, InChain
<1>3. QED
  BY <1>1, <1>2 DEF Grows

LEMMA RunOKKept ==
  ASSUME NEW ch, NEW rev, NEW op, NEW ch2, NEW rev2, NEW op2,
         Grows(ch, rev, op, ch2, rev2, op2),
         NEW r \in Run, RunOK(r, ch, rev, op)
  PROVE  RunOK(r, ch2, rev2, op2)
<1>0. r.base \in Nat /\ Len(ch) \in Nat
  BY DEF Run, Grows
<1>1. /\ r.base <= Len(ch2)
      /\ \A i \in DOMAIN ch2 : ch2[i].draft = r.draft => r.base < Len(ch2)
  <2>1. CASE ch2 = ch
    BY <2>1 DEF RunOK
  <2>2. CASE \E x \in Candidates : ch2 = Append(ch, x)
    <3>1. Len(ch2) = Len(ch) + 1
      BY <2>2, GrownChain DEF Grows
    <3>2. QED
      BY <3>1, <1>0 DEF RunOK
  <2>3. QED
    BY <2>1, <2>2 DEF Grows
<1>2. ASSUME NEW f \in FindingId, <<r.draft, f>> \in op2, f[2] = r.content
      PROVE  f \in r.blockers
  <2>1. CASE <<r.draft, f>> \in op
    BY <1>2, <2>1 DEF RunOK
  <2>2. CASE <<r.draft, f>> \notin op
    <3> DEFINE x == [draft |-> r.draft, text |-> r.content]
               b == <<r.draft, f>>
    <3>1. x \in rev /\ b \in op2 \ op
      BY <1>2, <2>2 DEF RunOK
    <3>2. x.draft = b[1]
      OBVIOUS
    <3>3. QED
      BY <3>1, <3>2 DEF Grows
  <2>3. QED
    BY <2>1, <2>2
<1>3. [draft |-> r.draft, text |-> r.content] \in rev2
  BY DEF RunOK, Grows
<1>4. QED
  BY <1>1, <1>2, <1>3 DEF RunOK

LEMMA EnvironmentKept ==
  ASSUME NEW ch, NEW rev, NEW op, NEW ch2, NEW rev2, NEW op2,
         Grows(ch, rev, op, ch2, rev2, op2), NEW m
  PROVE  /\ Loose(m, ch, rev, op) => Loose(m, ch2, rev2, op2)
         /\ Sound(m, ch, rev, op) => Sound(m, ch2, rev2, op2)
<1>1. ASSUME Loose(m, ch, rev, op)
      PROVE  Loose(m, ch2, rev2, op2)
  <2>1. ASSUME NEW c \in Chapter, m.run[c] # None
        PROVE  RunOK(m.run[c], ch2, rev2, op2) /\ Settled(m, c, ch2)
    <3>1. RunOK(m.run[c], ch, rev, op) /\ Settled(m, c, ch) /\ m.run[c] \in Run
      BY <1>1, <2>1, Parts DEF Loose
    <3>2. QED
      BY <3>1, RunOKKept, InChainKept DEF Settled
  <2>2. ASSUME NEW c \in Chapter, m.state[c] = "Approved"
        PROVE  m.run[c] # None /\ InChain(m.run[c], ch2)
    BY <1>1, <2>2, InChainKept DEF Loose
  <2>3. QED
    BY <1>1, <2>1, <2>2 DEF Loose
<1>2. QED
  BY <1>1 DEF Sound

-----------------------------------------------------------------------------
\* One chapter changes, and has a run afterwards.
LEMMA OneChanged ==
  ASSUME NEW m, NEW n \in Controller, NEW ch, NEW rev, NEW op,
         Loose(m, ch, rev, op), NEW c \in Chapter,
         n.order = m.order, m.order[c] # 0,
         \A d \in Chapter \ {c} :
           /\ n.run[d] = m.run[d] /\ n.state[d] = m.state[d]
           /\ n.provisional[d] = m.provisional[d],
         n.run[c] # None, RunOK(n.run[c], ch, rev, op), Settled(n, c, ch),
         n.run[c].order = m.order[c],
         n.state[c] # "Unknown",
         n.state[c] = "Approved" => InChain(n.run[c], ch)
  PROVE  Loose(n, ch, rev, op)
<1>1. Bounded(n)
  BY DEF Loose, Bounded
<1>2. Consistent(n)
  <2> SUFFICES ASSUME NEW d \in Chapter
               PROVE  /\ n.order[d] = 0 <=> n.state[d] = "Unknown"
                      /\ n.run[d] # None => n.order[d] # 0 /\ n.run[d].order = n.order[d]
    BY DEF Consistent
  <2>1. CASE d = c
    BY <2>1
  <2>2. CASE d # c
    BY <2>2 DEF Loose, Consistent
  <2>3. QED
    BY <2>1, <2>2
<1>3. ASSUME NEW d \in Chapter, n.run[d] # None
      PROVE  RunOK(n.run[d], ch, rev, op) /\ Settled(n, d, ch)
  <2>1. CASE d = c
    BY <2>1
  <2>2. CASE d # c
    BY <1>3, <2>2 DEF Loose, Settled
  <2>3. QED
    BY <2>1, <2>2
<1>4. ASSUME NEW d \in Chapter
      PROVE  /\ n.state[d] = "Approved" => n.run[d] # None /\ InChain(n.run[d], ch)
             /\ n.run[d] = None /\ n.state[d] \in Old => n.provisional[d] = None
  <2>1. CASE d = c
    BY <2>1
  <2>2. CASE d # c
    BY <2>2 DEF Loose
  <2>3. QED
    BY <2>1, <2>2
<1>5. QED
  BY <1>1, <1>2, <1>3, <1>4 DEF Loose

\* A chapter that is registered next gets an order of its own.
LEMMA NextOrderNew ==
  ASSUME NEW m \in Controller, Bounded(m)
  PROVE  NextOrder(m) \in Nat \ {0}
<1> DEFINE R == Registered(m)
           T == {u \in Nat : \A c \in R : m.order[c] <= u}
<1>0. R \subseteq Chapter /\ \A c \in R : m.order[c] \in Nat \ {0}
  BY Parts DEF Registered
<1>1. CASE R = {}
  BY <1>1 DEF NextOrder
<1>2. CASE R # {}
  <2>1. T # {}
    BY <1>0 DEF Bounded
  <2>2. PICK u \in T : \A v \in T : u <= v
    BY <2>1, Smallest
  <2> HIDE DEF R
  <2>3. PICK c \in R : m.order[c] = u
    <3> SUFFICES ASSUME \A c \in R : m.order[c] # u
                 PROVE  FALSE
      OBVIOUS
    <3>1. \A c \in R : m.order[c] <= u - 1
      BY <1>0
    <3>2. u - 1 \in Nat
      BY <1>0, <1>2, <3>1
    <3>3. u - 1 \in T
      BY <3>1, <3>2
    <3>4. QED
      BY <2>2, <3>3
  <2>4. \A d \in R : m.order[d] <= m.order[c]
    BY <2>3
  <2> DEFINE e == CHOOSE e \in R : \A d \in R : m.order[d] <= m.order[e]
  <2>5. e \in R
    BY <2>4
  <2>6. NextOrder(m) = 1 + m.order[e]
    BY <1>2 DEF NextOrder, R
  <2> HIDE DEF e
  <2>7. QED
    BY <1>0, <2>5, <2>6
<1>3. QED
  BY <1>1, <1>2

-----------------------------------------------------------------------------
LEMMA NewSound ==
  ASSUME NEW ch, NEW rev, NEW op
  PROVE  Sound(NewController, ch, rev, op)
<1>1. NewController \in Controller
  BY DEF NewController, Controller, NoText, ChapterState, RunState
<1>2. \A c \in Chapter : /\ NewController.order[c] = 0
                         /\ NewController.state[c] = "Unknown"
                         /\ NewController.run[c] = None
  BY DEF NewController
<1>3. Bounded(NewController)
  BY <1>2 DEF Bounded
<1>4. QED
  BY <1>1, <1>2, <1>3 DEF Sound, Loose, Consistent, Old

LEMMA RegisteredSound ==
  ASSUME NEW m, NEW n \in Controller, NEW ch, NEW rev, NEW op,
         Sound(m, ch, rev, op),
         NEW fresh \in SUBSET Chapter, NEW k \in Nat,
         n.run = m.run, n.provisional = m.provisional,
         \A c \in fresh : /\ m.order[c] = 0
                          /\ n.order[c] \in 1 .. k /\ n.state[c] = "Planned",
         \A c \in Chapter \ fresh : n.order[c] = m.order[c] /\ n.state[c] = m.state[c]
  PROVE  Sound(n, ch, rev, op)
<1>0. m \in Controller /\ Bounded(m) /\ Consistent(m)
  BY DEF Sound, Loose
<1>1. Bounded(n)
  <2>1. PICK u \in Nat : \A c \in Chapter : m.order[c] <= u
    BY <1>0 DEF Bounded
  <2>2. \A c \in Chapter : n.order[c] <= u + k
    <3> SUFFICES ASSUME NEW c \in Chapter PROVE n.order[c] <= u + k
      OBVIOUS
    <3>1. m.order[c] \in Nat
      BY <1>0, Parts
    <3>2. CASE c \in fresh
      BY <3>2
    <3>3. CASE c \notin fresh
      BY <2>1, <3>1, <3>3
    <3>4. QED
      BY <3>2, <3>3
  <2>3. QED
    BY <2>2 DEF Bounded
<1>2. \A c \in fresh : m.run[c] = None /\ n.order[c] # 0
  BY <1>0 DEF Consistent
<1>3. Consistent(n)
  BY <1>0, <1>2 DEF Consistent
<1>4. \A c \in Chapter : n.run[c] # None =>
        RunOK(n.run[c], ch, rev, op) /\ Settled(n, c, ch)
  BY DEF Sound, Loose, Settled
<1>5. ASSUME NEW c \in Chapter
      PROVE  /\ n.state[c] = "Approved" => n.run[c] # None /\ InChain(n.run[c], ch)
             /\ n.state[c] \in Old => n.provisional[c] = None
  BY DEF Sound, Loose, Old
<1>6. QED
  BY <1>1, <1>3, <1>4, <1>5 DEF Sound, Loose

LEMMA PlannedSound ==
  ASSUME Sound(mem, chain, reviewed, open), NEW c \in Chapter
  PROVE  Sound(Planned(c), chain, reviewed, open) /\ Planned(c).order[c] # 0
<1>1. CASE mem.order[c] # 0
  BY <1>1 DEF Planned
<1>2. CASE mem.order[c] = 0
  <2> DEFINE k == NextOrder(mem)
             n == Register(mem, c, k)
  <2>0. mem \in Controller /\ Bounded(mem)
    BY DEF Sound, Loose
  <2>1. k \in Nat \ {0}
    BY <2>0, NextOrderNew
  <2> HIDE DEF k
  <2>2. /\ n \in Controller /\ n.run = mem.run /\ n.provisional = mem.provisional
        /\ n.order[c] = k /\ n.state[c] = "Planned"
        /\ \A d \in Chapter \ {c} : n.order[d] = mem.order[d] /\ n.state[d] = mem.state[d]
    BY <2>0, <2>1 DEF Register, Controller, ChapterState
  <2>3. Planned(c) = n
    BY <1>2 DEF Planned, k
  <2> HIDE DEF n
  <2>4. n.order[c] \in 1 .. k
    BY <2>1, <2>2
  <2>5. Sound(n, chain, reviewed, open)
    BY <1>2, <2>1, <2>2, <2>4, RegisteredSound, {c} \in SUBSET Chapter, k \in Nat
  <2>6. QED
    BY <2>1, <2>2, <2>3, <2>5
<1>3. QED
  BY <1>1, <1>2

-----------------------------------------------------------------------------
WorkType ==
  [chapter : Chapter \cup {None}, draft : Nat, text : Text \cup {None},
   findings : [FindingId -> Nat], asked : SUBSET Critic, failing : SUBSET Critic,
   revisions : Nat]

\* What is being written is a changeset of its own, and what its critics
\* objected to is among its findings.
WorkOK ==
  /\ work \in WorkType
  /\ pc # "idle" => attached
  /\ pc # "idle" => work.chapter \in Chapter /\ mem.order[work.chapter] # 0
  /\ pc \in {"plan", "write"} => drafts < MaxDrafts
  /\ pc = "review" =>
       /\ work.draft = drafts /\ work.draft \in Draft /\ work.text \in Text
       /\ \A x \in reviewed : x.draft # work.draft
       /\ \A f \in FindingId : <<work.draft, f>> \in open /\ f[2] = work.text =>
            work.findings[f] > 0

\* What is in the canon has no objection left.
CanonOK ==
  \A i \in DOMAIN chain :
    /\ chain[i] \in reviewed
    /\ \A b \in open : ~(b[1] = chain[i].draft /\ b[2][2] = chain[i].text)

RestOK ==
  /\ session \in {"none", "named", "ahead"}
  /\ attached \in BOOLEAN
  /\ pc \in {"idle", "plan", "write", "review"}
  /\ queue \in Seq(Chapter)
  /\ chain \in Seq(Candidates)
  /\ file \in [Draft -> Text \cup {None}]
  /\ drafts \in 0 .. MaxDrafts
  /\ reviewed \subseteq Candidates
  /\ open \subseteq Blocker
  /\ rejected \subseteq Draft

\* The drafts that were reviewed or objected to were written.
DraftsOK ==
  /\ \A x \in reviewed : x.draft <= drafts
  /\ \A b \in open : b[1] <= drafts

SavedOK ==
  /\ saved # None => Sound(saved, chain, reviewed, open)
  /\ session = "named" => saved # None

IInv ==
  /\ RestOK
  /\ Sound(mem, chain, reviewed, open)
  /\ SavedOK
  /\ CanonOK
  /\ DraftsOK
  /\ WorkOK

LEMMA NoWorkType == NoWork \in WorkType
  BY DEF NoWork, WorkType, NoFindings

LEMMA InitIInv == Init => IInv
<1> SUFFICES ASSUME Init PROVE IInv
  OBVIOUS
<1> USE DEF Init
<1>1. RestOK
  BY BoundsAssumption DEF RestOK
<1>2. WorkOK
  BY NoWorkType DEF WorkOK
<1>3. Sound(mem, chain, reviewed, open)
  BY NewSound
<1>4. QED
  BY <1>1, <1>2, <1>3 DEF IInv, SavedOK, CanonOK, DraftsOK

LEMMA RecordOK ==
  ASSUME NEW m, NEW o \in RecordOutcome, Record(m, o), RestOK,
         Sound(m, chain', reviewed', open'),
         saved # None => Sound(saved, chain', reviewed', open'),
         session = "named" => saved # None
  PROVE  /\ SavedOK'
         /\ session' \in {"none", "named", "ahead"}
<1>1. m # None
  BY NoneAssumption DEF Sound, Loose
<1>2. CASE o = "done"
  BY <1>1, <1>2 DEF Record, SavedOK
<1>3. CASE o = "appendFailed"
  BY <1>3 DEF Record, SavedOK, RestOK
<1>4. CASE o = "checkpointFailed"
  BY <1>4 DEF Record, SavedOK
<1>5. QED
  BY <1>2, <1>3, <1>4 DEF RecordOutcome

-----------------------------------------------------------------------------
\* The steps that write a chapter.
LEMMA BeginWriteIInv ==
  ASSUME IInv, NEW c \in Chapter, BeginWrite(c)
  PROVE  IInv'
<1> DEFINE p == Planned(c)
           d == DropFindings(p, {c})
           n == [d EXCEPT !.state[c] = "Running"]
<1> USE DEF BeginWrite
<1>1. Sound(p, chain, reviewed, open) /\ p.order[c] # 0
  BY PlannedSound DEF IInv
<1>2. Sound(d, chain, reviewed, open)
  BY <1>1, DropLoose DEF Sound
<1>3. d.order = p.order
  BY <1>1, DropKeeps DEF Sound, Loose
<1> HIDE DEF p, d
<1>4. /\ n \in Controller /\ n.order = d.order /\ n.run = d.run
      /\ n.provisional = d.provisional /\ n.state[c] = "Running"
      /\ \A e \in Chapter \ {c} : n.state[e] = d.state[e]
  BY <1>2 DEF Sound, Loose, Controller, ChapterState
<1>5. mem' = n
  BY DEF p, d
<1> HIDE DEF n
<1>6. d.state[c] # "Unknown"
  BY <1>1, <1>2, <1>3 DEF Sound, Loose, Consistent
<1>7. Loose(n, chain, reviewed, open)
  <2>1. \A e \in Chapter : d.run[e] # None =>
          /\ n.run[e] # None /\ Keeps(n.run[e], d.run[e])
          /\ n.run[e].state = "Approved" => d.run[e].state = "Approved"
          /\ n.run[e].state \in Old => n.provisional[e] = None
    BY <1>2, <1>4 DEF Sound, Loose, Settled, Keeps
  <2>2. \A e \in Chapter : n.state[e] = "Unknown" <=> d.state[e] = "Unknown"
    BY <1>4, <1>6
  <2>3. \A e \in Chapter : n.state[e] = "Approved" =>
          d.state[e] = "Approved" \/ (d.run[e] # None /\ d.run[e].state = "Approved")
    BY <1>4
  <2>4. \A e \in Chapter : n.run[e] = None /\ n.state[e] \in Old => n.provisional[e] = None
    BY <1>2, <1>4 DEF Sound, Loose, Old
  <2>5. QED
    BY <1>2, <1>4, <2>1, <2>2, <2>3, <2>4, LooseKept DEF Sound
<1>8. Sound(n, chain, reviewed, open)
  BY <1>2, <1>4, <1>7 DEF Sound, Old
<1>9. WorkOK'
  <2>1. work' \in WorkType /\ work'.chapter = c
    BY NoWorkType DEF WorkType, NoWork
  <2>2. mem'.order[c] # 0
    BY <1>1, <1>3, <1>4, <1>5
  <2>3. QED
    BY <2>1, <2>2 DEF WorkOK, MayWrite
<1>10. RestOK' /\ SavedOK'
  BY DEF IInv, RestOK, SavedOK, diskVars, historyVars
<1>11. QED
  BY <1>5, <1>8, <1>9, <1>10 DEF IInv, CanonOK, DraftsOK, historyVars

LEMMA WriteRefusedIInv ==
  ASSUME IInv, NEW c \in Chapter, WriteRefused(c)
  PROVE  IInv'
  BY DEF IInv, RestOK, SavedOK, CanonOK, DraftsOK, WorkOK, WriteRefused, historyVars

LEMMA ArchitectAnswersIInv ==
  ASSUME IInv, ArchitectAnswers
  PROVE  IInv'
  BY DEF IInv, RestOK, SavedOK, CanonOK, DraftsOK, WorkOK, ArchitectAnswers, diskVars, historyVars

LEMMA WriterAnswersIInv ==
  ASSUME IInv, NEW t \in Text, WriterAnswers(t)
  PROVE  IInv'
<1> USE DEF WriterAnswers
<1>1. drafts < MaxDrafts /\ drafts \in Nat /\ MaxDrafts \in Nat
  BY BoundsAssumption DEF IInv, RestOK, WorkOK
<1>2. drafts' \in Draft /\ drafts' \in 0 .. MaxDrafts /\ drafts < drafts'
  BY <1>1 DEF Draft
<1>3. RestOK'
  <2>1. file' \in [Draft -> Text \cup {None}]
    BY <1>2 DEF IInv, RestOK, Rewrite
  <2>2. QED
    BY <1>2, <2>1 DEF IInv, RestOK, historyVars
<1>4. /\ \A x \in reviewed : x.draft < drafts'
      /\ \A b \in open : b[1] < drafts'
  <2>1. /\ \A x \in reviewed : x.draft \in Nat /\ x.draft <= drafts
        /\ \A b \in open : b[1] \in Nat /\ b[1] <= drafts
    BY DEF IInv, RestOK, DraftsOK, Candidates, Draft, Blocker
  <2>2. QED
    BY <1>1, <1>2, <2>1
<1>5. DraftsOK'
  <2>1. /\ \A x \in reviewed : x.draft \in Nat
        /\ \A b \in open : b[1] \in Nat
    BY DEF IInv, RestOK, Candidates, Draft, Blocker
  <2>2. QED
    BY <1>1, <1>2, <1>4, <2>1 DEF DraftsOK, historyVars
<1>6. WorkOK'
  <2>1. /\ work' \in WorkType /\ work'.draft = drafts' /\ work'.text = t
        /\ work'.chapter = work.chapter
    <3>1. work \in WorkType /\ drafts' \in Nat
      BY <1>1 DEF IInv, WorkOK
    <3>2. work' = [work EXCEPT !.draft = drafts', !.text = t, !.asked = Critic]
      OBVIOUS
    <3>3. QED
      BY <3>1, <3>2 DEF WorkType
  <2>2. \A x \in reviewed' : x.draft # work'.draft
    BY <1>1, <1>2, <1>4, <2>1 DEF historyVars, IInv, RestOK, Candidates, Draft
  <2>3. \A f \in FindingId : <<work'.draft, f>> \notin open'
    <3> SUFFICES ASSUME NEW f \in FindingId, <<work'.draft, f>> \in open'
                 PROVE  FALSE
      OBVIOUS
    <3>1. <<drafts', f>> \in open /\ <<drafts', f>>[1] = drafts'
      BY <2>1 DEF historyVars
    <3>2. drafts' < drafts'
      BY <1>4, <3>1
    <3>3. QED
      BY <1>1, <3>2
  <2>4. QED
    BY <1>2, <2>1, <2>2, <2>3 DEF IInv, WorkOK
<1>7. QED
  BY <1>3, <1>5, <1>6 DEF IInv, SavedOK, CanonOK, historyVars

LEMMA TimesNat ==
  ASSUME NEW B \in SUBSET Critic, NEW said, NEW f
  PROVE  /\ Times(B, said, f) \in Nat
         /\ Times(B, said, f) > 0 => f[2] = work.text
<1> DEFINE R == {r \in B : f[2] = work.text /\ f[1] \in said[r]}
<1>1. IsFiniteSet(R)
  BY CriticAssumption, FS_Subset
<1>2. Cardinality(R) \in Nat
  BY <1>1, FS_CardinalityType
<1>3. f[2] # work.text => Cardinality(R) = 0
  BY FS_EmptySet
<1>4. QED
  BY <1>2, <1>3 DEF Times

\* The critics object to the candidate under review only.
LEMMA CriticsObject ==
  ASSUME IInv, NEW B \in SUBSET Critic, NEW said, CriticsAnswer(B, said)
  PROVE  /\ open \subseteq open'
         /\ open' \subseteq Blocker
         /\ \A b \in open' \ open :
              b \in Blocker /\ b[1] = work.draft /\ b[2][2] = work.text
                /\ Times(B, said, b[2]) > 0
         /\ \A f \in FindingId : Times(B, said, f) \in Nat
<1>1. \A f \in FindingId : /\ Times(B, said, f) \in Nat
                           /\ Times(B, said, f) > 0 => f[2] = work.text
  BY TimesNat
<1>2. work.draft \in Draft /\ open \subseteq Blocker
  BY DEF IInv, WorkOK, RestOK, CriticsAnswer
<1> DEFINE new == {work.draft} \X {f \in FindingId : Times(B, said, f) > 0}
<1>3. open' = open \cup new
  BY DEF CriticsAnswer
<1>4. \A b \in new : b \in Blocker /\ b[1] = work.draft /\ b[2][2] = work.text
                        /\ Times(B, said, b[2]) > 0
  <2> SUFFICES ASSUME NEW f \in FindingId, Times(B, said, f) > 0, NEW b,
                      b = <<work.draft, f>>
               PROVE  /\ b \in Blocker /\ b[1] = work.draft /\ b[2][2] = work.text
                      /\ Times(B, said, b[2]) > 0
    OBVIOUS
  <2>1. b[1] = work.draft /\ b[2] = f
    OBVIOUS
  <2>2. b \in Blocker
    BY <1>2 DEF Blocker
  <2>3. f[2] = work.text
    BY <1>1
  <2>4. b[2][2] = work.text /\ Times(B, said, b[2]) > 0
    BY <2>1, <2>3
  <2>5. QED
    BY <2>1, <2>2, <2>4
<1> HIDE DEF new
<1>5. /\ open \subseteq open' /\ open' \subseteq Blocker
      /\ \A b \in open' \ open : b \in new
  BY <1>2, <1>3, <1>4
<1>6. QED
  BY <1>1, <1>4, <1>5

LEMMA CriticsAnswerIInv ==
  ASSUME IInv, NEW B \in SUBSET Critic, NEW said, CriticsAnswer(B, said)
  PROVE  IInv'
<1>1. /\ open \subseteq open' /\ open' \subseteq Blocker
      /\ \A b \in open' \ open :
           b \in Blocker /\ b[1] = work.draft /\ b[2][2] = work.text
             /\ Times(B, said, b[2]) > 0
      /\ \A f \in FindingId : Times(B, said, f) \in Nat
  BY CriticsObject
<1>2. /\ work \in WorkType /\ pc = "review" /\ work.draft = drafts /\ drafts \in Nat
      /\ \A x \in reviewed : x.draft # work.draft
  BY DEF IInv, WorkOK, RestOK, CriticsAnswer
<1>3. UNCHANGED <<mem, attached, pc, queue, saved, session, chain, file, drafts,
                  reviewed, rejected>>
  BY DEF CriticsAnswer, diskVars
<1>4. Grows(chain, reviewed, open, chain', reviewed', open')
  BY <1>1, <1>2, <1>3 DEF Grows, IInv, RestOK
<1>5. /\ Sound(mem', chain', reviewed', open')
      /\ saved # None => Sound(saved', chain', reviewed', open')
  BY <1>3, <1>4, EnvironmentKept DEF IInv, SavedOK
<1>6. CanonOK'
  BY <1>1, <1>2, <1>3 DEF IInv, CanonOK
<1>7. DraftsOK'
  BY <1>1, <1>2, <1>3 DEF IInv, DraftsOK
<1>8. WorkOK'
  <2> DEFINE found == [f \in FindingId |-> work.findings[f] + Times(B, said, f)]
  <2>1. /\ found \in [FindingId -> Nat]
        /\ \A f \in FindingId : work.findings[f] \in Nat /\ found[f] = work.findings[f] + Times(B, said, f)
    BY <1>1, <1>2 DEF WorkType
  <2>2. work' = [work EXCEPT !.asked = @ \ B, !.failing = @ \cup {r \in B : said[r] # {}},
                             !.findings = found]
    BY DEF CriticsAnswer
  <2> HIDE DEF found
  <2>3. /\ work' \in WorkType /\ work'.chapter = work.chapter /\ work'.draft = work.draft
        /\ work'.text = work.text /\ work'.findings = found
    BY <1>2, <2>1, <2>2 DEF WorkType
  <2>4. ASSUME NEW f \in FindingId, <<work.draft, f>> \in open', f[2] = work.text
        PROVE  found[f] > 0
    <3>1. CASE <<work.draft, f>> \in open
      <4>1. work.findings[f] > 0
        BY <1>2, <2>4, <3>1 DEF IInv, WorkOK
      <4>2. QED
        BY <1>1, <2>1, <4>1
    <3>2. CASE <<work.draft, f>> \notin open
      <4>1. Times(B, said, <<work.draft, f>>[2]) > 0
        BY <1>1, <2>4, <3>2
      <4>2. Times(B, said, f) > 0
        BY <4>1
      <4>3. QED
        BY <1>1, <2>1, <4>2
    <3>3. QED
      BY <3>1, <3>2
  <2>5. QED
    BY <1>2, <1>3, <2>3, <2>4 DEF IInv, WorkOK
<1>9. QED
  BY <1>1, <1>3, <1>5, <1>6, <1>7, <1>8 DEF IInv, RestOK, SavedOK

LEMMA ReviserSilentIInv ==
  ASSUME IInv, ReviserSilent
  PROVE  IInv'
<1> USE DEF ReviserSilent
<1>1. work \in WorkType
  BY DEF IInv, WorkOK
<1>2. /\ work' \in WorkType /\ work'.chapter = work.chapter /\ work'.draft = work.draft
      /\ work'.text = work.text /\ work'.findings = work.findings
  BY <1>1 DEF WorkType
<1>3. WorkOK'
  BY <1>2 DEF IInv, WorkOK, diskVars, historyVars
<1>4. QED
  BY <1>3 DEF IInv, RestOK, SavedOK, CanonOK, DraftsOK, diskVars, historyVars

LEMMA ReviserAnswersIInv ==
  ASSUME IInv, NEW t \in Text, ReviserAnswers(t)
  PROVE  IInv'
<1> USE DEF ReviserAnswers
<1>1. /\ work \in WorkType /\ pc = "review" /\ work.draft = drafts /\ work.draft \in Draft
      /\ \A x \in reviewed : x.draft # work.draft
  BY DEF IInv, WorkOK, Revising
<1>2. open' \subseteq open /\ \A b \in open' : b[1] # work.draft
  OBVIOUS
<1>3. Grows(chain, reviewed, open, chain', reviewed', open')
  BY <1>2 DEF Grows, IInv, RestOK
<1>4. Sound(mem', chain', reviewed', open') /\ mem'.order = mem.order
  <2>1. Sound(mem', chain, reviewed, open) /\ mem'.order = mem.order
    <3>1. /\ Sound(mem, chain, reviewed, open) /\ Loose(mem, chain, reviewed, open)
          /\ mem \in Controller
      BY DEF IInv, Sound, Loose
    <3>2. mem' = DropFindings(mem, {work.chapter})
      OBVIOUS
    <3>3. QED
      BY <3>1, <3>2, DropLoose, DropKeeps
  <2>2. QED
    BY <2>1, <1>3, EnvironmentKept
<1>5. SavedOK'
  BY <1>3, EnvironmentKept DEF IInv, SavedOK
<1>6. WorkOK'
  <2>1. /\ work' \in WorkType /\ work'.chapter = work.chapter /\ work'.draft = work.draft
        /\ work'.text = t
    <3>1. NoFindings \in [FindingId -> Nat] /\ work.revisions + 1 \in Nat
      BY <1>1 DEF NoFindings, WorkType
    <3>2. QED
      BY <1>1, <3>1 DEF WorkType
  <2>2. \A f \in FindingId : <<work'.draft, f>> \notin open'
    BY <1>2, <2>1
  <2>3. QED
    BY <1>1, <1>4, <2>1, <2>2 DEF IInv, WorkOK
<1>7. file' \in [Draft -> Text \cup {None}]
  BY DEF IInv, RestOK, Rewrite
<1>8. QED
  BY <1>2, <1>4, <1>5, <1>6, <1>7 DEF IInv, RestOK, CanonOK, DraftsOK

LEMMA NewRunType ==
  ASSUME IInv, Finished
  PROVE  /\ NewRun \in Run
         /\ NewRun.state \in {"Candidate", "Approvable"}
         /\ NewRun.order = mem.order[work.chapter]
         /\ NewRun.draft = work.draft /\ NewRun.content = work.text
         /\ NewRun.base = Len(chain) /\ NewRun.blockers = WrittenFindings
<1>1. /\ work.draft \in Draft /\ work.text \in Text /\ work.chapter \in Chapter
      /\ work.findings \in [FindingId -> Nat]
  BY DEF IInv, WorkOK, WorkType, Finished
<1>2. mem \in Controller
  BY DEF IInv, Sound, Loose
<1>3. Len(chain) \in Nat /\ mem.order[work.chapter] \in Nat
  BY <1>1, <1>2, Parts DEF IInv, RestOK
<1>4. Dependency(mem.order[work.chapter]) \in Draft \cup {None}
  <2> SUFFICES ASSUME NEW i \in DOMAIN chain
               PROVE  chain[i].draft \in Draft
    BY DEF Dependency
  <2>1. chain \in Seq(Candidates)
    BY DEF IInv, RestOK
  <2>2. chain[i] \in Candidates
    BY <2>1
  <2>3. QED
    BY <2>2 DEF Candidates
<1> DEFINE seen == [d \in Chapter |-> IF d \in Registered(mem)
                                        /\ mem.order[d] < mem.order[work.chapter]
                                     THEN mem.provisional[d] ELSE None]
<1>5. seen \in [Chapter -> Text \cup {None}]
  BY <1>2, Parts
<1>6. WrittenFindings \in SUBSET FindingId
  BY DEF WrittenFindings
<1> HIDE DEF seen
<1> DEFINE state == IF CandidateBlocks THEN "Candidate" ELSE "Approvable"
<1>7. state \in {"Candidate", "Approvable"} /\ state \in RunState
  BY DEF RunState
<1> HIDE DEF state
<1>8. NewRun = [draft |-> work.draft, text |-> work.text, content |-> work.text,
                validated |-> TRUE, base |-> Len(chain), order |-> mem.order[work.chapter],
                depends |-> Dependency(mem.order[work.chapter]), seen |-> seen,
                state |-> state, findings |-> work.findings, blockers |-> WrittenFindings]
  BY DEF NewRun, seen, state
<1>9. QED
  BY <1>1, <1>3, <1>4, <1>5, <1>6, <1>7, <1>8 DEF Run

LEMMA EndWriteIInv ==
  ASSUME IInv, NEW o \in RecordOutcome, EndWrite(o)
  PROVE  IInv'
<1> DEFINE c == work.chapter
           x == [draft |-> work.draft, text |-> work.text]
           m == [mem EXCEPT !.run[c] = NewRun, !.state[c] = NewRun.state,
                            !.falsePositive[c] = {}, !.provisional[c] = work.text]
<1> USE DEF EndWrite
<1>1. /\ c \in Chapter /\ mem.order[c] # 0 /\ work.draft = drafts /\ work.draft \in Draft
      /\ work.text \in Text /\ work.findings \in [FindingId -> Nat]
      /\ \A y \in reviewed : y.draft # work.draft
      /\ \A f \in FindingId : <<work.draft, f>> \in open /\ f[2] = work.text =>
           work.findings[f] > 0
  BY DEF IInv, WorkOK, WorkType, Finished
<1>2. /\ NewRun \in Run /\ NewRun # None
      /\ NewRun.state \in {"Candidate", "Approvable"}
      /\ NewRun.order = mem.order[c]
      /\ NewRun.draft = work.draft /\ NewRun.content = work.text
      /\ NewRun.base = Len(chain) /\ NewRun.blockers = WrittenFindings
  BY NewRunType, NoneAssumption
<1>3. x \in Candidates /\ reviewed' = reviewed \cup {x}
  BY <1>1 DEF Candidates
<1>4. Grows(chain, reviewed, open, chain', reviewed', open')
  BY <1>3 DEF Grows, IInv, RestOK
<1>5. Sound(mem, chain', reviewed', open')
  BY <1>4, EnvironmentKept DEF IInv
<1>6. /\ m \in Controller /\ m.order = mem.order
      /\ m.run[c] = NewRun /\ m.state[c] = NewRun.state
      /\ \A d \in Chapter \ {c} :
           /\ m.run[d] = mem.run[d] /\ m.state[d] = mem.state[d]
           /\ m.provisional[d] = mem.provisional[d]
  <2>1. mem \in Controller
    BY <1>5 DEF Sound, Loose
  <2>2. NewRun.state \in ChapterState
    BY <1>2 DEF ChapterState, RunState
  <2> HIDE DEF c
  <2>3. QED
    BY <1>1, <1>2, <2>1, <2>2 DEF Controller
<1>7. RunOK(NewRun, chain', reviewed', open')
  <2>1. \A i \in DOMAIN chain : chain[i].draft # work.draft
    BY <1>1 DEF IInv, CanonOK
  <2>2. \A f \in FindingId : <<work.draft, f>> \in open /\ f[2] = work.text =>
          f \in WrittenFindings
    BY <1>1 DEF WrittenFindings
  <2>3. Len(chain) \in Nat
    BY DEF IInv, RestOK
  <2>4. QED
    BY <1>2, <1>3, <2>1, <2>2, <2>3 DEF RunOK
<1> HIDE DEF c, x, m
<1>8. Loose(m, chain', reviewed', open')
  <2>1. Settled(m, c, chain')
    BY <1>2, <1>6 DEF Settled, Old
  <2>2. Loose(mem, chain', reviewed', open')
    BY <1>5 DEF Sound
  <2>3. /\ m.run[c] # None /\ RunOK(m.run[c], chain', reviewed', open')
        /\ m.run[c].order = mem.order[c]
        /\ m.state[c] # "Unknown" /\ m.state[c] # "Approved"
    BY <1>2, <1>6, <1>7
  <2>4. QED
    BY <1>1, <1>6, <2>1, <2>2, <2>3, OneChanged
<1>9. mem' = Refresh(m) /\ Record(Refresh(m), o)
  BY DEF m, c
<1>10. Sound(mem', chain', reviewed', open')
  BY <1>8, <1>9, RefreshSound
<1>11. SavedOK' /\ session' \in {"none", "named", "ahead"}
  <2>1. /\ saved # None => Sound(saved, chain', reviewed', open')
        /\ session = "named" => saved # None
    BY <1>4, EnvironmentKept DEF IInv, SavedOK
  <2>2. QED
    BY <1>9, <1>10, <2>1, RecordOK DEF IInv
<1>12. WorkOK'
  BY NoWorkType DEF WorkOK
<1>13. queue' \in Seq(Chapter)
  BY DEF IInv, RestOK
<1>14. RestOK'
  BY <1>3, <1>11, <1>13 DEF IInv, RestOK
<1>15. CanonOK'
  BY <1>3 DEF IInv, CanonOK
<1>16. DraftsOK'
  <2>1. x.draft = drafts /\ drafts \in Nat
    BY <1>1 DEF IInv, RestOK, x
  <2>2. QED
    BY <1>3, <2>1 DEF IInv, DraftsOK
<1>17. QED
  BY <1>10, <1>11, <1>12, <1>14, <1>15, <1>16 DEF IInv

LEMMA WriteFailsIInv ==
  ASSUME IInv, WriteFails
  PROVE  IInv'
  BY NoWorkType DEF IInv, RestOK, SavedOK, CanonOK, DraftsOK, WorkOK, WriteFails, diskVars, historyVars

-----------------------------------------------------------------------------
\* What the human does.
LEMMA StartContinuousIInv ==
  ASSUME IInv, NEW n \in RunLengths, NEW ids \in [1 .. n -> Chapter], StartContinuous(ids)
  PROVE  IInv'
<1>0. /\ n \in Nat /\ ids \in Seq(Chapter) /\ Len(ids) = n
      /\ Ready /\ UNCHANGED <<attached, pc, work, diskVars, historyVars>>
  BY BoundsAssumption DEF StartContinuous
<1> DEFINE fits == {k \in 0 .. Len(ids) : \A i \in 1 .. k : FitsRun(mem, ids, i)}
           last == CHOOSE k \in fits : \A l \in fits : l <= k
           new == {i \in 1 .. last : mem.order[ids[i]] = 0}
           place(c) == CHOOSE i \in new : ids[i] = c
           fresh == {ids[i] : i \in new}
<1>1. /\ mem' = [mem EXCEPT
           !.order = [c \in Chapter |-> IF c \in fresh THEN place(c) ELSE @[c]],
           !.state = [c \in Chapter |-> IF c \in fresh THEN "Planned" ELSE @[c]]]
      /\ queue' = IF last = Len(ids) THEN ids ELSE << >>
  BY DEF StartContinuous
<1>2. last \in 0 .. n
  <2> DEFINE T == {n - k : k \in fits}
  <2>1. 0 \in fits /\ \A k \in fits : k \in 0 .. n
    BY <1>0
  <2> HIDE DEF fits
  <2>2. T \in SUBSET Nat /\ T # {}
    BY <1>0, <2>1
  <2>3. PICK x \in T : \A y \in T : x <= y
    BY <2>2, Smallest
  <2>4. PICK k \in fits : x = n - k
    OBVIOUS
  <2>5. \A l \in fits : l <= k
    <3> SUFFICES ASSUME NEW l \in fits PROVE l <= k
      OBVIOUS
    <3>1. n - k <= n - l
      BY <2>3, <2>4
    <3>2. QED
      BY <1>0, <2>1, <3>1
  <2>6. last \in fits
    BY <2>5
  <2> HIDE DEF last
  <2>7. QED
    BY <2>1, <2>6
<1> HIDE DEF last, fits
<1>3. \A i \in new : i \in 1 .. n /\ ids[i] \in Chapter /\ mem.order[ids[i]] = 0
  BY <1>0, <1>2
<1>4. \A c \in fresh : c \in Chapter /\ mem.order[c] = 0 /\ place(c) \in 1 .. n
  <2> SUFFICES ASSUME NEW i \in new
               PROVE  /\ ids[i] \in Chapter /\ mem.order[ids[i]] = 0
                      /\ place(ids[i]) \in 1 .. n
    OBVIOUS
  <2>1. place(ids[i]) \in new
    OBVIOUS
  <2> HIDE DEF place, new
  <2>2. QED
    BY <1>3, <2>1
<1> HIDE DEF new, place, fresh
<1>5. mem \in Controller /\ Sound(mem, chain, reviewed, open)
  BY DEF IInv, Sound, Loose
<1>6. /\ mem' \in Controller
      /\ mem'.run = mem.run /\ mem'.provisional = mem.provisional
      /\ \A c \in fresh : mem'.order[c] \in 1 .. n /\ mem'.state[c] = "Planned"
      /\ \A c \in Chapter \ fresh : mem'.order[c] = mem.order[c] /\ mem'.state[c] = mem.state[c]
  <2> DEFINE order == [c \in Chapter |-> IF c \in fresh THEN place(c) ELSE mem.order[c]]
             state == [c \in Chapter |-> IF c \in fresh THEN "Planned" ELSE mem.state[c]]
  <2>1. /\ order \in [Chapter -> Nat] /\ state \in [Chapter -> ChapterState]
        /\ \A c \in fresh : order[c] \in 1 .. n /\ state[c] = "Planned"
        /\ \A c \in Chapter \ fresh : order[c] = mem.order[c] /\ state[c] = mem.state[c]
    BY <1>4, <1>5, Parts DEF ChapterState
  <2>2. mem' = [mem EXCEPT !.order = order, !.state = state]
    BY <1>1
  <2> HIDE DEF order, state
  <2>3. QED
    BY <1>5, <2>1, <2>2 DEF Controller
<1>7. Sound(mem', chain, reviewed, open)
  <2>1. fresh \in SUBSET Chapter
    BY <1>4
  <2>2. \A c \in fresh : /\ mem.order[c] = 0
                         /\ mem'.order[c] \in 1 .. n /\ mem'.state[c] = "Planned"
    BY <1>4, <1>6
  <2>3. QED
    BY <1>0, <1>5, <1>6, <2>1, <2>2, RegisteredSound
<1>8. queue' \in Seq(Chapter)
  BY <1>0, <1>1
<1>9. UNCHANGED <<attached, pc, work, saved, session, chain, file, drafts,
                  reviewed, open, rejected>> /\ pc = "idle"
  BY <1>0 DEF Ready, diskVars, historyVars
<1>10. QED
  BY <1>7, <1>8, <1>9 DEF IInv, RestOK, SavedOK, CanonOK, DraftsOK, WorkOK

\* The rest of the invariant when the human changes the controller only.
LEMMA ControllerChanges ==
  ASSUME IInv, Ready, Sound(mem', chain, reviewed, open),
         UNCHANGED <<attached, pc, work, queue, diskVars>>,
         UNCHANGED <<reviewed, open>>, rejected' \subseteq Draft
  PROVE  IInv'
  BY DEF IInv, RestOK, SavedOK, CanonOK, DraftsOK, WorkOK, Ready, diskVars

LEMMA RunWithBlockers ==
  ASSUME NEW r \in Run, NEW B \in SUBSET FindingId
  PROVE  /\ [r EXCEPT !.blockers = B] \in Run
         /\ [r EXCEPT !.blockers = B].state = r.state
         /\ [r EXCEPT !.blockers = B].draft = r.draft
         /\ [r EXCEPT !.blockers = B].content = r.content
         /\ [r EXCEPT !.blockers = B].base = r.base
         /\ [r EXCEPT !.blockers = B].order = r.order
         /\ [r EXCEPT !.blockers = B].blockers = B
  BY DEF Run

LEMMA RejectIInv ==
  ASSUME IInv, NEW c \in Chapter, Reject(c)
  PROVE  IInv'
<1> USE DEF Reject
<1> DEFINE r == [mem.run[c] EXCEPT !.state = "Rejected"]
           n == [mem EXCEPT !.state[c] = "Rejected", !.run[c].state = "Rejected"]
<1>1. /\ mem \in Controller /\ Loose(mem, chain, reviewed, open)
      /\ Consistent(mem) /\ mem.run[c] \in Run
  BY Parts DEF IInv, Sound, Loose, HasRun
<1>2. r \in Run /\ r.state = "Rejected" /\ Keeps(r, mem.run[c])
  BY <1>1, RunWithState DEF RunState
<1>3. RunOK(mem.run[c], chain, reviewed, open) /\ mem.order[c] # 0
        /\ mem.run[c].order = mem.order[c]
  BY <1>1 DEF Loose, Consistent, HasRun
<1>4. n = [mem EXCEPT !.state[c] = "Rejected", !.run[c] = r]
  BY <1>1, Parts
<1> HIDE DEF r, n
<1>5. /\ n \in Controller /\ n.order = mem.order /\ n.run[c] = r /\ n.state[c] = "Rejected"
      /\ n.provisional = mem.provisional
      /\ \A d \in Chapter \ {c} : n.run[d] = mem.run[d] /\ n.state[d] = mem.state[d]
  BY <1>1, <1>2, <1>4 DEF Controller, ChapterState, RunState
<1>6. Loose(n, chain, reviewed, open)
  <2>1. Settled(n, c, chain)
    BY <1>2, <1>5 DEF Settled, Old
  <2>2. n.run[c] # None /\ RunOK(n.run[c], chain, reviewed, open)
          /\ n.run[c].order = mem.order[c]
    BY <1>2, <1>3, <1>5, KeepsRunOK, NoneAssumption DEF Keeps
  <2>3. QED
    BY <1>1, <1>3, <1>5, <2>1, <2>2, OneChanged
<1>7. Sound(n, chain, reviewed, open)
  BY <1>5, <1>6 DEF Sound, IInv, Old
<1>8. mem' = NoteUpstreamEdit(n, c)
  BY DEF n
<1>9. Sound(mem', chain, reviewed, open)
  BY <1>6, <1>7, <1>8, UpstreamLoose
<1>10. rejected' \subseteq Draft
  BY <1>1 DEF Run, IInv, RestOK
<1>11. QED
  BY <1>9, <1>10, ControllerChanges

LEMMA CorrectIInv ==
  ASSUME IInv, NEW c \in Chapter, NEW o \in RecordOutcome, Correct(c, o)
  PROVE  IInv'
<1> USE DEF Correct
<1>1. Sound(mem', chain', reviewed', open')
  BY UpstreamLoose DEF IInv, Sound, historyVars
<1>2. SavedOK' /\ session' \in {"none", "named", "ahead"}
  <2>1. /\ saved # None => Sound(saved, chain', reviewed', open')
        /\ session = "named" => saved # None
    BY DEF IInv, SavedOK, historyVars
  <2>2. Record(mem', o) /\ RestOK
    BY DEF IInv
  <2>3. QED
    BY <1>1, <2>1, <2>2, RecordOK
<1>3. QED
  BY <1>1, <1>2 DEF IInv, RestOK, CanonOK, DraftsOK, WorkOK, Ready, historyVars

LEMMA CompactIInv ==
  ASSUME IInv, NEW o \in RecordOutcome, Compact(o)
  PROVE  IInv'
<1> USE DEF Compact
<1>1. Sound(mem, chain', reviewed', open')
  BY DEF IInv, historyVars
<1>2. SavedOK' /\ session' \in {"none", "named", "ahead"}
  <2>1. /\ saved # None => Sound(saved, chain', reviewed', open')
        /\ session = "named" => saved # None
    BY DEF IInv, SavedOK, historyVars
  <2>2. QED
    BY <1>1, <2>1, RecordOK DEF IInv
<1>3. QED
  BY <1>1, <1>2 DEF IInv, RestOK, CanonOK, DraftsOK, WorkOK, Ready, historyVars, memVars

LEMMA CrashIInv ==
  ASSUME IInv, Crash
  PROVE  IInv'
<1> USE DEF Crash
<1>1. Sound(mem', chain', reviewed', open')
  BY NewSound
<1>2. WorkOK'
  BY NoWorkType DEF WorkOK
<1>3. RestOK'
  <2>1. queue' \in Seq(Chapter)
    OBVIOUS
  <2>2. QED
    BY <2>1 DEF IInv, RestOK, diskVars, historyVars
<1>4. SavedOK' /\ CanonOK' /\ DraftsOK'
  BY DEF IInv, SavedOK, CanonOK, DraftsOK, diskVars, historyVars
<1>5. QED
  BY <1>1, <1>2, <1>3, <1>4 DEF IInv

LEMMA AttachIInv ==
  ASSUME IInv, Attach
  PROVE  IInv'
<1> USE DEF Attach
<1>1. Sound(mem', chain', reviewed', open')
  <2>1. CASE session = "none"
    BY <2>1, NewSound
  <2>2. CASE session # "none"
    BY <2>2 DEF IInv, RestOK, SavedOK, diskVars, historyVars
  <2>3. QED
    BY <2>1, <2>2
<1>2. QED
  BY <1>1 DEF IInv, RestOK, SavedOK, CanonOK, DraftsOK, WorkOK, diskVars, historyVars

LEMMA ResolveIInv ==
  ASSUME IInv, NEW c \in Chapter, NEW f \in FindingId, NEW o \in RecordOutcome,
         Resolve(c, f, o)
  PROVE  IInv'
<1> DEFINE b == mem.run[c].blockers \ {f}
           r == [mem.run[c] EXCEPT !.blockers = b]
           m == [mem EXCEPT !.falsePositive[c] = @ \cup {f},
                            !.run[c].blockers = @ \ {f}]
<1>1. /\ mem' = Refresh(m) /\ Record(Refresh(m), o)
      /\ open' = open \ {<<mem.run[c].draft, f>>}
      /\ Ready /\ mem.run[c] # None
      /\ UNCHANGED <<attached, pc, work, queue, chain, file, drafts, reviewed, rejected>>
  BY DEF Resolve, HasRun
<1>2. Grows(chain, reviewed, open, chain', reviewed', open')
  BY <1>1 DEF Grows, IInv, RestOK
<1>3. Sound(mem, chain', reviewed', open')
  BY <1>2, EnvironmentKept DEF IInv
<1>4. /\ mem \in Controller /\ Loose(mem, chain', reviewed', open')
      /\ mem.run[c] \in Run
      /\ mem.order[c] # 0 /\ mem.run[c].order = mem.order[c]
      /\ mem.state[c] # "Unknown"
      /\ RunOK(mem.run[c], chain', reviewed', open') /\ Settled(mem, c, chain')
      /\ mem.state[c] = "Approved" => InChain(mem.run[c], chain')
  BY <1>1, <1>3, Parts DEF Sound, Loose, Consistent
<1>5. /\ r \in Run /\ r.state = mem.run[c].state /\ r.draft = mem.run[c].draft
      /\ r.content = mem.run[c].content /\ r.base = mem.run[c].base
      /\ r.order = mem.run[c].order /\ r.blockers = b
  <2>1. b \in SUBSET FindingId
    BY <1>4 DEF Run
  <2> HIDE DEF b
  <2>2. QED
    BY <1>4, <2>1, RunWithBlockers
<1>6. m = [mem EXCEPT !.falsePositive[c] = @ \cup {f}, !.run[c] = r]
  BY <1>4, Parts
<1> HIDE DEF r, m
<1>7. /\ m \in Controller /\ m.order = mem.order /\ m.run[c] = r
      /\ m.state = mem.state /\ m.provisional = mem.provisional
      /\ \A d \in Chapter \ {c} : m.run[d] = mem.run[d]
  BY <1>4, <1>5, <1>6 DEF Controller
<1>8. RunOK(r, chain', reviewed', open')
  <2>1. ASSUME NEW g \in FindingId, <<r.draft, g>> \in open', g[2] = r.content
        PROVE  g \in r.blockers
    <3>1. g \in mem.run[c].blockers
      BY <1>4, <1>5, <2>1 DEF RunOK
    <3>2. g # f
      BY <1>1, <1>5, <2>1
    <3>3. QED
      BY <1>5, <3>1, <3>2
  <2>2. QED
    BY <1>4, <1>5, <2>1 DEF RunOK
<1>9. Loose(m, chain', reviewed', open')
  <2>1. Settled(m, c, chain')
    BY <1>4, <1>5, <1>7 DEF Settled, InChain
  <2>2. /\ m.run[c] # None /\ RunOK(m.run[c], chain', reviewed', open')
        /\ m.run[c].order = mem.order[c] /\ m.state[c] # "Unknown"
    BY <1>4, <1>5, <1>7, <1>8, NoneAssumption
  <2>3. m.state[c] = "Approved" => InChain(m.run[c], chain')
    BY <1>4, <1>5, <1>7 DEF InChain
  <2>4. \A d \in Chapter \ {c} : /\ m.run[d] = mem.run[d] /\ m.state[d] = mem.state[d]
                                 /\ m.provisional[d] = mem.provisional[d]
    BY <1>7
  <2>5. m \in Controller /\ Loose(mem, chain', reviewed', open')
          /\ m.order = mem.order /\ mem.order[c] # 0
    BY <1>4, <1>7
  <2>6. QED
    BY <2>1, <2>2, <2>3, <2>4, <2>5, OneChanged
<1>10. Sound(mem', chain', reviewed', open')
  BY <1>1, <1>9, RefreshSound
<1>11. SavedOK' /\ session' \in {"none", "named", "ahead"}
  <2>1. /\ saved # None => Sound(saved, chain', reviewed', open')
        /\ session = "named" => saved # None
    BY <1>2, EnvironmentKept DEF IInv, SavedOK
  <2>2. QED
    BY <1>1, <1>10, <2>1, RecordOK DEF IInv
<1>12. pc = "idle" /\ open' \subseteq open
  BY <1>1 DEF Ready
<1>13. QED
  BY <1>1, <1>10, <1>11, <1>12 DEF IInv, RestOK, CanonOK, DraftsOK, WorkOK

\* The approval of a candidate extends the canon by what was reviewed.
LEMMA ApprovedCanon ==
  ASSUME IInv, NEW c \in Chapter, MayApprove(c), UNCHANGED <<reviewed, open>>,
         chain' = Append(chain, [draft |-> mem.run[c].draft, text |-> mem.run[c].text])
  PROVE  /\ Grows(chain, reviewed, open, chain', reviewed', open')
         /\ chain' \in Seq(Candidates)
         /\ CanonOK'
         /\ mem.run[c] # None /\ InChain(mem.run[c], chain')
<1> DEFINE x == [draft |-> mem.run[c].draft, text |-> mem.run[c].text]
<1>1. /\ mem \in Controller /\ mem.run[c] # None /\ mem.run[c] \in Run
      /\ RunOK(mem.run[c], chain, reviewed, open)
  BY Parts DEF IInv, Sound, Loose, MayApprove, IsApprovable, HasRun
<1>2. /\ mem.run[c].blockers = {} /\ mem.run[c].text = mem.run[c].content
      /\ mem.run[c].order = Len(chain) + 1
  BY DEF MayApprove, IsApprovable, Valid
<1>3. /\ mem.run[c].draft \in Draft /\ mem.run[c].content \in Text
  BY <1>1 DEF Run
<1>4. x \in Candidates /\ x \in reviewed
  BY <1>1, <1>2, <1>3 DEF Candidates, RunOK
<1>5. x.draft = mem.run[c].draft /\ x.text = mem.run[c].content
  BY <1>2
<1>6. chain' = Append(chain, x) /\ chain \in Seq(Candidates)
  BY DEF IInv, RestOK
<1> HIDE DEF x
<1>7. /\ chain' \in Seq(Candidates) /\ Len(chain) \in Nat
      /\ DOMAIN chain = 1 .. Len(chain)
      /\ DOMAIN chain' = 1 .. (Len(chain) + 1)
      /\ \A i \in 1 .. Len(chain) : chain'[i] = chain[i]
      /\ chain'[Len(chain) + 1] = x
  BY <1>4, <1>6, GrownChain
<1>8. \A b \in open : ~(b[1] = x.draft /\ b[2][2] = x.text)
  <2> SUFFICES ASSUME NEW b \in open, b[1] = x.draft, b[2][2] = x.text
               PROVE  FALSE
    OBVIOUS
  <2>1. b = <<b[1], b[2]>> /\ b[2] \in FindingId
    BY DEF IInv, RestOK, Blocker
  <2>2. b[2] \in mem.run[c].blockers
    BY <1>1, <1>5, <2>1 DEF RunOK
  <2>3. QED
    BY <1>2, <2>2
<1>9. CanonOK'
  <2> SUFFICES ASSUME NEW i \in DOMAIN chain'
               PROVE  /\ chain'[i] \in reviewed
                      /\ \A b \in open : ~(b[1] = chain'[i].draft /\ b[2][2] = chain'[i].text)
    BY DEF CanonOK
  <2>1. CASE i = Len(chain) + 1
    BY <1>4, <1>7, <1>8, <2>1
  <2>2. CASE i # Len(chain) + 1
    <3>1. i \in DOMAIN chain /\ chain'[i] = chain[i]
      BY <1>7, <2>2
    <3>2. QED
      BY <3>1 DEF IInv, CanonOK
  <2>3. QED
    BY <2>1, <2>2
<1>10. Grows(chain, reviewed, open, chain', reviewed', open')
  BY <1>4, <1>6 DEF Grows
<1>11. InChain(mem.run[c], chain')
  BY <1>2, <1>5, <1>7 DEF InChain
<1>12. QED
  BY <1>1, <1>7, <1>9, <1>10, <1>11

LEMMA ApproveUnnoticedIInv ==
  ASSUME IInv, NEW c \in Chapter, ApproveUnnoticed(c)
  PROVE  IInv'
<1> USE DEF ApproveUnnoticed
<1>1. /\ Grows(chain, reviewed, open, chain', reviewed', open')
      /\ chain' \in Seq(Candidates) /\ CanonOK'
  BY ApprovedCanon DEF historyVars
<1>2. Sound(mem', chain', reviewed', open')
  BY <1>1, EnvironmentKept DEF IInv, memVars
<1>3. SavedOK'
  BY <1>1, EnvironmentKept DEF IInv, SavedOK
<1>4. RestOK'
  BY <1>1 DEF IInv, RestOK, memVars, historyVars
<1>5. QED
  BY <1>1, <1>2, <1>3, <1>4 DEF IInv, DraftsOK, WorkOK, memVars, historyVars

LEMMA ApprovedRun ==
  ASSUME NEW r \in Run, NEW d \in Draft \cup {None}
  PROVE  LET s == [r EXCEPT !.state = "Approved", !.validated = TRUE, !.depends = d]
         IN s \in Run /\ s.state = "Approved" /\ Keeps(s, r)
  BY DEF Run, RunState, Keeps

LEMMA ApproveIInv ==
  ASSUME IInv, NEW c \in Chapter, NEW o \in RecordOutcome, Approve(c, o)
  PROVE  IInv'
<1> DEFINE k == Dependency(mem.run[c].order)
           r == [mem.run[c] EXCEPT !.state = "Approved", !.validated = TRUE, !.depends = k]
           m == [mem EXCEPT !.state[c] = "Approved", !.run[c].state = "Approved",
                            !.run[c].validated = TRUE, !.run[c].depends = k]
<1>1. /\ mem' = m /\ Record(m, o)
      /\ chain' = Append(chain, [draft |-> mem.run[c].draft, text |-> mem.run[c].text])
      /\ MayApprove(c)
      /\ UNCHANGED <<attached, pc, work, queue, file, drafts, reviewed, open, rejected>>
  BY DEF Approve, historyVars
<1>2. /\ Grows(chain, reviewed, open, chain', reviewed', open')
      /\ chain' \in Seq(Candidates) /\ CanonOK'
      /\ mem.run[c] # None /\ InChain(mem.run[c], chain')
  BY <1>1, ApprovedCanon
<1>3. Sound(mem, chain', reviewed', open')
  BY <1>2, EnvironmentKept DEF IInv
<1>4. /\ mem \in Controller /\ Loose(mem, chain', reviewed', open')
      /\ mem.run[c] \in Run
      /\ mem.order[c] # 0 /\ mem.run[c].order = mem.order[c]
      /\ RunOK(mem.run[c], chain', reviewed', open')
  BY <1>2, <1>3, Parts DEF Sound, Loose, Consistent
<1>5. k \in Draft \cup {None}
  <2> SUFFICES ASSUME NEW i \in DOMAIN chain
               PROVE  chain[i].draft \in Draft
    BY DEF Dependency
  <2>1. chain \in Seq(Candidates)
    BY DEF IInv, RestOK
  <2>2. chain[i] \in Candidates
    BY <2>1
  <2>3. QED
    BY <2>2 DEF Candidates
<1>6. m = [mem EXCEPT !.state[c] = "Approved", !.run[c] = r]
  BY <1>4, Parts, ZenonT(60)
<1> HIDE DEF k
<1>7. r \in Run /\ r.state = "Approved" /\ Keeps(r, mem.run[c])
  BY <1>4, <1>5, ApprovedRun
<1> HIDE DEF r, m
<1>8. /\ m \in Controller /\ m.order = mem.order /\ m.run[c] = r
      /\ m.state[c] = "Approved" /\ m.provisional = mem.provisional
      /\ \A d \in Chapter \ {c} : m.run[d] = mem.run[d] /\ m.state[d] = mem.state[d]
  BY <1>4, <1>6, <1>7 DEF Controller, ChapterState, RunState
<1>9. RunOK(r, chain', reviewed', open') /\ InChain(r, chain')
  BY <1>2, <1>4, <1>7, KeepsRunOK, KeepsInChain
<1>10. Loose(m, chain', reviewed', open')
  <2>1. Settled(m, c, chain')
    BY <1>7, <1>8, <1>9 DEF Settled, Old
  <2>2. /\ m.run[c] # None /\ RunOK(m.run[c], chain', reviewed', open')
        /\ m.run[c].order = mem.order[c] /\ m.state[c] # "Unknown"
        /\ m.state[c] = "Approved" => InChain(m.run[c], chain')
    BY <1>4, <1>7, <1>8, <1>9, NoneAssumption DEF Keeps
  <2>3. \A d \in Chapter \ {c} : /\ m.run[d] = mem.run[d] /\ m.state[d] = mem.state[d]
                                 /\ m.provisional[d] = mem.provisional[d]
    BY <1>8
  <2>4. m \in Controller /\ Loose(mem, chain', reviewed', open')
          /\ m.order = mem.order /\ mem.order[c] # 0
    BY <1>4, <1>8
  <2>5. QED
    BY <2>1, <2>2, <2>3, <2>4, OneChanged
<1>11. Sound(m, chain', reviewed', open')
  BY <1>3, <1>8, <1>10 DEF Sound, Old
<1>12. SavedOK' /\ session' \in {"none", "named", "ahead"}
  <2>1. /\ saved # None => Sound(saved, chain', reviewed', open')
        /\ session = "named" => saved # None
    BY <1>2, EnvironmentKept DEF IInv, SavedOK
  <2>2. QED
    BY <1>1, <1>11, <2>1, RecordOK DEF IInv
<1>13. pc = "idle"
  BY <1>1 DEF MayApprove, Ready
<1>14. RestOK'
  BY <1>1, <1>2, <1>12 DEF IInv, RestOK
<1>15. QED
  BY <1>1, <1>2, <1>11, <1>12, <1>13, <1>14 DEF IInv, DraftsOK, WorkOK

LEMMA ReopenedRun ==
  ASSUME NEW r \in Run, NEW t \in Text \cup {None}
  PROVE  LET s == [r EXCEPT !.text = t, !.validated = FALSE, !.state = "Candidate"]
         IN s \in Run /\ s.state = "Candidate" /\ Keeps(s, r)
  BY DEF Run, RunState, Keeps

LEMMA ReopenedAs ==
  ASSUME NEW c \in Chapter, NEW t \in Text \cup {None},
         mem \in Controller, mem.run[c] \in Run
  PROVE  Reopened(c, t) =
           [mem EXCEPT
              !.run[c] = [mem.run[c] EXCEPT !.text = t, !.validated = FALSE,
                                            !.state = "Candidate"],
              !.falsePositive[c] = {}]
<1>1. /\ mem = [order |-> mem.order, state |-> mem.state, run |-> mem.run,
                falsePositive |-> mem.falsePositive, provisional |-> mem.provisional]
      /\ mem.run \in [Chapter -> Run \cup {None}]
      /\ mem.falsePositive \in [Chapter -> SUBSET FindingId]
  BY Parts
<1>2. QED
  BY <1>1 DEF Reopened

WithRun(m, c, r) == [m EXCEPT !.run[c] = r, !.falsePositive[c] = {}]

LEMMA WithRunParts ==
  ASSUME NEW m \in Controller, NEW c \in Chapter, NEW r \in Run
  PROVE  LET n == WithRun(m, c, r)
         IN /\ n \in Controller /\ n.order = m.order /\ n.run[c] = r
            /\ n.state = m.state /\ n.provisional = m.provisional
            /\ \A d \in Chapter \ {c} : n.run[d] = m.run[d]
  BY DEF Controller, WithRun

LEMMA GivenParts ==
  ASSUME NEW m \in Controller, NEW c \in Chapter, NEW p \in Text \cup {None}
  PROVE  LET n == [m EXCEPT !.provisional[c] = p]
         IN /\ n \in Controller /\ n.order = m.order /\ n.run = m.run
            /\ n.state = m.state
            /\ \A d \in Chapter \ {c} : n.provisional[d] = m.provisional[d]
  BY DEF Controller

\* A chapter reopened for an edit.
LEMMA ReopenedLoose ==
  ASSUME IInv, NEW c \in Chapter, MayEdit(c), NEW t \in Text \cup {None}
  PROVE  /\ Loose(Reopened(c, t), chain, reviewed, open)
         /\ Reopened(c, t).provisional = mem.provisional
         /\ Reopened(c, t).state = mem.state
         /\ Reopened(c, t).run[c] # None
         /\ Reopened(c, t).run[c].state = "Candidate"
<1> DEFINE r == [mem.run[c] EXCEPT !.text = t, !.validated = FALSE, !.state = "Candidate"]
           n == Reopened(c, t)
<1>1. /\ mem \in Controller /\ Loose(mem, chain, reviewed, open)
      /\ mem.run[c] \in Run /\ mem.state[c] # "Approved"
      /\ mem.order[c] # 0 /\ mem.run[c].order = mem.order[c]
      /\ mem.state[c] # "Unknown"
      /\ RunOK(mem.run[c], chain, reviewed, open)
  BY Parts DEF IInv, Sound, Loose, Consistent, MayEdit, HasRun
<1>2. r \in Run /\ r.state = "Candidate" /\ Keeps(r, mem.run[c])
  BY <1>1, ReopenedRun
<1>3. n = WithRun(mem, c, r)
  BY <1>1, ReopenedAs DEF WithRun
<1> HIDE DEF r, n
<1>4. /\ n \in Controller /\ n.order = mem.order /\ n.run[c] = r
      /\ n.state = mem.state /\ n.provisional = mem.provisional
      /\ \A d \in Chapter \ {c} : n.run[d] = mem.run[d]
  BY <1>1, <1>2, <1>3, WithRunParts
<1>5. Settled(n, c, chain)
  BY <1>2, <1>4 DEF Settled, Old
<1>6. /\ n.run[c] # None /\ RunOK(n.run[c], chain, reviewed, open)
      /\ n.run[c].order = mem.order[c] /\ n.state[c] # "Unknown" /\ n.state[c] # "Approved"
  BY <1>1, <1>2, <1>4, KeepsRunOK, NoneAssumption DEF Keeps
<1>7. \A d \in Chapter \ {c} : /\ n.run[d] = mem.run[d] /\ n.state[d] = mem.state[d]
                               /\ n.provisional[d] = mem.provisional[d]
  BY <1>4
<1>8. Loose(n, chain, reviewed, open)
  BY <1>1, <1>4, <1>5, <1>6, <1>7, OneChanged
<1>9. QED
  BY <1>2, <1>4, <1>6, <1>8 DEF n

LEMMA EditIInv ==
  ASSUME IInv, NEW c \in Chapter, NEW t \in Text, Edit(c, t)
  PROVE  IInv'
<1> DEFINE m == Reopened(c, t)
           n == [m EXCEPT !.provisional[c] = t]
<1>1. /\ MayEdit(c) /\ mem' = Refresh(NoteUpstreamEdit(n, c))
      /\ file' = [file EXCEPT ![mem.run[c].draft] = t]
      /\ UNCHANGED <<attached, pc, work, queue, saved, session, chain, drafts,
                     reviewed, open, rejected>>
  BY DEF Edit, Rewrite, historyVars
<1>2. /\ Loose(m, chain, reviewed, open) /\ m \in Controller
      /\ m.run[c] # None /\ m.run[c].state = "Candidate"
  BY <1>1, ReopenedLoose DEF Loose
<1> HIDE DEF m
<1>3. /\ n \in Controller /\ n.order = m.order /\ n.run = m.run /\ n.state = m.state
      /\ \A d \in Chapter \ {c} : n.provisional[d] = m.provisional[d]
  BY <1>2, GivenParts
<1> HIDE DEF n
<1>4. Loose(n, chain, reviewed, open)
  <2>1. \A d \in Chapter : m.run[d] # None =>
          /\ n.run[d] # None /\ Keeps(n.run[d], m.run[d])
          /\ n.run[d].state = "Approved" => m.run[d].state = "Approved"
          /\ n.run[d].state \in Old => n.provisional[d] = None
    BY <1>2, <1>3 DEF Loose, Settled, Keeps, Old
  <2>2. \A d \in Chapter : n.run[d] = None /\ n.state[d] \in Old => n.provisional[d] = None
    BY <1>2, <1>3 DEF Loose
  <2>3. QED
    BY <1>2, <1>3, <2>1, <2>2, LooseKept
<1>5. Sound(mem', chain, reviewed, open)
  BY <1>1, <1>4, UpstreamLoose, RefreshSound
<1>6. file' \in [Draft -> Text \cup {None}] /\ pc = "idle"
  BY <1>1 DEF IInv, RestOK, MayEdit, Ready
<1>7. QED
  BY <1>1, <1>5, <1>6 DEF IInv, RestOK, SavedOK, CanonOK, DraftsOK, WorkOK

LEMMA EditFailsIInv ==
  ASSUME IInv, NEW c \in Chapter, EditFails(c)
  PROVE  IInv'
<1>1. /\ MayEdit(c) /\ mem' = Reopened(c, None)
      /\ UNCHANGED <<attached, pc, work, queue, saved, session, chain, file, drafts,
                     reviewed, open, rejected>>
  BY DEF EditFails, diskVars, historyVars
<1>2. /\ Loose(mem', chain, reviewed, open)
      /\ mem'.provisional = mem.provisional /\ mem'.state = mem.state
  BY <1>1, ReopenedLoose
<1>3. Sound(mem', chain, reviewed, open)
  BY <1>2 DEF Sound, IInv
<1>4. pc = "idle"
  BY <1>1 DEF MayEdit, Ready
<1>5. QED
  BY <1>1, <1>3, <1>4 DEF IInv, RestOK, SavedOK, CanonOK, DraftsOK, WorkOK

-----------------------------------------------------------------------------
LEMMA NextIInv == IInv /\ [Next]_vars => IInv'
<1> SUFFICES ASSUME IInv, [Next]_vars PROVE IInv'
  OBVIOUS
<1>1. CASE Write
  BY <1>1, BeginWriteIInv, WriteRefusedIInv, WriteFailsIInv, StartContinuousIInv DEF Write
<1>2. CASE Step
  <2>1. CASE \E B \in SUBSET Critic : \E said \in [B -> SUBSET Message] : CriticsAnswer(B, said)
    BY <2>1, CriticsAnswerIInv
  <2>2. CASE ArchitectAnswers \/ ReviserSilent
    BY <2>2, ArchitectAnswersIInv, ReviserSilentIInv
  <2>3. CASE \E t \in Text : WriterAnswers(t) \/ ReviserAnswers(t)
    BY <2>3, WriterAnswersIInv, ReviserAnswersIInv
  <2>4. CASE \E o \in RecordOutcome : EndWrite(o)
    BY <2>4, EndWriteIInv
  <2>5. QED
    BY <1>2, <2>1, <2>2, <2>3, <2>4 DEF Step
<1>3. CASE Human
  <2>1. CASE \E c \in Chapter, f \in FindingId, o \in RecordOutcome : Resolve(c, f, o)
    BY <2>1, ResolveIInv
  <2>2. CASE \E c \in Chapter : Reject(c) \/ ApproveUnnoticed(c) \/ EditFails(c)
    BY <2>2, RejectIInv, ApproveUnnoticedIInv, EditFailsIInv
  <2>3. CASE \E c \in Chapter, o \in RecordOutcome : Approve(c, o) \/ Correct(c, o)
    BY <2>3, ApproveIInv, CorrectIInv
  <2>4. CASE \E c \in Chapter, t \in Text : Edit(c, t)
    BY <2>4, EditIInv
  <2>5. CASE \E o \in RecordOutcome : Compact(o)
    BY <2>5, CompactIInv
  <2>6. QED
    BY <1>3, <2>1, <2>2, <2>3, <2>4, <2>5 DEF Human
<1>4. CASE Crash \/ Attach
  BY <1>4, CrashIInv, AttachIInv
<1>5. CASE UNCHANGED vars
  BY <1>5 DEF IInv, RestOK, SavedOK, CanonOK, DraftsOK, WorkOK, vars, memVars, diskVars,
              historyVars
<1>6. QED
  BY <1>1, <1>2, <1>3, <1>4, <1>5 DEF Next

\* The inductive invariant holds.
THEOREM Invariant == Spec => []IInv
<1>1. Init => IInv
  BY InitIInv
<1>2. IInv /\ [Next]_vars => IInv'
  BY NextIInv
<1> QED
  BY <1>1, <1>2, PTL DEF Spec

\* Every variable has its type, and the chapters and changesets of the
\* controller and of the checkpoint agree (register_chapter, chapter_order).
THEOREM TypeCorrect == Spec => []TypeOK
<1>1. IInv => TypeOK
  BY DEF IInv, RestOK, Sound, Loose, SavedOK, TypeOK, Candidates
<1> QED
  BY <1>1, Invariant, PTL

\* What is in the canon was reviewed and has no objection left that neither
\* the human resolved nor a revision removed (is_approvable,
\* unresolved_blocker_ids, validation_hash).
THEOREM CanonIsReviewed == Spec => []ApprovedWasReviewed
<1>1. IInv => ApprovedWasReviewed
  BY DEF IInv, CanonOK, ApprovedWasReviewed
<1> QED
  BY <1>1, Invariant, PTL

\* Neither the controller nor a checkpoint takes a changeset for approved
\* that the canon does not hold at its place (approve_chapter_trusted).
THEOREM ApprovedInCanon == Spec => []ApprovedIsInCanon
<1>1. IInv => ApprovedIsInCanon
  BY DEF IInv, Sound, Loose, SavedOK, InChain, ApprovedIsInCanon
<1> QED
  BY <1>1, Invariant, PTL

\* No writer of a later chapter is given the text of a stale one, in this
\* process or after a restart (note_upstream_edit, provisional_canon).
THEOREM StaleIsHidden == Spec => []StaleIsNotProvisional
<1>1. IInv => StaleIsNotProvisional
  BY DEF IInv, Sound, SavedOK, Old, StaleIsNotProvisional
<1> QED
  BY <1>1, Invariant, PTL

-----------------------------------------------------------------------------
\* The steps of the controller are steps of ReviewedApproval, or stutter.
Shared == <<chain, reviewed, open>>

LEMMA CriticsReview ==
  ASSUME IInv, NEW B \in SUBSET Critic, NEW said, CriticsAnswer(B, said)
  PROVE  Promised!Review \/ UNCHANGED Shared
<1>1. /\ open \subseteq open' /\ open' \subseteq Blocker
      /\ \A b \in open' \ open : b[1] = work.draft
      /\ UNCHANGED <<chain, reviewed>>
      /\ \A x \in reviewed : x.draft # work.draft
  BY CriticsObject DEF CriticsAnswer, IInv, WorkOK, diskVars
<1>2. CASE open' = open
  BY <1>1, <1>2 DEF Shared
<1>3. CASE open' # open
  <2>1. work.draft \in {b[1] : b \in open \cup open'}
    BY <1>1, <1>3
  <2>2. {b \in open : b[1] # work.draft} = {b \in open' : b[1] # work.draft}
    BY <1>1
  <2>3. QED
    BY <1>1, <2>1, <2>2 DEF Promised!Review, Promised!InReview
<1>4. QED
  BY <1>2, <1>3

LEMMA RevisionReview ==
  ASSUME IInv, NEW t \in Text, ReviserAnswers(t)
  PROVE  Promised!Review \/ UNCHANGED Shared
<1>1. /\ open' = {b \in open : b[1] # work.draft}
      /\ UNCHANGED <<chain, reviewed>>
      /\ \A x \in reviewed : x.draft # work.draft
  BY DEF ReviserAnswers, Revising, IInv, WorkOK
<1>2. CASE open' = open
  BY <1>1, <1>2 DEF Shared
<1>3. CASE open' # open
  <2>1. work.draft \in {b[1] : b \in open \cup open'}
    BY <1>1, <1>3
  <2>2. /\ {b \in open : b[1] # work.draft} = {b \in open' : b[1] # work.draft}
        /\ {b \in open' : b[1] = work.draft} = {}
    BY <1>1
  <2>3. QED
    BY <1>1, <2>1, <2>2 DEF Promised!Review, Promised!InReview
<1>4. QED
  BY <1>2, <1>3

LEMMA WriteEndsReview ==
  ASSUME IInv, NEW o \in RecordOutcome, EndWrite(o)
  PROVE  Promised!EndReview
<1> DEFINE x == [draft |-> work.draft, text |-> work.text]
<1>1. /\ reviewed' = reviewed \cup {x} /\ UNCHANGED <<chain, open>>
      /\ \A y \in reviewed : y.draft # work.draft
  BY DEF EndWrite, Finished, IInv, WorkOK
<1>2. x.draft = work.draft
  OBVIOUS
<1> HIDE DEF x
<1>3. QED
  BY <1>1, <1>2 DEF Promised!EndReview, Promised!InReview

LEMMA ResolveResolves ==
  ASSUME NEW c \in Chapter, NEW f \in FindingId, NEW o \in RecordOutcome, Resolve(c, f, o)
  PROVE  Promised!Resolve \/ UNCHANGED Shared
<1>1. open' = open \ {<<mem.run[c].draft, f>>} /\ UNCHANGED <<chain, reviewed>>
  BY DEF Resolve
<1>2. QED
  BY <1>1 DEF Promised!Resolve, Shared

LEMMA ApprovalApproves ==
  ASSUME IInv, NEW c \in Chapter, MayApprove(c), UNCHANGED <<reviewed, open>>,
         chain' = Append(chain, [draft |-> mem.run[c].draft, text |-> mem.run[c].text])
  PROVE  Promised!Approve
<1> DEFINE x == [draft |-> mem.run[c].draft, text |-> mem.run[c].text]
<1>1. /\ mem.run[c] # None /\ mem.run[c] \in Run
      /\ RunOK(mem.run[c], chain, reviewed, open)
  BY Parts DEF IInv, Sound, Loose, MayApprove, IsApprovable, HasRun
<1>2. /\ mem.run[c].base = Len(chain) /\ Len(chain) \in Nat
      /\ chain \in Seq(Candidates)
  BY DEF MayApprove, Valid, IInv, RestOK
<1>3. \A i \in DOMAIN chain : chain[i].draft # mem.run[c].draft
  BY <1>1, <1>2 DEF RunOK
<1>4. CanonOK' /\ chain' = Append(chain, x)
  BY ApprovedCanon
<1>5. x.draft = mem.run[c].draft /\ x \in Candidates
  <2>1. mem.run[c].text = mem.run[c].content
    BY DEF MayApprove, Valid
  <2>2. QED
    BY <1>1, <2>1 DEF Candidates, Run
<1> HIDE DEF x
<1>6. chain'[Len(chain) + 1] = x /\ Len(chain) + 1 \in DOMAIN chain'
  BY <1>2, <1>4, <1>5, GrownChain
<1>7. x \in reviewed /\ Promised!Objections(x.draft, x.text) = {}
  BY <1>4, <1>6 DEF CanonOK, Promised!Objections
<1>8. QED
  BY <1>3, <1>4, <1>5, <1>7 DEF Promised!Approve

LEMMA StepMaps == IInv /\ [Next]_vars => [Promised!ANext]_(Promised!avars)
<1> SUFFICES ASSUME IInv, [Next]_vars
             PROVE  Promised!ANext \/ UNCHANGED Shared
  BY DEF Shared, Promised!avars
<1>1. CASE Write
  BY <1>1 DEF Write, BeginWrite, WriteRefused, WriteFails, StartContinuous, diskVars,
              historyVars, Shared
<1>2. CASE Step
  <2>1. CASE \E B \in SUBSET Critic : \E said \in [B -> SUBSET Message] : CriticsAnswer(B, said)
    BY <2>1, CriticsReview DEF Promised!ANext
  <2>2. CASE ArchitectAnswers \/ ReviserSilent \/ \E t \in Text : WriterAnswers(t)
    BY <2>2 DEF ArchitectAnswers, ReviserSilent, WriterAnswers, diskVars, historyVars, Shared
  <2>3. CASE \E t \in Text : ReviserAnswers(t)
    BY <2>3, RevisionReview DEF Promised!ANext
  <2>4. CASE \E o \in RecordOutcome : EndWrite(o)
    BY <2>4, WriteEndsReview DEF Promised!ANext
  <2>5. QED
    BY <1>2, <2>1, <2>2, <2>3, <2>4 DEF Step
<1>3. CASE Human
  <2>1. CASE \E c \in Chapter, f \in FindingId, o \in RecordOutcome : Resolve(c, f, o)
    BY <2>1, ResolveResolves DEF Promised!ANext
  <2>2. CASE \E c \in Chapter : ApproveUnnoticed(c)
    BY <2>2, ApprovalApproves DEF ApproveUnnoticed, historyVars, Promised!ANext
  <2>3. CASE \E c \in Chapter, o \in RecordOutcome : Approve(c, o)
    BY <2>3, ApprovalApproves DEF Approve, historyVars, Promised!ANext
  <2>4. CASE \/ \E c \in Chapter : Reject(c) \/ EditFails(c)
             \/ \E c \in Chapter, t \in Text : Edit(c, t)
             \/ \E c \in Chapter, o \in RecordOutcome : Correct(c, o)
             \/ \E o \in RecordOutcome : Compact(o)
    BY <2>4 DEF Reject, EditFails, Edit, Correct, Compact, diskVars, historyVars, Shared
  <2>5. QED
    BY <1>3, <2>1, <2>2, <2>3, <2>4 DEF Human
<1>4. CASE Crash \/ Attach \/ UNCHANGED vars
  BY <1>4 DEF Crash, Attach, vars, diskVars, historyVars, Shared
<1>5. QED
  BY <1>1, <1>2, <1>3, <1>4 DEF Next

\* The canon and the reviews develop as ReviewedApproval promises, whatever
\* the controller, the human and restarts do: every step is one of its steps
\* or leaves the canon, the reviews and the objections alone.
THEOREM Reviewed == Spec => ImplementsReviewedApproval
<1>1. Init => Promised!AInit
  BY DEF Init, Promised!AInit
<1>2. IInv /\ [Next]_vars => [Promised!ANext]_(Promised!avars)
  BY StepMaps
<1> QED
  BY <1>1, <1>2, Invariant, PTL DEF Spec, ImplementsReviewedApproval, Promised!ASpec

-----------------------------------------------------------------------------
\* What a human rejected, within the process that was told.
Undecided == {"Candidate", "Approvable"}

DependencyIn(ch, k) == IF k - 1 \in DOMAIN ch THEN ch[k - 1].draft ELSE None

\* A rejected changeset that is up for approval again was reopened by an edit,
\* so that its validation is not that of the text; and as long as the canon
\* is the one it was written against, its dependency is the one recomputed at
\* the approval, which therefore does not validate it anew.
Barred(r, rej) == r.draft \in rej => r.state \notin Undecided \/ r.validated = FALSE
Based(r, ch) == r.base = Len(ch) => r.depends = DependencyIn(ch, r.order)

RunsOK(m, ch, rej) ==
  /\ \A c \in Chapter : m.run[c] # None => Barred(m.run[c], rej) /\ Based(m.run[c], ch)
  /\ \A c, d \in Chapter :
       m.run[c] # None /\ m.run[d] # None /\ m.run[c].draft = m.run[d].draft => c = d

ProcessInv ==
  /\ \A d \in rejected : \E x \in reviewed : x.draft = d
  /\ RunsOK(mem, chain, rejected)

\* A change that puts no run up for approval again, nor rewrites its edges.
Same(r2, r1) ==
  /\ r2.draft = r1.draft /\ r2.base = r1.base /\ r2.order = r1.order
  /\ r2.validated = r1.validated /\ r2.depends = r1.depends

Carries(n, m) ==
  \A c \in Chapter : n.run[c] # None =>
    /\ m.run[c] # None /\ Same(n.run[c], m.run[c])
    /\ n.run[c].state \in Undecided => m.run[c].state \in Undecided

LEMMA KeepsSame ==
  ASSUME NEW r1, NEW r2, Keeps(r2, r1), Untouched(r2, r1)
  PROVE  Same(r2, r1)
  BY DEF Keeps, Untouched, Same

LEMMA RefreshCarries ==
  ASSUME NEW m \in Controller
  PROVE  Carries(Refresh(m), m)
<1> SUFFICES ASSUME NEW c \in Chapter, Refresh(m).run[c] # None
             PROVE  /\ m.run[c] # None /\ Same(Refresh(m).run[c], m.run[c])
                    /\ Refresh(m).run[c].state \in Undecided => m.run[c].state \in Undecided
  BY DEF Carries
<1> DEFINE n == Refresh(m)
<1>1. /\ m.run[c] # None
      /\ Keeps(n.run[c], m.run[c]) /\ Untouched(n.run[c], m.run[c])
      /\ n.run[c].state = m.run[c].state \/ m.run[c].state = "Candidate"
  BY RefreshKeeps
<1> HIDE DEF n
<1>2. n.run[c].state \in Undecided => m.run[c].state \in Undecided
  BY <1>1 DEF Undecided
<1>3. QED
  BY <1>1, <1>2, KeepsSame DEF n

LEMMA DropCarries ==
  ASSUME NEW m \in Controller, NEW C
  PROVE  Carries(DropFindings(m, C), m)
  BY DropKeeps, KeepsSame DEF Carries

LEMMA UpstreamCarries ==
  ASSUME NEW m \in Controller, NEW e \in Chapter, Consistent(m)
  PROVE  Carries(NoteUpstreamEdit(m, e), m)
<1> SUFFICES ASSUME NEW c \in Chapter, NoteUpstreamEdit(m, e).run[c] # None
             PROVE  /\ m.run[c] # None /\ Same(NoteUpstreamEdit(m, e).run[c], m.run[c])
                    /\ NoteUpstreamEdit(m, e).run[c].state \in Undecided =>
                         m.run[c].state \in Undecided
  BY DEF Carries
<1> DEFINE n == NoteUpstreamEdit(m, e)
<1>1. /\ m.run[c] # None
      /\ Keeps(n.run[c], m.run[c]) /\ Untouched(n.run[c], m.run[c])
      /\ n.run[c].state \in Old \/ n.run[c].state = m.run[c].state
  BY UpstreamKeeps
<1> HIDE DEF n
<1>2. n.run[c].state \in Undecided => m.run[c].state \in Undecided
  BY <1>1 DEF Undecided, Old
<1>3. QED
  BY <1>1, <1>2, KeepsSame DEF n

LEMMA CarriesRuns ==
  ASSUME NEW m, NEW n, NEW ch, NEW rej, RunsOK(m, ch, rej), Carries(n, m)
  PROVE  RunsOK(n, ch, rej)
<1>1. ASSUME NEW c \in Chapter, n.run[c] # None
      PROVE  Barred(n.run[c], rej) /\ Based(n.run[c], ch)
  <2>1. /\ Barred(m.run[c], rej) /\ Based(m.run[c], ch) /\ Same(n.run[c], m.run[c])
        /\ n.run[c].state \in Undecided => m.run[c].state \in Undecided
    BY <1>1 DEF RunsOK, Carries
  <2>2. Barred(n.run[c], rej)
    BY <2>1 DEF Barred, Same
  <2>3. Based(n.run[c], ch)
    BY <2>1 DEF Based, Same
  <2>4. QED
    BY <2>2, <2>3
<1>2. ASSUME NEW c \in Chapter, NEW d \in Chapter,
             n.run[c] # None, n.run[d] # None, n.run[c].draft = n.run[d].draft
      PROVE  c = d
  BY <1>2 DEF RunsOK, Carries, Same
<1>3. QED
  BY <1>1, <1>2 DEF RunsOK

\* One run changes, and keeps its changeset or gets one of its own.
LEMMA RunChanged ==
  ASSUME NEW m, NEW n, NEW ch, NEW rej, RunsOK(m, ch, rej), NEW c \in Chapter,
         \A d \in Chapter \ {c} : n.run[d] = m.run[d],
         n.run[c] # None => Barred(n.run[c], rej) /\ Based(n.run[c], ch),
         n.run[c] # None => \A d \in Chapter \ {c} :
           m.run[d] # None => n.run[c].draft # m.run[d].draft
  PROVE  RunsOK(n, ch, rej)
<1>1. \A d \in Chapter : n.run[d] # None => Barred(n.run[d], rej) /\ Based(n.run[d], ch)
  BY DEF RunsOK
<1>2. ASSUME NEW d \in Chapter, NEW e \in Chapter,
             n.run[d] # None, n.run[e] # None, n.run[d].draft = n.run[e].draft
      PROVE  d = e
  <2>1. CASE d = c \/ e = c
    BY <1>2, <2>1
  <2>2. CASE d # c /\ e # c
    BY <1>2, <2>2 DEF RunsOK
  <2>3. QED
    BY <2>1, <2>2
<1>3. QED
  BY <1>1, <1>2 DEF RunsOK

LEMMA OthersDiffer ==
  ASSUME NEW m, NEW ch, NEW rej, RunsOK(m, ch, rej), NEW c \in Chapter, m.run[c] # None
  PROVE  \A d \in Chapter \ {c} : m.run[d] # None => m.run[c].draft # m.run[d].draft
  BY DEF RunsOK

\* An approval outdates the base of every run.
LEMMA ApprovalUnbases ==
  ASSUME IInv, RunsOK(mem, chain, rejected), NEW x \in Candidates,
         chain' = Append(chain, x)
  PROVE  RunsOK(mem, chain', rejected)
<1>1. chain \in Seq(Candidates)
  BY DEF IInv, RestOK
<1>2. Len(chain') = Len(chain) + 1 /\ Len(chain) \in Nat
  BY <1>1, GrownChain
<1>3. ASSUME NEW c \in Chapter, mem.run[c] # None
      PROVE  Based(mem.run[c], chain')
  <2>1. mem.run[c] \in Run /\ mem.run[c].base <= Len(chain)
    BY <1>3, Parts DEF IInv, Sound, Loose, RunOK
  <2>2. mem.run[c].base # Len(chain')
    BY <1>2, <2>1 DEF Run
  <2>3. QED
    BY <2>2 DEF Based
<1>4. QED
  BY <1>3 DEF RunsOK

LEMMA BeginWriteProcess ==
  ASSUME IInv, ProcessInv, NEW c \in Chapter, BeginWrite(c)
  PROVE  ProcessInv'
<1> DEFINE p == Planned(c)
           d == DropFindings(p, {c})
<1>1. mem' = [d EXCEPT !.state[c] = "Running"] /\ UNCHANGED <<chain, reviewed, rejected>>
  BY DEF BeginWrite, historyVars
<1>2. p \in Controller
  BY PlannedSound DEF IInv, Sound, Loose
<1>3. p.run = mem.run
  BY Parts DEF Planned, Register, IInv, Sound, Loose
<1> HIDE DEF p
<1>4. d \in Controller /\ Carries(d, p)
  BY <1>2, DropKeeps, DropCarries
<1> HIDE DEF d
<1>5. mem'.run = d.run
  BY <1>1, <1>4, Parts
<1>6. Carries(mem', mem)
  BY <1>3, <1>4, <1>5 DEF Carries
<1>7. QED
  BY <1>1, <1>6, CarriesRuns DEF ProcessInv

LEMMA EndWriteProcess ==
  ASSUME IInv, ProcessInv, NEW o \in RecordOutcome, EndWrite(o)
  PROVE  ProcessInv'
<1> DEFINE c == work.chapter
           m == [mem EXCEPT !.run[c] = NewRun, !.state[c] = NewRun.state,
                            !.falsePositive[c] = {}, !.provisional[c] = work.text]
<1>1. /\ mem' = Refresh(m) /\ UNCHANGED <<chain, rejected>> /\ Finished
      /\ reviewed \subseteq reviewed'
  BY DEF EndWrite
<1>2. /\ c \in Chapter /\ work.text \in Text
      /\ \A y \in reviewed : y.draft # work.draft
  BY <1>1 DEF IInv, WorkOK, Finished
<1>3. /\ NewRun \in Run /\ NewRun.state \in {"Candidate", "Approvable"}
      /\ NewRun.draft = work.draft
  BY <1>1, NewRunType
<1>4. NewRun.depends = DependencyIn(chain, NewRun.order)
  BY DEF NewRun, Dependency, DependencyIn
<1> HIDE DEF c
<1>5. /\ m \in Controller /\ m.run[c] = NewRun
      /\ \A d \in Chapter \ {c} : m.run[d] = mem.run[d]
  <2>1. mem \in Controller
    BY DEF IInv, Sound, Loose
  <2>2. NewRun.state \in ChapterState
    BY <1>3 DEF ChapterState, RunState
  <2>3. QED
    BY <1>2, <1>3, <2>1, <2>2 DEF Controller
<1> HIDE DEF m
<1>6. Barred(NewRun, rejected) /\ Based(NewRun, chain)
  <2>1. NewRun.draft \notin rejected
    BY <1>2, <1>3 DEF ProcessInv
  <2>2. QED
    BY <1>4, <2>1 DEF Barred, Based
<1>7. ASSUME NEW d \in Chapter \ {c}, mem.run[d] # None
      PROVE  NewRun.draft # mem.run[d].draft
  <2>1. [draft |-> mem.run[d].draft, text |-> mem.run[d].content] \in reviewed
    BY <1>7 DEF IInv, Sound, Loose, RunOK
  <2>2. QED
    BY <1>2, <1>3, <2>1
<1>8. RunsOK(m, chain, rejected)
  BY <1>2, <1>5, <1>6, <1>7, RunChanged DEF ProcessInv
<1>9. RunsOK(mem', chain, rejected)
  BY <1>1, <1>5, <1>8, RefreshCarries, CarriesRuns
<1>10. QED
  BY <1>1, <1>9 DEF ProcessInv

LEMMA ReviserProcess ==
  ASSUME IInv, ProcessInv, NEW t \in Text, ReviserAnswers(t)
  PROVE  ProcessInv'
<1>1. /\ mem' = DropFindings(mem, {work.chapter})
      /\ UNCHANGED <<chain, reviewed, rejected>>
  BY DEF ReviserAnswers
<1>2. mem \in Controller
  BY DEF IInv, Sound, Loose
<1>3. QED
  BY <1>1, <1>2, DropCarries, CarriesRuns DEF ProcessInv

LEMMA ResolveProcess ==
  ASSUME IInv, ProcessInv, NEW c \in Chapter, NEW f \in FindingId, NEW o \in RecordOutcome,
         Resolve(c, f, o)
  PROVE  ProcessInv'
<1> DEFINE b == mem.run[c].blockers \ {f}
           r == [mem.run[c] EXCEPT !.blockers = b]
           m == [mem EXCEPT !.falsePositive[c] = @ \cup {f},
                            !.run[c].blockers = @ \ {f}]
<1>1. /\ mem' = Refresh(m) /\ mem.run[c] # None
      /\ UNCHANGED <<chain, reviewed, rejected>>
  BY DEF Resolve, HasRun
<1>2. mem \in Controller /\ mem.run[c] \in Run
  BY <1>1, Parts DEF IInv, Sound, Loose
<1>3. /\ r \in Run /\ r.state = mem.run[c].state /\ Same(r, mem.run[c])
  <2>1. b \in SUBSET FindingId
    BY <1>2 DEF Run
  <2> HIDE DEF b
  <2>2. r \in Run /\ r.state = mem.run[c].state
    BY <1>2, <2>1, RunWithBlockers
  <2>3. QED
    BY <1>2, <2>1, <2>2 DEF Run, Same
<1>4. m = [mem EXCEPT !.falsePositive[c] = @ \cup {f}, !.run[c] = r]
  BY <1>2, Parts
<1> HIDE DEF r, m
<1>5. /\ m \in Controller /\ m.run[c] = r
      /\ \A d \in Chapter \ {c} : m.run[d] = mem.run[d]
  BY <1>2, <1>3, <1>4 DEF Controller
<1>6. Carries(m, mem)
  BY <1>1, <1>3, <1>5 DEF Carries, Same
<1>7. RunsOK(m, chain, rejected)
  BY <1>6, CarriesRuns DEF ProcessInv
<1>8. RunsOK(mem', chain, rejected)
  BY <1>1, <1>5, <1>7, RefreshCarries, CarriesRuns
<1>9. QED
  BY <1>1, <1>8 DEF ProcessInv

LEMMA RejectProcess ==
  ASSUME IInv, ProcessInv, NEW c \in Chapter, Reject(c)
  PROVE  ProcessInv'
<1> DEFINE r == [mem.run[c] EXCEPT !.state = "Rejected"]
           n == [mem EXCEPT !.state[c] = "Rejected", !.run[c].state = "Rejected"]
<1>1. /\ mem' = NoteUpstreamEdit(n, c) /\ UNCHANGED <<chain, reviewed>>
      /\ mem.run[c] # None /\ rejected' = rejected \cup {mem.run[c].draft}
  BY DEF Reject, HasRun, diskVars
<1>2. /\ mem \in Controller /\ Consistent(mem) /\ mem.run[c] \in Run
      /\ mem.order[c] # 0 /\ mem.run[c].order = mem.order[c]
      /\ [draft |-> mem.run[c].draft, text |-> mem.run[c].content] \in reviewed
  BY <1>1, Parts DEF IInv, Sound, Loose, Consistent, RunOK
<1>3. /\ r \in Run /\ r.state = "Rejected" /\ Same(r, mem.run[c])
      /\ r.order = mem.run[c].order
  <2>1. "Rejected" \in RunState
    BY DEF RunState
  <2>2. /\ r \in Run /\ r.state = "Rejected"
        /\ Keeps(r, mem.run[c]) /\ Untouched(r, mem.run[c])
    BY <1>2, <2>1, RunWithState
  <2>3. QED
    BY <2>2, KeepsSame DEF Keeps
<1>4. n = [mem EXCEPT !.state[c] = "Rejected", !.run[c] = r]
  BY <1>2, Parts
<1> HIDE DEF r, n
<1>5. /\ n \in Controller /\ n.run[c] = r /\ n.order = mem.order /\ n.state[c] = "Rejected"
      /\ \A d \in Chapter \ {c} : n.run[d] = mem.run[d] /\ n.state[d] = mem.state[d]
  BY <1>2, <1>3, <1>4 DEF Controller, ChapterState, RunState
<1>6. Consistent(n)
  BY <1>2, <1>3, <1>5 DEF Consistent
<1>7. RunsOK(n, chain, rejected')
  <2>1. Barred(r, rejected')
    BY <1>3 DEF Barred, Undecided
  <2>2. Based(r, chain)
    BY <1>1, <1>3 DEF ProcessInv, RunsOK, Based, Same
  <2>3. ASSUME NEW d \in Chapter \ {c}, mem.run[d] # None
        PROVE  Barred(mem.run[d], rejected') /\ r.draft # mem.run[d].draft
    <3>1. mem.run[d].draft # mem.run[c].draft
      BY <1>1, <2>3 DEF ProcessInv, RunsOK
    <3>2. Barred(mem.run[d], rejected)
      BY <2>3 DEF ProcessInv, RunsOK
    <3>3. QED
      BY <1>1, <1>3, <3>1, <3>2 DEF Barred, Same
  <2>4. QED
    BY <1>5, <2>1, <2>2, <2>3 DEF ProcessInv, RunsOK
<1>8. RunsOK(mem', chain, rejected')
  BY <1>1, <1>5, <1>6, <1>7, UpstreamCarries, CarriesRuns
<1>9. QED
  BY <1>1, <1>2, <1>8 DEF ProcessInv

\* What was reopened for an edit is not validated.
LEMMA ReopenedProcess ==
  ASSUME IInv, ProcessInv, NEW c \in Chapter, MayEdit(c), NEW t \in Text \cup {None}
  PROVE  RunsOK(Reopened(c, t), chain, rejected)
<1> DEFINE r == [mem.run[c] EXCEPT !.text = t, !.validated = FALSE, !.state = "Candidate"]
           n == Reopened(c, t)
<1>1. mem \in Controller /\ mem.run[c] \in Run /\ mem.run[c] # None
  BY Parts DEF IInv, Sound, Loose, MayEdit, HasRun
<1>2. r \in Run /\ Keeps(r, mem.run[c])
  BY <1>1, ReopenedRun
<1>3. r.validated = FALSE /\ r.depends = mem.run[c].depends
  BY <1>1 DEF Run
<1>4. n = WithRun(mem, c, r)
  BY <1>1, ReopenedAs DEF WithRun
<1> HIDE DEF r
<1>5. n.run[c] = r /\ \A d \in Chapter \ {c} : n.run[d] = mem.run[d]
  <2> HIDE DEF n
  <2>1. QED BY <1>1, <1>2, <1>4, WithRunParts
<1> HIDE DEF n
<1>6. Barred(r, rejected)
  BY <1>3 DEF Barred
<1>7. Based(r, chain)
  BY <1>1, <1>2, <1>3 DEF ProcessInv, RunsOK, Based, Keeps
<1>8. \A d \in Chapter \ {c} : mem.run[d] # None => r.draft # mem.run[d].draft
  BY <1>1, <1>2, OthersDiffer DEF ProcessInv, Keeps
<1>9. RunsOK(n, chain, rejected)
  BY <1>5, <1>6, <1>7, <1>8, RunChanged DEF ProcessInv
<1>10. QED
  BY <1>9 DEF n

LEMMA EditProcess ==
  ASSUME IInv, ProcessInv, NEW c \in Chapter, NEW t \in Text, Edit(c, t)
  PROVE  ProcessInv'
<1> DEFINE m == Reopened(c, t)
           n == [m EXCEPT !.provisional[c] = t]
           u == NoteUpstreamEdit(n, c)
<1>1. /\ MayEdit(c) /\ mem' = Refresh(u) /\ UNCHANGED <<chain, reviewed, rejected>>
  BY DEF Edit, historyVars
<1>2. /\ Loose(m, chain, reviewed, open) /\ RunsOK(m, chain, rejected)
  BY <1>1, ReopenedLoose, ReopenedProcess
<1>3. m \in Controller /\ Consistent(m)
  BY <1>2 DEF Loose
<1> HIDE DEF m
<1>4. /\ n \in Controller /\ n.order = m.order /\ n.run = m.run /\ n.state = m.state
  BY <1>3, GivenParts
<1> HIDE DEF n
<1>5. Consistent(n) /\ RunsOK(n, chain, rejected)
  BY <1>2, <1>3, <1>4 DEF Consistent, RunsOK
<1>6. u \in Controller /\ RunsOK(u, chain, rejected)
  BY <1>4, <1>5, UpstreamKeeps, UpstreamCarries, CarriesRuns
<1> HIDE DEF u
<1>7. RunsOK(mem', chain, rejected)
  BY <1>1, <1>6, RefreshCarries, CarriesRuns
<1>8. QED
  BY <1>1, <1>7 DEF ProcessInv

LEMMA CorrectProcess ==
  ASSUME IInv, ProcessInv, NEW c \in Chapter, NEW o \in RecordOutcome, Correct(c, o)
  PROVE  ProcessInv'
<1>1. mem' = NoteUpstreamEdit(mem, c) /\ UNCHANGED <<chain, reviewed, rejected>>
  BY DEF Correct, historyVars
<1>2. mem \in Controller /\ Consistent(mem)
  BY DEF IInv, Sound, Loose
<1>3. QED
  BY <1>1, <1>2, UpstreamCarries, CarriesRuns DEF ProcessInv

LEMMA GrowsProcess ==
  ASSUME IInv, ProcessInv, NEW c \in Chapter, MayApprove(c),
         UNCHANGED <<reviewed, open, rejected>>,
         chain' = Append(chain, [draft |-> mem.run[c].draft, text |-> mem.run[c].text])
  PROVE  RunsOK(mem, chain', rejected)
<1>1. mem.run[c] \in Run /\ mem.run[c].text = mem.run[c].content
  BY Parts DEF IInv, Sound, Loose, MayApprove, IsApprovable, HasRun, Valid
<1>2. [draft |-> mem.run[c].draft, text |-> mem.run[c].text] \in Candidates
  BY <1>1 DEF Run, Candidates
<1>3. QED
  BY <1>2, ApprovalUnbases DEF ProcessInv

LEMMA ApproveProcess ==
  ASSUME IInv, ProcessInv, NEW c \in Chapter, NEW o \in RecordOutcome, Approve(c, o)
  PROVE  ProcessInv'
<1> DEFINE k == Dependency(mem.run[c].order)
           r == [mem.run[c] EXCEPT !.state = "Approved", !.validated = TRUE, !.depends = k]
           m == [mem EXCEPT !.state[c] = "Approved", !.run[c].state = "Approved",
                            !.run[c].validated = TRUE, !.run[c].depends = k]
<1>1. /\ mem' = m /\ MayApprove(c)
      /\ chain' = Append(chain, [draft |-> mem.run[c].draft, text |-> mem.run[c].text])
      /\ UNCHANGED <<reviewed, open, rejected>>
  BY DEF Approve, historyVars
<1>2. /\ mem \in Controller /\ mem.run[c] \in Run /\ mem.run[c] # None
      /\ mem.run[c].base <= Len(chain)
  BY <1>1, Parts DEF IInv, Sound, Loose, RunOK, MayApprove, IsApprovable, HasRun
<1>3. chain \in Seq(Candidates) /\ Len(chain) \in Nat
  BY DEF IInv, RestOK
<1>4. RunsOK(mem, chain', rejected)
  BY <1>1, GrowsProcess
<1>5. r.state = "Approved" /\ r.draft = mem.run[c].draft /\ r.base = mem.run[c].base
  BY <1>2 DEF Run
<1>6. m = [mem EXCEPT !.state[c] = "Approved", !.run[c] = r]
  BY <1>2, Parts, ZenonT(60)
<1> HIDE DEF r, m, k
<1>7. m.run[c] = r /\ \A d \in Chapter \ {c} : m.run[d] = mem.run[d]
  BY <1>2, <1>6, Parts
<1>8. Len(chain') = Len(chain) + 1
  <2>1. mem.run[c].text = mem.run[c].content
    BY <1>1 DEF MayApprove, Valid
  <2>2. [draft |-> mem.run[c].draft, text |-> mem.run[c].text] \in Candidates
    BY <1>2, <2>1 DEF Run, Candidates
  <2>3. QED
    BY <1>1, <1>3, <2>2, GrownChain
<1>9. Barred(r, rejected) /\ Based(r, chain')
  <2>1. Barred(r, rejected)
    BY <1>5 DEF Barred, Undecided
  <2>2. r.base # Len(chain')
    BY <1>2, <1>3, <1>5, <1>8 DEF Run
  <2>3. QED
    BY <2>1, <2>2 DEF Based
<1>10. \A d \in Chapter \ {c} : mem.run[d] # None => r.draft # mem.run[d].draft
  BY <1>2, <1>4, <1>5, OthersDiffer
<1>11. RunsOK(m, chain', rejected)
  BY <1>4, <1>7, <1>9, <1>10, RunChanged
<1>12. QED
  BY <1>1, <1>11 DEF ProcessInv

\* A process, and what it was told, until another one starts.
OneProcess == Write \/ Step \/ Human \/ Crash

LEMMA ProcessStep == IInv /\ ProcessInv /\ [OneProcess]_vars => ProcessInv'
<1> SUFFICES ASSUME IInv, ProcessInv, [OneProcess]_vars PROVE ProcessInv'
  OBVIOUS
<1>1. CASE Write
  <2>1. CASE \E n \in RunLengths : \E ids \in [1..n -> Chapter] : StartContinuous(ids)
    <3>1. mem'.run = mem.run /\ UNCHANGED <<chain, reviewed, rejected>>
      BY <2>1, Parts DEF StartContinuous, diskVars, historyVars, IInv, Sound, Loose
    <3>2. QED
      BY <3>1 DEF ProcessInv, RunsOK
  <2>2. CASE \E c \in Chapter : BeginWrite(c)
    BY <2>2, BeginWriteProcess
  <2>3. CASE WriteFails \/ \E c \in Chapter : WriteRefused(c)
    BY <2>3 DEF WriteFails, WriteRefused, diskVars, historyVars, ProcessInv
  <2>4. QED
    BY <1>1, <2>1, <2>2, <2>3 DEF Write
<1>2. CASE Step
  <2>1. CASE \E t \in Text : ReviserAnswers(t)
    BY <2>1, ReviserProcess
  <2>2. CASE \E o \in RecordOutcome : EndWrite(o)
    BY <2>2, EndWriteProcess
  <2>3. CASE \/ ArchitectAnswers \/ ReviserSilent \/ \E t \in Text : WriterAnswers(t)
             \/ \E B \in SUBSET Critic : \E said \in [B -> SUBSET Message] :
                  CriticsAnswer(B, said)
    BY <2>3 DEF ArchitectAnswers, ReviserSilent, WriterAnswers, CriticsAnswer, diskVars,
                historyVars, ProcessInv
  <2>4. QED
    BY <1>2, <2>1, <2>2, <2>3 DEF Step
<1>3. CASE Human
  <2>1. CASE \E c \in Chapter, f \in FindingId, o \in RecordOutcome : Resolve(c, f, o)
    BY <2>1, ResolveProcess
  <2>2. CASE \E c \in Chapter : Reject(c)
    BY <2>2, RejectProcess
  <2>3. CASE \E c \in Chapter, o \in RecordOutcome : Approve(c, o)
    BY <2>3, ApproveProcess
  <2>4. CASE \E c \in Chapter : ApproveUnnoticed(c)
    BY <2>4, GrowsProcess DEF ApproveUnnoticed, memVars, historyVars, ProcessInv
  <2>5. CASE \E c \in Chapter, t \in Text : Edit(c, t)
    BY <2>5, EditProcess
  <2>6. CASE \E c \in Chapter : EditFails(c)
    BY <2>6, ReopenedProcess DEF EditFails, diskVars, historyVars, ProcessInv
  <2>7. CASE \E c \in Chapter, o \in RecordOutcome : Correct(c, o)
    BY <2>7, CorrectProcess
  <2>8. CASE \E o \in RecordOutcome : Compact(o)
    BY <2>8 DEF Compact, memVars, historyVars, ProcessInv
  <2>9. QED
    BY <1>3, <2>1, <2>2, <2>3, <2>4, <2>5, <2>6, <2>7, <2>8 DEF Human
<1>4. CASE Crash
  BY <1>4 DEF Crash, NewController, diskVars, historyVars, ProcessInv, RunsOK
<1>5. CASE UNCHANGED vars
  BY <1>5 DEF vars, memVars, diskVars, historyVars, ProcessInv
<1>6. QED
  BY <1>1, <1>2, <1>3, <1>4, <1>5 DEF OneProcess

LEMMA ProcessStart == Init => ProcessInv
  BY DEF Init, NewController, ProcessInv, RunsOK

\* What may be approved was not rejected.
LEMMA MayApproveUnrejected ==
  ASSUME IInv, ProcessInv, NEW c \in Chapter, MayApprove(c)
  PROVE  mem.run[c].draft \notin rejected
<1> DEFINE r == mem.run[c]
<1>1. /\ r # None /\ r.state = "Approvable" /\ r.base = Len(chain)
      /\ r.validated \/ r.depends # Dependency(r.order)
  BY DEF MayApprove, IsApprovable, HasRun, Valid
<1>2. Barred(r, rejected) /\ Based(r, chain)
  BY <1>1 DEF ProcessInv, RunsOK
<1> HIDE DEF r
<1>3. r.depends = Dependency(r.order)
  BY <1>1, <1>2 DEF Based, Dependency, DependencyIn
<1>4. r.validated
  BY <1>1, <1>3
<1>5. r.state \in Undecided
  BY <1>1 DEF Undecided
<1>6. QED
  BY <1>2, <1>4, <1>5, Zenon DEF Barred, r

Unrejected == Len(chain') > Len(chain) => chain'[Len(chain')].draft \notin rejected

LEMMA StepUnrejected == IInv /\ ProcessInv /\ [Next]_vars => Unrejected
<1> SUFFICES ASSUME IInv, ProcessInv, [Next]_vars, Len(chain') > Len(chain)
             PROVE  chain'[Len(chain')].draft \notin rejected
  BY DEF Unrejected
<1>1. chain \in Seq(Candidates) /\ Len(chain) \in Nat
  BY DEF IInv, RestOK
<1>2. chain' # chain
  BY <1>1
<1>3. \E c \in Chapter : MayApprove(c)
        /\ chain' = Append(chain, [draft |-> mem.run[c].draft, text |-> mem.run[c].text])
  <2>1. CASE Write
    BY <1>2, <2>1 DEF Write, BeginWrite, WriteRefused, WriteFails, StartContinuous, diskVars
  <2>2. CASE Step
    <3>1. UNCHANGED chain
      BY <2>2 DEF Step, ArchitectAnswers, WriterAnswers, CriticsAnswer, ReviserSilent,
                  ReviserAnswers, EndWrite, diskVars
    <3>2. QED
      BY <1>2, <3>1
  <2>3. CASE Human
    <3>1. CASE \E c \in Chapter, o \in RecordOutcome : Approve(c, o)
      BY <3>1 DEF Approve
    <3>2. CASE \E c \in Chapter : ApproveUnnoticed(c)
      BY <3>2 DEF ApproveUnnoticed
    <3>3. CASE \/ \E c \in Chapter, f \in FindingId, o \in RecordOutcome : Resolve(c, f, o)
               \/ \E c \in Chapter : Reject(c) \/ EditFails(c)
               \/ \E c \in Chapter, t \in Text : Edit(c, t)
               \/ \E c \in Chapter, o \in RecordOutcome : Correct(c, o)
               \/ \E o \in RecordOutcome : Compact(o)
      <4>1. UNCHANGED chain
        BY <3>3 DEF Resolve, Reject, EditFails, Edit, Correct, Compact, diskVars
      <4>2. QED
        BY <1>2, <4>1
    <3>4. QED
      BY <2>3, <3>1, <3>2, <3>3 DEF Human
  <2>4. CASE Crash \/ Attach \/ UNCHANGED vars
    BY <1>2, <2>4 DEF Crash, Attach, vars, diskVars
  <2>5. QED
    BY <2>1, <2>2, <2>3, <2>4 DEF Next
<1>4. PICK c \in Chapter : MayApprove(c)
        /\ chain' = Append(chain, [draft |-> mem.run[c].draft, text |-> mem.run[c].text])
  BY <1>3
<1> DEFINE x == [draft |-> mem.run[c].draft, text |-> mem.run[c].text]
<1>5. mem.run[c] \in Run /\ mem.run[c].text = mem.run[c].content
  BY <1>4, Parts DEF IInv, Sound, Loose, MayApprove, IsApprovable, HasRun, Valid
<1>6. x \in Candidates /\ x.draft = mem.run[c].draft
  BY <1>5 DEF Run, Candidates
<1> HIDE DEF x
<1>7. chain'[Len(chain')] = x
  <2>1. chain' = Append(chain, x)
    BY <1>4 DEF x
  <2>2. QED
    BY <1>1, <1>6, <2>1, GrownChain
<1>8. QED
  BY <1>4, <1>6, <1>7, MayApproveUnrejected

\* In one process a changeset the human rejected is never approved, however
\* the chapter is edited, corrected and written again, for any chapters,
\* texts, critics and limits (reject_chapter_trusted, validate_changeset).
THEOREM RejectedIsFinal ==
  Init /\ [][OneProcess]_vars
    => [][Len(chain') > Len(chain) => chain'[Len(chain')].draft \notin rejected]_vars
<1>1. Init => IInv /\ ProcessInv
  BY InitIInv, ProcessStart
<1>2. IInv /\ ProcessInv /\ [OneProcess]_vars => (IInv /\ ProcessInv)'
  BY NextIInv, ProcessStep DEF OneProcess, Next
<1>3. IInv /\ ProcessInv /\ [OneProcess]_vars => [Unrejected]_vars
  BY StepUnrejected DEF OneProcess, Next
<1> QED
  BY <1>1, <1>2, <1>3, PTL DEF Unrejected

LEMMA KindIsNext == [KindNext]_<<vars, kind>> => [Next]_vars
<1>1. ASSUME Always PROVE Next
  BY <1>1 DEF Always, Next, Write, Human
<1>2. ASSUME Call(kind) PROVE Next
  BY <1>2 DEF Call, Next, Write, Human
<1>3. QED
  BY <1>1, <1>2 DEF KindNext

LEMMA RejectingIsOneProcess ==
  ASSUME kind = Rejecting, [KindNext]_<<vars, kind>>
  PROVE  [OneProcess]_vars
<1>1. ASSUME Always PROVE OneProcess
  BY <1>1 DEF Always, OneProcess, Write, Human
<1>2. ASSUME Call(kind) PROVE OneProcess
  <2>1. kind.calls = {"edit", "reject"}
    BY DEF Rejecting
  <2>2. QED
    BY <1>2, <2>1 DEF Call, OneProcess, Human
<1>3. QED
  BY <1>1, <1>2 DEF KindNext

\* The same, as the runs state it.
THEOREM RejectedStays == KindSpec => RejectedStaysInProcess
<1> DEFINE Inv == IInv /\ (kind = Rejecting => ProcessInv)
<1>1. KindInit => Inv
  BY InitIInv, ProcessStart DEF KindInit
<1>2. Inv /\ [KindNext]_<<vars, kind>> => Inv'
  <2> SUFFICES ASSUME Inv, [KindNext]_<<vars, kind>> PROVE Inv'
    OBVIOUS
  <2>1. IInv'
    BY KindIsNext, NextIInv
  <2>2. ASSUME kind' = Rejecting PROVE ProcessInv'
    <3>1. kind = Rejecting
      BY <2>2 DEF KindNext
    <3>2. QED
      BY <3>1, RejectingIsOneProcess, ProcessStep
  <2>3. QED
    BY <2>1, <2>2
<1>3. Inv /\ [KindNext]_<<vars, kind>> =>
        [kind = Rejecting /\ Len(chain') > Len(chain)
           => chain'[Len(chain')].draft \notin rejected]_vars
  BY KindIsNext, StepUnrejected DEF Unrejected
<1> HIDE DEF Inv
<1> QED
  BY <1>1, <1>2, <1>3, PTL DEF KindSpec, RejectedStaysInProcess

=============================================================================
