---------------------------- MODULE SessionProofs ----------------------------
(***************************************************************************)
(* What BudgetLedger and ModelSession promise for any requests, costs,     *)
(* caps and faults.                                                        *)
(*                                                                         *)
(* The ledger.  Its file is replayed by a recursive function, so the first *)
(* section proves how a replay unfolds.  Then: reserving within the caps   *)
(* and settling keep a ledger sound; every prefix of the file yields a     *)
(* sound ledger; and a ledger in use is what its file yields, so an event  *)
(* that is appended applies when it is replayed.                           *)
(*                                                                         *)
(* The session.  While a command runs, the last line of the session is     *)
(* durable and lies behind every checkpoint on disk, and other processes   *)
(* only add to it.  So when a process with the ledger dies before it noted *)
(* an answer, no checkpoint that a power loss may bring back names the     *)
(* last line, and no process attaches but one that had read the checkpoint *)
(* before.                                                                 *)
(*                                                                         *)
(* The costs shown never go below zero: each request in flight is one of   *)
(* the batch, of its answers or the one just reserved, no request is two   *)
(* of these, each is held at the maximum, and the status shows at least    *)
(* the maximum of each.                                                    *)
(*                                                                         *)
(* While the ledger has never been frozen, its file is whole and synced:   *)
(* so it opens for the process that attaches after a command has finished. *)
(*                                                                         *)
(* All that was sent by processes that had the ledger is held on its file  *)
(* and shown.  The invariant counts what is owed for a request: its        *)
(* maximum while it is in flight, what it was charged afterwards, up to    *)
(* the maximum.  Whatever a power loss leaves of the ledger covers it, the *)
(* status covers its sum, and a checkpoint is behind, so that nothing      *)
(* attaches to it, or covers what was charged.  What is held in memory     *)
(* alone, and what comes from a checkpoint that was read too early, is     *)
(* told apart by `unheld` and `late`.                                      *)
(***************************************************************************)
EXTENDS ModelSession, SumProofs

-----------------------------------------------------------------------------
(***************************************************************************)
(* Replaying a log of one event more applies that event to what the others *)
(* have left.                                                              *)
(***************************************************************************)
Start == [ok |-> TRUE, ledger |-> EmptyLedger]

\* The states after each of the first n events.
Onward(log, n, run) ==
  [i \in 0..n |-> IF i = 0 THEN Start ELSE Replayed(run[i - 1], log[i])]
Run(log) == CHOOSE run : run = Onward(log, Len(log), run)

LEMMA ReplayIsRun ==
  ASSUME NEW log
  PROVE  Replay(log) = Run(log)[Len(log)]
BY DEF Replay, Run, Onward, Start

LEMMA RunExists ==
  ASSUME NEW log, Len(log) \in Nat
  PROVE  Run(log) = Onward(log, Len(log), Run(log))
<1> DEFINE Bad == {n \in Nat : ~\E run : run = Onward(log, n, run)}
<1>1. Bad = {}
  <2> SUFFICES ASSUME Bad # {} PROVE FALSE
    OBVIOUS
  <2>1. PICK n \in Bad : \A m \in Bad : n <= m
    <3> HIDE DEF Bad
    <3>1. Bad \in SUBSET Nat
      BY DEF Bad
    <3>2. QED  BY <3>1, Smallest
  <2>2. CASE n = 0
    <3> DEFINE run == [i \in 0..0 |-> Start]
    <3>1. run = Onward(log, 0, run)
      BY DEF Onward
    <3>2. QED  BY <2>2, <3>1
  <2>3. CASE n # 0
    <3>1. n - 1 \in Nat /\ n - 1 \notin Bad
      BY <2>1, <2>3
    <3>2. PICK run : run = Onward(log, n - 1, run)
      BY <3>1
    <3> DEFINE next == Onward(log, n, run)
    <3>3. \A i \in 0..n : i # 0 => i - 1 \in 0..(n - 1)
      OBVIOUS
    <3>4. \A i \in 0..(n - 1) : next[i] = run[i]
      <4>1. \A i \in 0..(n - 1) :
              run[i] = IF i = 0 THEN Start ELSE Replayed(run[i - 1], log[i])
        BY <3>2 DEF Onward
      <4>2. \A i \in 0..(n - 1) : i \in 0..n
        BY <3>1
      <4>3. QED  BY <4>1, <4>2 DEF Onward
    <3>5. next = Onward(log, n, next)
      BY <3>3, <3>4 DEF Onward
    <3>6. QED  BY <3>5
  <2>4. QED  BY <2>2, <2>3
<1>2. \E run : run = Onward(log, Len(log), run)
  BY <1>1
<1>3. QED  BY <1>2 DEF Run

LEMMA ReplayNothing == Replay(<< >>) = Start
<1>1. Len(<< >>) = 0
  OBVIOUS
<1>2. Run(<< >>) = Onward(<< >>, 0, Run(<< >>))
  BY <1>1, RunExists
<1>3. Run(<< >>)[0] = Start
  BY <1>2 DEF Onward
<1>4. QED  BY <1>1, <1>3, ReplayIsRun

LEMMA ReplayAppend ==
  ASSUME NEW S, NEW log \in Seq(S), NEW e \in S
  PROVE  Replay(Append(log, e)) = Replayed(Replay(log), e)
<1> DEFINE more == Append(log, e)
           n == Len(log)
           p == Run(log)
           q == Run(more)
           Bad == {i \in 0..n : p[i] # q[i]}
<1>1. /\ n \in Nat /\ Len(more) = n + 1
      /\ more[n + 1] = e
      /\ \A i \in 1..n : more[i] = log[i]
  OBVIOUS
<1> HIDE DEF more, n
<1>2. p = Onward(log, n, p) /\ q = Onward(more, n + 1, q)
  <2>1. p = Onward(log, Len(log), p)
    BY <1>1, RunExists DEF n
  <2>2. q = Onward(more, Len(more), q)
    BY <1>1, RunExists
  <2>3. QED  BY <1>1, <2>1, <2>2 DEF n
<1> HIDE DEF p, q
<1>3. \A i \in 0..n : p[i] = IF i = 0 THEN Start ELSE Replayed(p[i - 1], log[i])
  BY <1>2 DEF Onward
<1>4. \A i \in 0..(n + 1) : q[i] = IF i = 0 THEN Start ELSE Replayed(q[i - 1], more[i])
  BY <1>2 DEF Onward
<1>5. Bad = {}
  <2> SUFFICES ASSUME Bad # {} PROVE FALSE
    OBVIOUS
  <2>1. PICK i \in Bad : \A j \in Bad : i <= j
    <3> HIDE DEF Bad
    <3>1. Bad \in SUBSET Nat
      BY <1>1 DEF Bad
    <3>2. QED  BY <3>1, Smallest
  <2>2. i \in 0..n /\ i \in 0..(n + 1)
    BY <1>1
  <2>3. i # 0
    BY <1>3, <1>4, <2>2
  <2>4. i - 1 \in 0..n /\ i \in 1..n /\ ~(i <= i - 1)
    BY <1>1, <2>2, <2>3
  <2>5. p[i - 1] = q[i - 1]
    BY <2>1, <2>4
  <2>6. p[i] = q[i]
    BY <1>1, <1>3, <1>4, <2>2, <2>3, <2>4, <2>5
  <2>7. QED  BY <2>6
<1>6. p[n] = q[n]
  BY <1>1, <1>5
<1>7. q[n + 1] = Replayed(q[n], more[n + 1])
  <2>1. n + 1 \in 0..(n + 1) /\ n + 1 # 0 /\ (n + 1) - 1 = n
    BY <1>1
  <2>2. QED  BY <1>4, <2>1
<1>8. Replay(log) = p[n] /\ Replay(more) = q[n + 1]
  BY <1>1, ReplayIsRun DEF p, q, n
<1>9. QED  BY <1>1, <1>6, <1>7, <1>8 DEF more

-----------------------------------------------------------------------------
(***************************************************************************)
(* What is true of a ledger that was built by reserving within the caps    *)
(* and by settling.                                                        *)
(***************************************************************************)
Warned(l, c) == {r \in HoldingFor(l, c) : l.reservations[r].warned}

WellFormed(l) ==
  /\ l \in LedgerState
  /\ IsFiniteSet(Holding(l))
  /\ l.settled \subseteq Holding(l)

CapsKept(l) ==
  /\ RunTotal(l) \in Nat /\ RunTotal(l) <= RunCap
  /\ \A c \in Chapter : ChapterTotal(l, c) \in Nat /\ ChapterTotal(l, c) <= ChapterCap

WarnedWell(l) ==
  \A c \in Chapter :
    /\ \A r, s \in Warned(l, c) : r = s
    /\ Warned(l, c) # {} <=> c \in l.warnings
    /\ ChapterTotal(l, c) > ChapterWarning => c \in l.warnings

Sound(l) == WellFormed(l) /\ CapsKept(l) /\ WarnedWell(l)

LEMMA EmptySound ==
  /\ Sound(EmptyLedger)
  /\ Holding(EmptyLedger) = {}
<1> DEFINE l == EmptyLedger
<1>1. l \in LedgerState
  BY DEF EmptyLedger, LedgerState
<1>2. Holding(l) = {} /\ l.settled = {} /\ l.warnings = {}
  BY DEF EmptyLedger, Holding
<1>3. IsFiniteSet({})
  BY FS_EmptySet
<1> HIDE DEF l
<1>4. \A c : HoldingFor(l, c) = {} /\ Warned(l, c) = {}
  BY <1>2 DEF HoldingFor, Warned
<1>5. RunTotal(l) = 0 /\ \A c : ChapterTotal(l, c) = 0
  BY <1>2, <1>4, SumOfNothing DEF RunTotal, ChapterTotal
<1>6. CapsKept(l) /\ WarnedWell(l)
  BY <1>2, <1>4, <1>5, CapAssumption DEF CapsKept, WarnedWell
<1>7. WellFormed(l)
  BY <1>1, <1>2, <1>3 DEF WellFormed
<1>8. QED  BY <1>2, <1>6, <1>7 DEF Sound, l

LEMMA CostsAreNat ==
  ASSUME NEW l, WellFormed(l)
  PROVE  /\ \A r \in Holding(l) : Costs(l)[r] = l.reservations[r].cost
                               /\ Costs(l)[r] \in Nat
                               /\ l.reservations[r] \in Reservation
         /\ \A c : HoldingFor(l, c) \subseteq Holding(l) /\ IsFiniteSet(HoldingFor(l, c))
<1>1. \A r \in Holding(l) : l.reservations[r] \in Reservation
  BY DEF Holding, WellFormed, LedgerState
<1>2. \A r \in Holding(l) : Costs(l)[r] = l.reservations[r].cost
  BY DEF Costs
<1>3. \A r \in Holding(l) : l.reservations[r].cost \in Nat
  BY <1>1 DEF Reservation
<1>4. \A c : HoldingFor(l, c) \subseteq Holding(l)
  BY DEF HoldingFor
<1>5. QED  BY <1>1, <1>2, <1>3, <1>4, FS_Subset DEF WellFormed

\* A new hold within the caps keeps a ledger sound.
LEMMA HoldSound ==
  ASSUME NEW l, Sound(l), NEW r \in Request, r \notin Holding(l), NEW c \in Chapter,
         NEW maximum \in Nat, WithinCaps(l, c, maximum)
  PROVE  /\ NewReservation(l, c, maximum) \in Reservation
         /\ Sound(Holds(l, r, NewReservation(l, c, maximum)))
         /\ Holding(Holds(l, r, NewReservation(l, c, maximum))) = Holding(l) \cup {r}
<1> DEFINE new == NewReservation(l, c, maximum)
           m == Holds(l, r, new)
<1>0. WellFormed(l) /\ CapsKept(l) /\ WarnedWell(l)
  BY DEF Sound
<1>1. new \in Reservation /\ new.chapter = c /\ new.cost = maximum
  BY DEF NewReservation, Reservation
<1>2. new.warned <=> ChapterTotal(l, c) + maximum > ChapterWarning /\ c \notin l.warnings
  BY DEF NewReservation
<1> HIDE DEF new
<1>3. new # NoReservation
  BY <1>1, NoReservationAssumption
<1>4. /\ l.reservations \in [Request -> Reservation \cup {NoReservation}]
      /\ l.settled \in SUBSET Request /\ l.warnings \in SUBSET Chapter
      /\ l = [reservations |-> l.reservations, settled |-> l.settled,
              warnings |-> l.warnings]
  BY <1>0 DEF WellFormed, LedgerState
<1>5. /\ m.reservations = [l.reservations EXCEPT ![r] = new]
      /\ m.settled = l.settled
      /\ m.warnings = IF new.warned THEN l.warnings \cup {c} ELSE l.warnings
      /\ m \in LedgerState
  BY <1>1, <1>4 DEF Holds, LedgerState
<1> HIDE DEF m
<1>6. /\ m.reservations[r] = new
      /\ \A x \in Request : x # r => m.reservations[x] = l.reservations[x]
  BY <1>4, <1>5
<1>7. Holding(m) = Holding(l) \cup {r}
  BY <1>3, <1>6 DEF Holding
<1>8. /\ HoldingFor(m, c) = HoldingFor(l, c) \cup {r}
      /\ \A d : d # c => HoldingFor(m, d) = HoldingFor(l, d)
  BY <1>1, <1>6, <1>7 DEF HoldingFor, Holding
<1>9. WellFormed(m)
  BY <1>0, <1>5, <1>7, FS_AddElement DEF WellFormed
<1>10. /\ \A x \in Holding(l) : Costs(m)[x] = Costs(l)[x] /\ Costs(l)[x] \in Nat
       /\ Costs(m)[r] = maximum
  <2>1. \A x \in Holding(l) : x \in Request /\ x # r /\ x \in Holding(m)
    BY <1>7 DEF Holding
  <2>2. \A x \in Holding(l) : m.reservations[x] = l.reservations[x]
    BY <1>6, <2>1
  <2>3. \A x \in Holding(m) : Costs(m)[x] = m.reservations[x].cost
    BY <1>9, CostsAreNat
  <2>4. \A x \in Holding(l) : Costs(l)[x] = l.reservations[x].cost /\ Costs(l)[x] \in Nat
    BY <1>0, CostsAreNat
  <2>5. r \in Holding(m)
    BY <1>7
  <2>6. QED  BY <1>1, <1>6, <2>1, <2>2, <2>3, <2>4, <2>5
<1>11. \A d : /\ HoldingFor(l, d) \subseteq Holding(l)
              /\ IsFiniteSet(HoldingFor(l, d)) /\ r \notin HoldingFor(l, d)
  BY <1>0, CostsAreNat
<1>12. RunTotal(m) = RunTotal(l) + maximum
  <2>1. SumFunctionOnSet(Costs(m), Holding(l) \cup {r})
          = SumFunctionOnSet(Costs(l), Holding(l)) + Costs(m)[r]
    <3>1. \A x \in Holding(l) : Costs(l)[x] \in Nat /\ Costs(m)[x] = Costs(l)[x]
      BY <1>10
    <3>2. Costs(m)[r] \in Nat /\ IsFiniteSet(Holding(l))
      BY <1>0, <1>10 DEF WellFormed
    <3>3. QED  BY <3>1, <3>2, SumAdds
  <2>2. QED  BY <1>7, <1>10, <2>1 DEF RunTotal
<1>13. ChapterTotal(m, c) = ChapterTotal(l, c) + maximum
  <2>1. SumFunctionOnSet(Costs(m), HoldingFor(l, c) \cup {r})
          = SumFunctionOnSet(Costs(l), HoldingFor(l, c)) + Costs(m)[r]
    <3>1. \A x \in HoldingFor(l, c) : Costs(l)[x] \in Nat /\ Costs(m)[x] = Costs(l)[x]
      BY <1>10, <1>11
    <3>2. Costs(m)[r] \in Nat
      BY <1>10
    <3>3. QED  BY <1>11, <3>1, <3>2, SumAdds
  <2>2. QED  BY <1>8, <1>10, <2>1 DEF ChapterTotal
<1>14. ASSUME NEW d, d # c
       PROVE  ChapterTotal(m, d) = ChapterTotal(l, d)
  <2>1. \A x \in HoldingFor(l, d) : Costs(m)[x] = Costs(l)[x]
    BY <1>10, <1>11
  <2>2. SumFunctionOnSet(Costs(m), HoldingFor(l, d))
          = SumFunctionOnSet(Costs(l), HoldingFor(l, d))
    BY <1>11, <2>1, SumAgrees
  <2>3. QED  BY <1>8, <1>14, <2>2 DEF ChapterTotal
<1>15. CapsKept(m)
  BY <1>0, <1>12, <1>13, <1>14, CapAssumption DEF CapsKept, WithinCaps
<1>16. ASSUME NEW d \in Chapter
       PROVE  /\ \A x, y \in Warned(m, d) : x = y
              /\ Warned(m, d) # {} <=> d \in m.warnings
              /\ ChapterTotal(m, d) > ChapterWarning => d \in m.warnings
  <2>1. /\ \A x, y \in Warned(l, d) : x = y
        /\ Warned(l, d) # {} <=> d \in l.warnings
        /\ ChapterTotal(l, d) > ChapterWarning => d \in l.warnings
        /\ ChapterTotal(l, d) \in Nat
    BY <1>0 DEF WarnedWell, CapsKept
  <2>2. CASE d # c
    <3>1. Warned(m, d) = Warned(l, d)
      <4>1. \A x \in HoldingFor(l, d) : m.reservations[x] = l.reservations[x]
        BY <1>6, <1>11 DEF Holding
      <4>2. QED  BY <1>8, <2>2, <4>1 DEF Warned
    <3>2. QED  BY <1>5, <1>14, <2>1, <2>2, <3>1
  <2>3. CASE d = c
    <3>1. Warned(m, c) = IF new.warned THEN Warned(l, c) \cup {r} ELSE Warned(l, c)
      <4>1. \A x \in HoldingFor(l, c) : m.reservations[x] = l.reservations[x]
        BY <1>6, <1>11 DEF Holding
      <4>2. QED  BY <1>6, <1>8, <4>1 DEF Warned
    <3>2. CASE new.warned
      <4>1. Warned(l, c) = {}
        BY <1>2, <2>1, <2>3, <3>2
      <4>2. Warned(m, c) = {r} /\ c \in m.warnings
        BY <1>5, <3>1, <3>2, <4>1
      <4>3. QED  BY <2>3, <4>2
    <3>3. CASE ~new.warned
      <4>1. Warned(m, c) = Warned(l, c) /\ m.warnings = l.warnings
        BY <1>5, <3>1, <3>3
      <4>2. ChapterTotal(m, c) > ChapterWarning => c \in m.warnings
        BY <1>2, <1>13, <3>3, <4>1
      <4>3. QED  BY <2>1, <2>3, <4>1, <4>2
    <3>4. QED  BY <3>2, <3>3
  <2>4. QED  BY <2>2, <2>3
<1>17. Sound(m)
  BY <1>9, <1>15, <1>16 DEF Sound, WarnedWell
<1>18. QED  BY <1>1, <1>7, <1>17 DEF m, new

\* So does settling one for no more than was held.
LEMMA SettleSound ==
  ASSUME NEW l, Sound(l), NEW r \in Request, NEW actual \in Nat, MaySettle(l, r, actual)
  PROVE  /\ Sound(Settled(l, r, actual))
         /\ Holding(Settled(l, r, actual)) = Holding(l)
<1> DEFINE m == Settled(l, r, actual)
<1>0. WellFormed(l) /\ CapsKept(l) /\ WarnedWell(l)
  BY DEF Sound
<1>1. /\ r \in Holding(l) /\ l.reservations[r] \in Reservation
      /\ actual <= l.reservations[r].cost
  BY <1>0, CostsAreNat DEF MaySettle
<1> DEFINE old == l.reservations[r]
           new == [old EXCEPT !.cost = actual]
<1>2. /\ l.reservations \in [Request -> Reservation \cup {NoReservation}]
      /\ l.settled \in SUBSET Request /\ l.warnings \in SUBSET Chapter
      /\ l = [reservations |-> l.reservations, settled |-> l.settled,
              warnings |-> l.warnings]
  BY <1>0 DEF WellFormed, LedgerState
<1>3. /\ new \in Reservation /\ new.cost = actual
      /\ new.chapter = old.chapter /\ new.warned = old.warned
  BY <1>1 DEF Reservation
<1>4. /\ m.reservations = [l.reservations EXCEPT ![r] = new]
      /\ m.settled = l.settled \cup {r}
      /\ m.warnings = l.warnings
  BY <1>2 DEF Settled
<1>5. m \in LedgerState
  <2>1. m = [l EXCEPT !.reservations = m.reservations, !.settled = m.settled]
    BY <1>2, <1>4 DEF Settled
  <2>2. m.reservations \in [Request -> Reservation \cup {NoReservation}]
    BY <1>2, <1>3, <1>4
  <2>3. m.settled \in SUBSET Request /\ l \in LedgerState
    BY <1>0, <1>2, <1>4 DEF WellFormed
  <2> HIDE DEF m
  <2>4. QED  BY <2>1, <2>2, <2>3 DEF LedgerState
<1> HIDE DEF m
<1>6. new # NoReservation
  BY <1>3, NoReservationAssumption
<1>7. /\ m.reservations[r] = new
      /\ \A x \in Request : x # r => m.reservations[x] = l.reservations[x]
  BY <1>2, <1>4
<1> HIDE DEF new
<1>8. Holding(m) = Holding(l)
  BY <1>1, <1>6, <1>7 DEF Holding
<1>9. \A x \in Holding(l) :
        /\ m.reservations[x].chapter = l.reservations[x].chapter
        /\ m.reservations[x].warned = l.reservations[x].warned
        /\ m.reservations[x].cost <= l.reservations[x].cost
  <2>1. \A x \in Holding(l) : l.reservations[x].cost \in Nat
    BY <1>0, CostsAreNat
  <2>2. QED  BY <1>1, <1>3, <1>7, <2>1 DEF Holding
<1>10. \A c : HoldingFor(m, c) = HoldingFor(l, c)
  BY <1>8, <1>9 DEF HoldingFor
<1>11. \A c : Warned(m, c) = Warned(l, c)
  <2>1. \A c : HoldingFor(l, c) \subseteq Holding(l)
    BY DEF HoldingFor
  <2>2. QED  BY <1>9, <1>10, <2>1 DEF Warned
<1>12. WellFormed(m)
  BY <1>0, <1>1, <1>4, <1>5, <1>8 DEF WellFormed
<1>13. \A x \in Holding(l) : /\ Costs(m)[x] \in Nat /\ Costs(l)[x] \in Nat
                             /\ Costs(m)[x] <= Costs(l)[x]
  <2>1. \A x \in Holding(m) : Costs(m)[x] \in Nat /\ Costs(m)[x] = m.reservations[x].cost
    BY <1>12, CostsAreNat
  <2>2. \A x \in Holding(l) : Costs(l)[x] \in Nat /\ Costs(l)[x] = l.reservations[x].cost
    BY <1>0, CostsAreNat
  <2>3. QED  BY <1>8, <1>9, <2>1, <2>2
<1>14. RunTotal(m) \in Nat /\ RunTotal(m) <= RunTotal(l)
  BY <1>0, <1>8, <1>13, SumGrows, SumTakes DEF RunTotal, WellFormed
<1>15. ASSUME NEW c
       PROVE  ChapterTotal(m, c) \in Nat /\ ChapterTotal(m, c) <= ChapterTotal(l, c)
  <2>1. IsFiniteSet(HoldingFor(l, c)) /\ HoldingFor(l, c) \subseteq Holding(l)
    BY <1>0, CostsAreNat
  <2>2. \A x \in HoldingFor(l, c) : /\ Costs(m)[x] \in Nat /\ Costs(l)[x] \in Nat
                                    /\ Costs(m)[x] <= Costs(l)[x]
    BY <1>13, <2>1
  <2>3. QED  BY <1>10, <2>1, <2>2, SumGrows, SumTakes DEF ChapterTotal
<1>16. CapsKept(m)
  <2>1. RunTotal(m) <= RunCap
    BY <1>0, <1>14, CapAssumption DEF CapsKept
  <2>2. ASSUME NEW c \in Chapter
        PROVE  ChapterTotal(m, c) \in Nat /\ ChapterTotal(m, c) <= ChapterCap
    <3>1. ChapterTotal(l, c) \in Nat /\ ChapterTotal(l, c) <= ChapterCap
      BY <1>0 DEF CapsKept
    <3>2. QED  BY <1>15, <3>1, CapAssumption
  <2>3. QED  BY <1>14, <2>1, <2>2 DEF CapsKept
<1>17. WarnedWell(m)
  <2>1. ASSUME NEW c \in Chapter, ChapterTotal(m, c) > ChapterWarning
        PROVE  c \in m.warnings
    <3>1. ChapterTotal(l, c) \in Nat
      BY <1>0 DEF CapsKept
    <3>2. ChapterTotal(l, c) > ChapterWarning
      BY <1>15, <2>1, <3>1, CapAssumption
    <3>3. QED  BY <1>0, <1>4, <3>2 DEF WarnedWell
  <2>2. QED  BY <1>0, <1>4, <1>11, <2>1 DEF WarnedWell
<1>18. QED  BY <1>8, <1>12, <1>16, <1>17 DEF Sound, m

-----------------------------------------------------------------------------
(***************************************************************************)
(* The file: reported events stay, and nothing follows a part of a line.   *)
(***************************************************************************)
FileType ==
  /\ handle \in {"memory", "file"}
  /\ durabilityUnknown \in BOOLEAN
  /\ costFile \in Seq(Event)
  /\ synced \in 0..Len(costFile)
  /\ torn \in BOOLEAN

\* A part of a line belongs to a ledger that is frozen, or to none at all.
TornIsFrozen == torn => handle = "memory" \/ durabilityUnknown

FileInv == FileType /\ ReportedEventsSurvive /\ TornIsFrozen

\* A new line keeps the ones before it where they are.
LEMMA AppendKeeps ==
  ASSUME NEW S, NEW s \in Seq(S), NEW e \in S, NEW n \in 0..Len(s)
  PROVE  /\ Append(s, e) \in Seq(S)
         /\ Len(Append(s, e)) = Len(s) + 1
         /\ {Append(s, e)[i] : i \in 1..n} = {s[i] : i \in 1..n}
         /\ {Append(s, e)[i] : i \in 1..(Len(s) + 1)}
              = {s[i] : i \in 1..Len(s)} \cup {e}
<1>1. /\ Append(s, e) \in Seq(S)
      /\ Len(Append(s, e)) = Len(s) + 1
  OBVIOUS
<1>2. \A i \in 1..Len(s) : Append(s, e)[i] = s[i]
  OBVIOUS
<1>3. Append(s, e)[Len(s) + 1] = e
  OBVIOUS
<1>4. Len(s) \in Nat /\ n \in Nat /\ n <= Len(s)
  OBVIOUS
<1>5. \A i : i \in 1..n => i \in 1..Len(s)
  BY <1>4
<1>6. \A i : i \in 1..(Len(s) + 1) <=> i \in 1..Len(s) \/ i = Len(s) + 1
  BY <1>4
<1>7. {Append(s, e)[i] : i \in 1..n} = {s[i] : i \in 1..n}
  BY <1>2, <1>5
<1>8. {Append(s, e)[i] : i \in 1..(Len(s) + 1)}
        = {s[i] : i \in 1..Len(s)} \cup {e}
  <2>1. \A x : x \in {Append(s, e)[i] : i \in 1..(Len(s) + 1)}
                 <=> x \in {s[i] : i \in 1..Len(s)} \/ x = e
    BY <1>2, <1>3, <1>6
  <2>2. QED  BY <2>1
<1>9. QED  BY <1>1, <1>7, <1>8

\* Shortening the file to its first n lines leaves them where they are.
LEMMA CutKeeps ==
  ASSUME NEW S, NEW s \in Seq(S), NEW n \in 0..Len(s)
  PROVE  /\ SubSeq(s, 1, n) \in Seq(S)
         /\ Len(SubSeq(s, 1, n)) = n
         /\ \A i \in 1..n : SubSeq(s, 1, n)[i] = s[i]
<1>1. Len(s) \in Nat /\ n \in Nat /\ n <= Len(s)
  OBVIOUS
<1>2. \A i \in 1..n : s[i] \in S
  BY <1>1
<1>3. QED  BY <1>1, <1>2

LEMMA InitFile == LedgerInit => FileInv
<1>1. SUFFICES ASSUME LedgerInit PROVE FileInv
  OBVIOUS
<1>2. << >> \in Seq(Event) /\ Len(<< >>) = 0
  OBVIOUS
<1>3. FileType
  <2>1. /\ handle \in {"memory", "file"} /\ durabilityUnknown \in BOOLEAN
        /\ torn \in BOOLEAN
    BY <1>1 DEF LedgerInit
  <2>2. costFile \in Seq(Event) /\ synced \in 0..Len(costFile)
    BY <1>1, <1>2 DEF LedgerInit
  <2>3. QED  BY <2>1, <2>2 DEF FileType
<1>4. ReportedEventsSurvive
  BY <1>1 DEF LedgerInit, ReportedEventsSurvive
<1>5. TornIsFrozen
  BY <1>1 DEF LedgerInit, TornIsFrozen
<1>6. QED
  BY <1>3, <1>4, <1>5 DEF FileInv

\* Every outcome of an append keeps the invariant.
LEMMA PersistStep ==
  ASSUME FileInv, ~durabilityUnknown, NEW e \in Event, NEW o, NEW after, NEW undone,
         Persist(e, o, after, undone), handle' = handle
  PROVE  /\ FileInv'
         /\ torn => costFile' = costFile
<1> USE DEF FileInv, FileType, ReportedEventsSurvive, TornIsFrozen
<1>1. CASE UNCHANGED <<costFile, synced, torn, acked, durabilityUnknown>>
  BY <1>1
<1>2. ~torn \/ handle = "memory"
  OBVIOUS
<1>3. CASE /\ handle = "file"
           /\ costFile' = Append(costFile, e)
           /\ synced' = Len(costFile')
           /\ acked' = acked \cup {e}
           /\ UNCHANGED <<durabilityUnknown, torn>>
  <2>1. /\ costFile' \in Seq(Event)
        /\ Len(costFile') = Len(costFile) + 1
        /\ {costFile'[i] : i \in 1..synced'} = {costFile[i] : i \in 1..Len(costFile)} \cup {e}
    <3>1. 0 \in 0..Len(costFile)
      OBVIOUS
    <3>2. QED  BY <1>3, <3>1, AppendKeeps
  <2>2. {costFile[i] : i \in 1..synced} \subseteq {costFile[i] : i \in 1..Len(costFile)}
    <3>1. \A i : i \in 1..synced => i \in 1..Len(costFile)
      OBVIOUS
    <3>2. QED  BY <3>1
  <2>3. QED  BY <1>2, <1>3, <2>1, <2>2
<1>4. CASE /\ handle = "file"
           /\ durabilityUnknown' = TRUE
           /\ costFile' = Append(costFile, e)
           /\ UNCHANGED <<synced, torn, acked>>
  <2>1. /\ costFile' \in Seq(Event)
        /\ Len(costFile') = Len(costFile) + 1
        /\ {costFile'[i] : i \in 1..synced} = {costFile[i] : i \in 1..synced}
    BY <1>4, AppendKeeps
  <2>2. QED  BY <1>2, <1>4, <2>1
<1>5. CASE /\ durabilityUnknown' = TRUE
           /\ torn' \in BOOLEAN
           /\ UNCHANGED <<costFile, synced, acked>>
  BY <1>5
<1>6. QED
  BY <1>1, <1>3, <1>4, <1>5 DEF Persist, Freeze, Write, Sync

LEMMA RestartStep ==
  ASSUME FileInv, Open \/ Exit \/ PowerLoss
  PROVE  FileInv' /\ (torn => Len(costFile') <= Len(costFile))
<1> USE DEF FileInv, FileType, ReportedEventsSurvive
<1>1. CASE Open
  BY <1>1 DEF Open, CanOpen, TornIsFrozen
<1>2. CASE Exit
  <2>1. FileType' /\ ReportedEventsSurvive'
    BY <1>2 DEF Exit
  <2>2. handle' = "memory"
    BY <1>2 DEF Exit
  <2>3. costFile' = costFile /\ Len(costFile) \in Nat
    BY <1>2 DEF Exit
  <2>4. TornIsFrozen'
    BY <2>2 DEF TornIsFrozen
  <2>5. QED  BY <2>1, <2>3, <2>4
<1>3. CASE PowerLoss
  <2>1. PICK n \in synced..Len(costFile) : costFile' = SubSeq(costFile, 1, n)
    BY <1>3 DEF PowerLoss
  <2>2. n \in 0..Len(costFile) /\ synced <= n
    OBVIOUS
  <2>3. /\ costFile' \in Seq(Event)
        /\ Len(costFile') = n
        /\ \A i \in 1..n : costFile'[i] = costFile[i]
    BY <2>1, <2>2, CutKeeps
  <2>4. {costFile'[i] : i \in 1..synced} = {costFile[i] : i \in 1..synced}
    <3>1. \A i : i \in 1..synced => i \in 1..n
      BY <2>2
    <3>2. QED  BY <2>3, <3>1
  <2>5. /\ synced' = synced /\ acked' = acked /\ handle' = "memory"
        /\ durabilityUnknown' = FALSE /\ torn' \in BOOLEAN
    BY <1>3 DEF PowerLoss
  <2>6. costFile' \in Seq(Event) /\ synced' \in 0..Len(costFile')
    BY <2>2, <2>3, <2>5
  <2>7. FileType'
    BY <2>5, <2>6
  <2>8. ReportedEventsSurvive'
    BY <2>4, <2>5
  <2>9. TornIsFrozen'
    BY <2>5 DEF TornIsFrozen
  <2>10. QED  BY <2>2, <2>3, <2>7, <2>8, <2>9
<1>4. QED  BY <1>1, <1>2, <1>3

-----------------------------------------------------------------------------
(***************************************************************************)
(* The invariant: the ledger in memory and every prefix of the file yield  *)
(* sound holds for requests that have been issued, and a ledger in use is  *)
(* the replay of its file.                                                 *)
(***************************************************************************)
Issued(l, ids) == Sound(l) /\ Holding(l) \subseteq ids

Replays(log, ids) == Replay(log).ok /\ Issued(Replay(log).ledger, ids)

PrefixesReplay == \A n \in 0..Len(costFile) : Replays(SubSeq(costFile, 1, n), issued)

LedgerInv ==
  /\ FileInv
  /\ issued \subseteq Request
  /\ acked \subseteq Event
  /\ Issued(ledger, issued)
  /\ PrefixesReplay
  /\ MemoryIsReplay

LEMMA WholePrefix ==
  ASSUME NEW S, NEW s \in Seq(S)
  PROVE  SubSeq(s, 1, Len(s)) = s
<1> DEFINE t == SubSeq(s, 1, Len(s))
<1>1. Len(s) \in 0..Len(s)
  OBVIOUS
<1>2. t \in Seq(S) /\ Len(t) = Len(s) /\ \A i \in 1..Len(s) : t[i] = s[i]
  BY <1>1, CutKeeps
<1>3. QED  BY <1>2

LEMMA PrefixOfAppend ==
  ASSUME NEW S, NEW s \in Seq(S), NEW e \in S, NEW n \in 0..Len(s)
  PROVE  SubSeq(Append(s, e), 1, n) = SubSeq(s, 1, n)
<1> DEFINE t == SubSeq(s, 1, n)
           u == SubSeq(Append(s, e), 1, n)
<1>1. /\ Append(s, e) \in Seq(S) /\ Len(Append(s, e)) = Len(s) + 1
      /\ \A i \in 1..Len(s) : Append(s, e)[i] = s[i]
      /\ Len(s) \in Nat
  OBVIOUS
<1>2. n \in 0..Len(Append(s, e)) /\ \A i \in 1..n : i \in 1..Len(s)
  BY <1>1
<1>3. t \in Seq(S) /\ Len(t) = n /\ \A i \in 1..n : t[i] = s[i]
  BY CutKeeps
<1>4. u \in Seq(S) /\ Len(u) = n /\ \A i \in 1..n : u[i] = Append(s, e)[i]
  BY <1>1, <1>2, CutKeeps
<1> HIDE DEF t, u
<1>5. t = u
  BY <1>1, <1>2, <1>3, <1>4
<1>6. QED  BY <1>5 DEF t, u

LEMMA PrefixOfPrefix ==
  ASSUME NEW S, NEW s \in Seq(S), NEW n \in 0..Len(s), NEW k \in 0..n
  PROVE  SubSeq(SubSeq(s, 1, n), 1, k) = SubSeq(s, 1, k)
<1> DEFINE t == SubSeq(s, 1, n)
           u == SubSeq(t, 1, k)
           v == SubSeq(s, 1, k)
<1>1. t \in Seq(S) /\ Len(t) = n /\ \A i \in 1..n : t[i] = s[i]
  BY CutKeeps
<1> HIDE DEF t
<1>2. k \in 0..Len(t) /\ k \in 0..Len(s) /\ \A i \in 1..k : i \in 1..n
  BY <1>1
<1>3. u \in Seq(S) /\ Len(u) = k /\ \A i \in 1..k : u[i] = t[i]
  BY <1>1, <1>2, CutKeeps
<1>4. v \in Seq(S) /\ Len(v) = k /\ \A i \in 1..k : v[i] = s[i]
  BY <1>2, CutKeeps
<1> HIDE DEF u, v
<1>5. u = v
  BY <1>1, <1>2, <1>3, <1>4
<1>6. QED  BY <1>5 DEF t, u, v

\* An event that applies to what the file yields can be appended to it.
LEMMA AppendReplays ==
  ASSUME NEW log \in Seq(Event), NEW ids, NEW more, ids \subseteq more, NEW e \in Event,
         \A n \in 0..Len(log) : Replays(SubSeq(log, 1, n), ids),
         Applies(Replay(log).ledger, e),
         Issued(Applied(Replay(log).ledger, e), more)
  PROVE  /\ Replay(Append(log, e)).ledger = Applied(Replay(log).ledger, e)
         /\ \A n \in 0..Len(Append(log, e)) : Replays(SubSeq(Append(log, e), 1, n), more)
<1> DEFINE l == Replay(log).ledger
<1>1. Len(log) \in 0..Len(log) /\ SubSeq(log, 1, Len(log)) = log
  BY WholePrefix
<1>2. Replay(log).ok
  BY <1>1 DEF Replays
<1>3. Replay(Append(log, e)) = [ok |-> TRUE, ledger |-> Applied(l, e)]
  BY <1>2, ReplayAppend DEF Replayed
<1> HIDE DEF l
<1>4. Replays(Append(log, e), more)
  BY <1>3 DEF Replays, l
<1>5. ASSUME NEW n \in 0..Len(Append(log, e))
      PROVE  Replays(SubSeq(Append(log, e), 1, n), more)
  <2>1. Append(log, e) \in Seq(Event) /\ Len(Append(log, e)) = Len(log) + 1
    OBVIOUS
  <2>2. CASE n = Len(log) + 1
    <3>1. SubSeq(Append(log, e), 1, n) = Append(log, e)
      BY <2>1, <2>2, WholePrefix
    <3>2. QED  BY <1>4, <3>1
  <2>3. CASE n # Len(log) + 1
    <3>1. n \in 0..Len(log)
      BY <2>1, <2>3
    <3>2. SubSeq(Append(log, e), 1, n) = SubSeq(log, 1, n)
      BY <3>1, PrefixOfAppend
    <3>3. Replays(SubSeq(log, 1, n), ids)
      BY <3>1
    <3>4. QED  BY <3>2, <3>3 DEF Replays, Issued
  <2>4. QED  BY <2>2, <2>3
<1>6. QED  BY <1>3, <1>5 DEF l

LEMMA InitLedger == LedgerInit => LedgerInv
<1>1. SUFFICES ASSUME LedgerInit PROVE LedgerInv
  OBVIOUS
<1>2. FileInv
  BY <1>1, InitFile
<1>3. /\ issued = {} /\ acked = {} /\ handle = "memory"
      /\ ledger = EmptyLedger /\ costFile = << >>
  BY <1>1 DEF LedgerInit
<1>4. Issued(EmptyLedger, issued)
  BY EmptySound DEF Issued
<1>5. PrefixesReplay
  <2>1. \A n \in 0..Len(<< >>) : n = 0
    OBVIOUS
  <2>2. SubSeq(<< >>, 1, 0) = << >>
    OBVIOUS
  <2>3. Replays(<< >>, issued)
    BY <1>4, ReplayNothing DEF Replays, Start
  <2>4. QED  BY <1>3, <2>1, <2>2, <2>3 DEF PrefixesReplay
<1>6. QED  BY <1>2, <1>3, <1>4, <1>5 DEF LedgerInv, MemoryIsReplay

\* Every outcome of an append keeps the invariant: the event applies, and what
\* the call leaves in memory is what the event makes of it, or what it was.
LEMMA PersistKeeps ==
  ASSUME LedgerInv, ~durabilityUnknown, NEW e \in Event, NEW o, NEW after, NEW undone,
         Persist(e, o, after, undone), handle' = handle,
         Applies(ledger, e), after = Applied(ledger, e), undone = ledger,
         o # "before" => Issued(after, issued'),
         issued \subseteq issued', issued' \subseteq Request
  PROVE  LedgerInv'
<1>1. FileInv'
  BY PersistStep DEF LedgerInv
<1>2. acked' \subseteq Event
  BY DEF LedgerInv, Persist
<1>3. Issued(ledger, issued')
  BY DEF LedgerInv, Issued
<1>4. Issued(ledger', issued')
  BY <1>3 DEF Persist
<1>5. CASE costFile' = costFile
  <2>1. PrefixesReplay'
    BY <1>5 DEF LedgerInv, PrefixesReplay, Replays, Issued
  <2>2. MemoryIsReplay'
    BY <1>5 DEF LedgerInv, MemoryIsReplay, Persist, Freeze, Write
  <2>3. QED  BY <1>1, <1>2, <1>4, <2>1, <2>2 DEF LedgerInv
<1>6. CASE costFile' = Append(costFile, e) /\ costFile' # costFile
  <2>1. /\ handle = "file" /\ ledger' = after /\ Issued(after, issued')
    BY <1>6 DEF Persist
  <2>2. /\ ledger = Replay(costFile).ledger
        /\ costFile \in Seq(Event)
        /\ \A n \in 0..Len(costFile) : Replays(SubSeq(costFile, 1, n), issued)
    BY <2>1 DEF LedgerInv, MemoryIsReplay, FileInv, FileType, PrefixesReplay
  <2>3. /\ Replay(Append(costFile, e)).ledger = after
        /\ \A n \in 0..Len(Append(costFile, e)) :
             Replays(SubSeq(Append(costFile, e), 1, n), issued')
    BY <2>1, <2>2, AppendReplays
  <2>4. MemoryIsReplay'
    BY <1>6, <2>1, <2>3 DEF MemoryIsReplay
  <2>5. PrefixesReplay'
    BY <1>6, <2>3 DEF PrefixesReplay
  <2>6. QED  BY <1>1, <1>2, <1>4, <2>4, <2>5 DEF LedgerInv
<1>7. QED  BY <1>5, <1>6 DEF Persist, Write

-----------------------------------------------------------------------------
(***************************************************************************)
(* The steps of the specification.                                         *)
(***************************************************************************)
\* reserve_inner puts memory back as it was when nothing was written.
LEMMA RollBackUndoes ==
  ASSUME NEW l, WellFormed(l), NEW r \in Request, r \notin Holding(l),
         NEW new \in Reservation, new.warned => new.chapter \notin l.warnings
  PROVE  RolledBack(Holds(l, r, new), r, new) = l
<1>1. /\ l.reservations \in [Request -> Reservation \cup {NoReservation}]
      /\ l.reservations[r] = NoReservation
  BY DEF WellFormed, LedgerState, Holding
<1>2. PICK R, S, W : l = [reservations |-> R, settled |-> S, warnings |-> W]
  BY DEF WellFormed, LedgerState
<1>3. l.reservations = R /\ l.settled = S /\ l.warnings = W
  BY <1>2
<1>4. [[R EXCEPT ![r] = new] EXCEPT ![r] = NoReservation] = R
  BY <1>1, <1>3
<1>5. /\ new.warned => (W \cup {new.chapter}) \ {new.chapter} = W
  BY <1>3
<1> DEFINE m == Holds(l, r, new)
           n == RolledBack(m, r, new)
           V == IF new.warned THEN W \cup {new.chapter} ELSE W
           X == IF new.warned THEN V \ {new.chapter} ELSE V
<1>6. m = [l EXCEPT !.reservations[r] = new, !.warnings = V]
  BY <1>3 DEF Holds
<1>7. X = W
  BY <1>5
<1> HIDE DEF V
<1>8. m = [reservations |-> [R EXCEPT ![r] = new], settled |-> S, warnings |-> V]
  BY <1>2, <1>6
<1> HIDE DEF m
<1>9. m.warnings = V
  BY <1>8
<1>10. n = [m EXCEPT !.reservations[r] = NoReservation, !.warnings = X]
  BY <1>9 DEF RolledBack
<1> HIDE DEF X
<1>11. n = [reservations |-> [[R EXCEPT ![r] = new] EXCEPT ![r] = NoReservation],
            settled |-> S, warnings |-> X]
  BY <1>8, <1>10
<1>12. QED  BY <1>2, <1>4, <1>7, <1>11 DEF m

LEMMA ReserveStep ==
  ASSUME LedgerInv, NEW r \in Request, NEW c \in Chapter, NEW maximum \in Nat, NEW o,
         Reserve(r, c, maximum, o)
  PROVE  LedgerInv' /\ (torn => costFile' = costFile)
<1> DEFINE new == NewReservation(ledger, c, maximum)
           after == Holds(ledger, r, new)
           undone == RolledBack(after, r, new)
           e == [event |-> "reserved", request |-> r, reservation |-> new]
<1>1. /\ ~durabilityUnknown /\ r \notin issued
      /\ WithinCaps(ledger, c, maximum)
      /\ Persist(e, o, after, undone)
      /\ issued' = IF o = "before" THEN issued ELSE issued \cup {r}
      /\ handle' = handle
  BY DEF Reserve
<1>2. /\ Sound(ledger) /\ Holding(ledger) \subseteq issued /\ issued \subseteq Request
      /\ FileInv
  BY DEF LedgerInv, Issued
<1>3. r \notin Holding(ledger)
  BY <1>1, <1>2
<1>4. /\ new \in Reservation /\ Sound(after) /\ Holding(after) = Holding(ledger) \cup {r}
  BY <1>1, <1>2, <1>3, HoldSound
<1>5. new.warned => new.chapter \notin ledger.warnings
  BY DEF NewReservation
<1>6. e \in Event
  BY <1>4 DEF Event
<1>7. e.event = "reserved" /\ e.request = r /\ e.reservation = new
  OBVIOUS
<1> HIDE DEF new, e
<1>8. Applies(ledger, e) /\ after = Applied(ledger, e)
  BY <1>3, <1>7 DEF Applies, Applied
<1>9. undone = ledger
  BY <1>2, <1>3, <1>4, <1>5, RollBackUndoes DEF Sound
<1> HIDE DEF after, undone
<1>10. o # "before" => Issued(after, issued')
  BY <1>1, <1>2, <1>4 DEF Issued
<1>11. issued \subseteq issued' /\ issued' \subseteq Request
  BY <1>1, <1>2
<1>12. LedgerInv'
  BY <1>1, <1>6, <1>8, <1>9, <1>10, <1>11, PersistKeeps
<1>13. QED  BY <1>1, <1>2, <1>6, <1>12, PersistStep

LEMMA SettleStep ==
  ASSUME LedgerInv, NEW r \in Request, NEW actual \in Nat, NEW o, Settle(r, actual, o)
  PROVE  LedgerInv' /\ (torn => costFile' = costFile)
<1> DEFINE after == Settled(ledger, r, actual)
           e == [event |-> "settled", request |-> r, cost |-> actual]
<1>1. /\ ~durabilityUnknown /\ MaySettle(ledger, r, actual)
      /\ Persist(e, o, after, ledger)
      /\ issued' = issued /\ handle' = handle
  BY DEF Settle
<1>2. /\ Sound(ledger) /\ Holding(ledger) \subseteq issued /\ issued \subseteq Request
      /\ FileInv
  BY DEF LedgerInv, Issued
<1>3. Sound(after) /\ Holding(after) = Holding(ledger)
  BY <1>1, <1>2, SettleSound
<1>4. e \in Event /\ e.event # "reserved" /\ e.request = r /\ e.cost = actual
  BY DEF Event
<1> HIDE DEF e
<1>5. Applies(ledger, e) /\ after = Applied(ledger, e)
  BY <1>1, <1>4 DEF Applies, Applied
<1> HIDE DEF after
<1>6. Issued(after, issued')
  BY <1>1, <1>2, <1>3 DEF Issued
<1>7. LedgerInv'
  BY <1>1, <1>2, <1>4, <1>5, <1>6, PersistKeeps
<1>8. QED  BY <1>1, <1>2, <1>4, <1>7, PersistStep

LEMMA OpenStep ==
  ASSUME LedgerInv, Open
  PROVE  LedgerInv' /\ (torn => Len(costFile') <= Len(costFile))
<1>1. FileInv' /\ (torn => Len(costFile') <= Len(costFile))
  BY RestartStep DEF LedgerInv
<1>2. /\ ledger' = Replay(costFile).ledger
      /\ UNCHANGED <<costFile, issued, acked>>
  BY DEF Open
<1>3. costFile \in Seq(Event) /\ Len(costFile) \in 0..Len(costFile)
  BY DEF LedgerInv, FileInv, FileType
<1>4. Replays(costFile, issued)
  BY <1>3, WholePrefix DEF LedgerInv, PrefixesReplay
<1>5. Issued(ledger', issued') /\ MemoryIsReplay'
  BY <1>2, <1>4 DEF Replays, MemoryIsReplay, Issued
<1>6. PrefixesReplay' /\ issued' \subseteq Request /\ acked' \subseteq Event
  BY <1>2 DEF LedgerInv, PrefixesReplay, Replays, Issued
<1>7. QED  BY <1>1, <1>5, <1>6 DEF LedgerInv

LEMMA ExitStep ==
  ASSUME LedgerInv, Exit
  PROVE  LedgerInv' /\ (torn => Len(costFile') <= Len(costFile))
<1>1. FileInv' /\ (torn => Len(costFile') <= Len(costFile))
  BY RestartStep DEF LedgerInv
<1>2. /\ ledger' = EmptyLedger /\ handle' = "memory"
      /\ UNCHANGED <<costFile, issued, acked>>
  BY DEF Exit
<1>3. Issued(ledger', issued') /\ MemoryIsReplay'
  BY <1>2, EmptySound DEF MemoryIsReplay, Issued
<1>4. PrefixesReplay' /\ issued' \subseteq Request /\ acked' \subseteq Event
  BY <1>2 DEF LedgerInv, PrefixesReplay, Replays, Issued
<1>5. QED  BY <1>1, <1>3, <1>4 DEF LedgerInv

LEMMA PowerStep ==
  ASSUME LedgerInv, PowerLoss
  PROVE  LedgerInv' /\ (torn => Len(costFile') <= Len(costFile))
<1>1. FileInv' /\ (torn => Len(costFile') <= Len(costFile))
  BY RestartStep DEF LedgerInv
<1>2. /\ ledger' = EmptyLedger /\ handle' = "memory"
      /\ UNCHANGED <<issued, acked>>
  BY DEF PowerLoss
<1>3. PICK n \in synced..Len(costFile) : costFile' = SubSeq(costFile, 1, n)
  BY DEF PowerLoss
<1>4. Issued(ledger', issued') /\ MemoryIsReplay'
  BY <1>2, EmptySound DEF MemoryIsReplay, Issued
<1>5. costFile \in Seq(Event) /\ n \in 0..Len(costFile) /\ Len(costFile) \in Nat
  BY DEF LedgerInv, FileInv, FileType
<1>6. Len(costFile') = n
  BY <1>3, <1>5, CutKeeps
<1>7. ASSUME NEW k \in 0..n
      PROVE  Replays(SubSeq(costFile', 1, k), issued)
  <2>1. SubSeq(costFile', 1, k) = SubSeq(costFile, 1, k)
    BY <1>3, <1>5, PrefixOfPrefix
  <2>2. k \in 0..Len(costFile)
    BY <1>5
  <2>3. QED  BY <2>1, <2>2 DEF LedgerInv, PrefixesReplay
<1>8. PrefixesReplay'
  BY <1>2, <1>6, <1>7 DEF PrefixesReplay
<1>9. QED  BY <1>1, <1>2, <1>4, <1>8 DEF LedgerInv

LEMMA LedgerStep ==
  LedgerInv /\ [LedgerNext]_ledgerVars
    => LedgerInv' /\ (torn => Len(costFile') <= Len(costFile))
<1>1. SUFFICES ASSUME LedgerInv, [LedgerNext]_ledgerVars
               PROVE  LedgerInv' /\ (torn => Len(costFile') <= Len(costFile))
  OBVIOUS
<1>2. Len(costFile) \in Nat
  BY <1>1 DEF LedgerInv, FileInv, FileType
<1>3. ASSUME NEW r \in Request, Use(r)
      PROVE  LedgerInv' /\ (torn => Len(costFile') <= Len(costFile))
  <2>1. PICK o \in Outcome, a \in Amount :
          (\E c \in Chapter : Reserve(r, c, a, o)) \/ Settle(r, a, o)
    BY <1>3 DEF Use
  <2>2. a \in Nat
    BY AmountAssumption
  <2>3. LedgerInv' /\ (torn => costFile' = costFile)
    BY <1>1, <2>1, <2>2, ReserveStep, SettleStep
  <2>4. QED  BY <1>2, <2>3
<1>4. CASE Open \/ Exit \/ PowerLoss
  BY <1>1, <1>4, OpenStep, ExitStep, PowerStep
<1>5. CASE UNCHANGED ledgerVars
  BY <1>1, <1>2, <1>5
  DEF ledgerVars, LedgerInv, FileInv, FileType, ReportedEventsSurvive, TornIsFrozen,
      PrefixesReplay, Replays, Issued, MemoryIsReplay
<1>6. QED  BY <1>1, <1>3, <1>4, <1>5 DEF LedgerNext

\* Whatever a power loss leaves of the file can be replayed, and yields sound
\* holds.
LEMMA SurvivorsReplay ==
  ASSUME LedgerInv, NEW log \in Survivors
  PROVE  Replay(log).ok /\ Sound(Replay(log).ledger)
<1>1. PICK n \in synced..Len(costFile) : log = SubSeq(costFile, 1, n)
  BY DEF Survivors
<1>2. n \in 0..Len(costFile)
  BY DEF LedgerInv, FileInv, FileType
<1>3. QED  BY <1>1, <1>2 DEF LedgerInv, PrefixesReplay, Replays, Issued

\* What is on the file now is one of the things a power loss may leave.
LEMMA CurrentSurvives ==
  ASSUME LedgerInv
  PROVE  costFile \in Survivors
<1>1. costFile \in Seq(Event) /\ Len(costFile) \in Nat /\ synced \in 0..Len(costFile)
  BY DEF LedgerInv, FileInv, FileType
<1>2. Len(costFile) \in synced..Len(costFile) /\ SubSeq(costFile, 1, Len(costFile)) = costFile
  BY <1>1, WholePrefix
<1>3. QED  BY <1>2 DEF Survivors

LEMMA LedgerConsequences ==
  ASSUME LedgerInv
  PROVE  CapsSurvive /\ WarnedOnce /\ LedgerTypeOK
<1>1. CapsSurvive
  BY SurvivorsReplay DEF CapsSurvive, Sound, CapsKept
<1>2. WarnedOnce
  <2>1. ASSUME NEW log \in Survivors, NEW c \in Chapter
        PROVE  LET holds == Replay(log).ledger
                   warned == {r \in HoldingFor(holds, c) : holds.reservations[r].warned}
               IN /\ \A r, s \in warned : r = s
                  /\ ChapterTotal(holds, c) > ChapterWarning => warned # {}
    <3> DEFINE holds == Replay(log).ledger
    <3>1. WarnedWell(holds)
      BY <2>1, SurvivorsReplay DEF Sound
    <3> HIDE DEF holds
    <3>2. /\ \A r, s \in Warned(holds, c) : r = s
          /\ ChapterTotal(holds, c) > ChapterWarning => Warned(holds, c) # {}
      BY <3>1 DEF WarnedWell
    <3>3. QED  BY <3>2 DEF Warned, holds
  <2>2. QED  BY <2>1 DEF WarnedOnce
<1>3. LedgerTypeOK
  BY DEF LedgerInv, LedgerTypeOK, FileInv, FileType, Issued, Sound, WellFormed
<1>4. QED  BY <1>1, <1>2, <1>3

\* The types.
THEOREM LedgerTypes == LedgerSpec => []LedgerTypeOK
<1>1. LedgerInv => LedgerTypeOK
  BY LedgerConsequences
<1>2. LedgerInv /\ [LedgerNext]_ledgerVars => LedgerInv'
  BY LedgerStep
<1>3. QED  BY InitLedger, <1>1, <1>2, PTL DEF LedgerSpec

\* Both caps hold for what any failure leaves on the file (LedgerState::reserve
\* checks them, and a replay does not).
THEOREM CapsAreKept == LedgerSpec => []CapsSurvive
<1>1. LedgerInv => CapsSurvive
  BY LedgerConsequences
<1>2. LedgerInv /\ [LedgerNext]_ledgerVars => LedgerInv'
  BY LedgerStep
<1>3. QED  BY InitLedger, <1>1, <1>2, PTL DEF LedgerSpec

\* A chapter is warned about once, and always when it has passed the threshold
\* (warning_required).
THEOREM OneWarning == LedgerSpec => []WarnedOnce
<1>1. LedgerInv => WarnedOnce
  BY LedgerConsequences
<1>2. LedgerInv /\ [LedgerNext]_ledgerVars => LedgerInv'
  BY LedgerStep
<1>3. QED  BY InitLedger, <1>1, <1>2, PTL DEF LedgerSpec

\* A ledger in use is what the next process will read (reserve_inner, settle).
THEOREM MemoryIsTheFile == LedgerSpec => []MemoryIsReplay
<1>1. LedgerInv => MemoryIsReplay
  BY DEF LedgerInv
<1>2. LedgerInv /\ [LedgerNext]_ledgerVars => LedgerInv'
  BY LedgerStep
<1>3. QED  BY InitLedger, <1>1, <1>2, PTL DEF LedgerSpec

\* A reservation or settlement reported as done outlives every crash, failed
\* append and power loss (persist reports success only after sync_data).
THEOREM ReportedEventsLast == LedgerSpec => []ReportedEventsSurvive
<1>1. LedgerInv => ReportedEventsSurvive
  BY DEF LedgerInv, FileInv
<1>2. LedgerInv /\ [LedgerNext]_ledgerVars => LedgerInv'
  BY LedgerStep
<1>3. QED  BY InitLedger, <1>1, <1>2, PTL DEF LedgerSpec

\* The ledger never writes behind a part of a line, its own or another
\* process's (the freeze after a failed append, the check in open).
THEOREM NoWriteBehindTornLine == LedgerSpec => NothingAfterTornLine
<1>1. LedgerInv /\ [LedgerNext]_ledgerVars => LedgerInv'
  BY LedgerStep
<1>2. LedgerInv /\ [LedgerNext]_ledgerVars
        => [torn => Len(costFile') <= Len(costFile)]_ledgerVars
  BY LedgerStep
<1>3. QED  BY InitLedger, <1>1, <1>2, PTL DEF LedgerSpec, NothingAfterTornLine

-----------------------------------------------------------------------------
(***************************************************************************)
(* The session: its files, its command, its checkpoint.                    *)
(***************************************************************************)
FilesOK ==
  /\ lines \in Seq(Line)
  /\ kept \in 0..Len(lines)

CommandOK ==
  /\ cur \in Request \cup {None}
  /\ answers \in Seq(Answer)
  /\ pc \in {"idle", "ready", "reserved", "waiting", "settling", "concluding"}
  /\ pc = "idle" => batch = {} /\ answers = << >>
  /\ pc = "settling" => answers # << >>

\* A checkpoint names a durable line; one that is behind does not name the last.
AnchorOK(c) == c = None \/ c.anchor[1] \in 1..kept
Behind(c) == c = None \/ c.anchor[1] < kept

Anchored == AnchorOK(checkpoint) /\ AnchorOK(fallback)
BothBehind == Behind(checkpoint) /\ Behind(fallback)

Running == pc # "idle" => session /\ last[1] \in 1..kept /\ BothBehind
Lost == orphaned # {} /\ ~late => ~session /\ BothBehind
Exists == session \/ orphaned # {} => created

SessionInv == FilesOK /\ CommandOK /\ Anchored /\ Running /\ Lost /\ Exists

-----------------------------------------------------------------------------
(***************************************************************************)
(* Lemmas about the files.                                                 *)
(***************************************************************************)

\* A longer durable part keeps anchors durable and checkpoints behind.
LEMMA KeptGrows ==
  ASSUME kept \in Nat, kept' \in Nat, kept <= kept', NEW c, AnchorOK(c)
  PROVE  /\ c = None \/ c.anchor[1] \in 1..kept'
         /\ Behind(c) => (c = None \/ c.anchor[1] < kept')
BY DEF AnchorOK, Behind

LEMMA AnchorsStay ==
  ASSUME FilesOK, Anchored, kept' \in Nat, kept <= kept',
         UNCHANGED <<checkpoint, fallback>>
  PROVE  /\ Anchored'
         /\ BothBehind => BothBehind'
<1>1. kept \in Nat
  BY DEF FilesOK
<1>2. QED
  BY <1>1, KeptGrows DEF Anchored, BothBehind, AnchorOK, Behind

\* An append that succeeds puts every checkpoint behind.
LEMMA AppendStep ==
  ASSUME FilesOK, Anchored, NEW line \in Line, NEW o, AppendTo(line, o),
         UNCHANGED <<checkpoint, fallback>>
  PROVE  /\ FilesOK' /\ Anchored' /\ kept' \in Nat /\ kept <= kept'
         /\ BothBehind => BothBehind'
         /\ o = "ok" => Len(lines') \in 1..kept' /\ BothBehind'
<1>1. Joined(line) \in Line
  BY DEF Joined, Line
<1>2. lines \in Seq(Line) /\ kept \in Nat /\ Len(lines) \in Nat /\ kept <= Len(lines)
  BY DEF FilesOK
<1>3. CASE o = "ok"
  <2>1. lines' = Append(lines, Joined(line)) /\ kept' = Len(lines')
    BY <1>3 DEF AppendTo
  <2>2. lines' \in Seq(Line) /\ Len(lines') = Len(lines) + 1
    BY <1>1, <1>2, <2>1
  <2>3. FilesOK' /\ kept' \in Nat /\ kept < kept'
    BY <1>2, <2>1, <2>2 DEF FilesOK
  <2>4. Anchored'
    BY <1>2, <2>3, AnchorsStay
  <2>5. BothBehind'
    BY <1>2, <2>3 DEF Anchored, AnchorOK, BothBehind, Behind
  <2>6. QED  BY <1>2, <2>1, <2>2, <2>3, <2>4, <2>5
<1>4. CASE o # "ok"
  <2>1. kept' = kept
    BY <1>4 DEF AppendTo, fileVars
  <2>2. lines' = lines \/ lines' = Append(lines, Joined(line))
    BY <1>4 DEF AppendTo, fileVars
  <2>3. lines' \in Seq(Line) /\ Len(lines') \in Nat /\ Len(lines) <= Len(lines')
    BY <1>1, <1>2, <2>2
  <2>4. FilesOK'
    BY <1>2, <2>1, <2>3 DEF FilesOK
  <2>5. QED  BY <1>2, <1>4, <2>1, <2>4, AnchorsStay
<1>5. QED  BY <1>3, <1>4

LEMMA RepairStep ==
  ASSUME FilesOK, Anchored, Repair
  PROVE  /\ FilesOK' /\ lines' = lines
         /\ kept' \in Nat /\ kept <= kept'
         /\ kept = Len(lines) => kept' = kept
<1>1. lines' = lines /\ (kept' = kept \/ kept' = Len(lines))
  BY DEF Repair, fileVars
<1>2. QED  BY <1>1 DEF FilesOK

\* A checkpoint that names the last line is not behind.
LEMMA MatchIsNotBehind ==
  ASSUME FilesOK, Anchored, checkpoint # None, CheckpointMatches(lines)
  PROVE  ~Behind(checkpoint) /\ ~BothBehind
<1>1. checkpoint.anchor = Anchor(lines) /\ checkpoint.anchor[1] \in 1..kept
  BY DEF CheckpointMatches, Anchored, AnchorOK
<1>2. kept \in 0..Len(lines) /\ Len(lines) \in Nat
  BY DEF FilesOK
<1>3. lines # << >>
  BY <1>1, <1>2
<1>4. Anchor(lines)[1] = Len(lines)
  BY <1>3 DEF Anchor
<1>5. QED  BY <1>1, <1>2, <1>4 DEF BothBehind, Behind

LEMMA InitSession == Init => SessionInv
<1>1. SUFFICES ASSUME Init PROVE SessionInv
  OBVIOUS
<1>2. FilesOK
  BY <1>1 DEF Init, FilesOK
<1>3. CommandOK
  BY <1>1 DEF Init, CommandOK
<1>4. Anchored /\ Running /\ Lost /\ Exists
  BY <1>1 DEF Init, Anchored, AnchorOK, Running, Lost, Exists
<1>5. QED  BY <1>2, <1>3, <1>4 DEF SessionInv

-----------------------------------------------------------------------------
(***************************************************************************)
(* Steps that leave the files of the session alone.                        *)
(***************************************************************************)
LEMMA QuietStep ==
  ASSUME SessionInv, UNCHANGED dirVars, UNCHANGED <<session, last, orphaned, late>>,
         CommandOK', pc # "idle" \/ pc' = "idle"
  PROVE  SessionInv'
BY DEF SessionInv, dirVars, FilesOK, Anchored, AnchorOK, Running, Lost, Exists,
       BothBehind, Behind

\* Steps after which more lines are durable, and that leave the command alone.
LEMMA GrowingStep ==
  ASSUME SessionInv, FilesOK', kept' \in Nat, kept <= kept',
         UNCHANGED <<created, checkpoint, fallback, processVars, orphaned, late>>
  PROVE  SessionInv'
<1>1. Anchored' /\ (BothBehind => BothBehind')
  BY AnchorsStay DEF SessionInv
<1>2. UNCHANGED <<session, last, pc, cur, batch, answers>>
  BY DEF processVars, commandVars
<1>3. CommandOK'
  BY <1>2 DEF SessionInv, CommandOK
<1>4. Running'
  BY <1>1, <1>2 DEF SessionInv, FilesOK, Running
<1>5. Lost' /\ Exists'
  BY <1>1, <1>2 DEF SessionInv, Lost, Exists
<1>6. QED  BY <1>1, <1>3, <1>4, <1>5 DEF SessionInv

\* Steps of a command that append a line; a failed one ends the command.
LEMMA NotingStep ==
  ASSUME SessionInv, NEW kind \in Kind, NEW r \in Request \cup {None},
         NEW o, AppendLine(kind, r, o),
         UNCHANGED <<created, checkpoint, fallback, session, orphaned, late>>,
         session, CommandOK', o = "ok" \/ pc' = "idle"
  PROVE  SessionInv'
<1> DEFINE line == [kind |-> kind, request |-> r]
<1>1. line \in Line
  BY DEF Line
<1>2. /\ AppendTo(line, o)
      /\ o = "ok" => last' = <<Len(lines'), line>>
  BY DEF AppendLine
<1> HIDE DEF line
<1>3. /\ FilesOK' /\ Anchored'
      /\ o = "ok" => Len(lines') \in 1..kept' /\ BothBehind'
  BY <1>1, <1>2, AppendStep DEF SessionInv
<1>4. Running'
  BY <1>2, <1>3 DEF Running
<1>5. orphaned = {} \/ late
  BY DEF SessionInv, Lost
<1>6. Lost' /\ Exists'
  BY <1>5 DEF SessionInv, Lost, Exists
<1>7. QED  BY <1>3, <1>4, <1>6 DEF SessionInv

LEMMA IdleOK ==
  ASSUME Idle
  PROVE  CommandOK' /\ pc' = "idle"
BY DEF Idle, CommandOK

\* Noting an answer takes it from the list.
LEMMA NotedOK ==
  ASSUME CommandOK, answers # << >>, NEW fails, Noted(fails), pc' = "waiting"
  PROVE  CommandOK'
<1>1. Tail(answers) \in Seq(Answer)
  BY DEF CommandOK
<1>2. QED  BY <1>1 DEF CommandOK, Noted

LEMMA HeadRequest ==
  ASSUME CommandOK, answers # << >>
  PROVE  Head(answers).request \in Request \cup {None}
<1>1. Head(answers) \in Answer
  BY DEF CommandOK
<1>2. QED  BY <1>1 DEF Answer

-----------------------------------------------------------------------------
(***************************************************************************)
(* The steps of the specification.                                         *)
(***************************************************************************)
LEMMA AttachingStep ==
  ASSUME SessionInv, CreateSession \/ Attach \/ AttachRefused \/ Resume
  PROVE  SessionInv'
<1> USE DEF SessionInv
<1>1. CASE CreateSession
  <2>1. /\ UNCHANGED <<lines, kept, checkpoint, fallback, commandVars, orphaned, late>>
        /\ pc = "idle" /\ created' = TRUE /\ session' = TRUE /\ ~created
    BY <1>1 DEF CreateSession, fileVars, historyVars, otherVars
  <2>2. orphaned = {}
    BY <2>1 DEF Exists
  <2>3. FilesOK' /\ CommandOK' /\ Anchored'
    BY <2>1 DEF FilesOK, CommandOK, Anchored, AnchorOK, commandVars
  <2>4. Running' /\ Lost' /\ Exists'
    BY <2>1, <2>2 DEF Running, Lost, Exists, commandVars
  <2>5. QED  BY <2>3, <2>4
<1>2. CASE Attach
  <2>1. /\ UNCHANGED <<created, checkpoint, fallback, commandVars, orphaned, late>>
        /\ Repair /\ CheckpointMatches(lines) /\ checkpoint # None
        /\ pc = "idle" /\ created
    BY <1>2 DEF Attach, historyVars, otherVars
  <2>2. orphaned = {} \/ late
    BY <2>1, MatchIsNotBehind DEF Lost
  <2>3. FilesOK' /\ Anchored'
    BY <2>1, RepairStep, AnchorsStay
  <2>4. CommandOK'
    BY <2>1 DEF CommandOK, commandVars
  <2>5. Running' /\ Lost' /\ Exists'
    BY <2>1, <2>2 DEF Running, Lost, Exists, commandVars
  <2>6. QED  BY <2>3, <2>4, <2>5
<1>3. CASE AttachRefused \/ Resume
  <2>1. /\ UNCHANGED <<created, checkpoint, fallback, processVars, orphaned, late>>
        /\ Repair
    BY <1>3 DEF AttachRefused, Resume, historyVars, otherVars
  <2>2. FilesOK' /\ kept' \in Nat /\ kept <= kept'
    BY <2>1, RepairStep
  <2>3. QED  BY <2>1, <2>2, GrowingStep
<1>4. QED  BY <1>1, <1>2, <1>3

LEMMA CheckpointStep ==
  ASSUME SessionInv, NEW o, WriteCheckpoint(o)
  PROVE  SessionInv'
<1> USE DEF SessionInv
<1>1. /\ pc # "idle" /\ Idle
      /\ UNCHANGED <<created, session, orphaned, late>>
  BY DEF WriteCheckpoint, Between, otherVars
<1>2. (orphaned = {} \/ late) /\ last[1] \in 1..kept /\ kept \in Nat
  BY <1>1 DEF Running, Lost, FilesOK
<1>3. CommandOK' /\ pc' = "idle"
  BY <1>1, IdleOK
<1>4. FilesOK' /\ kept' \in Nat /\ kept <= kept'
  <2>1. CASE UNCHANGED fileVars
    BY <1>2, <2>1 DEF fileVars, FilesOK
  <2>2. CASE Repair
    BY <2>2, RepairStep
  <2>3. QED  BY <2>1, <2>2 DEF WriteCheckpoint
<1>5. Anchored'
  <2> DEFINE new == [anchor |-> last, status |-> status]
  <2>1. checkpoint' \in {checkpoint, new} /\ fallback' \in {fallback, new}
    BY DEF WriteCheckpoint, SyncDirectory
  <2>2. new.anchor[1] \in 1..kept
    BY <1>2
  <2> HIDE DEF new
  <2>3. \A c \in {checkpoint, fallback, new} : c = None \/ c.anchor[1] \in 1..kept
    BY <2>2 DEF Anchored, AnchorOK
  <2>4. \A c \in {checkpoint, fallback, new} : c = None \/ c.anchor[1] \in 1..kept'
    BY <1>2, <1>4, <2>3
  <2>5. QED  BY <2>1, <2>4 DEF Anchored, AnchorOK
<1>6. Running' /\ Lost' /\ Exists'
  BY <1>1, <1>2, <1>3 DEF Running, Lost, Exists
<1>7. QED  BY <1>3, <1>4, <1>5, <1>6

LEMMA CommandStep ==
  ASSUME SessionInv, Command
  PROVE  SessionInv'
<1>1. CommandOK
  BY DEF SessionInv
<1>2. ASSUME NEW c \in Chapter, NEW o \in AppendOutcome, Begin(c, o)
      PROVE  SessionInv'
  <2>1. /\ AppendLine("instruction", None, o) /\ session /\ pc = "idle"
        /\ UNCHANGED <<created, checkpoint, fallback, session, orphaned, late>>
        /\ UNCHANGED <<cur, batch, answers>>
        /\ \/ o = "ok" /\ pc' = "ready"
           \/ pc' = "idle"
    BY <1>2 DEF Begin, commandVars, otherVars
  <2>2. CommandOK'
    BY <1>1, <2>1 DEF CommandOK
  <2>3. QED  BY <2>1, <2>2, NotingStep DEF Kind
<1>3. ASSUME NEW o \in AppendOutcome, Conclude(o)
      PROVE  SessionInv'
  <2>1. /\ AppendLine("changed", None, o) /\ pc = "ready"
        /\ UNCHANGED <<created, checkpoint, fallback, session, orphaned, late>>
    BY <1>3 DEF Conclude, Between, historyVars, otherVars
  <2>2. CommandOK' /\ (o = "ok" \/ pc' = "idle")
    <3>1. CASE o = "ok"
      BY <1>1, <1>3, <3>1 DEF Conclude, CommandOK
    <3>2. CASE o # "ok"
      BY <1>3, <3>2, IdleOK DEF Conclude
    <3>3. QED  BY <3>1, <3>2
  <2>3. session
    BY <2>1 DEF SessionInv, Running
  <2>4. QED  BY <2>1, <2>2, <2>3, NotingStep DEF Kind
<1>4. ASSUME NEW o, WriteCheckpoint(o)
      PROVE  SessionInv'
  BY <1>4, CheckpointStep
<1>5. CASE Abandon
  BY <1>5, IdleOK, QuietStep DEF Abandon, historyVars, otherVars
<1>6. QED  BY <1>2, <1>3, <1>4, <1>5 DEF Command

LEMMA RequestsStep ==
  ASSUME SessionInv, Requests
  PROVE  SessionInv'
<1>1. CommandOK
  BY DEF SessionInv
<1>2. ASSUME NEW r \in Request, NEW o \in Outcome, ReserveRequest(r, o)
      PROVE  SessionInv'
  <2>1. UNCHANGED dirVars /\ UNCHANGED <<session, last, orphaned, late>> /\ pc = "ready"
    BY <1>2 DEF ReserveRequest
  <2>2. CommandOK'
    <3>1. CASE o = "ok"
      BY <1>1, <1>2, <3>1 DEF ReserveRequest, CommandOK
    <3>2. CASE o # "ok"
      BY <1>2, <3>2, IdleOK DEF ReserveRequest
    <3>3. QED  BY <3>1, <3>2
  <2>3. QED  BY <2>1, <2>2, QuietStep
<1>3. CASE ReserveRefused
  BY <1>3, IdleOK, QuietStep DEF ReserveRefused, historyVars, otherVars
<1>4. ASSUME NEW o \in AppendOutcome, StartRequest(o)
      PROVE  SessionInv'
  <2>1. /\ AppendLine("started", cur, o) /\ pc = "reserved"
        /\ UNCHANGED <<created, checkpoint, fallback, session, orphaned, late>>
    BY <1>4 DEF StartRequest, historyVars, otherVars
  <2>2. CommandOK' /\ (o = "ok" \/ pc' = "idle")
    <3>1. CASE o = "ok"
      BY <1>1, <1>4, <3>1 DEF StartRequest, CommandOK
    <3>2. CASE o # "ok"
      BY <1>4, <3>2, IdleOK DEF StartRequest
    <3>3. QED  BY <3>1, <3>2
  <2>3. session /\ cur \in Request \cup {None}
    BY <1>1, <2>1 DEF SessionInv, Running, CommandOK
  <2>4. QED  BY <2>1, <2>2, <2>3, NotingStep DEF Kind
<1>5. CASE Send
  <2>1. /\ UNCHANGED dirVars /\ UNCHANGED <<session, last, orphaned, late, cur, batch, answers>>
        /\ pc = "ready" /\ pc' = "waiting"
    BY <1>5 DEF Send, otherVars
  <2>2. CommandOK'
    BY <1>1, <2>1 DEF CommandOK
  <2>3. QED  BY <2>1, <2>2, QuietStep
<1>6. ASSUME NEW r \in Request, Answered(r)
      PROVE  SessionInv'
  <2>1. /\ UNCHANGED dirVars /\ UNCHANGED <<session, last, orphaned, late, cur, pc>>
        /\ pc = "waiting"
    BY <1>6 DEF Answered, otherVars
  <2>2. PICK kind \in {"usage", "unmetered", "ambiguous", "stopped"},
             cost \in Charge \cup {0} :
          answers' = Append(answers, [request |-> r, kind |-> kind, cost |-> cost])
    BY <1>6 DEF Answered
  <2>3. cost \in Nat
    BY CostAssumption
  <2>4. [request |-> r, kind |-> kind, cost |-> cost] \in Answer
    BY <2>3 DEF Answer
  <2>5. answers' \in Seq(Answer)
    BY <1>1, <2>2, <2>4 DEF CommandOK
  <2>6. CommandOK'
    BY <1>1, <2>1, <2>5 DEF CommandOK
  <2>7. QED  BY <2>1, <2>6, QuietStep
<1>7. CASE EndBatch
  <2>1. /\ UNCHANGED dirVars /\ UNCHANGED <<session, last, orphaned, late>> /\ pc = "waiting"
    BY <1>7 DEF EndBatch, historyVars, otherVars
  <2>2. CommandOK'
    <3>1. CASE failed
      BY <1>7, <3>1, IdleOK DEF EndBatch
    <3>2. CASE ~failed
      BY <1>1, <1>7, <3>2 DEF EndBatch, CommandOK
    <3>3. QED  BY <3>1, <3>2
  <2>3. QED  BY <2>1, <2>2, QuietStep
<1>8. QED  BY <1>2, <1>3, <1>4, <1>5, <1>6, <1>7 DEF Requests

LEMMA RecordsStep ==
  ASSUME SessionInv, Records
  PROVE  SessionInv'
<1>1. CommandOK
  BY DEF SessionInv
<1>2. pc # "idle" => session
  BY DEF SessionInv, Running
<1>3. ASSUME NEW o \in AppendOutcome, NoteUsage(o)
      PROVE  SessionInv'
  <2>1. /\ AppendLine("completed", Head(answers).request, o)
        /\ pc = "waiting" /\ answers # << >>
        /\ UNCHANGED <<created, checkpoint, fallback, session, orphaned, late>>
    BY <1>3 DEF NoteUsage, Noting, historyVars, otherVars
  <2>2. CommandOK' /\ (o = "ok" \/ pc' = "idle")
    <3>1. CASE o = "ok"
      BY <1>1, <1>3, <2>1, <3>1 DEF NoteUsage, CommandOK
    <3>2. CASE o # "ok"
      BY <1>3, <3>2, IdleOK DEF NoteUsage
    <3>3. QED  BY <3>1, <3>2
  <2>3. QED  BY <1>1, <1>2, <2>1, <2>2, HeadRequest, NotingStep DEF Kind
<1>4. ASSUME NEW o \in Outcome, SettleRequest(o)
      PROVE  SessionInv'
  <2>1. UNCHANGED dirVars /\ UNCHANGED <<session, last, orphaned, late>> /\ pc = "settling"
    BY <1>4 DEF SettleRequest
  <2>2. answers # << >>
    BY <1>1, <2>1 DEF CommandOK
  <2>3. CommandOK'
    <3>1. CASE o = "ok"
      BY <1>1, <1>4, <2>2, <3>1, NotedOK DEF SettleRequest
    <3>2. CASE o # "ok"
      BY <1>4, <3>2, IdleOK DEF SettleRequest
    <3>3. QED  BY <3>1, <3>2
  <2>4. QED  BY <2>1, <2>3, QuietStep
<1>5. CASE SettleRefused
  BY <1>5, IdleOK, QuietStep DEF SettleRefused, historyVars, otherVars
<1>6. ASSUME NEW o \in AppendOutcome, NoteUnmetered(o)
      PROVE  SessionInv'
  <2>1. /\ AppendLine("ambiguous", Head(answers).request, o)
        /\ pc = "waiting" /\ answers # << >> /\ Idle
        /\ UNCHANGED <<created, checkpoint, fallback, session, orphaned, late>>
    BY <1>6 DEF NoteUnmetered, Noting, historyVars, otherVars
  <2>2. QED  BY <1>1, <1>2, <2>1, IdleOK, HeadRequest, NotingStep DEF Kind
<1>7. ASSUME NEW o \in AppendOutcome, NoteAmbiguous(o)
      PROVE  SessionInv'
  <2>1. /\ AppendLine("ambiguous", Head(answers).request, o)
        /\ pc = "waiting" /\ answers # << >>
        /\ UNCHANGED <<created, checkpoint, fallback, session, orphaned, late>>
    BY <1>7 DEF NoteAmbiguous, Noting, historyVars, otherVars
  <2>2. CommandOK' /\ (o = "ok" \/ pc' = "idle")
    <3>1. CASE o = "ok"
      BY <1>1, <1>7, <2>1, <3>1, NotedOK DEF NoteAmbiguous
    <3>2. CASE o # "ok"
      BY <1>7, <3>2, IdleOK DEF NoteAmbiguous
    <3>3. QED  BY <3>1, <3>2
  <2>3. QED  BY <1>1, <1>2, <2>1, <2>2, HeadRequest, NotingStep DEF Kind
<1>8. CASE NoteStopped
  <2>1. /\ UNCHANGED dirVars /\ UNCHANGED <<session, last, orphaned, late, pc>>
        /\ pc = "waiting" /\ answers # << >> /\ Noted(TRUE)
    BY <1>8 DEF NoteStopped, Noting, historyVars, otherVars
  <2>2. QED  BY <1>1, <2>1, NotedOK, QuietStep
<1>9. QED  BY <1>3, <1>4, <1>5, <1>6, <1>7, <1>8 DEF Records

\* A request in flight when its process dies leaves every checkpoint behind.
LEMMA DeathStep ==
  ASSUME SessionInv, Crash \/ PowerFails \/ Overtaken
  PROVE  SessionInv'
<1> USE DEF SessionInv
<1>1. NewProcess
  BY DEF Crash, PowerFails, Overtaken
<1>2. /\ CommandOK' /\ pc' = "idle"
      /\ ~session' /\ created' = created /\ late' = late
      /\ orphaned' \subseteq orphaned \cup InFlight
  BY <1>1, IdleOK DEF NewProcess, Crash, PowerFails, Overtaken
<1>3. orphaned' # {} => created /\ (~late => BothBehind)
  <2>1. CASE orphaned # {}
    BY <2>1 DEF Lost, Exists
  <2>2. CASE pc # "idle"
    BY <2>2 DEF Running, Exists
  <2>3. CASE pc = "idle" /\ orphaned = {}
    <3>1. batch = {} /\ DOMAIN answers = {}
      BY <2>3 DEF CommandOK
    <3>2. QED  BY <1>2, <2>3, <3>1 DEF InFlight
  <2>4. QED  BY <2>1, <2>2, <2>3
<1>4. FilesOK' /\ Anchored' /\ (BothBehind => BothBehind')
  <2>1. CASE Crash \/ Overtaken
    BY <2>1 DEF Crash, Overtaken, fileVars, FilesOK, Anchored, AnchorOK, BothBehind, Behind
  <2>2. CASE PowerFails
    <3>1. PICK n \in kept..Len(lines) : lines' = SubSeq(lines, 1, n)
      BY <2>2 DEF PowerFails
    <3>2. /\ kept' = kept
          /\ checkpoint' \in {checkpoint, fallback}
          /\ fallback' = checkpoint'
      BY <2>2 DEF PowerFails
    <3>3. kept \in Nat /\ Len(lines) \in Nat /\ n \in Nat /\ kept <= n /\ n <= Len(lines)
      BY DEF FilesOK
    <3>4. lines' \in Seq(Line) /\ Len(lines') = n
      BY <3>1, <3>3 DEF FilesOK
    <3>5. FilesOK'
      BY <3>2, <3>3, <3>4 DEF FilesOK
    <3>6. Anchored' /\ (BothBehind => BothBehind')
      BY <3>2 DEF Anchored, AnchorOK, BothBehind, Behind
    <3>7. QED  BY <3>5, <3>6
  <2>3. QED  BY <2>1, <2>2
<1>5. Running' /\ Lost' /\ Exists'
  BY <1>2, <1>3, <1>4 DEF Running, Lost, Exists
<1>6. QED  BY <1>2, <1>4, <1>5

\* What other processes do leaves the lines that are durable, and a checkpoint
\* that is behind stays behind.
LEMMA OthersStep ==
  ASSUME SessionInv, Others
  PROVE  SessionInv'
<1> USE DEF SessionInv
<1>1. CASE OtherReads
  <2>1. /\ UNCHANGED <<created, checkpoint, fallback, processVars, orphaned, late>>
        /\ Repair
    BY <1>1 DEF OtherReads
  <2>2. FilesOK' /\ kept' \in Nat /\ kept <= kept'
    BY <2>1, RepairStep
  <2>3. QED  BY <2>1, <2>2, GrowingStep
<1>2. CASE OtherRefused
  <2>1. UNCHANGED <<dirVars, processVars, orphaned, late>>
    BY <1>2 DEF OtherRefused
  <2>2. FilesOK' /\ kept' = kept /\ kept \in Nat
    BY <2>1 DEF dirVars, FilesOK
  <2>3. QED  BY <2>1, <2>2, GrowingStep DEF dirVars
<1>3. CASE OtherOpens
  <2>1. /\ UNCHANGED <<dirVars, commandVars, orphaned>> /\ late'
        /\ pc = "idle" /\ created
    BY <1>3 DEF OtherOpens
  <2>2. FilesOK' /\ Anchored' /\ CommandOK'
    BY <2>1 DEF dirVars, commandVars, FilesOK, Anchored, AnchorOK, CommandOK
  <2>3. Running' /\ Lost' /\ Exists'
    BY <2>1 DEF dirVars, commandVars, Running, Lost, Exists
  <2>4. QED  BY <2>2, <2>3
<1>4. CASE Overtaken
  BY <1>4, DeathStep
<1>5. ASSUME NEW line \in Line, NEW o, AppendTo(line, o),
             UNCHANGED <<created, checkpoint, fallback, processVars, orphaned, late>>
      PROVE  SessionInv'
  BY <1>5, AppendStep, GrowingStep
<1>6. ASSUME NEW o, OtherAppends(o)
      PROVE  SessionInv'
  <2> DEFINE line == [kind |-> "instruction", request |-> None]
  <2>1. line \in Line /\ AppendTo(line, o)
    BY <1>6 DEF OtherAppends, Line, Kind
  <2> HIDE DEF line
  <2>2. QED  BY <1>5, <1>6, <2>1 DEF OtherAppends, otherVars
<1>7. ASSUME NEW r \in Request, NEW o, OtherSends(r, o)
      PROVE  SessionInv'
  <2> DEFINE line == [kind |-> "started", request |-> r]
  <2>1. line \in Line /\ AppendTo(line, o)
    BY <1>7 DEF OtherSends, Line, Kind
  <2> HIDE DEF line
  <2>2. QED  BY <1>5, <1>7, <2>1 DEF OtherSends
<1>8. QED  BY <1>1, <1>2, <1>3, <1>4, <1>6, <1>7 DEF Others

LEMMA SessionStep == SessionInv /\ [Next]_vars => SessionInv'
<1>1. SUFFICES ASSUME SessionInv, [Next]_vars PROVE SessionInv'
  OBVIOUS
<1>2. CASE UNCHANGED vars
  BY <1>1, <1>2 DEF vars, dirVars, processVars, commandVars, historyVars, otherVars, SessionInv,
     FilesOK, CommandOK, Anchored, AnchorOK, Running, Lost, Exists, BothBehind, Behind
<1>3. CASE Next
  BY <1>1, <1>3, AttachingStep, CommandStep, RequestsStep, RecordsStep, OthersStep, DeathStep
  DEF Next
<1>4. QED  BY <1>1, <1>2, <1>3

-----------------------------------------------------------------------------
(***************************************************************************)
(* The money: what the ledger holds, and what the status shows, for the    *)
(* requests of a batch that have not been noted.                           *)
(***************************************************************************)
Of(seq) == {seq[i].request : i \in DOMAIN seq}
InAnswers == Of(answers)
Outstanding == batch \cup InAnswers \cup ({cur} \ {None})

MoneyTypes ==
  /\ cmd \in Chapter \cup {None}
  /\ batch \in SUBSET Request /\ IsFiniteSet(batch)
  /\ sent \in SUBSET Request /\ IsFiniteSet(sent)
  /\ charged \in [Request -> Nat]
  /\ status \in CostStatus

Places ==
  /\ pc # "idle" => cmd \in Chapter
  /\ cur # None <=> pc = "reserved"
  /\ answers # << >> => pc \in {"waiting", "settling"}
  /\ batch # {} => pc \in {"ready", "reserved", "waiting"}
  /\ pc = "settling" => answers # << >> /\ batch = {}
  /\ pc \in {"waiting", "settling"} => batch \cup InAnswers \subseteq sent

Apart(seq) ==
  \A i, j \in DOMAIN seq : seq[i].request = seq[j].request => i = j

Distinct ==
  /\ Apart(answers)
  /\ InAnswers \cap batch = {}
  /\ cur \notin batch
  /\ sent \cup Outstanding \subseteq issued

Hold == [r \in Request |-> Maximum]

HoldsOutstanding ==
  \A r \in Outstanding : /\ r \in Holding(ledger)
                         /\ ledger.reservations[r].cost = Maximum

StatusCovers ==
  /\ SumFunctionOnSet(Hold, Outstanding) <= status.chapter
  /\ SumFunctionOnSet(Hold, Outstanding) <= status.run

MoneyInv == LedgerInv /\ MoneyTypes /\ Places /\ Distinct /\ HoldsOutstanding /\ StatusCovers

LEMMA OutstandingFinite ==
  ASSUME MoneyTypes, CommandOK
  PROVE  /\ IsFiniteSet(Outstanding) /\ Outstanding \subseteq Request
         /\ IsFiniteSet(InAnswers)
<1>1. answers \in Seq(Answer) /\ DOMAIN answers = 1..Len(answers) /\ Len(answers) \in Nat
  BY DEF CommandOK
<1>2. \A i \in DOMAIN answers : answers[i].request \in Request
  <2>1. \A i \in DOMAIN answers : answers[i] \in Answer
    BY <1>1
  <2>2. QED  BY <2>1 DEF Answer
<1>3. InAnswers \subseteq Request
  BY <1>2 DEF InAnswers, Of
<1>4. IsFiniteSet(InAnswers)
  <2>1. IsFiniteSet(1..Len(answers))
    BY <1>1, FS_Interval
  <2> DEFINE g == [i \in 1..Len(answers) |-> answers[i].request]
  <2>2. g \in Surjection(1..Len(answers), InAnswers)
    <3>1. g \in [1..Len(answers) -> InAnswers]
      BY <1>1 DEF InAnswers, Of
    <3>2. \A r \in InAnswers : \E i \in 1..Len(answers) : g[i] = r
      BY <1>1 DEF InAnswers, Of
    <3>3. QED  BY <3>1, <3>2 DEF Surjection
  <2>3. QED  BY <2>1, <2>2, FS_Surjection
<1>5. IsFiniteSet({cur} \ {None})
  <2>1. {cur} \ {None} \in SUBSET {cur} /\ IsFiniteSet({cur})
    BY FS_Singleton
  <2>2. QED  BY <2>1, FS_Subset
<1>6. IsFiniteSet(batch \cup InAnswers)
  BY <1>4, FS_Union DEF MoneyTypes
<1>7. IsFiniteSet(Outstanding)
  BY <1>5, <1>6, FS_Union DEF Outstanding
<1>8. Outstanding \subseteq Request
  BY <1>3 DEF Outstanding, MoneyTypes, CommandOK
<1>9. QED  BY <1>4, <1>7, <1>8

LEMMA TailOf ==
  ASSUME NEW s \in Seq(Answer), s # << >>
  PROVE  /\ Head(s) \in Answer /\ Tail(s) \in Seq(Answer)
         /\ Of(s) = Of(Tail(s)) \cup {Head(s).request}
         /\ \A i \in DOMAIN Tail(s) : \E j \in DOMAIN s : Tail(s)[i] = s[j]
         /\ Apart(s) => Apart(Tail(s)) /\ Head(s).request \notin Of(Tail(s))
<1> DEFINE t == Tail(s)
           n == Len(s)
<1>1. /\ Head(s) = s[1] /\ Head(s) \in Answer /\ t \in Seq(Answer)
      /\ n \in Nat /\ n > 0 /\ DOMAIN s = 1..n /\ DOMAIN t = 1..(n - 1)
      /\ \A i \in 1..(n - 1) : t[i] = s[i + 1]
  OBVIOUS
<1> HIDE DEF t, n
<1>2. \A i \in 1..n : i = 1 \/ i - 1 \in 1..(n - 1)
  BY <1>1
<1>3. \A i \in 1..(n - 1) : i + 1 \in 1..n /\ i + 1 # 1
  BY <1>1
<1>4. 1 \in 1..n /\ \A i \in 1..n : i = 1 \/ s[i] = t[i - 1]
  <2>1. \A i \in 1..n : (i - 1) + 1 = i
    BY <1>1
  <2>2. QED  BY <1>1, <1>2, <2>1
<1>5. Of(s) = Of(t) \cup {Head(s).request}
  <2>1. \A r \in Of(t) : r \in Of(s)
    BY <1>1, <1>3, SMTT(30) DEF Of
  <2>2. Head(s).request \in Of(s)
    BY <1>1, <1>4 DEF Of
  <2>3. ASSUME NEW r \in Of(s)
        PROVE  r \in Of(t) \/ r = Head(s).request
    <3>1. PICK i \in 1..n : r = s[i].request
      BY <1>1 DEF Of
    <3>2. QED  BY <1>1, <1>2, <1>4, <3>1 DEF Of
  <2>4. QED  BY <2>1, <2>2, <2>3
<1>6. \A i \in DOMAIN t : \E j \in DOMAIN s : t[i] = s[j]
  BY <1>1, <1>3
<1>7. ASSUME Apart(s)
      PROVE  Apart(t) /\ Head(s).request \notin Of(t)
  <2>1. \A i, j \in 1..n : s[i].request = s[j].request => i = j
    BY <1>1, <1>7 DEF Apart
  <2>2. ASSUME NEW i \in 1..(n - 1), NEW j \in 1..(n - 1), t[i].request = t[j].request
        PROVE  i = j
    <3>1. s[i + 1].request = s[j + 1].request
      BY <1>1, <2>2
    <3>2. i + 1 = j + 1
      BY <1>3, <2>1, <3>1
    <3>3. QED  BY <1>1, <3>2
  <2>3. ASSUME NEW i \in 1..(n - 1)
        PROVE  t[i].request # Head(s).request
    <3>1. s[i + 1].request # s[1].request
      BY <1>3, <1>4, <2>1
    <3>2. QED  BY <1>1, <3>1
  <2>4. QED  BY <1>1, <2>2, <2>3 DEF Apart, Of
<1>8. QED  BY <1>1, <1>5, <1>6, <1>7 DEF t

LEMMA AppendOf ==
  ASSUME NEW s \in Seq(Answer), NEW a \in Answer
  PROVE  /\ Append(s, a) \in Seq(Answer)
         /\ Of(Append(s, a)) = Of(s) \cup {a.request}
         /\ \A i \in DOMAIN Append(s, a) :
              Append(s, a)[i] = a \/ \E j \in DOMAIN s : Append(s, a)[i] = s[j]
         /\ Apart(s) /\ a.request \notin Of(s) => Apart(Append(s, a))
<1> DEFINE t == Append(s, a)
           n == Len(s)
<1>1. /\ t \in Seq(Answer) /\ n \in Nat /\ DOMAIN s = 1..n /\ DOMAIN t = 1..(n + 1)
      /\ t[n + 1] = a /\ \A i \in 1..n : t[i] = s[i]
  OBVIOUS
<1> HIDE DEF t, n
<1>2. \A i : i \in 1..(n + 1) <=> i \in 1..n \/ i = n + 1
  BY <1>1
<1>3. Of(t) = Of(s) \cup {a.request}
  BY <1>1, <1>2 DEF Of
<1>4. \A i \in DOMAIN t : t[i] = a \/ \E j \in DOMAIN s : t[i] = s[j]
  BY <1>1, <1>2
<1>5. ASSUME Apart(s), a.request \notin Of(s)
      PROVE  Apart(t)
  <2>1. \A i \in 1..n : s[i].request # a.request
    BY <1>1, <1>5 DEF Of
  <2>2. QED  BY <1>1, <1>2, <1>5, <2>1 DEF Apart
<1>6. QED  BY <1>1, <1>3, <1>4, <1>5 DEF t

\* Steps that put nothing new in flight leave the money covered.
LEMMA FewerOutstanding ==
  ASSUME MoneyInv, CommandOK,
         Outstanding' \in SUBSET Outstanding,
         Outstanding' = {} \/ ledger' = ledger,
         Outstanding' = {} \/ status' = status,
         status' \in CostStatus
  PROVE  HoldsOutstanding' /\ StatusCovers'
<1>1. HoldsOutstanding'
  BY DEF MoneyInv, HoldsOutstanding, Holding
<1>2. /\ IsFiniteSet(Outstanding) /\ Outstanding \subseteq Request
      /\ \A r \in Outstanding : Hold[r] \in Nat
  BY OutstandingFinite, CostAssumption DEF MoneyInv, Hold
<1>3. SumFunctionOnSet(Hold, Outstanding') <= SumFunctionOnSet(Hold, Outstanding)
  BY <1>2, SumOfPart
<1>4. Hold' = Hold
  BY DEF Hold
<1>5. SumFunctionOnSet(Hold, Outstanding) \in Nat /\ SumFunctionOnSet(Hold, Outstanding') \in Nat
  BY <1>2, SumTakes, FS_Subset
<1>6. status \in CostStatus /\ StatusCovers
  BY DEF MoneyInv, MoneyTypes
<1>7. StatusCovers'
  <2>1. CASE Outstanding' = {}
    <3>1. SumFunctionOnSet(Hold, Outstanding') = 0
      BY <2>1, SumOfNothing
    <3>2. QED  BY <1>4, <3>1 DEF StatusCovers, CostStatus
  <2>2. CASE status' = status
    BY <1>3, <1>4, <1>5, <1>6, <2>2 DEF StatusCovers, CostStatus
  <2>3. QED  BY <2>1, <2>2
<1>8. QED  BY <1>1, <1>7

-----------------------------------------------------------------------------
(***************************************************************************)
(* The steps of the specification keep the money covered.                  *)
(***************************************************************************)
CheckpointTypes == {checkpoint, fallback} \subseteq Checkpoint \cup {None}

OtherTypes ==
  /\ {strays, frozen, late} \subseteq BOOLEAN
  /\ unheld \in SUBSET Request
  /\ seen \in Checkpoint \cup {None}

LEMMA NothingOutstanding ==
  ASSUME batch = {}, answers = << >>, cur = None
  PROVE  Outstanding = {} /\ InAnswers = {}
BY DEF Outstanding, InAnswers, Of

LEMMA IdleOutstanding ==
  ASSUME CommandOK, MoneyInv, pc = "idle"
  PROVE  Outstanding = {} /\ InAnswers = {}
BY NothingOutstanding DEF CommandOK, MoneyInv, Places

\* A command that ends has nothing in flight.
LEMMA IdleMoney ==
  ASSUME MoneyInv, CommandOK, Idle, LedgerInv', issued \subseteq issued',
         UNCHANGED <<sent, charged>>, status' \in CostStatus
  PROVE  MoneyInv' /\ Outstanding' = {}
<1>1. /\ pc' = "idle" /\ cmd' = None /\ cur' = None /\ batch' = {} /\ answers' = << >>
  BY DEF Idle
<1>2. Outstanding' = {} /\ InAnswers' = {}
  BY <1>1 DEF Outstanding, InAnswers, Of
<1>3. IsFiniteSet({})
  BY FS_EmptySet
<1>4. MoneyTypes'
  BY <1>1, <1>3 DEF MoneyInv, MoneyTypes
<1>5. Places'
  BY <1>1 DEF Places
<1>6. Distinct'
  <2>1. Apart(answers')
    BY <1>1 DEF Apart
  <2>2. None \notin {}
    OBVIOUS
  <2>3. sent' \subseteq issued'
    BY DEF MoneyInv, Distinct
  <2>4. QED  BY <1>1, <1>2, <2>1, <2>3 DEF Distinct
<1>7. HoldsOutstanding' /\ StatusCovers'
  BY <1>2, FewerOutstanding
<1>8. QED  BY <1>2, <1>4, <1>5, <1>6, <1>7 DEF MoneyInv

LEMMA LedgerSame ==
  ASSUME LedgerInv, UNCHANGED ledgerVars
  PROVE  LedgerInv'
BY DEF ledgerVars, LedgerInv, FileInv, FileType, ReportedEventsSurvive, TornIsFrozen,
       PrefixesReplay, Replays, Issued, MemoryIsReplay

\* Steps that change none of the requests in flight.
LEMMA SameOutstanding ==
  ASSUME MoneyInv, CommandOK, UNCHANGED <<batch, cur, answers, sent, charged>>,
         LedgerInv', issued' = issued, Outstanding = {} \/ ledger' = ledger,
         Outstanding = {} \/ status' = status,
         status' \in CostStatus, cmd' \in Chapter \cup {None}, Places'
  PROVE  MoneyInv' /\ Outstanding' = Outstanding
<1>1. Outstanding' = Outstanding /\ InAnswers' = InAnswers
  BY DEF Outstanding, InAnswers, Of
<1>2. MoneyTypes'
  BY DEF MoneyInv, MoneyTypes
<1>3. Distinct'
  BY <1>1 DEF MoneyInv, Distinct, Apart
<1>4. HoldsOutstanding' /\ StatusCovers'
  BY <1>1, FewerOutstanding
<1>5. QED  BY <1>1, <1>2, <1>3, <1>4 DEF MoneyInv

\* Taking the first answer from the list.
LEMMA NotedMoney ==
  ASSUME MoneyInv, CommandOK, answers # << >>, NEW fails, Noted(fails), pc' = "waiting",
         pc \in {"waiting", "settling"}, UNCHANGED <<sent, charged, issued>>
  PROVE  /\ Outstanding' = Outstanding \ {Head(answers).request}
         /\ Head(answers).request \in Outstanding
         /\ Head(answers) \in Answer
         /\ Places' /\ Distinct'
         /\ status' \in CostStatus => MoneyTypes'
<1>1. /\ answers' = Tail(answers) /\ UNCHANGED <<cmd, cur, batch>>
  BY DEF Noted
<1>2. answers \in Seq(Answer) /\ Apart(answers)
  BY DEF CommandOK, MoneyInv, Distinct
<1>3. /\ Head(answers) \in Answer
      /\ Of(answers) = Of(Tail(answers)) \cup {Head(answers).request}
      /\ Apart(Tail(answers)) /\ Head(answers).request \notin Of(Tail(answers))
  BY <1>2, TailOf
<1> DEFINE h == Head(answers).request
<1>4. h \in Request
  BY <1>3 DEF Answer
<1> HIDE DEF h
<1>5. InAnswers = InAnswers' \cup {h} /\ h \notin InAnswers'
  BY <1>1, <1>3 DEF InAnswers, h
<1>6. cur = None
  BY DEF MoneyInv, Places
<1>7. h \notin batch
  BY <1>5 DEF MoneyInv, Distinct
<1>8. Outstanding' = Outstanding \ {h} /\ h \in Outstanding
  BY <1>1, <1>5, <1>6, <1>7 DEF Outstanding
<1>9. Places'
  BY <1>1, <1>5 DEF MoneyInv, Places
<1>10. Distinct'
  BY <1>1, <1>3, <1>5, <1>8 DEF MoneyInv, Distinct
<1>11. status' \in CostStatus => MoneyTypes'
  BY <1>1 DEF MoneyInv, MoneyTypes
<1>12. QED  BY <1>3, <1>8, <1>9, <1>10, <1>11 DEF h

\* Opening the ledger when nothing is in flight.
LEMMA OpeningMoney ==
  ASSUME SessionInv, MoneyInv, pc = "idle", UNCHANGED <<commandVars, sent, charged>>,
         Open \/ UNCHANGED ledgerVars, status' \in CostStatus
  PROVE  MoneyInv' /\ Outstanding = {} /\ Outstanding' = {}
<1>1. LedgerInv' /\ issued' = issued
  BY OpenStep, LedgerSame DEF MoneyInv, Open, ledgerVars
<1>2. Outstanding = {} /\ CommandOK
  BY IdleOutstanding DEF SessionInv
<1>3. Places' /\ cmd' \in Chapter \cup {None}
  BY DEF MoneyInv, Places, MoneyTypes, commandVars, InAnswers, Of
<1>4. QED  BY <1>1, <1>2, <1>3, SameOutstanding DEF commandVars

LEMMA AttachingMoney ==
  ASSUME SessionInv, MoneyInv, CheckpointTypes,
         CreateSession \/ Attach \/ AttachRefused \/ Resume
  PROVE  /\ MoneyInv' /\ CheckpointTypes'
         /\ Outstanding = {} /\ Outstanding' = {}
<1>1. /\ pc = "idle" /\ UNCHANGED <<checkpoint, fallback, commandVars, sent, charged>>
      /\ Open \/ UNCHANGED ledgerVars
      /\ status' = status \/ (checkpoint # None /\ status' = checkpoint.status)
  <2>1. CASE CreateSession
    BY <2>1 DEF CreateSession, historyVars
  <2>2. CASE Attach
    BY <2>2 DEF Attach, historyVars, RestoredStatus
  <2>3. CASE AttachRefused \/ Resume
    BY <2>3 DEF AttachRefused, Resume, historyVars, processVars
  <2>4. QED  BY <2>1, <2>2, <2>3
<1>2. status' \in CostStatus
  BY <1>1 DEF CheckpointTypes, Checkpoint, MoneyInv, MoneyTypes
<1>3. CheckpointTypes'
  BY <1>1 DEF CheckpointTypes
<1>4. QED  BY <1>1, <1>2, <1>3, OpeningMoney

LEMMA CommandMoney ==
  ASSUME SessionInv, MoneyInv, CheckpointTypes, Command
  PROVE  /\ MoneyInv' /\ CheckpointTypes' /\ Outstanding = {} /\ Outstanding' = {}
         /\ UNCHANGED <<sent, charged>>
<1> USE DEF SessionInv
<1>1. UNCHANGED <<ledgerVars, sent, charged>>
  BY DEF Command, Begin, Conclude, WriteCheckpoint, Abandon, historyVars
<1>2. LedgerInv' /\ issued' = issued
  BY <1>1, LedgerSame DEF MoneyInv, ledgerVars
<1>3. status \in CostStatus
  BY DEF MoneyInv, MoneyTypes
<1>4. ASSUME NEW c \in Chapter, NEW o \in AppendOutcome, Begin(c, o)
      PROVE  MoneyInv' /\ CheckpointTypes' /\ Outstanding = {} /\ Outstanding' = {}
  <2>1. /\ pc = "idle" /\ UNCHANGED <<checkpoint, fallback, cur, batch, answers>>
        /\ \/ pc' = "ready" /\ cmd' = c
              /\ status' = IF c = Coordinator THEN status ELSE [status EXCEPT !.chapter = 0]
           \/ UNCHANGED <<pc, cmd, status>>
    BY <1>4 DEF Begin, commandVars
  <2>2. status' \in CostStatus
    BY <1>3, <2>1 DEF CostStatus
  <2>3. Outstanding = {} /\ batch = {} /\ answers = << >> /\ cur = None
    BY <2>1, IdleOutstanding DEF CommandOK, MoneyInv, Places
  <2>4. Places' /\ cmd' \in Chapter \cup {None}
    BY <2>1, <2>3 DEF MoneyInv, Places, MoneyTypes, InAnswers, Of
  <2>5. MoneyInv' /\ Outstanding' = Outstanding
    BY <1>1, <1>2, <2>1, <2>2, <2>3, <2>4, SameOutstanding
  <2>6. QED  BY <2>1, <2>3, <2>5 DEF CheckpointTypes
<1>5. ASSUME Between
      PROVE  Outstanding = {} /\ batch = {} /\ answers = << >> /\ cur = None
  BY <1>5, NothingOutstanding DEF Between, MoneyInv, Places
<1>6. ASSUME NEW o \in AppendOutcome, Conclude(o)
      PROVE  MoneyInv' /\ CheckpointTypes' /\ Outstanding = {} /\ Outstanding' = {}
  <2>1. /\ UNCHANGED <<checkpoint, fallback, status>> /\ Between
        /\ \/ Idle
           \/ pc' = "concluding" /\ UNCHANGED <<cmd, cur, batch, answers>>
    BY <1>6 DEF Conclude
  <2>2. CheckpointTypes' /\ Outstanding = {}
    BY <1>5, <2>1 DEF CheckpointTypes
  <2>3. CASE Idle
    BY <1>1, <1>2, <1>3, <2>1, <2>2, <2>3, IdleMoney
  <2>4. CASE pc' = "concluding" /\ UNCHANGED <<cmd, cur, batch, answers>>
    <3>1. Places' /\ cmd' \in Chapter \cup {None}
      BY <1>5, <2>1, <2>4 DEF MoneyInv, Places, MoneyTypes, InAnswers, Of, Between
    <3>2. QED  BY <1>1, <1>2, <1>3, <2>1, <2>2, <2>4, <3>1, SameOutstanding
  <2>5. QED  BY <2>1, <2>3, <2>4
<1>7. ASSUME NEW o \in CheckpointOutcome, WriteCheckpoint(o)
      PROVE  MoneyInv' /\ CheckpointTypes' /\ Outstanding = {} /\ Outstanding' = {}
  <2> DEFINE new == [anchor |-> last, status |-> status]
  <2>1. /\ Idle /\ UNCHANGED status /\ pc # "idle"
        /\ pc = "concluding" \/ Between
        /\ \/ UNCHANGED <<checkpoint, fallback>>
           \/ /\ last = Anchor(lines)
              /\ checkpoint' \in {checkpoint, new} /\ fallback' \in {fallback, new}
    BY <1>7 DEF WriteCheckpoint, SyncDirectory, Between
  <2>2. MoneyInv' /\ Outstanding' = {}
    BY <1>1, <1>2, <1>3, <2>1, IdleMoney
  <2>3. last = Anchor(lines) => new \in Checkpoint
    <3>1. lines \in Seq(Line) /\ lines # << >> /\ Len(lines) \in Nat /\ Len(lines) > 0
      BY <2>1 DEF FilesOK, Running
    <3>2. Last(lines) \in Line
      BY <3>1 DEF Last
    <3>3. Anchor(lines) \in Nat \X Line
      BY <3>1, <3>2 DEF Anchor
    <3>4. QED  BY <1>3, <3>3 DEF Checkpoint
  <2> HIDE DEF new
  <2>4. CheckpointTypes'
    BY <2>1, <2>3 DEF CheckpointTypes
  <2>5. Outstanding = {}
    <3>1. CASE pc = "concluding"
      BY <3>1, NothingOutstanding DEF MoneyInv, Places
    <3>2. QED  BY <1>5, <2>1, <3>1
  <2>6. QED  BY <2>2, <2>4, <2>5
<1>8. CASE Abandon
  <2>1. Idle /\ Between /\ UNCHANGED <<checkpoint, fallback>> /\ UNCHANGED status
    BY <1>8 DEF Abandon, dirVars
  <2>2. status' \in CostStatus /\ issued \subseteq issued' /\ CommandOK
    BY <1>2, <1>3, <2>1
  <2>3. MoneyInv' /\ Outstanding' = {}
    BY <1>1, <1>2, <2>1, <2>2, IdleMoney
  <2>4. QED  BY <1>1, <1>5, <2>1, <2>3 DEF CheckpointTypes
<1>9. QED  BY <1>1, <1>4, <1>6, <1>7, <1>8 DEF Command

\* A request is reserved: one more in flight, one more maximum on the status.
LEMMA ReservedMoney ==
  ASSUME SessionInv, MoneyInv, NEW r \in Request, NEW o \in Outcome, ReserveRequest(r, o)
  PROVE  /\ MoneyInv'
         /\ UNCHANGED <<sent, charged>>
         /\ \/ Outstanding' = {} /\ UNCHANGED status
            \/ /\ o = "ok" /\ r \notin issued /\ cur' = r
               /\ Outstanding' = Outstanding \cup {r}
               /\ status' = Spend
<1>1. /\ pc = "ready" /\ Reserve(r, cmd, Maximum, o)
      /\ UNCHANGED <<sent, charged>>
  BY DEF ReserveRequest
<1>2. cmd \in Chapter /\ Maximum \in Nat /\ status \in CostStatus
  BY <1>1, CostAssumption DEF MoneyInv, Places, MoneyTypes
<1>3. LedgerInv'
  BY <1>1, <1>2, ReserveStep DEF MoneyInv
<1>4. /\ r \notin issued
      /\ issued' = IF o = "before" THEN issued ELSE issued \cup {r}
  BY <1>1 DEF Reserve
<1>5. CASE o # "ok"
  <2>1. Idle /\ UNCHANGED status /\ issued \subseteq issued'
    BY <1>4, <1>5 DEF ReserveRequest
  <2>2. status' \in CostStatus /\ CommandOK
    BY <1>2, <2>1 DEF SessionInv
  <2>3. QED  BY <1>1, <1>3, <2>1, <2>2, IdleMoney
<1>6. CASE o = "ok"
  <2>1. /\ pc' = "reserved" /\ cur' = r /\ status' = Spend
        /\ UNCHANGED <<cmd, batch, answers, failed>>
        /\ issued' = issued \cup {r}
    BY <1>4, <1>6 DEF ReserveRequest
  <2>2. cur = None /\ answers = << >> /\ r # None
    BY <1>1, NoneAssumption DEF MoneyInv, Places
  <2>3. InAnswers = {} /\ InAnswers' = {} /\ Outstanding = batch
    BY <2>1, <2>2 DEF InAnswers, Of, Outstanding
  <2>4. Outstanding' = Outstanding \cup {r}
    BY <2>1, <2>2, <2>3 DEF Outstanding
  <2>5. r \notin Outstanding
    BY <1>4 DEF MoneyInv, Distinct
  <2>6. MoneyTypes'
    BY <1>1, <1>2, <2>1 DEF MoneyInv, MoneyTypes, Spend, CostStatus
  <2>7. Places'
    BY <1>1, <2>1, <2>2, <2>3 DEF MoneyInv, Places
  <2>8. Distinct'
    <3>1. Apart(answers')
      BY <2>1 DEF MoneyInv, Distinct
    <3>2. sent' \cup Outstanding' \subseteq issued'
      BY <1>1, <2>1, <2>4 DEF MoneyInv, Distinct
    <3>3. cur' \notin batch'
      BY <2>1, <2>3, <2>5
    <3>4. QED  BY <2>3, <3>1, <3>2, <3>3 DEF Distinct
  <2>9. HoldsOutstanding'
    <3> DEFINE new == NewReservation(ledger, cmd, Maximum)
    <3>1. ledger' = Holds(ledger, r, new)
      BY <1>1, <1>6 DEF Reserve, Persist
    <3>2. Sound(ledger) /\ r \notin Holding(ledger) /\ WithinCaps(ledger, cmd, Maximum)
      BY <1>1, <1>4 DEF MoneyInv, LedgerInv, Issued, Reserve
    <3>3. Holding(ledger') = Holding(ledger) \cup {r}
      BY <1>2, <3>1, <3>2, HoldSound
    <3>4. new.cost = Maximum
      BY DEF NewReservation
    <3>5. ledger \in LedgerState
      BY <3>2 DEF Sound, WellFormed
    <3> HIDE DEF new
    <3>6. ledger'.reservations = [ledger.reservations EXCEPT ![r] = new]
      BY <3>1, <3>5 DEF Holds, LedgerState
    <3>7. ledger.reservations \in [Request -> Reservation \cup {NoReservation}]
      BY <3>5 DEF LedgerState
    <3>8. /\ ledger'.reservations[r] = new
          /\ \A x \in Request : x # r => ledger'.reservations[x] = ledger.reservations[x]
      BY <3>6, <3>7
    <3>9. \A x \in Outstanding : /\ x \in Holding(ledger)
                                 /\ ledger.reservations[x].cost = Maximum
                                 /\ x \in Request
      BY DEF MoneyInv, HoldsOutstanding, Holding
    <3>10. \A x \in Outstanding' : /\ x \in Holding(ledger')
                                   /\ ledger'.reservations[x].cost = Maximum
      BY <2>4, <2>5, <3>3, <3>4, <3>8, <3>9
    <3>11. Holding(ledger)' = Holding(ledger')
      BY DEF Holding
    <3>12. QED  BY <3>10, <3>11 DEF HoldsOutstanding
  <2>10. StatusCovers'
    <3>1. /\ IsFiniteSet(Outstanding) /\ \A x \in Outstanding : Hold[x] \in Nat
          /\ Hold[r] = Maximum /\ Hold[r] \in Nat
      BY <1>2, OutstandingFinite DEF MoneyInv, SessionInv, Hold
    <3>2. SumFunctionOnSet(Hold, Outstanding \cup {r})
            = SumFunctionOnSet(Hold, Outstanding) + Maximum
      BY <2>5, <3>1, SumAdds
    <3>3. SumFunctionOnSet(Hold, Outstanding) \in Nat
      BY <3>1, SumTakes
    <3>4. /\ SumFunctionOnSet(Hold, Outstanding) <= status.chapter
          /\ SumFunctionOnSet(Hold, Outstanding) <= status.run
      BY DEF MoneyInv, StatusCovers
    <3>5. status.chapter \in Nat /\ status.run \in Nat
      BY <1>2 DEF CostStatus
    <3>6. status'.chapter = status.chapter + Maximum /\ status'.run = status.run + Maximum
      BY <2>1 DEF Spend
    <3>7. Hold' = Hold
      BY DEF Hold
    <3>8. /\ SumFunctionOnSet(Hold, Outstanding \cup {r}) <= status'.chapter
          /\ SumFunctionOnSet(Hold, Outstanding \cup {r}) <= status'.run
      BY <1>2, <3>2, <3>3, <3>4, <3>5, <3>6
    <3>9. QED  BY <2>4, <3>7, <3>8 DEF StatusCovers
  <2>11. MoneyInv'
    BY <1>3, <2>6, <2>7, <2>8, <2>9, <2>10 DEF MoneyInv
  <2>12. QED  BY <1>1, <1>4, <1>6, <2>1, <2>4, <2>11
<1>7. QED  BY <1>5, <1>6

LEMMA StartedMoney ==
  ASSUME SessionInv, MoneyInv, NEW o \in AppendOutcome, StartRequest(o)
  PROVE  /\ MoneyInv' /\ UNCHANGED <<sent, charged, status, ledgerVars>>
         /\ Outstanding' = {} \/ Outstanding' = Outstanding
<1>1. /\ pc = "reserved" /\ UNCHANGED <<sent, charged, ledgerVars>> /\ UNCHANGED status
  BY DEF StartRequest, historyVars
<1>2. LedgerInv' /\ UNCHANGED <<issued, ledger>> /\ status' \in CostStatus /\ CommandOK
  BY <1>1, LedgerSame DEF MoneyInv, MoneyTypes, ledgerVars, SessionInv
<1>3. CASE o # "ok"
  <2>1. Idle /\ issued \subseteq issued'
    BY <1>2, <1>3 DEF StartRequest
  <2>2. QED  BY <1>1, <1>2, <2>1, IdleMoney
<1>4. CASE o = "ok"
  <2>1. /\ pc' = "ready" /\ batch' = batch \cup {cur} /\ cur' = None
        /\ UNCHANGED <<cmd, answers>>
    BY <1>4 DEF StartRequest
  <2>2. cur \in Request /\ cur # None /\ answers = << >>
    BY <1>1, <1>2 DEF MoneyInv, Places, CommandOK
  <2>3. Outstanding' = Outstanding /\ InAnswers = {} /\ InAnswers' = {}
    BY <2>1, <2>2 DEF Outstanding, InAnswers, Of
  <2>4. MoneyTypes'
    BY <1>1, <1>2, <2>1, <2>2, FS_AddElement DEF MoneyInv, MoneyTypes
  <2>5. None \notin batch'
    BY <2>1, <2>2, NoneAssumption DEF MoneyInv, MoneyTypes
  <2>6. Places'
    BY <1>1, <2>1, <2>2, <2>3 DEF MoneyInv, Places
  <2>7. Distinct'
    BY <1>1, <1>2, <2>1, <2>3, <2>5 DEF MoneyInv, Distinct
  <2>8. HoldsOutstanding' /\ StatusCovers'
    BY <1>1, <1>2, <2>3, FewerOutstanding
  <2>9. QED  BY <1>1, <1>2, <2>3, <2>4, <2>6, <2>7, <2>8 DEF MoneyInv
<1>5. QED  BY <1>3, <1>4

LEMMA SentMoney ==
  ASSUME SessionInv, MoneyInv, Send
  PROVE  /\ MoneyInv' /\ UNCHANGED <<charged, status, ledgerVars>>
         /\ Outstanding' = Outstanding
         /\ sent' \cup Outstanding' = sent \cup Outstanding
<1>1. /\ pc = "ready" /\ pc' = "waiting" /\ sent' = sent \cup batch
      /\ UNCHANGED <<cmd, cur, batch, answers, charged, ledgerVars>> /\ UNCHANGED status
  BY DEF Send
<1>2. LedgerInv' /\ UNCHANGED <<issued, ledger>> /\ status' \in CostStatus /\ CommandOK
  BY <1>1, LedgerSame DEF MoneyInv, MoneyTypes, ledgerVars, SessionInv
<1>3. /\ Outstanding' = Outstanding /\ InAnswers' = InAnswers
      /\ InAnswers = {} /\ batch \subseteq Outstanding
  BY <1>1 DEF Outstanding, InAnswers, Of, MoneyInv, Places
<1>4. MoneyTypes'
  BY <1>1, <1>2, FS_Union DEF MoneyInv, MoneyTypes
<1>5. Places'
  BY <1>1, <1>3 DEF MoneyInv, Places
<1>6. Distinct'
  BY <1>1, <1>2, <1>3 DEF MoneyInv, Distinct
<1>7. HoldsOutstanding' /\ StatusCovers'
  BY <1>1, <1>2, <1>3, FewerOutstanding
<1>8. QED  BY <1>1, <1>2, <1>3, <1>4, <1>5, <1>6, <1>7 DEF MoneyInv

LEMMA AnsweredMoney ==
  ASSUME SessionInv, MoneyInv, NEW r \in Request, Answered(r)
  PROVE  /\ MoneyInv' /\ UNCHANGED <<sent, status, ledgerVars>>
         /\ Outstanding' = Outstanding /\ r \in Outstanding /\ r \in sent
         /\ \E a \in Answer : /\ a.request = r /\ answers' = Append(answers, a)
                              /\ charged' = [charged EXCEPT ![r] = a.cost]
<1>1. /\ pc = "waiting" /\ r \in batch /\ batch' = batch \ {r}
      /\ UNCHANGED <<pc, cmd, cur, sent, ledgerVars>> /\ UNCHANGED status
  BY DEF Answered
<1>2. LedgerInv' /\ UNCHANGED <<issued, ledger>> /\ status' \in CostStatus /\ CommandOK
  BY <1>1, LedgerSame DEF MoneyInv, MoneyTypes, ledgerVars, SessionInv
<1>3. PICK kind \in {"usage", "unmetered", "ambiguous", "stopped"},
           cost \in Charge \cup {0} :
        /\ answers' = Append(answers, [request |-> r, kind |-> kind, cost |-> cost])
        /\ charged' = [charged EXCEPT ![r] = cost]
  BY DEF Answered
<1> DEFINE a == [request |-> r, kind |-> kind, cost |-> cost]
<1>4. cost \in Nat
  BY CostAssumption
<1>5. a \in Answer /\ a.request = r /\ a.cost = cost
  BY <1>4 DEF Answer
<1> HIDE DEF a
<1>6. answers' = Append(answers, a) /\ answers \in Seq(Answer) /\ Apart(answers)
  BY <1>2, <1>3 DEF CommandOK, MoneyInv, Distinct, a
<1>7. r \notin InAnswers
  BY <1>1 DEF MoneyInv, Distinct
<1>8. InAnswers' = InAnswers \cup {r} /\ Apart(answers')
  BY <1>5, <1>6, <1>7, AppendOf DEF InAnswers
<1>9. Outstanding' = Outstanding /\ r \in Outstanding
  BY <1>1, <1>8 DEF Outstanding
<1>10. MoneyTypes'
  <2>1. charged' \in [Request -> Nat]
    BY <1>3, <1>4 DEF MoneyInv, MoneyTypes
  <2>2. IsFiniteSet(batch')
    BY <1>1, FS_RemoveElement DEF MoneyInv, MoneyTypes
  <2>3. QED  BY <1>1, <1>2, <2>1, <2>2 DEF MoneyInv, MoneyTypes
<1>11. Places' /\ r \in sent
  BY <1>1, <1>8 DEF MoneyInv, Places
<1>12. Distinct'
  BY <1>1, <1>2, <1>8, <1>9 DEF MoneyInv, Distinct
<1>13. HoldsOutstanding' /\ StatusCovers'
  BY <1>1, <1>2, <1>9, FewerOutstanding
<1>14. MoneyInv'
  BY <1>2, <1>10, <1>11, <1>12, <1>13 DEF MoneyInv
<1>15. QED  BY <1>1, <1>3, <1>5, <1>6, <1>9, <1>11, <1>14

\* A batch that is refused or answered changes no money.
LEMMA QuietMoney ==
  ASSUME SessionInv, MoneyInv, ReserveRefused \/ EndBatch \/ SettleRefused
  PROVE  /\ MoneyInv' /\ UNCHANGED <<sent, charged, status, ledgerVars>>
         /\ Outstanding' = {} \/ Outstanding' = Outstanding
<1>1. UNCHANGED <<sent, charged, ledgerVars>> /\ UNCHANGED status
  BY DEF ReserveRefused, EndBatch, SettleRefused, historyVars
<1>2. /\ LedgerInv' /\ UNCHANGED <<issued, ledger>> /\ issued \subseteq issued'
      /\ status' \in CostStatus /\ CommandOK
  BY <1>1, LedgerSame DEF MoneyInv, MoneyTypes, ledgerVars, SessionInv
<1>3. CASE Idle
  BY <1>1, <1>2, <1>3, IdleMoney
<1>4. CASE ~Idle
  <2>1. /\ pc' = "ready" /\ UNCHANGED <<cmd, cur, batch, answers>>
        /\ pc = "waiting" /\ batch = {} /\ answers = << >>
    BY <1>4 DEF ReserveRefused, EndBatch, SettleRefused
  <2>2. Places' /\ cmd' \in Chapter \cup {None}
    BY <2>1 DEF MoneyInv, Places, MoneyTypes, InAnswers, Of
  <2>3. QED  BY <1>1, <1>2, <2>1, <2>2, SameOutstanding
<1>5. QED  BY <1>3, <1>4

\* Noting an answer that releases nothing.
LEMMA UnreleasedMoney ==
  ASSUME SessionInv, MoneyInv, NEW o \in AppendOutcome,
         NoteUsage(o) \/ NoteUnmetered(o) \/ NoteAmbiguous(o) \/ NoteStopped
  PROVE  /\ MoneyInv' /\ UNCHANGED <<sent, charged, status, ledgerVars>>
         /\ Outstanding' \subseteq Outstanding
         /\ answers' = answers \/ answers' = << >> \/ answers' = Tail(answers)
<1>1. /\ UNCHANGED <<sent, charged, ledgerVars>> /\ UNCHANGED status
      /\ pc = "waiting" /\ answers # << >> /\ batch = {}
      /\ \/ Idle
         \/ pc' = "settling" /\ UNCHANGED <<cmd, cur, batch, answers>>
         \/ pc' = "waiting" /\ Noted(TRUE)
  BY DEF NoteUsage, NoteUnmetered, NoteAmbiguous, NoteStopped, Noting, historyVars
<1>2. /\ LedgerInv' /\ UNCHANGED <<issued, ledger>> /\ issued \subseteq issued'
      /\ status' \in CostStatus /\ CommandOK
  BY <1>1, LedgerSame DEF MoneyInv, MoneyTypes, ledgerVars, SessionInv
<1>3. CASE Idle
  <2>1. answers' = << >>
    BY <1>3 DEF Idle
  <2>2. QED  BY <1>1, <1>2, <1>3, <2>1, IdleMoney
<1>4. CASE pc' = "settling" /\ UNCHANGED <<cmd, cur, batch, answers>>
  <2>1. Places' /\ cmd' \in Chapter \cup {None}
    BY <1>1, <1>4 DEF MoneyInv, Places, MoneyTypes, InAnswers, Of
  <2>2. QED  BY <1>1, <1>2, <1>4, <2>1, SameOutstanding
<1>5. CASE pc' = "waiting" /\ Noted(TRUE)
  <2>1. /\ Outstanding' = Outstanding \ {Head(answers).request}
        /\ Places' /\ Distinct' /\ MoneyTypes'
    BY <1>1, <1>2, <1>5, NotedMoney
  <2>2. HoldsOutstanding' /\ StatusCovers'
    BY <1>1, <1>2, <2>1, FewerOutstanding
  <2>3. answers' = Tail(answers)
    BY <1>5 DEF Noted
  <2>4. QED  BY <1>1, <1>2, <2>1, <2>2, <2>3 DEF MoneyInv
<1>6. QED  BY <1>1, <1>3, <1>4, <1>5

\* Settling the first answer: its request is in flight no more, and the status
\* shows its charge where it showed the maximum.
LEMMA SettledMoney ==
  ASSUME SessionInv, MoneyInv, NEW o \in Outcome, SettleRequest(o)
  PROVE  LET a == Head(answers)
         IN /\ MoneyInv' /\ UNCHANGED <<sent, charged>>
            /\ a \in Answer /\ a.request \in Outstanding /\ a.cost <= Maximum
            /\ Settle(a.request, a.cost, o)
            /\ \E i \in DOMAIN answers : a = answers[i]
            /\ \/ Outstanding' = {} /\ answers' = << >> /\ UNCHANGED status
               \/ /\ Outstanding' = Outstanding \ {a.request}
                  /\ answers' = Tail(answers)
                  /\ status'.run = status.run - (Maximum - a.cost)
<1> DEFINE a == Head(answers)
<1>1. /\ pc = "settling" /\ Settle(a.request, a.cost, o)
      /\ UNCHANGED <<sent, charged>>
  BY DEF SettleRequest
<1>2. answers # << >> /\ answers \in Seq(Answer) /\ CommandOK
  BY <1>1 DEF MoneyInv, Places, SessionInv, CommandOK
<1>3. a \in Answer /\ \E i \in DOMAIN answers : a = answers[i]
  <2>1. a = answers[1] /\ 1 \in DOMAIN answers
    BY <1>2
  <2>2. QED  BY <1>2, <2>1
<1> HIDE DEF a
<1>4. a.request \in Request /\ a.cost \in Nat
  BY <1>3 DEF Answer
<1>5. a.request \in Outstanding
  BY <1>3 DEF Outstanding, InAnswers, Of
<1>6. /\ a.request \in Holding(ledger) /\ ledger.reservations[a.request].cost = Maximum
      /\ a.cost <= Maximum
  BY <1>1, <1>5 DEF MoneyInv, HoldsOutstanding, Settle, MaySettle
<1>7. LedgerInv' /\ issued' = issued
  BY <1>1, <1>4, SettleStep DEF MoneyInv, Settle
<1>8. Maximum \in Nat /\ status \in CostStatus /\ status.chapter \in Nat /\ status.run \in Nat
  BY CostAssumption DEF MoneyInv, MoneyTypes, CostStatus
<1>9. CASE o # "ok"
  <2>1. Idle /\ UNCHANGED status /\ issued \subseteq issued' /\ status' \in CostStatus
    BY <1>7, <1>8, <1>9 DEF SettleRequest
  <2>2. answers' = << >>
    BY <2>1 DEF Idle
  <2>3. MoneyInv' /\ Outstanding' = {}
    BY <1>1, <1>2, <1>7, <2>1, IdleMoney
  <2>4. QED  BY <1>1, <1>3, <1>5, <1>6, <2>1, <2>2, <2>3 DEF a
<1>10. CASE o = "ok"
  <2> DEFINE refund == Maximum - a.cost
  <2>1. /\ pc' = "waiting" /\ Noted(FALSE)
        /\ status' = [chapter |-> status.chapter - refund, run |-> status.run - refund]
    BY <1>6, <1>10 DEF SettleRequest, a
  <2>2. /\ Outstanding' = Outstanding \ {a.request} /\ Places' /\ Distinct'
        /\ status' \in CostStatus => MoneyTypes'
    BY <1>1, <1>2, <1>7, <2>1, NotedMoney DEF a
  <2>3. /\ IsFiniteSet(Outstanding) /\ Outstanding \subseteq Request
        /\ \A x \in Outstanding : Hold[x] \in Nat
        /\ Hold[a.request] = Maximum
    BY <1>2, <1>4, <1>8, OutstandingFinite DEF MoneyInv, Hold
  <2>4. /\ SumFunctionOnSet(Hold, Outstanding)
             = Maximum + SumFunctionOnSet(Hold, Outstanding \ {a.request})
        /\ SumFunctionOnSet(Hold, Outstanding \ {a.request}) \in Nat
    BY <1>5, <2>3, SumTakes
  <2>5. /\ SumFunctionOnSet(Hold, Outstanding) <= status.chapter
        /\ SumFunctionOnSet(Hold, Outstanding) <= status.run
    BY DEF MoneyInv, StatusCovers
  <2>6. refund \in Nat /\ refund <= Maximum
    BY <1>4, <1>6, <1>8
  <2> HIDE DEF refund
  <2>7. /\ status'.chapter = status.chapter - refund /\ status'.run = status.run - refund
    BY <2>1
  <2>8. /\ SumFunctionOnSet(Hold, Outstanding \ {a.request}) <= status'.chapter
        /\ SumFunctionOnSet(Hold, Outstanding \ {a.request}) <= status'.run
        /\ status'.chapter \in Nat /\ status'.run \in Nat
    BY <1>8, <2>4, <2>5, <2>6, <2>7
  <2>9. status' \in CostStatus
    BY <2>1, <2>7, <2>8 DEF CostStatus
  <2>10. Hold' = Hold
    BY DEF Hold
  <2>11. StatusCovers'
    BY <2>2, <2>8, <2>10 DEF StatusCovers
  <2>12. HoldsOutstanding'
    <3>1. ledger' = Settled(ledger, a.request, a.cost)
      BY <1>1, <1>10 DEF Settle, Persist
    <3>2. Sound(ledger) /\ MaySettle(ledger, a.request, a.cost)
      BY <1>1 DEF MoneyInv, LedgerInv, Issued, Settle
    <3>3. Holding(ledger') = Holding(ledger)
      BY <1>4, <3>1, <3>2, SettleSound
    <3>4. \A x \in Request : x # a.request =>
            ledger'.reservations[x] = ledger.reservations[x]
      BY <3>1, <3>2 DEF Settled, Sound, WellFormed, LedgerState
    <3>5. Holding(ledger)' = Holding(ledger')
      BY DEF Holding
    <3>6. \A x \in Outstanding : /\ x \in Holding(ledger) /\ x \in Request
                                 /\ ledger.reservations[x].cost = Maximum
      BY <2>3 DEF MoneyInv, HoldsOutstanding
    <3>7. QED  BY <2>2, <3>3, <3>4, <3>5, <3>6 DEF HoldsOutstanding
  <2>13. MoneyInv'
    BY <1>7, <2>2, <2>9, <2>11, <2>12 DEF MoneyInv
  <2>14. answers' = Tail(answers)
    BY <2>1 DEF Noted
  <2>15. QED  BY <1>1, <1>3, <1>5, <1>6, <2>2, <2>7, <2>13, <2>14 DEF a, refund
<1>11. QED  BY <1>9, <1>10

LEMMA DeathMoney ==
  ASSUME SessionInv, MoneyInv, CheckpointTypes, Crash \/ PowerFails \/ Overtaken
  PROVE  /\ MoneyInv' /\ CheckpointTypes' /\ UNCHANGED <<sent, charged>>
         /\ Outstanding' = {} /\ answers' = << >>
<1>1. NewProcess /\ (Exit \/ PowerLoss)
  BY DEF Crash, PowerFails, Overtaken
<1>2. /\ Idle /\ UNCHANGED <<sent, charged>> /\ status' \in CostStatus /\ answers' = << >>
  BY <1>1 DEF NewProcess, CostStatus, Idle
<1>3. LedgerInv' /\ issued \subseteq issued' /\ CommandOK
  BY <1>1, ExitStep, PowerStep DEF MoneyInv, Exit, PowerLoss, SessionInv
<1>4. MoneyInv' /\ Outstanding' = {}
  BY <1>2, <1>3, IdleMoney
<1>5. CheckpointTypes'
  BY DEF CheckpointTypes, Crash, PowerFails, Overtaken
<1>6. QED  BY <1>2, <1>4, <1>5

\* Steps that leave the process, the ledger and the provider alone.
LEMMA RestMoney ==
  ASSUME SessionInv, MoneyInv, UNCHANGED <<ledgerVars, processVars, sent, charged>>
  PROVE  MoneyInv' /\ Outstanding' = Outstanding
<1>1. LedgerInv'
  BY LedgerSame DEF MoneyInv
<1>2. Places'
  BY DEF MoneyInv, Places, processVars, commandVars, InAnswers, Of
<1>3. status' \in CostStatus /\ cmd' \in Chapter \cup {None} /\ CommandOK
  BY DEF MoneyInv, MoneyTypes, SessionInv, processVars, commandVars
<1>4. QED  BY <1>1, <1>2, <1>3, SameOutstanding DEF ledgerVars, processVars, commandVars

\* Another process uses a new identifier and may send its request.
LEMMA OtherSendsMoney ==
  ASSUME SessionInv, MoneyInv, NEW r \in Request, NEW o, OtherSends(r, o)
  PROVE  /\ MoneyInv' /\ Outstanding' = Outstanding
         /\ r \notin sent \cup Outstanding /\ sent' \subseteq sent \cup {r}
<1>1. /\ UNCHANGED <<handle, ledger, durabilityUnknown, costFile, synced, torn, acked>>
      /\ UNCHANGED <<processVars, charged>>
      /\ r \notin issued /\ issued' = issued \cup {r}
      /\ sent' = IF o = "ok" THEN sent \cup {r} ELSE sent
  BY DEF OtherSends
<1>2. LedgerInv'
  BY <1>1 DEF MoneyInv, LedgerInv, FileInv, FileType, ReportedEventsSurvive, TornIsFrozen,
     PrefixesReplay, Replays, Issued, MemoryIsReplay
<1>3. UNCHANGED <<cmd, cur, batch, answers, pc, status>>
  BY <1>1 DEF processVars, commandVars
<1>4. Outstanding' = Outstanding /\ InAnswers' = InAnswers
  BY <1>3 DEF Outstanding, InAnswers, Of
<1>5. MoneyTypes'
  BY <1>1, <1>3, FS_AddElement DEF MoneyInv, MoneyTypes
<1>6. Places'
  BY <1>1, <1>3, <1>4 DEF MoneyInv, Places
<1>7. Distinct' /\ r \notin sent \cup Outstanding
  BY <1>1, <1>3, <1>4 DEF MoneyInv, Distinct, Apart
<1>8. HoldsOutstanding' /\ StatusCovers'
  BY <1>1, <1>3, <1>4, FewerOutstanding DEF MoneyInv, MoneyTypes, SessionInv
<1>9. QED  BY <1>1, <1>2, <1>4, <1>5, <1>6, <1>7, <1>8 DEF MoneyInv

LEMMA OthersMoney ==
  ASSUME SessionInv, MoneyInv, CheckpointTypes, OtherTypes, Others
  PROVE  MoneyInv' /\ CheckpointTypes'
<1>1. CASE OtherReads \/ OtherRefused \/ \E o \in AppendOutcome : OtherAppends(o)
  <2>1. UNCHANGED <<ledgerVars, processVars, sent, charged, checkpoint, fallback>>
    BY <1>1 DEF OtherReads, OtherRefused, OtherAppends, dirVars
  <2>2. QED  BY <2>1, RestMoney DEF CheckpointTypes
<1>2. CASE OtherOpens
  <2>1. /\ pc = "idle" /\ UNCHANGED <<commandVars, sent, charged, checkpoint, fallback>>
        /\ Open /\ status' = seen.status /\ seen # None
    BY <1>2 DEF OtherOpens, dirVars
  <2>2. status' \in CostStatus
    BY <2>1 DEF OtherTypes, Checkpoint
  <2>3. QED  BY <2>1, <2>2, OpeningMoney DEF CheckpointTypes
<1>3. CASE Overtaken
  BY <1>3, DeathMoney
<1>4. ASSUME NEW r \in Request, NEW o \in AppendOutcome, OtherSends(r, o)
      PROVE  MoneyInv' /\ CheckpointTypes'
  BY <1>4, OtherSendsMoney DEF OtherSends, CheckpointTypes
<1>5. QED  BY <1>1, <1>2, <1>3, <1>4 DEF Others

LEMMA InitMoney == Init => MoneyInv /\ CheckpointTypes
<1>1. SUFFICES ASSUME Init PROVE MoneyInv /\ CheckpointTypes
  OBVIOUS
<1>2. LedgerInv /\ issued = {}
  BY <1>1, InitLedger DEF Init, LedgerInit
<1>3. /\ pc = "idle" /\ cmd = None /\ cur = None /\ batch = {} /\ answers = << >>
      /\ status = [chapter |-> 0, run |-> 0] /\ sent = {}
      /\ charged = [r \in Request |-> 0] /\ checkpoint = None /\ fallback = None
  BY <1>1 DEF Init
<1>4. Outstanding = {} /\ InAnswers = {}
  BY <1>3, NothingOutstanding
<1>5. MoneyTypes
  BY <1>3, FS_EmptySet DEF MoneyTypes, CostStatus
<1>6. Places
  BY <1>3, <1>4 DEF Places
<1>7. Distinct
  BY <1>2, <1>3, <1>4 DEF Distinct, Apart
<1>8. HoldsOutstanding /\ StatusCovers
  BY <1>3, <1>4, SumOfNothing DEF HoldsOutstanding, StatusCovers
<1>9. QED  BY <1>2, <1>3, <1>5, <1>6, <1>7, <1>8 DEF MoneyInv, CheckpointTypes

\* Every step keeps the money covered.
LEMMA MoneyStep ==
  ASSUME SessionInv, MoneyInv, CheckpointTypes, OtherTypes, Next
  PROVE  MoneyInv' /\ CheckpointTypes'
<1>1. CASE CreateSession \/ Attach \/ AttachRefused \/ Resume
  BY <1>1, AttachingMoney
<1>2. CASE Command
  BY <1>2, CommandMoney
<1>3. CASE Requests
  <2>1. ASSUME NEW r \in Request, NEW o \in Outcome, ReserveRequest(r, o)
        PROVE  MoneyInv' /\ UNCHANGED <<checkpoint, fallback>>
    BY <2>1, ReservedMoney DEF ReserveRequest, dirVars
  <2>2. ReserveRefused \/ EndBatch
          => (MoneyInv' /\ UNCHANGED <<checkpoint, fallback>>)
    BY QuietMoney DEF ReserveRefused, EndBatch, dirVars
  <2>3. ASSUME NEW o \in AppendOutcome, StartRequest(o)
        PROVE  MoneyInv' /\ UNCHANGED <<checkpoint, fallback>>
    BY <2>3, StartedMoney DEF StartRequest
  <2>4. Send => MoneyInv' /\ UNCHANGED <<checkpoint, fallback>>
    BY SentMoney DEF Send, dirVars
  <2>5. ASSUME NEW r \in Request, Answered(r)
        PROVE  MoneyInv' /\ UNCHANGED <<checkpoint, fallback>>
    BY <2>5, AnsweredMoney DEF Answered, dirVars
  <2>6. MoneyInv' /\ UNCHANGED <<checkpoint, fallback>>
    BY <1>3, <2>1, <2>2, <2>3, <2>4, <2>5 DEF Requests
  <2>7. QED  BY <2>6 DEF CheckpointTypes
<1>4. CASE Records
  <2>1. ASSUME NEW o \in Outcome, SettleRequest(o)
        PROVE  MoneyInv' /\ UNCHANGED <<checkpoint, fallback>>
    BY <2>1, SettledMoney DEF SettleRequest, dirVars
  <2>2. SettleRefused => MoneyInv' /\ UNCHANGED <<checkpoint, fallback>>
    BY QuietMoney DEF SettleRefused, dirVars
  <2>3. ASSUME NEW o \in AppendOutcome,
               NoteUsage(o) \/ NoteUnmetered(o) \/ NoteAmbiguous(o) \/ NoteStopped
        PROVE  MoneyInv' /\ UNCHANGED <<checkpoint, fallback>>
    BY <2>3, UnreleasedMoney DEF NoteUsage, NoteUnmetered, NoteAmbiguous, NoteStopped, dirVars
  <2>4. "ok" \in AppendOutcome
    BY DEF AppendOutcome
  <2>5. MoneyInv' /\ UNCHANGED <<checkpoint, fallback>>
    BY <1>4, <2>1, <2>2, <2>3, <2>4 DEF Records
  <2>6. QED  BY <2>5 DEF CheckpointTypes
<1>5. CASE Crash \/ PowerFails
  BY <1>5, DeathMoney
<1>6. CASE Others
  BY <1>6, OthersMoney
<1>7. QED  BY <1>1, <1>2, <1>3, <1>4, <1>5, <1>6 DEF Next

-----------------------------------------------------------------------------
(***************************************************************************)
(* A command that has reported success leaves nothing for a power loss to  *)
(* choose: every line is durable, and the checkpoint and what may replace  *)
(* it name the last one.                                                   *)
(***************************************************************************)
Concluded ==
  /\ pc = "idle"
  /\ kept = Len(lines)
  /\ Readable
  /\ checkpoint # None
  /\ fallback = checkpoint
  /\ checkpoint.anchor = Anchor(lines)

FinishedInv == finished => Concluded

\* A ledger on which no append has failed in the middle is whole and durable.
FrozenInv == ~frozen => ~durabilityUnknown /\ ~torn /\ synced = Len(costFile)

\* Only a checkpoint finishes a command.
LEMMA FinishedByCheckpoint ==
  ASSUME Next, ~finished, finished'
  PROVE  \E o \in CheckpointOutcome : WriteCheckpoint(o)
<1>1. CASE CreateSession \/ Attach \/ AttachRefused \/ Resume
  BY <1>1 DEF CreateSession, Attach, AttachRefused, Resume, historyVars
<1>2. CASE Command
  BY <1>2 DEF Command, Begin, Conclude, Abandon, historyVars
<1>3. CASE Requests
  BY <1>3 DEF Requests, ReserveRequest, ReserveRefused, StartRequest, Send, Answered,
     EndBatch, historyVars
<1>4. CASE Records
  BY <1>4 DEF Records, NoteUsage, SettleRequest, SettleRefused, NoteUnmetered,
     NoteAmbiguous, NoteStopped, historyVars
<1>5. CASE Crash \/ PowerFails
  BY <1>5 DEF Crash, PowerFails, NewProcess
<1>6. CASE Others
  BY <1>6 DEF Others, OtherReads, OtherRefused, OtherOpens, Overtaken, NewProcess,
     OtherAppends, OtherSends
<1>7. QED  BY <1>1, <1>2, <1>3, <1>4, <1>5, <1>6 DEF Next

LEMMA CheckpointConcludes ==
  ASSUME SessionInv, MoneyInv, CheckpointTypes, ~finished,
         NEW o \in CheckpointOutcome, WriteCheckpoint(o), finished'
  PROVE  Concluded'
<1> DEFINE new == [anchor |-> last, status |-> status]
<1>1. /\ pc # "idle" /\ anchored /\ Repair /\ Idle
      /\ Readable /\ last = Anchor(lines) /\ o = "ok"
      /\ checkpoint' = new /\ fallback' = new
  BY DEF WriteCheckpoint, Between, SyncDirectory, CheckpointOutcome
<1>2. FilesOK /\ Anchored /\ lines # << >> /\ kept = Len(lines)
  <2>1. FilesOK /\ Anchored /\ last[1] \in 1..kept
    BY <1>1 DEF SessionInv, Running
  <2>2. lines \in Seq(Line) /\ kept \in 0..Len(lines) /\ Len(lines) \in Nat
    BY <2>1 DEF FilesOK
  <2>3. lines # << >>
    BY <2>1, <2>2
  <2>4. last[1] = Len(lines)
    BY <1>1, <2>3 DEF Anchor
  <2>5. QED  BY <2>1, <2>2, <2>3, <2>4
<1>3. lines' = lines /\ kept' = kept /\ pc' = "idle"
  BY <1>1, <1>2, RepairStep DEF Idle
<1>4. new \in Checkpoint
  <2>1. lines \in Seq(Line) /\ lines # << >> /\ Len(lines) \in Nat
    BY <1>2 DEF FilesOK
  <2>2. Last(lines) \in Line
    BY <1>2, <2>1 DEF Last
  <2>3. Anchor(lines) \in Nat \X Line
    BY <2>1, <2>2 DEF Anchor
  <2>4. QED  BY <1>1, <2>3 DEF Checkpoint, MoneyInv, MoneyTypes
<1>5. new.anchor = Anchor(lines)
  BY <1>1
<1> HIDE DEF new
<1>6. checkpoint' # None
  BY <1>1, <1>4, NoCheckpointAssumption
<1>7. Readable' /\ Anchor(lines)' = Anchor(lines)
  BY <1>1, <1>3 DEF Readable, Anchor
<1>8. QED  BY <1>1, <1>2, <1>3, <1>5, <1>6, <1>7 DEF Concluded

LEMMA ConcludedStays ==
  ASSUME Concluded, pc' = "idle", lines' = lines, kept' = kept,
         checkpoint' = checkpoint, fallback' = fallback
  PROVE  Concluded'
BY DEF Concluded, Readable, Anchor

LEMMA FinishedStep ==
  ASSUME SessionInv, MoneyInv, CheckpointTypes, FinishedInv, Next
  PROVE  FinishedInv'
<1>1. SUFFICES ASSUME finished' PROVE Concluded'
  BY DEF FinishedInv
<1>2. CASE ~finished
  BY <1>1, <1>2, FinishedByCheckpoint, CheckpointConcludes
<1>3. CASE finished
  <2>1. Concluded /\ pc = "idle" /\ FilesOK /\ Anchored /\ kept = Len(lines)
    BY <1>3 DEF FinishedInv, Concluded, SessionInv
  <2>2. CASE CreateSession
    BY <2>1, <2>2, ConcludedStays DEF CreateSession, fileVars, commandVars
  <2>3. CASE Attach \/ AttachRefused \/ Resume
    <3>1. /\ Repair /\ pc' = pc /\ checkpoint' = checkpoint /\ fallback' = fallback
      BY <2>3 DEF Attach, AttachRefused, Resume, processVars, commandVars
    <3>2. lines' = lines /\ kept' = kept
      BY <2>1, <3>1, RepairStep
    <3>3. QED  BY <2>1, <3>1, <3>2, ConcludedStays
  <2>4. ~Command
    BY <1>1, <2>1 DEF Command, Begin, Conclude, WriteCheckpoint, Abandon, Between
  <2>5. ~Requests
    <3>1. batch = {}
      BY <2>1 DEF SessionInv, CommandOK
    <3>2. QED  BY <2>1, <3>1 DEF Requests, ReserveRequest, ReserveRefused, StartRequest,
                                 Send, Answered, EndBatch
  <2>6. ~Records
    BY <2>1 DEF Records, NoteUsage, SettleRequest, SettleRefused, NoteUnmetered,
       NoteAmbiguous, NoteStopped, Noting
  <2>7. CASE Crash
    BY <2>1, <2>7, ConcludedStays DEF Crash, fileVars, NewProcess, Idle
  <2>8. CASE PowerFails
    <3>1. PICK n \in kept..Len(lines) : lines' = SubSeq(lines, 1, n)
      BY <2>8 DEF PowerFails
    <3>2. lines \in Seq(Line) /\ n = Len(lines)
      BY <2>1, <3>1 DEF FilesOK
    <3>3. lines' = lines
      BY <3>1, <3>2, WholePrefix
    <3>4. /\ kept' = kept /\ checkpoint' = checkpoint /\ fallback' = fallback /\ pc' = "idle"
      BY <2>1, <2>8 DEF PowerFails, Concluded, NewProcess, Idle
    <3>5. QED  BY <2>1, <3>3, <3>4, ConcludedStays
  <2>9. CASE OtherReads
    <3>1. /\ Repair /\ pc' = pc /\ checkpoint' = checkpoint /\ fallback' = fallback
      BY <2>9 DEF OtherReads, processVars, commandVars
    <3>2. lines' = lines /\ kept' = kept
      BY <2>1, <3>1, RepairStep
    <3>3. QED  BY <2>1, <3>1, <3>2, ConcludedStays
  <2>10. CASE OtherRefused \/ OtherOpens \/ Overtaken
    <3>1. UNCHANGED <<lines, kept, checkpoint, fallback>> /\ pc' = "idle"
      BY <2>1, <2>10 DEF OtherRefused, OtherOpens, Overtaken, dirVars, fileVars, processVars,
         commandVars, NewProcess, Idle
    <3>2. QED  BY <2>1, <3>1, ConcludedStays
  <2>11. ~\E r, o : OtherAppends(o) \/ OtherSends(r, o)
    BY <1>1 DEF OtherAppends, OtherSends
  <2>12. CASE Others
    BY <2>9, <2>10, <2>11, <2>12 DEF Others
  <2>13. QED  BY <2>2, <2>3, <2>4, <2>5, <2>6, <2>7, <2>8, <2>12 DEF Next
<1>4. QED  BY <1>2, <1>3

\* An append to the ledger fails before it, or freezes the ledger.
LEMMA PersistFrozen ==
  ASSUME LedgerInv, FrozenInv, NEW e, NEW o, NEW after, NEW undone,
         Persist(e, o, after, undone), frozen' = (frozen \/ durabilityUnknown')
  PROVE  FrozenInv'
BY DEF Persist, Freeze, Write, Sync, FrozenInv

LEMMA FrozenSame ==
  ASSUME FrozenInv, UNCHANGED <<durabilityUnknown, torn, costFile, synced, frozen>>
  PROVE  FrozenInv'
BY DEF FrozenInv

\* A ledger that is durable loses nothing.
LEMMA FrozenRestart ==
  ASSUME LedgerInv, FrozenInv, Open \/ Exit \/ PowerLoss, frozen' = frozen
  PROVE  FrozenInv'
<1>1. CASE Open \/ Exit
  BY <1>1 DEF Open, Exit, FrozenInv
<1>2. CASE PowerLoss
  <2>1. SUFFICES ASSUME ~frozen
                 PROVE  ~durabilityUnknown' /\ ~torn' /\ synced' = Len(costFile')
    BY DEF FrozenInv
  <2>2. ~torn /\ synced = Len(costFile) /\ ~durabilityUnknown' /\ synced' = synced
    BY <1>2, <2>1 DEF FrozenInv, PowerLoss
  <2>3. costFile \in Seq(Event) /\ Len(costFile) \in Nat
    BY DEF LedgerInv, FileInv, FileType
  <2>4. PICK n \in synced..Len(costFile) :
          /\ costFile' = SubSeq(costFile, 1, n)
          /\ torn' \in IF "torn" \in LedgerFaults /\ (n < Len(costFile) \/ torn)
                       THEN BOOLEAN ELSE {FALSE}
    BY <1>2 DEF PowerLoss
  <2>5. n = Len(costFile) /\ ~(n < Len(costFile))
    BY <2>2, <2>3
  <2>6. costFile' = costFile
    BY <2>3, <2>4, <2>5, WholePrefix
  <2>7. ~torn'
    BY <2>2, <2>4, <2>5
  <2>8. QED  BY <2>2, <2>6, <2>7
<1>3. QED  BY <1>1, <1>2

LEMMA FrozenStep ==
  ASSUME MoneyInv, FrozenInv, Next
  PROVE  FrozenInv'
<1> USE DEF MoneyInv
<1>1. CASE UNCHANGED <<ledgerVars, frozen>>
  BY <1>1, FrozenSame DEF ledgerVars
<1>2. CASE CreateSession \/ Attach \/ AttachRefused \/ Resume
  <2>1. frozen' = frozen /\ (Open \/ UNCHANGED ledgerVars)
    BY <1>2 DEF CreateSession, Attach, AttachRefused, Resume, historyVars, otherVars
  <2>2. QED  BY <1>1, <2>1, FrozenRestart
<1>3. CASE Command
  BY <1>1, <1>3 DEF Command, Begin, Conclude, WriteCheckpoint, Abandon, historyVars, otherVars
<1>4. ASSUME NEW r \in Request, NEW o \in Outcome, ReserveRequest(r, o)
      PROVE  FrozenInv'
  BY <1>4, PersistFrozen DEF ReserveRequest, Reserve
<1>5. ASSUME NEW o \in Outcome, SettleRequest(o)
      PROVE  FrozenInv'
  BY <1>5, PersistFrozen DEF SettleRequest, Settle
<1>6. CASE Requests
  BY <1>1, <1>4, <1>6 DEF Requests, ReserveRefused, StartRequest, Send, Answered, EndBatch,
     historyVars, otherVars
<1>7. CASE Records
  BY <1>1, <1>5, <1>7 DEF Records, NoteUsage, SettleRefused, NoteUnmetered, NoteAmbiguous,
     NoteStopped, historyVars, otherVars
<1>8. CASE Crash \/ PowerFails \/ OtherOpens \/ Overtaken
  <2>1. frozen' = frozen /\ (Open \/ Exit \/ PowerLoss)
    BY <1>8 DEF Crash, PowerFails, NewProcess, OtherOpens, Overtaken
  <2>2. QED  BY <2>1, FrozenRestart
<1>9. CASE OtherReads \/ OtherRefused \/ \E o \in AppendOutcome : OtherAppends(o)
  BY <1>1, <1>9 DEF OtherReads, OtherRefused, OtherAppends, otherVars
<1>10. ASSUME NEW r \in Request, NEW o \in AppendOutcome, OtherSends(r, o)
       PROVE  FrozenInv'
  BY <1>10, FrozenSame DEF OtherSends
<1>11. QED  BY <1>2, <1>3, <1>6, <1>7, <1>8, <1>9, <1>10 DEF Next, Others

-----------------------------------------------------------------------------
(***************************************************************************)
(* The types.                                                              *)
(***************************************************************************)
Flags ==
  /\ {created, partial, session, anchored, failed, finished} \subseteq BOOLEAN
  /\ orphaned \in SUBSET Request

LEMMA AppendFlag ==
  ASSUME Flags, NEW kind, NEW r, NEW o, AppendLine(kind, r, o)
  PROVE  partial' \in BOOLEAN
BY DEF Flags, AppendLine, AppendTo, fileVars

LEMMA RepairFlag ==
  ASSUME Flags, Repair
  PROVE  partial' \in BOOLEAN
BY DEF Flags, Repair, fileVars

LEMMA IdleFlag ==
  ASSUME Idle
  PROVE  failed' \in BOOLEAN
BY DEF Idle

LEMMA FlagsStep ==
  ASSUME Flags, MoneyInv, Next
  PROVE  Flags'
<1>1. CASE CreateSession \/ Attach \/ AttachRefused \/ Resume
  <2>1. partial' \in BOOLEAN
    BY <1>1, RepairFlag DEF CreateSession, Attach, AttachRefused, Resume, fileVars, Flags
  <2>2. QED  BY <1>1, <2>1 DEF CreateSession, Attach, AttachRefused, Resume, Flags,
             historyVars, processVars, commandVars
<1>2. CASE Command
  <2>1. ASSUME NEW c, NEW o, Begin(c, o) PROVE Flags'
    <3>1. partial' \in BOOLEAN
      BY <2>1, AppendFlag DEF Begin
    <3>2. QED  BY <2>1, <3>1 DEF Begin, Flags, commandVars
  <2>2. ASSUME NEW o, Conclude(o) PROVE Flags'
    <3>1. partial' \in BOOLEAN
      BY <2>2, AppendFlag DEF Conclude
    <3>2. QED  BY <2>2, <3>1, IdleFlag DEF Conclude, Flags, historyVars
  <2>3. ASSUME NEW o, WriteCheckpoint(o) PROVE Flags'
    <3>1. partial' \in BOOLEAN
      BY <2>3, RepairFlag DEF WriteCheckpoint, fileVars, Flags
    <3>2. finished' \in BOOLEAN
      BY <2>3 DEF WriteCheckpoint, Flags
    <3>3. QED  BY <2>3, <3>1, <3>2, IdleFlag DEF WriteCheckpoint, Flags
  <2>4. CASE Abandon
    BY <2>4, IdleFlag DEF Abandon, dirVars, historyVars, Flags
  <2>5. QED  BY <1>2, <2>1, <2>2, <2>3, <2>4 DEF Command
<1>3. CASE Requests
  <2>1. ASSUME NEW o, StartRequest(o) PROVE Flags'
    <3>1. partial' \in BOOLEAN
      BY <2>1, AppendFlag DEF StartRequest
    <3>2. QED  BY <2>1, <3>1, IdleFlag DEF StartRequest, Flags, historyVars
  <2>2. CASE \E o : StartRequest(o)
    BY <2>1, <2>2
  <2>3. CASE /\ UNCHANGED <<dirVars, session, anchored, orphaned, finished>>
             /\ Idle \/ UNCHANGED failed
    BY <2>3, IdleFlag DEF dirVars, Flags
  <2>4. QED  BY <1>3, <2>2, <2>3 DEF Requests, ReserveRequest, ReserveRefused, Send,
             Answered, EndBatch, historyVars
<1>4. CASE Records
  <2>1. ASSUME NEW fails \in BOOLEAN, Noted(fails) PROVE failed' \in BOOLEAN
    BY <2>1 DEF Noted, Flags
  <2>2. ASSUME NEW o, NoteUsage(o) PROVE Flags'
    <3>1. partial' \in BOOLEAN
      BY <2>2, AppendFlag DEF NoteUsage
    <3>2. QED  BY <2>2, <3>1, IdleFlag DEF NoteUsage, Flags, historyVars
  <2>3. ASSUME NEW o, NoteUnmetered(o) PROVE Flags'
    <3>1. partial' \in BOOLEAN
      BY <2>3, AppendFlag DEF NoteUnmetered
    <3>2. QED  BY <2>3, <3>1, IdleFlag DEF NoteUnmetered, Flags, historyVars
  <2>4. ASSUME NEW o, NoteAmbiguous(o) PROVE Flags'
    <3>1. partial' \in BOOLEAN
      BY <2>4, AppendFlag DEF NoteAmbiguous
    <3>2. failed' \in BOOLEAN
      BY <2>1, <2>4, IdleFlag DEF NoteAmbiguous
    <3>3. QED  BY <2>4, <3>1, <3>2 DEF NoteAmbiguous, Flags, historyVars
  <2>5. ASSUME NEW o, SettleRequest(o) PROVE Flags'
    <3>1. failed' \in BOOLEAN
      BY <2>1, <2>5, IdleFlag DEF SettleRequest
    <3>2. QED  BY <2>5, <3>1 DEF SettleRequest, dirVars, Flags
  <2>6. CASE SettleRefused
    BY <2>6, IdleFlag DEF SettleRefused, dirVars, historyVars, Flags
  <2>7. CASE NoteStopped
    BY <2>1, <2>7 DEF NoteStopped, dirVars, historyVars, Flags
  <2>8. QED  BY <1>4, <2>2, <2>3, <2>4, <2>5, <2>6, <2>7 DEF Records
<1>5. CASE Crash \/ PowerFails \/ Overtaken
  <2>1. /\ ~session' /\ ~anchored' /\ Idle /\ UNCHANGED <<created, finished>>
        /\ session' \in BOOLEAN /\ anchored' \in BOOLEAN
        /\ orphaned' \subseteq orphaned \cup sent
    BY <1>5 DEF Crash, PowerFails, Overtaken, NewProcess, InFlight
  <2>2. partial' \in BOOLEAN
    BY <1>5 DEF Crash, PowerFails, Overtaken, fileVars, Flags
  <2>3. sent \subseteq Request
    BY DEF MoneyInv, MoneyTypes
  <2>4. QED  BY <2>1, <2>2, <2>3, IdleFlag DEF Flags
<1>6. CASE Others
  <2>1. ASSUME NEW line, NEW o, AppendTo(line, o)
        PROVE  partial' \in BOOLEAN
    BY <2>1 DEF Flags, AppendTo, fileVars
  <2>2. CASE OtherReads \/ OtherRefused
    <3>1. partial' \in BOOLEAN
      BY <2>2, RepairFlag DEF OtherReads, OtherRefused, dirVars, Flags
    <3>2. UNCHANGED <<created, session, anchored, failed, orphaned, finished>>
      BY <2>2 DEF OtherReads, OtherRefused, dirVars, processVars, commandVars
    <3>3. QED  BY <3>1, <3>2 DEF Flags
  <2>3. CASE OtherOpens
    BY <2>3 DEF OtherOpens, dirVars, commandVars, Flags
  <2>4. CASE \E r, o : OtherAppends(o) \/ OtherSends(r, o)
    <3>1. partial' \in BOOLEAN
      BY <2>1, <2>4 DEF OtherAppends, OtherSends
    <3>2. /\ UNCHANGED <<created, session, anchored, failed, orphaned>>
          /\ finished' \in BOOLEAN
      BY <2>4 DEF OtherAppends, OtherSends, processVars, commandVars
    <3>3. QED  BY <3>1, <3>2 DEF Flags
  <2>5. QED  BY <1>5, <1>6, <2>2, <2>3, <2>4 DEF Others
<1>7. QED  BY <1>1, <1>2, <1>3, <1>4, <1>5, <1>6 DEF Next

LEMMA OtherTypesStep ==
  ASSUME OtherTypes, CheckpointTypes, Next
  PROVE  OtherTypes'
<1>1. CASE UNCHANGED otherVars
  BY <1>1 DEF otherVars, OtherTypes
<1>2. CASE CreateSession \/ Attach \/ AttachRefused \/ Resume
  BY <1>1, <1>2 DEF CreateSession, Attach, AttachRefused, Resume, historyVars
<1>3. CASE Command
  BY <1>1, <1>3 DEF Command, Begin, Conclude, WriteCheckpoint, Abandon, historyVars
<1>4. ASSUME NEW r \in Request, NEW o \in Outcome, ReserveRequest(r, o)
      PROVE  OtherTypes'
  BY <1>4 DEF ReserveRequest, OtherTypes
<1>5. CASE Requests
  BY <1>1, <1>4, <1>5 DEF Requests, ReserveRefused, StartRequest, Send, Answered, EndBatch,
     historyVars
<1>6. ASSUME NEW o \in Outcome, SettleRequest(o)
      PROVE  OtherTypes'
  BY <1>6 DEF SettleRequest, OtherTypes
<1>7. CASE Records
  BY <1>1, <1>6, <1>7 DEF Records, NoteUsage, SettleRefused, NoteUnmetered, NoteAmbiguous,
     NoteStopped, historyVars
<1>8. CASE Crash \/ PowerFails \/ Overtaken
  BY <1>8 DEF Crash, PowerFails, Overtaken, NewProcess, OtherTypes
<1>9. CASE OtherReads \/ OtherRefused \/ OtherOpens \/ \E o \in AppendOutcome : OtherAppends(o)
  BY <1>9 DEF OtherReads, OtherRefused, OtherOpens, OtherAppends, otherVars, OtherTypes,
     CheckpointTypes
<1>10. ASSUME NEW r \in Request, NEW o \in AppendOutcome, OtherSends(r, o)
       PROVE  OtherTypes'
  BY <1>10 DEF OtherSends, OtherTypes
<1>11. QED  BY <1>2, <1>3, <1>5, <1>7, <1>8, <1>9, <1>10 DEF Next, Others

LEMMA InvTypes ==
  ASSUME SessionInv, MoneyInv, CheckpointTypes, Flags, OtherTypes
  PROVE  TypeOK
<1>1. LedgerTypeOK
  BY LedgerConsequences DEF MoneyInv
<1>2. QED  BY <1>1 DEF TypeOK, SessionInv, FilesOK, CommandOK, MoneyInv, MoneyTypes,
           CheckpointTypes, Flags, OtherTypes

DirectoryInv ==
  /\ SessionInv /\ MoneyInv /\ FinishedInv /\ FrozenInv
  /\ CheckpointTypes /\ Flags /\ OtherTypes

LEMMA InitDirectory == Init => DirectoryInv
<1>1. SUFFICES ASSUME Init PROVE DirectoryInv
  OBVIOUS
<1>2. Flags /\ OtherTypes /\ FinishedInv /\ FrozenInv
  BY <1>1 DEF Init, LedgerInit, Flags, OtherTypes, FinishedInv, FrozenInv
<1>3. QED  BY <1>1, <1>2, InitSession, InitMoney DEF DirectoryInv

LEMMA DirectoryStep == DirectoryInv /\ [Next]_vars => DirectoryInv'
<1>1. SUFFICES ASSUME DirectoryInv, [Next]_vars PROVE DirectoryInv'
  OBVIOUS
<1>2. /\ SessionInv /\ MoneyInv /\ FinishedInv /\ FrozenInv
      /\ CheckpointTypes /\ Flags /\ OtherTypes
  BY <1>1 DEF DirectoryInv
<1>3. SessionInv'
  BY <1>1, <1>2, SessionStep
<1>4. CASE Next
  BY <1>2, <1>3, <1>4, MoneyStep, FinishedStep, FrozenStep, FlagsStep, OtherTypesStep
  DEF DirectoryInv
<1>5. CASE UNCHANGED vars
  <2>1. UNCHANGED <<ledgerVars, dirVars, processVars, historyVars>>
    BY <1>5 DEF vars
  <2>2. MoneyInv'
    BY <1>2, <2>1, RestMoney DEF historyVars
  <2>3. FinishedInv' /\ Flags' /\ CheckpointTypes'
    BY <1>2, <2>1 DEF dirVars, processVars, commandVars, historyVars, FinishedInv,
       Concluded, Readable, Anchor, Flags, CheckpointTypes
  <2>4. FrozenInv' /\ OtherTypes'
    BY <1>2, <2>1, FrozenSame DEF ledgerVars, historyVars, otherVars, OtherTypes
  <2>5. QED  BY <1>3, <2>2, <2>3, <2>4 DEF DirectoryInv
<1>6. QED  BY <1>1, <1>4, <1>5

\* Every variable has its type; above all, the costs shown never go below
\* zero though each refund is taken off them (settle_request).
THEOREM SessionTypes == Spec => []TypeOK
<1>1. DirectoryInv => TypeOK
  BY InvTypes DEF DirectoryInv
<1>2. QED  BY InitDirectory, DirectoryStep, <1>1, PTL DEF Spec

\* A command that has reported success leaves a session, and unless an append
\* to the ledger has failed in the middle a ledger, that the next process can
\* attach to, whatever happens to this one or to the power
\* (write_checkpoint_inner, persist).
THEOREM FinishedAttaches == Spec => []FinishedIsResumable
<1>1. DirectoryInv => FinishedIsResumable
  <2>1. SUFFICES ASSUME DirectoryInv, finished
                 PROVE  /\ \A c \in {checkpoint, fallback}, n \in kept..Len(lines) :
                             LET survivor == SubSeq(lines, 1, n)
                             IN /\ \A i \in DOMAIN survivor : survivor[i].kind # "garbled"
                                /\ c # None
                                /\ c.anchor = Anchor(survivor)
                        /\ ~frozen => ~torn /\ synced = Len(costFile) /\ Replay(costFile).ok
    BY DEF FinishedIsResumable
  <2>2. Concluded /\ lines \in Seq(Line) /\ Len(lines) \in Nat
    BY <2>1 DEF DirectoryInv, FinishedInv, SessionInv, FilesOK
  <2>3. ASSUME NEW c \in {checkpoint, fallback}, NEW n \in kept..Len(lines)
        PROVE  LET survivor == SubSeq(lines, 1, n)
               IN /\ \A i \in DOMAIN survivor : survivor[i].kind # "garbled"
                  /\ c # None
                  /\ c.anchor = Anchor(survivor)
    <3>1. n = Len(lines)
      BY <2>2 DEF Concluded
    <3>2. SubSeq(lines, 1, n) = lines
      BY <2>2, <3>1, WholePrefix
    <3>3. QED  BY <2>2, <3>2 DEF Concluded, Readable
  <2>4. Replay(costFile).ok
    BY <2>1, CurrentSurvives, SurvivorsReplay DEF DirectoryInv, MoneyInv
  <2>5. QED  BY <2>1, <2>3, <2>4 DEF DirectoryInv, FrozenInv
<1>2. QED  BY InitDirectory, DirectoryStep, <1>1, PTL DEF Spec

\* With a lost request no command runs, and what another process sends is held
\* on no file.
LEMMA SendStep ==
  DirectoryInv /\ [Next]_vars
    => [orphaned # {} /\ ~late => sent' \ unheld' = sent \ unheld]_vars
<1>1. SUFFICES ASSUME DirectoryInv, Next, orphaned # {}, ~late
               PROVE  sent' \ unheld' = sent \ unheld
  OBVIOUS
<1>2. pc = "idle" /\ SessionInv /\ MoneyInv
  BY <1>1 DEF DirectoryInv, SessionInv, Running, Lost
<1>3. CASE CreateSession \/ Attach \/ AttachRefused \/ Resume
  BY <1>3 DEF CreateSession, Attach, AttachRefused, Resume, historyVars, otherVars
<1>4. CASE Command
  BY <1>4 DEF Command, Begin, Conclude, WriteCheckpoint, Abandon, historyVars, otherVars
<1>5. CASE Requests
  BY <1>2, <1>5 DEF Requests, ReserveRequest, ReserveRefused, StartRequest, Send, Answered,
     EndBatch, historyVars, otherVars
<1>6. CASE Records
  BY <1>6 DEF Records, NoteUsage, SettleRequest, SettleRefused, NoteUnmetered,
     NoteAmbiguous, NoteStopped, historyVars, otherVars
<1>7. CASE Crash \/ PowerFails \/ Overtaken
  BY <1>7 DEF Crash, PowerFails, Overtaken, NewProcess
<1>8. CASE OtherReads \/ OtherRefused \/ OtherOpens \/ \E o \in AppendOutcome : OtherAppends(o)
  BY <1>8 DEF OtherReads, OtherRefused, OtherOpens, OtherAppends, otherVars
<1>9. ASSUME NEW r \in Request, NEW o \in AppendOutcome, OtherSends(r, o)
      PROVE  sent' \ unheld' = sent \ unheld
  <2>1. r \notin sent
    BY <1>2, <1>9, OtherSendsMoney
  <2>2. unheld' = unheld \cup {r} /\ sent' = IF o = "ok" THEN sent \cup {r} ELSE sent
    BY <1>9 DEF OtherSends
  <2>3. QED  BY <2>1, <2>2
<1>10. QED  BY <1>1, <1>3, <1>4, <1>5, <1>6, <1>7, <1>8, <1>9 DEF Next, Others

\* Once a process has died with a request in flight, no process that has the
\* ledger sends another, though others may send and note what they like: no
\* checkpoint names the line that noted its start (read_checkpoint), unless it
\* was read before.
THEOREM LostRequestIsFinal == Spec => LostRequestStopsSending
<1>1. DirectoryInv /\ [Next]_vars
        => [orphaned # {} /\ ~late => sent' \ unheld' = sent \ unheld]_vars
  BY SendStep
<1>2. QED  BY InitDirectory, DirectoryStep, <1>1, PTL DEF Spec, LostRequestStopsSending

-----------------------------------------------------------------------------
(***************************************************************************)
(* Every surviving prefix of the ledger, and the status, cover what was    *)
(* charged, up to the maximum, and the maximum of what is in flight.  What *)
(* a process has sent that did not get the ledger is on no file.           *)
(***************************************************************************)
Booked == sent \ unheld
Due == (sent \cup Outstanding) \ unheld
Owed == [r \in Request |-> IF r \in Outstanding THEN Maximum ELSE CappedCharge[r]]

Covers(l, D, f) == \A r \in D : r \in Holding(l) /\ f[r] <= l.reservations[r].cost

Usable ==
  /\ anchored => session
  /\ anchored <=> handle = "file"
  /\ handle = "file" => Outstanding \cap unheld = {}
  /\ handle = "memory" => Outstanding \subseteq unheld

Unheld == unheld \subseteq issued

NoneSent == ~created => Booked = {}

ChargesKnown == \A i \in DOMAIN answers : answers[i].cost = charged[answers[i].request]

SurvivorsCover == \A log \in Survivors : Covers(Replay(log).ledger, Due, Owed)

StatusCoversCharges == anchored /\ ~late => SumFunctionOnSet(Owed, Due) <= status.run

CheckpointsCover ==
  ~late => \A c \in {checkpoint, fallback} :
             Behind(c) \/ SumFunctionOnSet(CappedCharge, Booked) <= c.status.run

Whole == /\ Usable /\ Unheld /\ NoneSent /\ ChargesKnown
         /\ SurvivorsCover /\ StatusCoversCharges /\ CheckpointsCover

LEMMA Capped ==
  ASSUME MoneyInv
  PROVE  \A r \in Request : /\ CappedCharge[r] \in Nat /\ CappedCharge[r] <= Maximum
                            /\ charged[r] \in Nat
                            /\ charged[r] <= Maximum => CappedCharge[r] = charged[r]
<1>1. charged \in [Request -> Nat] /\ Maximum \in Nat
  BY CostAssumption DEF MoneyInv, MoneyTypes
<1>2. QED  BY <1>1 DEF CappedCharge

LEMMA DueFinite ==
  ASSUME MoneyInv, CommandOK
  PROVE  /\ IsFiniteSet(Due) /\ Due \in SUBSET Request /\ Due \subseteq issued
         /\ \A r \in Request : Owed[r] \in Nat /\ CappedCharge[r] \in Nat
         /\ \A r \in Request \ Outstanding : Owed[r] = CappedCharge[r]
         /\ \A r \in Outstanding : Owed[r] = Maximum
<1>1. IsFiniteSet(Outstanding) /\ Outstanding \subseteq Request
  BY OutstandingFinite DEF MoneyInv
<1>2. IsFiniteSet(sent) /\ sent \subseteq Request
  BY DEF MoneyInv, MoneyTypes
<1>3. IsFiniteSet(sent \cup Outstanding)
  BY <1>1, <1>2, FS_Union
<1>4. IsFiniteSet(Due) /\ Due \in SUBSET Request
  BY <1>1, <1>2, <1>3, FS_Subset DEF Due
<1>5. Due \subseteq issued
  BY DEF MoneyInv, Distinct, Due
<1>6. QED  BY <1>1, <1>4, <1>5, Capped, CostAssumption DEF Owed

\* A ledger that covers some requests covers a part of them, and less.
LEMMA CoversLess ==
  ASSUME NEW l, WellFormed(l), NEW D \in SUBSET Request, NEW E \in SUBSET D,
         NEW f, NEW g, \A x \in E : f[x] \in Nat /\ g[x] \in Nat /\ g[x] <= f[x],
         Covers(l, D, f)
  PROVE  Covers(l, E, g)
<1>1. \A x \in Holding(l) : l.reservations[x].cost \in Nat
  BY CostsAreNat
<1>2. QED  BY <1>1 DEF Covers

\* A new hold leaves what is covered covered, and covers its request.
LEMMA HoldCovers ==
  ASSUME NEW l, Sound(l), NEW r \in Request, r \notin Holding(l), NEW c \in Chapter,
         NEW maximum \in Nat, WithinCaps(l, c, maximum),
         NEW D \in SUBSET Request, NEW f, Covers(l, D, f)
  PROVE  LET m == Holds(l, r, NewReservation(l, c, maximum))
         IN /\ Sound(m)
            /\ Covers(m, D, f)
            /\ f[r] <= maximum => Covers(m, D \cup {r}, f)
<1> DEFINE new == NewReservation(l, c, maximum)
           m == Holds(l, r, new)
<1>1. Sound(m) /\ Holding(m) = Holding(l) \cup {r}
  BY HoldSound
<1>2. new.cost = maximum
  BY DEF NewReservation
<1>3. l.reservations \in [Request -> Reservation \cup {NoReservation}] /\ l \in LedgerState
  BY DEF Sound, WellFormed, LedgerState
<1> HIDE DEF new
<1>4. /\ m.reservations[r] = new
      /\ \A x \in Request : x # r => m.reservations[x] = l.reservations[x]
  BY <1>3 DEF Holds, LedgerState
<1> HIDE DEF m
<1>5. Covers(m, D, f) /\ (f[r] <= maximum => Covers(m, D \cup {r}, f))
  <2>1. r \notin D
    BY DEF Covers
  <2>2. QED  BY <1>1, <1>2, <1>4, <2>1 DEF Covers
<1>6. QED  BY <1>1, <1>5 DEF m, new

\* Settling covers what its request was charged, and leaves the others alone.
LEMMA SettleCovers ==
  ASSUME NEW l, Sound(l), NEW r \in Request, NEW actual \in Nat, MaySettle(l, r, actual),
         NEW D \in SUBSET Request, NEW f, Covers(l, D, f),
         NEW g, r \in D => g[r] <= actual, \A x \in D : x # r => g[x] = f[x]
  PROVE  Sound(Settled(l, r, actual)) /\ Covers(Settled(l, r, actual), D, g)
<1> DEFINE m == Settled(l, r, actual)
<1>1. Sound(m) /\ Holding(m) = Holding(l)
  BY SettleSound
<1>2. l.reservations \in [Request -> Reservation \cup {NoReservation}] /\ l \in LedgerState
  BY DEF Sound, WellFormed, LedgerState
<1>3. l.reservations[r] \in Reservation
  BY <1>2 DEF MaySettle, Holding
<1>4. /\ m.reservations[r].cost = actual
      /\ \A x \in Request : x # r => m.reservations[x] = l.reservations[x]
  BY <1>2, <1>3 DEF Settled, LedgerState, Reservation
<1> HIDE DEF m
<1>5. Covers(m, D, g)
  BY <1>1, <1>4 DEF Covers
<1>6. QED  BY <1>1, <1>5 DEF m

\* Nothing is owed more, or for more requests, when requests are no longer in
\* flight.
LEMMA OwedShrinks ==
  ASSUME MoneyInv, Outstanding' \subseteq Outstanding, UNCHANGED charged,
         Booked' \subseteq Booked, unheld \subseteq unheld'
  PROVE  Due' \subseteq Due /\ \A r \in Request : Owed'[r] <= Owed[r]
<1>1. \A r \in Request : CappedCharge[r] \in Nat /\ CappedCharge[r] <= Maximum
  BY Capped
<1>2. CappedCharge' = CappedCharge
  BY DEF CappedCharge
<1>3. \A r \in Request :
        /\ Owed[r] = IF r \in Outstanding THEN Maximum ELSE CappedCharge[r]
        /\ Owed'[r] = IF r \in Outstanding' THEN Maximum ELSE CappedCharge[r]
  BY <1>2 DEF Owed
<1>4. Due' \subseteq Due
  BY DEF Due, Booked
<1>5. QED  BY <1>1, <1>3, <1>4, CostAssumption

LEMMA DueShrinks ==
  ASSUME MoneyInv, CommandOK, SurvivorsCover, MoneyInv', CommandOK',
         Due' \subseteq Due, \A r \in Due' : Owed'[r] <= Owed[r]
  PROVE  /\ Survivors' \subseteq Survivors => SurvivorsCover'
         /\ SumFunctionOnSet(Owed', Due') <= SumFunctionOnSet(Owed, Due)
         /\ SumFunctionOnSet(Owed, Due) \in Nat /\ SumFunctionOnSet(Owed', Due') \in Nat
<1>1. /\ IsFiniteSet(Due) /\ Due \in SUBSET Request
      /\ \A r \in Request : Owed[r] \in Nat
  BY DueFinite
<1>2. \A r \in Request : Owed'[r] \in Nat
  <2>1. \A r \in Request : CappedCharge'[r] \in Nat
    <3>1. charged' \in [Request -> Nat]
      BY DEF MoneyInv, MoneyTypes
    <3>2. QED  BY <3>1, CostAssumption DEF CappedCharge
  <2>2. QED  BY <2>1, CostAssumption DEF Owed
<1>3. Survivors' \subseteq Survivors => SurvivorsCover'
  <2>1. ASSUME NEW log \in Survivors
        PROVE  Covers(Replay(log).ledger, Due', Owed')
    <3>1. WellFormed(Replay(log).ledger)
      BY SurvivorsReplay DEF MoneyInv, Sound
    <3>2. Covers(Replay(log).ledger, Due, Owed)
      BY DEF SurvivorsCover
    <3>3. Due' \in SUBSET Due
      OBVIOUS
    <3>4. \A x \in Due' : Owed[x] \in Nat /\ Owed'[x] \in Nat /\ Owed'[x] <= Owed[x]
      BY <1>1, <1>2
    <3>5. QED  BY <1>1, <3>1, <3>2, <3>3, <3>4, CoversLess
  <2>2. QED  BY <2>1 DEF SurvivorsCover
<1>4. IsFiniteSet(Due') /\ Due' \subseteq Request
  BY <1>1, FS_Subset
<1>5. SumFunctionOnSet(Owed', Due') <= SumFunctionOnSet(Owed, Due')
  BY <1>1, <1>2, <1>4, SumGrows
<1>6. SumFunctionOnSet(Owed, Due') <= SumFunctionOnSet(Owed, Due)
  BY <1>1, SumOfPart
<1>7. /\ SumFunctionOnSet(Owed, Due) \in Nat /\ SumFunctionOnSet(Owed, Due') \in Nat
      /\ SumFunctionOnSet(Owed', Due') \in Nat
  BY <1>1, <1>2, <1>4, SumTakes
<1>8. QED  BY <1>3, <1>5, <1>6, <1>7

LEMMA KeptNeverShrinks ==
  ASSUME SessionInv, [Next]_vars
  PROVE  kept \in Nat /\ kept' \in Nat /\ kept <= kept'
<1>1. FilesOK /\ Anchored /\ kept \in Nat /\ Len(lines) \in Nat /\ kept <= Len(lines)
  BY DEF SessionInv, FilesOK
<1>2. CASE kept' = kept
  BY <1>1, <1>2
<1>3. CASE Repair
  BY <1>1, <1>3 DEF Repair, fileVars
<1>4. ASSUME NEW line, NEW o, AppendTo(line, o)
      PROVE  kept' \in Nat /\ kept <= kept'
  <2>1. CASE o = "ok"
    <3> DEFINE written == Joined(line)
    <3>1. lines' = Append(lines, written) /\ kept' = Len(lines')
      BY <1>4, <2>1 DEF AppendTo
    <3> HIDE DEF written
    <3>2. Len(Append(lines, written)) = Len(lines) + 1
      BY DEF SessionInv, FilesOK
    <3>3. QED  BY <1>1, <3>1, <3>2
  <2>2. CASE o # "ok"
    BY <1>1, <1>4, <2>2 DEF AppendTo, fileVars
  <2>3. QED  BY <2>1, <2>2
<1>5. CASE CreateSession \/ Attach \/ AttachRefused \/ Resume
  BY <1>2, <1>3, <1>5 DEF CreateSession, Attach, AttachRefused, Resume, fileVars
<1>6. CASE Command
  <2>1. ASSUME NEW c, NEW o, Begin(c, o) PROVE kept' \in Nat /\ kept <= kept'
    BY <1>4, <2>1 DEF Begin, AppendLine
  <2>2. ASSUME NEW o, Conclude(o) PROVE kept' \in Nat /\ kept <= kept'
    BY <1>4, <2>2 DEF Conclude, AppendLine
  <2>3. ASSUME NEW o, WriteCheckpoint(o) PROVE kept' \in Nat /\ kept <= kept'
    BY <1>2, <1>3, <2>3 DEF WriteCheckpoint, fileVars
  <2>4. CASE Abandon
    BY <1>2, <2>4 DEF Abandon, dirVars
  <2>5. QED  BY <1>1, <1>6, <2>1, <2>2, <2>3, <2>4 DEF Command
<1>7. CASE Requests
  <2>1. ASSUME NEW o, StartRequest(o) PROVE kept' \in Nat /\ kept <= kept'
    BY <1>4, <2>1 DEF StartRequest, AppendLine
  <2>2. CASE \E o : StartRequest(o)
    BY <1>1, <2>1, <2>2
  <2>3. CASE UNCHANGED dirVars
    BY <1>2, <2>3 DEF dirVars
  <2>4. QED  BY <1>7, <2>2, <2>3
         DEF Requests, ReserveRequest, ReserveRefused, Send, Answered, EndBatch
<1>8. CASE Records
  <2>1. ASSUME NEW o, NoteUsage(o) PROVE kept' \in Nat /\ kept <= kept'
    BY <1>4, <2>1 DEF NoteUsage, AppendLine
  <2>2. ASSUME NEW o, NoteUnmetered(o) PROVE kept' \in Nat /\ kept <= kept'
    BY <1>4, <2>2 DEF NoteUnmetered, AppendLine
  <2>3. ASSUME NEW o, NoteAmbiguous(o) PROVE kept' \in Nat /\ kept <= kept'
    BY <1>4, <2>3 DEF NoteAmbiguous, AppendLine
  <2>4. CASE UNCHANGED dirVars
    BY <1>2, <2>4 DEF dirVars
  <2>5. QED  BY <1>1, <1>8, <2>1, <2>2, <2>3, <2>4
         DEF Records, SettleRequest, SettleRefused, NoteStopped
<1>9. CASE Others
  <2>1. ASSUME NEW o, OtherAppends(o) PROVE kept' \in Nat /\ kept <= kept'
    BY <1>4, <2>1 DEF OtherAppends
  <2>2. ASSUME NEW r, NEW o, OtherSends(r, o) PROVE kept' \in Nat /\ kept <= kept'
    BY <1>4, <2>2 DEF OtherSends
  <2>3. CASE OtherReads \/ OtherRefused \/ OtherOpens \/ Overtaken
    BY <1>2, <1>3, <2>3
       DEF OtherReads, OtherRefused, OtherOpens, Overtaken, dirVars, fileVars
  <2>4. QED  BY <1>1, <1>9, <2>1, <2>2, <2>3 DEF Others
<1>10. CASE Crash \/ PowerFails
  BY <1>2, <1>10 DEF Crash, PowerFails, fileVars
<1>11. CASE UNCHANGED vars
  BY <1>2, <1>11 DEF vars, dirVars
<1>12. QED  BY <1>1, <1>5, <1>6, <1>7, <1>8, <1>9, <1>10, <1>11 DEF Next

\* A checkpoint that stays behind, or whose charges have not changed, covers
\* them.
LEMMA CheckpointsStay ==
  ASSUME SessionInv, [Next]_vars, CheckpointsCover, late => late',
         checkpoint' \in {checkpoint, fallback}, fallback' \in {checkpoint, fallback},
         BothBehind \/ UNCHANGED <<charged, Booked>>
  PROVE  CheckpointsCover'
<1>1. kept \in Nat /\ kept' \in Nat /\ kept <= kept'
  BY KeptNeverShrinks
<1>2. \A c \in {checkpoint, fallback} : c = None \/ c.anchor[1] \in 1..kept
  BY DEF SessionInv, Anchored, AnchorOK
<1>3. \A c \in {checkpoint, fallback} : Behind(c) => (c = None \/ c.anchor[1] < kept')
  BY <1>1, <1>2 DEF Behind
<1>4. CASE BothBehind
  BY <1>3, <1>4 DEF BothBehind, CheckpointsCover, Behind
<1>5. CASE UNCHANGED <<charged, Booked>>
  <2>1. CappedCharge' = CappedCharge
    BY <1>5 DEF CappedCharge
  <2>2. QED  BY <1>3, <1>5, <2>1 DEF CheckpointsCover, Behind
<1>6. QED  BY <1>4, <1>5

-----------------------------------------------------------------------------
(***************************************************************************)
(* What an append leaves for a power loss to choose from.                  *)
(***************************************************************************)
LEMMA SurvivorsSame ==
  ASSUME UNCHANGED <<costFile, synced>>
  PROVE  Survivors' = Survivors
BY DEF Survivors

LEMMA PersistSurvivors ==
  ASSUME LedgerInv, ~durabilityUnknown, handle = "file", NEW e \in Event,
         NEW o, NEW after, NEW undone, Persist(e, o, after, undone),
         Applies(ledger, e), after = Applied(ledger, e)
  PROVE  IF o = "ok" THEN \A log \in Survivors' : Replay(log).ledger = after
         ELSE \A log \in Survivors' : log \in Survivors \/ Replay(log).ledger = after
<1>1. /\ costFile \in Seq(Event) /\ Len(costFile) \in Nat
      /\ synced \in 0..Len(costFile)
  BY DEF LedgerInv, FileInv, FileType
<1>2. CASE UNCHANGED <<costFile, synced>> /\ o # "ok"
  BY <1>2, SurvivorsSame
<1>3. CASE costFile' = Append(costFile, e)
           /\ synced' = (IF o = "ok" THEN Len(costFile') ELSE synced)
  <2> DEFINE more == Append(costFile, e)
  <2>1. more \in Seq(Event) /\ Len(more) = Len(costFile) + 1
    BY <1>1
  <2>2. Replay(more).ledger = after
    <3>1. Replay(costFile).ledger = ledger /\ Replay(costFile).ok
      BY CurrentSurvives, SurvivorsReplay DEF LedgerInv, MemoryIsReplay
    <3>2. Replay(more) = Replayed(Replay(costFile), e)
      BY <1>1, ReplayAppend
    <3>3. QED  BY <3>1, <3>2 DEF Replayed
  <2>3. ASSUME NEW n \in synced'..Len(more)
        PROVE  \/ SubSeq(more, 1, n) = more
               \/ o # "ok" /\ SubSeq(more, 1, n) \in Survivors
    <3>1. CASE n = Len(more)
      BY <2>1, <3>1, WholePrefix
    <3>2. CASE n # Len(more)
      <4> HIDE DEF more
      <4>1. costFile' = more
        BY <1>3 DEF more
      <4>2. o # "ok" /\ n \in synced..Len(costFile) /\ n \in 0..Len(costFile)
        BY <1>1, <1>3, <2>1, <3>2, <4>1
      <4>3. SubSeq(more, 1, n) = SubSeq(costFile, 1, n)
        BY <1>1, <4>2, PrefixOfAppend DEF more
      <4>4. QED  BY <4>2, <4>3 DEF Survivors
    <3>3. QED  BY <3>1, <3>2
  <2>4. costFile' = more
    BY <1>3
  <2> HIDE DEF more
  <2>5. \A log \in Survivors' : \E n \in synced'..Len(more) : log = SubSeq(more, 1, n)
    BY <2>4 DEF Survivors
  <2>6. QED  BY <2>2, <2>3, <2>5
<1>4. \/ UNCHANGED <<costFile, synced>> /\ o # "ok"
      \/ /\ costFile' = Append(costFile, e)
         /\ synced' = (IF o = "ok" THEN Len(costFile') ELSE synced)
  BY DEF Persist, Write, Sync
<1>5. QED  BY <1>2, <1>3, <1>4

LEMMA ReserveSurvivors ==
  ASSUME LedgerInv, handle = "file", NEW r \in Request, NEW c \in Chapter,
         NEW maximum \in Nat, NEW o, Reserve(r, c, maximum, o)
  PROVE  LET after == Holds(ledger, r, NewReservation(ledger, c, maximum))
         IN IF o = "ok" THEN \A log \in Survivors' : Replay(log).ledger = after
            ELSE \A log \in Survivors' : log \in Survivors \/ Replay(log).ledger = after
<1> DEFINE new == NewReservation(ledger, c, maximum)
           after == Holds(ledger, r, new)
           undone == RolledBack(after, r, new)
           e == [event |-> "reserved", request |-> r, reservation |-> new]
<1>1. /\ ~durabilityUnknown /\ r \notin issued
      /\ WithinCaps(ledger, c, maximum)
      /\ Persist(e, o, after, undone)
  BY DEF Reserve
<1>2. Sound(ledger) /\ r \notin Holding(ledger)
  BY <1>1 DEF LedgerInv, Issued
<1>3. new \in Reservation
  BY <1>1, <1>2, HoldSound
<1>4. e \in Event
  BY <1>3 DEF Event
<1>5. e.event = "reserved" /\ e.request = r /\ e.reservation = new
  OBVIOUS
<1> HIDE DEF new, e
<1>6. Applies(ledger, e) /\ after = Applied(ledger, e)
  BY <1>2, <1>5 DEF Applies, Applied
<1> HIDE DEF after, undone
<1>7. IF o = "ok" THEN \A log \in Survivors' : Replay(log).ledger = after
      ELSE \A log \in Survivors' : log \in Survivors \/ Replay(log).ledger = after
  BY <1>1, <1>4, <1>6, PersistSurvivors
<1>8. QED  BY <1>7 DEF after, new

LEMMA SettleSurvivors ==
  ASSUME LedgerInv, handle = "file", NEW r \in Request, NEW actual \in Nat, NEW o,
         Settle(r, actual, o)
  PROVE  LET after == Settled(ledger, r, actual)
         IN IF o = "ok" THEN \A log \in Survivors' : Replay(log).ledger = after
            ELSE \A log \in Survivors' : log \in Survivors \/ Replay(log).ledger = after
<1> DEFINE after == Settled(ledger, r, actual)
           e == [event |-> "settled", request |-> r, cost |-> actual]
<1>1. /\ ~durabilityUnknown /\ MaySettle(ledger, r, actual)
      /\ Persist(e, o, after, ledger)
  BY DEF Settle
<1>2. e \in Event /\ e.event # "reserved" /\ e.request = r /\ e.cost = actual
  BY DEF Event
<1> HIDE DEF e
<1>3. Applies(ledger, e) /\ after = Applied(ledger, e)
  BY <1>1, <1>2 DEF Applies, Applied
<1> HIDE DEF after
<1>4. IF o = "ok" THEN \A log \in Survivors' : Replay(log).ledger = after
      ELSE \A log \in Survivors' : log \in Survivors \/ Replay(log).ledger = after
  BY <1>1, <1>2, <1>3, PersistSurvivors
<1>5. QED  BY <1>4 DEF after

LEMMA PowerSurvivors ==
  ASSUME LedgerInv, PowerLoss
  PROVE  Survivors' \subseteq Survivors
<1>1. /\ costFile \in Seq(Event) /\ Len(costFile) \in Nat /\ synced \in 0..Len(costFile)
      /\ synced' = synced
  BY DEF LedgerInv, FileInv, FileType, PowerLoss
<1>2. PICK n \in synced..Len(costFile) : costFile' = SubSeq(costFile, 1, n)
  BY DEF PowerLoss
<1>3. n \in 0..Len(costFile)
  BY <1>1
<1>4. Len(costFile') = n
  BY <1>1, <1>2, <1>3, CutKeeps
<1>5. ASSUME NEW k \in synced..n
      PROVE  SubSeq(costFile', 1, k) \in Survivors
  <2>1. k \in 0..n /\ k \in synced..Len(costFile)
    BY <1>1, <1>3
  <2>2. SubSeq(costFile', 1, k) = SubSeq(costFile, 1, k)
    BY <1>1, <1>2, <1>3, <2>1, PrefixOfPrefix
  <2>3. QED  BY <2>1, <2>2 DEF Survivors
<1>6. QED  BY <1>1, <1>4, <1>5 DEF Survivors

LEMMA FewerAnswers ==
  ASSUME CommandOK, answers' = answers \/ answers' = << >> \/ answers' = Tail(answers)
  PROVE  \A i \in DOMAIN answers' : \E j \in DOMAIN answers : answers'[i] = answers[j]
<1>1. CASE answers' = Tail(answers) /\ answers # << >>
  <2>1. answers \in Seq(Answer)
    BY DEF CommandOK
  <2>2. QED  BY <1>1, <2>1, TailOf
<1>2. CASE answers' = Tail(answers) /\ answers = << >>
  BY <1>2
<1>3. QED  BY <1>1, <1>2

LEMMA UsableStays ==
  ASSUME Usable, Unheld, UNCHANGED <<handle, anchored, unheld, issued>>,
         session => session', Outstanding' \subseteq Outstanding
  PROVE  Usable' /\ Unheld'
BY DEF Usable, Unheld

\* Steps that charge nothing, write nothing to the ledger and put nothing into
\* what is owed.
LEMMA QuietWhole ==
  ASSUME SessionInv, SessionInv', MoneyInv, MoneyInv', Whole,
         Usable', Unheld', NoneSent', CheckpointsCover',
         Survivors' \subseteq Survivors, UNCHANGED charged,
         Due' \subseteq Due, \A r \in Due' : Owed'[r] <= Owed[r],
         anchored' /\ ~late' => anchored /\ ~late /\ status'.run = status.run,
         \A i \in DOMAIN answers' : \E j \in DOMAIN answers : answers'[i] = answers[j]
  PROVE  Whole'
<1>1. ChargesKnown'
  BY DEF Whole, ChargesKnown
<1>2. CommandOK /\ CommandOK'
  BY DEF SessionInv
<1>3. /\ SurvivorsCover'
      /\ SumFunctionOnSet(Owed', Due') <= SumFunctionOnSet(Owed, Due)
      /\ SumFunctionOnSet(Owed, Due) \in Nat /\ SumFunctionOnSet(Owed', Due') \in Nat
  BY <1>2, DueShrinks DEF Whole
<1>4. status.run \in Nat
  BY DEF MoneyInv, MoneyTypes, CostStatus
<1>5. StatusCoversCharges'
  BY <1>3, <1>4 DEF Whole, StatusCoversCharges
<1>6. QED  BY <1>1, <1>3, <1>5 DEF Whole

\* Nothing in flight: what is owed is what was charged.
LEMMA NothingOwed ==
  ASSUME MoneyInv, CommandOK, Outstanding = {}
  PROVE  /\ Due = Booked /\ Owed = CappedCharge
         /\ SumFunctionOnSet(Owed, Due) = SumFunctionOnSet(CappedCharge, Booked)
<1>1. Due = Booked
  BY DEF Due, Booked
<1>2. Owed = CappedCharge
  BY DEF Owed, CappedCharge
<1>3. QED  BY <1>1, <1>2

-----------------------------------------------------------------------------
(***************************************************************************)
(* The steps.                                                              *)
(***************************************************************************)

\* Steps of the process that may get the ledger that send, charge and write to
\* the ledger nothing, and put nothing in flight.
LEMMA RestWhole ==
  ASSUME SessionInv, SessionInv', MoneyInv, MoneyInv', Whole, CheckpointsCover',
         UNCHANGED <<ledgerVars, sent, charged, unheld, late>>,
         UNCHANGED <<session, anchored, created>>,
         status'.run = status.run,
         Outstanding' \subseteq Outstanding,
         answers' = answers \/ answers' = << >> \/ answers' = Tail(answers)
  PROVE  Whole'
<1>1. Usable' /\ Unheld'
  BY UsableStays DEF Whole, ledgerVars
<1>2. Booked' = Booked /\ NoneSent'
  BY DEF Whole, NoneSent, Booked
<1>3. Due' \subseteq Due /\ \A r \in Due' : Owed'[r] <= Owed[r]
  BY <1>2, OwedShrinks, DueFinite DEF SessionInv
<1>4. Survivors' = Survivors
  BY SurvivorsSame DEF ledgerVars
<1>5. \A i \in DOMAIN answers' : \E j \in DOMAIN answers : answers'[i] = answers[j]
  BY FewerAnswers DEF SessionInv
<1>6. QED  BY <1>1, <1>2, <1>3, <1>4, <1>5, QuietWhole

\* Opening the ledger restores a status that covers what was charged, or comes
\* late.
LEMMA OpeningWhole ==
  ASSUME SessionInv, SessionInv', MoneyInv, MoneyInv', Whole,
         NoneSent', CheckpointsCover', Open, session', anchored',
         UNCHANGED <<sent, charged, unheld, answers>>,
         Outstanding = {}, Outstanding' = {},
         ~late' => SumFunctionOnSet(CappedCharge, Booked) <= status'.run
  PROVE  Whole'
<1>1. Usable' /\ Unheld' /\ ChargesKnown'
  BY DEF Whole, Usable, Unheld, ChargesKnown, Open
<1>2. CappedCharge' = CappedCharge /\ Booked' = Booked
  BY DEF CappedCharge, Booked
<1>3. /\ Due = Booked /\ Owed = CappedCharge
      /\ Due' = Booked' /\ Owed' = CappedCharge'
  BY DEF Due, Owed, Booked, CappedCharge
<1>4. SurvivorsCover'
  <2>1. Survivors' = Survivors
    BY SurvivorsSame DEF Open
  <2>2. QED  BY <1>2, <1>3, <2>1 DEF Whole, SurvivorsCover
<1>5. StatusCoversCharges'
  BY <1>2, <1>3 DEF StatusCoversCharges
<1>6. QED  BY <1>1, <1>4, <1>5 DEF Whole

LEMMA AttachingWhole ==
  ASSUME SessionInv, SessionInv', MoneyInv, MoneyInv', CheckpointTypes, Whole, Next,
         CreateSession \/ Attach \/ AttachRefused \/ Resume
  PROVE  Whole'
<1>1. /\ UNCHANGED <<checkpoint, fallback, commandVars, sent, charged, unheld, late>>
      /\ UNCHANGED answers
      /\ created => created'
  <2>1. CASE CreateSession
    BY <2>1 DEF CreateSession, historyVars, otherVars, commandVars
  <2>2. CASE Attach
    BY <2>2 DEF Attach, historyVars, otherVars, commandVars
  <2>3. CASE AttachRefused \/ Resume
    BY <2>3 DEF AttachRefused, Resume, historyVars, otherVars, processVars, commandVars
  <2>4. QED  BY <2>1, <2>2, <2>3
<1>2. Outstanding = {} /\ Outstanding' = {}
  BY AttachingMoney
<1>3. Booked' = Booked /\ NoneSent'
  BY <1>1 DEF Booked, NoneSent, Whole
<1>4. CheckpointsCover'
  BY <1>1, <1>3, CheckpointsStay DEF Whole
<1>5. CASE AttachRefused \/ Resume
  <2>1. UNCHANGED <<ledgerVars, session, anchored, created, status>>
    BY <1>5 DEF AttachRefused, Resume, processVars
  <2>2. QED  BY <1>1, <1>2, <1>4, <2>1, RestWhole
<1>6. CASE CreateSession
  <2>1. /\ Open /\ session' /\ anchored' /\ ~created /\ UNCHANGED status
    BY <1>6 DEF CreateSession
  <2>2. SumFunctionOnSet(CappedCharge, Booked) = 0
    BY <2>1, SumOfNothing DEF Whole, NoneSent
  <2>3. SumFunctionOnSet(CappedCharge, Booked) <= status'.run
    BY <2>1, <2>2 DEF MoneyInv, MoneyTypes, CostStatus
  <2>4. QED  BY <1>1, <1>2, <1>3, <1>4, <2>1, <2>3, OpeningWhole
<1>7. CASE Attach /\ Open /\ anchored' /\ status' = RestoredStatus
  <2>1. checkpoint # None /\ CheckpointMatches(lines) /\ session'
    BY <1>7 DEF Attach
  <2>2. ~Behind(checkpoint)
    BY <2>1, MatchIsNotBehind DEF SessionInv
  <2>3. ~late' => SumFunctionOnSet(CappedCharge, Booked) <= status'.run
    BY <1>1, <1>7, <2>2 DEF Whole, CheckpointsCover, RestoredStatus
  <2>4. QED  BY <1>1, <1>2, <1>3, <1>4, <1>7, <2>1, <2>3, OpeningWhole
<1>8. CASE Attach /\ UNCHANGED <<ledgerVars, anchored, status>>
  <2>1. ~session /\ ~anchored'
    BY <1>8 DEF Attach, Whole, Usable
  <2>2. Usable' /\ Unheld'
    BY <1>1, <1>2, <1>8, <2>1 DEF Whole, Usable, Unheld, ledgerVars
  <2>3. Due' \subseteq Due /\ \A r \in Due' : Owed'[r] <= Owed[r]
    BY <1>1, <1>2, <1>3, OwedShrinks, DueFinite DEF SessionInv
  <2>4. Survivors' = Survivors
    BY <1>8, SurvivorsSame DEF ledgerVars
  <2>5. QED  BY <1>1, <1>3, <1>4, <2>1, <2>2, <2>3, <2>4, QuietWhole
<1>9. QED  BY <1>5, <1>6, <1>7, <1>8 DEF Attach

LEMMA CommandWhole ==
  ASSUME SessionInv, SessionInv', MoneyInv, MoneyInv', Whole, Next, Command,
         Outstanding = {}, Outstanding' = {}
  PROVE  Whole'
<1>1. /\ UNCHANGED <<ledgerVars, sent, charged, session, anchored, created, unheld, late>>
      /\ answers' = answers \/ answers' = << >>
  BY DEF Command, Begin, Conclude, WriteCheckpoint, Abandon, historyVars, otherVars, Idle,
         commandVars, dirVars
<1>2. status'.run = status.run
  <2>1. ASSUME NEW c \in Chapter, NEW o \in AppendOutcome, Begin(c, o)
        PROVE  status'.run = status.run
    BY <2>1 DEF Begin, MoneyInv, MoneyTypes, CostStatus
  <2>2. CASE UNCHANGED status
    BY <2>2
  <2>3. QED  BY <2>1, <2>2 DEF Command, Conclude, WriteCheckpoint, Abandon
<1>3. Booked' = Booked /\ CappedCharge' = CappedCharge
  BY <1>1 DEF Booked, CappedCharge
<1>4. CheckpointsCover'
  <2>1. CASE checkpoint' \in {checkpoint, fallback} /\ fallback' \in {checkpoint, fallback}
    BY <1>1, <1>3, <2>1, CheckpointsStay DEF Whole
  <2>2. ASSUME NEW o \in CheckpointOutcome, WriteCheckpoint(o), ~late
        PROVE  CheckpointsCover'
    <3> DEFINE new == [anchor |-> last, status |-> status]
    <3>1. checkpoint' \in {checkpoint, new} /\ fallback' \in {fallback, new}
      BY <2>2 DEF WriteCheckpoint, SyncDirectory
    <3>2. CASE ~anchored
      BY <2>1, <2>2, <3>2 DEF WriteCheckpoint
    <3>3. CASE anchored
      <4>1. SumFunctionOnSet(Owed, Due) <= status.run
        BY <2>2, <3>3 DEF Whole, StatusCoversCharges
      <4>2. SumFunctionOnSet(Owed, Due) = SumFunctionOnSet(CappedCharge, Booked)
        BY NothingOwed DEF SessionInv
      <4>3. SumFunctionOnSet(CappedCharge', Booked') <= new.status.run
        BY <1>3, <4>1, <4>2
      <4>4. \A c \in {checkpoint, fallback} :
              (c = None \/ c.anchor[1] < kept')
                \/ SumFunctionOnSet(CappedCharge', Booked') <= c.status.run
        <5>1. kept \in Nat /\ kept' \in Nat /\ kept <= kept'
          BY KeptNeverShrinks
        <5>2. \A c \in {checkpoint, fallback} : c = None \/ c.anchor[1] \in 1..kept
          BY DEF SessionInv, Anchored, AnchorOK
        <5>3. QED  BY <1>3, <2>2, <5>1, <5>2 DEF Whole, CheckpointsCover, Behind
      <4> HIDE DEF new
      <4>5. QED  BY <3>1, <4>3, <4>4 DEF CheckpointsCover, Behind
    <3>4. QED  BY <3>2, <3>3
  <2>3. CASE UNCHANGED <<checkpoint, fallback>>
    BY <2>1, <2>3
  <2>4. CASE late
    BY <1>1, <2>4 DEF CheckpointsCover
  <2>5. QED  BY <2>2, <2>3, <2>4 DEF Command, Begin, Conclude, Abandon, dirVars
<1>5. QED  BY <1>1, <1>2, <1>4, RestWhole

\* A request is held before anything is written about it: on the file, or in
\* the memory of a process without the ledger.
LEMMA ReserveInMemory ==
  ASSUME SessionInv, SessionInv', MoneyInv, MoneyInv', Whole, NoneSent', CheckpointsCover',
         NEW r \in Request, NEW o \in Outcome, ReserveRequest(r, o), handle = "memory"
  PROVE  Whole'
<1>1. /\ UNCHANGED <<sent, charged, session, anchored, late, handle, costFile, synced>>
      /\ unheld' = unheld \cup {r} /\ r \notin issued /\ issued' = issued \cup {r}
      /\ answers' = answers \/ answers' = << >>
  BY DEF ReserveRequest, Reserve, Persist, Idle
<1>2. Outstanding' \subseteq Outstanding \cup {r}
  BY ReservedMoney
<1>3. ~anchored' /\ Usable' /\ Unheld'
  BY <1>1, <1>2 DEF Whole, Usable, Unheld
<1>4. CommandOK /\ \A x \in Request : CappedCharge[x] <= Maximum /\ CappedCharge[x] \in Nat
  BY Capped DEF SessionInv
<1>5. Due' \subseteq Due
  BY <1>1, <1>2 DEF Due
<1>6. \A x \in Due' : Owed'[x] <= Owed[x]
  <2>1. CappedCharge' = CappedCharge
    BY <1>1 DEF CappedCharge
  <2>2. \A x \in Due' : x # r /\ x \in Request
    BY <1>1, <1>4, <1>5, DueFinite DEF Due
  <2>3. QED  BY <1>2, <1>4, <2>1, <2>2, CostAssumption DEF Owed
<1>7. Survivors' = Survivors
  BY <1>1, SurvivorsSame
<1>8. \A i \in DOMAIN answers' : \E j \in DOMAIN answers : answers'[i] = answers[j]
  BY <1>1, <1>4, FewerAnswers
<1>9. QED  BY <1>1, <1>3, <1>5, <1>6, <1>7, <1>8, QuietWhole

LEMMA ReserveWhole ==
  ASSUME SessionInv, SessionInv', MoneyInv, MoneyInv', Whole, Next,
         NEW r \in Request, NEW o \in Outcome, ReserveRequest(r, o)
  PROVE  Whole'
<1>1. /\ pc = "ready" /\ Reserve(r, cmd, Maximum, o) /\ UNCHANGED dirVars
      /\ UNCHANGED <<sent, charged, session, anchored, late>>
      /\ unheld' = IF handle = "memory" THEN unheld \cup {r} ELSE unheld
  BY DEF ReserveRequest
<1>2. /\ CommandOK /\ CommandOK' /\ LedgerInv /\ session /\ cmd \in Chapter
      /\ Maximum \in Nat /\ BothBehind
  BY <1>1, CostAssumption DEF SessionInv, Running, MoneyInv, Places
<1>3. NoneSent' /\ CheckpointsCover'
  <2>1. NoneSent'
    BY <1>1 DEF Whole, NoneSent, Booked, dirVars
  <2>2. QED  BY <1>1, <1>2, <2>1, CheckpointsStay DEF Whole, dirVars
<1>4. CASE handle = "memory"
  BY <1>3, <1>4, ReserveInMemory
<1>5. CASE handle = "file"
  <2>1. handle' = handle /\ unheld' = unheld /\ issued \subseteq issued'
    BY <1>1, <1>5 DEF Reserve
  <2>2. /\ ~durabilityUnknown /\ r \notin issued /\ WithinCaps(ledger, cmd, Maximum)
        /\ r \notin unheld
    BY <1>1 DEF Reserve, Whole, Unheld
  <2>3. answers' = answers \/ answers' = << >>
    BY DEF ReserveRequest, Idle
  <2>4. ChargesKnown'
    BY <1>1, <1>2, <2>3, FewerAnswers DEF Whole, ChargesKnown
  <2>5. /\ IsFiniteSet(Due) /\ Due \in SUBSET Request /\ Due \subseteq issued
        /\ \A x \in Request : Owed[x] \in Nat
    BY <1>2, DueFinite
  <2>6. status.run \in Nat /\ SumFunctionOnSet(Owed, Due) \in Nat
    BY <2>5, SumTakes DEF MoneyInv, MoneyTypes, CostStatus
  <2> DEFINE after == Holds(ledger, r, NewReservation(ledger, cmd, Maximum))
  <2>7. IF o = "ok" THEN \A log \in Survivors' : Replay(log).ledger = after
        ELSE \A log \in Survivors' : log \in Survivors \/ Replay(log).ledger = after
    BY <1>1, <1>2, <1>5, ReserveSurvivors
  <2>8. Sound(ledger) /\ r \notin Holding(ledger)
    BY <1>2, <2>2 DEF LedgerInv, Issued
  <2>9. Covers(ledger, Due, Owed)
    <3>1. Replay(costFile).ledger = ledger
      BY <1>2, <1>5, <2>2 DEF LedgerInv, MemoryIsReplay
    <3>2. QED  BY <1>2, <3>1, CurrentSurvives DEF Whole, SurvivorsCover
  <2>10. CASE Outstanding' = {} /\ UNCHANGED status /\ o # "ok"
    <3>1. Booked' = Booked
      BY <1>1, <2>1 DEF Booked
    <3>2. Due' \subseteq Due /\ \A x \in Request : Owed'[x] <= Owed[x]
      BY <1>1, <2>1, <2>10, <3>1, OwedShrinks
    <3>3. SumFunctionOnSet(Owed', Due') <= SumFunctionOnSet(Owed, Due)
          /\ SumFunctionOnSet(Owed', Due') \in Nat
      BY <1>2, <2>5, <3>2, DueShrinks DEF Whole
    <3>4. StatusCoversCharges'
      BY <1>1, <2>6, <2>10, <3>3 DEF Whole, StatusCoversCharges
    <3>5. \A x \in Due' : Owed'[x] \in Nat /\ Owed[x] \in Nat /\ Owed'[x] <= Owed[x]
      <4>1. \A x \in Request : CappedCharge'[x] \in Nat
        BY <1>1, Capped DEF CappedCharge
      <4>2. \A x \in Request : Owed'[x] \in Nat
        BY <1>2, <4>1 DEF Owed
      <4>3. QED  BY <2>5, <3>2, <4>2
    <3>6. ASSUME NEW log \in Survivors'
          PROVE  Covers(Replay(log).ledger, Due', Owed')
      <4>1. CASE log \in Survivors
        <5>1. Covers(Replay(log).ledger, Due, Owed) /\ WellFormed(Replay(log).ledger)
          BY <1>2, <4>1, SurvivorsReplay DEF Whole, SurvivorsCover, Sound
        <5>2. Due' \in SUBSET Due
          BY <3>2
        <5>3. QED  BY <2>5, <3>5, <5>1, <5>2, CoversLess
      <4>2. CASE Replay(log).ledger = after
        <5>1. Sound(after) /\ Covers(after, Due, Owed)
          BY <1>2, <2>5, <2>2, <2>8, <2>9, HoldCovers
        <5> HIDE DEF after
        <5>2. Due' \in SUBSET Due /\ WellFormed(after)
          BY <3>2, <5>1 DEF Sound
        <5>3. Covers(after, Due', Owed')
          BY <2>5, <3>5, <5>1, <5>2, CoversLess
        <5>4. QED  BY <4>2, <5>3
      <4>3. QED  BY <2>7, <2>10, <4>1, <4>2
    <3>7. SurvivorsCover'
      BY <3>6 DEF SurvivorsCover
    <3>8. Usable' /\ Unheld'
      BY <1>1, <1>5, <2>1, <2>10 DEF Whole, Usable, Unheld
    <3>9. QED  BY <1>3, <2>4, <3>4, <3>7, <3>8 DEF Whole
  <2>11. CASE o = "ok" /\ Outstanding' = Outstanding \cup {r} /\ status' = Spend
    <3>1. /\ Due' = Due \cup {r} /\ r \notin Due
          /\ Owed'[r] = Maximum /\ \A x \in Due : Owed'[x] = Owed[x]
      <4>1. Due' = Due \cup {r} /\ r \notin Due
        BY <1>1, <2>1, <2>2, <2>5, <2>11 DEF Due
      <4>2. /\ Owed'[r] = Maximum
            /\ \A x \in Request : x # r => Owed'[x] = Owed[x]
        BY <1>1, <2>11 DEF Owed, CappedCharge
      <4>3. QED  BY <2>5, <4>1, <4>2
    <3>2. SumFunctionOnSet(Owed', Due') = SumFunctionOnSet(Owed, Due) + Maximum
      <4>1. \A x \in Due : Owed[x] \in Nat /\ Owed'[x] = Owed[x]
        BY <2>5, <3>1
      <4>2. Owed'[r] \in Nat
        BY <1>2, <3>1
      <4> DEFINE f == Owed
                 g == Owed'
                 S == Due
      <4>3. IsFiniteSet(S) /\ r \notin S /\ g[r] \in Nat
        BY <2>5, <3>1, <4>2
      <4>4. \A x \in S : f[x] \in Nat /\ g[x] = f[x]
        BY <4>1
      <4> HIDE DEF f, g, S
      <4>5. SumFunctionOnSet(g, S \cup {r}) = SumFunctionOnSet(f, S) + g[r]
        BY <4>3, <4>4, SumAdds
      <4>6. QED  BY <3>1, <4>5 DEF f, g, S
    <3>3. StatusCoversCharges'
      <4>1. status'.run = status.run + Maximum
        BY <2>11 DEF Spend
      <4>2. QED  BY <1>1, <1>2, <2>6, <3>2, <4>1 DEF Whole, StatusCoversCharges
    <3>4. Covers(ledger, Due, Owed')
      BY <2>9, <3>1 DEF Covers
    <3>5. Owed'[r] <= Maximum
      BY <1>2, <3>1
    <3>6. Covers(after, Due', Owed')
      <4>1. Covers(after, Due \cup {r}, Owed')
        BY <1>2, <2>2, <2>5, <2>8, <3>4, <3>5, HoldCovers
      <4>2. QED  BY <3>1, <4>1
    <3> HIDE DEF after
    <3>7. \A log \in Survivors' : Covers(Replay(log).ledger, Due', Owed')
      BY <2>7, <2>11, <3>6
    <3>8. SurvivorsCover'
      BY <3>7 DEF SurvivorsCover
    <3>9. Usable' /\ Unheld'
      BY <1>1, <1>5, <2>1, <2>2, <2>11 DEF Whole, Usable, Unheld
    <3>10. QED  BY <1>3, <2>4, <3>3, <3>8, <3>9 DEF Whole
  <2>12. \/ Outstanding' = {} /\ UNCHANGED status /\ o # "ok"
         \/ o = "ok" /\ Outstanding' = Outstanding \cup {r} /\ status' = Spend
    <3>1. CASE o = "ok"
      <4>1. cur' = r /\ r # None
        BY <3>1, NoneAssumption DEF ReserveRequest
      <4>2. Outstanding' # {}
        BY <4>1 DEF Outstanding
      <4>3. QED  BY <3>1, <4>2, ReservedMoney
    <3>2. CASE o # "ok"
      BY <3>2, ReservedMoney
    <3>3. QED  BY <3>1, <3>2
  <2>13. QED  BY <2>10, <2>11, <2>12
<1>6. QED  BY <1>2, <1>4, <1>5 DEF LedgerInv, FileInv, FileType

\* What is sent is on the ledger already, and behind every checkpoint.
LEMMA SendWhole ==
  ASSUME SessionInv, SessionInv', MoneyInv, MoneyInv', Whole, Next, Send
  PROVE  Whole'
<1>1. /\ pc = "ready"
      /\ UNCHANGED <<ledgerVars, dirVars, charged, session, anchored, answers>>
      /\ UNCHANGED <<status, unheld, late>>
  BY DEF Send, otherVars
<1>2. session /\ created /\ BothBehind
  BY <1>1 DEF SessionInv, Running, Exists
<1>3. Outstanding' = Outstanding /\ Due' = Due
  BY <1>1, SentMoney DEF Due
<1>4. Owed' = Owed
  BY <1>1, <1>3 DEF Owed, CappedCharge
<1>5. Usable' /\ Unheld' /\ NoneSent'
  BY <1>1, <1>2, <1>3, UsableStays DEF Whole, NoneSent, ledgerVars, dirVars
<1>6. ChargesKnown'
  BY <1>1 DEF Whole, ChargesKnown
<1>7. SurvivorsCover' /\ StatusCoversCharges'
  <2>1. Survivors' = Survivors
    BY <1>1, SurvivorsSame DEF ledgerVars
  <2>2. QED  BY <1>1, <1>3, <1>4, <2>1 DEF Whole, SurvivorsCover, StatusCoversCharges
<1>8. CheckpointsCover'
  BY <1>1, <1>2, CheckpointsStay DEF Whole, dirVars
<1>9. QED  BY <1>5, <1>6, <1>7, <1>8 DEF Whole

\* An answer changes what its request was charged, not what is owed for it.
LEMMA AnsweredWhole ==
  ASSUME SessionInv, SessionInv', MoneyInv, MoneyInv', Whole, Next,
         NEW r \in Request, Answered(r)
  PROVE  Whole'
<1>1. /\ pc = "waiting" /\ r \in batch
      /\ UNCHANGED <<ledgerVars, dirVars, sent, session, anchored, status, unheld, late>>
  BY DEF Answered, otherVars
<1>2. BothBehind
  BY <1>1 DEF SessionInv, Running
<1>3. /\ Outstanding' = Outstanding /\ r \in Outstanding
      /\ \E a \in Answer : /\ a.request = r /\ answers' = Append(answers, a)
                           /\ charged' = [charged EXCEPT ![r] = a.cost]
  BY AnsweredMoney
<1>4. PICK a \in Answer : /\ a.request = r /\ answers' = Append(answers, a)
                          /\ charged' = [charged EXCEPT ![r] = a.cost]
  BY <1>3
<1>5. /\ charged'[r] = a.cost
      /\ \A x \in Request : x # r => charged'[x] = charged[x]
  BY <1>4 DEF MoneyInv, MoneyTypes
<1>6. Due' = Due /\ Owed' = Owed
  BY <1>1, <1>3, <1>5 DEF Due, Owed, CappedCharge
<1>7. Usable' /\ Unheld' /\ NoneSent'
  BY <1>1, <1>3, UsableStays DEF Whole, NoneSent, Booked, ledgerVars, dirVars
<1>8. ChargesKnown'
  <2>1. answers \in Seq(Answer)
    BY DEF SessionInv, CommandOK
  <2>2. \A i \in DOMAIN answers' :
          answers'[i] = a \/ \E j \in DOMAIN answers : answers'[i] = answers[j]
    BY <1>4, <2>1, AppendOf
  <2>3. \A j \in DOMAIN answers : /\ answers[j].request # r
                                  /\ answers[j].request \in Request
    <3>1. \A j \in DOMAIN answers : answers[j].request \in InAnswers
      BY DEF InAnswers, Of
    <3>2. InAnswers \subseteq Request /\ r \notin InAnswers
      <4>1. Outstanding \subseteq Request
        BY OutstandingFinite DEF MoneyInv, SessionInv
      <4>2. QED  BY <1>1, <4>1 DEF Outstanding, MoneyInv, Distinct
    <3>3. QED  BY <3>1, <3>2
  <2>4. QED  BY <1>4, <1>5, <2>2, <2>3 DEF Whole, ChargesKnown
<1>9. SurvivorsCover' /\ StatusCoversCharges'
  <2>1. Survivors' = Survivors
    BY <1>1, SurvivorsSame DEF ledgerVars
  <2>2. QED  BY <1>1, <1>6, <2>1 DEF Whole, SurvivorsCover, StatusCoversCharges
<1>10. CheckpointsCover'
  BY <1>1, <1>2, CheckpointsStay DEF Whole, dirVars
<1>11. QED  BY <1>7, <1>8, <1>9, <1>10 DEF Whole

\* A request is settled to what it was charged, on the file or in memory.
LEMMA SettleWhole ==
  ASSUME SessionInv, SessionInv', MoneyInv, MoneyInv', Whole, Next,
         NEW o \in Outcome, SettleRequest(o)
  PROVE  Whole'
<1> DEFINE a == Head(answers)
           h == a.request
<1>1. /\ pc = "settling"
      /\ UNCHANGED <<dirVars, sent, charged, session, anchored, unheld, late>>
  BY DEF SettleRequest
<1>2. /\ CommandOK /\ CommandOK' /\ LedgerInv /\ session
      /\ Maximum \in Nat
  BY <1>1, CostAssumption DEF SessionInv, Running, MoneyInv
<1>3. /\ a \in Answer /\ h \in Outstanding /\ a.cost <= Maximum
      /\ Settle(h, a.cost, o) /\ \E i \in DOMAIN answers : a = answers[i]
      /\ \/ Outstanding' = {} /\ answers' = << >> /\ UNCHANGED status
         \/ /\ Outstanding' = Outstanding \ {h} /\ answers' = Tail(answers)
            /\ status'.run = status.run - (Maximum - a.cost)
  BY SettledMoney
<1>4. /\ h \in Request /\ a.cost \in Nat /\ a.cost = CappedCharge[h] /\ h \in sent
  <2>1. h \in InAnswers
    BY <1>3 DEF InAnswers, Of
  <2>2. h \in Request /\ a.cost \in Nat /\ a.cost = charged[h] /\ h \in sent
    BY <1>1, <1>3, <2>1 DEF Answer, Whole, ChargesKnown, MoneyInv, Places
  <2>3. QED  BY <1>3, <2>2, Capped
<1> HIDE DEF a, h
<1>5. handle' = handle /\ issued' = issued
  BY <1>3 DEF Settle, Persist
<1>6. Outstanding' \subseteq Outstanding /\ Booked' = Booked /\ CappedCharge' = CappedCharge
  BY <1>1, <1>3 DEF Booked, CappedCharge
<1>7. Usable' /\ Unheld' /\ NoneSent' /\ CheckpointsCover'
  <2>1. Usable' /\ Unheld' /\ NoneSent'
    BY <1>1, <1>5, <1>6, UsableStays DEF Whole, NoneSent, dirVars
  <2>2. QED  BY <1>1, <1>6, <2>1, CheckpointsStay DEF Whole, dirVars
<1>8. \A i \in DOMAIN answers' : \E j \in DOMAIN answers : answers'[i] = answers[j]
  BY <1>2, <1>3, FewerAnswers
<1>9. /\ IsFiniteSet(Due) /\ Due \in SUBSET Request
      /\ \A x \in Request : Owed[x] \in Nat /\ CappedCharge[x] \in Nat
      /\ Owed[h] = Maximum
  BY <1>2, <1>3, DueFinite
<1>10. Due' \in SUBSET Due /\ \A x \in Request : Owed'[x] <= Owed[x]
  BY <1>1, <1>6, OwedShrinks
<1>11. CASE handle = "memory"
  <2>1. UNCHANGED <<costFile, synced>> /\ ~anchored'
    BY <1>1, <1>3, <1>11 DEF Settle, Persist, Whole, Usable
  <2>2. Survivors' = Survivors
    BY <2>1, SurvivorsSame
  <2>3. \A x \in Due' : Owed'[x] <= Owed[x]
    BY <1>9, <1>10
  <2>4. QED  BY <1>1, <1>7, <1>8, <1>10, <2>1, <2>2, <2>3, QuietWhole
<1>12. CASE handle = "file"
  <2>1. status.run \in Nat
    BY DEF MoneyInv, MoneyTypes, CostStatus
  <2> DEFINE Less == [x \in Request |-> IF x = h THEN a.cost ELSE Owed[x]]
             after == Settled(ledger, h, a.cost)
  <2>2. /\ Less[h] = a.cost /\ \A x \in Request : x # h => Less[x] = Owed[x]
        /\ \A x \in Request : Less[x] \in Nat
    BY <1>4, <1>9
  <2>3. \A x \in Request : Owed'[x] <= Less[x] /\ Owed'[x] \in Nat
    <3>1. h \notin Outstanding'
      BY <1>3
    <3>2. \A x \in Request : Owed'[x] = IF x \in Outstanding' THEN Maximum ELSE CappedCharge[x]
      BY <1>6 DEF Owed
    <3>3. Owed'[h] = a.cost
      BY <1>4, <3>1, <3>2
    <3>4. \A x \in Request : Owed'[x] \in Nat
      BY <1>2, <1>9, <3>2
    <3>5. QED  BY <1>4, <1>10, <2>2, <3>3, <3>4
  <2> HIDE DEF Less
  <2>4. SurvivorsCover'
    <3>1. IF o = "ok" THEN \A log \in Survivors' : Replay(log).ledger = after
          ELSE \A log \in Survivors' : log \in Survivors \/ Replay(log).ledger = after
      BY <1>2, <1>3, <1>4, <1>12, SettleSurvivors
    <3>2. /\ ~durabilityUnknown /\ MaySettle(ledger, h, a.cost) /\ Sound(ledger)
      BY <1>2, <1>3 DEF Settle, LedgerInv, Issued
    <3>3. Covers(ledger, Due, Owed)
      <4>1. Replay(costFile).ledger = ledger
        BY <1>2, <1>12, <3>2 DEF LedgerInv, MemoryIsReplay
      <4>2. QED  BY <1>2, <4>1, CurrentSurvives DEF Whole, SurvivorsCover
    <3>4. Sound(after) /\ Covers(after, Due, Less)
      <4>1. h \in Due => Less[h] <= a.cost
        BY <1>4, <2>2
      <4>2. \A x \in Due : x # h => Less[x] = Owed[x]
        BY <1>9, <2>2
      <4>3. QED  BY <1>4, <1>9, <3>2, <3>3, <4>1, <4>2, SettleCovers
    <3> HIDE DEF after
    <3>5. Covers(after, Due', Owed')
      <4>1. \A x \in Due' : Less[x] \in Nat /\ Owed'[x] \in Nat /\ Owed'[x] <= Less[x]
        BY <1>9, <1>10, <2>2, <2>3
      <4>2. QED  BY <1>9, <1>10, <3>4, <4>1, CoversLess DEF Sound
    <3>6. ASSUME NEW log \in Survivors
          PROVE  Covers(Replay(log).ledger, Due', Owed')
      <4>1. Covers(Replay(log).ledger, Due, Owed) /\ WellFormed(Replay(log).ledger)
        BY <1>2, SurvivorsReplay DEF Whole, SurvivorsCover, Sound
      <4>2. \A x \in Due' : Owed[x] \in Nat /\ Owed'[x] \in Nat /\ Owed'[x] <= Owed[x]
        BY <1>9, <1>10, <2>3
      <4>3. QED  BY <1>9, <1>10, <4>1, <4>2, CoversLess
    <3>7. \A log \in Survivors' : Covers(Replay(log).ledger, Due', Owed')
      BY <3>1, <3>5, <3>6
    <3>8. QED  BY <3>7 DEF SurvivorsCover
  <2>5. StatusCoversCharges'
    <3>1. SumFunctionOnSet(Owed, Due) \in Nat
      BY <1>9, SumTakes
    <3>2. CASE Outstanding' = {} /\ UNCHANGED status
      <4>1. SumFunctionOnSet(Owed', Due') <= SumFunctionOnSet(Owed, Due)
            /\ SumFunctionOnSet(Owed', Due') \in Nat
        BY <1>2, <1>9, <1>10, DueShrinks DEF Whole
      <4>2. QED  BY <1>1, <2>1, <3>1, <3>2, <4>1 DEF Whole, StatusCoversCharges
    <3>3. CASE /\ Outstanding' = Outstanding \ {h}
               /\ status'.run = status.run - (Maximum - a.cost)
      <4>1. Due' = Due /\ h \in Due
        BY <1>1, <1>3, <1>4, <1>12, <3>3 DEF Due, Whole, Usable
      <4> DEFINE f == Owed
                 g == Owed'
                 S == Due
                 T == Due \ {h}
      <4>2. /\ IsFiniteSet(S) /\ h \in S /\ \A x \in S : f[x] \in Nat /\ g[x] \in Nat
            /\ f[h] = Maximum /\ g[h] = a.cost /\ T = S \ {h} /\ IsFiniteSet(T)
        <5>1. g[h] = a.cost
          BY <1>4, <1>6, <3>3 DEF Owed
        <5>2. IsFiniteSet(T)
          BY <1>9, FS_Subset
        <5>3. QED  BY <1>9, <2>3, <4>1, <5>1, <5>2
      <4>3. \A x \in T : f[x] = g[x]
        <5>1. \A x \in Request : x # h => Owed'[x] = Owed[x]
          BY <1>6, <3>3 DEF Owed
        <5>2. QED  BY <1>9, <5>1
      <4> HIDE DEF f, g, S, T
      <4>4. SumFunctionOnSet(f, S) = Maximum + SumFunctionOnSet(f, T)
        BY <4>2, SumTakes
      <4>5. SumFunctionOnSet(g, S) = a.cost + SumFunctionOnSet(g, T)
        BY <4>2, SumTakes
      <4>6. SumFunctionOnSet(f, T) = SumFunctionOnSet(g, T) /\ SumFunctionOnSet(f, T) \in Nat
        <5>1. SumFunctionOnSet(f, T) = SumFunctionOnSet(g, T)
          BY <4>2, <4>3, SumAgrees
        <5>2. SumFunctionOnSet(f, T) \in Nat
          BY <4>2, SumTakes
        <5>3. QED  BY <5>1, <5>2
      <4>7. SumFunctionOnSet(Owed', Due')
              = SumFunctionOnSet(Owed, Due) - (Maximum - a.cost)
        BY <1>2, <1>4, <4>1, <4>4, <4>5, <4>6 DEF f, g, S
      <4>8. QED  BY <1>1, <1>2, <1>4, <2>1, <3>1, <3>3, <4>7 DEF Whole, StatusCoversCharges
    <3>4. QED  BY <1>3, <3>2, <3>3
  <2>6. ChargesKnown'
    BY <1>1, <1>8 DEF Whole, ChargesKnown
  <2>7. QED  BY <1>7, <2>4, <2>5, <2>6 DEF Whole
<1>13. QED  BY <1>2, <1>11, <1>12 DEF LedgerInv, FileInv, FileType

LEMMA DeathWhole ==
  ASSUME SessionInv, SessionInv', MoneyInv, MoneyInv', CheckpointTypes, Whole, Next,
         Crash \/ PowerFails \/ Overtaken
  PROVE  Whole'
<1>1. /\ NewProcess /\ (Exit \/ PowerLoss)
      /\ checkpoint' \in {checkpoint, fallback} /\ fallback' \in {checkpoint, fallback}
  BY DEF Crash, PowerFails, Overtaken
<1>2. /\ ~session' /\ ~anchored' /\ created' = created
      /\ UNCHANGED <<sent, charged, unheld, late>> /\ answers' = << >>
  BY <1>1 DEF NewProcess, Idle
<1>3. Outstanding' = {}
  BY DeathMoney
<1>4. handle' = "memory" /\ issued' = issued
  BY <1>1 DEF Exit, PowerLoss
<1>5. Booked' = Booked
  BY <1>2 DEF Booked
<1>6. Usable' /\ Unheld' /\ NoneSent'
  BY <1>2, <1>3, <1>4, <1>5 DEF Whole, Usable, Unheld, NoneSent
<1>7. CheckpointsCover'
  BY <1>1, <1>2, <1>5, CheckpointsStay DEF Whole
<1>8. Survivors' \subseteq Survivors
  BY <1>1, PowerSurvivors, SurvivorsSame DEF Exit, MoneyInv
<1>9. Due' \subseteq Due /\ \A r \in Due' : Owed'[r] <= Owed[r]
  BY <1>2, <1>3, <1>5, OwedShrinks, DueFinite DEF SessionInv
<1>10. QED  BY <1>2, <1>6, <1>7, <1>8, <1>9, QuietWhole

LEMMA OthersWhole ==
  ASSUME SessionInv, SessionInv', MoneyInv, MoneyInv', CheckpointTypes, Whole, Next, Others
  PROVE  Whole'
<1>1. CASE OtherReads \/ OtherRefused \/ \E o \in AppendOutcome : OtherAppends(o)
  <2>1. UNCHANGED <<ledgerVars, processVars, created, checkpoint, fallback,
                    sent, charged, unheld, late>>
    BY <1>1 DEF OtherReads, OtherRefused, OtherAppends, otherVars, dirVars
  <2>2. Outstanding' = Outstanding
    BY <2>1, RestMoney
  <2>3. UNCHANGED <<session, anchored, status, answers>>
    BY <2>1 DEF processVars, commandVars
  <2>4. CheckpointsCover'
    BY <2>1, CheckpointsStay DEF Whole, Booked
  <2>5. QED  BY <2>1, <2>2, <2>3, <2>4, RestWhole
<1>2. CASE OtherOpens
  <2>1. /\ pc = "idle" /\ Open /\ session' /\ anchored' /\ late'
        /\ UNCHANGED <<dirVars, commandVars, sent, charged, unheld>>
    BY <1>2 DEF OtherOpens
  <2>2. Outstanding = {} /\ UNCHANGED <<answers, Outstanding>>
    BY <2>1, IdleOutstanding DEF SessionInv, commandVars, Outstanding, InAnswers, Of
  <2>3. NoneSent' /\ CheckpointsCover'
    BY <2>1 DEF Whole, NoneSent, Booked, CheckpointsCover, dirVars
  <2>4. QED  BY <2>1, <2>2, <2>3, OpeningWhole
<1>3. CASE Overtaken
  BY <1>3, DeathWhole
<1>4. ASSUME NEW r \in Request, NEW o \in AppendOutcome, OtherSends(r, o)
      PROVE  Whole'
  <2>1. /\ UNCHANGED <<handle, costFile, synced, created, checkpoint, fallback,
                       processVars, charged, late>>
        /\ unheld' = unheld \cup {r} /\ issued' = issued \cup {r}
    BY <1>4 DEF OtherSends
  <2>2. /\ Outstanding' = Outstanding /\ r \notin sent \cup Outstanding
        /\ sent' \subseteq sent \cup {r}
        /\ sent \subseteq sent'
    BY <1>4, OtherSendsMoney DEF OtherSends
  <2>3. UNCHANGED <<session, anchored, status, answers>>
    BY <2>1 DEF processVars, commandVars
  <2>4. Booked' = Booked
    BY <2>1, <2>2 DEF Booked
  <2>5. Usable' /\ Unheld' /\ NoneSent'
    BY <2>1, <2>2, <2>3, <2>4 DEF Whole, Usable, Unheld, NoneSent
  <2>6. CheckpointsCover'
    BY <2>1, <2>4, CheckpointsStay DEF Whole
  <2>7. Due' \subseteq Due /\ \A x \in Due' : Owed'[x] <= Owed[x]
    BY <2>1, <2>2, <2>4, OwedShrinks, DueFinite DEF SessionInv
  <2>8. Survivors' = Survivors
    BY <2>1, SurvivorsSame
  <2>9. QED  BY <2>1, <2>3, <2>5, <2>6, <2>7, <2>8, QuietWhole
<1>5. QED  BY <1>1, <1>2, <1>3, <1>4 DEF Others

LEMMA RequestsWhole ==
  ASSUME SessionInv, SessionInv', MoneyInv, MoneyInv', Whole, Next, Requests
  PROVE  Whole'
<1>1. ASSUME NEW r \in Request, NEW o \in Outcome, ReserveRequest(r, o)
      PROVE  Whole'
  BY <1>1, ReserveWhole
<1>2. ASSUME NEW o \in AppendOutcome, ReserveRefused \/ EndBatch \/ StartRequest(o)
      PROVE  Whole'
  <2>1. /\ UNCHANGED <<session, anchored, created, checkpoint, fallback, unheld, late>>
        /\ answers' = answers \/ answers' = << >>
    BY <1>2 DEF ReserveRefused, EndBatch, StartRequest, dirVars, historyVars, otherVars, Idle
  <2>2. /\ UNCHANGED <<sent, charged, status, ledgerVars>>
        /\ Outstanding' = {} \/ Outstanding' = Outstanding
    BY <1>2, QuietMoney, StartedMoney
  <2>3. CheckpointsCover'
    BY <2>1, <2>2, CheckpointsStay DEF Whole, Booked
  <2>4. QED  BY <2>1, <2>2, <2>3, RestWhole
<1>3. CASE Send
  BY <1>3, SendWhole
<1>4. ASSUME NEW r \in Request, Answered(r)
      PROVE  Whole'
  BY <1>4, AnsweredWhole
<1>5. "ok" \in AppendOutcome
  BY DEF AppendOutcome
<1>6. QED  BY <1>1, <1>2, <1>3, <1>4, <1>5 DEF Requests

LEMMA RecordsWhole ==
  ASSUME SessionInv, SessionInv', MoneyInv, MoneyInv', Whole, Next, Records
  PROVE  Whole'
<1>1. ASSUME NEW o \in Outcome, SettleRequest(o)
      PROVE  Whole'
  BY <1>1, SettleWhole
<1>2. ASSUME NEW o \in AppendOutcome,
             SettleRefused \/ NoteUsage(o) \/ NoteUnmetered(o) \/ NoteAmbiguous(o)
               \/ NoteStopped
      PROVE  Whole'
  <2>1. UNCHANGED <<session, anchored, created, checkpoint, fallback, unheld, late>>
    BY <1>2 DEF SettleRefused, NoteUsage, NoteUnmetered, NoteAmbiguous, NoteStopped,
       dirVars, historyVars, otherVars
  <2>2. /\ UNCHANGED <<sent, charged, status, ledgerVars>>
        /\ Outstanding' \subseteq Outstanding
        /\ answers' = answers \/ answers' = << >> \/ answers' = Tail(answers)
    <3>1. CASE SettleRefused
      BY <3>1, QuietMoney DEF SettleRefused, Idle
    <3>2. QED  BY <1>2, <3>1, UnreleasedMoney
  <2>3. CheckpointsCover'
    BY <2>1, <2>2, CheckpointsStay DEF Whole, Booked
  <2>4. QED  BY <2>1, <2>2, <2>3, RestWhole
<1>3. "ok" \in AppendOutcome
  BY DEF AppendOutcome
<1>4. QED  BY <1>1, <1>2, <1>3 DEF Records

LEMMA WholeStep ==
  ASSUME SessionInv, SessionInv', MoneyInv, MoneyInv', CheckpointTypes, Whole, [Next]_vars
  PROVE  Whole'
<1>1. CASE Next /\ (CreateSession \/ Attach \/ AttachRefused \/ Resume)
  BY <1>1, AttachingWhole
<1>2. CASE Next /\ Command
  BY <1>2, CommandWhole, CommandMoney
<1>3. CASE Next /\ Requests
  BY <1>3, RequestsWhole
<1>4. CASE Next /\ Records
  BY <1>4, RecordsWhole
<1>5. CASE Next /\ Others
  BY <1>5, OthersWhole
<1>6. CASE Next /\ (Crash \/ PowerFails)
  BY <1>6, DeathWhole
<1>7. CASE UNCHANGED vars
  <2>1. UNCHANGED <<ledgerVars, dirVars, processVars, historyVars>>
    BY <1>7 DEF vars
  <2>2. UNCHANGED <<sent, charged, unheld, late, session, anchored, created, checkpoint,
                    fallback, status, answers>>
    BY <2>1 DEF dirVars, processVars, commandVars, historyVars, otherVars
  <2>3. Outstanding' = Outstanding
    BY <2>1, <2>2, RestMoney
  <2>4. CheckpointsCover'
    BY <2>2, CheckpointsStay DEF Whole, Booked
  <2>5. QED  BY <2>1, <2>2, <2>3, <2>4, RestWhole
<1>8. QED  BY <1>1, <1>2, <1>3, <1>4, <1>5, <1>6, <1>7 DEF Next

LEMMA InitWhole == Init => Whole
<1>1. SUFFICES ASSUME Init PROVE Whole
  OBVIOUS
<1>2. /\ handle = "memory" /\ costFile = << >>
      /\ ~session /\ ~anchored /\ checkpoint = None /\ fallback = None
      /\ sent = {} /\ answers = << >> /\ batch = {} /\ cur = None /\ unheld = {}
  BY <1>1 DEF Init, LedgerInit
<1>3. Outstanding = {} /\ Due = {} /\ Booked = {}
  BY <1>2, NothingOutstanding DEF Due, Booked
<1>4. Usable /\ Unheld /\ NoneSent /\ StatusCoversCharges /\ ChargesKnown
  BY <1>2, <1>3 DEF Usable, Unheld, NoneSent, StatusCoversCharges, ChargesKnown
<1>5. SurvivorsCover
  BY <1>3 DEF SurvivorsCover, Covers
<1>6. CheckpointsCover
  BY <1>2 DEF CheckpointsCover, Behind
<1>7. QED  BY <1>4, <1>5, <1>6 DEF Whole

LEMMA WholeCovers ==
  ASSUME SessionInv, MoneyInv, Whole
  PROVE  EveryChargeIsHeld /\ ShownCostCoversCharges
<1>1. /\ IsFiniteSet(Due) /\ Due \in SUBSET Request /\ Booked \in SUBSET Due
      /\ \A r \in Request : Owed[r] \in Nat /\ CappedCharge[r] \in Nat
  BY DueFinite DEF SessionInv, Due, Booked
<1>2. \A r \in Request : CappedCharge[r] <= Owed[r]
  BY <1>1, Capped, CostAssumption DEF Owed
<1>3. EveryChargeIsHeld
  <2>1. ASSUME NEW r \in sent \ unheld, NEW log \in Survivors
        PROVE  LET holds == Replay(log).ledger
               IN r \in Holding(holds) /\ CappedCharge[r] <= holds.reservations[r].cost
    <3> DEFINE holds == Replay(log).ledger
    <3>1. Covers(holds, Due, Owed) /\ WellFormed(holds)
      BY SurvivorsReplay DEF MoneyInv, Whole, SurvivorsCover, Sound
    <3> HIDE DEF holds
    <3>2. \A x \in Holding(holds) : holds.reservations[x].cost \in Nat
      BY <3>1, CostsAreNat
    <3>3. r \in Holding(holds) /\ Owed[r] <= holds.reservations[r].cost /\ r \in Request
      BY <1>1, <3>1 DEF Covers, Booked
    <3>4. CappedCharge[r] <= holds.reservations[r].cost
      BY <1>1, <1>2, <3>2, <3>3
    <3>5. QED  BY <3>3, <3>4 DEF holds
  <2>2. QED  BY <2>1 DEF EveryChargeIsHeld
<1>4. ShownCostCoversCharges
  <2>1. SumFunctionOnSet(CappedCharge, Booked) <= SumFunctionOnSet(CappedCharge, Due)
    BY <1>1, SumOfPart
  <2>2. SumFunctionOnSet(CappedCharge, Due) <= SumFunctionOnSet(Owed, Due)
    BY <1>1, <1>2, SumGrows
  <2>3. /\ SumFunctionOnSet(CappedCharge, Booked) \in Nat
        /\ SumFunctionOnSet(CappedCharge, Due) \in Nat
        /\ SumFunctionOnSet(Owed, Due) \in Nat
    BY <1>1, SumTakes, FS_Subset
  <2>4. QED  BY <2>1, <2>2, <2>3 DEF Whole, StatusCoversCharges, ShownCostCoversCharges,
                                     Booked, MoneyInv, MoneyTypes, CostStatus
<1>5. QED  BY <1>3, <1>4

-----------------------------------------------------------------------------
(***************************************************************************)
(* The charges are covered.                                                *)
(***************************************************************************)

\* Whatever the provider charges for a request of a process that has the
\* ledger is held on it up to the maximum, and shown to the human unless a
\* process attached late, whatever fails and whatever other processes do
\* (reserve_request, record_model_completion, write_checkpoint).
THEOREM ChargesCovered == Spec => []ChargesAreCovered
<1>1. Init => DirectoryInv /\ Whole
  BY InitDirectory, InitWhole
<1>2. DirectoryInv /\ Whole /\ [Next]_vars => DirectoryInv' /\ Whole'
  BY DirectoryStep, WholeStep DEF DirectoryInv
<1>3. DirectoryInv /\ Whole => ChargesAreCovered
  BY WholeCovers DEF DirectoryInv, ChargesAreCovered
<1>4. QED  BY <1>1, <1>2, <1>3, PTL DEF Spec
=============================================================================
