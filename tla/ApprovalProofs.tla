----------------------------- MODULE ApprovalProofs -----------------------------
(***************************************************************************)
(* Proofs about ApprovalJournal, for every number of processes, changesets *)
(* and files, every environment and every bound.                           *)
(***************************************************************************)
EXTENDS ApprovalRefinement, TLAPS

USE AbsentAssumption, NoneAssumption, SeedAssumption, BoundAssumption,
    EnvironmentAssumption
USE DEF Value, canonVars, journalVars, processVars

LocalsInv == TypeOK /\ LocalsOK

\* Updating one file of one changeset keeps the type of staged and old.
LEMMA TwoIndexUpdate ==
  ASSUME NEW g \in [Change -> [File -> Value]],
         NEW c \in Change, NEW f \in File, NEW v \in Value
  PROVE  [g EXCEPT ![c][f] = v] \in [Change -> [File -> Value]]
<1>1. [g[c] EXCEPT ![f] = v] \in [File -> Value]
  OBVIOUS
<1>2. [g EXCEPT ![c][f] = v] = [g EXCEPT ![c] = [g[c] EXCEPT ![f] = v]]
  OBVIOUS
<1> QED
  BY <1>1, <1>2

LEMMA InitType == Init => TypeOK
<1> SUFFICES ASSUME Init PROVE TypeOK
  OBVIOUS
<1>1. CanonRoot \in Root
  BY DEF Init, CanonRoot, Root, RecordState
<1>2. draft \in [Change -> Draft]
  BY <1>1 DEF Init, Draft
<1> QED
  BY <1>2 DEF Init, TypeOK, RecordState, Phase, Label, NoFile

LEMMA TypeStep == LocalsInv /\ [Next]_vars => TypeOK'
<1> SUFFICES ASSUME LocalsInv, [Next]_vars PROVE TypeOK'
  OBVIOUS
<1> USE DEF LocalsInv, Label, Locked, BeforePrepared, AfterPrepared, Swapping
<1>1. ASSUME NEW c \in Change, NEW k \in 1..MaxOrder, NEW after \in Plans,
             DraftChange(c, k, after)
      PROVE  TypeOK'
  <2>1. CanonRoot \in Root
    BY DEF TypeOK, CanonRoot, Root
  <2>2. [order |-> k, base |-> CanonRoot, after |-> after] \in Draft
    BY <2>1 DEF Draft
  <2>3. draft' \in [Change -> Draft]
    BY <1>1, <2>2 DEF DraftChange, TypeOK
  <2>4. cand' \in [Change -> [File -> Value]]
    BY <1>1 DEF DraftChange, TypeOK
  <2> QED
    BY <1>1, <2>3, <2>4 DEF DraftChange, TypeOK
<1>2. ASSUME NEW p \in Process, NEW c \in Change, RequestApproval(p, c)
      PROVE  TypeOK'
  <2>1. Dependency(c) \in Change \cup {None}
    BY DEF Dependency, Previous, Recorded
  <2> QED
    BY <1>2, <2>1 DEF RequestApproval, TypeOK, Goto
<1>3. ASSUME NEW p \in Process, AcquireLock(p) PROVE TypeOK'
  BY <1>3 DEF AcquireLock, TypeOK, Goto
<1>4. ASSUME NEW p \in Process, ApplyStep(p) PROVE TypeOK'
  <2>0. lock = p /\ cur[p] \in Change
    BY <1>4 DEF ApplyStep, LocalsOK, TypeOK, Running, Recover, Validate, CreateTransaction, Snapshot, CheckTarget, StageProof, WriteJournal, RenamePrepared, RenameCommitted, SyncPrepared, SyncCommitted, Preserve, Recheck, Install, VerifyInstalled, InstallApprovalRecord, CheckRoot
  <2> USE DEF Goto, Release, ProceedIf, LocalsKept, Running
  <2>1. CASE Recover(p)
    BY <2>1, ZenonT(60) DEF Recover, TypeOK
  <2>2. CASE Validate(p)
    BY <2>2, ZenonT(60) DEF Validate, TypeOK
  <2>3. CASE CreateTransaction(p)
    BY <2>0, <2>3, ZenonT(60) DEF CreateTransaction, TypeOK, Targets, Phase
  <2>4. ASSUME NEW f \in File, Snapshot(p, f) PROVE TypeOK'
    <3>1. cand[cur[p]][f] \in Value /\ staged[cur[p]] \in [File -> Value]
      BY <2>0 DEF TypeOK
    <3>2. staged' \in [Change -> [File -> Value]]
      <4> DEFINE v == IF After(cur[p], f) = Absent THEN Absent ELSE cand[cur[p]][f]
      <4>1. [staged EXCEPT ![cur[p]][f] = v] \in [Change -> [File -> Value]]
        <5>1. v \in Value
          BY <3>1
        <5> QED
          BY <2>0, <5>1, TwoIndexUpdate DEF TypeOK
      <4>2. staged' \in {staged, [staged EXCEPT ![cur[p]][f] = v]}
        BY <2>4 DEF Snapshot
      <4> QED
        BY <4>1, <4>2 DEF TypeOK
    <3>3. pc' \in [Process -> Label]
      <4>1. \A l \in Label : [pc EXCEPT ![p] = l] \in [Process -> Label]
        BY DEF TypeOK
      <4>2. \E l \in {"stage", "snapshot", "idle"} : pc' = [pc EXCEPT ![p] = l]
        BY <2>4 DEF Snapshot
      <4> QED
        BY <4>1, <4>2
    <3> QED
      BY <2>4, <3>2, <3>3, ZenonT(60) DEF Snapshot, TypeOK
  <2>5. ASSUME NEW f \in File, CheckTarget(p, f) PROVE TypeOK'
    BY <2>0, <2>5, ZenonT(60) DEF CheckTarget, TypeOK
  <2>6. CASE StageProof(p)
    BY <2>0, <2>6 DEF StageProof, TypeOK
  <2>7. CASE WriteJournal(p)
    BY <2>0, <2>7 DEF WriteJournal, TypeOK
  <2>8. CASE RenamePrepared(p)
    BY <2>0, <2>8 DEF RenamePrepared, RenameJournal, TypeOK, Phase
  <2>9. CASE RenameCommitted(p)
    BY <2>0, <2>9 DEF RenameCommitted, RenameJournal, TypeOK, Phase
  <2>10. CASE SyncPrepared(p)
    BY <2>0, <2>10 DEF SyncPrepared, TypeOK, Targets
  <2>11. CASE SyncCommitted(p)
    BY <2>0, <2>11 DEF SyncCommitted, TypeOK
  <2>12. CASE Preserve(p)
    <3>1. file \in File /\ live[file] \in Value
      BY <2>0, <2>12 DEF Preserve, TypeOK, LocalsOK
    <3>2. old' \in [Change -> [File -> Value]]
      <4> DEFINE v == live[file]
      <4>1. [old EXCEPT ![cur[p]][file] = v] \in [Change -> [File -> Value]]
        <5>1. v \in Value
          BY <3>1
        <5> QED
          BY <2>0, <3>1, <5>1, TwoIndexUpdate DEF TypeOK
      <4>2. old' \in {old, [old EXCEPT ![cur[p]][file] = v]}
        BY <2>12 DEF Preserve
      <4> QED
        BY <4>1, <4>2 DEF TypeOK
    <3>3. live' \in [File -> Value]
      BY <2>12, <3>1 DEF Preserve, TypeOK
    <3> QED
      BY <2>12, <3>2, <3>3, ZenonT(60) DEF Preserve, TypeOK
  <2>13. CASE Recheck(p)
    BY <2>0, <2>13, ZenonT(60) DEF Recheck, EntryDone, TypeOK
  <2>14. CASE Install(p)
    <3>1. file \in File /\ staged[cur[p]][file] \in Value
      BY <2>0, <2>14 DEF Install, TypeOK, LocalsOK
    <3>2. staged' \in [Change -> [File -> Value]]
      <4> DEFINE v == Absent
      <4>1. [staged EXCEPT ![cur[p]][file] = v] \in [Change -> [File -> Value]]
        <5>1. v \in Value
          BY <3>1
        <5> QED
          BY <2>0, <3>1, <5>1, TwoIndexUpdate DEF TypeOK
      <4>2. staged' \in {staged, [staged EXCEPT ![cur[p]][file] = v]}
        BY <2>14 DEF Install
      <4> QED
        BY <4>1, <4>2 DEF TypeOK
    <3>3. live' \in [File -> Value]
      BY <2>14, <3>1 DEF Install, TypeOK
    <3> QED
      BY <2>14, <3>2, <3>3, ZenonT(60) DEF Install, TypeOK
  <2>15. CASE VerifyInstalled(p)
    BY <2>0, <2>15, ZenonT(60) DEF VerifyInstalled, EntryDone, TypeOK
  <2>16. CASE InstallApprovalRecord(p)
    BY <2>0, <2>16, ZenonT(60) DEF InstallApprovalRecord, TypeOK, RecordState
  <2>17. CASE CheckRoot(p)
    BY <2>0, <2>17, ZenonT(60) DEF CheckRoot, TypeOK
  <2> QED
    BY <1>4, <2>1, <2>2, <2>3, <2>4, <2>5, <2>6, <2>7, <2>8, <2>9, <2>10, <2>11,
       <2>12, <2>13, <2>14, <2>15, <2>16, <2>17 DEF ApplyStep
<1>5. ASSUME NEW p \in Process, Fault(p) PROVE TypeOK'
  <2> USE DEF Goto, Release
  <2>1. CASE SyncFails(p)
    BY <2>1 DEF SyncFails, TypeOK, LocalsOK, Running
  <2>2. CASE IoFails(p)
    BY <2>2 DEF IoFails, TypeOK
  <2>3. CASE Crash(p)
    BY <2>3 DEF Crash, TypeOK
  <2> QED
    BY <1>5, <2>1, <2>2, <2>3 DEF Fault
<1>6. CASE PowerLoss
  BY <1>6 DEF PowerLoss, TypeOK, Phase
<1>7. CASE Editor
  <2>1. ASSUME NEW f \in File, NEW v \in Value, EditCanon(f, v) PROVE TypeOK'
    BY <2>1 DEF EditCanon, OutsideEdit, TypeOK
  <2>2. ASSUME NEW c \in Change, NEW s \in RecordState, EditRecord(c, s) PROVE TypeOK'
    BY <2>2 DEF EditRecord, OutsideEdit, TypeOK
  <2>3. ASSUME NEW c \in Change, NEW f \in File, NEW v \in Value, EditCandidate(c, f, v)
        PROVE  TypeOK'
    BY <2>3 DEF EditCandidate, OutsideEdit, TypeOK
  <2> QED
    BY <1>7, <2>1, <2>2, <2>3 DEF Editor
<1>8. CASE UNCHANGED vars
  BY <1>8 DEF vars, TypeOK
<1> QED
  BY <1>1, <1>2, <1>3, <1>4, <1>5, <1>6, <1>7, <1>8 DEF Next

LEMMA InitLocals == Init => LocalsOK
BY DEF Init, LocalsOK, Locked, BeforePrepared, AfterPrepared, Swapping

\* An apply that returns leaves the locals in order.
LEMMA ReleaseLocals ==
  ASSUME LocalsInv, NEW p \in Process, lock = p, Release(p)
  PROVE  LocalsOK'
BY DEF LocalsInv, TypeOK, LocalsOK, Release, Label, Locked, BeforePrepared,
       AfterPrepared, Swapping

\* So does one that goes on with its next step.
LEMMA GotoLocals ==
  ASSUME LocalsInv, NEW p \in Process, lock = p, NEW l \in Locked, Goto(p, l),
         UNCHANGED <<lock, cur>>,
         l \in Swapping \ {"check"} => file' \in todo'
  PROVE  LocalsOK'
<1>1. pc' = [pc EXCEPT ![p] = l] /\ pc \in [Process -> Label]
  BY DEF LocalsInv, TypeOK, Goto
<1>2. \A q \in Process : pc'[q] \in Locked <=> lock' = q
  BY <1>1 DEF LocalsInv, LocalsOK
<1>3. \A q \in Process : pc'[q] # "idle" => cur'[q] \in Change
  BY <1>1 DEF LocalsInv, LocalsOK, Locked, BeforePrepared, AfterPrepared, Swapping
<1>4. lock' # None /\ pc'[lock'] \in Swapping \ {"check"} => file' \in todo'
  BY <1>1
<1> QED
  BY <1>2, <1>3, <1>4 DEF LocalsOK

LEMMA LocalsStep == LocalsInv /\ [Next]_vars => LocalsOK'
<1> SUFFICES ASSUME LocalsInv, [Next]_vars PROVE LocalsOK'
  OBVIOUS
<1> USE DEF LocalsInv, TypeOK, Label, Locked, BeforePrepared, AfterPrepared, Swapping
<1>1. ASSUME NEW c \in Change, NEW k \in 1..MaxOrder, NEW after \in Plans,
             DraftChange(c, k, after)
      PROVE  LocalsOK'
  BY <1>1 DEF DraftChange, LocalsOK, Goto
<1>2. ASSUME NEW p \in Process, NEW c \in Change, RequestApproval(p, c) PROVE LocalsOK'
  BY <1>2 DEF RequestApproval, LocalsOK, Goto
<1>3. ASSUME NEW p \in Process, AcquireLock(p) PROVE LocalsOK'
  BY <1>3 DEF AcquireLock, LocalsOK, Goto
<1>4. ASSUME NEW p \in Process, ApplyStep(p) PROVE LocalsOK'
  <2>1. CASE Recover(p)
    BY <2>1, ReleaseLocals, GotoLocals DEF Recover, Running, ProceedIf, LocalsKept
  <2>2. CASE Validate(p)
    BY <2>2, ReleaseLocals, GotoLocals DEF Validate, Running, ProceedIf, LocalsKept
  <2>3. CASE CreateTransaction(p)
    BY <2>3, ReleaseLocals, GotoLocals DEF CreateTransaction, Running, ProceedIf, LocalsKept
  <2>4. ASSUME NEW f \in File, Snapshot(p, f) PROVE LocalsOK'
    BY <2>4, ReleaseLocals, GotoLocals DEF Snapshot, Running, ProceedIf, LocalsKept
  <2>5. ASSUME NEW f \in File, CheckTarget(p, f) PROVE LocalsOK'
    BY <2>5, ReleaseLocals, GotoLocals DEF CheckTarget, Running, ProceedIf, LocalsKept
  <2>6. CASE StageProof(p)
    BY <2>6, ReleaseLocals, GotoLocals DEF StageProof, Running, ProceedIf, LocalsKept
  <2>7. CASE WriteJournal(p)
    BY <2>7, ReleaseLocals, GotoLocals DEF WriteJournal, Running, ProceedIf, LocalsKept
  <2>8. CASE RenamePrepared(p)
    BY <2>8, ReleaseLocals, GotoLocals DEF RenamePrepared, RenameJournal, Running, ProceedIf, LocalsKept
  <2>9. CASE RenameCommitted(p)
    BY <2>9, ReleaseLocals, GotoLocals DEF RenameCommitted, RenameJournal, Running, ProceedIf, LocalsKept
  <2>10. CASE SyncPrepared(p)
    BY <2>10, ReleaseLocals, GotoLocals DEF SyncPrepared, Running, ProceedIf, LocalsKept
  <2>11. CASE SyncCommitted(p)
    BY <2>11, ReleaseLocals, GotoLocals DEF SyncCommitted, Running, ProceedIf, LocalsKept
  <2>12. CASE Preserve(p)
    <3>1. lock = p /\ file \in todo
      BY <2>12 DEF Preserve, Running, LocalsOK
    <3> QED
      BY <2>12, <3>1, ReleaseLocals, GotoLocals DEF Preserve, Running, ProceedIf, LocalsKept
  <2>13. CASE Recheck(p)
    <3>1. lock = p /\ file \in todo
      BY <2>13 DEF Recheck, Running, LocalsOK
    <3> QED
      BY <2>13, <3>1, ReleaseLocals, GotoLocals DEF Recheck, EntryDone, Running, ProceedIf, LocalsKept
  <2>14. CASE Install(p)
    <3>1. lock = p /\ file \in todo
      BY <2>14 DEF Install, Running, LocalsOK
    <3> QED
      BY <2>14, <3>1, ReleaseLocals, GotoLocals DEF Install, Running, ProceedIf, LocalsKept
  <2>15. CASE VerifyInstalled(p)
    BY <2>15, ReleaseLocals, GotoLocals DEF VerifyInstalled, EntryDone, Running, ProceedIf, LocalsKept
  <2>16. CASE InstallApprovalRecord(p)
    BY <2>16, ReleaseLocals, GotoLocals DEF InstallApprovalRecord, Running, ProceedIf, LocalsKept
  <2>17. CASE CheckRoot(p)
    BY <2>17, ReleaseLocals, GotoLocals DEF CheckRoot, Running, ProceedIf, LocalsKept
  <2> QED
    BY <1>4, <2>1, <2>2, <2>3, <2>4, <2>5, <2>6, <2>7, <2>8, <2>9,
       <2>10, <2>11, <2>12, <2>13, <2>14, <2>15, <2>16, <2>17 DEF ApplyStep
<1>5. ASSUME NEW p \in Process, Fault(p) PROVE LocalsOK'
  <2>1. CASE SyncFails(p)
    BY <2>1 DEF SyncFails, LocalsOK, Goto, Release, Running
  <2>2. CASE IoFails(p)
    BY <2>2 DEF IoFails, LocalsOK, Goto, Release, Running
  <2>3. CASE Crash(p)
    <3>1. CASE lock = p
      BY <2>3, <3>1, ReleaseLocals DEF Crash
    <3>2. CASE lock # p
      <4>1. pc' = [pc EXCEPT ![p] = "idle"] /\ pc[p] \notin Locked
        BY <2>3, <3>2 DEF Crash, LocalsOK, Goto
      <4>2. \A q \in Process : pc'[q] \in Locked <=> lock' = q
        BY <2>3, <3>2, <4>1 DEF Crash, LocalsOK
      <4>3. \A q \in Process : pc'[q] # "idle" => cur'[q] \in Change
        BY <2>3, <3>2, <4>1 DEF Crash, LocalsOK
      <4>4. lock' # None /\ pc'[lock'] \in Swapping \ {"check"} => file' \in todo'
        BY <2>3, <3>2, <4>1 DEF Crash, LocalsOK
      <4> QED
        BY <4>2, <4>3, <4>4 DEF LocalsOK
    <3> QED
      BY <3>1, <3>2
  <2> QED
    BY <1>5, <2>1, <2>2, <2>3 DEF Fault
<1>6. CASE PowerLoss
  BY <1>6 DEF PowerLoss, LocalsOK, Goto, Release, Running
<1>7. CASE Editor
  BY <1>7 DEF Editor, EditCanon, EditRecord, EditCandidate, OutsideEdit, LocalsOK, Goto, Release, Running
<1>8. CASE UNCHANGED vars
  BY <1>8 DEF vars, LocalsOK, Goto, Release, Running
<1> QED
  BY <1>1, <1>2, <1>3, <1>4, <1>5, <1>6, <1>7, <1>8 DEF Next

LEMMA UnsettledStep == SafetyInv /\ LocalsOK' /\ [Next]_vars => OneUnsettled'
<1> SUFFICES ASSUME SafetyInv, LocalsOK', [Next]_vars PROVE OneUnsettled'
  OBVIOUS
<1> USE DEF SafetyInv, TypeOK, LocalsOK, Label, Locked, BeforePrepared, AfterPrepared, Swapping, Goto, Release, ProceedIf, LocalsKept, Running
<1>1. ASSUME NEW c \in Change, NEW k \in 1..MaxOrder, NEW after \in Plans,
             DraftChange(c, k, after)
      PROVE  OneUnsettled'
  BY <1>1 DEF DraftChange, OneUnsettled, Owning, Settled, PhaseAt, Transactions, AckedIsDurable, Committed
<1>2. ASSUME NEW p \in Process, NEW c \in Change, RequestApproval(p, c) PROVE OneUnsettled'
  BY <1>2 DEF RequestApproval, OneUnsettled, Owning, Settled, PhaseAt, Transactions, AckedIsDurable, Committed
<1>3. ASSUME NEW p \in Process, AcquireLock(p) PROVE OneUnsettled'
  BY <1>3 DEF AcquireLock, OneUnsettled, Owning, Settled, PhaseAt, Transactions, AckedIsDurable, Committed
<1>4. ASSUME NEW p \in Process, ApplyStep(p) PROVE OneUnsettled'
  <2>1. CASE Recover(p)
    <3>1. CASE RecoveryPasses
      <4>1. \A d \in Change : Settled(d)
        BY <3>1 DEF RecoveryPasses, HasReceipt, Loads, OneUnsettled, Transactions, Settled
      <4> QED
        BY <2>1, <3>1, <4>1 DEF Recover, OneUnsettled, Owning, Settled, Transactions
    <3>2. CASE ~RecoveryPasses
      BY <2>1, <3>2 DEF Recover, OneUnsettled, Owning, Transactions
    <3> QED
      BY <3>1, <3>2
  <2>2. CASE Validate(p)
    BY <2>2 DEF Validate, OneUnsettled, Owning, Settled, PhaseAt, Transactions, AckedIsDurable, Committed
  <2>3. CASE CreateTransaction(p)
    BY <2>3 DEF CreateTransaction, OneUnsettled, Owning, Settled, PhaseAt, Transactions, AckedIsDurable, Committed
  <2>4. ASSUME NEW f \in File, Snapshot(p, f) PROVE OneUnsettled'
    BY <2>4 DEF Snapshot, OneUnsettled, Owning, Settled, PhaseAt, Transactions, AckedIsDurable, Committed
  <2>5. ASSUME NEW f \in File, CheckTarget(p, f) PROVE OneUnsettled'
    BY <2>5 DEF CheckTarget, OneUnsettled, Owning, Settled, PhaseAt, Transactions, AckedIsDurable, Committed
  <2>6. CASE StageProof(p)
    BY <2>6 DEF StageProof, OneUnsettled, Owning, Settled, PhaseAt, Transactions, AckedIsDurable, Committed
  <2>7. CASE WriteJournal(p)
    BY <2>7 DEF WriteJournal, OneUnsettled, Owning, Settled, PhaseAt, Transactions, AckedIsDurable, Committed
  <2>8. CASE RenamePrepared(p)
    BY <2>8 DEF RenamePrepared, RenameJournal, OneUnsettled, Owning, Settled, PhaseAt, Transactions, AckedIsDurable, Committed
  <2>9. CASE RenameCommitted(p)
    BY <2>9 DEF RenameCommitted, RenameJournal, OneUnsettled, Owning, Settled, PhaseAt, Transactions, AckedIsDurable, Committed
  <2>10. CASE SyncPrepared(p)
    BY <2>10 DEF SyncPrepared, OneUnsettled, Owning, Settled, PhaseAt, Transactions, AckedIsDurable, Committed
  <2>11. CASE SyncCommitted(p)
    BY <2>11 DEF SyncCommitted, OneUnsettled, Owning, Settled, PhaseAt, Transactions, AckedIsDurable, Committed
  <2>12. CASE Preserve(p)
    BY <2>12 DEF Preserve, OneUnsettled, Owning, Settled, PhaseAt, Transactions, AckedIsDurable, Committed
  <2>13. CASE Recheck(p)
    BY <2>13 DEF Recheck, EntryDone, OneUnsettled, Owning, Settled, PhaseAt, Transactions, AckedIsDurable, Committed
  <2>14. CASE Install(p)
    BY <2>14 DEF Install, OneUnsettled, Owning, Settled, PhaseAt, Transactions, AckedIsDurable, Committed
  <2>15. CASE VerifyInstalled(p)
    BY <2>15 DEF VerifyInstalled, EntryDone, OneUnsettled, Owning, Settled, PhaseAt, Transactions, AckedIsDurable, Committed
  <2>16. CASE InstallApprovalRecord(p)
    BY <2>16 DEF InstallApprovalRecord, OneUnsettled, Owning, Settled, PhaseAt, Transactions, AckedIsDurable, Committed
  <2>17. CASE CheckRoot(p)
    BY <2>17 DEF CheckRoot, OneUnsettled, Owning, Settled, PhaseAt, Transactions, AckedIsDurable, Committed
  <2> QED
    BY <1>4, <2>1, <2>2, <2>3, <2>4, <2>5, <2>6, <2>7, <2>8, <2>9,
       <2>10, <2>11, <2>12, <2>13, <2>14, <2>15, <2>16, <2>17 DEF ApplyStep
<1>5. ASSUME NEW p \in Process, Fault(p) PROVE OneUnsettled'
  <2>1. CASE SyncFails(p)
    BY <2>1 DEF SyncFails, OneUnsettled, Owning, Settled, PhaseAt, Transactions, AckedIsDurable, Committed
  <2>2. CASE IoFails(p)
    BY <2>2 DEF IoFails, OneUnsettled, Owning, Settled, PhaseAt, Transactions, AckedIsDurable, Committed
  <2>3. CASE Crash(p)
    BY <2>3 DEF Crash, OneUnsettled, Owning, Settled, PhaseAt, Transactions, AckedIsDurable, Committed
  <2> QED
    BY <1>5, <2>1, <2>2, <2>3 DEF Fault
<1>6. CASE PowerLoss
  BY <1>6 DEF PowerLoss, OneUnsettled, Owning, Settled, PhaseAt, Transactions, AckedIsDurable, Committed
<1>7. CASE Editor
  BY <1>7 DEF Editor, EditCanon, EditRecord, EditCandidate, OutsideEdit, OneUnsettled, Owning, Settled, PhaseAt, Transactions, AckedIsDurable, Committed
<1>8. CASE UNCHANGED vars
  BY <1>8 DEF vars, OneUnsettled, Owning, Settled, PhaseAt, Transactions, AckedIsDurable, Committed
<1> QED
  BY <1>1, <1>2, <1>3, <1>4, <1>5, <1>6, <1>7, <1>8 DEF Next

LEMMA AckedStep == SafetyInv /\ [Next]_vars => AckedIsDurable'
<1> SUFFICES ASSUME SafetyInv, [Next]_vars PROVE AckedIsDurable'
  OBVIOUS
<1> USE DEF SafetyInv, TypeOK, LocalsOK, Label, Locked, BeforePrepared, AfterPrepared, Swapping, Goto, Release, ProceedIf, LocalsKept, Running
<1>1. ASSUME NEW c \in Change, NEW k \in 1..MaxOrder, NEW after \in Plans,
             DraftChange(c, k, after)
      PROVE  AckedIsDurable'
  BY <1>1 DEF DraftChange, OneUnsettled, Owning, Settled, PhaseAt, Transactions, AckedIsDurable, Committed
<1>2. ASSUME NEW p \in Process, NEW c \in Change, RequestApproval(p, c) PROVE AckedIsDurable'
  BY <1>2 DEF RequestApproval, OneUnsettled, Owning, Settled, PhaseAt, Transactions, AckedIsDurable, Committed
<1>3. ASSUME NEW p \in Process, AcquireLock(p) PROVE AckedIsDurable'
  BY <1>3 DEF AcquireLock, OneUnsettled, Owning, Settled, PhaseAt, Transactions, AckedIsDurable, Committed
<1>4. ASSUME NEW p \in Process, ApplyStep(p) PROVE AckedIsDurable'
  <2>1. CASE Recover(p)
    BY <2>1 DEF Recover, OneUnsettled, Owning, Settled, PhaseAt, Transactions, AckedIsDurable, Committed
  <2>2. CASE Validate(p)
    BY <2>2 DEF Validate, OneUnsettled, Owning, Settled, PhaseAt, Transactions, AckedIsDurable, Committed
  <2>3. CASE CreateTransaction(p)
    BY <2>3 DEF CreateTransaction, OneUnsettled, Owning, Settled, PhaseAt, Transactions, AckedIsDurable, Committed
  <2>4. ASSUME NEW f \in File, Snapshot(p, f) PROVE AckedIsDurable'
    BY <2>4 DEF Snapshot, OneUnsettled, Owning, Settled, PhaseAt, Transactions, AckedIsDurable, Committed
  <2>5. ASSUME NEW f \in File, CheckTarget(p, f) PROVE AckedIsDurable'
    BY <2>5 DEF CheckTarget, OneUnsettled, Owning, Settled, PhaseAt, Transactions, AckedIsDurable, Committed
  <2>6. CASE StageProof(p)
    BY <2>6 DEF StageProof, OneUnsettled, Owning, Settled, PhaseAt, Transactions, AckedIsDurable, Committed
  <2>7. CASE WriteJournal(p)
    BY <2>7 DEF WriteJournal, OneUnsettled, Owning, Settled, PhaseAt, Transactions, AckedIsDurable, Committed
  <2>8. CASE RenamePrepared(p)
    BY <2>8 DEF RenamePrepared, RenameJournal, OneUnsettled, Owning, Settled, PhaseAt, Transactions, AckedIsDurable, Committed
  <2>9. CASE RenameCommitted(p)
    BY <2>9 DEF RenameCommitted, RenameJournal, OneUnsettled, Owning, Settled, PhaseAt, Transactions, AckedIsDurable, Committed
  <2>10. CASE SyncPrepared(p)
    BY <2>10 DEF SyncPrepared, OneUnsettled, Owning, Settled, PhaseAt, Transactions, AckedIsDurable, Committed
  <2>11. CASE SyncCommitted(p)
    BY <2>11 DEF SyncCommitted, OneUnsettled, Owning, Settled, PhaseAt, Transactions, AckedIsDurable, Committed
  <2>12. CASE Preserve(p)
    BY <2>12 DEF Preserve, OneUnsettled, Owning, Settled, PhaseAt, Transactions, AckedIsDurable, Committed
  <2>13. CASE Recheck(p)
    BY <2>13 DEF Recheck, EntryDone, OneUnsettled, Owning, Settled, PhaseAt, Transactions, AckedIsDurable, Committed
  <2>14. CASE Install(p)
    BY <2>14 DEF Install, OneUnsettled, Owning, Settled, PhaseAt, Transactions, AckedIsDurable, Committed
  <2>15. CASE VerifyInstalled(p)
    BY <2>15 DEF VerifyInstalled, EntryDone, OneUnsettled, Owning, Settled, PhaseAt, Transactions, AckedIsDurable, Committed
  <2>16. CASE InstallApprovalRecord(p)
    BY <2>16 DEF InstallApprovalRecord, OneUnsettled, Owning, Settled, PhaseAt, Transactions, AckedIsDurable, Committed
  <2>17. CASE CheckRoot(p)
    BY <2>17 DEF CheckRoot, OneUnsettled, Owning, Settled, PhaseAt, Transactions, AckedIsDurable, Committed
  <2> QED
    BY <1>4, <2>1, <2>2, <2>3, <2>4, <2>5, <2>6, <2>7, <2>8, <2>9,
       <2>10, <2>11, <2>12, <2>13, <2>14, <2>15, <2>16, <2>17 DEF ApplyStep
<1>5. ASSUME NEW p \in Process, Fault(p) PROVE AckedIsDurable'
  <2>1. CASE SyncFails(p)
    BY <2>1 DEF SyncFails, OneUnsettled, Owning, Settled, PhaseAt, Transactions, AckedIsDurable, Committed
  <2>2. CASE IoFails(p)
    BY <2>2 DEF IoFails, OneUnsettled, Owning, Settled, PhaseAt, Transactions, AckedIsDurable, Committed
  <2>3. CASE Crash(p)
    BY <2>3 DEF Crash, OneUnsettled, Owning, Settled, PhaseAt, Transactions, AckedIsDurable, Committed
  <2> QED
    BY <1>5, <2>1, <2>2, <2>3 DEF Fault
<1>6. CASE PowerLoss
  BY <1>6 DEF PowerLoss, OneUnsettled, Owning, Settled, PhaseAt, Transactions, AckedIsDurable, Committed
<1>7. CASE Editor
  BY <1>7 DEF Editor, EditCanon, EditRecord, EditCandidate, OutsideEdit, OneUnsettled, Owning, Settled, PhaseAt, Transactions, AckedIsDurable, Committed
<1>8. CASE UNCHANGED vars
  BY <1>8 DEF vars, OneUnsettled, Owning, Settled, PhaseAt, Transactions, AckedIsDurable, Committed
<1> QED
  BY <1>1, <1>2, <1>3, <1>4, <1>5, <1>6, <1>7, <1>8 DEF Next

LEMMA PreservedStep == SafetyInv /\ [Next]_vars => NothingPreserved'
<1> SUFFICES ASSUME SafetyInv, [Next]_vars PROVE NothingPreserved'
  OBVIOUS
<1> USE DEF SafetyInv, TypeOK, LocalsOK, Label, Locked, BeforePrepared, AfterPrepared, Swapping, Goto, Release, ProceedIf, LocalsKept, Running
<1>1. ASSUME NEW c \in Change, NEW k \in 1..MaxOrder, NEW after \in Plans,
             DraftChange(c, k, after)
      PROVE  NothingPreserved'
  BY <1>1 DEF DraftChange, NothingPreserved, MayBeUnprepared, OneUnsettled, Owning, Settled, PhaseAt, Transactions
<1>2. ASSUME NEW p \in Process, NEW c \in Change, RequestApproval(p, c) PROVE NothingPreserved'
  BY <1>2 DEF RequestApproval, NothingPreserved, MayBeUnprepared, OneUnsettled, Owning, Settled, PhaseAt, Transactions
<1>3. ASSUME NEW p \in Process, AcquireLock(p) PROVE NothingPreserved'
  BY <1>3 DEF AcquireLock, NothingPreserved, MayBeUnprepared, OneUnsettled, Owning, Settled, PhaseAt, Transactions
<1>4. ASSUME NEW p \in Process, ApplyStep(p) PROVE NothingPreserved'
  <2>1. CASE Recover(p)
    BY <2>1 DEF Recover, NothingPreserved, MayBeUnprepared, OneUnsettled, Owning, Settled, PhaseAt, Transactions
  <2>2. CASE Validate(p)
    BY <2>2 DEF Validate, NothingPreserved, MayBeUnprepared, OneUnsettled, Owning, Settled, PhaseAt, Transactions
  <2>3. CASE CreateTransaction(p)
    BY <2>3 DEF CreateTransaction, NothingPreserved, MayBeUnprepared, OneUnsettled, Owning, Settled, PhaseAt, Transactions
  <2>4. ASSUME NEW f \in File, Snapshot(p, f) PROVE NothingPreserved'
    BY <2>4 DEF Snapshot, NothingPreserved, MayBeUnprepared, OneUnsettled, Owning, Settled, PhaseAt, Transactions
  <2>5. ASSUME NEW f \in File, CheckTarget(p, f) PROVE NothingPreserved'
    BY <2>5 DEF CheckTarget, NothingPreserved, MayBeUnprepared, OneUnsettled, Owning, Settled, PhaseAt, Transactions
  <2>6. CASE StageProof(p)
    BY <2>6 DEF StageProof, NothingPreserved, MayBeUnprepared, OneUnsettled, Owning, Settled, PhaseAt, Transactions
  <2>7. CASE WriteJournal(p)
    BY <2>7 DEF WriteJournal, NothingPreserved, MayBeUnprepared, OneUnsettled, Owning, Settled, PhaseAt, Transactions
  <2>8. CASE RenamePrepared(p)
    <3>1. cur[p] \in Change /\ phase[cur[p]] = "created"
      BY <2>8 DEF RenamePrepared, OneUnsettled, Owning, PhaseAt
    <3>2. pc' = [pc EXCEPT ![p] = "syncPrepared"]
      BY <2>8 DEF RenamePrepared
    <3> QED
      BY <2>8, <3>1, <3>2 DEF RenamePrepared, RenameJournal, NothingPreserved, MayBeUnprepared
  <2>9. CASE RenameCommitted(p)
    BY <2>9 DEF RenameCommitted, RenameJournal, NothingPreserved, MayBeUnprepared, OneUnsettled, Owning, Settled, PhaseAt, Transactions
  <2>10. CASE SyncPrepared(p)
    <3>1. cur[p] \in Change /\ old[cur[p]] = NoFile
      BY <2>10 DEF SyncPrepared, NothingPreserved, MayBeUnprepared, OneUnsettled, Owning, PhaseAt
    <3>2. \A f \in Targets(cur[p]) : old[cur[p]][f] = Absent
      BY <3>1 DEF Targets, NoFile
    <3>3. pc' = [pc EXCEPT ![p] = "check"] /\ todo' = Targets(cur[p])
      BY <2>10 DEF SyncPrepared
    <3> QED
      BY <2>10, <3>1, <3>2, <3>3 DEF SyncPrepared, NothingPreserved, MayBeUnprepared
  <2>11. CASE SyncCommitted(p)
    BY <2>11 DEF SyncCommitted, NothingPreserved, MayBeUnprepared, OneUnsettled, Owning, Settled, PhaseAt, Transactions
  <2>12. CASE Preserve(p)
    BY <2>12 DEF Preserve, NothingPreserved, MayBeUnprepared, OneUnsettled, Owning, Settled, PhaseAt, Transactions
  <2>13. CASE Recheck(p)
    BY <2>13 DEF Recheck, EntryDone, NothingPreserved, MayBeUnprepared, OneUnsettled, Owning, Settled, PhaseAt, Transactions
  <2>14. CASE Install(p)
    BY <2>14 DEF Install, NothingPreserved, MayBeUnprepared, OneUnsettled, Owning, Settled, PhaseAt, Transactions
  <2>15. CASE VerifyInstalled(p)
    BY <2>15 DEF VerifyInstalled, EntryDone, NothingPreserved, MayBeUnprepared, OneUnsettled, Owning, Settled, PhaseAt, Transactions
  <2>16. CASE InstallApprovalRecord(p)
    BY <2>16 DEF InstallApprovalRecord, NothingPreserved, MayBeUnprepared, OneUnsettled, Owning, Settled, PhaseAt, Transactions
  <2>17. CASE CheckRoot(p)
    BY <2>17 DEF CheckRoot, NothingPreserved, MayBeUnprepared, OneUnsettled, Owning, Settled, PhaseAt, Transactions
  <2> QED
    BY <1>4, <2>1, <2>2, <2>3, <2>4, <2>5, <2>6, <2>7, <2>8, <2>9,
       <2>10, <2>11, <2>12, <2>13, <2>14, <2>15, <2>16, <2>17 DEF ApplyStep
<1>5. ASSUME NEW p \in Process, Fault(p) PROVE NothingPreserved'
  <2>1. CASE SyncFails(p)
    BY <2>1 DEF SyncFails, NothingPreserved, MayBeUnprepared, OneUnsettled, Owning, Settled, PhaseAt, Transactions
  <2>2. CASE IoFails(p)
    BY <2>2 DEF IoFails, NothingPreserved, MayBeUnprepared, OneUnsettled, Owning, Settled, PhaseAt, Transactions
  <2>3. CASE Crash(p)
    BY <2>3 DEF Crash, NothingPreserved, MayBeUnprepared, OneUnsettled, Owning, Settled, PhaseAt, Transactions
  <2> QED
    BY <1>5, <2>1, <2>2, <2>3 DEF Fault
<1>6. CASE PowerLoss
  <2>1. \A c \in Change : phase[c] \in Phase
    OBVIOUS
  <2>2. \A c \in Change : MayBeUnprepared(c)' => MayBeUnprepared(c)
    BY <1>6, <2>1 DEF PowerLoss, MayBeUnprepared, Phase
  <2>3. old' = old /\ \A p \in Process : lock' # p
    BY <1>6 DEF PowerLoss
  <2> QED
    BY <2>2, <2>3 DEF NothingPreserved
<1>7. CASE Editor
  BY <1>7 DEF Editor, EditCanon, EditRecord, EditCandidate, OutsideEdit, NothingPreserved, MayBeUnprepared, OneUnsettled, Owning, Settled, PhaseAt, Transactions
<1>8. CASE UNCHANGED vars
  BY <1>8 DEF vars, NothingPreserved, MayBeUnprepared, OneUnsettled, Owning, Settled, PhaseAt, Transactions
<1> QED
  BY <1>1, <1>2, <1>3, <1>4, <1>5, <1>6, <1>7, <1>8 DEF Next

LEMMA InitSafety == Init => SafetyInv
<1> SUFFICES ASSUME Init PROVE SafetyInv
  OBVIOUS
<1>1. TypeOK /\ LocalsOK
  BY InitType, InitLocals
<1>2. OneUnsettled /\ AckedIsDurable /\ NothingPreserved
  BY DEF Init, OneUnsettled, Owning, AckedIsDurable, NothingPreserved, MayBeUnprepared, NoFile
<1> QED
  BY <1>1, <1>2 DEF SafetyInv

LEMMA SafetyStep == SafetyInv /\ [Next]_vars => SafetyInv'
BY TypeStep, LocalsStep, UnsettledStep, AckedStep, PreservedStep
   DEF SafetyInv, LocalsInv

\* The inductive invariant holds in every environment and with every fault.
THEOREM Safety == Spec => []SafetyInv
BY InitSafety, SafetyStep, PTL DEF Spec

\* Type correctness.
THEOREM TypeCorrect == Spec => []TypeOK
<1>1. SafetyInv => TypeOK
  BY DEF SafetyInv
<1> QED
  BY <1>1, Safety, PTL

\* An approval reported to the human stays committed on disk: apply reports
\* only after the directory of its Committed journal is synced.
THEOREM ReportedApprovalsLast == Spec => []AckedIsDurable
<1>1. SafetyInv => AckedIsDurable
  BY DEF SafetyInv
<1> QED
  BY <1>1, Safety, PTL

-----------------------------------------------------------------------------
(***************************************************************************)
(* What no step may do.                                                    *)
(***************************************************************************)
LEMMA OwnerIsAlone ==
  ASSUME SafetyInv, NEW p \in Process, Owning(p), NEW c \in Change
  PROVE  ~Abandoned(c)
<1>1. CASE c = cur[p]
  BY <1>1 DEF Owning, Abandoned, BeingApplied
<1>2. CASE c # cur[p]
  BY <1>2 DEF SafetyInv, OneUnsettled, Settled, Abandoned, Unfinished
<1> QED
  BY <1>1, <1>2

\* Only an apply that owns a transaction touches what the property protects.
LEMMA OnlyOwnerWrites ==
  ASSUME SafetyInv, [Next]_vars, ~ \E p \in Process : Owning(p)
  PROVE  UNCHANGED <<staged, old, proof, dep, acked>>
<1>1. ASSUME NEW p \in Process, ApplyStep(p)
      PROVE  UNCHANGED <<staged, old, proof, dep, acked>>
  <2>1. Running(p, pc[p]) /\ pc[p] \in {"recover", "validate", "create"}
    BY <1>1 DEF ApplyStep, Owning, Running, Recover, Validate, CreateTransaction,
       Snapshot, CheckTarget, StageProof, WriteJournal, RenamePrepared,
       RenameCommitted, SyncPrepared, SyncCommitted, Preserve, Recheck, Install,
       VerifyInstalled, InstallApprovalRecord, CheckRoot
  <2>2. Recover(p) \/ Validate(p) \/ CreateTransaction(p)
    BY <1>1, <2>1 DEF ApplyStep, Running, Snapshot, CheckTarget, StageProof,
       WriteJournal, RenamePrepared, RenameCommitted, SyncPrepared, SyncCommitted,
       Preserve, Recheck, Install, VerifyInstalled, InstallApprovalRecord, CheckRoot
  <2> QED
    BY <2>2 DEF Recover, Validate, CreateTransaction
<1> QED
  BY <1>1 DEF Next, vars, DraftChange, RequestApproval, AcquireLock, Fault, SyncFails,
     IoFails, Crash, PowerLoss, Editor, EditCanon, EditRecord, EditCandidate, OutsideEdit

\* An abandoned transaction stops every later approval: recovery sees it
\* whatever it left, and the lock keeps it from appearing after recovery.
THEOREM AbandonedStops == Spec => AbandonedStopsApprovals
<1>1. SafetyInv /\ [Next]_vars =>
        [(\E c \in Change : Abandoned(c)) => UNCHANGED <<staged, old, proof, dep, acked>>]_vars
  BY OwnerIsAlone, OnlyOwnerWrites
<1> QED
  BY <1>1, Safety, PTL DEF Spec, AbandonedStopsApprovals

\* Preserve and Install are the only steps of Phemius that write canon.
LEMMA CanonWriters ==
  ASSUME SafetyInv, [Next]_vars, ByPhemius, live' # live \/ old' # old
  PROVE  \E p \in Process : Preserve(p) \/ Install(p)
<1>1. ASSUME NEW p \in Process, ApplyStep(p) PROVE Preserve(p) \/ Install(p)
  BY <1>1 DEF ApplyStep, Recover, Validate, CreateTransaction, Snapshot, CheckTarget,
     StageProof, WriteJournal, RenamePrepared, RenameCommitted, RenameJournal,
     SyncPrepared, SyncCommitted, Recheck, VerifyInstalled, InstallApprovalRecord,
     CheckRoot
<1>2. CASE Editor
  BY <1>2 DEF Editor, EditCanon, EditRecord, EditCandidate, OutsideEdit, ByPhemius,
     SafetyInv, TypeOK
<1> QED
  BY <1>1, <1>2 DEF Next, vars, DraftChange, RequestApproval, AcquireLock, Fault,
     SyncFails, IoFails, Crash, PowerLoss

\* Whatever Phemius removes from canon it keeps in the transaction.
THEOREM NothingDestroyed == Spec => EditsSurvive
<1> DEFINE Kept == /\ \A f \in File : live'[f] # live[f] /\ live[f] # Absent =>
                       \E c \in Change : old[c][f] = Absent /\ old'[c][f] = live[f]
                   /\ \A c \in Change, f \in File : old[c][f] # Absent => old'[c][f] = old[c][f]
<1>1. ASSUME SafetyInv, [Next]_vars, ByPhemius PROVE Kept
  <2>1. CASE live' = live /\ old' = old
    BY <2>1
  <2>2. ASSUME NEW p \in Process, Preserve(p) PROVE Kept
    <3>1. cur[p] \in Change /\ file \in todo /\ file \in File
      BY <1>1, <2>2 DEF Preserve, Running, SafetyInv, LocalsOK, Swapping, TypeOK
    <3>2. old[cur[p]][file] = Absent
      BY <1>1, <2>2, <3>1 DEF Preserve, Running, SafetyInv, NothingPreserved
    <3> QED
      BY <1>1, <2>2, <3>1, <3>2 DEF Preserve, SafetyInv, TypeOK
  <2>3. ASSUME NEW p \in Process, Install(p) PROVE Kept
    <3>1. file \in File
      BY <1>1, <2>3 DEF Install, Running, SafetyInv, LocalsOK, Swapping, TypeOK
    <3> QED
      BY <1>1, <2>3, <3>1 DEF Install, SafetyInv, TypeOK
  <2> QED
    BY <1>1, <2>1, <2>2, <2>3, CanonWriters
<1> QED
  BY <1>1, Safety, PTL DEF Spec, EditsSurvive

\* Canon only receives bytes whose hash the human approved.
THEOREM ApprovedBytes == Spec => OnlyApprovedBytes
<1> DEFINE Approved == \A f \in File : live'[f] \in {live[f], Absent} \/
              \E p \in Process : lock = p /\ cur[p] # None /\ live'[f] = After(cur[p], f)
<1>1. ASSUME SafetyInv, [Next]_vars, ByPhemius PROVE Approved
  <2>1. CASE live' = live /\ old' = old
    BY <2>1
  <2>2. ASSUME NEW p \in Process, Preserve(p) PROVE Approved
    BY <1>1, <2>2 DEF Preserve, SafetyInv, TypeOK
  <2>3. ASSUME NEW p \in Process, Install(p) PROVE Approved
    <3>1. lock = p /\ cur[p] # None
      BY <1>1, <2>3 DEF Install, Running, SafetyInv, LocalsOK
    <3> QED
      BY <1>1, <2>3, <3>1 DEF Install, SafetyInv, TypeOK
  <2> QED
    BY <1>1, <2>1, <2>2, <2>3, CanonWriters
<1> QED
  BY <1>1, Safety, PTL DEF Spec, OnlyApprovedBytes

-----------------------------------------------------------------------------
(***************************************************************************)
(* When other programs keep off the canon while an approval runs, the      *)
(* approval chain never forks and loses no update, and ApprovalJournal     *)
(* implements AtomicApproval.                                              *)
(***************************************************************************)
HIDE DEF Value

BothInv == SafetyInv /\ ChainInv

\* Orders are numbers.
LEMMA OrderType == TypeOK => \A c \in Change : draft[c].order \in Nat
BY DEF TypeOK, Draft

LEMMA DraftedStep == BothInv /\ [Next]_vars => OnlyDrafted'
<1> SUFFICES ASSUME BothInv, [Next]_vars PROVE OnlyDrafted'
  OBVIOUS
<1> USE DEF BothInv, ChainInv, SafetyInv, TypeOK, LocalsOK, Label, Locked, BeforePrepared, AfterPrepared, Swapping, Goto, Release, ProceedIf, LocalsKept, Running
<1>1. ASSUME NEW c \in Change, NEW k \in 1..MaxOrder, NEW after \in Plans,
             DraftChange(c, k, after)
      PROVE  OnlyDrafted'
  BY <1>1 DEF DraftChange, OnlyDrafted, Drafted
<1>2. ASSUME NEW p \in Process, NEW c \in Change, RequestApproval(p, c) PROVE OnlyDrafted'
  BY <1>2 DEF RequestApproval, OnlyDrafted, Drafted
<1>3. ASSUME NEW p \in Process, AcquireLock(p) PROVE OnlyDrafted'
  BY <1>3 DEF AcquireLock, OnlyDrafted, Drafted
<1>4. ASSUME NEW p \in Process, ApplyStep(p) PROVE OnlyDrafted'
  <2>1. CASE Recover(p)
    BY <2>1 DEF Recover, OnlyDrafted, Drafted
  <2>2. CASE Validate(p)
    BY <2>2 DEF Validate, OnlyDrafted, Drafted
  <2>3. CASE CreateTransaction(p)
    BY <2>3, ZenonT(60) DEF CreateTransaction, OnlyDrafted, Drafted
  <2>4. ASSUME NEW f \in File, Snapshot(p, f) PROVE OnlyDrafted'
    BY <2>4 DEF Snapshot, OnlyDrafted, Drafted
  <2>5. ASSUME NEW f \in File, CheckTarget(p, f) PROVE OnlyDrafted'
    BY <2>5 DEF CheckTarget, OnlyDrafted, Drafted
  <2>6. CASE StageProof(p)
    BY <2>6 DEF StageProof, OnlyDrafted, Drafted
  <2>7. CASE WriteJournal(p)
    BY <2>7 DEF WriteJournal, OnlyDrafted, Drafted
  <2>8. CASE RenamePrepared(p)
    BY <2>8 DEF RenamePrepared, RenameJournal, OnlyDrafted, Drafted
  <2>9. CASE RenameCommitted(p)
    BY <2>9 DEF RenameCommitted, RenameJournal, OnlyDrafted, Drafted
  <2>10. CASE SyncPrepared(p)
    BY <2>10 DEF SyncPrepared, OnlyDrafted, Drafted
  <2>11. CASE SyncCommitted(p)
    BY <2>11 DEF SyncCommitted, OnlyDrafted, Drafted
  <2>12. CASE Preserve(p)
    BY <2>12 DEF Preserve, OnlyDrafted, Drafted
  <2>13. CASE Recheck(p)
    BY <2>13 DEF Recheck, EntryDone, OnlyDrafted, Drafted
  <2>14. CASE Install(p)
    BY <2>14 DEF Install, OnlyDrafted, Drafted
  <2>15. CASE VerifyInstalled(p)
    BY <2>15 DEF VerifyInstalled, EntryDone, OnlyDrafted, Drafted
  <2>16. CASE InstallApprovalRecord(p)
    BY <2>16, ZenonT(60) DEF InstallApprovalRecord, OnlyDrafted, Drafted
  <2>17. CASE CheckRoot(p)
    BY <2>17 DEF CheckRoot, OnlyDrafted, Drafted
  <2> QED
    BY <1>4, <2>1, <2>2, <2>3, <2>4, <2>5, <2>6, <2>7, <2>8, <2>9,
       <2>10, <2>11, <2>12, <2>13, <2>14, <2>15, <2>16, <2>17 DEF ApplyStep
<1>5. ASSUME NEW p \in Process, Fault(p) PROVE OnlyDrafted'
  <2>1. CASE SyncFails(p)
    BY <2>1 DEF SyncFails, OnlyDrafted, Drafted
  <2>2. CASE IoFails(p)
    BY <2>2 DEF IoFails, OnlyDrafted, Drafted
  <2>3. CASE Crash(p)
    BY <2>3 DEF Crash, OnlyDrafted, Drafted
  <2> QED
    BY <1>5, <2>1, <2>2, <2>3 DEF Fault
<1>6. CASE PowerLoss
  <2>1. \A c \in Change : phase'[c] # "none" => phase[c] # "none"
    BY <1>6 DEF PowerLoss, OneUnsettled, Transactions
  <2>2. UNCHANGED <<draft, record>> /\ \A p \in Process : pc'[p] = "idle"
    BY <1>6 DEF PowerLoss
  <2> QED
    BY <2>1, <2>2 DEF OnlyDrafted, Drafted
<1>7. CASE Editor
  BY <1>7 DEF Editor, EditCanon, EditRecord, EditCandidate, OutsideEdit, OnlyDrafted, Drafted
<1>8. CASE UNCHANGED vars
  BY <1>8 DEF vars, OnlyDrafted, Drafted
<1> QED
  BY <1>1, <1>2, <1>3, <1>4, <1>5, <1>6, <1>7, <1>8 DEF Next

\* A changeset that recovery and validation accept extends the chain.
LEMMA ValidFollows ==
  ASSUME BothInv, RecoveryPasses, NEW c \in Change, NEW l, Drafted(c), Valid(c, l)
  PROVE  Follows(c, l)
<1>1. Committed = Recorded
  BY DEF RecoveryPasses, ChainScans, HasReceipt, Committed, Recorded, Transactions
<1>2. c \notin Recorded /\ draft[c].base = CanonRoot
  BY DEF Valid, ExtendsChain
<1>3. CASE Recorded = {}
  BY <1>1, <1>3 DEF Valid, ExtendsChain, Follows
<1>4. CASE Recorded # {}
  <2>1. l \in Recorded /\ IsHead(l) /\ draft[l].order + 1 = draft[c].order
    BY <1>4 DEF Valid, ExtendsChain
  <2>2. l \in Change /\ Drafted(l)
    BY <2>1 DEF BothInv, ChainInv, OnlyDrafted, Recorded
  <2>3. draft[c].order # 1
    BY <2>1, <2>2, OrderType DEF BothInv, SafetyInv, Drafted
  <2>4. draft[c].base = ResultRoot(l)
    BY <1>2, <2>1 DEF RecoveryPasses, HeadMatchesCanon
  <2> QED
    BY <1>1, <1>2, <2>1, <2>3, <2>4 DEF Follows, IsHead
<1> QED
  BY <1>3, <1>4

\* Drafting other changesets does not disturb the chain.
LEMMA FollowsFrame ==
  ASSUME BothInv, NEW c \in Change, NEW l, Drafted(c), Follows(c, l),
         \A d \in Change : Drafted(d) => draft'[d] = draft[d],
         Committed' \ {c} = Committed \ {c}
  PROVE  Follows(c, l)'
<1>1. \A d \in Committed : d \in Change /\ draft'[d] = draft[d]
  BY DEF BothInv, ChainInv, OnlyDrafted, Committed
<1>2. draft'[c] = draft[c]
  OBVIOUS
<1>3. CASE draft[c].order = 1
  BY <1>2, <1>3 DEF Follows
<1>4. CASE draft[c].order # 1
  <2>1. l \in Committed' /\ l # c /\ ResultRoot(l)' = ResultRoot(l) /\ draft'[l] = draft[l]
    BY <1>1, <1>4 DEF Follows, ResultRoot
  <2>2. \A d \in Committed' \ {c} : draft'[d].order <= draft'[l].order
    BY <1>1, <1>4, <2>1 DEF Follows
  <2> QED
    BY <1>2, <1>4, <2>1, <2>2 DEF Follows
<1> QED
  BY <1>3, <1>4

\* A step of the lock holder that writes neither draft nor chain.
LEMMA HolderFrame ==
  ASSUME BothInv, NEW p \in Process, lock = p,
         pc[p] \notin {"recover", "validate"},
         NEW l \in Locked \ {"recover", "validate"}, Goto(p, l),
         UNCHANGED <<lock, cur, link, draft, dep>>,
         Committed' \ {cur[p]} = Committed \ {cur[p]},
         pc[p] \in {"create", "snapshot", "stage"} => l \in {"create", "snapshot", "stage"}
  PROVE  ChainKept'
<1>1. pc' = [pc EXCEPT ![p] = l] /\ pc'[p] = l /\ cur[p] \in Change /\ Drafted(cur[p])
  BY DEF BothInv, ChainInv, OnlyDrafted, SafetyInv, TypeOK, LocalsOK, Goto, Locked,
         BeforePrepared, AfterPrepared, Swapping
<1>2. Follows(cur[p], link[p])
  BY DEF BothInv, ChainInv, ChainKept
<1>3. Follows(cur[p], link[p])'
  BY <1>1, <1>2, FollowsFrame
<1>4. Owning(p)' /\ l \notin {"snapshot", "stage"} => dep'[cur'[p]] = link'[p]
  BY <1>1 DEF BothInv, ChainInv, ChainKept, Owning
<1> QED
  BY <1>1, <1>3, <1>4 DEF ChainKept, Owning

LEMMA FreeLock == ASSUME lock' = None PROVE ChainKept'
BY DEF ChainKept, Owning

\* Recovery's verdict depends on the project directory alone.
LEMMA RecoveryFrame ==
  ASSUME BothInv, RecoveryPasses,
         UNCHANGED <<live, record, phase, tmp, marker, dep>>,
         \A d \in Change : Drafted(d) => draft'[d] = draft[d]
  PROVE  RecoveryPasses'
<1>1. Recorded' = Recorded /\ Transactions' = Transactions
  BY DEF Recorded, Transactions
<1>2. \A c \in Change : HasReceipt(c)' <=> HasReceipt(c)
  BY DEF HasReceipt, Loads
<1>3. \A c \in Recorded : c \in Change /\ draft'[c] = draft[c]
  BY DEF BothInv, ChainInv, OnlyDrafted, Recorded
<1>4. ChainScans'
  <2>1. \A c \in Recorded : HasReceipt(c)'
    BY <1>2, <1>3 DEF RecoveryPasses, ChainScans
  <2>2. \A c, d \in Recorded : draft'[c].order = draft'[d].order => c = d
    BY <1>3 DEF RecoveryPasses, ChainScans
  <2>3. \A c \in Recorded : IF draft'[c].order = 1
                           THEN dep'[c] = None
                           ELSE /\ dep'[c] \in Recorded
                                /\ draft'[dep'[c]].order + 1 = draft'[c].order
    BY <1>3 DEF RecoveryPasses, ChainScans
  <2> QED
    BY <1>1, <2>1, <2>2, <2>3 DEF ChainScans
<1>5. \A h \in Recorded : IsHead(h)' => CanonRoot' = ResultRoot(h)'
  <2>1. \A h \in Recorded : IsHead(h)' => IsHead(h)
    BY <1>1, <1>3 DEF IsHead
  <2>2. CanonRoot' = CanonRoot /\ \A h \in Recorded : ResultRoot(h)' = ResultRoot(h)
    BY <1>3 DEF CanonRoot, ResultRoot
  <2> QED
    BY <2>1, <2>2 DEF RecoveryPasses, HeadMatchesCanon
<1>6. \A c \in Transactions : HasReceipt(c)'
  BY <1>2 DEF RecoveryPasses, Transactions
<1> QED
  BY <1>1, <1>4, <1>5, <1>6 DEF RecoveryPasses, HeadMatchesCanon

\* A step of anyone but the lock holder.
LEMMA OthersFrame ==
  ASSUME BothInv, UNCHANGED <<live, record, phase, tmp, marker, dep, lock>>,
         \A d \in Change : Drafted(d) => draft'[d] = draft[d],
         \A p \in Process : lock = p =>
           pc'[p] = pc[p] /\ cur'[p] = cur[p] /\ link'[p] = link[p]
  PROVE  ChainKept'
<1>1. ASSUME NEW p \in Process, lock = p, pc[p] = "validate" PROVE RecoveryPasses'
  BY <1>1, RecoveryFrame DEF BothInv, ChainInv, ChainKept
<1>2. ASSUME NEW p \in Process, lock = p, pc[p] \notin {"recover", "validate"}
      PROVE  Follows(cur[p], link[p])'
  <2>1. Follows(cur[p], link[p]) /\ cur[p] \in Change /\ Drafted(cur[p])
    BY <1>2 DEF BothInv, SafetyInv, LocalsOK, Locked, BeforePrepared, AfterPrepared,
       Swapping, ChainInv, ChainKept, OnlyDrafted
  <2>2. Committed' = Committed
    BY DEF Committed
  <2>3. cur'[p] = cur[p] /\ link'[p] = link[p]
    BY <1>2
  <2> QED
    BY <2>1, <2>2, <2>3, FollowsFrame
<1> QED
  BY <1>1, <1>2 DEF ChainKept, Owning, BothInv, ChainInv

LEMMA ChainKeptStep == EditorWaits /\ BothInv /\ [Next]_vars => ChainKept'
<1> SUFFICES ASSUME EditorWaits, BothInv, [Next]_vars PROVE ChainKept'
  OBVIOUS
<1> USE DEF BothInv, SafetyInv, ChainInv, TypeOK, LocalsOK, Label, Locked,
            BeforePrepared, AfterPrepared, Swapping
<1>1. ASSUME NEW c \in Change, NEW k \in 1..MaxOrder, NEW after \in Plans,
             DraftChange(c, k, after)
      PROVE  ChainKept'
  <2>1. \A d \in Change : Drafted(d) => draft'[d] = draft[d]
    BY <1>1 DEF DraftChange
  <2>2. UNCHANGED <<live, record, phase, tmp, marker, dep, lock, pc, cur, link>>
    BY <1>1 DEF DraftChange
  <2> QED
    BY <2>1, <2>2, OthersFrame
<1>2. ASSUME NEW p \in Process, NEW c \in Change, RequestApproval(p, c) PROVE ChainKept'
  BY <1>2, OthersFrame DEF RequestApproval, Goto
<1>3. ASSUME NEW p \in Process, AcquireLock(p) PROVE ChainKept'
  BY <1>3 DEF AcquireLock, Goto, ChainKept, Owning
<1>4. ASSUME NEW p \in Process, ApplyStep(p) PROVE ChainKept'
  <2>1. CASE Recover(p)
    <3>1. CASE RecoveryPasses
      <4>1. RecoveryPasses'
        BY <2>1, <3>1, RecoveryFrame DEF Recover
      <4> QED
        BY <2>1, <3>1, <4>1 DEF Recover, Running, ProceedIf, Goto, LocalsKept, ChainKept, Owning
    <3>2. CASE ~RecoveryPasses
      BY <2>1, <3>2, FreeLock DEF Recover, ProceedIf, Release
    <3> QED
      BY <3>1, <3>2
  <2>2. CASE Validate(p)
    <3>1. CASE Valid(cur[p], link[p])
      <4>1. Follows(cur[p], link[p])
        BY <2>2, <3>1, ValidFollows DEF Validate, Running, ChainKept, OnlyDrafted
      <4> QED
        <5>1. Follows(cur[p], link[p])'
          <6>1. UNCHANGED <<phase, draft>> /\ cur' = cur /\ link' = link
            BY <2>2, <3>1 DEF Validate, ProceedIf, LocalsKept
          <6>2. cur[p] \in Change /\ Drafted(cur[p])
            BY <2>2 DEF Validate, Running, OnlyDrafted
          <6>3. Committed' = Committed
            BY <6>1 DEF Committed
          <6> QED
            BY <4>1, <6>1, <6>2, <6>3, FollowsFrame
        <5>2. lock' = p /\ pc' = [pc EXCEPT ![p] = "create"]
          BY <2>2, <3>1 DEF Validate, Running, ProceedIf, Goto, LocalsKept
        <5> QED
          BY <5>1, <5>2 DEF ChainKept, Owning
    <3>2. CASE ~Valid(cur[p], link[p])
      BY <2>2, <3>2, FreeLock DEF Validate, ProceedIf, Release
    <3> QED
      BY <3>1, <3>2
  <2>3. CASE StageProof(p)
    <3>1. cur[p] \in Change /\ Follows(cur[p], link[p])
      BY <2>3 DEF StageProof, Running, ChainKept
    <3>2. Follows(cur[p], link[p])'
      BY <2>3, <3>1 DEF StageProof, Follows, ResultRoot, Committed
    <3>3. lock' = p /\ pc' = [pc EXCEPT ![p] = "writePrepared"] /\ dep'[cur'[p]] = link'[p]
      BY <2>3, <3>1 DEF StageProof, Running, Goto
    <3> QED
      BY <3>2, <3>3 DEF ChainKept, Owning
  <2>4. CASE RenameCommitted(p)
    <3>1. Committed' \ {cur[p]} = Committed \ {cur[p]}
      BY <2>4 DEF RenameCommitted, RenameJournal, Running, Committed
    <3> QED
      BY <2>4, <3>1, HolderFrame DEF RenameCommitted, RenameJournal, Running
  <2>5. CASE SyncCommitted(p)
    BY <2>5, FreeLock DEF SyncCommitted, Release
  <2>6. CASE CreateTransaction(p)
    <3>1. Committed' \ {cur[p]} = Committed \ {cur[p]}
      BY <2>6 DEF CreateTransaction, Running, Committed
    <3> QED
      BY <2>6, <3>1, HolderFrame, FreeLock DEF CreateTransaction, Running, ProceedIf, Release, LocalsKept
  <2>7. ASSUME NEW f \in File, Snapshot(p, f) PROVE ChainKept'
    <3>1. Committed' = Committed
      BY <2>7 DEF Snapshot, Committed
    <3> QED
      BY <2>7, <3>1, HolderFrame, FreeLock DEF Snapshot, Running, ProceedIf, Release, LocalsKept
  <2>8. ASSUME NEW f \in File, CheckTarget(p, f) PROVE ChainKept'
    <3>1. Committed' = Committed
      BY <2>8 DEF CheckTarget, Committed
    <3> QED
      BY <2>8, <3>1, HolderFrame, FreeLock DEF CheckTarget, Running, ProceedIf, Release, LocalsKept
  <2>9. CASE WriteJournal(p)
    <3>1. Committed' = Committed
      BY <2>9 DEF WriteJournal, Committed
    <3> QED
      BY <2>9, <3>1, HolderFrame, FreeLock DEF WriteJournal, Running, ProceedIf, Release, LocalsKept
  <2>10. CASE RenamePrepared(p)
    <3>1. Committed' \ {cur[p]} = Committed \ {cur[p]}
      BY <2>10 DEF RenamePrepared, RenameJournal, Running, Committed
    <3> QED
      BY <2>10, <3>1, HolderFrame, FreeLock DEF RenamePrepared, RenameJournal, Running, ProceedIf, Release, LocalsKept
  <2>11. CASE SyncPrepared(p)
    <3>1. Committed' = Committed
      BY <2>11 DEF SyncPrepared, Committed
    <3> QED
      BY <2>11, <3>1, HolderFrame, FreeLock DEF SyncPrepared, Running, ProceedIf, Release, LocalsKept
  <2>12. CASE Preserve(p)
    <3>1. Committed' = Committed
      BY <2>12 DEF Preserve, Committed
    <3> QED
      BY <2>12, <3>1, HolderFrame, FreeLock DEF Preserve, Running, ProceedIf, Release, LocalsKept
  <2>13. CASE Recheck(p)
    <3>1. Committed' = Committed
      BY <2>13 DEF Recheck, EntryDone, Committed
    <3> QED
      BY <2>13, <3>1, HolderFrame, FreeLock DEF Recheck, EntryDone, Running, ProceedIf, Release, LocalsKept
  <2>14. CASE Install(p)
    <3>1. Committed' = Committed
      BY <2>14 DEF Install, Committed
    <3> QED
      BY <2>14, <3>1, HolderFrame, FreeLock DEF Install, Running, ProceedIf, Release, LocalsKept
  <2>15. CASE VerifyInstalled(p)
    <3>1. Committed' = Committed
      BY <2>15 DEF VerifyInstalled, EntryDone, Committed
    <3> QED
      BY <2>15, <3>1, HolderFrame, FreeLock DEF VerifyInstalled, EntryDone, Running, ProceedIf, Release, LocalsKept
  <2>16. CASE InstallApprovalRecord(p)
    <3>1. Committed' = Committed
      BY <2>16 DEF InstallApprovalRecord, Committed
    <3> QED
      BY <2>16, <3>1, HolderFrame, FreeLock DEF InstallApprovalRecord, Running, ProceedIf, Release, LocalsKept
  <2>17. CASE CheckRoot(p)
    <3>1. Committed' = Committed
      BY <2>17 DEF CheckRoot, Committed
    <3> QED
      BY <2>17, <3>1, HolderFrame, FreeLock DEF CheckRoot, Running, ProceedIf, Release, LocalsKept
  <2> QED
    BY <1>4, <2>1, <2>2, <2>3, <2>4, <2>5, <2>6, <2>7, <2>8, <2>9,
       <2>10, <2>11, <2>12, <2>13, <2>14, <2>15, <2>16, <2>17 DEF ApplyStep
<1>5. ASSUME NEW p \in Process, Fault(p) PROVE ChainKept'
  <2>1. CASE lock' = None
    BY <2>1, FreeLock
  <2>2. CASE lock' # None
    <3>1. Crash(p) /\ lock # p
      BY <1>5, <2>2 DEF Fault, SyncFails, IoFails, Crash, Release
    <3>2. UNCHANGED <<live, record, phase, tmp, marker, dep, draft, lock>>
      BY <3>1 DEF Crash
    <3>3. \A q \in Process : lock = q => pc'[q] = pc[q] /\ cur'[q] = cur[q] /\ link'[q] = link[q]
      BY <3>1 DEF Crash, Goto
    <3> QED
      BY <3>2, <3>3, OthersFrame
  <2> QED
    BY <2>1, <2>2
<1>6. CASE PowerLoss
  BY <1>6, FreeLock DEF PowerLoss
<1>7. CASE Editor
  <2>1. UNCHANGED <<phase, tmp, marker, dep, draft, lock, pc, cur, link>>
    BY <1>7 DEF Editor, EditCanon, EditRecord, EditCandidate, OutsideEdit
  <2>2. CASE lock = None
    BY <2>1, <2>2, FreeLock
  <2>3. CASE lock # None
    <3>1. UNCHANGED <<live, record>>
      BY <1>7, <2>3 DEF Editor, EditCanon, EditRecord, EditCandidate
    <3> QED
      BY <2>1, <3>1, OthersFrame
  <2> QED
    BY <2>2, <2>3
<1>8. CASE UNCHANGED vars
  BY <1>8, OthersFrame DEF vars
<1> QED
  BY <1>1, <1>2, <1>3, <1>4, <1>5, <1>6, <1>7, <1>8 DEF Next

-----------------------------------------------------------------------------
\* The parent of a committed changeset is drafted.
LEMMA ParentDrafted ==
  ASSUME BothInv, NEW c \in Committed, draft[c].order # 1
  PROVE  dep[c] \in Change /\ Drafted(dep[c]) /\ draft[dep[c]].order + 1 = draft[c].order
<1>1. dep[c] \in Change /\ draft[dep[c]].order + 1 = draft[c].order
  BY DEF BothInv, ChainInv, NoFork
<1>2. draft[c].order > 0 /\ draft[c].order \in Nat /\ draft[dep[c]].order \in Nat
  BY <1>1, OrderType DEF BothInv, SafetyInv, ChainInv, OnlyDrafted, Drafted, Committed
<1> QED
  BY <1>1, <1>2 DEF Drafted

\* A step that commits nothing keeps what the committed changesets say.
LEMMA CommittedFrame ==
  ASSUME BothInv, Committed' \subseteq Committed,
         \A d \in Committed : dep'[d] = dep[d],
         \A d \in Change : Drafted(d) => draft'[d] = draft[d]
  PROVE  NoFork' /\ NoLostUpdate'
<1>1. \A d \in Committed : draft'[d] = draft[d] /\ dep'[d] = dep[d]
  BY DEF BothInv, ChainInv, OnlyDrafted, Committed
<1>2. \A c, d \in Committed' : draft'[c].order = draft'[d].order => c = d
  BY <1>1 DEF BothInv, ChainInv, NoFork
<1>3. ASSUME NEW c \in Committed', draft[c].order # 1
      PROVE  /\ dep'[c] \in Change
             /\ draft'[dep'[c]].order + 1 = draft'[c].order
             /\ draft'[c].base = ResultRoot(dep[c])'
  <2>1. dep[c] \in Change /\ Drafted(dep[c]) /\ draft[dep[c]].order + 1 = draft[c].order
    BY <1>3, ParentDrafted
  <2>2. dep[c] # None /\ draft[c].base = ResultRoot(dep[c])
    BY <1>3, <2>1 DEF BothInv, ChainInv, NoLostUpdate
  <2>3. draft'[dep[c]] = draft[dep[c]] /\ dep'[c] = dep[c] /\ draft'[c] = draft[c]
    BY <1>1, <1>3, <2>1
  <2>4. ResultRoot(dep[c])' = ResultRoot(dep[c])
    BY <2>3 DEF ResultRoot
  <2> QED
    BY <2>1, <2>2, <2>3, <2>4
<1>4. ASSUME NEW c \in Committed', draft[c].order = 1 PROVE dep'[c] = None
  BY <1>1, <1>4 DEF BothInv, ChainInv, NoFork
<1>5. NoFork'
  BY <1>1, <1>2, <1>3, <1>4 DEF NoFork
<1>6. NoLostUpdate'
  BY <1>3, <1>4 DEF NoLostUpdate
<1> QED
  BY <1>5, <1>6

\* The commit point: the Committed journal appears under its final name.
LEMMA CommitStep ==
  ASSUME BothInv, NEW p \in Process, RenameCommitted(p)
  PROVE  NoFork' /\ NoLostUpdate'
<1> DEFINE c == cur[p]
<1> DEFINE l == link[p]
<1>1. c \in Change /\ lock = p /\ pc[p] = "renameCommitted"
  BY DEF RenameCommitted, Running, BothInv, SafetyInv, LocalsOK
<1>2. Follows(c, l) /\ dep[c] = l
  BY <1>1 DEF BothInv, ChainInv, ChainKept, Owning
<1>3. Committed' = Committed \cup {c} /\ UNCHANGED <<draft, dep>>
  BY <1>1 DEF RenameCommitted, RenameJournal, Committed, BothInv, SafetyInv, TypeOK
<1>4. \A d \in Change : draft[d].order \in Nat
  BY OrderType DEF BothInv, SafetyInv
<1>5. \A d \in Committed \ {c} : draft[d].order # draft[c].order
  BY <1>1, <1>2, <1>4 DEF Follows, Committed
<1>6. NoFork'
  <2>1. \A a, b \in Committed' : draft'[a].order = draft'[b].order => a = b
    BY <1>3, <1>5 DEF BothInv, ChainInv, NoFork
  <2>2. IF draft[c].order = 1
        THEN dep[c] = None
        ELSE dep[c] \in Change /\ draft[dep[c]].order + 1 = draft[c].order
    BY <1>2 DEF Follows, Committed
  <2> QED
    BY <1>3, <2>1, <2>2 DEF BothInv, ChainInv, NoFork
<1>7. NoLostUpdate'
  <2>1. \A a \in Committed \cup {c} : dep[a] # None => draft[a].base = ResultRoot(dep[a])
    BY <1>2 DEF Follows, BothInv, ChainInv, NoLostUpdate
  <2> QED
    BY <1>3, <2>1 DEF NoLostUpdate, ResultRoot
<1> QED
  BY <1>6, <1>7

LEMMA CommittedStep == BothInv /\ [Next]_vars => NoFork' /\ NoLostUpdate'
<1> SUFFICES ASSUME BothInv, [Next]_vars PROVE NoFork' /\ NoLostUpdate'
  OBVIOUS
<1>1. CASE \E p \in Process : RenameCommitted(p)
  BY <1>1, CommitStep
<1>2. CASE \E p \in Process : StageProof(p)
  <2> PICK p \in Process : StageProof(p)
    BY <1>2
  <2>1. cur[p] \notin Committed
    BY DEF StageProof, Running, BothInv, SafetyInv, OneUnsettled, Owning, PhaseAt, Committed
  <2>2. Committed' = Committed /\ \A d \in Committed : dep'[d] = dep[d]
    BY <2>1 DEF StageProof, Committed
  <2>3. draft' = draft
    BY DEF StageProof
  <2> QED
    BY <2>2, <2>3, CommittedFrame
<1>3. CASE ~ \E p \in Process : RenameCommitted(p) \/ StageProof(p)
  <2>1. dep' = dep
    BY <1>3, ZenonT(60) DEF Next, vars, ApplyStep, DraftChange, RequestApproval, AcquireLock, Recover,
       Validate, CreateTransaction, Snapshot, CheckTarget, WriteJournal, RenamePrepared,
       RenameJournal, SyncPrepared, SyncCommitted, Preserve, Recheck, Install,
       VerifyInstalled, InstallApprovalRecord, CheckRoot, Fault, SyncFails, IoFails,
       Crash, PowerLoss, Editor, EditCanon, EditRecord, EditCandidate, OutsideEdit,
       canonVars, journalVars
  <2>2. \A d \in Change : Drafted(d) => draft'[d] = draft[d]
    <3>1. ASSUME NEW c \in Change, NEW k \in 1..MaxOrder, NEW after \in Plans,
                 DraftChange(c, k, after)
          PROVE  \A d \in Change : Drafted(d) => draft'[d] = draft[d]
      BY <3>1 DEF DraftChange
    <3>2. CASE ~ \E c \in Change, k \in 1..MaxOrder, after \in Plans : DraftChange(c, k, after)
      BY <1>3, <3>2, ZenonT(60) DEF Next, vars, ApplyStep, RequestApproval, AcquireLock, Recover, Validate,
         CreateTransaction, Snapshot, CheckTarget, WriteJournal, RenamePrepared,
         RenameJournal, SyncPrepared, SyncCommitted, Preserve, Recheck, Install,
         VerifyInstalled, InstallApprovalRecord, CheckRoot, Fault, SyncFails, IoFails,
         Crash, PowerLoss, Editor, EditCanon, EditRecord, EditCandidate, OutsideEdit
    <3> QED
      BY <3>1, <3>2
  <2>3. \A d \in Change : phase'[d] = "committed" => phase[d] = "committed"
    <3>1. CASE PowerLoss
      BY <3>1 DEF PowerLoss
    <3>2. ASSUME NEW p \in Process, CreateTransaction(p) \/ RenamePrepared(p)
          PROVE  \A d \in Change : phase'[d] = "committed" => phase[d] = "committed"
      BY <3>2 DEF CreateTransaction, RenamePrepared, RenameJournal, Release, BothInv,
         SafetyInv, TypeOK
    <3>3. CASE ~PowerLoss /\ ~ \E p \in Process : CreateTransaction(p) \/ RenamePrepared(p)
      BY <1>3, <3>3, ZenonT(60) DEF Next, vars, DraftChange, ApplyStep, RequestApproval, AcquireLock, Recover, Validate,
         Snapshot, CheckTarget, WriteJournal, SyncPrepared, SyncCommitted, Preserve, Recheck, Install,
         VerifyInstalled, InstallApprovalRecord, CheckRoot, Fault, SyncFails, IoFails,
         Crash, Editor, EditCanon, EditRecord, EditCandidate, OutsideEdit
    <3> QED
      BY <3>1, <3>2, <3>3
  <2>4. Committed' \subseteq Committed
    BY <2>3 DEF Committed
  <2> QED
    BY <2>1, <2>2, <2>4, CommittedFrame
<1> QED
  BY <1>1, <1>2, <1>3

LEMMA InitChain == Init => ChainInv
BY DEF Init, ChainInv, OnlyDrafted, Drafted, ChainKept, Owning, NoFork, NoLostUpdate,
       Committed

LEMMA ChainStep == EditorWaits /\ BothInv /\ [Next]_vars => BothInv'
BY SafetyStep, DraftedStep, ChainKeptStep, CommittedStep DEF BothInv, ChainInv

\* The chain invariant, for editors that wait.
THEOREM Chain == ASSUME EditorWaits PROVE Spec => []BothInv
<1>1. Init => BothInv
  BY InitSafety, InitChain DEF BothInv
<1>2. BothInv /\ [Next]_vars => BothInv'
  BY ChainStep
<1> QED
  BY <1>1, <1>2, PTL DEF Spec

\* Committed approvals form one chain, without two of the same order.
THEOREM ChainNeverForks == ASSUME EditorWaits PROVE Spec => []NoFork
<1>1. BothInv => NoFork
  BY DEF BothInv, ChainInv
<1>2. Spec => []BothInv
  BY Chain
<1> QED
  BY <1>1, <1>2, PTL

\* Every approval was made on the canon its predecessor left.
THEOREM NoUpdateLost == ASSUME EditorWaits PROVE Spec => []NoLostUpdate
<1>1. BothInv => NoLostUpdate
  BY DEF BothInv, ChainInv
<1>2. Spec => []BothInv
  BY Chain
<1> QED
  BY <1>1, <1>2, PTL
-----------------------------------------------------------------------------
\* The refinement of AtomicApproval: first its inductive invariant.
WholeInv == BothInv /\ ProgressInv

\* What ProgressInv says of the process that holds the lock.
HolderInv == BaseIsUnapproved /\ StagedSoFar /\ SwappedSoFar /\ RootCompared

LEMMA InitProgress == Init => ProgressInv
BY DEF Init, ProgressInv, BaseIsUnapproved, StagedSoFar, SwappedSoFar, RootCompared,
       UnsyncedIsUntouched

LEMMA FreeHolder == ASSUME lock' = None PROVE HolderInv'
BY DEF HolderInv, BaseIsUnapproved, StagedSoFar, SwappedSoFar, RootCompared

\* The process that holds the lock works on a drafted changeset.
LEMMA HolderWorks ==
  ASSUME WholeInv, NEW p \in Process, lock = p
  PROVE  /\ cur[p] \in Change /\ Drafted(cur[p]) /\ pc[p] \in Locked
         /\ pc \in [Process -> Label]
         /\ pc[p] \in Swapping \ {"check"} => file \in todo
         /\ Owning(p) => phase[cur[p]] = PhaseAt(pc[p])
BY DEF WholeInv, BothInv, SafetyInv, TypeOK, LocalsOK, ChainInv, OnlyDrafted, OneUnsettled,
       Locked, BeforePrepared, AfterPrepared, Swapping

\* A step of anyone but the lock holder.
LEMMA OthersProgress ==
  ASSUME WholeInv,
         UNCHANGED <<live, record, phase, staged, old, proof, lock, todo, file>>,
         \A d \in Change : Drafted(d) => draft'[d] = draft[d],
         \A p \in Process : lock = p => pc'[p] = pc[p] /\ cur'[p] = cur[p]
  PROVE  HolderInv'
<1> SUFFICES ASSUME NEW p \in Process, lock = p PROVE HolderInv'
  BY DEF HolderInv, BaseIsUnapproved, StagedSoFar, SwappedSoFar, RootCompared
<1> DEFINE c == cur[p]
<1>1. c \in Change /\ draft'[c] = draft[c] /\ cur'[p] = c /\ pc'[p] = pc[p]
  BY HolderWorks
<1>2. /\ Targets(c)' = Targets(c)
      /\ \A f \in File : /\ After(c, f)' = After(c, f) /\ Before(c, f)' = Before(c, f)
                         /\ Swapped(c, f)' <=> Swapped(c, f)
      /\ CanonRoot' = CanonRoot /\ ResultRoot(c)' = ResultRoot(c)
  BY <1>1 DEF Targets, After, Before, Swapped, CanonRoot, ResultRoot
<1>3. BaseIsUnapproved'
  BY <1>1 DEF WholeInv, ProgressInv, BaseIsUnapproved
<1>4. StagedSoFar'
  BY <1>1, <1>2 DEF WholeInv, ProgressInv, StagedSoFar, Targets
<1>5. SwappedSoFar'
  <2>1. /\ file' = file /\ todo' = todo /\ live' = live /\ old' = old /\ lock' = p
        /\ pc[p] \in Swapping => todo \subseteq File
        /\ pc[p] \in Swapping \ {"check"} => file \in File
    BY HolderWorks DEF WholeInv, BothInv, SafetyInv, TypeOK, Swapping
  <2> QED
    BY <1>1, <1>2, <2>1 DEF WholeInv, ProgressInv, SwappedSoFar, Targets, Swapping
<1>6. RootCompared'
  BY <1>1, <1>2 DEF WholeInv, ProgressInv, RootCompared
<1> QED
  BY <1>3, <1>4, <1>5, <1>6 DEF HolderInv

\* A step of the lock holder to label l keeps the changeset it works on.
LEMMA HolderGoes ==
  ASSUME WholeInv, NEW p \in Process, lock = p, NEW l \in Locked, Goto(p, l),
         UNCHANGED <<lock, cur, draft>>
  PROVE  /\ pc'[p] = l /\ lock' = p /\ cur'[p] = cur[p]
         /\ Targets(cur[p])' = Targets(cur[p])
         /\ \A f \in File : /\ After(cur[p], f)' = After(cur[p], f)
                            /\ Before(cur[p], f)' = Before(cur[p], f)
         /\ pc[p] \in AfterValidate => BaseIsUnapproved'
<1>1. pc'[p] = l /\ lock' = p /\ cur'[p] = cur[p]
  BY HolderWorks DEF Goto
<1> QED
  BY <1>1 DEF Targets, After, Before, WholeInv, ProgressInv, BaseIsUnapproved

\* Up to the Prepared journal nothing is swapped.
LEMMA SwappedLater ==
  ASSUME NEW p \in Process, lock' = p, pc'[p] \notin Swapping \cup AllSwapped
  PROVE  SwappedSoFar'
BY DEF SwappedSoFar, Swapping

LEMMA RootLater ==
  ASSUME NEW p \in Process, lock' = p, pc'[p] \notin {"writeCommitted", "renameCommitted"}
  PROVE  RootCompared'
BY DEF RootCompared

LEMMA StagedEarlier ==
  ASSUME NEW p \in Process, lock' = p,
         pc'[p] \notin {"snapshot", "stage", "writePrepared", "renamePrepared",
                        "root", "writeCommitted", "renameCommitted"}
  PROVE  StagedSoFar'
BY DEF StagedSoFar

\* Up to the Prepared journal.
LEMMA StageSteps ==
  ASSUME WholeInv, NEW p \in Process,
         \/ Recover(p) \/ Validate(p) \/ CreateTransaction(p)
         \/ \E f \in File : Snapshot(p, f)
         \/ StageProof(p)
         \/ WriteJournal(p) /\ pc[p] = "writePrepared"
         \/ RenamePrepared(p) \/ SyncPrepared(p)
  PROVE  HolderInv'
<1>0. ASSUME lock' # None PROVE lock = p /\ lock' = p
  BY <1>0 DEF Recover, Validate, CreateTransaction, Snapshot, StageProof, WriteJournal,
     RenamePrepared, RenameJournal, SyncPrepared, Running, ProceedIf, LocalsKept, Release
<1> SUFFICES ASSUME lock = p, lock' = p PROVE HolderInv'
  BY <1>0, FreeHolder
<1> USE DEF Locked, BeforePrepared, AfterPrepared, Swapping, AfterValidate, AllSwapped
<1>1. cur[p] \in Change /\ Drafted(cur[p]) /\ pc \in [Process -> Label] /\ lock # None
  BY HolderWorks
<1>2. CASE Recover(p)
  <2>1. lock' = p /\ pc'[p] = "validate"
    BY <1>1, <1>2 DEF Recover, Running, ProceedIf, LocalsKept, Release, Goto
  <2> QED
    BY <2>1 DEF HolderInv, BaseIsUnapproved, StagedSoFar, SwappedSoFar, RootCompared
<1>3. CASE Validate(p)
  <2>1. lock' = p /\ pc'[p] = "create" /\ cur' = cur /\ draft' = draft
        /\ Valid(cur[p], link[p])
    BY <1>1, <1>3 DEF Validate, Running, ProceedIf, LocalsKept, Release, Goto
  <2>2. draft[cur[p]].base.records[cur[p]] = "absent"
    BY <1>1, <2>1 DEF Valid, ExtendsChain, Recorded, CanonRoot
  <2> QED
    BY <2>1, <2>2 DEF HolderInv, BaseIsUnapproved, StagedSoFar, SwappedSoFar, RootCompared
<1>4. CASE CreateTransaction(p)
  <2>1. pc[p] = "create" /\ Goto(p, "snapshot") /\ todo' = Targets(cur[p])
        /\ UNCHANGED <<lock, cur, draft>>
    BY <1>1, <1>4 DEF CreateTransaction, Running, Release
  <2>2. /\ pc'[p] = "snapshot" /\ cur'[p] = cur[p] /\ BaseIsUnapproved'
        /\ Targets(cur[p])' = Targets(cur[p])
    BY <2>1, HolderGoes
  <2>3. StagedSoFar'
    BY <2>1, <2>2 DEF StagedSoFar
  <2> QED
    BY <2>2, <2>3, SwappedLater, RootLater DEF HolderInv
<1>5. ASSUME NEW f \in File, Snapshot(p, f) PROVE HolderInv'
  <2> DEFINE c == cur[p]
  <2> DEFINE l == IF todo = {f} THEN "stage" ELSE "snapshot"
  <2>1. /\ pc[p] = "snapshot" /\ Goto(p, l) /\ todo' = todo \ {f} /\ f \in todo
        /\ UNCHANGED <<lock, cur, draft, proof>> /\ CandidateMatches(c, f)
        /\ staged' = [staged EXCEPT ![c][f] = IF After(c, f) = Absent THEN Absent ELSE cand[c][f]]
    BY <1>1, <1>5 DEF Snapshot, Running, Release
  <2>2. l \in Locked
    OBVIOUS
  <2>3. /\ pc'[p] = l /\ cur'[p] = c /\ BaseIsUnapproved'
        /\ Targets(c)' = Targets(c)
        /\ \A g \in File : After(c, g)' = After(c, g)
    <3> HIDE DEF l
    <3> QED
      BY <2>1, <2>2, HolderGoes
  <2>4. staged'[c][f] = After(c, f) /\ \A g \in File \ {f} : staged'[c][g] = staged[c][g]
    BY <1>1, <2>1 DEF CandidateMatches, WholeInv, BothInv, SafetyInv, TypeOK
  <2>5. \A g \in Targets(c) \ todo : staged[c][g] = After(c, g)
    BY <2>1 DEF WholeInv, ProgressInv, StagedSoFar
  <2>6. \A g \in Targets(c) \ todo' : staged'[c][g] = After(c, g)
    BY <2>1, <2>4, <2>5 DEF Targets
  <2>7. todo = {f} => todo' = {}
    BY <2>1
  <2>8. StagedSoFar'
    BY <2>3, <2>6, <2>7 DEF StagedSoFar, Targets
  <2> QED
    BY <2>3, <2>8, SwappedLater, RootLater DEF HolderInv
<1>6. CASE StageProof(p)
  <2>1. pc[p] = "stage" /\ Goto(p, "writePrepared") /\ cur[p] \in proof'
        /\ UNCHANGED <<lock, cur, draft, staged>>
    BY <1>6 DEF StageProof, Running
  <2>2. /\ pc'[p] = "writePrepared" /\ cur'[p] = cur[p] /\ BaseIsUnapproved'
        /\ Targets(cur[p])' = Targets(cur[p])
        /\ \A g \in File : After(cur[p], g)' = After(cur[p], g)
    BY <2>1, HolderGoes
  <2>3. StagedSoFar'
    BY <2>1, <2>2 DEF StagedSoFar, WholeInv, ProgressInv, Targets
  <2> QED
    BY <2>2, <2>3, SwappedLater, RootLater DEF HolderInv
<1>7. CASE WriteJournal(p) /\ pc[p] = "writePrepared"
  <2>1. Goto(p, "renamePrepared") /\ UNCHANGED <<lock, cur, draft, staged, proof>>
    BY <1>7 DEF WriteJournal
  <2>2. /\ pc'[p] = "renamePrepared" /\ cur'[p] = cur[p] /\ BaseIsUnapproved'
        /\ Targets(cur[p])' = Targets(cur[p])
        /\ \A g \in File : After(cur[p], g)' = After(cur[p], g)
    BY <1>7, <2>1, HolderGoes
  <2>3. StagedSoFar'
    BY <1>7, <2>1, <2>2 DEF StagedSoFar, WholeInv, ProgressInv, Targets
  <2> QED
    BY <2>2, <2>3, SwappedLater, RootLater DEF HolderInv
<1>8. CASE RenamePrepared(p)
  <2>1. pc[p] = "renamePrepared" /\ Goto(p, "syncPrepared") /\ UNCHANGED <<lock, cur, draft>>
    BY <1>8 DEF RenamePrepared, RenameJournal, Running
  <2>2. pc'[p] = "syncPrepared" /\ BaseIsUnapproved'
    BY <2>1, HolderGoes
  <2> QED
    BY <2>2, SwappedLater, RootLater, StagedEarlier DEF HolderInv
<1>9. CASE SyncPrepared(p)
  <2>1. pc[p] = "syncPrepared" /\ Goto(p, "check") /\ todo' = Targets(cur[p])
        /\ UNCHANGED <<lock, cur, draft>>
    BY <1>9 DEF SyncPrepared, Running
  <2>2. pc'[p] = "check" /\ cur'[p] = cur[p] /\ BaseIsUnapproved'
        /\ Targets(cur[p])' = Targets(cur[p])
    BY <2>1, HolderGoes
  <2>3. SwappedSoFar'
    BY <2>1, <2>2 DEF SwappedSoFar
  <2> QED
    BY <2>2, <2>3, RootLater, StagedEarlier DEF HolderInv
<1> QED
  BY <1>2, <1>3, <1>4, <1>5, <1>6, <1>7, <1>8, <1>9

\* A file once swapped stays so while the Prepared journal is the newest.
LEMMA SwappedStays ==
  ASSUME NEW c \in Change, NEW f \in File, Swapped(c, f),
         draft' = draft, phase' = phase,
         old'[c][f] = old[c][f] \/ old'[c][f] # Absent,
         staged'[c][f] \in {staged[c][f], Absent}
  PROVE  Swapped(c, f)'
BY DEF Swapped, Targets, Before, After

\* Swapping the files one by one.
LEMMA SwapSteps ==
  ASSUME WholeInv, NEW p \in Process,
         \/ \E f \in File : CheckTarget(p, f)
         \/ Preserve(p) \/ Recheck(p) \/ Install(p) \/ VerifyInstalled(p)
  PROVE  HolderInv'
<1>0. ASSUME lock' # None PROVE lock = p /\ lock' = p
  BY <1>0 DEF CheckTarget, Preserve, Recheck, Install, VerifyInstalled, EntryDone, Running,
     ProceedIf, LocalsKept, Release
<1> SUFFICES ASSUME lock = p, lock' = p PROVE HolderInv'
  BY <1>0, FreeHolder
<1> USE DEF Locked, BeforePrepared, AfterPrepared, Swapping, AfterValidate, AllSwapped
<1> DEFINE c == cur[p]
<1>1. /\ c \in Change /\ Drafted(c) /\ pc \in [Process -> Label] /\ lock # None
      /\ pc[p] \in Swapping => phase[c] = "prepared"
  BY HolderWorks DEF Owning, PhaseAt
<1>2. ASSUME NEW f \in File, CheckTarget(p, f) PROVE HolderInv'
  <2> DEFINE l == IF Before(c, f) = Absent THEN "install" ELSE "preserve"
  <2>1. /\ pc[p] = "check" /\ Goto(p, l) /\ file' = f /\ f \in todo
        /\ live[f] = Before(c, f)
        /\ UNCHANGED <<lock, cur, draft, todo, phase, live, old, staged>>
    BY <1>1, <1>2 DEF CheckTarget, Running, Release, LocalsKept
  <2>2. l \in Locked
    OBVIOUS
  <2>3. /\ pc'[p] = l /\ cur'[p] = c /\ BaseIsUnapproved'
        /\ Targets(c)' = Targets(c)
        /\ \A g \in File : /\ After(c, g)' = After(c, g) /\ Before(c, g)' = Before(c, g)
    <3> HIDE DEF l
    <3> QED
      BY <2>1, <2>2, HolderGoes
  <2>4. \A g \in Targets(c) \ todo : Swapped(c, g)
    BY <2>1 DEF WholeInv, ProgressInv, SwappedSoFar
  <2>5. \A g \in Targets(c) \ todo : Swapped(c, g)'
    BY <1>1, <2>1, <2>4, SwappedStays DEF Targets
  <2>6. todo \subseteq Targets(c)
    BY <2>1 DEF WholeInv, ProgressInv, SwappedSoFar
  <2>7. SwappedSoFar'
    BY <2>1, <2>3, <2>5, <2>6 DEF SwappedSoFar
  <2> QED
    BY <2>3, <2>7, RootLater, StagedEarlier DEF HolderInv
<1>3. CASE Preserve(p)
  <2>1. /\ pc[p] = "preserve" /\ Goto(p, "recheck") /\ live[file] # Absent
        /\ old' = [old EXCEPT ![c][file] = live[file]]
        /\ UNCHANGED <<lock, cur, draft, todo, file, phase, staged>>
    BY <1>1, <1>3 DEF Preserve, Running, Release, ProceedIf, LocalsKept
  <2>2. /\ pc'[p] = "recheck" /\ cur'[p] = c /\ BaseIsUnapproved'
        /\ Targets(c)' = Targets(c)
        /\ \A g \in File : /\ After(c, g)' = After(c, g) /\ Before(c, g)' = Before(c, g)
    BY <2>1, HolderGoes
  <2>3. /\ \A g \in Targets(c) \ todo : Swapped(c, g)
        /\ todo \subseteq Targets(c) /\ file \in Targets(c)
    BY <2>1, HolderWorks DEF WholeInv, ProgressInv, SwappedSoFar
  <2>4. old'[c][file] # Absent /\ \A g \in File \ {file} : old'[c][g] = old[c][g]
    BY <1>1, <2>1, <2>3 DEF WholeInv, BothInv, SafetyInv, TypeOK, Targets
  <2>5. \A g \in Targets(c) \ todo : Swapped(c, g)'
    BY <1>1, <2>1, <2>3, <2>4, SwappedStays DEF Targets
  <2>6. SwappedSoFar'
    BY <2>1, <2>2, <2>3, <2>4, <2>5 DEF SwappedSoFar
  <2> QED
    BY <2>2, <2>6, RootLater, StagedEarlier DEF HolderInv
\* An entry done leaves one more file swapped.
<1>4. ASSUME EntryDone(p), Swapped(c, file), pc[p] \in {"recheck", "verify"},
             UNCHANGED <<draft, phase, old, staged>>
      PROVE  HolderInv'
  <2> DEFINE l == IF todo = {file} THEN "approve" ELSE "check"
  <2>1. Goto(p, l) /\ todo' = todo \ {file} /\ UNCHANGED <<lock, cur, draft>>
    BY <1>4 DEF EntryDone, LocalsKept
  <2>2. l \in Locked
    OBVIOUS
  <2>3. /\ pc'[p] = l /\ cur'[p] = c /\ BaseIsUnapproved'
        /\ Targets(c)' = Targets(c)
    <3> HIDE DEF l
    <3> QED
      BY <1>4, <2>1, <2>2, HolderGoes
  <2>4. /\ \A g \in Targets(c) \ todo : Swapped(c, g)
        /\ todo \subseteq Targets(c)
    BY <1>4 DEF WholeInv, ProgressInv, SwappedSoFar
  <2>5. \A g \in Targets(c) \ todo' : Swapped(c, g)'
    BY <1>1, <1>4, <2>1, <2>4, SwappedStays DEF Targets
  <2>6. todo = {file} => todo' = {}
    BY <2>1
  <2>7. SwappedSoFar'
    BY <2>1, <2>3, <2>4, <2>5, <2>6 DEF SwappedSoFar
  <2> QED
    BY <2>3, <2>7, RootLater, StagedEarlier DEF HolderInv
<1>5. CASE Recheck(p)
  <2>1. /\ pc[p] = "recheck" /\ UNCHANGED <<draft, phase, old, staged>>
        /\ old[c][file] = Before(c, file) /\ old[c][file] # Absent
        /\ file \in Targets(c)
    BY <1>1, <1>5, HolderWorks DEF Recheck, Running, Release, WholeInv, ProgressInv, SwappedSoFar
  <2>2. Swapped(c, file)
    BY <1>1, <2>1 DEF Swapped
  <2>3. CASE EntryDone(p)
    BY <1>4, <2>1, <2>2, <2>3
  <2>4. CASE ProceedIf(p, TRUE, "install")
    <3>1. Goto(p, "install") /\ UNCHANGED <<lock, cur, todo, file>>
      BY <2>4 DEF ProceedIf, LocalsKept
    <3>2. /\ pc'[p] = "install" /\ cur'[p] = c /\ BaseIsUnapproved'
          /\ Targets(c)' = Targets(c)
          /\ \A g \in File : After(c, g)' = After(c, g) /\ Before(c, g)' = Before(c, g)
      BY <2>1, <3>1, HolderGoes
    <3>3. /\ \A g \in Targets(c) \ todo : Swapped(c, g)
          /\ todo \subseteq Targets(c)
      BY <2>1 DEF WholeInv, ProgressInv, SwappedSoFar
    <3>4. \A g \in Targets(c) \ todo : Swapped(c, g)'
      BY <1>1, <2>1, <3>1, <3>3, SwappedStays DEF Targets
    <3>5. SwappedSoFar'
      BY <2>1, <3>1, <3>2, <3>3, <3>4 DEF SwappedSoFar
    <3> QED
      BY <3>2, <3>5, RootLater, StagedEarlier DEF HolderInv
  <2> QED
    BY <1>1, <1>5, <2>3, <2>4 DEF Recheck, Release
<1>6. CASE Install(p)
  <2>1. /\ pc[p] = "install" /\ Goto(p, "verify")
        /\ staged' = [staged EXCEPT ![c][file] = Absent]
        /\ UNCHANGED <<lock, cur, draft, todo, file, phase, old>>
    BY <1>1, <1>6 DEF Install, Running, Release, ProceedIf, LocalsKept
  <2>2. /\ pc'[p] = "verify" /\ cur'[p] = c /\ BaseIsUnapproved'
        /\ Targets(c)' = Targets(c)
        /\ \A g \in File : /\ After(c, g)' = After(c, g) /\ Before(c, g)' = Before(c, g)
    BY <2>1, HolderGoes
  <2>3. /\ \A g \in Targets(c) \ todo : Swapped(c, g)
        /\ todo \subseteq Targets(c) /\ file \in Targets(c)
        /\ Before(c, file) # Absent => old[c][file] # Absent
    BY <2>1, HolderWorks DEF WholeInv, ProgressInv, SwappedSoFar
  <2>4. staged'[c][file] = Absent /\ \A g \in File \ {file} : staged'[c][g] = staged[c][g]
    BY <1>1, <2>1, <2>3 DEF WholeInv, BothInv, SafetyInv, TypeOK, Targets
  <2>5. \A g \in Targets(c) \ todo : Swapped(c, g)'
    BY <1>1, <2>1, <2>3, <2>4, SwappedStays DEF Targets
  <2>6. Swapped(c, file)'
    BY <1>1, <2>1, <2>2, <2>3, <2>4 DEF Swapped, Targets
  <2>7. SwappedSoFar'
    BY <2>1, <2>2, <2>3, <2>5, <2>6 DEF SwappedSoFar
  <2> QED
    BY <2>2, <2>7, RootLater, StagedEarlier DEF HolderInv
<1>7. CASE VerifyInstalled(p)
  <2>1. /\ pc[p] = "verify" /\ UNCHANGED <<draft, phase, old, staged>> /\ EntryDone(p)
    BY <1>1, <1>7 DEF VerifyInstalled, Running, Release
  <2>2. Swapped(c, file)
    BY <2>1 DEF WholeInv, ProgressInv, SwappedSoFar
  <2> QED
    BY <1>4, <2>1, <2>2
<1> QED
  BY <1>2, <1>3, <1>5, <1>6, <1>7

\* From the approval record to the Committed journal.
LEMMA CommitSteps ==
  ASSUME WholeInv, NEW p \in Process,
         \/ InstallApprovalRecord(p) \/ CheckRoot(p)
         \/ WriteJournal(p) /\ pc[p] = "writeCommitted"
         \/ RenameCommitted(p)
  PROVE  HolderInv'
<1>0. ASSUME lock' # None PROVE lock = p /\ lock' = p
  BY <1>0 DEF InstallApprovalRecord, CheckRoot, WriteJournal, RenameCommitted, RenameJournal,
     Running, ProceedIf, LocalsKept, Release
<1> SUFFICES ASSUME lock = p, lock' = p PROVE HolderInv'
  BY <1>0, FreeHolder
<1> USE DEF Locked, BeforePrepared, AfterPrepared, Swapping, AfterValidate, AllSwapped
<1> DEFINE c == cur[p]
<1>1. /\ c \in Change /\ Drafted(c) /\ pc \in [Process -> Label] /\ lock # None
      /\ pc[p] \in AllSwapped => \A g \in Targets(c) : Swapped(c, g)
  BY HolderWorks DEF WholeInv, ProgressInv, SwappedSoFar
<1>2. ASSUME NEW l \in AllSwapped \ {"approve"}, Goto(p, l), pc[p] \in AllSwapped,
             UNCHANGED <<lock, cur, draft, phase, old, staged>>
      PROVE  /\ pc'[p] = l /\ cur'[p] = c /\ BaseIsUnapproved' /\ SwappedSoFar'
             /\ Targets(c)' = Targets(c)
  <2>1. /\ pc'[p] = l /\ cur'[p] = c /\ BaseIsUnapproved'
        /\ Targets(c)' = Targets(c)
    BY <1>2, HolderGoes
  <2>2. \A g \in Targets(c) : Swapped(c, g)'
    BY <1>1, <1>2, SwappedStays DEF Targets
  <2>3. SwappedSoFar'
    BY <1>2, <2>1, <2>2 DEF SwappedSoFar
  <2> QED
    BY <2>1, <2>3
<1>3. CASE InstallApprovalRecord(p)
  <2>1. /\ pc[p] = "approve" /\ Goto(p, "root") /\ c \notin proof'
        /\ UNCHANGED <<lock, cur, draft, phase, old, staged>>
    BY <1>1, <1>3 DEF InstallApprovalRecord, Running, ProceedIf, LocalsKept, Release
  <2>2. pc'[p] = "root" /\ cur'[p] = c /\ BaseIsUnapproved' /\ SwappedSoFar'
    BY <1>2, <2>1
  <2>3. StagedSoFar'
    BY <2>1, <2>2 DEF StagedSoFar
  <2> QED
    BY <2>2, <2>3, RootLater DEF HolderInv
<1>4. CASE CheckRoot(p)
  <2>1. /\ pc[p] = "root" /\ Goto(p, "writeCommitted") /\ CanonRoot = ResultRoot(c)
        /\ UNCHANGED <<lock, cur, draft, phase, old, staged, proof, live, record>>
    BY <1>1, <1>4 DEF CheckRoot, Running, ProceedIf, LocalsKept, Release
  <2>2. pc'[p] = "writeCommitted" /\ cur'[p] = c /\ BaseIsUnapproved' /\ SwappedSoFar'
    BY <1>2, <2>1
  <2>3. StagedSoFar'
    BY <2>1, <2>2 DEF StagedSoFar, WholeInv, ProgressInv
  <2>4. RootCompared'
    BY <2>1, <2>2 DEF RootCompared, CanonRoot, ResultRoot
  <2> QED
    BY <2>2, <2>3, <2>4 DEF HolderInv
<1>5. CASE WriteJournal(p) /\ pc[p] = "writeCommitted"
  <2>1. /\ Goto(p, "renameCommitted")
        /\ UNCHANGED <<lock, cur, draft, phase, old, staged, proof, live, record>>
    BY <1>5 DEF WriteJournal
  <2>2. pc'[p] = "renameCommitted" /\ cur'[p] = c /\ BaseIsUnapproved' /\ SwappedSoFar'
    BY <1>2, <1>5, <2>1
  <2>3. StagedSoFar'
    BY <1>5, <2>1, <2>2 DEF StagedSoFar, WholeInv, ProgressInv
  <2>4. CanonRoot = ResultRoot(c)
    BY <1>5 DEF RootCompared, WholeInv, ProgressInv
  <2>5. RootCompared'
    BY <2>1, <2>2, <2>4 DEF RootCompared, CanonRoot, ResultRoot
  <2> QED
    BY <2>2, <2>3, <2>5 DEF HolderInv
<1>6. CASE RenameCommitted(p)
  <2>1. /\ pc[p] = "renameCommitted" /\ Goto(p, "syncCommitted")
        /\ UNCHANGED <<lock, cur, draft>>
    BY <1>6 DEF RenameCommitted, RenameJournal, Running
  <2>2. pc'[p] = "syncCommitted" /\ BaseIsUnapproved'
    BY <2>1, HolderGoes
  <2> QED
    BY <2>2, SwappedLater, RootLater, StagedEarlier DEF HolderInv
<1> QED
  BY <1>3, <1>4, <1>5, <1>6

\* A step that leaves the unsynced Prepared transactions as they are.
LEMMA UnsyncedFrame ==
  ASSUME WholeInv, \A d \in Change : Drafted(d) => draft'[d] = draft[d],
         \A c \in unsynced' : phase'[c] = "prepared" =>
           /\ c \in unsynced /\ phase[c] = "prepared" /\ staged'[c] = staged[c]
           /\ c \in proof => c \in proof'
  PROVE  UnsyncedIsUntouched'
<1> SUFFICES ASSUME NEW c \in unsynced', phase'[c] = "prepared"
             PROVE  /\ c \in proof'
                    /\ \A f \in Targets(c)' : Before(c, f)' = Absent => staged'[c][f] # Absent
  BY DEF UnsyncedIsUntouched
<1>1. /\ c \in unsynced /\ phase[c] = "prepared" /\ staged'[c] = staged[c] /\ c \in Change
      /\ c \in proof => c \in proof'
  BY DEF WholeInv, BothInv, SafetyInv, TypeOK
<1>2. Drafted(c)
  BY <1>1 DEF WholeInv, BothInv, ChainInv, OnlyDrafted
<1>3. draft'[c] = draft[c]
  BY <1>1, <1>2
<1> QED
  BY <1>1, <1>3 DEF Targets, Before, WholeInv, ProgressInv, UnsyncedIsUntouched

LEMMA UnsyncedStep == WholeInv /\ [Next]_vars => UnsyncedIsUntouched'
<1> SUFFICES ASSUME WholeInv, [Next]_vars PROVE UnsyncedIsUntouched'
  OBVIOUS
<1>0. TypeOK
  BY DEF WholeInv, BothInv, SafetyInv
<1>1. ASSUME NEW c \in Change, NEW k \in 1..MaxOrder, NEW after \in Plans,
             DraftChange(c, k, after)
      PROVE  UnsyncedIsUntouched'
  BY <1>1, UnsyncedFrame DEF DraftChange
<1>2. CASE PowerLoss
  BY <1>2 DEF PowerLoss, UnsyncedIsUntouched
<1>3. CASE UNCHANGED <<draft, phase, unsynced, staged, proof>>
  BY <1>3, UnsyncedFrame
<1>4. ASSUME NEW p \in Process, ApplyStep(p) PROVE UnsyncedIsUntouched'
  <2> DEFINE c == cur[p]
  <2>0. lock = p /\ c \in Change /\ draft' = draft
    BY <1>0, <1>4, HolderWorks DEF ApplyStep, Running, Recover, Validate, CreateTransaction, Snapshot,
       CheckTarget, StageProof, WriteJournal, RenamePrepared, RenameCommitted, RenameJournal,
       SyncPrepared, SyncCommitted, Preserve, Recheck, Install, VerifyInstalled,
       InstallApprovalRecord, CheckRoot
  <2>1. CASE CreateTransaction(p)
    BY <1>0, <2>0, <2>1, UnsyncedFrame DEF CreateTransaction, TypeOK
  <2>2. ASSUME NEW f \in File, Snapshot(p, f) PROVE UnsyncedIsUntouched'
    <3>1. phase[c] = "created"
      BY <2>0, <2>2, HolderWorks DEF Snapshot, Running, Owning, PhaseAt
    <3>2. \A d \in Change : d # c => staged'[d] = staged[d]
      BY <1>0, <2>2 DEF Snapshot, TypeOK
    <3>3. UNCHANGED <<phase, unsynced, proof>>
      BY <2>2 DEF Snapshot
    <3> QED
      BY <1>0, <2>0, <3>1, <3>2, <3>3, UnsyncedFrame DEF TypeOK
  <2>3. CASE StageProof(p)
    BY <2>0, <2>3, UnsyncedFrame DEF StageProof
  <2>4. CASE RenamePrepared(p)
    <3>1. /\ c \in proof /\ phase' = [phase EXCEPT ![c] = "prepared"]
          /\ \A f \in Targets(c) : staged[c][f] = After(c, f)
          /\ unsynced' = unsynced \cup {c} /\ UNCHANGED <<proof, staged, draft>>
      BY <2>0, <2>4 DEF RenamePrepared, RenameJournal, Running, WholeInv, ProgressInv, StagedSoFar
    <3>2. \A f \in Targets(c) : Before(c, f) = Absent => staged[c][f] # Absent
      BY <3>1 DEF Targets, Before, After
    <3>3. \A d \in unsynced : d # c => phase'[d] = phase[d]
      BY <1>0, <3>1 DEF TypeOK
    <3>4. ASSUME NEW d \in unsynced', phase'[d] = "prepared"
          PROVE  /\ d \in proof'
                 /\ \A f \in Targets(d) : Before(d, f) = Absent => staged[d][f] # Absent
      BY <3>1, <3>2, <3>3, <3>4 DEF WholeInv, ProgressInv, UnsyncedIsUntouched
    <3> QED
      BY <3>1, <3>4 DEF UnsyncedIsUntouched, Targets, Before
  <2>5. CASE RenameCommitted(p)
    <3>1. phase' = [phase EXCEPT ![c] = "committed"] /\ unsynced' = unsynced \cup {c}
          /\ UNCHANGED <<proof, staged>>
      BY <2>5 DEF RenameCommitted, RenameJournal
    <3> QED
      BY <1>0, <2>0, <3>1, UnsyncedFrame DEF TypeOK
  <2>6. CASE SyncPrepared(p) \/ SyncCommitted(p)
    BY <2>0, <2>6, UnsyncedFrame DEF SyncPrepared, SyncCommitted
  <2>7. CASE Install(p)
    <3>1. c \notin unsynced
      BY <2>0, <2>7 DEF Install, Running, WholeInv, BothInv, SafetyInv, OneUnsettled, Owning
    <3>2. \A d \in Change : d # c => staged'[d] = staged[d]
      BY <1>0, <2>7 DEF Install, TypeOK
    <3>3. UNCHANGED <<phase, unsynced, proof>>
      BY <2>7 DEF Install
    <3> QED
      BY <1>0, <2>0, <3>1, <3>2, <3>3, UnsyncedFrame DEF TypeOK
  <2>8. CASE InstallApprovalRecord(p)
    <3>1. c \notin unsynced
      BY <2>0, <2>8 DEF InstallApprovalRecord, Running, WholeInv, BothInv, SafetyInv,
         OneUnsettled, Owning
    <3>2. UNCHANGED <<phase, unsynced, staged>> /\ proof \ {c} \subseteq proof'
      BY <2>8 DEF InstallApprovalRecord
    <3> QED
      BY <2>0, <3>1, <3>2, UnsyncedFrame
  <2> QED
    BY <1>3, <1>4, <2>1, <2>2, <2>3, <2>4, <2>5, <2>6, <2>7, <2>8
    DEF ApplyStep, Recover, Validate, CheckTarget, WriteJournal, Preserve, Recheck,
        VerifyInstalled, CheckRoot
<1>5. ASSUME NEW p \in Process, Fault(p) PROVE UnsyncedIsUntouched'
  BY <1>5, UnsyncedFrame DEF Fault, SyncFails, IoFails, Crash
<1> QED
  BY <1>1, <1>2, <1>3, <1>4, <1>5 DEF Next, vars, RequestApproval, AcquireLock,
     Editor, EditCanon, EditRecord, EditCandidate, OutsideEdit

LEMMA ProgressStep == EditorWaits /\ WholeInv /\ [Next]_vars => ProgressInv'
<1> SUFFICES ASSUME EditorWaits, WholeInv, [Next]_vars PROVE HolderInv'
  BY UnsyncedStep DEF HolderInv, ProgressInv
<1>1. ASSUME NEW c \in Change, NEW k \in 1..MaxOrder, NEW after \in Plans,
             DraftChange(c, k, after)
      PROVE  HolderInv'
  BY <1>1, OthersProgress DEF DraftChange
<1>2. ASSUME NEW p \in Process, NEW c \in Change, RequestApproval(p, c) PROVE HolderInv'
  <2>1. lock # p /\ pc \in [Process -> Label] /\ cur \in [Process -> Change \cup {None}]
    BY <1>2 DEF RequestApproval, WholeInv, BothInv, SafetyInv, LocalsOK, TypeOK, Locked,
       BeforePrepared, AfterPrepared, Swapping
  <2> QED
    BY <1>2, <2>1, OthersProgress DEF RequestApproval, Goto
<1>3. ASSUME NEW p \in Process, AcquireLock(p) PROVE HolderInv'
  <2>1. lock' = p /\ pc'[p] = "recover"
    BY <1>3 DEF AcquireLock, Goto, WholeInv, BothInv, SafetyInv, TypeOK
  <2> QED
    BY <2>1 DEF HolderInv, BaseIsUnapproved, StagedSoFar, SwappedSoFar, RootCompared,
       AfterValidate, AllSwapped, Swapping
<1>4. ASSUME NEW p \in Process, ApplyStep(p) PROVE HolderInv'
  <2>1. CASE SyncCommitted(p)
    BY <2>1, FreeHolder DEF SyncCommitted, Release
  <2>2. CASE WriteJournal(p)
    BY <2>2, StageSteps, CommitSteps DEF WriteJournal
  <2> QED
    BY <1>4, <2>1, <2>2, StageSteps, SwapSteps, CommitSteps DEF ApplyStep
<1>5. ASSUME NEW p \in Process, Fault(p) PROVE HolderInv'
  <2>1. CASE lock' = None
    BY <2>1, FreeHolder
  <2>2. CASE lock' # None
    <3>1. Crash(p) /\ lock # p
      BY <1>5, <2>2 DEF Fault, SyncFails, IoFails, Crash, Release
    <3>2. UNCHANGED <<live, record, phase, staged, old, proof, lock, todo, file, draft>>
      BY <3>1 DEF Crash
    <3>3. \A q \in Process : lock = q => pc'[q] = pc[q] /\ cur'[q] = cur[q]
      BY <3>1 DEF Crash, Goto, WholeInv, BothInv, SafetyInv, TypeOK
    <3> QED
      BY <3>2, <3>3, OthersProgress
  <2> QED
    BY <2>1, <2>2
<1>6. CASE PowerLoss
  BY <1>6, FreeHolder DEF PowerLoss
<1>7. CASE Editor
  <2>1. UNCHANGED <<phase, staged, old, proof, draft, lock, pc, cur, todo, file>>
    BY <1>7 DEF Editor, EditCanon, EditRecord, EditCandidate, OutsideEdit
  <2>2. CASE lock = None
    BY <2>1, <2>2, FreeHolder
  <2>3. CASE lock # None
    <3>1. UNCHANGED <<live, record>>
      BY <1>7, <2>3 DEF Editor, EditCanon, EditRecord, EditCandidate
    <3> QED
      BY <2>1, <3>1, OthersProgress
  <2> QED
    BY <2>2, <2>3
<1>8. CASE UNCHANGED vars
  BY <1>8, OthersProgress DEF vars
<1> QED
  BY <1>1, <1>2, <1>3, <1>4, <1>5, <1>6, <1>7, <1>8 DEF Next

\* The whole invariant of the refinement, for editors that wait.
THEOREM Whole == ASSUME EditorWaits PROVE Spec => []WholeInv
<1>1. Init => WholeInv
  BY InitSafety, InitChain, InitProgress DEF WholeInv, BothInv
<1>2. WholeInv /\ [Next]_vars => WholeInv'
  BY ChainStep, ProgressStep DEF WholeInv
<1> QED
  BY <1>1, <1>2, PTL DEF Spec

-----------------------------------------------------------------------------
(***************************************************************************)
(* Every step maps to a step of AtomicApproval, or to none.                *)
(***************************************************************************)
\* Nothing is frozen while an apply is past recovery.
LEMMA HolderIsNotFrozen ==
  ASSUME WholeInv, NEW p \in Process, lock = p, pc[p] # "recover"
  PROVE  ~Frozen
<1>1. CASE Owning(p)
  BY <1>1, OwnerIsAlone DEF WholeInv, BothInv, Frozen
<1>2. CASE ~Owning(p)
  BY <1>2 DEF WholeInv, BothInv, SafetyInv, OneUnsettled, Owning, Settled, Frozen,
     Abandoned, Unfinished
<1> QED
  BY <1>1, <1>2

\* A failure is for good.
LEMMA FrozenStays == WholeInv /\ [Next]_vars /\ Frozen => Frozen'
<1> SUFFICES ASSUME WholeInv, [Next]_vars, Frozen PROVE Frozen'
  OBVIOUS
<1>0. SafetyInv /\ TypeOK /\ LocalsOK
  BY DEF WholeInv, BothInv, SafetyInv
<1>1. PICK c \in Change : Abandoned(c)
  BY DEF Frozen
<1>2. \A p \in Process : lock = p => pc[p] = "recover"
  BY HolderIsNotFrozen
<1>3. ASSUME UNCHANGED <<phase, tmp, marker>>,
             \A p \in Process : lock' = p => pc'[p] \in {"recover", "validate"}
      PROVE  Frozen'
  BY <1>1, <1>3 DEF Frozen, Abandoned, BeingApplied, Unfinished
<1>4. ASSUME NEW p \in Process, ApplyStep(p) PROVE Frozen'
  <2>1. lock = p /\ pc[p] = "recover"
    BY <1>2, <1>4 DEF ApplyStep, Running, Recover, Validate, CreateTransaction,
       Snapshot, CheckTarget, StageProof, WriteJournal, RenamePrepared,
       RenameCommitted, SyncPrepared, SyncCommitted, Preserve, Recheck, Install,
       VerifyInstalled, InstallApprovalRecord, CheckRoot
  <2>2. Recover(p)
    BY <1>4, <2>1 DEF ApplyStep, Running, Validate, CreateTransaction,
       Snapshot, CheckTarget, StageProof, WriteJournal, RenamePrepared,
       RenameCommitted, SyncPrepared, SyncCommitted, Preserve, Recheck, Install,
       VerifyInstalled, InstallApprovalRecord, CheckRoot
  <2>3. UNCHANGED <<phase, tmp, marker>> /\ (lock' = None \/ (lock' = p /\ pc'[p] = "validate"))
    BY <1>0, <2>1, <2>2 DEF Recover, ProceedIf, Goto, LocalsKept, Release, TypeOK
  <2> QED
    BY <1>3, <2>3
<1>5. ASSUME NEW p \in Process, Fault(p) PROVE Frozen'
  <2>1. IoFails(p) \/ Crash(p)
    BY <1>2, <1>5 DEF Fault, SyncFails, Running
  <2>2. UNCHANGED <<phase, tmp, marker>>
    BY <2>1 DEF IoFails, Crash
  <2>3. \A q \in Process : lock' = q => pc'[q] = "recover"
    BY <1>0, <1>2, <2>1 DEF IoFails, Crash, Release, Goto, TypeOK
  <2> QED
    BY <1>3, <2>2, <2>3
<1>6. CASE PowerLoss
  <2>1. lock' = None /\ marker' = marker /\ tmp \subseteq tmp'
    BY <1>6 DEF PowerLoss
  <2>2. phase[c] \in {"created", "prepared"} => phase'[c] \in {"created", "prepared"}
    BY <1>6 DEF PowerLoss
  <2> QED
    BY <1>1, <2>1, <2>2 DEF Frozen, Abandoned, BeingApplied, Unfinished
<1>7. ASSUME NEW p \in Process, AcquireLock(p) PROVE Frozen'
  <2>1. UNCHANGED <<phase, tmp, marker>> /\ lock' = p /\ pc'[p] = "recover"
    BY <1>0, <1>7 DEF AcquireLock, Goto, TypeOK
  <2> QED
    BY <1>3, <2>1
<1>8. ASSUME NEW p \in Process, NEW d \in Change, RequestApproval(p, d) PROVE Frozen'
  <2>1. UNCHANGED <<phase, tmp, marker, lock>> /\ pc' = [pc EXCEPT ![p] = "lock"]
    BY <1>8 DEF RequestApproval, Goto
  <2>2. lock # p
    BY <1>0, <1>8 DEF RequestApproval, LocalsOK, Locked, BeforePrepared, AfterPrepared,
       Swapping
  <2> QED
    BY <1>0, <1>2, <1>3, <2>1, <2>2 DEF TypeOK
<1>9. CASE UNCHANGED <<phase, tmp, marker, lock, pc>>
  BY <1>2, <1>3, <1>9
<1> QED
  BY <1>4, <1>5, <1>6, <1>7, <1>8, <1>9 DEF Next, vars, DraftChange, Editor, EditCanon,
     EditRecord, EditCandidate, OutsideEdit

\* A step that changes nothing a human could recover is a stutter, or freezes.
LEMMA QuietStep ==
  ASSUME WholeInv, [Next]_vars, RecoverableCanon' = RecoverableCanon,
         Committed' = Committed, UNCHANGED <<draft, acked, edits>>
  PROVE  [Atomic!Next]_(Atomic!vars)
<1>1. CASE Frozen'
  <2>1. Atomic!Freeze
    BY <1>1 DEF Atomic!Freeze
  <2> QED
    BY <2>1 DEF Atomic!Next
<1>2. CASE ~Frozen'
  <2>1. ~Frozen
    BY <1>2, FrozenStays
  <2>2. Frozen' = Frozen
    BY <1>2, <2>1 DEF Frozen
  <2> QED
    BY <2>2 DEF Atomic!vars
<1> QED
  BY <1>1, <1>2

\* What a human recovers depends on the transactions and the canon alone.
LEMMA SameRecovery ==
  ASSUME WholeInv, \A d \in Change : Drafted(d) => draft'[d] = draft[d],
         live' = live, \A f \in File : SwappedBy(f)' = SwappedBy(f),
         \A d \in Change : RecoverableRecord(d)' = RecoverableRecord(d)
  PROVE  RecoverableCanon' = RecoverableCanon
<1>1. ASSUME NEW f \in File PROVE RecoverableFile(f)' = RecoverableFile(f)
  <2>1. CASE SwappedBy(f) = {}
    BY <2>1 DEF RecoverableFile
  <2>2. CASE SwappedBy(f) # {}
    <3> DEFINE c == CHOOSE c \in SwappedBy(f) : TRUE
    <3>1. c \in SwappedBy(f)
      BY <2>2
    <3>2. c \in Change /\ phase[c] = "prepared"
      BY <3>1 DEF SwappedBy, Swapped
    <3>3. Drafted(c)
      BY <3>2 DEF WholeInv, BothInv, ChainInv, OnlyDrafted
    <3>4. draft'[c] = draft[c]
      BY <3>2, <3>3
    <3>5. (CHOOSE d \in SwappedBy(f) : TRUE)' = c
      BY DEF SwappedBy
    <3> QED
      BY <2>2, <3>4, <3>5 DEF RecoverableFile, Before
  <2> QED
    BY <2>1, <2>2
<1> QED
  BY <1>1 DEF RecoverableCanon

\* While an apply owns a transaction, it alone may have swapped files.
LEMMA OneSwapper ==
  ASSUME NEW c \in Change, \A d \in Change \ {c} : phase[d] # "prepared", NEW f \in File
  PROVE  RecoverableFile(f) = IF Swapped(c, f) THEN Before(c, f) ELSE live[f]
<1>1. CASE Swapped(c, f)
  <2>1. SwappedBy(f) = {c}
    BY <1>1 DEF SwappedBy, Swapped
  <2>2. (CHOOSE d \in {c} : TRUE) = c
    OBVIOUS
  <2> QED
    BY <1>1, <2>1, <2>2 DEF RecoverableFile
<1>2. CASE ~Swapped(c, f)
  <2>1. SwappedBy(f) = {}
    BY <1>2 DEF SwappedBy, Swapped
  <2> QED
    BY <1>2, <2>1 DEF RecoverableFile
<1> QED
  BY <1>1, <1>2

LEMMA OneSwapperNext ==
  ASSUME NEW c \in Change, \A d \in Change \ {c} : phase'[d] # "prepared", NEW f \in File
  PROVE  RecoverableFile(f)' = IF Swapped(c, f)' THEN Before(c, f)' ELSE live'[f]
<1>1. CASE Swapped(c, f)'
  <2>1. SwappedBy(f)' = {c}
    BY <1>1 DEF SwappedBy, Swapped
  <2>2. (CHOOSE d \in {c} : TRUE) = c
    OBVIOUS
  <2> QED
    BY <1>1, <2>1, <2>2 DEF RecoverableFile
<1>2. CASE ~Swapped(c, f)'
  <2>1. SwappedBy(f)' = {}
    BY <1>2 DEF SwappedBy, Swapped
  <2> QED
    BY <1>2, <2>1 DEF RecoverableFile
<1> QED
  BY <1>1, <1>2

\* A step of the apply that owns a transaction and recovers to the same canon.
LEMMA OwnerRecovers ==
  ASSUME WholeInv, NEW p \in Process, Owning(p), draft' = draft,
         \A d \in Change \ {cur[p]} : phase'[d] = phase[d],
         \A f \in File :
           (IF Swapped(cur[p], f) THEN Before(cur[p], f) ELSE live[f])
             = IF Swapped(cur[p], f)' THEN Before(cur[p], f) ELSE live'[f],
         \A d \in Change : RecoverableRecord(d)' = RecoverableRecord(d),
         UNCHANGED cur
  PROVE  RecoverableCanon' = RecoverableCanon
<1> DEFINE c == cur[p]
<1>1. c \in Change /\ \A d \in Change \ {c} : phase[d] # "prepared"
  BY HolderWorks DEF Owning, WholeInv, BothInv, SafetyInv, OneUnsettled, Settled
<1>2. ASSUME NEW f \in File PROVE RecoverableFile(f)' = RecoverableFile(f)
  <2>1. RecoverableFile(f) = IF Swapped(c, f) THEN Before(c, f) ELSE live[f]
    BY <1>1, OneSwapper
  <2>2. RecoverableFile(f)' = IF Swapped(c, f)' THEN Before(c, f)' ELSE live'[f]
    <3> HIDE DEF c
    <3>1. \A d \in Change \ {c} : phase'[d] # "prepared"
      BY <1>1 DEF c
    <3>2. c' = c
      BY DEF c
    <3> QED
      BY <1>1, <3>1, <3>2, OneSwapperNext
  <2>3. Before(c, f)' = Before(c, f)
    BY DEF Before
  <2> QED
    BY <2>1, <2>2, <2>3
<1> QED
  BY <1>2 DEF RecoverableCanon

\* Only the journals and the transactions' files say what was swapped.
LEMMA SameSwaps ==
  ASSUME WholeInv, \A d \in Change : Drafted(d) => draft'[d] = draft[d],
         \A d \in Change : phase'[d] = "prepared" <=> phase[d] = "prepared",
         \A d \in Change : phase[d] = "prepared" => UNCHANGED <<old[d], staged[d]>>
  PROVE  \A f \in File : SwappedBy(f)' = SwappedBy(f)
<1>1. ASSUME NEW f \in File, NEW d \in Change PROVE Swapped(d, f)' <=> Swapped(d, f)
  <2>1. CASE phase[d] = "prepared"
    <3>1. Drafted(d)
      BY <2>1 DEF WholeInv, BothInv, ChainInv, OnlyDrafted
    <3>2. draft'[d] = draft[d]
      BY <3>1
    <3> QED
      BY <2>1, <3>2 DEF Swapped, Targets, Before, After
  <2>2. CASE phase[d] # "prepared"
    BY <2>2 DEF Swapped
  <2> QED
    BY <2>1, <2>2
<1> QED
  BY <1>1 DEF SwappedBy

\* The steps of an apply that change nothing a human could recover.
LEMMA PrepareRecovers ==
  ASSUME WholeInv, NEW p \in Process,
         \/ CreateTransaction(p) \/ StageProof(p) \/ \E f \in File : Snapshot(p, f)
  PROVE  RecoverableCanon' = RecoverableCanon /\ Committed' = Committed
<1> DEFINE c == cur[p]
<1>0. c \in Change /\ lock = p /\ draft' = draft /\ TypeOK
      /\ UNCHANGED <<live, record, old>>
  BY HolderWorks DEF CreateTransaction, StageProof, Snapshot, Running, WholeInv, BothInv, SafetyInv
<1>1. phase[c] \in {"none", "created"} \/ UNCHANGED <<phase, proof, staged>>
  BY <1>0, HolderWorks DEF CreateTransaction, StageProof, Snapshot, Running, Owning, PhaseAt
<1>2. phase'[c] = phase[c] \/ phase'[c] = "created"
  BY <1>0 DEF CreateTransaction, StageProof, Snapshot, TypeOK
<1>3. /\ \A d \in Change \ {c} : phase'[d] = phase[d] /\ staged'[d] = staged[d]
      /\ proof' \subseteq proof \cup {c} /\ proof \subseteq proof'
  BY <1>0 DEF CreateTransaction, StageProof, Snapshot, TypeOK
<1>4. \A f \in File : SwappedBy(f)' = SwappedBy(f)
  BY <1>0, <1>1, <1>2, <1>3, SameSwaps
<1>5. \A d \in Change : RecoverableRecord(d)' = RecoverableRecord(d)
  BY <1>0, <1>1, <1>2, <1>3 DEF RecoverableRecord
<1>6. RecoverableCanon' = RecoverableCanon
  BY <1>0, <1>4, <1>5, SameRecovery
<1>7. Committed' = Committed
  BY <1>1, <1>2, <1>3 DEF Committed
<1> QED
  BY <1>6, <1>7

\* A Prepared journal appears before anything was swapped.
LEMMA PreparedRecovers ==
  ASSUME WholeInv, NEW p \in Process, RenamePrepared(p)
  PROVE  RecoverableCanon' = RecoverableCanon /\ Committed' = Committed
<1> DEFINE c == cur[p]
<1>0. c \in Change /\ lock = p /\ TypeOK /\ Owning(p) /\ phase[c] = "created"
      /\ UNCHANGED <<live, record, old, staged, proof, draft, cur>>
      /\ phase' = [phase EXCEPT ![c] = "prepared"]
  BY HolderWorks DEF RenamePrepared, RenameJournal, Running, Owning, PhaseAt, WholeInv, BothInv,
     SafetyInv
<1>1. c \in proof /\ \A f \in Targets(c) : staged[c][f] = After(c, f)
  BY <1>0 DEF RenamePrepared, Running, WholeInv, ProgressInv, StagedSoFar
<1>2. old[c] = NoFile
  BY <1>0 DEF WholeInv, BothInv, SafetyInv, NothingPreserved, MayBeUnprepared
<1>3. ASSUME NEW f \in File PROVE ~Swapped(c, f) /\ ~Swapped(c, f)'
  <2>1. ~Swapped(c, f)
    BY <1>0 DEF Swapped
  <2>2. ~Swapped(c, f)'
    BY <1>0, <1>1, <1>2 DEF Swapped, Targets, Before, After, NoFile
  <2> QED
    BY <2>1, <2>2
<1>4. \A d \in Change \ {c} : phase'[d] = phase[d]
  BY <1>0 DEF TypeOK
<1>5. \A d \in Change : RecoverableRecord(d)' = RecoverableRecord(d)
  BY <1>0, <1>1, <1>4 DEF RecoverableRecord
<1>6. RecoverableCanon' = RecoverableCanon
  BY <1>0, <1>3, <1>4, <1>5, OwnerRecovers
<1>7. Committed' = Committed
  BY <1>0 DEF Committed, TypeOK
<1> QED
  BY <1>6, <1>7

\* Preserving and installing a file recover to its bytes before the changeset.
LEMMA SwapRecovers ==
  ASSUME WholeInv, NEW p \in Process,
         Preserve(p) \/ Install(p) \/ InstallApprovalRecord(p)
  PROVE  RecoverableCanon' = RecoverableCanon /\ Committed' = Committed
<1> USE DEF Swapping
<1> DEFINE c == cur[p]
<1>0. /\ c \in Change /\ lock = p /\ TypeOK /\ Owning(p) /\ phase[c] = "prepared"
      /\ draft' = draft /\ phase' = phase
  BY HolderWorks DEF Preserve, Install, InstallApprovalRecord, Running, Owning, PhaseAt,
     WholeInv, BothInv, SafetyInv
<1>1. CASE UNCHANGED <<live, record, old, staged, proof>>
  <2>1. \A f \in File : SwappedBy(f)' = SwappedBy(f)
    BY <1>0, <1>1, SameSwaps
  <2>2. \A d \in Change : RecoverableRecord(d)' = RecoverableRecord(d)
    BY <1>0, <1>1 DEF RecoverableRecord
  <2> QED
    BY <1>0, <1>1, <2>1, <2>2, SameRecovery DEF Committed
<1>2. CASE cur' = cur /\ ~ UNCHANGED <<live, record, old, staged, proof>>
  <2>0. ASSUME pc[p] \in {"preserve", "install"}
        PROVE  \E f \in File : f = file /\ f \in Targets(c)
    BY <1>0, <2>0, HolderWorks DEF WholeInv, ProgressInv, SwappedSoFar, Targets
  <2>1. CASE Preserve(p)
    <3> PICK f \in File : f = file /\ f \in Targets(c)
      BY <2>0, <2>1 DEF Preserve, Running
    <3>1. /\ old' = [old EXCEPT ![c][f] = live[f]]
          /\ live' = [live EXCEPT ![f] = Absent]
          /\ live[f] = Before(c, f) /\ live[f] # Absent
          /\ UNCHANGED <<record, staged, proof>>
      BY <1>0, <1>2, <2>1 DEF Preserve, Running, WholeInv, ProgressInv, SwappedSoFar
    <3>2. /\ old'[c][f] = live[f] /\ \A g \in File \ {f} : old'[c][g] = old[c][g]
          /\ \A g \in File \ {f} : live'[g] = live[g]
      BY <1>0, <3>1 DEF TypeOK
    <3>3. Swapped(c, f)'
      BY <1>0, <1>2, <3>1, <3>2 DEF Swapped, Targets, Before, After
    <3>4. \A g \in File \ {f} : Swapped(c, g)' <=> Swapped(c, g)
      BY <1>0, <1>2, <3>1, <3>2 DEF Swapped, Targets, Before, After
    <3>5. \A g \in File : (IF Swapped(c, g) THEN Before(c, g) ELSE live[g])
                            = IF Swapped(c, g)' THEN Before(c, g) ELSE live'[g]
      BY <3>1, <3>2, <3>3, <3>4
    <3>6. \A d \in Change : RecoverableRecord(d)' = RecoverableRecord(d)
      BY <1>0, <3>1 DEF RecoverableRecord
    <3> QED
      BY <1>0, <1>2, <3>5, <3>6, OwnerRecovers DEF Committed
  <2>2. CASE Install(p)
    <3> PICK f \in File : f = file /\ f \in Targets(c)
      BY <2>0, <2>2 DEF Install, Running
    <3>1. /\ staged' = [staged EXCEPT ![c][f] = Absent]
          /\ live' = [live EXCEPT ![f] = staged[c][f]]
          /\ live[f] = Absent
          /\ Before(c, f) # Absent => old[c][f] # Absent
          /\ UNCHANGED <<record, old, proof>>
      BY <1>0, <1>2, <2>2 DEF Install, Running, WholeInv, ProgressInv, SwappedSoFar
    <3>2. /\ staged'[c][f] = Absent /\ \A g \in File \ {f} : staged'[c][g] = staged[c][g]
          /\ \A g \in File \ {f} : live'[g] = live[g]
      BY <1>0, <3>1 DEF TypeOK
    <3>3. Swapped(c, f)'
      BY <1>0, <1>2, <3>1, <3>2 DEF Swapped, Targets, Before, After
    <3>4. \A g \in File \ {f} : Swapped(c, g)' <=> Swapped(c, g)
      BY <1>0, <1>2, <3>1, <3>2 DEF Swapped, Targets, Before, After
    <3>5. Before(c, f) # Absent => Swapped(c, f)
      BY <1>0, <3>1 DEF Swapped
    <3>6. \A g \in File : (IF Swapped(c, g) THEN Before(c, g) ELSE live[g])
                            = IF Swapped(c, g)' THEN Before(c, g) ELSE live'[g]
      BY <3>1, <3>2, <3>3, <3>4, <3>5
    <3>7. \A d \in Change : RecoverableRecord(d)' = RecoverableRecord(d)
      BY <1>0, <3>1 DEF RecoverableRecord
    <3> QED
      BY <1>0, <1>2, <3>6, <3>7, OwnerRecovers DEF Committed
  <2>3. CASE InstallApprovalRecord(p)
    <3>1. /\ record[c] = "absent" /\ record' = [record EXCEPT ![c] = "genuine"]
          /\ proof' = proof \ {c} /\ UNCHANGED <<live, old, staged>>
      BY <1>2, <2>3 DEF InstallApprovalRecord
    <3>2. \A f \in File : Swapped(c, f)' <=> Swapped(c, f)
      BY <1>0, <1>2, <3>1 DEF Swapped, Targets, Before, After
    <3>3. \A g \in File : (IF Swapped(c, g) THEN Before(c, g) ELSE live[g])
                            = IF Swapped(c, g)' THEN Before(c, g) ELSE live'[g]
      BY <3>1, <3>2
    <3>4. \A d \in Change : RecoverableRecord(d)' = RecoverableRecord(d)
      BY <1>0, <3>1 DEF RecoverableRecord, TypeOK
    <3> QED
      BY <1>0, <1>2, <3>3, <3>4, OwnerRecovers DEF Committed
  <2> QED
    BY <2>1, <2>2, <2>3
<1>3. CASE cur' # cur /\ ~ UNCHANGED <<live, record, old, staged, proof>>
  BY <1>3 DEF Preserve, Install, InstallApprovalRecord, ProceedIf, LocalsKept
<1> QED
  BY <1>1, <1>2, <1>3

\* The Committed journal appears: the whole changeset is approved at once.
LEMMA CommitApproves ==
  ASSUME WholeInv, NEW p \in Process, RenameCommitted(p)
  PROVE  Atomic!Approve(cur[p])
<1> DEFINE c == cur[p]
<1>0. /\ c \in Change /\ lock = p /\ TypeOK /\ Owning(p) /\ phase[c] = "prepared"
      /\ pc[p] = "renameCommitted" /\ Drafted(c)
      /\ UNCHANGED <<live, record, draft, acked, edits, lock, cur, marker, proof>>
      /\ phase' = [phase EXCEPT ![c] = "committed"] /\ tmp' = tmp \ {c}
      /\ pc' = [pc EXCEPT ![p] = "syncCommitted"]
  BY HolderWorks DEF RenameCommitted, RenameJournal, Goto, Running, Owning, PhaseAt, WholeInv,
     BothInv, SafetyInv
<1>1. /\ CanonRoot = ResultRoot(c) /\ c \notin proof
      /\ \A f \in Targets(c) : Swapped(c, f)
      /\ draft[c].base.records[c] = "absent"
  BY <1>0 DEF WholeInv, ProgressInv, RootCompared, StagedSoFar, SwappedSoFar, AllSwapped,
     BaseIsUnapproved, AfterValidate, Locked, AfterPrepared
<1>2. \A d \in Change \ {c} : Settled(d)
  BY <1>0 DEF WholeInv, BothInv, SafetyInv, OneUnsettled
<1>3. live = draft[c].after /\ record = [draft[c].base.records EXCEPT ![c] = "genuine"]
  BY <1>1 DEF CanonRoot, ResultRoot
<1>4. draft[c].base \in Root /\ draft[c].after \in [File -> Value]
  BY <1>0 DEF TypeOK, Draft
<1>5. \A f \in File : RecoverableFile(f) = draft[c].base.files[f]
  <2>1. ASSUME NEW f \in File PROVE RecoverableFile(f) = draft[c].base.files[f]
    <3>1. RecoverableFile(f) = IF Swapped(c, f) THEN Before(c, f) ELSE live[f]
      BY <1>0, <1>2, OneSwapper DEF Settled
    <3>2. CASE f \in Targets(c)
      BY <1>1, <3>1, <3>2 DEF Before
    <3>3. CASE f \notin Targets(c)
      BY <1>3, <3>1, <3>3 DEF Swapped, Targets
    <3> QED
      BY <3>2, <3>3
  <2> QED
    BY <2>1
<1>6. \A d \in Change : RecoverableRecord(d) = draft[c].base.records[d]
  BY <1>0, <1>1, <1>2, <1>3, <1>4 DEF RecoverableRecord, Settled, Root
<1>7. RecoverableCanon = draft[c].base
  <2>1. draft[c].base = [files |-> draft[c].base.files, records |-> draft[c].base.records]
    BY <1>4 DEF Root
  <2>2. /\ draft[c].base.files = [f \in File |-> RecoverableFile(f)]
        /\ draft[c].base.records = [d \in Change |-> RecoverableRecord(d)]
    BY <1>4, <1>5, <1>6 DEF Root
  <2> QED
    BY <2>1, <2>2 DEF RecoverableCanon
<1>8. \A d \in Change : phase'[d] # "prepared"
  BY <1>0, <1>2 DEF Settled, TypeOK
<1>9. RecoverableCanon' = CanonRoot
  <2>1. \A f \in File : RecoverableFile(f)' = live[f]
    BY <1>0, <1>8 DEF RecoverableFile, SwappedBy, Swapped
  <2>2. \A d \in Change : RecoverableRecord(d)' = record[d]
    BY <1>0, <1>8 DEF RecoverableRecord
  <2> QED
    BY <1>0, <2>1, <2>2 DEF RecoverableCanon, CanonRoot, TypeOK
<1>10. ~Frozen /\ ~Frozen'
  <2>1. ~Frozen
    BY <1>0, HolderIsNotFrozen
  <2>2. c \notin marker
    BY <1>0 DEF WholeInv, BothInv, SafetyInv, OneUnsettled
  <2>3. \A d \in Change : phase'[d] \in {"none", "committed"} /\ d \notin marker' \cup tmp'
    BY <1>0, <1>2, <2>2 DEF Settled, TypeOK
  <2> QED
    BY <2>1, <2>3 DEF Frozen, Abandoned, Unfinished
<1>11. Committed' = Committed \cup {c} /\ c \notin Committed
  BY <1>0 DEF Committed, TypeOK
<1>12. Atomic!IsNext(c)
  <2>1. Follows(c, link[p]) /\ \A d \in Change : draft[d].order \in Nat
    BY <1>0, OrderType DEF WholeInv, BothInv, ChainInv, ChainKept
  <2>2. CASE draft[c].order = 1
    BY <1>0, <1>11, <2>1, <2>2 DEF Follows, Atomic!IsNext, Atomic!Drafted, Drafted
  <2>3. CASE draft[c].order # 1
    <3>1. /\ link[p] \in Committed /\ link[p] \in Change
          /\ draft[link[p]].order + 1 = draft[c].order
          /\ \A d \in Committed \ {c} : d \in Change /\ draft[d].order <= draft[link[p]].order
      BY <2>1, <2>3 DEF Follows, Committed
    <3>2. \A d \in Committed : draft[d].order < draft[c].order
      BY <1>0, <1>11, <2>1, <3>1
    <3> QED
      BY <1>0, <1>11, <3>1, <3>2 DEF Atomic!IsNext, Atomic!Drafted, Drafted
  <2> QED
    BY <2>2, <2>3
<1>13. Frozen' = Frozen
  BY <1>10 DEF Frozen
<1>14. CanonRoot = Atomic!Result(c)
  BY <1>1 DEF ResultRoot, Atomic!Result
<1> QED
  BY <1>0, <1>7, <1>9, <1>10, <1>11, <1>12, <1>13, <1>14 DEF Atomic!Approve

\* The sync that follows makes it durable, and apply returns Ok.
LEMMA SyncReports ==
  ASSUME WholeInv, NEW p \in Process, SyncCommitted(p)
  PROVE  Atomic!Report(cur[p])
<1> DEFINE c == cur[p]
<1>0. /\ c \in Change /\ lock = p /\ TypeOK /\ Owning(p) /\ phase[c] = "committed"
      /\ pc[p] = "syncCommitted" /\ lock' = None /\ acked' = acked \cup {c}
      /\ UNCHANGED <<live, record, draft, edits, phase, marker, tmp, proof, old, staged>>
  BY HolderWorks DEF SyncCommitted, Release, Running, Owning, PhaseAt, WholeInv,
     BothInv, SafetyInv
<1>1. RecoverableCanon' = RecoverableCanon /\ Committed' = Committed
  <2>1. \A f \in File : SwappedBy(f)' = SwappedBy(f)
    BY <1>0, SameSwaps
  <2>2. \A d \in Change : RecoverableRecord(d)' = RecoverableRecord(d)
    BY <1>0 DEF RecoverableRecord
  <2> QED
    BY <1>0, <2>1, <2>2, SameRecovery DEF Committed
<1>2. \A d \in Change : Settled(d)
  BY <1>0 DEF WholeInv, BothInv, SafetyInv, OneUnsettled, Settled
<1>3. ~Frozen /\ ~Frozen'
  BY <1>0, <1>2 DEF Frozen, Abandoned, Unfinished, Settled
<1>4. Frozen' = Frozen
  BY <1>3 DEF Frozen
<1>5. c \in Committed
  BY <1>0 DEF Committed
<1> QED
  BY <1>0, <1>1, <1>4, <1>5 DEF Atomic!Report

\* A power loss takes back approvals nobody was told of, or nothing.
LEMMA PowerLoses ==
  ASSUME WholeInv, PowerLoss
  PROVE  [Atomic!Next]_(Atomic!vars)
<1>0. TypeOK /\ UNCHANGED <<live, record, marker, staged, old, proof, draft, acked, edits>>
      /\ lock' = None
  BY DEF PowerLoss, WholeInv, BothInv, SafetyInv
<1>1. PICK lost \in SUBSET unsynced :
        /\ phase' = [c \in Change |->
                       IF c \notin lost THEN phase[c]
                       ELSE IF phase[c] = "committed" THEN "prepared" ELSE "created"]
        /\ tmp' = tmp \cup lost
  BY DEF PowerLoss
<1>2. Committed' = Committed \ lost
  BY <1>1 DEF Committed
<1>3. CASE \E c \in lost : c \in Committed
  <2>1. PICK c \in lost : c \in Committed
    BY <1>3
  <2>2. Frozen'
    <3>1. c \in Change /\ c \in tmp'
      BY <1>1, <2>1 DEF Committed
    <3> QED
      BY <1>0, <3>1 DEF Frozen, Abandoned, BeingApplied, TypeOK
  <2>3. acked \subseteq Committed'
    BY <1>2 DEF WholeInv, BothInv, SafetyInv, AckedIsDurable
  <2>4. Committed' \subseteq Committed /\ Committed' # Committed
    BY <1>2, <2>1
  <2>5. Atomic!Lose
    BY <1>0, <2>2, <2>3, <2>4 DEF Atomic!Lose
  <2> QED
    BY <2>5 DEF Atomic!Next
<1>4. CASE ~ \E c \in lost : c \in Committed
  <2>1. ASSUME NEW c \in Change, phase[c] = "prepared", c \in lost
        PROVE  c \in proof /\ \A f \in File : ~Swapped(c, f)
    <3>1. c \in proof /\ \A f \in Targets(c) : Before(c, f) = Absent => staged[c][f] # Absent
      BY <2>1 DEF WholeInv, ProgressInv, UnsyncedIsUntouched
    <3>2. old[c] = NoFile
      BY <2>1 DEF WholeInv, BothInv, SafetyInv, NothingPreserved, MayBeUnprepared
    <3> QED
      BY <3>1, <3>2 DEF Swapped, NoFile
  <2>2. \A c \in Change : IF c \in lost
                          THEN phase'[c] = "created" /\ phase[c] # "committed"
                          ELSE phase'[c] = phase[c]
    BY <1>1, <1>4 DEF Committed
  <2>3. \A c \in Change, f \in File : Swapped(c, f)' <=> Swapped(c, f)
    BY <1>0, <2>1, <2>2 DEF Swapped, Targets, Before, After
  <2>4. \A f \in File : SwappedBy(f)' = SwappedBy(f)
    BY <2>3 DEF SwappedBy
  <2>5. \A c \in Change : RecoverableRecord(c)' = RecoverableRecord(c)
    BY <1>0, <2>1, <2>2 DEF RecoverableRecord
  <2>6. RecoverableCanon' = RecoverableCanon
    BY <1>0, <2>4, <2>5, SameRecovery
  <2>7. Committed' = Committed
    BY <1>2, <1>4
  <2>8. [Next]_vars
    BY DEF Next
  <2> QED
    BY <1>0, <2>6, <2>7, <2>8, QuietStep
<1> QED
  BY <1>3, <1>4

\* A step that leaves the project directory and the reports as they are.
LEMMA DirectoryKept ==
  ASSUME WholeInv, [Next]_vars, UNCHANGED <<live, record, journalVars, draft, acked, edits>>
  PROVE  [Atomic!Next]_(Atomic!vars)
<1>1. \A f \in File : SwappedBy(f)' = SwappedBy(f)
  BY SameSwaps
<1>2. \A d \in Change : RecoverableRecord(d)' = RecoverableRecord(d)
  BY DEF RecoverableRecord
<1>3. RecoverableCanon' = RecoverableCanon
  BY <1>1, <1>2, SameRecovery
<1>4. Committed' = Committed
  BY DEF Committed
<1> QED
  BY <1>3, <1>4, QuietStep

\* Journals written or synced leave it recoverable as it is.
LEMMA JournalKept ==
  ASSUME WholeInv, [Next]_vars,
         UNCHANGED <<live, record, phase, staged, old, proof, draft, acked, edits>>
  PROVE  [Atomic!Next]_(Atomic!vars)
<1>1. \A f \in File : SwappedBy(f)' = SwappedBy(f)
  BY SameSwaps
<1>2. \A d \in Change : RecoverableRecord(d)' = RecoverableRecord(d)
  BY DEF RecoverableRecord
<1>3. RecoverableCanon' = RecoverableCanon
  BY <1>1, <1>2, SameRecovery
<1>4. Committed' = Committed
  BY DEF Committed
<1> QED
  BY <1>3, <1>4, QuietStep

LEMMA StepMaps == WholeInv /\ [Next]_vars => [Atomic!Next]_(Atomic!vars)
<1> SUFFICES ASSUME WholeInv, [Next]_vars PROVE [Atomic!Next]_(Atomic!vars)
  OBVIOUS
<1>1. ASSUME NEW c \in Change, NEW k \in 1..MaxOrder, NEW after \in Plans,
             DraftChange(c, k, after)
      PROVE  [Atomic!Next]_(Atomic!vars)
  <2>1. /\ ~Drafted(c) /\ \A d \in Change \ {c} : draft'[d] = draft[d]
        /\ UNCHANGED <<live, record, phase, staged, old, proof, acked, edits, tmp, marker,
                       lock, cur, pc>>
    BY <1>1 DEF DraftChange
  <2>2. \A d \in Change : Drafted(d) => draft'[d] = draft[d]
    BY <2>1
  <2>3. \A f \in File : SwappedBy(f)' = SwappedBy(f)
    BY <2>1, <2>2, SameSwaps
  <2>4. \A d \in Change : RecoverableRecord(d)' = RecoverableRecord(d)
    BY <2>1 DEF RecoverableRecord
  <2>5. RecoverableCanon' = RecoverableCanon
    BY <2>1, <2>2, <2>3, <2>4, SameRecovery
  <2>6. Committed' = Committed /\ Frozen' = Frozen
    BY <2>1 DEF Committed, Frozen, Abandoned, BeingApplied, Unfinished
  <2>7. Atomic!Draft
    BY <2>1, <2>5, <2>6 DEF Atomic!Draft, Atomic!Drafted, Drafted
  <2> QED
    BY <2>7 DEF Atomic!Next
<1>2. ASSUME NEW p \in Process, ApplyStep(p) PROVE [Atomic!Next]_(Atomic!vars)
  <2>1. CASE RenameCommitted(p)
    <3>1. cur[p] \in Change
      BY <2>1, HolderWorks DEF RenameCommitted, Running
    <3> QED
      BY <2>1, <3>1, CommitApproves DEF Atomic!Next
  <2>2. CASE SyncCommitted(p)
    <3>1. cur[p] \in Change
      BY <2>2, HolderWorks DEF SyncCommitted, Running
    <3> QED
      BY <2>2, <3>1, SyncReports DEF Atomic!Next
  <2>3. CASE CreateTransaction(p) \/ StageProof(p) \/ \E f \in File : Snapshot(p, f)
    <3>1. UNCHANGED <<draft, acked, edits>>
      BY <2>3 DEF CreateTransaction, StageProof, Snapshot
    <3> QED
      BY <2>3, <3>1, PrepareRecovers, QuietStep
  <2>4. CASE RenamePrepared(p)
    <3>1. UNCHANGED <<draft, acked, edits>>
      BY <2>4 DEF RenamePrepared, RenameJournal
    <3> QED
      BY <2>4, <3>1, PreparedRecovers, QuietStep
  <2>5. CASE Preserve(p) \/ Install(p) \/ InstallApprovalRecord(p)
    <3>1. UNCHANGED <<draft, acked, edits>>
      BY <2>5 DEF Preserve, Install, InstallApprovalRecord
    <3> QED
      BY <2>5, <3>1, SwapRecovers, QuietStep
  <2>6. CASE \/ Recover(p) \/ Validate(p) \/ Recheck(p) \/ VerifyInstalled(p)
             \/ CheckRoot(p) \/ \E f \in File : CheckTarget(p, f)
    <3>1. UNCHANGED <<live, record, journalVars, draft, acked, edits>>
      BY <2>6 DEF Recover, Validate, Recheck, VerifyInstalled, CheckRoot, CheckTarget
    <3> QED
      BY <3>1, DirectoryKept
  <2>7. CASE WriteJournal(p) \/ SyncPrepared(p)
    <3>1. UNCHANGED <<live, record, phase, staged, old, proof, draft, acked, edits>>
      BY <2>7 DEF WriteJournal, SyncPrepared
    <3> QED
      BY <3>1, JournalKept
  <2> QED
    BY <1>2, <2>1, <2>2, <2>3, <2>4, <2>5, <2>6, <2>7 DEF ApplyStep
<1>3. ASSUME NEW p \in Process, Fault(p) PROVE [Atomic!Next]_(Atomic!vars)
  <2>1. UNCHANGED <<live, record, phase, staged, old, proof, draft, acked, edits>>
    BY <1>3 DEF Fault, SyncFails, IoFails, Crash
  <2> QED
    BY <2>1, JournalKept
<1>4. CASE PowerLoss
  BY <1>4, PowerLoses
<1>5. CASE Editor
  <2>1. UNCHANGED <<phase, tmp, marker, lock, cur, pc, draft, acked>> /\ edits' = edits + 1
    BY <1>5 DEF Editor, EditCanon, EditRecord, EditCandidate, OutsideEdit
  <2>2. Committed' = Committed /\ Frozen' = Frozen
    BY <2>1 DEF Committed, Frozen, Abandoned, BeingApplied, Unfinished
  <2>3. Atomic!Edit
    BY <2>1, <2>2 DEF Atomic!Edit
  <2> QED
    BY <2>3 DEF Atomic!Next
<1>6. CASE UNCHANGED <<live, record, journalVars, draft, acked, edits>>
  BY <1>6, DirectoryKept
<1> QED
  BY <1>1, <1>2, <1>3, <1>4, <1>5, <1>6 DEF Next, vars, RequestApproval, AcquireLock

LEMMA InitMaps == Init => Atomic!Init
BY DEF Init, Atomic!Init, Atomic!Drafted, Committed, Frozen, Abandoned, Unfinished

\* Approvals are atomic: however processes race, crash, lose power or fail,
\* every step of the protocol is one of AtomicApproval's, or shows nothing.
THEOREM ApprovalIsAtomic == ASSUME EditorWaits PROVE Spec => ImplementsAtomicApproval
<1>1. Spec => []WholeInv
  BY Whole
<1> QED
  BY <1>1, InitMaps, StepMaps, PTL DEF Spec, ImplementsAtomicApproval, Atomic!Spec
===============================================================================
