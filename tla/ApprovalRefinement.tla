-------------------------- MODULE ApprovalRefinement --------------------------
(***************************************************************************)
(* ApprovalJournal implements AtomicApproval when other programs keep off  *)
(* the canon while an approval runs (EditorWaits).                         *)
(***************************************************************************)
EXTENDS ApprovalInvariants

\* A canon file that the unfinished transaction of c has begun to swap: its
\* bytes are in old-live-NNNN, or its staged file is gone (a create).
Swapped(c, f) ==
  /\ phase[c] = "prepared"
  /\ f \in Targets(c)
  /\ old[c][f] # Absent \/ (Before(c, f) = Absent /\ staged[c][f] = Absent)

SwappedBy(f) == {c \in Change : Swapped(c, f)}

\* The canon a human recovers: swapped files get their old bytes back, and a
\* proof without its Committed journal does not count.
RecoverableFile(f) ==
  IF SwappedBy(f) # {} THEN Before(CHOOSE c \in SwappedBy(f) : TRUE, f) ELSE live[f]

RecoverableRecord(c) ==
  IF phase[c] = "prepared" /\ c \notin proof THEN "absent" ELSE record[c]

RecoverableCanon == [files |-> [f \in File |-> RecoverableFile(f)],
                     records |-> [c \in Change |-> RecoverableRecord(c)]]

Frozen == \E c \in Change : Abandoned(c)

Atomic == INSTANCE AtomicApproval
            WITH canon <- RecoverableCanon, approved <- Committed, frozen <- Frozen

\* Every step of the protocol is a step of the atomic approval or changes
\* nothing of it: crashes, failed calls and power losses never expose half a
\* changeset, reorder approvals or approve on a canon that moved.
ImplementsAtomicApproval == Atomic!Spec

-----------------------------------------------------------------------------
(***************************************************************************)
(* What an apply has done, by its step, for editors that wait: the part of *)
(* the inductive invariant that only the refinement needs.                 *)
(***************************************************************************)
AfterValidate == Locked \ {"recover", "validate"}
AllSwapped == {"approve", "root", "writeCommitted", "renameCommitted"}

\* Validation found the base without an approval record of the changeset.
BaseIsUnapproved ==
  \A p \in Process : lock = p /\ pc[p] \in AfterValidate =>
    draft[cur[p]].base.records[cur[p]] = "absent"

\* Files are snapshotted one by one; the proof is staged after them.
StagedSoFar ==
  \A p \in Process : lock = p =>
    /\ pc[p] = "snapshot" =>
         \A f \in Targets(cur[p]) \ todo : staged[cur[p]][f] = After(cur[p], f)
    /\ pc[p] \in {"stage", "writePrepared", "renamePrepared"} =>
         \A f \in Targets(cur[p]) : staged[cur[p]][f] = After(cur[p], f)
    /\ pc[p] \in {"writePrepared", "renamePrepared"} => cur[p] \in proof
    /\ pc[p] \in {"root", "writeCommitted", "renameCommitted"} => cur[p] \notin proof

\* Files are swapped one by one; the one in hand has kept its old bytes.
SwappedSoFar ==
  \A p \in Process : lock = p =>
    /\ pc[p] \in Swapping => \A f \in Targets(cur[p]) \ todo : Swapped(cur[p], f)
    /\ pc[p] \in AllSwapped => \A f \in Targets(cur[p]) : Swapped(cur[p], f)
    /\ pc[p] \in Swapping => todo \subseteq Targets(cur[p])
    /\ pc[p] = "preserve" => /\ live[file] = Before(cur[p], file)
                             /\ Before(cur[p], file) # Absent
    /\ pc[p] = "recheck" => old[cur[p]][file] # Absent
    /\ pc[p] = "install" /\ Before(cur[p], file) # Absent => old[cur[p]][file] # Absent
    /\ pc[p] = "verify" => Swapped(cur[p], file)

\* The root was compared and nothing has moved since.
RootCompared ==
  \A p \in Process : lock = p /\ pc[p] \in {"writeCommitted", "renameCommitted"} =>
    CanonRoot = ResultRoot(cur[p])

\* A Prepared journal that a power loss may take back has swapped nothing.
UnsyncedIsUntouched ==
  \A c \in unsynced : phase[c] = "prepared" =>
    /\ c \in proof
    /\ \A f \in Targets(c) : Before(c, f) = Absent => staged[c][f] # Absent

ProgressInv == /\ BaseIsUnapproved /\ StagedSoFar /\ SwappedSoFar
               /\ RootCompared /\ UnsyncedIsUntouched
=============================================================================
