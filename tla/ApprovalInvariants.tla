-------------------------- MODULE ApprovalInvariants --------------------------
(***************************************************************************)
(* The inductive invariant of ApprovalJournal, one conjunct per idea.      *)
(***************************************************************************)
EXTENDS ApprovalJournal

\* A process is in the locked part of apply exactly while it holds the lock,
\* and then works on a changeset; an entry being swapped has a file.
LocalsOK ==
  /\ \A p \in Process : pc[p] \in Locked <=> lock = p
  /\ \A p \in Process : pc[p] # "idle" => cur[p] \in Change
  /\ lock # None /\ pc[lock] \in Swapping \ {"check"} => file \in todo

\* Past CreateTransaction the lock holder owns a transaction directory.
Owning(p) == lock = p /\ pc[p] \notin {"recover", "validate", "create"}

\* The transaction of c is a complete commit, or c has none.
Settled(c) == phase[c] \in {"none", "committed"} /\ c \notin tmp \cup marker

\* The newest journal file of the transaction an apply works on, by its step.
PhaseAt(l) == IF l \in {"snapshot", "stage", "writePrepared", "renamePrepared"}
              THEN "created"
              ELSE IF l = "syncCommitted" THEN "committed" ELSE "prepared"

\* Recovery leaves nothing unsettled, and an apply unsettles only its own
\* changeset, which nobody has reported yet.
OneUnsettled ==
  /\ tmp \cup marker \cup unsynced \subseteq Transactions
  /\ \A p \in Process : lock = p /\ pc[p] \in {"validate", "create"} =>
       \A d \in Change : Settled(d)
  /\ \A p \in Process : Owning(p) =>
       /\ \A d \in Change \ {cur[p]} : Settled(d)
       /\ phase[cur[p]] = PhaseAt(pc[p])
       /\ cur[p] \notin marker
       /\ cur[p] \in tmp <=> pc[p] \in {"renamePrepared", "renameCommitted"}
       /\ cur[p] \in unsynced <=> pc[p] \in {"syncPrepared", "syncCommitted"}
       /\ cur[p] \notin acked

\* Nothing is preserved before the Prepared journal is durable, and an apply
\* preserves a file only when it swaps it.
MayBeUnprepared(c) == \/ phase[c] \in {"none", "created"}
                      \/ phase[c] = "prepared" /\ c \in unsynced

NothingPreserved ==
  /\ \A c \in Change : MayBeUnprepared(c) => old[c] = NoFile
  /\ \A p \in Process : lock = p /\ pc[p] \in {"check", "preserve"} =>
       \A f \in todo : old[cur[p]][f] = Absent
  /\ \A p \in Process : lock = p /\ pc[p] \in {"recheck", "install", "verify"} =>
       \A f \in todo \ {file} : old[cur[p]][f] = Absent

\* Whatever has a request, a transaction or an approval record is drafted,
\* and so never redrafted.
OnlyDrafted ==
  /\ \A p \in Process : pc[p] # "idle" => Drafted(cur[p])
  /\ \A c \in Change : phase[c] # "none" \/ record[c] # "absent" => Drafted(c)

\* The changeset c extends the committed chain through l.
Follows(c, l) ==
  IF draft[c].order = 1
  THEN l = None /\ Committed \subseteq {c}
  ELSE /\ l \in Committed /\ l # c
       /\ draft[l].order + 1 = draft[c].order
       /\ draft[c].base = ResultRoot(l)
       /\ \A d \in Committed \ {c} : draft[d].order <= draft[l].order

\* What recovery and validation established stays true under the lock.
ChainKept ==
  /\ \A p \in Process : lock = p /\ pc[p] = "validate" => RecoveryPasses
  /\ \A p \in Process : lock = p /\ pc[p] \notin {"recover", "validate"} =>
       Follows(cur[p], link[p])
  /\ \A p \in Process : Owning(p) /\ pc[p] \notin {"snapshot", "stage"} =>
       dep[cur[p]] = link[p]

\* For every environment.
SafetyInv == TypeOK /\ LocalsOK /\ OneUnsettled /\ AckedIsDurable /\ NothingPreserved

\* For editors that keep off the canon while an approval runs.
ChainInv == OnlyDrafted /\ ChainKept /\ NoFork /\ NoLostUpdate
===============================================================================
