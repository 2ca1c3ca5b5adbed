--------------------------- MODULE MCSessionLedger ---------------------------
(***************************************************************************)
(* Instances of ModelSession for TLC.  A behaviour is of one of three      *)
(* kinds: "single", one process at a time, with every fault of a file;     *)
(* "several", with the other processes and without the faults that tear a  *)
(* line or freeze the ledger, and without charges above the maximum; and   *)
(* "ledger", the ledger with any user: then every operation of             *)
(* BudgetLedger happens at any time, for any chapter and cost, and there   *)
(* is no session.                                                          *)
(***************************************************************************)
EXTENDS ModelSession, TLC

CONSTANTS
  SessionRequests,  \* bound: how many requests a session may use
  RequestsEach,     \* bound: how many of several processes are held on the
                    \* file, and how many on none
  LedgerEvents      \* bound: lines of the ledger with any user

VARIABLE kind

RunInit == Init /\ kind \in {"ledger", "single", "several"}

LedgerStep ==
  /\ LedgerNext /\ Len(costFile') <= LedgerEvents
  /\ UNCHANGED <<dirVars, processVars, historyVars>>

SessionStep == Next /\ Cardinality(issued') <= SessionRequests

\* A ledger that is whole is not refused.
Alone ==
  /\ seen' = None /\ ~strays'
  /\ session' /\ handle' = "memory" => torn'

SomeFaults ==
  /\ ~partial' /\ ~durabilityUnknown'
  /\ \A r \in Request : charged'[r] <= Maximum
  /\ Cardinality(unheld') <= RequestsEach
  /\ Cardinality(issued' \ unheld') <= RequestsEach

RunNext ==
  /\ \/ kind = "ledger" /\ LedgerStep
     \/ kind = "single" /\ SessionStep /\ Alone
     \/ kind = "several" /\ SessionStep /\ SomeFaults
  /\ UNCHANGED kind

RunSpec == RunInit /\ [][RunNext]_<<vars, kind>>

RequestSymmetry == Permutations(Request)
=============================================================================
