----------------------------- MODULE RunLedger -----------------------------
(***************************************************************************)
(* What the agent_runs table promises about AI builds: a run is recorded   *)
(* before it costs anything, every model request of it is made while its   *)
(* row says running and within the cap, and its final status is written    *)
(* once.                                                                   *)
(***************************************************************************)
EXTENDS Naturals

CONSTANTS
    Runs,       \* run ids
    HardCap     \* the largest max_iterations a run is given

VARIABLES
    row,    \* agent_runs.status
    spent   \* model requests made

Terminal == {"completed", "cancelled", "error"}

LedgerInit ==
    /\ row = [r \in Runs |-> "none"]
    /\ spent = [r \in Runs |-> 0]

Record(r) ==
    /\ row[r] = "none"
    /\ row' = [row EXCEPT ![r] = "running"]
    /\ UNCHANGED spent

Spend(r) ==
    /\ row[r] = "running"
    /\ spent[r] < HardCap
    /\ spent' = [spent EXCEPT ![r] = @ + 1]
    /\ UNCHANGED row

Settle(r) ==
    /\ row[r] = "running"
    /\ \E s \in Terminal : row' = [row EXCEPT ![r] = s]
    /\ UNCHANGED spent

LedgerNext == \E r \in Runs : Record(r) \/ Spend(r) \/ Settle(r)

LedgerSpec == LedgerInit /\ [][LedgerNext]_<<row, spent>>
=============================================================================
