----------------------------- MODULE SharedStore -----------------------------
(***************************************************************************)
(* What the web backend and the cron script share: the three tables of     *)
(* transactions in Postgres, the transactions Authorize.net knows, and the *)
(* orders ShipStation holds.                                               *)
(*                                                                         *)
(* Each table has a unique index on transactionId, so a table is a set of  *)
(* transactions.  Rows of `issues` are removed by primary key, and a       *)
(* request may hold the key of a row that is gone and was inserted again;  *)
(* issueKey[t] is the key of the last row inserted for t.  Rows of         *)
(* `created` are removed by transactionId, except by removeDuplicates,     *)
(* where t is processed and any row of t is a duplicate: no key is kept.   *)
(***************************************************************************)
EXTENDS Naturals

CONSTANTS
    Txn,          \* transaction ids
    BigCommerce,  \* those whose solution is BigCommerce
    NotApproval,  \* those whose responseReasonDescription is not 'Approval'
    MaxFaults     \* bound: failures of a service, a query or a process

ASSUME StoreAssumption == /\ BigCommerce \subseteq Txn
                          /\ NotApproval \subseteq Txn
                          /\ MaxFaults \in Nat

VARIABLES
    created,    \* transaction_created_entity: waiting for the cron script
    issues,     \* transaction_issues_entity: waiting for the operator
    issueKey,   \* the key of the last issues row of each transaction
    processed,  \* transaction_processed_entity: their order is recorded
    discarded,  \* history: the operator deleted the only row of t
    status,     \* Authorize.net: the state of each transaction
    orders,     \* ShipStation: the orders made for each transaction
    stray,      \* history: orders made whose answer a failure kept from the tables
    faults      \* failures so far

tables == <<created, issues, issueKey, processed, discarded>>
store  == <<tables, status, orders, stray, faults>>

Status == {"none", "unsettled", "settled", "voided"}

StoreTypeOK ==
    /\ created \subseteq Txn /\ issues \subseteq Txn /\ processed \subseteq Txn
    /\ discarded \subseteq Txn
    /\ issueKey \in [Txn -> Nat]
    /\ status \in [Txn -> Status]
    /\ orders \in [Txn -> Nat] /\ stray \in [Txn -> Nat]
    /\ faults \in Nat

StoreInit ==
    /\ created = {} /\ issues = {} /\ processed = {} /\ discarded = {}
    /\ issueKey = [t \in Txn |-> 0]
    /\ status = [t \in Txn |-> "none"]
    /\ orders = [t \in Txn |-> 0] /\ stray = [t \in Txn |-> 0]
    /\ faults = 0

\* Some table has a row of t.
Held(t) == t \in created \cup issues \cup processed

\* One more failure; every action that fails for an outside reason takes it.
Fault == faults < MaxFaults /\ faults' = faults + 1

\* f with one added for every member of S.
Bump(f, S) == [t \in Txn |-> IF t \in S THEN f[t] + 1 ELSE f[t]]

-----------------------------------------------------------------------------
(* The statements and database transactions of both programs.              *)

\* repository.save of a new created row; the unique index refuses a second.
InsertCreated(t) ==
    /\ t \notin created
    /\ created' = created \cup {t}
    /\ discarded' = discarded \ {t}
    /\ UNCHANGED <<issues, issueKey, processed>>

\* Mutant of RemoveIssueRow: the row is removed by transactionId.
RemoveIssueRowByTransaction(t, k) == issues' = issues \ {t}

\* repository.remove of the issues row of t with key k: no row, no effect.
RemoveIssueRow(t, k) ==
    issues' = IF issueKey[t] = k THEN issues \ {t} ELSE issues

\* moveIssuedTransaction: all of T or, when one has an issues row, nothing.
MoveIssued(T) ==
    /\ T \cap issues = {}
    /\ created' = created \ T
    /\ issues' = issues \cup T
    /\ issueKey' = Bump(issueKey, T)
    /\ discarded' = discarded \ T
    /\ UNCHANGED processed

\* moveProcessedTransaction; a row that exists already is kept as it is.
\* The DELETE locks the created row, so two runs cannot both miss the row.
MoveProcessed(T) ==
    /\ created' = created \ T
    /\ processed' = processed \cup T
    /\ discarded' = discarded \ T
    /\ UNCHANGED <<issues, issueKey>>

\* delete from created where transactionId in T.
DeleteCreated(T) ==
    /\ created' = created \ T
    /\ UNCHANGED <<issues, issueKey, processed, discarded>>

-----------------------------------------------------------------------------
(* Authorize.net: a capture is settled by the nightly batch or voided      *)
(* before it; both are final.                                              *)

Capture(t) ==
    /\ status[t] = "none"
    /\ status' = [status EXCEPT ![t] = "unsettled"]
    /\ UNCHANGED <<tables, orders, stray, faults>>

Settle(t) ==
    /\ status[t] = "unsettled"
    /\ status' = [status EXCEPT ![t] = "settled"]
    /\ UNCHANGED <<tables, orders, stray, faults>>

Void(t) ==
    /\ status[t] = "unsettled"
    /\ status' = [status EXCEPT ![t] = "voided"]
    /\ UNCHANGED <<tables, orders, stray, faults>>

=============================================================================
