------------------------------- MODULE Backend -------------------------------
(***************************************************************************)
(* The part of the NestJS backend that moves transactions: the             *)
(* Authorize.net webhook, and the operator's delete and restore of an      *)
(* issue.  Webhooks run one at a time behind the hook mutex (caller Hook); *)
(* the operator's requests do not take it and interleave with everything.  *)
(*                                                                         *)
(* A call stops at each await.  createNew is "read" (look in processed),   *)
(* then "save" (insert into created): what it read may be stale by then.   *)
(***************************************************************************)
EXTENDS SharedStore

CONSTANTS
    Hook,          \* the handler that holds the hook mutex
    Request,       \* the operator's requests, each handled once
    MaxDeliveries  \* bound: deliveries of one webhook

ASSUME BackendAssumption == /\ Hook \notin Request
                            /\ MaxDeliveries \in Nat

VARIABLES
    call,       \* the progress of each handler
    delivered   \* webhooks received for each transaction

backend == <<call, delivered>>

Caller == {Hook} \cup Request

Call == [pc : {"idle", "skip", "read", "save", "remove", "done"},
         txn : Txn \cup {"-"}, key : Nat]

BackendTypeOK ==
    /\ call \in [Caller -> Call]
    /\ delivered \in [Txn -> Nat]
    /\ \A c \in Caller :
          call[c].pc \in {"skip", "read", "save", "remove"} => call[c].txn \in Txn

NoCall == [pc |-> "idle", txn |-> "-", key |-> 0]

\* The response is sent: the mutex is free again, a request is over.
Answered(c) == [NoCall EXCEPT !.pc = IF c = Hook THEN "idle" ELSE "done"]

BackendInit ==
    /\ call = [c \in Caller |-> NoCall]
    /\ delivered = [t \in Txn |-> 0]

Goto(c, label) == call' = [call EXCEPT ![c].pc = label]
Answer(c) == call' = [call EXCEPT ![c] = Answered(c)]

\* What createNew does on return: the webhook answers, a restore goes on.
Return(c) == IF c = Hook THEN Answer(c) ELSE Goto(c, "remove")

-----------------------------------------------------------------------------
(* AuthwebhookService.processWebhookPayload for a capture.                 *)

Deliver(t) ==
    /\ call[Hook].pc = "idle"
    /\ status[t] # "none" /\ delivered[t] < MaxDeliveries
    /\ delivered' = [delivered EXCEPT ![t] = @ + 1]
    /\ call' = [call EXCEPT ![Hook] = [pc |-> "skip", txn |-> t, key |-> 0]]
    /\ UNCHANGED store

\* shouldSkip: the checkout of BigCommerce sends its own webhook.
ShouldSkip ==
    /\ call[Hook].pc = "skip"
    /\ IF call[Hook].txn \in BigCommerce THEN Answer(Hook) ELSE Goto(Hook, "read")
    /\ UNCHANGED <<store, delivered>>

\* The details cannot be fetched: the payload is not skipped, whatever it is.
ShouldSkipFails ==
    /\ call[Hook].pc = "skip"
    /\ Fault
    /\ Goto(Hook, "read")
    /\ UNCHANGED <<tables, status, orders, stray, delivered>>

-----------------------------------------------------------------------------
(* TransactionsCreatedService.createNew.                                   *)

\* A row in created is only logged; a processed transaction is left alone.
CreateNewRead(c) ==
    /\ call[c].pc = "read"
    /\ IF call[c].txn \in processed THEN Return(c) ELSE Goto(c, "save")
    /\ UNCHANGED <<store, delivered>>

CreateNewSave(c) ==
    /\ call[c].pc = "save"
    /\ InsertCreated(call[c].txn)
    /\ Return(c)
    /\ UNCHANGED <<status, orders, stray, faults, delivered>>

\* The unique index refuses the row: createNew throws, the response is 500.
CreateNewRefused(c) ==
    /\ call[c].pc = "save" /\ call[c].txn \in created
    /\ Answer(c)
    /\ UNCHANGED <<store, delivered>>

-----------------------------------------------------------------------------
(* TransactionsIssuesService: each request finds its row first.            *)

Restore(q) ==
    /\ call[q].pc = "idle"
    /\ \E t \in issues :
          call' = [call EXCEPT ![q] = [pc |-> "read", txn |-> t, key |-> issueKey[t]]]
    /\ UNCHANGED <<store, delivered>>

\* The last step of restoreTransactionById removes the row it found, by key.
RestoreRemove(q) ==
    /\ call[q].pc = "remove"
    /\ RemoveIssueRow(call[q].txn, call[q].key)
    /\ Answer(q)
    /\ UNCHANGED <<created, issueKey, processed, discarded>>
    /\ UNCHANGED <<status, orders, stray, faults, delivered>>

\* deleteTransactionById; find and remove are one step, for a row that was
\* removed in between makes the remove a no-op, like a delete that comes late.
Delete(q) ==
    /\ call[q].pc = "idle"
    /\ \E t \in issues :
          /\ RemoveIssueRow(t, issueKey[t])
          /\ discarded' = IF t \in created \cup processed
                          THEN discarded ELSE discarded \cup {t}
    /\ Answer(q)
    /\ UNCHANGED <<created, issueKey, processed>>
    /\ UNCHANGED <<status, orders, stray, faults, delivered>>

\* A query or a fetch fails, or the process restarts: the handler is gone.
CallFails(c) ==
    /\ call[c].pc \notin {"idle", "done"}
    /\ Fault
    /\ Answer(c)
    /\ UNCHANGED <<tables, status, orders, stray, delivered>>

HookNext ==
    \/ \E t \in Txn : Deliver(t)
    \/ ShouldSkip
    \/ ShouldSkipFails

RequestNext == \E q \in Request : Restore(q) \/ RestoreRemove(q) \/ Delete(q)

CreateNewNext(c) == CreateNewRead(c) \/ CreateNewSave(c) \/ CreateNewRefused(c)

BackendNext ==
    \/ HookNext
    \/ RequestNext
    \/ \E c \in Caller : CreateNewNext(c) \/ CallFails(c)

=============================================================================
