------------------------------ MODULE Lifecycle ------------------------------
(***************************************************************************)
(* The life of an Authorize.net transaction: the backend accepts it, the   *)
(* cron script turns it into a ShipStation order or hands it to the        *)
(* operator, and both interleave freely on the shared tables.              *)
(***************************************************************************)
EXTENDS Backend, CronRun

vars == <<store, backend, run>>

TypeOK == StoreTypeOK /\ BackendTypeOK /\ CronTypeOK

Init == StoreInit /\ BackendInit /\ CronInit

AuthnetNext == \E t \in Txn : Capture(t) \/ Settle(t) \/ Void(t)

Next ==
    \/ AuthnetNext /\ UNCHANGED <<backend, run>>
    \/ BackendNext /\ UNCHANGED run
    \/ CronNext /\ UNCHANGED backend

Spec == Init /\ [][Next]_vars

\* A run that was started goes on, for every call of it ends (each has a timeout);
\* Authorize.net settles or voids each capture in the end.  Nobody owes the start
\* of a run, and the backend and the moves nobody awaits owe nothing here.
Fairness ==
    /\ \A r \in Run : WF_vars(~At(r, "idle") /\ RunNext(r) /\ UNCHANGED backend)
    /\ \A t \in Txn : WF_vars((Settle(t) \/ Void(t)) /\ UNCHANGED <<backend, run>>)

FairSpec == Spec /\ Fairness

-----------------------------------------------------------------------------
(* Safety.                                                                 *)

NonBigCommerce == Txn \ BigCommerce

StateOf(t) == IF t \in processed THEN "shipped"
              ELSE IF Held(t) THEN "held"
              ELSE IF t \in discarded THEN "discarded" ELSE "absent"

Promise == INSTANCE Custody WITH
             Txn <- NonBigCommerce, custody <- [t \in NonBigCommerce |-> StateOf(t)]

\* No interleaving of restores, deletes and runs, and no failure between two of
\* their steps, lets a transaction fall out of all tables: every change of the
\* tables is a step of Custody.  It is about restoreTransactionById, which inserts
\* and removes in two statements, against the moves of the cron script.
CustodyKept == Promise!Spec

\* The steps of a run that made an order and has not recorded it yet.
Moving(t) == \E r \in Run : run[r].pc = "move" /\ t \in run[r].cur

\* A transaction counts as processed, or is about to, only when ShipStation has
\* an order for it: what a timed out call or a failed move leaves is an issue.
ProcessedHasOrder == \A t \in Txn : t \in processed \/ Moving(t) => orders[t] > stray[t]

\* No goods leave for money that did not come: only a transaction Authorize.net
\* settled and approved has an order.  The run decides on details it fetched
\* earlier, and a voided transaction whose move failed stays in its batch.
OnlyPaidShipped ==
    \A t \in Txn : orders[t] > 0 =>
        status[t] = "settled" /\ t \notin BigCommerce \cup NotApproval

\* When runs do not overlap, every order but one is there because a failure kept
\* the program from recording it: redelivered webhooks, restores and the rows
\* that stale reads of createNew leave behind make no second order.
OneOrder == \A t \in Txn : orders[t] <= 1 + stray[t]

\* An order the program lost track of belongs to a transaction that somebody still
\* sees, so that the operator can find the order before a restore makes another.
StrayIsHeld == \A t \in NonBigCommerce : stray[t] > 0 => Held(t) \/ t \in discarded

-----------------------------------------------------------------------------
(* Why CustodyKept holds: the invariant its proof needs.                   *)

Known(t) == Held(t) \/ t \in discarded

\* What a run carries in memory.
InHand(r) == run[r].batch \cup run[r].todo \cup run[r].bg \cup run[r].cur
             \cup (UNION run[r].reject) \cup (UNION run[r].groups)

HandsKnown == \A r \in Run : \A t \in InHand(r) : t \in BigCommerce \/ Known(t)

\* A request never holds a key the table has not given yet.
KeysKnown == \A c \in Caller :
    call[c].txn \in Txn => call[c].key <= issueKey[call[c].txn]

\* While the row a restore is about to remove exists, another table has a copy.
RestoreSafe == \A q \in Request : LET t == call[q].txn IN
    /\ call[q].pc = "remove" /\ t \in issues /\ issueKey[t] = call[q].key
    => t \in created \cup processed \cup BigCommerce

\* BigCommerceSkip removes only transactions of BigCommerce.
SkipsBigCommerce == \A r \in Run : run[r].pc = "bcskip" => run[r].todo \subseteq BigCommerce

CustodyInv == HandsKnown /\ KeysKnown /\ RestoreSafe /\ SkipsBigCommerce

-----------------------------------------------------------------------------
(* Why the properties of the orders hold: the invariants of their proofs.  *)

Payable == {t \in Txn \ (BigCommerce \cup NotApproval) : status[t] = "settled"}

\* What a run learnt from Authorize.net stays true, the processors have taken out
\* what they are for, and only groups that were paid for are left to be ordered.
RunPaid(r) ==
    /\ \A t \in run[r].settled : status[t] = "settled"
    /\ run[r].pc \in {"voided", "bcskip"} => run[r].batch \cap NotApproval = {}
    /\ run[r].pc = "bcskip" => run[r].batch \cap BigCommerce \subseteq run[r].todo
    /\ run[r].cur \subseteq Payable
    /\ \A g \in run[r].groups : g \subseteq Payable

PaidInv == OnlyPaidShipped /\ \A r \in Run : RunPaid(r)

\* The runs that hold the answer of ShipStation for an order of t.
Movers(t) == {r \in Run : run[r].pc = "move" /\ t \in run[r].cur}

\* Every run that is about to record an order of t, and the record itself, have an
\* order of their own, besides those whose answer was lost.
BackedInv == \A t \in Txn :
    stray[t] + Cardinality(Movers(t)) + (IF t \in processed THEN 1 ELSE 0) <= orders[t]

\* What a run has in hand to order is in no other of its groups and not processed.
RunFresh(r) ==
    /\ run[r].pc # "dedup" => run[r].batch \cap processed = {}
    /\ run[r].pc \in {"reject", "order", "move", "issue"} => run[r].batch = {}
    /\ run[r].pc \in {"move", "issue"} \/ run[r].cur = {}
    /\ \A g \in run[r].groups : g \cap processed = {} /\ g \cap run[r].cur = {}
    /\ \A g, h \in run[r].groups : g = h \/ g \cap h = {}
    /\ run[r].cur \cap processed = {}

\* Of all orders of t, one is recorded or about to be.
OneOrderInv ==
    /\ \A r \in Run : RunFresh(r)
    /\ \A t \in Txn :
          orders[t] <= stray[t] + (IF t \in processed \/ Moving(t) THEN 1 ELSE 0)

-----------------------------------------------------------------------------
(* Liveness.                                                               *)

\* The script is started again and again.  The code does not see to it: its own
\* CronJob is commented out, so this is left to whoever operates it.
Scheduled == []<><<\E r \in Run : Start(r)>>_vars

\* The rows of created that no run takes out of it and that keep others there: one
\* whose details cannot be read and one of a product nobody knows that has an
\* issues row already end each run, and a voided one with an issues row stays in
\* the batch, where a group may wait for it.
Blocking == {t \in created :
    \/ t \in Undescribed
    \/ t \in issues /\ (t \in UNION Unknown \/ status[t] = "voided")}

\* A settled transaction does not wait in the created table forever: its order
\* is made or the operator gets it, although redelivered webhooks and half done
\* restores throw runs out again and again.  It takes that the script is started,
\* and that the operator does not leave a row in created that blocks it.
SettledIsServed ==
    Scheduled /\ <>[](Blocking = {}) =>
        \A t \in NonBigCommerce :
            t \in created /\ status[t] = "settled" ~> t \notin created /\ Held(t)

\* cron_authnet_shipstation/__test__/main.test.ts:139-157 (product not found on
\* all processors): of a known and an unknown product in the same batch, the
\* known one gets its order, if the script is started often enough.
KnownProductShips ==
    Scheduled => \A t \in NonBigCommerce : (\A g \in Unknown : t \notin g) =>
        (t \in created /\ status[t] = "settled" ~> orders[t] > 0)

=============================================================================
