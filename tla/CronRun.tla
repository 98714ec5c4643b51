------------------------------- MODULE CronRun -------------------------------
(***************************************************************************)
(* A run of the cron script (dbProcessor): it reads the created table,     *)
(* fetches the details of each transaction once, passes what is left       *)
(* through the processors Issued, Voided, BigCommerceSkip and Common, and  *)
(* makes the orders of Common one after the other.  The script runs once   *)
(* each time somebody starts it, and nothing keeps it from being started   *)
(* while it runs: Run is the set of runs that may be under way at the same *)
(* time.  An exception outside of the try blocks ends the run, and what it *)
(* had read is forgotten.                                                  *)
(***************************************************************************)
EXTENDS SharedStore, FiniteSets

CONSTANTS
    Run,         \* the runs that may overlap
    Combine,     \* combineTransactions: the groups of a batch
    Unknown,     \* the groups transformData refuses (no product found)
    Undescribed  \* those with neither a description nor a subscription

ASSUME CronAssumption ==
    /\ IsFiniteSet(Run)
    /\ Combine \in [SUBSET Txn -> SUBSET SUBSET Txn]
    /\ \A B \in SUBSET Txn : UNION Combine[B] = B
    /\ \A B \in SUBSET Txn : \A g, h \in Combine[B] : g = h \/ g \cap h = {}
    /\ Unknown \subseteq SUBSET Txn
    /\ Undescribed \subseteq Txn

VARIABLE run

Label == {"idle", "dedup", "fetch", "issued", "voided", "bcskip", "reject",
          "order", "move", "issue"}

RunState == [pc      : Label,
             batch   : SUBSET Txn,         \* transactionDetails
             settled : SUBSET Txn,         \* those fetched as settled
             todo    : SUBSET Txn,         \* still to do by Voided or BigCommerceSkip
             bg      : SUBSET Txn,         \* moves of Issued nobody awaits
             reject  : SUBSET SUBSET Txn,  \* groups Common moves to the issues
             groups  : SUBSET SUBSET Txn,  \* groups still to be ordered
             cur     : SUBSET Txn]         \* the group being ordered

CronTypeOK == run \in [Run -> RunState]

NoRun == [pc |-> "idle", batch |-> {}, settled |-> {}, todo |-> {}, bg |-> {},
          reject |-> {}, groups |-> {}, cur |-> {}]

CronInit == run = [r \in Run |-> NoRun]

At(r, label) == run[r].pc = label

Become(r, state) == run' = [run EXCEPT ![r] = state]

\* The connection is closed; moves that did not get theirs are lost.
End(r) == Become(r, NoRun)

-----------------------------------------------------------------------------
(* Reading the batch.                                                      *)

\* getDbTransactionsCreated.
Start(r) ==
    /\ At(r, "idle")
    /\ Become(r, [NoRun EXCEPT !.pc = "dedup", !.batch = created])
    /\ UNCHANGED store

\* Mutant of RemoveDuplicates: the duplicates stay in the batch.
RemoveDuplicatesKeepsBatch(r) ==
    /\ At(r, "dedup")
    /\ DeleteCreated(run[r].batch \cap processed)
    /\ Become(r, [run[r] EXCEPT !.pc = "fetch"])
    /\ UNCHANGED <<status, orders, stray, faults>>

\* removeDuplicates.
RemoveDuplicates(r) ==
    /\ At(r, "dedup")
    /\ DeleteCreated(run[r].batch \cap processed)
    /\ Become(r, [run[r] EXCEPT !.pc = "fetch", !.batch = @ \ processed])
    /\ UNCHANGED <<status, orders, stray, faults>>

\* createFetcherDetails, for all at once; each is as old as its answer.
FetchDetails(r) ==
    /\ At(r, "fetch") /\ run[r].batch \cap Undescribed = {}
    /\ Become(r, [run[r] EXCEPT
                    !.pc = "issued",
                    !.settled = {t \in run[r].batch : status[t] = "settled"},
                    !.todo = {t \in run[r].batch : status[t] = "voided"}])
    /\ UNCHANGED store

\* The subscription is asked for its name and there is none: the TypeError of one
\* fetch is that of all, in this run and in every other that reads the row.
FetchThrows(r) ==
    /\ At(r, "fetch") /\ run[r].batch \cap Undescribed # {}
    /\ End(r)
    /\ UNCHANGED store

-----------------------------------------------------------------------------
(* The processors that make no orders.                                     *)

\* IssuedProcessor.process: it starts the moves and does not await them.
IssuedProcess(r) ==
    /\ At(r, "issued")
    /\ Become(r, [run[r] EXCEPT !.pc = "voided",
                                !.bg = run[r].batch \cap NotApproval,
                                !.batch = @ \ NotApproval,
                                !.todo = @ \ NotApproval])
    /\ UNCHANGED store

\* Such a move ends at some time of the run; its error is only logged.
IssuedMove(r, t) ==
    /\ t \in run[r].bg
    /\ \/ MoveIssued({t})
       \/ t \in issues /\ UNCHANGED tables
    /\ Become(r, [run[r] EXCEPT !.bg = @ \ {t}])
    /\ UNCHANGED <<status, orders, stray, faults>>

IssuedMoveFails(r, t) ==
    /\ t \in run[r].bg
    /\ Fault
    /\ Become(r, [run[r] EXCEPT !.bg = @ \ {t}])
    /\ UNCHANGED <<tables, status, orders, stray>>

\* VoidedProcessor.process: a transaction that is moved leaves the batch.
VoidedMove(r, t) ==
    /\ At(r, "voided") /\ t \in run[r].todo
    /\ MoveIssued({t})
    /\ Become(r, [run[r] EXCEPT !.todo = @ \ {t}, !.batch = @ \ {t}])
    /\ UNCHANGED <<status, orders, stray, faults>>

\* It has an issues row: the error is logged and it stays in the batch.
VoidedRefused(r, t) ==
    /\ At(r, "voided") /\ t \in run[r].todo \cap issues
    /\ Become(r, [run[r] EXCEPT !.todo = @ \ {t}])
    /\ UNCHANGED store

VoidedFails(r, t) ==
    /\ At(r, "voided") /\ t \in run[r].todo
    /\ Fault
    /\ Become(r, [run[r] EXCEPT !.todo = @ \ {t}])
    /\ UNCHANGED <<tables, status, orders, stray>>

VoidedDone(r) ==
    /\ At(r, "voided") /\ run[r].todo = {}
    /\ Become(r, [run[r] EXCEPT !.pc = "bcskip",
                                !.todo = run[r].batch \cap BigCommerce])
    /\ UNCHANGED store

\* BigCommerceSkipProcessor.process.
BigCommerceRemove(r, t) ==
    /\ At(r, "bcskip") /\ t \in run[r].todo
    /\ DeleteCreated({t})
    /\ Become(r, [run[r] EXCEPT !.todo = @ \ {t}, !.batch = @ \ {t}])
    /\ UNCHANGED <<status, orders, stray, faults>>

-----------------------------------------------------------------------------
(* CommonProcessor.process.                                                *)

\* Mutant of Approved: no filter at all.
ApprovedAlways(g, settled) == TRUE

\* isApprovedTransaction: every member of the group is settled.
Approved(g, settled) == g \subseteq settled

\* The groups are built before the filter: a group waits for all its members.
CommonProcess(r) ==
    /\ At(r, "bcskip") /\ run[r].todo = {}
    /\ LET approved == {g \in Combine[run[r].batch] : Approved(g, run[r].settled)}
       IN Become(r, [run[r] EXCEPT !.pc = "reject",
                                   !.batch = {}, !.settled = {},
                                   !.reject = approved \cap Unknown,
                                   !.groups = approved \ Unknown])
    /\ UNCHANGED store

\* Mutant of Reject: an order that cannot be built ends the run.
RejectThrowsAlways(r, g) ==
    /\ At(r, "reject") /\ g \in run[r].reject
    /\ End(r)
    /\ UNCHANGED store

Reject(r, g) ==
    /\ At(r, "reject") /\ g \in run[r].reject
    /\ MoveIssued(g)
    /\ Become(r, [run[r] EXCEPT !.reject = @ \ {g}])
    /\ UNCHANGED <<status, orders, stray, faults>>

\* A member has an issues row: the move throws and nothing catches it.
RejectThrows(r, g) ==
    /\ At(r, "reject") /\ g \in run[r].reject
    /\ g \cap issues # {}
    /\ End(r)
    /\ UNCHANGED store

CommonDone(r) ==
    /\ At(r, "reject") /\ run[r].reject = {}
    /\ Become(r, [run[r] EXCEPT !.pc = "order"])
    /\ UNCHANGED store

-----------------------------------------------------------------------------
(* orderPairProcessor, for one group after the other.                      *)

Take(r, g, label) ==
    /\ At(r, "order") /\ g \in run[r].groups
    /\ Become(r, [run[r] EXCEPT !.pc = label, !.cur = g, !.groups = @ \ {g}])

CreateOrder(r, g) ==
    /\ Take(r, g, "move")
    /\ orders' = Bump(orders, g)
    /\ UNCHANGED <<tables, status, stray, faults>>

\* ShipStation makes the order but the answer does not arrive (timeout).
CreateOrderLost(r, g) ==
    /\ Take(r, g, "issue")
    /\ Fault
    /\ orders' = Bump(orders, g) /\ stray' = Bump(stray, g)
    /\ UNCHANGED <<tables, status>>

\* Mutant of CreateOrderRefused: the status of the response is not looked at.
CreateOrderRefusedUnseen(r, g) ==
    /\ Take(r, g, "move")
    /\ Fault
    /\ UNCHANGED <<tables, status, orders, stray>>

CreateOrderRefused(r, g) ==
    /\ Take(r, g, "issue")
    /\ Fault
    /\ UNCHANGED <<tables, status, orders, stray>>

Move(r) ==
    /\ At(r, "move")
    /\ MoveProcessed(run[r].cur)
    /\ Become(r, [run[r] EXCEPT !.pc = "order", !.cur = {}])
    /\ UNCHANGED <<status, orders, stray, faults>>

MoveFails(r) ==
    /\ At(r, "move")
    /\ Fault
    /\ stray' = Bump(stray, run[r].cur)
    /\ Become(r, [run[r] EXCEPT !.pc = "issue"])
    /\ UNCHANGED <<tables, status, orders>>

\* Mutant of Issue: the row leaves created and no issue is inserted.
IssueOnlyDeletes(r) ==
    /\ At(r, "issue")
    /\ DeleteCreated(run[r].cur)
    /\ Become(r, [run[r] EXCEPT !.pc = "order", !.cur = {}])
    /\ UNCHANGED <<status, orders, stray, faults>>

\* The catch block.
Issue(r) ==
    /\ At(r, "issue")
    /\ MoveIssued(run[r].cur)
    /\ Become(r, [run[r] EXCEPT !.pc = "order", !.cur = {}])
    /\ UNCHANGED <<status, orders, stray, faults>>

\* The move in the catch block throws too: the other groups get no order.
IssueThrows(r) ==
    /\ At(r, "issue") /\ run[r].cur \cap issues # {}
    /\ End(r)
    /\ UNCHANGED store

Finish(r) ==
    /\ At(r, "order") /\ run[r].groups = {}
    /\ End(r)
    /\ UNCHANGED store

\* A query or a fetch outside of a try block fails, or the process dies.
Die(r) ==
    /\ ~At(r, "idle")
    /\ Fault
    /\ stray' = IF At(r, "move") THEN Bump(stray, run[r].cur) ELSE stray
    /\ End(r)
    /\ UNCHANGED <<tables, status, orders>>

-----------------------------------------------------------------------------

ReadNext(r) ==
    Start(r) \/ RemoveDuplicates(r) \/ FetchDetails(r) \/ FetchThrows(r)

SkipNext(r) ==
    \/ IssuedProcess(r)
    \/ VoidedDone(r)
    \/ \E t \in Txn : VoidedMove(r, t) \/ VoidedRefused(r, t)
    \/ \E t \in Txn : BigCommerceRemove(r, t)

CommonNext(r) ==
    \/ CommonProcess(r)
    \/ CommonDone(r)
    \/ \E g \in run[r].reject : Reject(r, g) \/ RejectThrows(r, g)

OrderNext(r) ==
    \/ \E g \in run[r].groups : CreateOrder(r, g)
    \/ Move(r) \/ Issue(r) \/ IssueThrows(r) \/ Finish(r)

\* What a run does by itself, and what may go wrong outside of it.
RunNext(r) == ReadNext(r) \/ SkipNext(r) \/ CommonNext(r) \/ OrderNext(r)

BackgroundNext(r) == \E t \in Txn : IssuedMove(r, t)

RunFails(r) ==
    \/ \E t \in Txn : IssuedMoveFails(r, t) \/ VoidedFails(r, t)
    \/ \E g \in run[r].groups : CreateOrderLost(r, g) \/ CreateOrderRefused(r, g)
    \/ MoveFails(r)
    \/ Die(r)

CronNext == \E r \in Run : RunNext(r) \/ BackgroundNext(r) \/ RunFails(r)

=============================================================================
