------------------------------ MODULE WebOrders ------------------------------
(***************************************************************************)
(* The BigCommerce webhook.  BigCommerce sends a hook when the status of   *)
(* an order changes or a refund is made; a hook is sent again until it is  *)
(* answered with 200.  The backend handles one hook at a time behind the   *)
(* hook mutex: it asks BigCommerce for the order, then makes the orders of *)
(* ShipStation (one for each part), or lists and changes those there are.  *)
(*                                                                         *)
(* The requests to ShipStation of one handler are queued together in the   *)
(* limiter, which runs one at a time.  Promise.all gives up at the first   *)
(* failure: the handler ends and the mutex is free, but the requests left  *)
(* in the limiter are still sent.  The limiter is first in, first out, so  *)
(* what a later handler asks of ShipStation waits for them; within one     *)
(* handler the order of the requests makes no difference, so `jobs` is a   *)
(* set.                                                                    *)
(***************************************************************************)
EXTENDS Naturals, Sequences, FiniteSets

CONSTANTS
    Order,       \* orders of BigCommerce
    HasTxn,      \* those with a payment_provider_id
    Part,        \* the orders of ShipStation one of them is split into
    Lists,       \* Lists[o]: orders whose numbers begin with the id of o
    InOrder,     \* hooks of an order arrive in the order they were sent
    MaxHooks,    \* bound: hooks sent
    MaxRefunds,  \* bound: refunds of an order
    MaxRepeats,  \* bound: deliveries of hooks that were answered with 200
    MaxFaults    \* bound: failures while an order is handled

ASSUME WebAssumption ==
    /\ HasTxn \subseteq Order
    /\ IsFiniteSet(Part) /\ Part # {}
    /\ Lists \in [Order -> SUBSET Order] /\ \A o \in Order : o \in Lists[o]
    /\ InOrder \in BOOLEAN
    /\ {MaxHooks, MaxRefunds, MaxRepeats, MaxFaults} \subseteq Nat

VARIABLES
    bc,         \* BigCommerce: the status of each order
    refunded,   \* BigCommerce: the refunds of each order
    sent,       \* every hook, in the order they were sent
    pending,    \* the places in `sent` of those not answered with 200
    repeats,    \* deliveries of hooks that were answered already
    handler,    \* the handler that has the mutex
    jobs,       \* requests that wait in the limiter of ShipStation
    ship,       \* the orders of ShipStation, in the order they were made
    processed,  \* orders whose transaction has a processed row
    issues,     \* orders whose transaction has an issues row
    resolved,   \* history: the operator removed the issues row
    dropped,    \* history: handlers whose failure was only logged, with their order
    failed      \* failures met with each order

shop     == <<bc, refunded>>
hooks    == <<sent, pending, repeats>>
records  == <<processed, issues, resolved>>
vars     == <<shop, hooks, handler, jobs, ship, records, dropped, failed>>

\* OrderStatus: unpaid is Incomplete, Pending, AwaitingPayment; closed is
\* Refunded, Cancelled, Declined; other is what no handler looks at.
Status == {"unpaid", "awaiting", "completed", "closed", "partial", "other"}

Hook == [order : Order, scope : {"status", "refund"}, prev : Status, new : Status]

\* An order of ShipStation; refund is what was taken off its amountPaid.
ShipOrder == [order : Order, part : Part,
              state : {"awaiting", "shipped", "cancelled"}, refund : Nat]

\* A call of createOrUpdateOrder: a new order, or the order at a place of `ship`.
Job == [at : Nat, row : ShipOrder]

Kind == {"create", "cancel", "partial", "complete"}

Handler == [pc : {"idle", "fetch", "prepare", "list", "wait", "catch"}, hook : Nat,
            kind : Kind \cup {"-"}, refund : Nat]

HooksTypeOK == sent \in Seq(Hook) /\ pending \subseteq DOMAIN sent /\ repeats \in Nat

HandlerTypeOK ==
    /\ handler \in Handler
    /\ handler.pc # "idle" => handler.hook \in DOMAIN sent /\ handler.kind \in Kind
    /\ handler.pc = "list" => handler.kind # "create"

ShipTypeOK ==
    /\ ship \in Seq(ShipOrder)
    /\ jobs \subseteq Job /\ \A j \in jobs : j.at \in 0 .. Len(ship)

TypeOK ==
    /\ bc \in [Order -> Status] /\ refunded \in [Order -> Nat]
    /\ HooksTypeOK /\ HandlerTypeOK /\ ShipTypeOK
    /\ processed \subseteq HasTxn /\ issues \subseteq Order /\ resolved \subseteq Order
    /\ dropped \subseteq Order \X Kind /\ failed \in [Order -> Nat]

Idle == [pc |-> "idle", hook |-> 0, kind |-> "-", refund |-> 0]

Init ==
    /\ bc = [o \in Order |-> "unpaid"] /\ refunded = [o \in Order |-> 0]
    /\ sent = <<>> /\ pending = {} /\ repeats = 0
    /\ handler = Idle /\ jobs = {} /\ ship = <<>>
    /\ processed = {} /\ issues = {} /\ resolved = {}
    /\ dropped = {} /\ failed = [o \in Order |-> 0]

-----------------------------------------------------------------------------
(* BigCommerce: the customer pays, the shop's staff changes the status and *)
(* refunds money; each sends its hooks.                                    *)

StatusHook(o, s) == [order |-> o, scope |-> "status", prev |-> bc[o], new |-> s]
RefundHook(o) == [order |-> o, scope |-> "refund", prev |-> bc[o], new |-> bc[o]]

Send(new) ==
    /\ Len(sent) + Len(new) <= MaxHooks
    /\ sent' = sent \o new
    /\ pending' = pending \cup (Len(sent) + 1 .. Len(sent) + Len(new))
    /\ UNCHANGED repeats

Change(o, s) ==
    /\ s \notin {bc[o], "partial"}
    /\ bc' = [bc EXCEPT ![o] = s]
    /\ Send(<<StatusHook(o, s)>>)
    /\ UNCHANGED <<refunded, handler, jobs, ship, records, dropped, failed>>

\* The refund of a part of the money, or (s is closed) of the rest of it.
Refund(o, s) ==
    /\ bc[o] # "unpaid" /\ s \in {"partial", "closed"}
    /\ refunded[o] < MaxRefunds
    /\ refunded' = [refunded EXCEPT ![o] = @ + 1]
    /\ bc' = [bc EXCEPT ![o] = s]
    /\ Send(IF bc[o] = s THEN <<RefundHook(o)>> ELSE <<StatusHook(o, s), RefundHook(o)>>)
    /\ UNCHANGED <<handler, jobs, ship, records, dropped, failed>>

-----------------------------------------------------------------------------
(* The controller: handleHook and handleStatusUpdated under the mutex.     *)

\* Mutant of KindOf: a partial refund is handled like a full one.
KindOfNoPartial(h) ==
    CASE h.scope = "refund" \/ h.new \in {"closed", "partial"} -> "cancel"
      [] h.new = "awaiting" /\ h.prev = "unpaid" -> "create"
      [] h.new = "completed" -> "complete"
      [] OTHER -> "-"

\* Which handler a hook calls.
KindOf(h) ==
    CASE h.scope = "refund" -> "cancel"
      [] h.new = "awaiting" /\ h.prev = "unpaid" -> "create"
      [] h.new = "closed" -> "cancel"
      [] h.new = "partial" -> "partial"
      [] h.new = "completed" -> "complete"
      [] OTHER -> "-"

Arrives(n) ==
    \/ /\ n \in pending
       /\ InOrder => \A k \in pending : sent[k].order = sent[n].order => n <= k
       /\ UNCHANGED repeats
    \/ /\ n \in DOMAIN sent \ pending
       /\ repeats < MaxRepeats /\ repeats' = repeats + 1

Deliver(n) ==
    /\ handler.pc = "idle" /\ Arrives(n)
    /\ LET kind == KindOf(sent[n]) IN
       IF kind = "-"
       THEN pending' = pending \ {n} /\ UNCHANGED handler
       ELSE /\ handler' = [pc |-> "fetch", hook |-> n, kind |-> kind, refund |-> 0]
            /\ UNCHANGED pending
    /\ UNCHANGED <<shop, sent, jobs, ship, records, dropped, failed>>

\* The order the handler is about.
Current == sent[handler.hook].order

Goto(label) == handler' = [handler EXCEPT !.pc = label] /\ UNCHANGED <<pending, dropped>>

\* The handler returns: the answer is 200.
Return ==
    /\ handler' = Idle /\ pending' = pending \ {handler.hook}
    /\ UNCHANGED dropped

\* Mutant of Throw: the answer is 200, and the hook does not come again.
ThrowAnswers ==
    /\ handler' = Idle /\ pending' = pending \ {handler.hook}
    /\ UNCHANGED dropped

\* The handler throws: the answer is 500 and the hook is sent again.
Throw ==
    /\ handler' = Idle /\ pending' = pending \cup {handler.hook}
    /\ UNCHANGED dropped

\* A catch block that only logs.
Swallow ==
    /\ handler' = Idle /\ pending' = pending \ {handler.hook}
    /\ dropped' = dropped \cup {<<Current, handler.kind>>}

\* An exception in the try block: createShipStationOrder saves an issue when it
\* knows the transaction.
Reject == IF handler.kind = "create" /\ Current \in HasTxn THEN Goto("catch") ELSE Swallow

Fault(o) == failed[o] < MaxFaults /\ failed' = [failed EXCEPT ![o] = @ + 1]

-----------------------------------------------------------------------------
(* The handlers: first the order as BigCommerce has it now.                *)

\* Mutant of Fetch: no isDuplicate check.
FetchMakesAgain ==
    /\ handler.pc = "fetch"
    /\ Goto(IF handler.kind = "create" THEN "prepare" ELSE "list")
    /\ UNCHANGED <<shop, sent, repeats, jobs, ship, records, failed>>

\* The isDuplicate check of createShipStationOrder is taken with it: nobody else
\* writes the processed row of an order of BigCommerce.
Fetch ==
    /\ handler.pc = "fetch"
    /\ \/ /\ handler.kind = "create"
          /\ IF Current \in processed THEN Return ELSE Goto("prepare")
       \/ /\ handler.kind = "cancel"
          /\ IF bc[Current] = "partial" THEN Return ELSE Goto("list")
       \/ /\ handler.kind = "complete"
          /\ IF bc[Current] # "completed" THEN Return ELSE Goto("list")
       \/ /\ handler.kind = "partial"
          /\ handler' = [handler EXCEPT !.pc = "list", !.refund = refunded[Current]]
          /\ UNCHANGED <<pending, dropped>>
    /\ UNCHANGED <<shop, sent, repeats, jobs, ship, records, failed>>

\* No handler knows the transaction before it has the order.
FetchFails ==
    /\ handler.pc = "fetch"
    /\ Fault(Current) /\ Swallow
    /\ UNCHANGED <<shop, sent, repeats, jobs, ship, records>>

CheckFails ==
    /\ handler.pc = "fetch" /\ handler.kind = "create" /\ Current \in HasTxn
    /\ Fault(Current) /\ Goto("catch")
    /\ UNCHANGED <<shop, sent, repeats, jobs, ship, records>>

\* init, generateOrders, postProcessOrders; then all orders go to the limiter.
Prepare ==
    /\ handler.pc = "prepare" /\ jobs = {}
    /\ jobs' = {[at |-> 0, row |-> [order |-> Current, part |-> p,
                                    state |-> "awaiting", refund |-> 0]] : p \in Part}
    /\ Goto("wait")
    /\ UNCHANGED <<shop, sent, repeats, ship, records, failed>>

\* What a handler makes of an order it found.
Changed(row) ==
    CASE handler.kind = "cancel" -> [row EXCEPT !.state = "cancelled"]
      [] handler.kind = "complete" -> [row EXCEPT !.state = "shipped"]
      [] handler.kind = "partial" -> [row EXCEPT !.refund = handler.refund]

\* Mutant of Found: shipped orders are left alone by every handler.
FoundAwaiting == {i \in DOMAIN ship :
                    ship[i].order \in Lists[Current] /\ ship[i].state = "awaiting"}

Found == {i \in DOMAIN ship :
            /\ ship[i].order \in Lists[Current]
            /\ handler.kind = "complete" => ship[i].state = "awaiting"}

\* Mutant of List: it does not wait for what is in the limiter.
ListAtOnce ==
    /\ handler.pc = "list"
    /\ jobs' = jobs \cup {[at |-> i, row |-> Changed(ship[i])] : i \in Found}
    /\ Goto("wait")
    /\ UNCHANGED <<shop, sent, repeats, ship, records, failed>>

\* getListOrders answers the orders as they are now; whole orders are sent back.
List ==
    /\ handler.pc = "list" /\ jobs = {}
    /\ jobs' = {[at |-> i, row |-> Changed(ship[i])] : i \in Found}
    /\ Goto("wait")
    /\ UNCHANGED <<shop, sent, repeats, ship, records, failed>>

PrepareOrListFails ==
    /\ handler.pc \in {"prepare", "list"} /\ jobs = {}
    /\ Fault(Current) /\ Reject
    /\ UNCHANGED <<shop, sent, repeats, jobs, ship, records>>

-----------------------------------------------------------------------------
(* ShipStation.                                                            *)

Applied(j) == IF j.at = 0 THEN Append(ship, j.row) ELSE [ship EXCEPT ![j.at] = j.row]

JobDone(j) ==
    /\ ship' = Applied(j) /\ jobs' = jobs \ {j}
    /\ UNCHANGED <<shop, hooks, handler, records, dropped, failed>>

\* Mutant of JobFails: Promise.allSettled, no failure is seen.
JobFailsUnseen(j) ==
    /\ Fault(j.row.order)
    /\ ship' \in {ship, Applied(j)} /\ jobs' = jobs \ {j}
    /\ UNCHANGED <<shop, hooks, handler, records, dropped>>

\* The request is refused, or it is done and the answer is lost; Promise.all of
\* the handler that waits for it rejects.  Requests nobody waits for any more
\* belong to a handler that ended.
JobFails(j) ==
    /\ Fault(j.row.order)
    /\ ship' \in {ship, Applied(j)} /\ jobs' = jobs \ {j}
    /\ IF handler.pc = "wait" THEN Reject ELSE UNCHANGED <<handler, pending, dropped>>
    /\ UNCHANGED <<shop, sent, repeats, records>>

\* All requests of the handler were answered.
Finish ==
    /\ handler.pc = "wait" /\ jobs = {}
    /\ processed' = IF handler.kind = "create" /\ Current \in HasTxn
                    THEN processed \cup {Current} ELSE processed
    /\ Return
    /\ UNCHANGED <<shop, sent, repeats, jobs, ship, issues, resolved, failed>>

FinishFails ==
    /\ handler.pc = "wait" /\ jobs = {} /\ handler.kind = "create" /\ Current \in HasTxn
    /\ Fault(Current) /\ Goto("catch")
    /\ UNCHANGED <<shop, sent, repeats, jobs, ship, records>>

\* Mutant of Catch: the exception of save is caught as well.
CatchSwallows ==
    /\ handler.pc = "catch" /\ Return
    /\ UNCHANGED <<shop, sent, repeats, jobs, ship, records, failed>>

\* The catch block of createShipStationOrder: the unique index on transactionId
\* refuses a second issues row, and save throws.
Catch ==
    /\ handler.pc = "catch"
    /\ issues' = issues \cup {Current}
    /\ IF Current \in issues THEN Throw ELSE Return
    /\ UNCHANGED <<shop, sent, repeats, jobs, ship, processed, resolved, failed>>

CatchFails ==
    /\ handler.pc = "catch"
    /\ Fault(Current) /\ Throw
    /\ UNCHANGED <<shop, sent, repeats, jobs, ship, records>>

\* The process restarts: the handler and the requests in the limiter are gone.
Crash ==
    /\ \/ /\ handler.pc # "idle" /\ Fault(Current) /\ Throw
       \/ /\ handler.pc = "idle" /\ \E j \in jobs : Fault(j.row.order)
          /\ UNCHANGED <<handler, pending, dropped>>
    /\ jobs' = {}
    /\ UNCHANGED <<shop, sent, repeats, ship, records>>

\* The operator deletes the issues row, or restores it: the row it becomes in
\* created is deleted by the cron script, because BigCommerce handles the order.
Resolve(o) ==
    /\ o \in issues
    /\ issues' = issues \ {o} /\ resolved' = resolved \cup {o}
    /\ UNCHANGED <<shop, hooks, handler, jobs, ship, processed, dropped, failed>>

HandlerNext == Fetch \/ Prepare \/ List \/ Finish \/ Catch \/ \E j \in jobs : JobDone(j)

FailNext == FetchFails \/ CheckFails \/ PrepareOrListFails \/ FinishFails \/ CatchFails
            \/ Crash \/ \E j \in jobs : JobFails(j)

ShopNext == \E o \in Order : Resolve(o) \/ \E s \in Status : Change(o, s) \/ Refund(o, s)

Next == ShopNext \/ HandlerNext \/ FailNext \/ \E n \in DOMAIN sent : Deliver(n)

Spec == Init /\ [][Next]_vars

\* BigCommerce sends a hook again until it is answered with 200, the mutex serves
\* the hooks that wait for it, and every request has a timeout.
Fairness ==
    /\ WF_vars(\E n \in pending : Deliver(n))
    /\ WF_vars(HandlerNext)

FairSpec == Spec /\ Fairness

-----------------------------------------------------------------------------
(* Safety.                                                                 *)

OrdersOf(o, p) == {i \in DOMAIN ship : ship[i].order = o /\ ship[i].part = p}
Busy(o) == handler.pc # "idle" /\ Current = o /\ handler.kind = "create"
CreateHook(n, o) == sent[n].order = o /\ KindOf(sent[n]) = "create"

\* An order counts as processed only when every part of it has an order in
\* ShipStation, whichever requests of createShipStationOrder failed or were still
\* waiting in the limiter when its handler ended.
ProcessedComplete == \A o \in processed : \A p \in Part : OrdersOf(o, p) # {}

\* An order with a transaction has as many orders for a part as attempts to make
\* them failed, and one more: redelivered hooks and an order that becomes unpaid
\* and paid again make no others.
MadeOnce == \A o \in HasTxn, p \in Part : Cardinality(OrdersOf(o, p)) <= 1 + failed[o]

Accounted(o) ==
    \/ o \in processed \cup issues \cup resolved \/ <<o, "create">> \in dropped
    \/ Busy(o) \/ \E n \in pending : CreateHook(n, o)

\* Orders in ShipStation that no row accounts for are never left to themselves: a
\* handler is at work, the hook comes again, the operator had an issue, or BigCommerce
\* did not answer a later attempt, which is only logged.
AttemptRecorded == \A o \in HasTxn, p \in Part : OrdersOf(o, p) # {} => Accounted(o)

\* A cancelled order stays cancelled: the handlers send whole orders back that
\* they listed earlier, and the requests of a handler that gave up are sent after
\* it ended, but no such copy overwrites a cancellation.
CancelStays ==
    [][\A i \in DOMAIN ship :
         ship[i].state = "cancelled" => ship'[i].state = "cancelled"]_vars

\* src/bigcomhook/bigcomhook.service.ts:723 ("is partially refunded, so no need to
\* delete ShipStation order"): as long as the shop has never closed an order, its
\* orders in ShipStation are not cancelled.
PartialRefundKeepsOrder ==
    \A i \in DOMAIN ship : ship[i].state = "cancelled" =>
        \E n \in DOMAIN sent : sent[n].order = ship[i].order /\ sent[n].new = "closed"

ParcelsOf == INSTANCE Parcels WITH
    Once <- HasTxn, parcels <- ship, recorded <- processed, refunds <- refunded,
    failures <- failed

\* The handlers list whole orders and send them back later, the requests of one that
\* gave up after it ended, and still no change is lost or made to an order that is no
\* longer as it was listed: each is a step of Parcels.
ImplementsParcels == ParcelsOf!Spec

-----------------------------------------------------------------------------
(* Why ProcessedComplete and CancelStays hold.                             *)

\* A copy in the limiter is of the order at its place, and not older than a
\* cancellation of it; there are no two copies of one order.
CopiesFresh ==
    /\ \A j \in jobs : j.at # 0 =>
          /\ j.row.order = ship[j.at].order /\ j.row.part = ship[j.at].part
          /\ ship[j.at].state = "cancelled" => j.row.state = "cancelled"
    /\ \A j, k \in jobs : j.at = k.at /\ j.at # 0 => j = k

Queued(o, p) == \E j \in jobs : j.at = 0 /\ j.row.order = o /\ j.row.part = p

\* While createShipStationOrder waits and nothing has failed, a part has its order
\* or its request is in the limiter.
NoPartMissing ==
    handler.pc = "wait" /\ handler.kind = "create" =>
        \A p \in Part : OrdersOf(Current, p) # {} \/ Queued(Current, p)

ShipInv == CopiesFresh /\ NoPartMissing /\ ProcessedComplete

-----------------------------------------------------------------------------
(* Why MadeOnce holds.                                                     *)

\* The requests of createShipStationOrder that are under way are of one attempt,
\* of an order that is not processed yet.
OneAttempt ==
    /\ \A j, k \in jobs :
          j.at = 0 /\ k.at = 0 /\ j.row.order = k.row.order /\ j.row.part = k.row.part => j = k
    /\ handler.pc = "wait" /\ handler.kind = "create" =>
          \A j \in jobs : j.at = 0 /\ j.row.order = Current
    /\ handler.pc = "prepare" => handler.kind = "create" /\ Current \notin processed

Attempt(o) == handler.pc = "wait" /\ handler.kind = "create" /\ Current = o

\* Every order of a part but those of failed attempts is of the attempt that was
\* recorded or is under way; so is the one whose request is in the limiter.
CountedOrders ==
    \A o \in HasTxn, p \in Part :
        Cardinality(OrdersOf(o, p)) + (IF Queued(o, p) THEN 1 ELSE 0)
            <= failed[o] + (IF o \in processed \/ Attempt(o) THEN 1 ELSE 0)

MadeInv == OneAttempt /\ CountedOrders

-----------------------------------------------------------------------------
(* Why AttemptRecorded holds.                                              *)

RecordInv ==
    /\ handler.pc # "idle" => handler.kind = KindOf(sent[handler.hook])
    /\ \A o \in HasTxn, p \in Part : OrdersOf(o, p) # {} \/ Queued(o, p) => Accounted(o)

-----------------------------------------------------------------------------
(* Why WebOrders implements Parcels.                                       *)

\* What a request may make of an order that is in ShipStation.
OneChange(row, new) ==
    \/ new = [row EXCEPT !.state = "cancelled"]
    \/ row.state = "awaiting" /\ new = [row EXCEPT !.state = "shipped"]
    \/ \E o \in Order : \E amount \in 0 .. refunded[o] :
          row.order \in Lists[o] /\ new = [row EXCEPT !.refund = amount]

\* A request differs in one thing from the order as it is now, or makes an order
\* that no attempt was recorded for.
RequestsExact ==
    \A j \in jobs :
        IF j.at # 0 THEN OneChange(ship[j.at], j.row)
        ELSE /\ j.row.state = "awaiting" /\ j.row.refund = 0
             /\ j.row.part \in Part /\ j.row.order \notin processed

ParcelsInv ==
    /\ RequestsExact
    /\ handler.pc # "idle" => handler.refund <= refunded[Current]

-----------------------------------------------------------------------------
(* Liveness.                                                               *)

\* An order that was paid becomes an order the tables know, or the failure that
\* prevented it was one createShipStationOrder only logs.
PaidIsHandled ==
    \A o \in HasTxn :
        (\E n \in pending : CreateHook(n, o))
            ~> o \in processed \cup issues \cup resolved \/ <<o, "create">> \in dropped

\* When hooks arrive in order and none comes again after its answer: the orders of
\* an order that stays closed end up cancelled, also those a failed handler left in
\* the limiter.
ClosedIsCancelled ==
    \A o \in Order :
        [](repeats = 0) /\ <>[](bc[o] = "closed")
            => <>(<<o, "cancel">> \in dropped \/ [](\A i \in DOMAIN ship :
                     ship[i].order = o => ship[i].state = "cancelled"))

\* Under the same conditions: the orders of an order that stays partially refunded
\* end up with the refund taken off.  It is checked with one refund, for the hook
\* of a second one does not change an order (see the README).
RefundReachesOrders ==
    \A o \in Order :
        [](repeats = 0) /\ <>[](bc[o] = "partial")
            => <>(<<o, "partial">> \in dropped \/ [](\A i \in DOMAIN ship :
                     ship[i].order = o => ship[i].refund = refunded[o]))

=============================================================================
