------------------------------ MODULE Refunds --------------------------------
(***************************************************************************)
(* The Authorize.net webhook for refunds and voids.  The handler finds the *)
(* number of the order of the refunded charge, lists the orders under it,  *)
(* and sends each of them back whole with a lower amountPaid or cancelled. *)
(*                                                                         *)
(* Promise.all rejects at the first failure: the updates it no longer      *)
(* waits for stay in the limiter of ShipStationProxy, which has one        *)
(* request under way at a time, first come first served.                   *)
(***************************************************************************)
EXTENDS Integers, Sequences, FiniteSetsExt, SequencesExt

CONSTANTS
    Order, Event, Number,
    OrderOf,        \* the order of the charge that an event refunds
    NumberOf,       \* the number of an order
    FromShop,       \* the orders of the BigCommerce webhook, the others are the script's
    Undefined,      \* what a number is that is read from nothing
    Invoice,        \* the invoice number in the payload of an event, or Undefined
    Under,          \* the orders that a list by number returns: the prefix
    Amount,         \* amountPaid of an order when it is made
    Settle,         \* settleAmount of an event, NoAmount when it is not finite
    NoAmount,
    BigCommerce,    \* the events of the checkout of BigCommerce
    MaxDeliveries,  \* bound: deliveries of one event
    MaxFaults       \* bound: failures and restarts

ASSUME RefundAssumption ==
    /\ IsFiniteSet(Order) /\ IsFiniteSet(Event)
    /\ OrderOf \in [Event -> Order] /\ NumberOf \in [Order -> Number]
    /\ Invoice \in [Event -> Number] /\ Under \in [Number -> SUBSET Order]
    /\ \A o \in Order : o \in Under[NumberOf[o]]
    /\ FromShop \subseteq Order
    /\ Undefined \in Number /\ Under[Undefined] = {}
    /\ Amount \in [Order -> Nat \ {0}]
    /\ NoAmount \notin Nat /\ Settle \in [Event -> (Nat \ {0}) \cup {NoAmount}]
    /\ BigCommerce \subseteq Event
    /\ MaxDeliveries \in Nat /\ MaxFaults \in Nat

VARIABLES
    ship,       \* the orders of ShipStation: amountPaid and orderStatus
    rows,       \* the orders whose processed row is saved
    handler,    \* the handler behind the hook mutex
    jobs,       \* the updates in the limiter, the oldest first
    issues,     \* the events with an issues row
    delivered,  \* deliveries of each event
    ended,      \* how the last delivery of each event ended
    taken,      \* history: updates for an event that reached an order
    faults

vars == <<ship, rows, handler, jobs, issues, delivered, ended, taken, faults>>

OrderState == [state : {"absent", "open", "cancelled"}, paid : Int]

Label == {"idle", "skip", "find", "list", "wait", "catch"}

Handler == [pc : Label, event : Event \cup {"-"}, number : Number \cup {"-"},
            found : BOOLEAN, left : Nat]

Job == [order : Order, event : Event, new : OrderState]

TypeOK ==
    /\ ship \in [Order -> OrderState]
    /\ rows \subseteq {o \in Order : ship[o].state # "absent"}
    /\ handler \in Handler
    /\ handler.pc # "idle" => handler.event \in Event
    /\ handler.left <= Len(jobs)
    /\ jobs \in Seq(Job)
    /\ issues \subseteq Event
    /\ delivered \in [Event -> Nat]
    /\ ended \in [Event -> {"-", "skipped", "found", "blind", "issue", "error"}]
    /\ taken \in [Order -> [Event -> Nat]]
    /\ faults \in Nat

Idle == [pc |-> "idle", event |-> "-", number |-> "-", found |-> FALSE, left |-> 0]

Init ==
    /\ ship = [o \in Order |-> [state |-> "absent", paid |-> 0]]
    /\ rows = {} /\ handler = Idle /\ jobs = <<>> /\ issues = {}
    /\ delivered = [e \in Event |-> 0] /\ ended = [e \in Event |-> "-"]
    /\ taken = [o \in Order |-> [e \in Event |-> 0]]
    /\ faults = 0

Fault == faults < MaxFaults /\ faults' = faults + 1

At(label) == handler.pc = label
Goto(label) == handler' = [handler EXCEPT !.pc = label]

\* The response is sent and the mutex is free.
Answer(outcome) ==
    /\ handler' = Idle
    /\ ended' = [ended EXCEPT ![handler.event] = outcome]

-----------------------------------------------------------------------------
(* The cron script or the BigCommerce webhook makes an order and saves the *)
(* processed row later.                                                    *)

Make(o) ==
    /\ ship[o].state = "absent"
    /\ ship' = [ship EXCEPT ![o] = [state |-> "open", paid |-> Amount[o]]]
    /\ UNCHANGED <<rows, handler, jobs, issues, delivered, ended, taken, faults>>

Record(o) ==
    /\ ship[o].state # "absent" /\ o \notin rows
    /\ rows' = rows \cup {o}
    /\ UNCHANGED <<ship, handler, jobs, issues, delivered, ended, taken, faults>>

-----------------------------------------------------------------------------
(* The handler.                                                            *)

Deliver(e) ==
    /\ At("idle") /\ delivered[e] < MaxDeliveries
    /\ delivered' = [delivered EXCEPT ![e] = @ + 1]
    /\ handler' = [Idle EXCEPT !.pc = "skip", !.event = e]
    /\ UNCHANGED <<ship, rows, jobs, issues, ended, taken, faults>>

ShouldSkip ==
    /\ At("skip")
    /\ IF handler.event \in BigCommerce
       THEN Answer("skipped")
       ELSE Goto("find") /\ UNCHANGED ended
    /\ UNCHANGED <<ship, rows, jobs, issues, delivered, taken, faults>>

\* The details cannot be fetched: nothing is skipped.
ShouldSkipFails ==
    /\ At("skip")
    /\ Fault /\ Goto("find")
    /\ UNCHANGED <<ship, rows, jobs, issues, delivered, ended, taken>>

\* orderObject.orderNumber of a processed row.  The script saves the order that
\* ShipStation answered; the BigCommerce webhook saves an array of them, which has
\* no orderNumber.
RowNumber(o) == IF o \in FromShop THEN Undefined ELSE NumberOf[o]

\* init waits in the limiter behind the updates that are left over; then the
\* details, and the processed row of the charge, or else the invoice number.
FindOrderNumber ==
    /\ At("find") /\ jobs = <<>>
    /\ LET o == OrderOf[handler.event]
           found == o \in rows IN
       handler' = [handler EXCEPT
                     !.pc = "list",
                     !.found = found,
                     !.number = IF found THEN RowNumber(o) ELSE Invoice[handler.event]]
    /\ UNCHANGED <<ship, rows, jobs, issues, delivered, ended, taken, faults>>

\* Mutant of Refunded: an amount equal to what is left is subtracted.
RefundedToZero(order, settle) ==
    IF settle # NoAmount /\ order.paid >= settle
    THEN [order EXCEPT !.paid = @ - settle]
    ELSE [order EXCEPT !.state = "cancelled"]

\* The order that is sent back for the one that was listed.
Refunded(order, settle) ==
    IF settle # NoAmount /\ order.paid > settle
    THEN [order EXCEPT !.paid = @ - settle]
    ELSE [order EXCEPT !.state = "cancelled"]

\* The orders that a list by number returns now.
Listed(n) == {o \in Under[n] : ship[o].state # "absent"}

Update(o, e) == [order |-> o, event |-> e, new |-> Refunded(ship[o], Settle[e])]

\* Mutant of ListOrders: the list does not wait behind the updates.
ListOrdersAtOnce ==
    /\ At("list") \/ At("find")
    /\ LET n == IF At("list") THEN handler.number ELSE RowNumber(OrderOf[handler.event]) IN
       \E s \in SetToSeqs(Listed(n)) :
         /\ jobs' = jobs \o [i \in DOMAIN s |-> Update(s[i], handler.event)]
         /\ handler' = [handler EXCEPT !.pc = "wait", !.left = Len(s)]
    /\ UNCHANGED <<ship, rows, issues, delivered, ended, taken, faults>>

\* getListOrders, and one createOrUpdateOrder for each, all at once.
ListOrders ==
    /\ At("list") /\ jobs = <<>>
    /\ \E s \in SetToSeqs(Listed(handler.number)) :
         /\ jobs' = [i \in DOMAIN s |-> Update(s[i], handler.event)]
         /\ handler' = [handler EXCEPT !.pc = "wait", !.left = Len(s)]
    /\ UNCHANGED <<ship, rows, issues, delivered, ended, taken, faults>>

\* init, the details, the query or the list fails.
FindOrListFails ==
    /\ At("find") \/ At("list")
    /\ Fault /\ Goto("catch")
    /\ UNCHANGED <<ship, rows, jobs, issues, delivered, ended, taken>>

-----------------------------------------------------------------------------
(* The limiter sends the oldest update.                                    *)

Apply ==
    LET job == Head(jobs) IN
    /\ ship' = [ship EXCEPT ![job.order] = job.new]
    /\ taken' = [taken EXCEPT ![job.order][job.event] = @ + 1]

\* The handler waits for what it sent; what was left over is before that.
Mine == At("wait") /\ Len(jobs) <= handler.left

JobDone ==
    /\ jobs # <<>>
    /\ Apply
    /\ jobs' = Tail(jobs)
    /\ handler' = IF Mine THEN [handler EXCEPT !.left = @ - 1] ELSE handler
    /\ UNCHANGED <<rows, issues, delivered, ended, faults>>

\* Mutant of JobFails: the status of the response is not looked at.
JobFailsUnseen ==
    /\ jobs # <<>>
    /\ Fault
    /\ UNCHANGED <<ship, taken>>
    /\ jobs' = Tail(jobs)
    /\ handler' = IF Mine THEN [handler EXCEPT !.left = @ - 1] ELSE handler
    /\ UNCHANGED <<rows, issues, delivered, ended>>

\* Mutant of JobFails: an update without an answer is tried again.
JobFailsRetries ==
    /\ jobs # <<>>
    /\ Fault
    /\ Apply \/ UNCHANGED <<ship, taken>>
    /\ UNCHANGED <<jobs, handler, rows, issues, delivered, ended>>

\* It is refused, or it is made and the answer is lost.
JobFails ==
    /\ jobs # <<>>
    /\ Fault
    /\ Apply \/ UNCHANGED <<ship, taken>>
    /\ jobs' = Tail(jobs)
    /\ handler' = IF Mine THEN [handler EXCEPT !.pc = "catch", !.left = 0] ELSE handler
    /\ UNCHANGED <<rows, issues, delivered, ended>>

-----------------------------------------------------------------------------
(* The end of a delivery.                                                  *)

Done ==
    /\ At("wait") /\ handler.left = 0
    /\ Answer(IF handler.found THEN "found" ELSE "blind")
    /\ UNCHANGED <<ship, rows, jobs, issues, delivered, taken, faults>>

\* Mutant of CreateNewIssue: the catch block only logs.
CreateNewIssueOnlyLogs ==
    /\ At("catch")
    /\ Answer("issue")
    /\ UNCHANGED <<ship, rows, jobs, issues, delivered, taken, faults>>

\* createNewIssuesEntity; the index on transactionId refuses a second row, and
\* the answer is 500.
CreateNewIssue ==
    /\ At("catch")
    /\ issues' = issues \cup {handler.event}
    /\ Answer(IF handler.event \in issues THEN "error" ELSE "issue")
    /\ UNCHANGED <<ship, rows, jobs, delivered, taken, faults>>

CreateNewIssueFails ==
    /\ At("catch")
    /\ Fault /\ Answer("error")
    /\ UNCHANGED <<ship, rows, jobs, issues, delivered, taken>>

\* The backend restarts: the limiter forgets its updates, the oldest may be made.
Restart ==
    /\ ~At("idle") \/ jobs # <<>>
    /\ Fault
    /\ (jobs # <<>> /\ Apply) \/ UNCHANGED <<ship, taken>>
    /\ jobs' = <<>>
    /\ IF At("idle") THEN UNCHANGED <<handler, ended>> ELSE Answer("error")
    /\ UNCHANGED <<rows, issues, delivered>>

-----------------------------------------------------------------------------

HandlerNext ==
    \/ ShouldSkip \/ FindOrderNumber \/ ListOrders \/ JobDone \/ Done \/ CreateNewIssue

FaultNext ==
    \/ ShouldSkipFails \/ FindOrListFails \/ JobFails \/ CreateNewIssueFails \/ Restart

Next ==
    \/ \E o \in Order : Make(o) \/ Record(o)
    \/ \E e \in Event : Deliver(e)
    \/ HandlerNext
    \/ FaultNext

\* The limiter and the handler go on as long as the process lives.
Spec == Init /\ [][Next]_vars /\ WF_vars(HandlerNext)

-----------------------------------------------------------------------------
(* Properties.                                                             *)

\* What updates for an event took from an order; an event without an amount
\* takes all of it.
Take(o, e) == taken[o][e] * (IF Settle[e] = NoAmount THEN Amount[o] ELSE Settle[e])
Total(o) == FoldSet(LAMBDA e, sum : sum + Take(o, e), 0, Event)

\* No refund is lost: an order that is still open is worth what was paid less
\* every refund that reached it, and more than nothing; it is cancelled only when
\* they cover what was paid, which with a small one means that it was taken more
\* than once.  The order is written back whole, so an update that was computed
\* before another one would undo it.
RefundsAddUp ==
    \A o \in Order :
        /\ ship[o].state = "open" =>
               ship[o].paid = Amount[o] - Total(o) /\ ship[o].paid > 0
        /\ ship[o].state = "cancelled" => Total(o) >= Amount[o]

\* An event is taken from an order at most once for each delivery, also when
\* requests outlive their handler, fail or lose their answer.
OncePerDelivery == \A o \in Order, e \in Event : taken[o][e] <= delivered[e]

\* When a delivery found a processed row that the script saved and ended without an
\* issue, its event has reached the order of the charge, although some of the parallel
\* updates may have failed and others outlived their handler.  It cannot be said of a
\* row that the BigCommerce webhook saved: the list by "undefined" is empty, and
\* the delivery ends as if all were done.
FoundIsTaken ==
    \A e \in Event :
        ended[e] = "found" /\ OrderOf[e] \notin FromShop => taken[OrderOf[e]][e] > 0

\* An update never opens a cancelled order again, although it holds the order
\* as it was when it was listed.
StaysCancelled ==
    [][\A o \in Order : ship[o].state = "cancelled" => ship'[o].state = "cancelled"]_vars

\* What is left of an order, and the orders that the two numbers of an event list.
Worth(o) ==
    CASE ship[o].state = "absent" -> NoAmount
      [] ship[o].state = "open" -> ship[o].paid
      [] ship[o].state = "cancelled" -> 0
Reach == [e \in Event |-> Under[RowNumber(OrderOf[e])] \cup Under[Invoice[e]]]

LedgerOf == INSTANCE Ledger WITH
    Account <- Order, Refund <- Event, Deposit <- Amount, Charge <- Settle,
    worth <- [o \in Order |-> Worth(o)], asked <- delivered

\* The list, the new amount and the write that the limiter sends later are one step
\* of Ledger: each refund is taken from what is left when it arrives.  An order of
\* another charge pays only if its number begins with one of those that were listed.
ImplementsLedger == LedgerOf!Spec

\* A refund that lists the order of its charge is taken from it, becomes an
\* issue, or is answered 500 and so delivered again: no handler waits for ever.
ListedIsSettled ==
    \A e \in Event :
        (/\ At("list") /\ handler.event = e
         /\ OrderOf[e] \in Listed(handler.number))
        ~> (taken[OrderOf[e]][e] > 0 \/ e \in issues \/ ended[e] = "error")

=============================================================================
