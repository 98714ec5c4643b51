------------------------------- MODULE Parcels -------------------------------
(***************************************************************************)
(* What the BigCommerce webhook promises for the orders of ShipStation,    *)
(* however its handlers, the requests they leave behind and the shop       *)
(* follow one another.  Each change is made at once, to the parcel as it   *)
(* is then, and touches one thing: a cancellation, the shipment of a       *)
(* parcel that waits for it, or the refund, which is one that was made.    *)
(* A parcel is made again only after a failure and never for an order that *)
(* is recorded, which has one for every part.                              *)
(***************************************************************************)
EXTENDS Naturals, Sequences, FiniteSets

CONSTANTS
    Order, Part,
    Once,       \* the orders that are recorded when their parcels are made
    Lists       \* Lists[o]: the orders whose parcels are changed with those of o

VARIABLES parcels, recorded, refunds, failures

state == <<parcels, recorded, refunds>>

Init ==
    /\ parcels = <<>> /\ recorded = {}
    /\ refunds = [o \in Order |-> 0] /\ failures = [o \in Order |-> 0]

Copies(o, p) == {i \in DOMAIN parcels : parcels[i].order = o /\ parcels[i].part = p}

Make(o, p) ==
    /\ o \notin recorded
    /\ o \in Once => Cardinality(Copies(o, p)) <= failures[o]
    /\ parcels' = Append(parcels, [order |-> o, part |-> p, state |-> "awaiting", refund |-> 0])
    /\ UNCHANGED <<recorded, refunds>>

Record(o) ==
    /\ o \in Once /\ \A p \in Part : Copies(o, p) # {}
    /\ recorded' = recorded \cup {o}
    /\ UNCHANGED <<parcels, refunds>>

Refund(o) ==
    /\ refunds' = [refunds EXCEPT ![o] = @ + 1]
    /\ UNCHANGED <<parcels, recorded>>

Cancel(i) ==
    /\ parcels' = [parcels EXCEPT ![i].state = "cancelled"]
    /\ UNCHANGED <<recorded, refunds>>

Ship(i) ==
    /\ parcels[i].state = "awaiting"
    /\ parcels' = [parcels EXCEPT ![i].state = "shipped"]
    /\ UNCHANGED <<recorded, refunds>>

TakeOff(i, o, amount) ==
    /\ parcels[i].order \in Lists[o] /\ amount <= refunds[o]
    /\ parcels' = [parcels EXCEPT ![i].refund = amount]
    /\ UNCHANGED <<recorded, refunds>>

Step ==
    \/ \E o \in Order, p \in Part : Make(o, p)
    \/ \E o \in Order : Record(o) \/ Refund(o)
    \/ \E i \in DOMAIN parcels :
          \/ Cancel(i) \/ Ship(i)
          \/ \E o \in Order : \E amount \in 0 .. refunds[o] : TakeOff(i, o, amount)

Fail(o) == failures' = [failures EXCEPT ![o] = @ + 1]

\* A failure may come alone, or with a step whose answer is lost.
Next ==
    /\ Step \/ UNCHANGED state
    /\ (\E o \in Order : Fail(o)) \/ UNCHANGED failures

Spec == Init /\ [][Next]_<<state, failures>>

=============================================================================
