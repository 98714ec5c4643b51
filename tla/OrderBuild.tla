------------------------------ MODULE OrderBuild -----------------------------
(***************************************************************************)
(* CommonProcessor.process after the combining: the settled groups are     *)
(* kept, the pre-processors make one transaction of a pair (they change    *)
(* the transaction object in place), and each result becomes an order of   *)
(* ShipStation or, when no product is found, an issue of its whole group.  *)
(*                                                                         *)
(* A description counts by the texts it holds: that of a product (or of    *)
(* the case a pre-processor writes for it) and that of the add-on which    *)
(* generateCombinedDescription puts beside it.                             *)
(***************************************************************************)
EXTENDS Integers, Sequences, FiniteSetsExt, SequencesExt

CONSTANTS
    Groups,   \* the combined batch: a sequence of tuples of transactions
    Price,    \* settleAmount of each transaction, before any of this
    Tables    \* ProductEntity: sets of the names of the rows that have measures

Txn == UNION {Range(Groups[i]) : i \in DOMAIN Groups}

ASSUME OrderBuildAssumption ==
    /\ Groups \in Seq(Seq(Txn))
    /\ \A i \in DOMAIN Groups : Len(Groups[i]) \in {1, 2} /\ IsInjective(Groups[i])
    /\ \A i, j \in DOMAIN Groups : i # j => Range(Groups[i]) \cap Range(Groups[j]) = {}
    /\ Price \in [Txn -> Nat]

VARIABLES
    bought,    \* the descriptions as they were fetched
    settled,   \* the transactions that are settled successfully
    table,     \* the products, as init read them
    heap,      \* the transaction objects: description and settleAmount
    approved,  \* approvedTransactions
    pre,       \* preProcessedTransactions, so far
    next,      \* the next of them to become an order
    orders, issued,
    pc

vars == <<bought, settled, table, heap, approved, pre, next, orders, issued, pc>>

-----------------------------------------------------------------------------
(* Descriptions and products.                                              *)

\* The locks that a pre-processor knows, by what follows "TT Patriot 35S" in their
\* name: "elite" is "TT Patriot 35S Compact (RFID) (elite)".  The initial data has a
\* row for the first of them, and one for an elite lock that is spelt "COmpact" as well:
\* no pre-processor knows that one, and the one for "COmpact RFID" takes it.
Lock == {"COmpact RFID", "Compact RFID", "elite", "elite fingerprint"}
Addon == {"Compact Upgrade", "Hardwood"}
Shop == Lock \cup Addon \cup {"COmpact elite", "TT Patriot", "Patriot 35S", "TT Saver"}

\* The pre-processors: whether it takes pairs, the lock it looks for, and what it
\* writes in its place.
StandartRFIDLock == [pair |-> TRUE, lock |-> "COmpact RFID", case |-> "UP Pistol RFID"]
StandartRFIDLockV2 == [pair |-> TRUE, lock |-> "Compact RFID", case |-> "UP Pistol RFID"]
BluetoothLock == [pair |-> TRUE, lock |-> "elite", case |-> "UP Pistol BT"]
BiometricFingerprintLock ==
    [pair |-> TRUE, lock |-> "elite fingerprint", case |-> "UP Pistol BIO"]
BluetoothSoloLock == [pair |-> FALSE, lock |-> "elite", case |-> "35s Compact (BT)"]
BiometricFingerprintSoloLock ==
    [pair |-> FALSE, lock |-> "elite fingerprint", case |-> "35s Compact (BIO)"]
GeneralCombinedPreProcessor == [pair |-> TRUE, lock |-> "-", case |-> "-"]

PreProcessors ==
    <<StandartRFIDLock, StandartRFIDLockV2, BluetoothLock, BiometricFingerprintLock,
      BluetoothSoloLock, BiometricFingerprintSoloLock, GeneralCombinedPreProcessor>>

Text == Shop \cup {PreProcessors[k].case : k \in 1 .. 6}

ASSUME TablesAssumption == Tables \subseteq SUBSET Text

\* The lengths of the texts.
Length ==
    [x \in Text |-> CASE x \in {"COmpact RFID", "Compact RFID"} -> 29
                      [] x \in {"elite", "COmpact elite"} -> 37
                      [] x = "elite fingerprint" -> 49
                      [] x = "35s Compact (BT)" -> 27
                      [] x = "35s Compact (BIO)" -> 28
                      [] x = "UP Pistol BT" -> 12
                      [] x = "UP Pistol BIO" -> 13
                      [] x = "UP Pistol RFID" -> 14
                      [] x = "Compact Upgrade" -> 15
                      [] x = "Patriot 35S" -> 11
                      [] x = "TT Patriot" -> 10
                      [] OTHER -> 8]

\* The longer names of the lock hold the one of the lock itself, and all of them hold
\* those of other products.  The cases of the solo locks are spelt "35s".
Holds(text, x) ==
    \/ text = x
    \/ x = "Compact RFID" /\ text \in {"elite", "elite fingerprint"}
    \/ x = "COmpact RFID" /\ text = "COmpact elite"
    \/ x = "Patriot 35S" /\ text \in Lock \cup {"COmpact elite"}
    \/ /\ x = "TT Patriot"
       /\ text \in Lock \cup {"COmpact elite", "35s Compact (BT)", "35s Compact (BIO)"}

\* description.includes(x).
Includes(d, x) == Holds(d.text, x) \/ (d.addon # "-" /\ Holds(d.addon, x))

\* Of the add-ons, "COmpact" is also in the names of two locks.
IncludesAddon(d) == \E x \in Addon \cup {"COmpact RFID"} : Includes(d, x)

\* The text of the add-on goes beside the one of the main transaction.
GenerateCombinedDescription(main, upgrade) == [main EXCEPT !.addon = upgrade.text]

\* The keys of the products that can be the match: all rows with measures whose name
\* the description holds.
Matching(d) == {x \in table : Includes(d, x)}

NoProduct == "-"

\* matchProductForDescription: the longest of them.
MatchProduct(d) ==
    IF Matching(d) = {} THEN NoProduct
    ELSE CHOOSE x \in Matching(d) : \A y \in Matching(d) : Length[y] <= Length[x]

-----------------------------------------------------------------------------

Index == DOMAIN Groups
Members(entry) == Range(entry)

\* The second of a pair is an add-on, the first may be anything; the price of
\* a transaction tells it from all others in every sum.
Init ==
    /\ settled \in SUBSET Txn /\ table \in Tables
    /\ bought \in [Txn -> Shop]
    /\ \A i \in Index : Len(Groups[i]) = 2 => bought[Groups[i][2]] \in Addon
    /\ heap = [t \in Txn |-> [description |-> [text |-> bought[t], addon |-> "-"],
                              amount |-> Price[t]]]
    /\ approved = <<>> /\ pre = <<>> /\ next = 1
    /\ orders = <<>> /\ issued = {} /\ pc = "filter"

\* isApprovedTransaction.
IsApproved(entry) == Members(entry) \subseteq settled

Filter ==
    /\ pc = "filter" /\ pc' = "pre"
    /\ approved' = FoldLeft(LAMBDA kept, entry :
                              IF IsApproved(entry) THEN Append(kept, entry) ELSE kept,
                            <<>>, Groups)
    /\ UNCHANGED <<bought, settled, table, heap, pre, next, orders, issued>>

-----------------------------------------------------------------------------
(* runPreProcessors.                                                       *)

\* canWork: a transaction of the entry holds the lock; the general one takes
\* every pair.
CanWork(p, entry) ==
    /\ p.pair = (Len(entry) = 2)
    /\ \/ p = GeneralCombinedPreProcessor
       \/ \E t \in Members(entry) : Includes(heap[t].description, p.lock)

\* Mutant of Points: each pre-processor is worth the same.
PointsEqual(p) == 1

Points(p) == IF p = GeneralCombinedPreProcessor THEN 1 ELSE Length[p.lock]

\* The first of those with the most points.
Chosen(entry) ==
    LET able == {k \in DOMAIN PreProcessors : CanWork(PreProcessors[k], entry)}
        Beats(k, j) == \/ Points(PreProcessors[k]) > Points(PreProcessors[j])
                       \/ Points(PreProcessors[k]) = Points(PreProcessors[j]) /\ k <= j IN
    IF able = {} THEN <<>>
    ELSE <<PreProcessors[CHOOSE k \in able : \A j \in able : Beats(k, j)]>>

\* Mutant of Absorb: the amount of the add-on is not added.
AbsorbKeepsAmount(main, other, d) == [heap EXCEPT ![main] = [@ EXCEPT !.description = d]]

\* The main transaction takes over the amounts of the other one.
Absorb(main, other, d) ==
    [heap EXCEPT ![main] = [description |-> d, amount |-> @.amount + heap[other].amount]]

Other(entry, t) == IF entry[1] = t THEN entry[2] ELSE entry[1]
First(entry, P(_)) == entry[CHOOSE i \in DOMAIN entry : P(entry[i]) /\ \A j \in 1 .. i - 1 : ~P(entry[j])]

\* runPreProcessors for the next approved group: its result.
Preprocess(result) ==
    /\ pc = "pre" /\ Len(pre) < Len(approved)
    /\ pre' = Append(pre, result)
    /\ UNCHANGED <<bought, settled, table, approved, next, orders, issued, pc>>

\* The group whose turn it is, and the pre-processor that is chosen for it.
Entry == approved[Len(pre) + 1]
IsLeft == Len(pre) < Len(approved)

\* process of the four pre-processors that know the lock of a pair.
CombinedLock ==
    /\ IsLeft
    /\ \E p \in Range(Chosen(Entry)) :
         /\ p.pair /\ p # GeneralCombinedPreProcessor
         /\ LET HasLock(t) == Includes(heap[t].description, p.lock)
                main == First(Entry, HasLock) IN
            /\ Preprocess(<<main>>)
            /\ heap' = Absorb(main, Other(Entry, main),
                              [heap[main].description EXCEPT !.text = p.case])

\* process of the two for one transaction.
SoloLock ==
    /\ IsLeft
    /\ \E p \in Range(Chosen(Entry)) :
         /\ ~p.pair
         /\ Preprocess(Entry)
         /\ heap' = [heap EXCEPT ![Entry[1]].description.text = p.case]

\* GeneralCombinedPreProcessor.process.
Combined ==
    /\ IsLeft /\ Chosen(Entry) = <<GeneralCombinedPreProcessor>>
    /\ LET IsUpgrade(t) == IncludesAddon(heap[t].description)
           upgrade == First(Entry, IsUpgrade)
           main == Other(Entry, upgrade) IN
       /\ Preprocess(<<main>>)
       /\ heap' = Absorb(main, upgrade, GenerateCombinedDescription(heap[main].description,
                                                                   heap[upgrade].description))

\* No pre-processor accepts it.
Untouched ==
    /\ IsLeft /\ Chosen(Entry) = <<>>
    /\ Preprocess(Entry)
    /\ UNCHANGED heap

PreProcessed ==
    /\ pc = "pre" /\ Len(pre) = Len(approved)
    /\ pc' = "transform"
    /\ UNCHANGED <<bought, settled, table, heap, approved, pre, next, orders, issued>>

-----------------------------------------------------------------------------
(* The orders.                                                             *)

\* Mutant of Original: the transaction itself stands for its group.
OriginalSingle(result) == {result[1]}

\* originalApproved: the approved group that the result is, or is part of.
Original(result) ==
    Members(First(approved, LAMBDA entry : result[1] \in Members(entry)))

\* getOrderItems and getAmountPaidForItems: an item for each transaction.
TransformedAmount(result) == FoldSet(LAMBDA t, sum : sum + heap[t].amount, 0, Members(result))

\* transformData: getProductWithUnits looks again for the product, by the name of
\* the item, which holds the same texts.
Transformed(result) ==
    [group |-> Original(result), number |-> result[1],
     name |-> heap[result[1]].description.text,
     product |-> MatchProduct(heap[result[1]].description),
     amount |-> TransformedAmount(result)]

\* The next order, or the issues of its group.
Transform ==
    /\ pc = "transform" /\ next <= Len(pre)
    /\ LET order == Transformed(pre[next]) IN
       IF order.product # NoProduct
       THEN orders' = Append(orders, order) /\ UNCHANGED issued
       ELSE issued' = issued \cup order.group /\ UNCHANGED orders
    /\ next' = next + 1
    /\ UNCHANGED <<bought, settled, table, heap, approved, pre, pc>>

Done ==
    /\ pc = "transform" /\ next > Len(pre)
    /\ pc' = "done"
    /\ UNCHANGED <<bought, settled, table, heap, approved, pre, next, orders, issued>>

Next == Filter \/ CombinedLock \/ SoloLock \/ Combined \/ Untouched \/ PreProcessed \/ Transform \/ Done

Spec == Init /\ [][Next]_vars

-----------------------------------------------------------------------------
(* Properties.                                                             *)

\* Skipped: what the next processor, had there been one, would get.
Skipped == Txn \ (issued \cup UNION {Members(g) : g \in Range(approved)})

\* The amount of an order is what its transactions were settled for: the
\* pre-processors change the amount of the main one in place, and whichever of
\* them is chosen, the amount of the add-on goes into the order once.
AmountIsSum ==
    \A o \in Range(orders) :
        o.amount = FoldSet(LAMBDA t, sum : sum + Price[t], 0, o.group)

\* In the end each settled group is one order or one issue, whole, although the
\* loop only sees the transaction that stands for it; no other group is.
EachGroupOnce ==
    pc = "done" =>
        \A i \in Index :
            LET g == Members(Groups[i])
                made == {k \in DOMAIN orders : orders[k].group = g} IN
            /\ g \subseteq settled => (Cardinality(made) = 1) # (g \subseteq issued)
            /\ ~(g \subseteq settled) => made = {} /\ g \subseteq Skipped

\* The kind of lock that a name tells, if it tells any.
Model(x) ==
    CASE x \in {"COmpact RFID", "Compact RFID", "UP Pistol RFID"} -> "RFID"
      [] x \in {"elite", "COmpact elite", "UP Pistol BT", "35s Compact (BT)"} -> "BT"
      [] x \in {"elite fingerprint", "UP Pistol BIO", "35s Compact (BIO)"} -> "BIO"
      [] OTHER -> "-"

\* A lock is sold as what it is: its names hold one another, yet the fingerprint and
\* the Bluetooth model never become the RFID one, in a pair or alone.  The item is named
\* after its own case, and whatever the table of products holds, the sku and the measures
\* are never those of a row for another model.
SoldIsBought ==
    \A o \in Range(orders) :
        bought[o.number] \in Lock =>
            /\ Model(o.name) = Model(bought[o.number])
            /\ Model(o.product) \in {Model(bought[o.number]), "-"}

=============================================================================
