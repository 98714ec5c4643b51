------------------------------ MODULE Splitting ------------------------------
(***************************************************************************)
(* generateOrders of the BigCommerce webhook: the address, the products    *)
(* and the categories of each are fetched, in any order and any of them in *)
(* vain, and the products are split into orders of ShipStation: one for    *)
(* every piece of a product, one more for all extra parts together.  The   *)
(* quantity in the product objects is set to 1 on the way.                 *)
(***************************************************************************)
EXTENDS Integers, SequencesExt, FiniteSetsExt

CONSTANTS
    Product,
    List,         \* the products in the order of the answer
    Price,        \* base_price, price_tax, fixed_shipping_cost and weight of
    Tax,          \* each, or NaN where there is no number
    Shipping,
    Weight,
    MaxQuantity

NaN == -1
Number == Nat \cup {NaN}

ASSUME SplittingAssumption ==
    /\ List \in Seq(Product) /\ IsInjective(List) /\ Range(List) = Product /\ List # <<>>
    /\ \A f \in {Price, Tax, Shipping, Weight} : f \in [Product -> Number]
    /\ MaxQuantity \in Nat \ {0}

VARIABLES
    bought,     \* the quantities of the order, and its extra parts
    quantity,   \* the quantity in each product object
    pending,    \* the requests without an answer
    shipTo,
    amountPaid,
    split,      \* splitBGProducts: each entry a sequence of products
    orders,
    pc

vars == <<bought, quantity, pending, shipTo, amountPaid, split, orders, pc>>

Init ==
    /\ bought \in [quantity : [Product -> 1 .. MaxQuantity], extra : SUBSET Product]
    /\ quantity = bought.quantity
    /\ pending = {"address", "products"} /\ shipTo = "billing"
    /\ amountPaid = 0 /\ split = <<>> /\ orders = <<>> /\ pc = "fetch"

-----------------------------------------------------------------------------
(* The requests.                                                           *)

\* Promise.all rejects at once; what the others bring is not used.
RequestFails ==
    /\ pc \in {"fetch", "details"} /\ pending # {}
    /\ pc' = "failed"
    /\ UNCHANGED <<bought, quantity, pending, shipTo, amountPaid, split, orders>>

\* Both answers are there: the categories of every product are asked for.
NextRequests(answered) ==
    IF pending = {answered} THEN pending' = Product /\ pc' = "details"
    ELSE pending' = pending \ {answered} /\ UNCHANGED pc

\* 204 says that there is no address yet.
AddressAnswer ==
    /\ pc = "fetch" /\ "address" \in pending
    /\ shipTo' \in {"billing", "shipping"}
    /\ NextRequests("address")
    /\ UNCHANGED <<bought, quantity, amountPaid, split, orders>>

ProductsAnswer ==
    /\ pc = "fetch" /\ "products" \in pending
    /\ NextRequests("products")
    /\ UNCHANGED <<bought, quantity, shipTo, amountPaid, split, orders>>

-----------------------------------------------------------------------------
(* Splitting.                                                              *)

\* As many entries as there are pieces, each with the same object.
Pieces(p) == [i \in 1 .. quantity[p] |-> <<p>>]

\* Mutant of SplitProductsIntoIndividuals: extra parts are split like the rest.
SplitProductsIntoIndividualsAll ==
    FoldLeft(LAMBDA acc, p : acc \o Pieces(p), <<>>, List)

\* A product goes to the extra parts, or as many times as it was bought to the rest.
Push(to, p) ==
    IF p \in bought.extra THEN [to EXCEPT !.miscShipping = Append(@, p)]
    ELSE [to EXCEPT !.result = @ \o Pieces(p)]

SplitProductsIntoIndividuals ==
    LET pushed == FoldLeft(Push, [result |-> <<>>, miscShipping |-> <<>>], List) IN
    IF pushed.miscShipping = <<>> THEN pushed.result
    ELSE Append(pushed.result, pushed.miscShipping)

\* Mutant of SetQuantities: the quantity of extra parts is set, too.
SetQuantitiesAll == [p \in Product |-> 1]

SetQuantities == [p \in Product |-> IF p \in bought.extra THEN quantity[p] ELSE 1]

-----------------------------------------------------------------------------
(* Sums over items, each a product with the quantity of its object.        *)

\* Mutant of Times: the quantity is forgotten.
TimesOnce(x, n) == IF x = NaN THEN 0 ELSE x

\* Number.isFinite.
Times(x, n) == IF x = NaN THEN 0 ELSE x * n

Total(f, items) == FoldLeft(LAMBDA sum, item : sum + Times(f[item.product], item.quantity), 0, items)

GetOrderItems(products, quantities) ==
    [i \in DOMAIN products |-> [product |-> products[i], quantity |-> quantities[products[i]]]]

GetTaxAmount(items) == Total(Tax, items)
GetShippingAmount(items) == Total(Shipping, items)
GetWeight(items) == Total(Weight, items)

GetAmountPaidForItems(items) ==
    Total(Price, items) + Total(Shipping, items) + Total(Tax, items)

\* The last of the categories: the products are split, and the items of all of
\* them are summed up after that.
DetailsAnswer ==
    \E p \in Product :
        /\ pc = "details" /\ p \in pending
        /\ pending' = pending \ {p}
        /\ IF pending' # {}
           THEN UNCHANGED <<quantity, split, amountPaid, pc>>
           ELSE /\ split' = SplitProductsIntoIndividuals
                /\ quantity' = SetQuantities
                /\ amountPaid' = GetAmountPaidForItems(GetOrderItems(List, quantity'))
                /\ pc' = "orders"
        /\ UNCHANGED <<bought, shipTo, orders>>

\* extraCase: an extra part among the products of the order.
HasExtraPart(products) == Range(products) \cap bought.extra # {}

\* The order of an entry; "12-2/3" is [index |-> 2, total |-> 3].
GenerateOrder(i) ==
    LET items == GetOrderItems(split[i], quantity) IN
    [index |-> i, total |-> Len(split), items |-> items, shipTo |-> shipTo,
     amountPaid |-> amountPaid, tax |-> GetTaxAmount(items),
     shipping |-> GetShippingAmount(items), weight |-> GetWeight(items),
     field |-> IF HasExtraPart(split[i]) THEN "Misc Shipping" ELSE ""]

GenerateOrders ==
    /\ pc = "orders" /\ Len(orders) < Len(split)
    /\ orders' = Append(orders, GenerateOrder(Len(orders) + 1))
    /\ pc' = IF Len(orders') = Len(split) THEN "done" ELSE "orders"
    /\ UNCHANGED <<bought, quantity, pending, shipTo, amountPaid, split>>

Next == RequestFails \/ AddressAnswer \/ ProductsAnswer \/ DetailsAnswer \/ GenerateOrders

Spec == Init /\ [][Next]_vars

-----------------------------------------------------------------------------
(* Properties.                                                             *)

Sum(f) == FoldSet(LAMBDA x, sum : sum + f[x], 0, DOMAIN f)

\* What the order of BigCommerce holds of a product's number f.
Whole(f) == Sum([p \in Product |-> Times(f[p], bought.quantity[p])])

\* The pieces of a product that are in an order.
PiecesIn(items, p) ==
    Sum([k \in DOMAIN items |-> IF items[k].product = p THEN items[k].quantity ELSE 0])

\* Every piece that was bought is in one of the orders, once, although the same
\* product object stands for all pieces of it, and so tax, shipping and weight of
\* the orders add up to those of the whole: they are summed up for each order
\* before its items are cleared.
PiecesAddUp ==
    pc = "done" =>
        /\ \A p \in Product :
               Sum([i \in DOMAIN orders |-> PiecesIn(orders[i].items, p)]) = bought.quantity[p]
        /\ Sum([i \in DOMAIN orders |-> orders[i].tax]) = Whole(Tax)
        /\ Sum([i \in DOMAIN orders |-> orders[i].shipping]) = Whole(Shipping)
        /\ Sum([i \in DOMAIN orders |-> orders[i].weight]) = Whole(Weight)

\* All orders show one amount, and it is what was paid unless a product that is
\* no extra part, and not free, was bought more than once: then it is less, because
\* the amount is summed up when the quantities are set to 1.
AmountPaidIsWhole ==
    \A i \in DOMAIN orders :
        LET paid == Whole(Price) + Whole(Shipping) + Whole(Tax)
            many == {p \in Product \ bought.extra :
                       bought.quantity[p] > 1 /\ (Price[p] > 0 \/ Shipping[p] > 0 \/ Tax[p] > 0)} IN
        /\ orders[i].amountPaid = orders[1].amountPaid
        /\ many = {} => orders[i].amountPaid = paid
        /\ many # {} => orders[i].amountPaid < paid

\* Extra parts are never packed with a safe: they have one order of their own,
\* the last, and no other order is marked as theirs.
PartsTravelAlone ==
    \A i \in DOMAIN orders :
        LET extra == {item.product : item \in Range(orders[i].items)} \cap bought.extra IN
        IF orders[i].field = "Misc Shipping"
        THEN i = Len(split) /\ extra = bought.extra
                /\ {item.product : item \in Range(orders[i].items)} = extra
        ELSE extra = {} /\ Len(orders[i].items) = 1 /\ orders[i].items[1].quantity = 1

\* What WebOrders takes for granted of the parts of an order: there are some, one for
\* every piece and one more for all extra parts, and each is numbered among them.
PartsNumbered ==
    pc = "done" =>
        /\ Len(orders) = Sum([p \in Product |-> IF p \in bought.extra THEN 0 ELSE bought.quantity[p]])
                         + (IF bought.extra = {} THEN 0 ELSE 1)
        /\ orders # <<>>
        /\ \A i \in DOMAIN orders : orders[i].index = i /\ orders[i].total = Len(orders)

=============================================================================
