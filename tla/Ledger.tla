------------------------------- MODULE Ledger --------------------------------
(***************************************************************************)
(* What the refund webhook promises for the money of the orders.  A refund *)
(* is taken off at once from what is left of an order then, at most once   *)
(* each time the payment service asks for it, and only from the orders     *)
(* that it reaches.  What is used up stays so: nothing is ever put back.   *)
(***************************************************************************)
EXTENDS Integers

CONSTANTS
    Account, Refund,
    Deposit,    \* what is in an account at first
    Charge,     \* what a refund takes, NoAmount for all that is left
    NoAmount,
    Reach       \* the accounts that a refund may be taken from

VARIABLES
    worth,      \* what is left in an account, NoAmount before it is opened
    asked,      \* how often a refund was asked for
    taken       \* how often it was taken from an account

ledger == <<worth, asked, taken>>

Init ==
    /\ worth = [a \in Account |-> NoAmount]
    /\ asked = [r \in Refund |-> 0]
    /\ taken = [a \in Account |-> [r \in Refund |-> 0]]

OpenAccount(a) ==
    /\ worth[a] = NoAmount
    /\ worth' = [worth EXCEPT ![a] = Deposit[a]]
    /\ UNCHANGED <<asked, taken>>

Ask(r) ==
    /\ asked' = [asked EXCEPT ![r] = @ + 1]
    /\ UNCHANGED <<worth, taken>>

Less(left, charge) == IF charge = NoAmount \/ left <= charge THEN 0 ELSE left - charge

Take(a, r) ==
    /\ worth[a] # NoAmount /\ a \in Reach[r] /\ taken[a][r] < asked[r]
    /\ worth' = [worth EXCEPT ![a] = Less(@, Charge[r])]
    /\ taken' = [taken EXCEPT ![a][r] = @ + 1]
    /\ UNCHANGED asked

Next ==
    \/ \E a \in Account : OpenAccount(a)
    \/ \E r \in Refund : Ask(r)
    \/ \E a \in Account, r \in Refund : Take(a, r)

Spec == Init /\ [][Next]_ledger

=============================================================================
