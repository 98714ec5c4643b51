----------------------------- MODULE MCLifecycle -----------------------------
(***************************************************************************)
(* Instances of Lifecycle: a lock and its accessory that are ordered       *)
(* together when they are in one batch, a transaction of a product nobody  *)
(* knows, one without a description, one that was declined, and one of     *)
(* BigCommerce.                                                            *)
(***************************************************************************)
EXTENDS Lifecycle, TLC

CONSTANTS lock, part, unknown, bare, bigc, declined

PairUp(pairs) == [B \in SUBSET Txn |->
    LET found == {p \in pairs : p \subseteq B}
    IN found \cup {{t} : t \in B \ UNION found}]

PairSet == {{lock, part}}
Combined == PairUp(PairSet)
Unmatched == {{unknown}} \cap SUBSET Txn

\* No request is told from another.
RequestSymmetry == Permutations(Request)

=============================================================================
