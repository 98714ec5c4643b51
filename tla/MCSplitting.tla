----------------------------- MODULE MCSplitting -----------------------------
(***************************************************************************)
(* Three products, one of which is free, and ships without a number.       *)
(***************************************************************************)
EXTENDS Splitting

Three(a, b, c) == [p \in Product |-> CASE p = "safe" -> a [] p = "rack" -> b [] p = "battery" -> c]

MCList == <<"safe", "rack", "battery">>
MCPrice == Three(100, 0, 400)
MCTax == Three(10, 0, 40)
MCShipping == Three(1, NaN, 4)
MCWeight == Three(3, 5, 7)

=============================================================================
