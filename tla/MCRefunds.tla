------------------------------ MODULE MCRefunds ------------------------------
(***************************************************************************)
(* Two orders of which a list by the number of the first returns both (12  *)
(* is a prefix of 123); the BigCommerce webhook made the second.  Event r  *)
(* takes a part of the first order, s a part of the second, refunded at    *)
(* Authorize.net itself, v voids the first charge, b is of BigCommerce;    *)
(* the payload of r names another invoice, as that of the second charge of *)
(* an order does.                                                          *)
(***************************************************************************)
EXTENDS Refunds

MCOrder == {"o12", "o123"}
MCNumber == {"12", "123", "77", "undefined"}
MCOrderOf == [e \in Event |-> IF e = "s" THEN "o123" ELSE "o12"]
MCNumberOf == [o \in MCOrder |-> IF o = "o12" THEN "12" ELSE "123"]
MCInvoice == [e \in Event |-> CASE e = "r" -> "77" [] e = "s" -> "123" [] OTHER -> "12"]
MCUnder == [n \in MCNumber |-> CASE n = "12" -> MCOrder [] n = "123" -> {"o123"} [] OTHER -> {}]
MCAmount == [o \in MCOrder |-> IF o = "o12" THEN 5 ELSE 7]
MCSettle == [e \in Event |-> CASE e = "r" -> 2 [] e = "s" -> 3 [] e = "b" -> 1 [] OTHER -> NoAmount]

=============================================================================
