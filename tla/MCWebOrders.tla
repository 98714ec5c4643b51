---------------------------- MODULE MCWebOrders ----------------------------
(***************************************************************************)
(* Instances of WebOrders: order numbers of one length, so that none is    *)
(* the beginning of another.                                               *)
(***************************************************************************)
EXTENDS WebOrders

OwnOrders == [o \in Order |-> {o}]

=============================================================================
