------------------------------- MODULE Custody -------------------------------
(***************************************************************************)
(* What the two programs promise together about a captured transaction     *)
(* that did not come from BigCommerce: once accepted it is held, in a      *)
(* table somebody looks at, until its order is recorded.  Only the         *)
(* operator's delete lets go of it, and a recorded order is never taken    *)
(* back.                                                                   *)
(***************************************************************************)
CONSTANT Txn

VARIABLE custody

States == {"absent", "held", "discarded", "shipped"}

TypeOK == custody \in [Txn -> States]

Init == custody = [t \in Txn |-> "absent"]

Set(S, state) == custody' = [t \in Txn |-> IF t \in S THEN state ELSE custody[t]]

In(states) == {t \in Txn : custody[t] \in states}

\* A webhook or a restore records t.
Accept(t) == custody[t] \in {"absent", "discarded"} /\ Set({t}, "held")

\* A run that had read some of them before they were deleted takes them back.
Reclaim(S) == S # {} /\ S \subseteq In({"discarded"}) /\ Set(S, "held")

\* The order of a group is recorded for all its members at once.
Ship(S) == S # {} /\ S \subseteq In({"held", "discarded"}) /\ Set(S, "shipped")

Discard(t) == custody[t] = "held" /\ Set({t}, "discarded")

Next ==
    \/ \E t \in Txn : Accept(t) \/ Discard(t)
    \/ \E S \in SUBSET Txn : Reclaim(S) \/ Ship(S)

Spec == Init /\ [][Next]_custody

=============================================================================
