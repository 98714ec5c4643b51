------------------------------ MODULE Grouping -------------------------------
(***************************************************************************)
(* What the combining of transactions promises to the rest of a run: every *)
(* transaction is in exactly one group, a group is one transaction or a    *)
(* main one with an add-on that goes with it, and what was merged once is  *)
(* not touched again.                                                      *)
(***************************************************************************)
CONSTANT Txn

VARIABLES
    groups,   \* the groups so far
    goes      \* the add-ons that go with each transaction: never changes

Singles == {{t} : t \in Txn}

Init == groups = Singles /\ goes \in [Txn -> SUBSET Txn]

Merge(t, u) ==
    /\ {t} \in groups /\ {u} \in groups /\ t # u
    /\ u \in goes[t]
    /\ groups' = (groups \ {{t}, {u}}) \cup {{t, u}}
    /\ UNCHANGED goes

Next == \E t, u \in Txn : Merge(t, u)

Spec == Init /\ [][Next]_<<groups, goes>>

\* Every transaction is in one group and in no other: the assumption of CronRun.
Partition ==
    /\ UNION groups = Txn
    /\ \A g, h \in groups : g = h \/ g \cap h = {}

=============================================================================
