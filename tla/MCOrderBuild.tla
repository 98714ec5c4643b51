---------------------------- MODULE MCOrderBuild -----------------------------
(***************************************************************************)
(* A pair, a single transaction and a second pair, with prices of which no *)
(* two sums are equal; over the products of the initial data alone and     *)
(* with rows for what the pre-processors write.                            *)
(***************************************************************************)
EXTENDS OrderBuild

MCGroups == <<<<1, 3>>, <<2>>, <<4, 5>>>>
MCPrice == [t \in 1 .. 5 |-> 2 ^ t]

\* The rows of the initial data that some description here holds.  Those of the add-ons
\* have no measures.
Initial == {"TT Patriot", "Patriot 35S", "COmpact RFID", "COmpact elite", "TT Saver"}

MCTables == {Initial, Initial \cup {PreProcessors[k].case : k \in 1 .. 6}}

=============================================================================
