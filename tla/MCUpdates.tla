------------------------------- MODULE MCUpdates -------------------------------
(* Instances of Updates for TLC. *)
EXTENDS Updates

CONSTANTS A1, A2, B, KeyA, KeyB, HashA, HashA2, HashB

\* A1 and A2 are two links to one node, which differ in transport options.
KeyOf  == [r \in {A1, A2, B} |-> IF r = B THEN KeyB ELSE KeyA]
HashOf == [r \in {A1, A2, B} |-> CASE r = A1 -> HashA [] r = A2 -> HashA2 [] r = B -> HashB]

\* The administrator's outbound has a tag that a node of hash HashB would get.
TakenTag == <<HashB, 1>>

Downloads == {<<A1, A1>>, <<B, A2>>}
===============================================================================
