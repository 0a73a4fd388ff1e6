-------------------------- MODULE MCCatalogObjects --------------------------
(* Small instances of CatalogObjects for TLC: l1 and l2 are logins of u1,  *)
(* the others are logins of u2.                                            *)
EXTENDS CatalogObjects, TLC

CONSTANTS u1, u2, l1, l2

MCLoginUser == [l \in Logins |-> IF l \in {l1, l2} THEN u1 ELSE u2]
Symmetry == Permutations(Entries) \cup Permutations(Tags) \cup Permutations(Requests)
=============================================================================
