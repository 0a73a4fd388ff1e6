-------------------------- MODULE MCStreetOfThings --------------------------
(* Small instances of StreetOfThings for TLC: u1 owns the object o1.       *)
EXTENDS StreetOfThings, TLC

CONSTANTS u1, o1

MCCatalogOwner == [o \in Objects |-> u1]
MCNothingSeeded == [k \in Rows |-> NoRow]
Symmetry == Permutations(Registrations) \cup Permutations(Tokens) \cup Permutations(Requests)
=============================================================================
