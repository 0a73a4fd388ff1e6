--------------------------- MODULE MCTransactions ---------------------------
(* Small instances of Transactions for TLC.                                *)
EXTENDS Transactions, TLC

MCNothingSeeded == [k \in Rows |-> NoRow]

Symmetry == Permutations(Users) \cup Permutations(Registrations) \cup Permutations(Rows)
            \cup Permutations(Tokens) \cup Permutations(Requests)
=============================================================================
