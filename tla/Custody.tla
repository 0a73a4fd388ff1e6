------------------------------ MODULE Custody ------------------------------
(***************************************************************************)
(* What the Transaction service promises of an object it lends: the object *)
(* is with its owner, or it is out on exactly one loan; a loan goes out    *)
(* once and comes back once.                                               *)
(***************************************************************************)
CONSTANTS Things, Loans, NoLoan

VARIABLES
    holder,  \* the loan each thing is out on, NoLoan when its owner has it
    closed   \* the loans that have come back

Init ==
    /\ holder = [x \in Things |-> NoLoan]
    /\ closed = {}

TakeOut(x, l) ==
    /\ holder[x] = NoLoan
    /\ l \notin closed
    /\ \A y \in Things : holder[y] # l
    /\ holder' = [holder EXCEPT ![x] = l]
    /\ UNCHANGED closed

GiveBack(x) ==
    /\ holder[x] # NoLoan
    /\ closed' = closed \cup {holder[x]}
    /\ holder' = [holder EXCEPT ![x] = NoLoan]

Next == \E x \in Things : GiveBack(x) \/ \E l \in Loans : TakeOut(x, l)

Spec == Init /\ [][Next]_<<holder, closed>>
=============================================================================
