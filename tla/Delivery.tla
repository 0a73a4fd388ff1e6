------------------------------ MODULE Delivery ------------------------------
(***************************************************************************)
(* What the queue of a subscribing service promises, whatever exceptions   *)
(* and restarts its consumer goes through: messages are processed in the   *)
(* order they came in, possibly more than once, and one is discarded only  *)
(* when it is the one that was processed last, to the end.                 *)
(***************************************************************************)
EXTENDS Sequences

CONSTANTS
    Messages,
    None        \* no message

VARIABLES
    waiting,    \* messages accepted and not discarded, in order
    processed   \* the message whose processing is over, if any

Init == waiting = <<>> /\ processed = None

Accept(m) ==
    /\ waiting' = Append(waiting, m)
    /\ UNCHANGED processed

\* The processing of the first message ends.
Process ==
    /\ waiting # <<>>
    /\ processed' = Head(waiting)
    /\ UNCHANGED waiting

\* The consumer stops before it can say so, and will get the message again.
Redeliver ==
    /\ processed' = None
    /\ UNCHANGED waiting

Discard ==
    /\ waiting # <<>>
    /\ processed = Head(waiting)
    /\ waiting' = Tail(waiting)
    /\ processed' = None

Next == (\E m \in Messages : Accept(m)) \/ Process \/ Redeliver \/ Discard

Spec == Init /\ [][Next]_<<waiting, processed>>
=============================================================================
