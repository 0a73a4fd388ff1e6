----------------------------- MODULE MCEventBus -----------------------------
(* Small instances of EventBus for TLC: three events of two kinds.         *)
EXTENDS EventBus

MCSubscriptions == <<"NewRegistration", "Received">>
New1      == [kind |-> "NewRegistration", registration |-> 1]
Received1 == [kind |-> "Received", registration |-> 1]
New2      == [kind |-> "NewRegistration", registration |-> 2]
MCEvents  == {New1, Received1, New2}
OneEvent  == {New1}
=============================================================================
