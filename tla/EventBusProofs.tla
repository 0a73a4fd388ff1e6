--------------------------- MODULE EventBusProofs ---------------------------
(***************************************************************************)
(* Theorems about EventBus, for all events, subscriptions and numbers of   *)
(* exceptions and restarts.                                                *)
(***************************************************************************)
EXTENDS EventBus, SequenceTheorems, TLAPS

\* What is to be acknowledged is a message that is being processed.
HandledIsHandling == handled => handling # NoEvent

IInv ==
    /\ TypeOK
    /\ AcksWhatItHandled
    /\ HandledIsHandling

LEMMA InitIInv ==
    ASSUME Init
    PROVE  IInv
<1>1. Len(Subscriptions) \in Nat /\ MaxThrows \in Nat /\ MaxRestarts \in Nat /\ Deployed \in BOOLEAN
    BY EventBusAssumption
<1>2. subscribed \in 0..Len(Subscriptions)
    BY <1>1 DEF Init
<1>3. consuming \in BOOLEAN /\ bound \subseteq Kinds
    BY <1>1 DEF Init
<1>4. queue \in Seq(Events) /\ sent \subseteq Events
    BY DEF Init
<1>5. throws \in 0..MaxThrows /\ restarts \in 0..MaxRestarts
    BY <1>1 DEF Init
<1>6. handled = FALSE /\ handling = NoEvent
    BY DEF Init
<1> QED
    BY <1>2, <1>3, <1>4, <1>5, <1>6 DEF IInv, TypeOK, AcksWhatItHandled, HandledIsHandling

\* A message that is added to a queue does not change its head.
LEMMA HeadStays ==
    ASSUME queue \in Seq(Events), NEW e \in Events
    PROVE  /\ Append(queue, e) \in Seq(Events) /\ Append(queue, e) # <<>>
           /\ queue # <<>> => Head(Append(queue, e)) = Head(queue)
OBVIOUS

LEMMA NextIInv ==
    ASSUME IInv, [Next]_vars
    PROVE  IInv'
<1> USE DEF IInv
<1>0. /\ NoEvent \notin Events /\ Len(Subscriptions) \in Nat
      /\ MaxThrows \in Nat /\ MaxRestarts \in Nat
      /\ \A i \in 1..Len(Subscriptions) : Subscriptions[i] \in Kinds
    BY EventBusAssumption DEF Kinds
<1>1. CASE UNCHANGED vars
    BY <1>1 DEF vars, broker, consumer, TypeOK, AcksWhatItHandled, HandledIsHandling
<1>2. ASSUME NEW e \in Events, Publish(e) PROVE IInv'
  <2>1. queue' \in Seq(Events)
      BY <1>2, HeadStays DEF Publish, TypeOK
  <2>2. AcksWhatItHandled'
      BY <1>2, HeadStays DEF Publish, TypeOK, AcksWhatItHandled, consumer
  <2> QED
      BY <1>2, <2>1, <2>2 DEF Publish, TypeOK, HandledIsHandling, consumer
<1>3. CASE QueueBind
  <2>1. bound' \subseteq Kinds
      BY <1>0, <1>3 DEF QueueBind, TypeOK
  <2> QED
      BY <1>3, <2>1 DEF QueueBind, TypeOK, AcksWhatItHandled, HandledIsHandling, consumer
<1>4. CASE AddSubscription
  <2>1. subscribed' \in 0..Len(Subscriptions)
      BY <1>0, <1>4 DEF AddSubscription, TypeOK
  <2> QED
      BY <1>4, <2>1 DEF AddSubscription, TypeOK, AcksWhatItHandled, HandledIsHandling, broker
<1>5. CASE Deliver
  <2>1. Head(queue) \in Events
      BY <1>5, HeadTailProperties DEF Deliver, TypeOK
  <2> QED
      BY <1>5, <2>1 DEF Deliver, TypeOK, AcksWhatItHandled, HandledIsHandling, broker
<1>6. ASSUME NEW e \in Events, HandleEvent(e) \/ NoSubscription(e) PROVE IInv'
    BY <1>0, <1>6 DEF HandleEvent, NoSubscription, Processing, TypeOK, AcksWhatItHandled,
                      HandledIsHandling, broker
<1>7. CASE BasicAck
  <2>1. queue # <<>>
      BY <1>7 DEF BasicAck, AcksWhatItHandled, HandledIsHandling
  <2>2. queue' \in Seq(Events)
      BY <1>7, <2>1, HeadTailProperties DEF BasicAck, TypeOK
  <2> QED
      BY <1>7, <2>2 DEF BasicAck, TypeOK, AcksWhatItHandled, HandledIsHandling
<1>8. CASE CallbackException
  <2>1. throws' \in 0..MaxThrows
      BY <1>0, <1>8 DEF CallbackException, TypeOK
  <2>2. handling' = NoEvent /\ handled = FALSE
      BY <1>8 DEF CallbackException, RecreateChannel, TypeOK
  <2> QED
      BY <1>8, <2>1, <2>2 DEF CallbackException, RecreateChannel, TypeOK, AcksWhatItHandled,
                              HandledIsHandling, broker
<1>9. CASE Restart
  <2>1. restarts' \in 0..MaxRestarts /\ subscribed' \in 0..Len(Subscriptions)
      BY <1>0, <1>9 DEF Restart, TypeOK
  <2> QED
      BY <1>9, <2>1 DEF Restart, TypeOK, AcksWhatItHandled, HandledIsHandling, broker
<1> QED
    BY <1>1, <1>2, <1>3, <1>4, <1>5, <1>6, <1>7, <1>8, <1>9 DEF Next, Consume, Dispatch

\* Whatever is published, thrown and restarted, the invariant holds.
THEOREM Invariance == Spec => []IInv
<1>1. Spec => Init /\ [][Next]_vars
    BY DEF Spec
<1> QED
    BY <1>1, InitIInv, NextIInv, PTL

\* What BasicAck takes off the queue is the message whose processing is over: no
\* exception and no restart makes the consumer drop a message that it has not handled.
THEOREM AcksOnlyHandled == Spec => []AcksWhatItHandled
<1>1. IInv => AcksWhatItHandled
    BY DEF IInv
<1> QED
    BY <1>1, Invariance, PTL

-----------------------------------------------------------------------------
\* The message whose processing is over, as Delivery has it.
Processed == IF handled THEN handling ELSE NoEvent

\* Every step of the bus is one of Delivery, or changes nothing that Delivery speaks of.
LEMMA DeliverySteps ==
    ASSUME IInv, [Next]_vars
    PROVE  [D!Next]_<<queue, Processed>>
<1>0. handled \in BOOLEAN /\ AcksWhatItHandled /\ HandledIsHandling /\ NoEvent \notin Events
    BY EventBusAssumption DEF IInv, TypeOK
<1>1. CASE UNCHANGED vars
    BY <1>1 DEF vars, broker, consumer, Processed
<1>2. ASSUME NEW e \in Events, Publish(e) PROVE [D!Next]_<<queue, Processed>>
  <2>1. UNCHANGED Processed
      BY <1>2 DEF Publish, consumer, Processed
  <2>2. D!Accept(e) \/ UNCHANGED queue
      BY <1>2, <2>1 DEF Publish, D!Accept, Processed
  <2> QED
      BY <2>1, <2>2 DEF D!Next
<1>3. CASE QueueBind \/ AddSubscription \/ Deliver \/ CallbackException
    BY <1>0, <1>3 DEF QueueBind, AddSubscription, Deliver, CallbackException, RecreateChannel,
                      HandledIsHandling, broker, consumer, Processed
<1>4. ASSUME NEW e \in Events, HandleEvent(e) \/ NoSubscription(e) PROVE D!Next
  <2>1. queue # <<>> /\ handling' = Head(queue) /\ handled' /\ UNCHANGED queue
      BY <1>0, <1>4 DEF HandleEvent, NoSubscription, Processing, AcksWhatItHandled, broker
  <2>2. D!Process
      BY <2>1 DEF D!Process
  <2> QED
      BY <2>2 DEF D!Next
<1>5. CASE BasicAck
  <2>1. queue # <<>> /\ handling = Head(queue) /\ queue' = Tail(queue) /\ handled /\ ~handled'
      BY <1>0, <1>5 DEF BasicAck, AcksWhatItHandled, HandledIsHandling
  <2>2. D!Discard
      BY <2>1 DEF D!Discard
  <2> QED
      BY <2>2 DEF D!Next
<1>6. CASE Restart
  <2>1. D!Redeliver
      BY <1>6 DEF Restart, D!Redeliver, broker
  <2> QED
      BY <2>1 DEF D!Next
<1> QED
    BY <1>1, <1>2, <1>3, <1>4, <1>5, <1>6 DEF Next, Consume, Dispatch

\* The bus implements Delivery, for all events, subscriptions, exceptions and restarts.
THEOREM BusImplementsDelivery == Spec => ImplementsDelivery
<1>1. Init => D!Init
    BY DEF Init, D!Init
<1>2. IInv /\ [Next]_vars => [D!Next]_<<queue, Processed>>
    BY DeliverySteps
<1>3. [D!Next]_<<queue, Processed>> => [D!Next]_<<queue, IF handled THEN handling ELSE NoEvent>>
    BY DEF Processed
<1>4. Spec => Init /\ [][Next]_vars
    BY DEF Spec
<1> QED
    BY <1>1, <1>2, <1>3, <1>4, Invariance, PTL DEF ImplementsDelivery, D!Spec
=============================================================================
