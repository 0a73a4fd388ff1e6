------------------------------ MODULE EventBus ------------------------------
(***************************************************************************)
(* The event bus between the services: a RabbitMQ exchange that routes an  *)
(* event by its kind to the durable queue of one subscribing service, and  *)
(* the consumer that service runs on its queue.                            *)
(*                                                                         *)
(* The consumer registers its handlers one after the other when it starts, *)
(* and consumes from the first one on; the messages it has been delivered  *)
(* are processed one at a time, in order.  A message leaves the queue when *)
(* it is acknowledged; until then a new channel or a new process gets it   *)
(* again, at its old place.                                                *)
(***************************************************************************)
EXTENDS Naturals, Sequences

CONSTANTS
    Events,         \* integration events, records with a field kind
    Subscriptions,  \* the kinds the service subscribes to, in the order it does
    Poison,         \* events whose handler throws each time
    Deployed,       \* the service has been up before, and is up
    MaxThrows,      \* bound: handlers that throw and would not throw again
    MaxRestarts,    \* bound: restarts of the consuming process
    NoEvent

Kinds == {Subscriptions[i] : i \in 1..Len(Subscriptions)}

ASSUME EventBusAssumption ==
    /\ Subscriptions \in Seq(STRING)
    /\ \A e \in Events : e.kind \in STRING
    /\ Poison \subseteq Events
    /\ Deployed \in BOOLEAN
    /\ MaxThrows \in Nat /\ MaxRestarts \in Nat
    /\ NoEvent \notin Events

VARIABLES
    sent,        \* events published so far
    bound,       \* kinds the exchange routes to the queue; survives restarts
    queue,       \* messages not acknowledged; survives restarts
    subscribed,  \* how many of Subscriptions have a handler in this process
    consuming,   \* the channel of the consumer is open
    handling,    \* the message the consumer is processing
    handled,     \* its processing is over, it is to be acknowledged
    throws, restarts

broker   == <<bound, queue>>
consumer == <<subscribed, consuming, handling, handled>>
vars     == <<sent, broker, consumer, throws, restarts>>

Init ==
    /\ sent = {}
    /\ queue = <<>>
    /\ bound = IF Deployed THEN Kinds ELSE {}
    /\ subscribed = IF Deployed THEN Len(Subscriptions) ELSE 0
    /\ consuming = Deployed
    /\ handling = NoEvent /\ handled = FALSE
    /\ throws = 0 /\ restarts = 0

HasSubscriptionsForEvent(kind) == \E i \in 1..subscribed : Subscriptions[i] = kind

\* A publisher hands e to the exchange. What is not routed is dropped: nobody listens
\* to what the broker sends back.
Publish(e) ==
    /\ sent' = sent \cup {e}
    /\ queue' = IF e.kind \in bound THEN Append(queue, e) ELSE queue
    /\ UNCHANGED <<bound, consumer, throws, restarts>>

\* The three steps of Subscribe for the next kind: bind the queue, ...
QueueBind ==
    /\ subscribed < Len(Subscriptions)
    /\ Subscriptions[subscribed + 1] \notin bound
    /\ bound' = bound \cup {Subscriptions[subscribed + 1]}
    /\ UNCHANGED <<sent, queue, consumer, throws, restarts>>

\* ... register the handler, and consume.
AddSubscription ==
    /\ subscribed < Len(Subscriptions)
    /\ Subscriptions[subscribed + 1] \in bound
    /\ subscribed' = subscribed + 1
    /\ consuming' = TRUE
    /\ UNCHANGED <<sent, broker, handling, handled, throws, restarts>>

\* Consumer_Received is called with the message at the head of the queue.
Deliver ==
    /\ consuming
    /\ handling = NoEvent
    /\ queue # <<>>
    /\ handling' = Head(queue)
    /\ handled' = FALSE
    /\ UNCHANGED <<sent, broker, subscribed, consuming, throws, restarts>>

Processing(e) == handling = e /\ ~handled

\* Mutant of HandleEvent: the message is taken off the queue here already.
HandleEventAndAck(e) ==
    /\ Processing(e)
    /\ HasSubscriptionsForEvent(e.kind)
    /\ e \notin Poison
    /\ handled' = TRUE
    /\ queue' = Tail(queue)
    /\ UNCHANGED <<sent, bound, subscribed, consuming, handling, throws, restarts>>

\* The handler of e runs to its end.
HandleEvent(e) ==
    /\ Processing(e)
    /\ HasSubscriptionsForEvent(e.kind)
    /\ e \notin Poison
    /\ handled' = TRUE
    /\ UNCHANGED <<sent, broker, subscribed, consuming, handling, throws, restarts>>

\* There is no handler for e yet: a warning is logged.
NoSubscription(e) ==
    /\ Processing(e)
    /\ ~HasSubscriptionsForEvent(e.kind)
    /\ handled' = TRUE
    /\ UNCHANGED <<sent, broker, subscribed, consuming, handling, throws, restarts>>

BasicAck ==
    /\ handled
    /\ queue' = Tail(queue)
    /\ handling' = NoEvent /\ handled' = FALSE
    /\ UNCHANGED <<sent, bound, subscribed, consuming, throws, restarts>>

\* Mutant of RecreateChannel: the new channel is not consumed from.
RecreateChannelOnly ==
    /\ handling # NoEvent /\ ~handled
    /\ HasSubscriptionsForEvent(handling.kind)
    /\ handling' = NoEvent
    /\ consuming' = FALSE
    /\ UNCHANGED <<sent, broker, subscribed, handled, restarts>>

\* HandleEvent throws: BasicAck is not reached, the channel is disposed of and another
\* one made and consumed from, which gets the message again.
RecreateChannel ==
    /\ handling # NoEvent /\ ~handled
    /\ HasSubscriptionsForEvent(handling.kind)
    /\ handling' = NoEvent
    /\ UNCHANGED <<sent, broker, subscribed, consuming, handled, restarts>>

CallbackException ==
    /\ RecreateChannel
    /\ \/ handling \in Poison /\ UNCHANGED throws
       \/ handling \notin Poison /\ throws < MaxThrows /\ throws' = throws + 1

\* The process stops, and starts again.
Restart ==
    /\ restarts < MaxRestarts
    /\ restarts' = restarts + 1
    /\ subscribed' = 0
    /\ consuming' = FALSE
    /\ handling' = NoEvent /\ handled' = FALSE
    /\ UNCHANGED <<sent, broker, throws>>

\* The consumer but for its handlers.
Dispatch ==
    \/ QueueBind \/ AddSubscription
    \/ Deliver \/ (\E e \in Events : NoSubscription(e)) \/ BasicAck

Consume == Dispatch \/ (\E e \in Events : HandleEvent(e)) \/ CallbackException

\* An event has an identifier of its own and is published once.
Next == (\E e \in Events \ sent : Publish(e)) \/ Consume \/ Restart

\* The host starts the process again and its threads run.
Fairness == WF_vars(Consume)

Spec == Init /\ [][Next]_vars /\ Fairness
-----------------------------------------------------------------------------
TypeOK ==
    /\ sent \subseteq Events
    /\ bound \subseteq Kinds
    /\ queue \in Seq(Events)
    /\ subscribed \in 0..Len(Subscriptions)
    /\ consuming \in BOOLEAN /\ handled \in BOOLEAN
    /\ handling \in Events \cup {NoEvent}
    /\ throws \in 0..MaxThrows /\ restarts \in 0..MaxRestarts

\* The message being processed is the one at the head of the queue: what BasicAck takes
\* off the queue is the message whose processing is over, across exceptions and restarts.
AcksWhatItHandled == handling # NoEvent => queue # <<>> /\ handling = Head(queue)

Queued(e) == \E i \in 1..Len(queue) : queue[i] = e

\* "Even on exception we take the message off the queue" (Consumer_Received): whatever
\* is queued leaves the queue.
EveryEventLeaves == \A e \in Events : Queued(e) ~> ~Queued(e)

-----------------------------------------------------------------------------
D == INSTANCE Delivery WITH
        Messages <- Events, None <- NoEvent,
        waiting <- queue, processed <- IF handled THEN handling ELSE NoEvent

\* Events routed to the queue are gone through in the order they were published, again
\* after an exception or a restart, and none leaves the queue before the consumer has come
\* to its end: before its handler returned, or none was found for it.
ImplementsDelivery == D!Spec
=============================================================================
