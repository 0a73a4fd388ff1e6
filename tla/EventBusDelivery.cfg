\* First deployment of the consumer; handlers that throw now and then.
SPECIFICATION Spec
CONSTANTS
    Events <- MCEvents
    Subscriptions <- MCSubscriptions
    Poison = {}
    Deployed = FALSE
    MaxThrows = 2
    MaxRestarts = 2
    NoEvent = NoEvent
INVARIANT AcksWhatItHandled
PROPERTIES EveryEventLeaves ImplementsDelivery
\* Stops when every event has been published and handled.
CHECK_DEADLOCK FALSE
