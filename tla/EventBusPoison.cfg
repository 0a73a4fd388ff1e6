\* An event whose handler throws each time it is called.
SPECIFICATION Spec
CONSTANTS
    Events <- MCEvents
    Subscriptions <- MCSubscriptions
    Poison <- OneEvent
    Deployed = TRUE
    MaxThrows = 0
    MaxRestarts = 0
    NoEvent = NoEvent
PROPERTY EveryEventLeaves
\* Stops when every event has been published and handled.
CHECK_DEADLOCK FALSE
