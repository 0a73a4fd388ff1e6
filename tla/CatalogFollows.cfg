\* One user, one registration, one request at a time, and everything may fail once.
SPECIFICATION SystemSpec
CONSTANTS
    u1 = u1
    o1 = o1
    Users = {u1}
    Objects = {o1}
    Lending = {o1}
    Rows = {k1}
    Registrations = {r1}
    Tokens = {t1, t2}
    Requests = {q1}
    Seeded <- MCNothingSeeded
    ReturnPathResolves = TRUE
    NoRow = NoRow
    CatalogOwner <- MCCatalogOwner
    Visitors = {u1}
    Deployed = FALSE
    MaxDeaths = 1
    MaxRestarts = 1
    MaxThrows = 1
    MaxRefusals = 1
    NoEvent = NoEvent
SYMMETRY Symmetry
INVARIANTS CatalogNeverAhead 
PROPERTIES CatalogOnlyAdvances DeliveredInOrder
\* Stops when the registrations, tokens and deadlines of the instance are used up.
CHECK_DEADLOCK FALSE
