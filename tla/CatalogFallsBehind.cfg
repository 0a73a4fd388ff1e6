\* The catalog is restarted once.
SPECIFICATION SystemSpec
CONSTANTS
    u1 = u1
    o1 = o1
    Users = {u1, u2}
    Objects = {o1}
    Lending = {o1}
    Rows = {k1}
    Registrations = {r1}
    Tokens = {t1, t2}
    Requests = {q1}
    Seeded <- MCNothingSeeded
    ReturnPathResolves = FALSE
    NoRow = NoRow
    CatalogOwner <- MCCatalogOwner
    Visitors = {}
    Deployed = TRUE
    MaxDeaths = 0
    MaxRestarts = 1
    MaxThrows = 0
    MaxRefusals = 0
    NoEvent = NoEvent
INVARIANT ListedIsAtOwner
\* Stops when the registrations, tokens and deadlines of the instance are used up.
CHECK_DEADLOCK FALSE
