\* One user and two registrations. Requests do not overlap and nothing fails.
SPECIFICATION FairSystemSpec
CONSTANTS
    u1 = u1
    o1 = o1
    Users = {u1}
    Objects = {o1}
    Lending = {o1}
    Rows = {k1}
    Registrations = {r1, r2}
    Tokens = {t1, t2}
    Requests = {q1}
    Seeded <- MCNothingSeeded
    ReturnPathResolves = TRUE
    NoRow = NoRow
    CatalogOwner <- MCCatalogOwner
    Visitors = {}
    Deployed = FALSE
    MaxDeaths = 0
    MaxRestarts = 0
    MaxThrows = 0
    MaxRefusals = 0
    NoEvent = NoEvent
INVARIANTS CatalogAgrees ListedIsAtOwner
PROPERTY CatalogCatchesUp
\* Stops when the registrations, tokens and deadlines of the instance are used up.
CHECK_DEADLOCK FALSE
