\* Requests do not overlap; one object is lent, the other given for free.
SPECIFICATION Spec
CONSTANTS
    Users = {u1, u2}
    Objects = {o1, o2}
    Lending = {o1}
    Rows = {k1, k2}
    Registrations = {r1, r2}
    Tokens = {t1, t2}
    Requests = {q1}
    Seeded <- MCNothingSeeded
    ReturnPathResolves = TRUE
    NoRow = NoRow
SYMMETRY Symmetry
INVARIANTS SingleHolder OneOpenRegistration OneRowPerObject
PROPERTIES ImplementsCustody FreeObjectsAreRegisteredAtHome
\* Stops when the registrations, tokens and deadlines of the instance are used up.
CHECK_DEADLOCK FALSE
