\* The code as committed: no returning token. Users do their part.
SPECIFICATION FairSpec
CONSTANTS
    Users = {u1, u2}
    Objects = {o1}
    Lending = {o1}
    Rows = {k1}
    Registrations = {r1}
    Tokens = {t1, t2, t3}
    Requests = {q1}
    Seeded <- MCNothingSeeded
    ReturnPathResolves = FALSE
    NoRow = NoRow
PROPERTY LoansAreClosed
\* Stops when the registrations, tokens and deadlines of the instance are used up.
CHECK_DEADLOCK FALSE
