\* Two scans, of the codes of two registrations of one object, at the same time.
SPECIFICATION Spec
CONSTANTS
    Users = {u1, u2}
    Objects = {o1}
    Lending = {o1}
    Rows = {k1}
    Registrations = {r1, r2}
    Tokens = {t1, t2}
    Requests = {q1, q2}
    Seeded <- MCNothingSeeded
    ReturnPathResolves = FALSE
    NoRow = NoRow
SYMMETRY Symmetry
INVARIANT SingleHolder
\* Stops when the registrations, tokens and deadlines of the instance are used up.
CHECK_DEADLOCK FALSE
