\* Two requests at a time on one registration and its tokens: two scans of one
\* code, of two codes, a cancellation against a scan.
SPECIFICATION Spec
CONSTANTS
    Users = {u1, u2}
    Objects = {o1}
    Lending = {o1}
    Rows = {k1, k2}
    Registrations = {r1}
    Tokens = {t1, t2, t3}
    Requests = {q1, q2}
    Seeded <- MCNothingSeeded
    ReturnPathResolves = TRUE
    NoRow = NoRow
SYMMETRY Symmetry
INVARIANTS TypeOK PartiesOfALoan AnnouncedIsSaved TokensAccountForLoans HoldersAreBounded OpenRegistrationsAreBounded RowsAreBounded
PROPERTIES LoansAdvanceByTokens
\* Stops when the registrations, tokens and deadlines of the instance are used up.
CHECK_DEADLOCK FALSE
