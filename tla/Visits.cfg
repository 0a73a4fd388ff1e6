SPECIFICATION FairVisitSpec
CONSTANTS
    Users = {u1}
    Requests = {q1, q2}
    Visitors = {v1, v2}
    MaxCodes = 2
    MaxLogins = 2
    MaxDeaths = 1
    NoRow = NoRow
INVARIANT TypeOK TokenIsNotOlder CodesAreUsedOnce NothingOutlivesItsAccount CopiesAgree
PROPERTY ConfirmedGetsNoCodes ConfirmationRecovers CallersAreLetIn
CHECK_DEADLOCK FALSE
