\* Two users, two requests at a time on one object and one tag name.
SPECIFICATION Spec
CONSTANTS
    u1 = u1
    u2 = u2
    l1 = l1
    l2 = l2
    Users = {u1, u2}
    Logins = {l1, l3}
    LoginUser <- MCLoginUser
    Objects = {o1}
    Entries = {e1, e2}
    Tags = {t1, t2}
    Names = {n1}
    Requests = {q1, q2}
    NoRow = NoRow
    Gone = Gone
SYMMETRY Symmetry
INVARIANTS TypeOK RowsHaveTheirUser LikesAreBounded OkTagsAreBounded AnnouncedIsDeleted
PROPERTIES DoubleLikeStays DeletedObjectsSettle
\* Stops when the rows of the instance are used up.
CHECK_DEADLOCK FALSE
