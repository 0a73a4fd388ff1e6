------------------------ MODULE CatalogObjectsProofs ------------------------
(***************************************************************************)
(* Theorems about CatalogObjects, for every number of users, logins,       *)
(* objects, rows and overlapping requests.                                 *)
(*                                                                         *)
(* As in TransactionsProofs the invariant adds what each request in flight *)
(* relies on (RequestsKnow): users are never removed, an object that is    *)
(* there stays, and one that is deleted stays deleted.                     *)
(***************************************************************************)
EXTENDS CatalogObjects, Counting

Deleted(o) == object[o] # NoRow /\ object[o].status = "Deleted"

RequestKnows(q) ==
    /\ req[q].at \in {"saveUser", "saveLogin"} => req[q].user = LoginUser[req[q].login]
    /\ req[q].at \in {"saveLogin", "perform"} => req[q].user \in user
    /\ req[q].at = "saveEntry" => req[q].row.by \in user
    /\ req[q].at = "saveRemoval" => entry[req[q].entry] # NoRow
    /\ req[q].at = "saveDeleted" => object[req[q].object] # NoRow
    /\ req[q].at = "publish" => Deleted(req[q].object)
    /\ req[q].at = "saveTagDeleted" => tag[req[q].tag] # NoRow

RequestsKnow == \A q \in Requests : RequestKnows(q)

IInv == TypeOK /\ RowsHaveTheirUser /\ RequestsKnow /\ AnnouncedIsDeleted

\* What no step takes back.
Grows ==
    /\ user \subseteq user'
    /\ \A o \in Objects : object[o] # NoRow =>
          /\ object'[o] # NoRow
          /\ object'[o].owner = object[o].owner
          /\ Deleted(o) => Deleted(o)'
    /\ \A e \in Entries : entry[e] # NoRow => entry'[e] # NoRow
    /\ \A t \in Tags : tag[t] # NoRow => tag'[t] # NoRow

\* The requests that look a user up, those of administrators, and the others.
Begins(q) ==
    \/ \E l \in Logins, job \in Jobs : Begin(q, l, job)
    \/ \E l \in Logins, o \in Objects : AddPhotoToObject(q, l, o) \/ DeleteObject(q, l, o)
    \/ \E o \in Objects : AuthorizedDelete(q, o)
    \/ \E e \in Entries : AuthorizedDeleteComment(q, e)
    \/ \E n \in Names : AddTag(q, n)
    \/ \E t \in Tags : DeleteTag(q, t)

Decides(q) == AddLike(q) \/ Unlike(q) \/ AddComment(q) \/ AddView(q)

-----------------------------------------------------------------------------
\* What a request in flight carries, by where it is.
LEMMA InFlightFields ==
    ASSUME NEW x \in InFlight
    PROVE  /\ x.at \in {"askLogin", "saveUser", "saveLogin"} => x.login \in Logins
           /\ x.at \in {"saveUser", "saveLogin", "perform"} => x.user \in Users
           /\ x.at \in {"askLogin", "saveUser", "saveLogin", "perform"} => x.job \in Jobs
           /\ x.at = "saveEntry" => x.row \in Entry /\ x = [at |-> "saveEntry", row |-> x.row]
           /\ x.at = "saveRemoval" => x.entry \in Entries
           /\ x.at \in {"saveDeleted", "publish"} => x.object \in Objects
           /\ x.at = "saveTag" => x.name \in Names /\ x = [at |-> "saveTag", name |-> x.name]
           /\ x.at = "saveTagDeleted" => x.tag \in Tags
BY DEF InFlight, Idle, Copying

\* A job that is not to add an object is about an object.
LEMMA JobFields ==
    ASSUME NEW j \in Jobs
    PROVE  j.op # "AddObject" => j.object \in Objects
BY DEF Jobs

\* Rows that are there.
LEMMA RowFields ==
    ASSUME TypeOK
    PROVE  /\ \A o \in Objects : object[o] # NoRow =>
                 object[o] \in OfferedObject /\ object[o].owner \in Users
           /\ \A e \in Entries : entry[e] \notin {NoRow, Gone} =>
                 /\ entry[e] \in Entry /\ entry[e].by \in Users /\ entry[e].object \in Objects
                 /\ entry[e] = [kind |-> entry[e].kind, by |-> entry[e].by,
                                object |-> entry[e].object]
           /\ \A t \in Tags : tag[t] # NoRow => tag[t] \in Tag
           /\ \A l \in Logins : login[l] # NoRow => login[l] \in Users
BY DEF TypeOK, OfferedObject, Entry, Tag

\* A row is none of the values that stand for no row.
LEMMA RowsAreRows ==
    /\ \A x \in OfferedObject : x # NoRow
    /\ \A x \in Entry : x # NoRow /\ x # Gone
    /\ \A x \in Tag : x # NoRow
    /\ \A x \in Users : x # NoRow
    /\ Gone # NoRow
BY CatalogObjectsAssumption, UserCopiesAssumption

\* Where a request can go.
LEMMA GoTyped ==
    ASSUME TypeOK, NEW q \in Requests, NEW x \in InFlight, Go(q, x)
    PROVE  /\ req' \in [Requests -> InFlight]
           /\ req'[q] = x
           /\ \A p \in Requests \ {q} : req'[p] = req[p]
BY DEF TypeOK, Go

LEMMA ReplyTyped ==
    ASSUME TypeOK, NEW q \in Requests, Reply(q)
    PROVE  /\ req' \in [Requests -> InFlight]
           /\ req'[q] = Idle
           /\ \A p \in Requests \ {q} : req'[p] = req[p]
<1>1. Idle \in InFlight
    BY DEF InFlight
<1> QED
    BY <1>1, GoTyped DEF Reply

\* The steps of request q, by what they write.
LEMMA Steps ==
    ASSUME NEW q \in Requests, Request(q)
    PROVE  \/ Begins(q) \/ CopyUser(q) \/ Decides(q) \/ AddObject(q)
           \/ SaveEntry(q) \/ SaveRemoval(q) \/ SaveDeleted(q) \/ PublishEvent(q)
           \/ SaveTag(q) \/ SaveTagDeleted(q)
BY DEF Request, Begins, Decides, Continue

-----------------------------------------------------------------------------
\* The request goes where it may, and the others stay where they are.
LEMMA RequestTyped ==
    ASSUME IInv, NEW q \in Requests, Request(q)
    PROVE  /\ req' \in [Requests -> InFlight]
           /\ \A p \in Requests \ {q} : req'[p] = req[p]
<1> USE DEF IInv
<1> DEFINE Goes == \E x \in InFlight : Go(q, x)
<1>1. SUFFICES Goes
    BY GoTyped
<1>2. Idle \in InFlight /\ req[q] \in InFlight
    BY DEF InFlight, TypeOK
<1>3. Reply(q) => Goes
    BY <1>2 DEF Reply
<1>4. ASSUME NEW l \in Logins, NEW job \in Jobs, AddCurrentUserIfNeeded(q, l, job) PROVE Goes
  <2>1. login[l] # NoRow => [at |-> "perform", user |-> login[l], job |-> job] \in InFlight
      BY DEF TypeOK, InFlight, Copying
  <2>2. [at |-> "askLogin", login |-> l, job |-> job] \in InFlight
      BY DEF InFlight, Copying
  <2> QED
      BY <1>4, <2>1, <2>2 DEF AddCurrentUserIfNeeded
<1>5. CASE Begins(q)
  <2>1. CASE \E l \in Logins, job \in Jobs : Begin(q, l, job)
      BY <1>4, <2>1 DEF Begin
  <2>2. ASSUME NEW l \in Logins, NEW o \in Objects, AddPhotoToObject(q, l, o) PROVE Goes
    <3>1. LoginUser[l] \in Users
        BY CatalogObjectsAssumption
    <3>2. [kind |-> "Photo", by |-> LoginUser[l], object |-> o] \in Entry
        BY <3>1 DEF Entry
    <3>3. [at |-> "saveEntry", row |-> [kind |-> "Photo", by |-> LoginUser[l], object |-> o]]
              \in InFlight
        BY <3>2 DEF InFlight
    <3> QED
        BY <2>2, <3>3 DEF AddPhotoToObject
  <2>3. ASSUME NEW o \in Objects, NEW b \in BOOLEAN
        PROVE  [at |-> "saveDeleted", object |-> o, announce |-> b] \in InFlight
      BY DEF InFlight
  <2>4. CASE \E l \in Logins, o \in Objects : DeleteObject(q, l, o)
      BY <2>3, <2>4 DEF DeleteObject
  <2>5. CASE \E o \in Objects : AuthorizedDelete(q, o)
      BY <2>3, <2>5 DEF AuthorizedDelete
  <2>6. CASE \E e \in Entries : AuthorizedDeleteComment(q, e)
    <3>1. \A e \in Entries : [at |-> "saveRemoval", entry |-> e] \in InFlight
        BY DEF InFlight
    <3> QED
        BY <2>6, <3>1 DEF AuthorizedDeleteComment
  <2>7. CASE \E n \in Names : AddTag(q, n)
    <3>1. \A n \in Names : [at |-> "saveTag", name |-> n] \in InFlight
        BY DEF InFlight
    <3> QED
        BY <2>7, <3>1 DEF AddTag
  <2>8. CASE \E t \in Tags : DeleteTag(q, t)
    <3>1. \A t \in Tags : [at |-> "saveTagDeleted", tag |-> t] \in InFlight
        BY DEF InFlight
    <3> QED
        BY <2>8, <3>1 DEF DeleteTag
  <2> QED
      BY <1>5, <2>1, <2>2, <2>4, <2>5, <2>6, <2>7, <2>8 DEF Begins
<1>6. ASSUME NEW u \in Users, req[q].job \in Jobs, Perform(q, u) PROVE Goes
  <2>1. [at |-> "perform", user |-> u, job |-> req[q].job] \in InFlight
      BY <1>6 DEF InFlight, Copying
  <2> QED
      BY <1>6, <2>1 DEF Perform
<1>7. CASE CopyUser(q)
  <2>1. CASE GetLoginInformation(q, LoginUser[req[q].login])
    <3>1. req[q].at = "askLogin" /\ req[q].login \in Logins /\ req[q].job \in Jobs
        BY <1>2, <2>1, InFlightFields DEF GetLoginInformation
    <3>2. LoginUser[req[q].login] \in Users
        BY <3>1, CatalogObjectsAssumption
    <3>3. \A a \in {"saveUser", "saveLogin"} :
            [at |-> a, login |-> req[q].login, user |-> LoginUser[req[q].login],
             job |-> req[q].job] \in InFlight
        BY <3>1, <3>2 DEF InFlight, Copying
    <3> QED
        BY <2>1, <3>3 DEF GetLoginInformation
  <2>2. CASE SaveUser(q) \/ SaveLogin(q)
    <3>1. req[q].user \in Users /\ req[q].job \in Jobs
        BY <1>2, <2>2, InFlightFields DEF SaveUser, SaveLogin
    <3> QED
        BY <1>3, <1>6, <2>2, <3>1 DEF SaveUser, SaveLogin
  <2> QED
      BY <1>7, <2>1, <2>2 DEF CopyUser
<1>8. CASE Decides(q)
  <2>1. req[q].at = "perform" /\ req[q].job.op # "AddObject"
      BY <1>8 DEF Decides, AddLike, Unlike, AddComment, AddView, Performs
  <2>2. req[q].user \in Users /\ req[q].job.object \in Objects
      BY <1>2, <2>1, InFlightFields, JobFields
  <2>3. ASSUME NEW k \in {"Like", "Comment", "View"}, SaveNext(q, k) PROVE Goes
    <3>1. [kind |-> k, by |-> req[q].user, object |-> req[q].job.object] \in Entry
        BY <2>2 DEF Entry
    <3>2. [at |-> "saveEntry", row |-> [kind |-> k, by |-> req[q].user,
                                        object |-> req[q].job.object]] \in InFlight
        BY <3>1 DEF InFlight
    <3> QED
        BY <2>3, <3>2 DEF SaveNext
  <2>4. ASSUME NEW e \in Entries, Go(q, [at |-> "saveRemoval", entry |-> e]) PROVE Goes
    <3>1. [at |-> "saveRemoval", entry |-> e] \in InFlight
        BY DEF InFlight
    <3> QED
        BY <2>4, <3>1
  <2>5. CASE AddLike(q)
      BY <1>3, <2>3, <2>5 DEF AddLike
  <2>6. CASE Unlike(q)
      BY <1>3, <2>4, <2>6 DEF Unlike, PreviousLikes
  <2>7. CASE AddComment(q)
      BY <1>3, <2>3, <2>7 DEF AddComment
  <2>8. CASE AddView(q)
      BY <2>3, <2>8 DEF AddView
  <2> QED
      BY <1>8, <2>5, <2>6, <2>7, <2>8 DEF Decides
<1>9. CASE SaveDeleted(q)
  <2>1. req[q].object \in Objects
      BY <1>2, <1>9, InFlightFields DEF SaveDeleted
  <2>2. [at |-> "publish", object |-> req[q].object] \in InFlight
      BY <2>1 DEF InFlight
  <2> QED
      BY <1>3, <1>9, <2>2 DEF SaveDeleted
<1>10. CASE AddObject(q) \/ SaveEntry(q) \/ SaveRemoval(q) \/ PublishEvent(q)
            \/ SaveTag(q) \/ SaveTagDeleted(q)
    BY <1>3, <1>10 DEF AddObject, SaveEntry, SaveRemoval, PublishEvent, SaveTag, SaveTagDeleted
<1> QED
    BY <1>5, <1>7, <1>8, <1>9, <1>10, Steps

\* What the requests write has the right type.
LEMMA TablesTyped ==
    ASSUME IInv, NEW q \in Requests, Request(q)
    PROVE  /\ user' \subseteq Users
           /\ login' \in [Logins -> Users \cup {NoRow}]
           /\ object' \in [Objects -> OfferedObject \cup {NoRow}]
           /\ entry' \in [Entries -> Entry \cup {NoRow, Gone}]
           /\ tag' \in [Tags -> Tag \cup {NoRow}]
           /\ published' \subseteq Objects
<1> USE DEF IInv, TypeOK
<1>1. req[q] \in InFlight
    OBVIOUS
<1>2. CASE Begins(q) \/ Decides(q)
    BY <1>2 DEF Begins, Begin, AddCurrentUserIfNeeded, AddPhotoToObject, DeleteObject,
       AuthorizedDelete, AuthorizedDeleteComment, AddTag, DeleteTag, Decides, AddLike, Unlike,
       AddComment, AddView, copies, tables
<1>3. CASE CopyUser(q)
  <2>1. CASE GetLoginInformation(q, LoginUser[req[q].login])
      BY <1>3, <2>1 DEF CopyUser, GetLoginInformation, SaveUser, SaveLogin, copies, tables
  <2>2. CASE SaveUser(q) \/ SaveLogin(q)
    <3>1. req[q].user \in Users /\ req[q].login \in Logins
        BY <1>1, <2>2, InFlightFields DEF SaveUser, SaveLogin
    <3> QED
        BY <1>3, <2>2, <3>1 DEF CopyUser, GetLoginInformation, SaveUser, SaveLogin, copies, tables
  <2> QED
      BY <1>3, <2>1, <2>2 DEF CopyUser
<1>4. CASE AddObject(q)
  <2>1. req[q].user \in Users
      BY <1>1, <1>4, InFlightFields DEF AddObject, Performs
  <2>2. [owner |-> req[q].user, status |-> "Available"] \in OfferedObject
      BY <2>1 DEF OfferedObject
  <2> QED
      BY <1>4, <2>2 DEF AddObject, copies
<1>5. CASE SaveEntry(q)
  <2>1. req[q].row \in Entry
      BY <1>1, <1>5, InFlightFields DEF SaveEntry
  <2> QED
      BY <1>5, <2>1 DEF SaveEntry, copies
<1>6. CASE SaveRemoval(q)
    BY <1>6 DEF SaveRemoval, copies
<1>7. CASE SaveDeleted(q)
  <2>1. req[q].object \in Objects
      BY <1>1, <1>7, InFlightFields DEF SaveDeleted
  <2>2. object[req[q].object] \in OfferedObject
      BY <1>7, <2>1 DEF SaveDeleted, RequestsKnow, RequestKnows
  <2>3. [object[req[q].object] EXCEPT !.status = "Deleted"] \in OfferedObject
      BY <2>2 DEF OfferedObject
  <2> QED
      BY <1>7, <2>1, <2>3 DEF SaveDeleted, copies
<1>8. CASE PublishEvent(q)
  <2>1. req[q].object \in Objects
      BY <1>1, <1>8, InFlightFields DEF PublishEvent
  <2> QED
      BY <1>8, <2>1 DEF PublishEvent, copies
<1>9. CASE SaveTag(q)
  <2>1. req[q].name \in Names
      BY <1>1, <1>9, InFlightFields DEF SaveTag
  <2>2. [name |-> req[q].name, status |-> "Ok"] \in Tag
      BY <2>1 DEF Tag
  <2> QED
      BY <1>9, <2>2 DEF SaveTag, copies
<1>10. CASE SaveTagDeleted(q)
  <2>1. req[q].tag \in Tags
      BY <1>1, <1>10, InFlightFields DEF SaveTagDeleted
  <2>2. tag[req[q].tag] \in Tag
      BY <1>10, <2>1 DEF SaveTagDeleted, RequestsKnow, RequestKnows
  <2>3. [tag[req[q].tag] EXCEPT !.status = "Deleted"] \in Tag
      BY <2>2 DEF Tag
  <2> QED
      BY <1>10, <2>1, <2>3 DEF SaveTagDeleted, copies
<1> QED
    BY <1>2, <1>3, <1>4, <1>5, <1>6, <1>7, <1>8, <1>9, <1>10, Steps

LEMMA TypeNext ==
    ASSUME IInv, [Next]_vars
    PROVE  TypeOK'
<1>1. CASE UNCHANGED vars
    BY <1>1 DEF IInv, TypeOK, vars, copies
<1>2. ASSUME NEW q \in Requests, Request(q) PROVE TypeOK'
    BY <1>2, RequestTyped, TablesTyped DEF TypeOK
<1>3. ASSUME NEW q \in Requests, Fail(q) PROVE TypeOK'
  <2>1. req' \in [Requests -> InFlight]
      BY <1>3, ReplyTyped DEF IInv, Fail
  <2> QED
      BY <1>3, <2>1 DEF IInv, TypeOK, Fail, copies, tables
<1>4. ASSUME NEW u \in Users, AddUserIfNeeded(u) PROVE TypeOK'
    BY <1>4 DEF IInv, TypeOK, AddUserIfNeeded, tables
<1> QED
    BY <1>1, <1>2, <1>3, <1>4 DEF Next

-----------------------------------------------------------------------------
\* Users, objects and deletions are never taken back.
LEMMA NextGrows ==
    ASSUME IInv, [Next]_vars
    PROVE  Grows
<1> USE DEF IInv
<1>1. CASE UNCHANGED <<user, object, entry, tag>>
    BY <1>1 DEF Grows, Deleted
<1>2. ASSUME NEW q \in Requests, Request(q) PROVE Grows
  <2>1. req[q] \in InFlight
      BY DEF TypeOK
  <2>2. CASE Begins(q) \/ Decides(q)
      BY <1>1, <2>2 DEF Begins, Begin, AddCurrentUserIfNeeded, AddPhotoToObject, DeleteObject,
         AuthorizedDelete, AuthorizedDeleteComment, AddTag, DeleteTag, Decides, AddLike, Unlike,
         AddComment, AddView, copies, tables
  <2>3. CASE CopyUser(q)
      BY <2>3 DEF CopyUser, GetLoginInformation, SaveUser, SaveLogin, copies, tables, Grows, Deleted
  <2>4. CASE AddObject(q)
      BY <2>4 DEF AddObject, copies, TypeOK, Grows, Deleted
  <2>5. CASE SaveEntry(q)
    <3>1. req[q].row # NoRow
        BY <2>1, <2>5, InFlightFields, RowsAreRows DEF SaveEntry
    <3> QED
        BY <2>5, <3>1 DEF SaveEntry, copies, TypeOK, Grows, Deleted
  <2>6. CASE SaveRemoval(q)
      BY <2>6, RowsAreRows DEF SaveRemoval, copies, TypeOK, Grows, Deleted
  <2>7. CASE SaveDeleted(q)
    <3>1. req[q].object \in Objects /\ object[req[q].object] # NoRow
        BY <2>1, <2>7, InFlightFields DEF SaveDeleted, RequestsKnow, RequestKnows
    <3>2. object[req[q].object] \in OfferedObject
        BY <3>1, RowFields
    <3>3. /\ [object[req[q].object] EXCEPT !.status = "Deleted"] \in OfferedObject
          /\ [object[req[q].object] EXCEPT !.status = "Deleted"].status = "Deleted"
          /\ [object[req[q].object] EXCEPT !.status = "Deleted"].owner
                = object[req[q].object].owner
        BY <3>2 DEF OfferedObject
    <3>4. [object[req[q].object] EXCEPT !.status = "Deleted"] # NoRow
        BY <3>3, RowsAreRows
    <3> QED
        BY <2>7, <3>1, <3>3, <3>4 DEF SaveDeleted, copies, TypeOK, Grows, Deleted
  <2>8. CASE PublishEvent(q)
      BY <1>1, <2>8 DEF PublishEvent, copies
  <2>9. CASE SaveTag(q)
    <3>1. req[q].name \in Names
        BY <2>1, <2>9, InFlightFields DEF SaveTag
    <3>2. [name |-> req[q].name, status |-> "Ok"] \in Tag
        BY <3>1 DEF Tag
    <3>3. [name |-> req[q].name, status |-> "Ok"] # NoRow
        BY <3>2, RowsAreRows
    <3> QED
        BY <2>9, <3>3 DEF SaveTag, copies, TypeOK, Grows, Deleted
  <2>10. CASE SaveTagDeleted(q)
    <3>1. req[q].tag \in Tags /\ tag[req[q].tag] # NoRow
        BY <2>1, <2>10, InFlightFields DEF SaveTagDeleted, RequestsKnow, RequestKnows
    <3>2. tag[req[q].tag] \in Tag
        BY <3>1, RowFields
    <3>3. [tag[req[q].tag] EXCEPT !.status = "Deleted"] \in Tag
        BY <3>2 DEF Tag
    <3>4. [tag[req[q].tag] EXCEPT !.status = "Deleted"] # NoRow
        BY <3>3, RowsAreRows
    <3> QED
        BY <2>10, <3>1, <3>4 DEF SaveTagDeleted, copies, TypeOK, Grows, Deleted
  <2> QED
      BY <1>2, <2>2, <2>3, <2>4, <2>5, <2>6, <2>7, <2>8, <2>9, <2>10, Steps
<1>3. ASSUME NEW q \in Requests, Fail(q) PROVE Grows
    BY <1>1, <1>3 DEF Fail, copies, tables
<1>4. ASSUME NEW u \in Users, AddUserIfNeeded(u) PROVE Grows
    BY <1>4 DEF AddUserIfNeeded, tables, Grows, Deleted
<1> QED
    BY <1>1, <1>2, <1>3, <1>4 DEF Next, vars, copies

\* A request that does not move can still rely on what it knew.
LEMMA KnowsStays ==
    ASSUME IInv, Grows, NEW p \in Requests, req'[p] = req[p]
    PROVE  RequestKnows(p)'
<1>1. req[p] \in InFlight /\ RequestKnows(p)
    BY DEF IInv, TypeOK, RequestsKnow
<1>2. /\ req[p].at \in {"saveDeleted", "publish"} => req[p].object \in Objects
      /\ req[p].at = "saveRemoval" => req[p].entry \in Entries
      /\ req[p].at = "saveTagDeleted" => req[p].tag \in Tags
    BY <1>1, InFlightFields
<1>3. req[p].at = "publish" => Deleted(req[p].object)'
  <2>1. req[p].at = "publish" => Deleted(req[p].object) /\ object[req[p].object] # NoRow
      BY <1>1 DEF RequestKnows, Deleted
  <2> QED
      BY <1>2, <2>1 DEF Grows, Deleted
<1> QED
    BY <1>1, <1>2, <1>3 DEF RequestKnows, Grows

\* What a request knows where it goes, it has just read or saved.
LEMMA RequestsKnowNext ==
    ASSUME IInv, [Next]_vars
    PROVE  RequestsKnow'
<1>1. Grows
    BY NextGrows
<1> USE DEF IInv
<1>2. CASE UNCHANGED req
    BY <1>1, <1>2, KnowsStays DEF RequestsKnow
<1>3. ASSUME NEW q \in Requests, Request(q) PROVE RequestsKnow'
  <2>1. /\ req[q] \in InFlight /\ RequestKnows(q)
        /\ req \in [Requests -> InFlight]
      BY DEF TypeOK, RequestsKnow
  <2>2. SUFFICES RequestKnows(q)'
    <3>1. \A p \in Requests \ {q} : req'[p] = req[p]
        BY <1>3, RequestTyped
    <3> QED
        BY <1>1, <3>1, KnowsStays DEF RequestsKnow
  <2>3. req'[q] = Idle => RequestKnows(q)'
      BY DEF RequestKnows, Idle
  <2>4. Reply(q) => RequestKnows(q)'
      BY <2>1, <2>3 DEF Reply, Go
  <2>5. CASE \E l \in Logins, job \in Jobs : Begin(q, l, job)
    <3>1. PICK l \in Logins, job \in Jobs : Begin(q, l, job)
        BY <2>5
    <3>2. CASE req'[q] = [at |-> "askLogin", login |-> l, job |-> job]
        BY <3>2 DEF RequestKnows
    <3>3. CASE login[l] # NoRow /\ req'[q] = [at |-> "perform", user |-> login[l], job |-> job]
      <4>1. login[l] \in user'
          BY <1>1, <3>3 DEF RowsHaveTheirUser, Grows
      <4> QED
          BY <3>3, <4>1 DEF RequestKnows
    <3> QED
        BY <2>1, <3>1, <3>2, <3>3 DEF Begin, AddCurrentUserIfNeeded, Go
  <2>6. CASE \E l \in Logins, o \in Objects : AddPhotoToObject(q, l, o)
    <3>1. PICK l \in Logins, o \in Objects : AddPhotoToObject(q, l, o)
        BY <2>6
    <3>2. req'[q] = [at |-> "saveEntry",
                     row |-> [kind |-> "Photo", by |-> LoginUser[l], object |-> o]]
        BY <2>1, <3>1 DEF AddPhotoToObject, Go
    <3>3. LoginUser[l] \in user'
        BY <1>1, <3>1 DEF AddPhotoToObject, Owns, RowsHaveTheirUser, Grows
    <3> QED
        BY <3>2, <3>3 DEF RequestKnows
  <2>7. CASE \E l \in Logins, o \in Objects : DeleteObject(q, l, o)
    <3>1. PICK l \in Logins, o \in Objects : DeleteObject(q, l, o)
        BY <2>7
    <3>2. req'[q] = [at |-> "saveDeleted", object |-> o, announce |-> TRUE]
        BY <2>1, <3>1 DEF DeleteObject, Go
    <3> QED
        BY <1>1, <3>1, <3>2 DEF RequestKnows, DeleteObject, Available, Grows
  <2>8. CASE \E o \in Objects : AuthorizedDelete(q, o)
    <3>1. PICK o \in Objects : AuthorizedDelete(q, o)
        BY <2>8
    <3>2. req'[q] = [at |-> "saveDeleted", object |-> o, announce |-> FALSE]
        BY <2>1, <3>1 DEF AuthorizedDelete, Go
    <3> QED
        BY <1>1, <3>1, <3>2 DEF RequestKnows, AuthorizedDelete, Available, Grows
  <2>9. CASE \E e \in Entries : AuthorizedDeleteComment(q, e)
    <3>1. PICK e \in Entries : AuthorizedDeleteComment(q, e)
        BY <2>9
    <3>2. req'[q] = [at |-> "saveRemoval", entry |-> e]
        BY <2>1, <3>1 DEF AuthorizedDeleteComment, Go
    <3> QED
        BY <1>1, <3>1, <3>2 DEF RequestKnows, AuthorizedDeleteComment, Grows
  <2>10. CASE \E n \in Names : AddTag(q, n)
      BY <2>1, <2>10 DEF RequestKnows, AddTag, Go
  <2>11. CASE \E t \in Tags : DeleteTag(q, t)
    <3>1. PICK t \in Tags : DeleteTag(q, t)
        BY <2>11
    <3>2. req'[q] = [at |-> "saveTagDeleted", tag |-> t]
        BY <2>1, <3>1 DEF DeleteTag, Go
    <3> QED
        BY <1>1, <3>1, <3>2 DEF RequestKnows, DeleteTag, Grows
  <2>12. CASE CopyUser(q)
    <3>1. CASE GetLoginInformation(q, LoginUser[req[q].login])
      <4>1. req[q].login \in Logins
          BY <2>1, <3>1, InFlightFields DEF GetLoginInformation
      <4>2. \E a \in {"saveUser", "saveLogin"} :
               /\ a = "saveLogin" => LoginUser[req[q].login] \in user
               /\ req'[q] = [at |-> a, login |-> req[q].login, user |-> LoginUser[req[q].login],
                             job |-> req[q].job]
          BY <2>1, <3>1 DEF GetLoginInformation, Go
      <4> QED
          BY <1>1, <4>2 DEF RequestKnows, Grows
    <3>2. CASE SaveUser(q) \/ SaveLogin(q)
      <4>1. CASE Perform(q, req[q].user) /\ req[q].user \in user'
        <5>1. req'[q] = [at |-> "perform", user |-> req[q].user, job |-> req[q].job]
            BY <2>1, <4>1 DEF Perform, Go
        <5> QED
            BY <4>1, <5>1 DEF RequestKnows
      <4>2. Reply(q) \/ (Perform(q, req[q].user) /\ req[q].user \in user')
          BY <1>1, <2>1, <3>2 DEF SaveUser, SaveLogin, RequestKnows, Grows
      <4> QED
          BY <2>4, <4>1, <4>2
    <3> QED
        BY <2>12, <3>1, <3>2 DEF CopyUser
  <2>13. CASE Decides(q)
    <3>1. req[q].at = "perform"
        BY <2>13 DEF Decides, AddLike, Unlike, AddComment, AddView, Performs
    <3>2. req[q].user \in user'
        BY <1>1, <2>1, <3>1 DEF RequestKnows, Grows
    <3>3. ASSUME NEW k \in {"Like", "Comment", "View"}, SaveNext(q, k) PROVE RequestKnows(q)'
      <4>1. req'[q] = [at |-> "saveEntry", row |-> [kind |-> k, by |-> req[q].user,
                                                    object |-> req[q].job.object]]
          BY <2>1, <3>3 DEF SaveNext, Go
      <4> QED
          BY <3>2, <4>1 DEF RequestKnows
    <3>4. ASSUME NEW e \in PreviousLikes(req[q].user, req[q].job.object),
                 Go(q, [at |-> "saveRemoval", entry |-> e])
          PROVE  RequestKnows(q)'
      <4>1. e \in Entries /\ entry[e] # NoRow
        <5>1. e \in Entries /\ entry[e].kind = "Like"
              /\ entry[e] = [kind |-> "Like", by |-> req[q].user, object |-> req[q].job.object]
            BY DEF PreviousLikes
        <5>2. req[q].user \in Users /\ req[q].job \in Jobs
            BY <2>1, <3>1, InFlightFields
        <5>3. req[q].job.object \in Objects
            BY <2>13, <5>2, <3>1, JobFields DEF Decides, AddLike, Unlike, AddComment, AddView, Performs
        <5>4. entry[e] \in Entry
            BY <5>1, <5>2, <5>3 DEF Entry
        <5> QED
            BY <5>1, <5>4, RowsAreRows
      <4>2. req'[q] = [at |-> "saveRemoval", entry |-> e]
          BY <2>1, <3>4 DEF Go
      <4> QED
          BY <1>1, <4>1, <4>2 DEF RequestKnows, Grows
    <3>5. CASE AddLike(q) \/ AddComment(q) \/ AddView(q)
      <4>1. Reply(q) \/ SaveNext(q, "Like") \/ SaveNext(q, "Comment") \/ SaveNext(q, "View")
          BY <3>5 DEF AddLike, AddComment, AddView
      <4> QED
          BY <2>4, <3>3, <4>1
    <3>6. CASE Unlike(q)
        BY <2>4, <3>4, <3>6 DEF Unlike
    <3> QED
        BY <2>13, <3>5, <3>6 DEF Decides
  <2>14. CASE SaveDeleted(q)
    <3>1. CASE Go(q, [at |-> "publish", object |-> req[q].object])
      <4>1. req'[q] = [at |-> "publish", object |-> req[q].object]
          BY <2>1, <3>1 DEF Go
      <4>2. req[q].object \in Objects /\ object[req[q].object] # NoRow
          BY <2>1, <2>14, InFlightFields DEF SaveDeleted, RequestKnows
      <4>3. object[req[q].object] \in OfferedObject /\ object'[req[q].object] # NoRow
          BY <1>1, <4>2, RowFields DEF Grows
      <4>4. object'[req[q].object].status = "Deleted"
          BY <2>14, <4>2, <4>3 DEF SaveDeleted, TypeOK, OfferedObject
      <4> QED
          BY <4>1, <4>3, <4>4 DEF RequestKnows, Deleted
    <3> QED
        BY <2>4, <2>14, <3>1 DEF SaveDeleted
  <2>15. CASE AddObject(q) \/ SaveEntry(q) \/ SaveRemoval(q) \/ PublishEvent(q)
              \/ SaveTag(q) \/ SaveTagDeleted(q)
      BY <2>4, <2>15 DEF AddObject, SaveEntry, SaveRemoval, PublishEvent, SaveTag, SaveTagDeleted
  <2> QED
      BY <1>3, <2>5, <2>6, <2>7, <2>8, <2>9, <2>10, <2>11, <2>12, <2>13, <2>14, <2>15, Steps
      DEF Begins
<1>4. ASSUME NEW q \in Requests, Fail(q) PROVE RequestsKnow'
  <2>1. req'[q] = Idle /\ \A p \in Requests \ {q} : req'[p] = req[p]
      BY <1>4, ReplyTyped DEF Fail
  <2>2. RequestKnows(q)'
      BY <2>1 DEF RequestKnows, Idle
  <2> QED
      BY <1>1, <2>1, <2>2, KnowsStays DEF RequestsKnow
<1> QED
    BY <1>2, <1>3, <1>4 DEF Next, vars, AddUserIfNeeded

-----------------------------------------------------------------------------
LEMMA RowsHaveTheirUserNext ==
    ASSUME IInv, [Next]_vars
    PROVE  RowsHaveTheirUser'
<1>1. Grows /\ TypeOK'
    BY NextGrows, TypeNext
<1> USE DEF IInv
<1>2. CASE UNCHANGED <<login, object, entry>>
    BY <1>1, <1>2, RowFields DEF RowsHaveTheirUser, Grows
<1>3. ASSUME NEW q \in Requests, Request(q) PROVE RowsHaveTheirUser'
  <2>1. req[q] \in InFlight /\ RequestKnows(q)
      BY DEF TypeOK, RequestsKnow
  <2>2. CASE Begins(q) \/ Decides(q) \/ PublishEvent(q) \/ SaveTag(q) \/ SaveTagDeleted(q)
      BY <1>2, <2>2 DEF Begins, Begin, AddCurrentUserIfNeeded, AddPhotoToObject, DeleteObject,
         AuthorizedDelete, AuthorizedDeleteComment, AddTag, DeleteTag, Decides, AddLike, Unlike,
         AddComment, AddView, PublishEvent, SaveTag, SaveTagDeleted, copies, tables
  <2>3. CASE CopyUser(q)
    <3>1. CASE login' = login
        BY <1>2, <2>3, <3>1 DEF CopyUser, tables
    <3>2. CASE SaveUser(q) \/ SaveLogin(q)
      <4>1. req[q].login \in Logins /\ req[q].user = LoginUser[req[q].login]
          BY <2>1, <3>2, InFlightFields DEF SaveUser, SaveLogin, RequestKnows
      <4>2. login' # login => /\ req[q].user \in user'
                              /\ login' = [login EXCEPT ![req[q].login] = req[q].user]
          BY <1>1, <2>1, <3>2 DEF SaveUser, SaveLogin, copies, RequestKnows, Grows
      <4>3. \A l \in Logins : login'[l] # NoRow => login'[l] = LoginUser[l] /\ login'[l] \in user'
          BY <1>1, <4>1, <4>2 DEF RowsHaveTheirUser, Grows, TypeOK
      <4> QED
          BY <1>1, <2>3, <4>3 DEF RowsHaveTheirUser, Grows, CopyUser, tables
    <3> QED
        BY <2>3, <3>1, <3>2 DEF CopyUser, GetLoginInformation, copies
  <2>4. CASE AddObject(q)
    <3>1. req[q].user \in user'
        BY <1>1, <2>1, <2>4 DEF AddObject, Performs, RequestKnows, Grows
    <3> QED
        BY <1>1, <2>4, <3>1 DEF AddObject, copies, RowsHaveTheirUser, Grows, TypeOK
  <2>5. CASE SaveEntry(q)
    <3>1. req[q].row.by \in user'
        BY <1>1, <2>1, <2>5 DEF SaveEntry, RequestKnows, Grows
    <3> QED
        BY <1>1, <2>5, <3>1 DEF SaveEntry, copies, RowsHaveTheirUser, Grows, TypeOK
  <2>6. CASE SaveRemoval(q)
      BY <1>1, <2>6 DEF SaveRemoval, copies, RowsHaveTheirUser, Grows, TypeOK
  <2>7. CASE SaveDeleted(q)
    <3>1. \A o \in Objects : object'[o] # NoRow => object[o] # NoRow
        BY <2>1, <2>7, InFlightFields DEF SaveDeleted, RequestKnows, TypeOK
    <3> QED
        BY <1>1, <2>7, <3>1 DEF SaveDeleted, copies, RowsHaveTheirUser, Grows
  <2> QED
      BY <1>3, <2>2, <2>3, <2>4, <2>5, <2>6, <2>7, Steps
<1>4. ASSUME NEW q \in Requests, Fail(q) PROVE RowsHaveTheirUser'
    BY <1>2, <1>4 DEF Fail, copies, tables
<1>5. ASSUME NEW u \in Users, AddUserIfNeeded(u) PROVE RowsHaveTheirUser'
    BY <1>2, <1>5 DEF AddUserIfNeeded, tables
<1> QED
    BY <1>2, <1>3, <1>4, <1>5 DEF Next, vars, copies

LEMMA AnnouncedIsDeletedNext ==
    ASSUME IInv, [Next]_vars
    PROVE  AnnouncedIsDeleted'
<1>1. Grows
    BY NextGrows
<1> USE DEF IInv
<1>2. CASE published' = published
  <2>1. \A o \in published : o \in Objects /\ Deleted(o)
      BY DEF AnnouncedIsDeleted, Deleted, TypeOK
  <2> QED
      BY <1>1, <1>2, <2>1 DEF AnnouncedIsDeleted, Grows, Deleted
<1>3. ASSUME NEW q \in Requests, PublishEvent(q) PROVE AnnouncedIsDeleted'
  <2>1. req[q] \in InFlight /\ RequestKnows(q)
      BY DEF TypeOK, RequestsKnow
  <2>2. req[q].object \in Objects /\ Deleted(req[q].object)
      BY <1>3, <2>1, InFlightFields DEF PublishEvent, RequestKnows
  <2> QED
      BY <1>1, <1>3, <2>2 DEF PublishEvent, AnnouncedIsDeleted, Deleted
<1>4. ASSUME NEW q \in Requests, Request(q), ~PublishEvent(q) PROVE AnnouncedIsDeleted'
  <2>1. CASE CopyUser(q) \/ Decides(q) \/ AddObject(q)
      BY <1>2, <2>1 DEF CopyUser, Decides, AddLike, Unlike, AddComment, AddView, AddObject, tables
  <2>2. CASE Begins(q)
      BY <1>2, <2>2 DEF Begins, Begin, AddPhotoToObject, DeleteObject, AuthorizedDelete,
         AuthorizedDeleteComment, AddTag, DeleteTag, tables
  <2>3. CASE SaveEntry(q) \/ SaveRemoval(q) \/ SaveDeleted(q) \/ SaveTag(q) \/ SaveTagDeleted(q)
      BY <1>2, <2>3 DEF SaveEntry, SaveRemoval, SaveDeleted, SaveTag, SaveTagDeleted
  <2> QED
      BY <1>4, <2>1, <2>2, <2>3, Steps
<1>5. ASSUME NEW q \in Requests, Fail(q) PROVE AnnouncedIsDeleted'
    BY <1>2, <1>5 DEF Fail, tables
<1>6. ASSUME NEW u \in Users, AddUserIfNeeded(u) PROVE AnnouncedIsDeleted'
    BY <1>2, <1>6 DEF AddUserIfNeeded, tables
<1> QED
    BY <1>2, <1>3, <1>4, <1>5, <1>6 DEF Next, vars

-----------------------------------------------------------------------------
LEMMA InitIInv == Init => IInv
<1> SUFFICES ASSUME Init PROVE IInv
    OBVIOUS
<1>1. TypeOK
    BY DEF Init, InitCopies, TypeOK, InFlight
<1>2. RequestsKnow
    BY DEF Init, RequestsKnow, RequestKnows, Idle
<1> QED
    BY <1>1, <1>2 DEF Init, InitCopies, IInv, RowsHaveTheirUser, AnnouncedIsDeleted

LEMMA NextIInv == IInv /\ [Next]_vars => IInv'
BY TypeNext, RequestsKnowNext, RowsHaveTheirUserNext, AnnouncedIsDeletedNext DEF IInv

\* The invariant on which the other theorems rest.
THEOREM Invariance == Spec => []IInv
BY InitIInv, NextIInv, PTL DEF Spec

\* Every reachable state is typed.
THEOREM TypeCorrect == Spec => []TypeOK
<1>1. IInv => TypeOK
    BY DEF IInv
<1> QED
    BY <1>1, Invariance, PTL

\* A login is filed under its own user, and the user of every row is in the catalog,
\* however the requests that copy users overlap.
THEOREM RowsAreOfUsers == Spec => []RowsHaveTheirUser
<1>1. IInv => RowsHaveTheirUser
    BY DEF IInv
<1> QED
    BY <1>1, Invariance, PTL

\* What was announced as deleted is deleted.
THEOREM AnnouncementsHold == Spec => []AnnouncedIsDeleted
<1>1. IInv => AnnouncedIsDeleted
    BY DEF IInv
<1> QED
    BY <1>1, Invariance, PTL

-----------------------------------------------------------------------------
(* Where requests come from and who writes.                                *)

LEMMA WhereRequestsGo ==
    ASSUME IInv, NEW q \in Requests, Request(q)
    PROVE  /\ req'[q].at = "saveEntry" =>
                 \/ AddLike(q) \/ AddComment(q) \/ AddView(q)
                 \/ \E l \in Logins, o \in Objects : AddPhotoToObject(q, l, o)
           /\ req'[q].at = "saveRemoval" =>
                 Unlike(q) \/ \E e \in Entries : AuthorizedDeleteComment(q, e)
           /\ req'[q].at = "saveTag" => \E n \in Names : AddTag(q, n)
           /\ req'[q].at \in {"askLogin", "saveUser", "saveLogin", "perform"} =>
                 CopyUser(q) \/ \E l \in Logins, job \in Jobs : Begin(q, l, job)
<1>1. req \in [Requests -> InFlight]
    BY DEF IInv, TypeOK
<1>2. Reply(q) => req'[q].at = "idle"
    BY <1>1 DEF Reply, Go, Idle
<1>3. CASE AddObject(q) \/ SaveEntry(q) \/ SaveRemoval(q) \/ PublishEvent(q)
           \/ SaveTag(q) \/ SaveTagDeleted(q)
    BY <1>2, <1>3 DEF AddObject, SaveEntry, SaveRemoval, PublishEvent, SaveTag, SaveTagDeleted
<1>4. CASE SaveDeleted(q)
    BY <1>1, <1>2, <1>4 DEF SaveDeleted, Go
<1>5. CASE Decides(q)
  <2>1. CASE Unlike(q)
      BY <1>1, <1>2, <2>1 DEF Unlike, Go
  <2>2. CASE AddLike(q) \/ AddComment(q) \/ AddView(q)
      BY <1>1, <1>2, <2>2 DEF AddLike, AddComment, AddView, SaveNext, Go
  <2> QED
      BY <1>5, <2>1, <2>2 DEF Decides
<1>6. CASE CopyUser(q)
    BY <1>1, <1>2, <1>6 DEF CopyUser, GetLoginInformation, SaveUser, SaveLogin, Perform, Go
<1>7. CASE Begins(q)
  <2>1. CASE \E l \in Logins, job \in Jobs : Begin(q, l, job)
      BY <1>1, <2>1 DEF Begin, AddCurrentUserIfNeeded, Go
  <2>2. CASE \E l \in Logins, o \in Objects : AddPhotoToObject(q, l, o)
    <3>1. req'[q].at = "saveEntry"
        BY <1>1, <2>2 DEF AddPhotoToObject, Go
    <3> QED
        BY <2>2, <3>1
  <2>3. CASE \E e \in Entries : AuthorizedDeleteComment(q, e)
    <3>1. req'[q].at = "saveRemoval"
        BY <1>1, <2>3 DEF AuthorizedDeleteComment, Go
    <3> QED
        BY <2>3, <3>1
  <2>4. CASE \E n \in Names : AddTag(q, n)
    <3>1. req'[q].at = "saveTag"
        BY <1>1, <2>4 DEF AddTag, Go
    <3> QED
        BY <2>4, <3>1
  <2>5. CASE \E l \in Logins, o \in Objects : DeleteObject(q, l, o)
      BY <1>1, <2>5 DEF DeleteObject, Go
  <2>6. CASE (\E o \in Objects : AuthorizedDelete(q, o)) \/ (\E t \in Tags : DeleteTag(q, t))
      BY <1>1, <2>6 DEF AuthorizedDelete, DeleteTag, Go
  <2> QED
      BY <1>7, <2>1, <2>2, <2>3, <2>4, <2>5, <2>6 DEF Begins
<1> QED
    BY <1>3, <1>4, <1>5, <1>6, <1>7, Steps

LEMMA WhoWrites ==
    ASSUME NEW q \in Requests, Request(q)
    PROVE  /\ SaveEntry(q) \/ SaveRemoval(q) \/ entry' = entry
           /\ SaveTag(q) \/ SaveTagDeleted(q) \/ tag' = tag
<1>1. CASE CopyUser(q) \/ Decides(q) \/ AddObject(q)
    BY <1>1 DEF CopyUser, Decides, AddLike, Unlike, AddComment, AddView, AddObject, tables
<1>2. CASE Begins(q)
    BY <1>2 DEF Begins, Begin, AddPhotoToObject, DeleteObject, AuthorizedDelete,
       AuthorizedDeleteComment, AddTag, DeleteTag, tables
<1>3. CASE SaveEntry(q) \/ SaveRemoval(q) \/ SaveDeleted(q) \/ PublishEvent(q)
           \/ SaveTag(q) \/ SaveTagDeleted(q)
    BY <1>3 DEF SaveEntry, SaveRemoval, SaveDeleted, PublishEvent, SaveTag, SaveTagDeleted
<1> QED
    BY <1>1, <1>2, <1>3, Steps

-----------------------------------------------------------------------------
(* Likes and tags.                                                         *)

LEMMA SetsAreFinite ==
    /\ \A u \in Users, o \in Objects :
          /\ IsFiniteSet(PreviousLikes(u, o)) /\ IsFiniteSet(Liking(u, o))
          /\ Liking(u, o) \subseteq Requests
    /\ \A n \in Names :
          /\ IsFiniteSet(OkTags(n)) /\ IsFiniteSet(Tagging(n))
          /\ Tagging(n) \subseteq Requests
<1>1. ASSUME NEW u \in Users, NEW o \in Objects
      PROVE  /\ IsFiniteSet(PreviousLikes(u, o)) /\ IsFiniteSet(Liking(u, o))
             /\ Liking(u, o) \subseteq Requests
  <2>1. PreviousLikes(u, o) \subseteq Entries /\ Liking(u, o) \subseteq Requests
      BY DEF PreviousLikes, Liking
  <2> QED
      BY <2>1, CatalogObjectsAssumption, FS_Subset
<1>2. ASSUME NEW n \in Names
      PROVE  /\ IsFiniteSet(OkTags(n)) /\ IsFiniteSet(Tagging(n))
             /\ Tagging(n) \subseteq Requests
  <2>1. OkTags(n) \subseteq Tags /\ Tagging(n) \subseteq Requests
      BY DEF OkTags, Tagging
  <2> QED
      BY <2>1, CatalogObjectsAssumption, FS_Subset
<1> QED
    BY <1>1, <1>2

\* A like is about to be saved after AddLike has found none; it is saved by the request
\* that was about to; every other step takes likes away, or none.
LEMMA LikeSteps ==
    ASSUME IInv, [Next]_vars, NEW u \in Users, NEW o \in Objects
    PROVE  \/ PreviousLikes(u, o)' = {}
           \/ PreviousLikes(u, o)' \subseteq PreviousLikes(u, o) /\ Liking(u, o)' \subseteq Liking(u, o)
           \/ \E q \in Liking(u, o) : \E e :
                 /\ PreviousLikes(u, o)' \subseteq PreviousLikes(u, o) \cup {e}
                 /\ Liking(u, o)' \subseteq Liking(u, o) \ {q}
<1> DEFINE row == [kind |-> "Like", by |-> u, object |-> o]
<1> USE DEF IInv
<1>1. CASE UNCHANGED <<entry, req>>
    BY <1>1 DEF PreviousLikes, Liking
<1>2. ASSUME NEW q \in Requests, Request(q)
      PROVE  \/ PreviousLikes(u, o)' = {}
             \/ PreviousLikes(u, o)' \subseteq PreviousLikes(u, o) /\ Liking(u, o)' \subseteq Liking(u, o)
             \/ \E p \in Liking(u, o) : \E e :
                   /\ PreviousLikes(u, o)' \subseteq PreviousLikes(u, o) \cup {e}
                   /\ Liking(u, o)' \subseteq Liking(u, o) \ {p}
  <2>1. /\ \A p \in Requests \ {q} : req'[p] = req[p]
        /\ req \in [Requests -> InFlight] /\ entry \in [Entries -> Entry \cup {NoRow, Gone}]
      BY <1>2, RequestTyped DEF TypeOK
  <2>2. CASE SaveEntry(q)
    <3>1. req'[q].at = "idle"
        BY <2>1, <2>2 DEF SaveEntry, Reply, Go, Idle
    <3>2. q \notin Liking(u, o)'
        BY <3>1 DEF Liking
    <3>3. Liking(u, o)' \subseteq Liking(u, o) \ {q}
        BY <2>1, <3>2 DEF Liking
    <3>4. PICK e \in Entries : entry' = [entry EXCEPT ![e] = req[q].row]
        BY <2>2 DEF SaveEntry
    <3>5. CASE req[q].row = row
      <4>1. q \in Liking(u, o)
          BY <2>1, <2>2, <3>5, InFlightFields DEF SaveEntry, Liking
      <4>2. PreviousLikes(u, o)' \subseteq PreviousLikes(u, o) \cup {e}
          BY <2>1, <3>4 DEF PreviousLikes
      <4> QED
          BY <3>3, <4>1, <4>2
    <3>6. CASE req[q].row # row
      <4>1. PreviousLikes(u, o)' \subseteq PreviousLikes(u, o)
          BY <2>1, <3>4, <3>6 DEF PreviousLikes
      <4> QED
          BY <3>3, <4>1
    <3> QED
        BY <3>5, <3>6
  <2>3. CASE SaveRemoval(q)
    <3>1. req'[q].at = "idle"
        BY <2>1, <2>3 DEF SaveRemoval, Reply, Go, Idle
    <3>2. Liking(u, o)' \subseteq Liking(u, o)
        BY <2>1, <3>1 DEF Liking
    <3>3. row \in Entry
        BY DEF Entry
    <3>4. row # Gone
        BY <3>3, RowsAreRows
    <3>5. PreviousLikes(u, o)' \subseteq PreviousLikes(u, o)
        BY <2>1, <2>3, <3>4 DEF SaveRemoval, PreviousLikes
    <3> QED
        BY <3>2, <3>5
  <2>4. CASE entry' = entry
    <3>1. PreviousLikes(u, o)' = PreviousLikes(u, o)
        BY <2>4 DEF PreviousLikes
    <3>2. CASE q \notin Liking(u, o)'
        BY <2>1, <3>1, <3>2 DEF Liking
    <3>3. CASE q \in Liking(u, o)'
      <4>1. req'[q] = [at |-> "saveEntry", row |-> row]
          BY <3>3 DEF Liking
      <4>2. CASE AddLike(q)
        <5>1. req[q].at = "perform" /\ req[q].job.op = "AddLike"
            BY <4>2 DEF AddLike, Performs
        <5>2. PreviousLikes(req[q].user, req[q].job.object) = {} /\ SaveNext(q, "Like")
            BY <2>1, <4>1, <4>2 DEF AddLike, Reply, Go, Idle
        <5>3. req'[q].row = [kind |-> "Like", by |-> req[q].user, object |-> req[q].job.object]
            BY <2>1, <5>2 DEF SaveNext, Go
        <5>4. req[q].user = u /\ req[q].job.object = o
            BY <4>1, <5>3
        <5> QED
            BY <3>1, <5>2, <5>4
      <4>3. CASE AddComment(q) \/ AddView(q)
          BY <2>1, <4>1, <4>3 DEF AddComment, AddView, SaveNext, Reply, Go, Idle
      <4>4. CASE \E l \in Logins, x \in Objects : AddPhotoToObject(q, l, x)
          BY <2>1, <4>1, <4>4 DEF AddPhotoToObject, Go
      <4> QED
          BY <1>2, <4>1, <4>2, <4>3, <4>4, WhereRequestsGo
    <3> QED
        BY <3>2, <3>3
  <2> QED
      BY <1>2, <2>2, <2>3, <2>4, WhoWrites
<1>3. ASSUME NEW q \in Requests, Fail(q)
      PROVE  PreviousLikes(u, o)' \subseteq PreviousLikes(u, o) /\ Liking(u, o)' \subseteq Liking(u, o)
  <2>1. req'[q] = Idle /\ \A p \in Requests \ {q} : req'[p] = req[p]
      BY <1>3, ReplyTyped DEF Fail
  <2> QED
      BY <1>3, <2>1 DEF Fail, tables, PreviousLikes, Liking, Idle
<1> QED
    BY <1>1, <1>2, <1>3 DEF Next, vars, AddUserIfNeeded, tables

LEMMA LikesAreBoundedNext ==
    ASSUME IInv, LikesAreBounded, [Next]_vars
    PROVE  LikesAreBounded'
<1> SUFFICES ASSUME NEW u \in Users, NEW o \in Objects
             PROVE  Cardinality(PreviousLikes(u, o)') + Cardinality(Liking(u, o)')
                        <= Cardinality(Requests)
    BY DEF LikesAreBounded
<1>1. /\ IsFiniteSet(PreviousLikes(u, o)) /\ IsFiniteSet(Liking(u, o))
      /\ Liking(u, o)' \subseteq Requests
    BY SetsAreFinite DEF Liking
<1>2. Cardinality(PreviousLikes(u, o)) + Cardinality(Liking(u, o)) <= Cardinality(Requests)
    BY DEF LikesAreBounded
<1> QED
    BY <1>1, <1>2, CatalogObjectsAssumption, LikeSteps, BoundStays

\* A user never has more likes on an object than requests run at the same time. Where
\* they do not overlap, Unlike finds at most one.
THEOREM LikesStayBounded == Spec => []LikesAreBounded
<1>1. Init => LikesAreBounded
  <2> SUFFICES ASSUME Init, NEW u \in Users, NEW o \in Objects
               PROVE  Cardinality(PreviousLikes(u, o)) + Cardinality(Liking(u, o))
                          <= Cardinality(Requests)
      BY DEF LikesAreBounded
  <2>1. [kind |-> "Like", by |-> u, object |-> o] # NoRow
    <3>1. [kind |-> "Like", by |-> u, object |-> o] \in Entry
        BY DEF Entry
    <3> QED
        BY <3>1, RowsAreRows
  <2>2. PreviousLikes(u, o) = {} /\ Liking(u, o) = {}
      BY <2>1 DEF Init, PreviousLikes, Liking, Idle
  <2>3. Cardinality(Requests) \in Nat
      BY CatalogObjectsAssumption, FS_CardinalityType
  <2> QED
      BY <2>2, <2>3, FS_EmptySet
<1>2. IInv /\ LikesAreBounded /\ [Next]_vars => LikesAreBounded'
    BY LikesAreBoundedNext
<1> QED
    BY <1>1, <1>2, Invariance, PTL DEF Spec

\* The same of the tags.
LEMMA TagSteps ==
    ASSUME IInv, [Next]_vars, NEW n \in Names
    PROVE  \/ OkTags(n)' = {}
           \/ OkTags(n)' \subseteq OkTags(n) /\ Tagging(n)' \subseteq Tagging(n)
           \/ \E q \in Tagging(n) : \E e :
                 OkTags(n)' \subseteq OkTags(n) \cup {e} /\ Tagging(n)' \subseteq Tagging(n) \ {q}
<1> USE DEF IInv
<1>1. CASE UNCHANGED <<tag, req>>
    BY <1>1 DEF OkTags, Tagging
<1>2. ASSUME NEW q \in Requests, Request(q)
      PROVE  \/ OkTags(n)' = {}
             \/ OkTags(n)' \subseteq OkTags(n) /\ Tagging(n)' \subseteq Tagging(n)
             \/ \E p \in Tagging(n) : \E e :
                   OkTags(n)' \subseteq OkTags(n) \cup {e} /\ Tagging(n)' \subseteq Tagging(n) \ {p}
  <2>1. /\ \A p \in Requests \ {q} : req'[p] = req[p]
        /\ req \in [Requests -> InFlight] /\ tag \in [Tags -> Tag \cup {NoRow}]
        /\ RequestKnows(q)
      BY <1>2, RequestTyped DEF TypeOK, RequestsKnow
  <2>2. CASE SaveTag(q)
    <3>1. req'[q].at = "idle"
        BY <2>1, <2>2 DEF SaveTag, Reply, Go, Idle
    <3>2. q \notin Tagging(n)'
        BY <3>1 DEF Tagging
    <3>3. Tagging(n)' \subseteq Tagging(n) \ {q}
        BY <2>1, <3>2 DEF Tagging
    <3>4. PICK e \in Tags : tag' = [tag EXCEPT ![e] = [name |-> req[q].name, status |-> "Ok"]]
        BY <2>2 DEF SaveTag
    <3>5. CASE req[q].name = n
      <4>1. q \in Tagging(n)
          BY <2>1, <2>2, <3>5, InFlightFields DEF SaveTag, Tagging
      <4>2. OkTags(n)' \subseteq OkTags(n) \cup {e}
          BY <2>1, <3>4 DEF OkTags
      <4> QED
          BY <3>3, <4>1, <4>2
    <3>6. CASE req[q].name # n
      <4>1. OkTags(n)' \subseteq OkTags(n)
          BY <2>1, <3>4, <3>6 DEF OkTags
      <4> QED
          BY <3>3, <4>1
    <3> QED
        BY <3>5, <3>6
  <2>3. CASE SaveTagDeleted(q)
    <3>1. req'[q].at = "idle"
        BY <2>1, <2>3 DEF SaveTagDeleted, Reply, Go, Idle
    <3>2. Tagging(n)' \subseteq Tagging(n)
        BY <2>1, <3>1 DEF Tagging
    <3>3. tag[req[q].tag] \in Tag /\ req[q].tag \in Tags
        BY <2>1, <2>3, InFlightFields, RowFields DEF SaveTagDeleted, RequestKnows
    <3>4. tag'[req[q].tag].status = "Deleted"
        BY <2>1, <2>3, <3>3 DEF SaveTagDeleted, Tag
    <3>5. \A t \in Tags \ {req[q].tag} : tag'[t] = tag[t]
        BY <2>1, <2>3 DEF SaveTagDeleted
    <3>6. OkTags(n)' \subseteq OkTags(n)
        BY <3>4, <3>5 DEF OkTags
    <3> QED
        BY <3>2, <3>6
  <2>4. CASE tag' = tag
    <3>1. OkTags(n)' = OkTags(n)
        BY <2>4 DEF OkTags
    <3>2. CASE q \notin Tagging(n)'
        BY <2>1, <3>1, <3>2 DEF Tagging
    <3>3. CASE q \in Tagging(n)'
      <4>1. req'[q] = [at |-> "saveTag", name |-> n]
          BY <3>3 DEF Tagging
      <4>2. PICK m \in Names : AddTag(q, m)
          BY <1>2, <4>1, WhereRequestsGo
      <4>3. m = n
          BY <2>1, <4>1, <4>2 DEF AddTag, Go
      <4> QED
          BY <3>1, <4>2, <4>3 DEF AddTag
    <3> QED
        BY <3>2, <3>3
  <2> QED
      BY <1>2, <2>2, <2>3, <2>4, WhoWrites
<1>3. ASSUME NEW q \in Requests, Fail(q)
      PROVE  OkTags(n)' \subseteq OkTags(n) /\ Tagging(n)' \subseteq Tagging(n)
  <2>1. req'[q] = Idle /\ \A p \in Requests \ {q} : req'[p] = req[p]
      BY <1>3, ReplyTyped DEF Fail
  <2> QED
      BY <1>3, <2>1 DEF Fail, tables, OkTags, Tagging, Idle
<1> QED
    BY <1>1, <1>2, <1>3 DEF Next, vars, AddUserIfNeeded, tables

LEMMA OkTagsAreBoundedNext ==
    ASSUME IInv, OkTagsAreBounded, [Next]_vars
    PROVE  OkTagsAreBounded'
<1> SUFFICES ASSUME NEW n \in Names
             PROVE  Cardinality(OkTags(n)') + Cardinality(Tagging(n)') <= Cardinality(Requests)
    BY DEF OkTagsAreBounded
<1>1. IsFiniteSet(OkTags(n)) /\ IsFiniteSet(Tagging(n)) /\ Tagging(n)' \subseteq Requests
    BY SetsAreFinite DEF Tagging
<1>2. Cardinality(OkTags(n)) + Cardinality(Tagging(n)) <= Cardinality(Requests)
    BY DEF OkTagsAreBounded
<1> QED
    BY <1>1, <1>2, CatalogObjectsAssumption, TagSteps, BoundStays

\* There are never more Ok tags of one name than requests run at the same time: one,
\* where they do not overlap.
THEOREM OkTagsStayBounded == Spec => []OkTagsAreBounded
<1>1. Init => OkTagsAreBounded
  <2> SUFFICES ASSUME Init, NEW n \in Names
               PROVE  Cardinality(OkTags(n)) + Cardinality(Tagging(n)) <= Cardinality(Requests)
      BY DEF OkTagsAreBounded
  <2>1. [name |-> n, status |-> "Ok"] # NoRow
    <3>1. [name |-> n, status |-> "Ok"] \in Tag
        BY DEF Tag
    <3> QED
        BY <3>1, RowsAreRows
  <2>2. OkTags(n) = {} /\ Tagging(n) = {}
      BY <2>1 DEF Init, OkTags, Tagging, Idle
  <2>3. Cardinality(Requests) \in Nat
      BY CatalogObjectsAssumption, FS_CardinalityType
  <2> QED
      BY <2>2, <2>3, FS_EmptySet
<1>2. IInv /\ OkTagsAreBounded /\ [Next]_vars => OkTagsAreBounded'
    BY OkTagsAreBoundedNext
<1> QED
    BY <1>1, <1>2, Invariance, PTL DEF Spec

\* Requests do not overlap.
Serial == \A p, q \in Requests : p = q

SingleLikes == \A u \in Users, o \in Objects : \A d, e \in PreviousLikes(u, o) : d = e
SingleOkTags == \A n \in Names : \A s, t \in OkTags(n) : s = t

\* The check of AddLike suffices when requests do not overlap: Unlike, which throws when
\* it finds two likes (SingleOrDefault), finds at most one.
THEOREM SerialSingleLikes == Serial => (Spec => []SingleLikes)
<1>1. ASSUME Serial, LikesAreBounded PROVE SingleLikes
    BY <1>1, CatalogObjectsAssumption, SetsAreFinite, AtMostOne
       DEF Serial, LikesAreBounded, SingleLikes
<1> SUFFICES ASSUME Serial PROVE Spec => []SingleLikes
    OBVIOUS
<1>2. LikesAreBounded => SingleLikes
    BY <1>1
<1> QED
    BY <1>2, LikesStayBounded, PTL

\* The check of AddTag suffices when requests do not overlap: one Ok tag has the name.
THEOREM SerialSingleOkTags == Serial => (Spec => []SingleOkTags)
<1>1. ASSUME Serial, OkTagsAreBounded PROVE SingleOkTags
    BY <1>1, CatalogObjectsAssumption, SetsAreFinite, AtMostOne
       DEF Serial, OkTagsAreBounded, SingleOkTags
<1> SUFFICES ASSUME Serial PROVE Spec => []SingleOkTags
    OBVIOUS
<1>2. OkTagsAreBounded => SingleOkTags
    BY <1>1
<1> QED
    BY <1>2, OkTagsStayBounded, PTL

-----------------------------------------------------------------------------
\* A row is added where there is none, and taken away where a request had it.
LEMMA EntriesChange ==
    ASSUME IInv, NEW q \in Requests, Request(q), NEW e \in Entries, entry'[e] # entry[e]
    PROVE  \/ SaveEntry(q) /\ entry[e] = NoRow /\ entry'[e] = req[q].row
           \/ SaveRemoval(q) /\ req[q].entry = e /\ entry'[e] = Gone
<1>1. entry \in [Entries -> Entry \cup {NoRow, Gone}]
    BY DEF IInv, TypeOK
<1>2. CASE SaveEntry(q)
    BY <1>1, <1>2 DEF SaveEntry
<1>3. CASE SaveRemoval(q)
    BY <1>1, <1>3 DEF SaveRemoval
<1> QED
    BY <1>2, <1>3, WhoWrites

LEMMA LikedTwiceNext ==
    ASSUME IInv, [Next]_vars, NEW u \in Users, NEW o \in Objects, LikedTwice(u, o)
    PROVE  LikedTwice(u, o)'
<1> DEFINE row == [kind |-> "Like", by |-> u, object |-> o]
<1> USE DEF IInv
<1>1. CASE UNCHANGED <<entry, req>>
    BY <1>1 DEF LikedTwice, PreviousLikes
<1>2. row # NoRow /\ row # Gone
  <2>1. row \in Entry
      BY DEF Entry
  <2> QED
      BY <2>1, RowsAreRows
<1>3. ASSUME NEW q \in Requests, Request(q) PROVE LikedTwice(u, o)'
  <2>1. /\ \A p \in Requests \ {q} : req'[p] = req[p]
        /\ req \in [Requests -> InFlight]
      BY <1>3, RequestTyped DEF TypeOK
  <2>2. PreviousLikes(u, o) \subseteq PreviousLikes(u, o)'
    <3> SUFFICES ASSUME NEW e \in PreviousLikes(u, o), entry'[e] # entry[e] PROVE FALSE
        BY DEF PreviousLikes
    <3>1. e \in Entries /\ entry[e] = row
        BY DEF PreviousLikes
    <3>2. SaveRemoval(q) /\ req[q].entry = e
        BY <1>2, <1>3, <3>1, EntriesChange
    <3> QED
        BY <3>2 DEF SaveRemoval, LikedTwice
  <2>3. ASSUME NEW e \in PreviousLikes(u, o)', e \notin PreviousLikes(u, o)
        PROVE  e \in Entries /\ entry[e] = NoRow
    <3>1. e \in Entries /\ entry'[e] = row /\ entry[e] # row
        BY <2>3 DEF PreviousLikes
    <3> QED
        BY <1>2, <1>3, <3>1, EntriesChange
  <2>4. ASSUME NEW p \in Requests \ {q}, req'[p].at = "saveRemoval"
        PROVE  req'[p].entry \notin PreviousLikes(u, o)'
    <3>1. /\ req[p].at = "saveRemoval" /\ req'[p].entry = req[p].entry
          /\ req[p].entry \notin PreviousLikes(u, o)
        BY <2>1, <2>4 DEF LikedTwice
    <3>2. entry[req[p].entry] # NoRow
        BY <3>1 DEF RequestsKnow, RequestKnows
    <3> QED
        BY <2>3, <3>1, <3>2
  <2>5. ASSUME req'[q].at = "saveRemoval"
        PROVE  req'[q].entry \notin PreviousLikes(u, o)'
    <3>1. CASE Unlike(q)
      <4>1. PICK e \in PreviousLikes(req[q].user, req[q].job.object) :
               /\ PreviousLikes(req[q].user, req[q].job.object) = {e}
               /\ Go(q, [at |-> "saveRemoval", entry |-> e])
          BY <2>1, <2>5, <3>1 DEF Unlike, Reply, Go, Idle
      <4>2. req'[q].entry = e /\ entry' = entry
          BY <2>1, <3>1, <4>1 DEF Go, Unlike, tables
      <4>3. CASE e \in PreviousLikes(u, o)
        <5>1. req[q].user = u /\ req[q].job.object = o
            BY <4>1, <4>3 DEF PreviousLikes
        <5> QED
            BY <4>1, <5>1 DEF LikedTwice
      <4> QED
          BY <4>2, <4>3 DEF PreviousLikes
    <3>2. CASE \E e \in Entries : AuthorizedDeleteComment(q, e)
      <4>1. PICK e \in Entries : AuthorizedDeleteComment(q, e)
          BY <3>2
      <4>2. req'[q].entry = e /\ entry' = entry /\ entry[e].kind = "Comment"
          BY <2>1, <4>1 DEF AuthorizedDeleteComment, Go, tables
      <4> QED
          BY <4>2 DEF PreviousLikes
    <3> QED
        BY <1>3, <2>5, <3>1, <3>2, WhereRequestsGo
  <2> QED
      BY <2>2, <2>4, <2>5 DEF LikedTwice
<1>4. ASSUME NEW q \in Requests, Fail(q) PROVE LikedTwice(u, o)'
  <2>1. req'[q] = Idle /\ \A p \in Requests \ {q} : req'[p] = req[p]
      BY <1>4, ReplyTyped DEF Fail
  <2> QED
      BY <1>4, <2>1 DEF Fail, tables, LikedTwice, PreviousLikes, Idle
<1> QED
    BY <1>1, <1>3, <1>4 DEF Next, vars, AddUserIfNeeded, tables

\* Two likes of a user on an object are never taken back.
THEOREM DoubleLikesStay == Spec => DoubleLikeStays
<1>1. IInv /\ [Next]_vars =>
         [\A u \in Users, o \in Objects : LikedTwice(u, o) => LikedTwice(u, o)']_vars
    BY LikedTwiceNext
<1> QED
    BY <1>1, Invariance, PTL DEF Spec, DoubleLikeStays

-----------------------------------------------------------------------------
\* What belongs to a settled object stays as it is, but for its comments.
LEMMA SettledEntries ==
    ASSUME IInv, [Next]_vars, NEW o \in Objects, Settled(o)
    PROVE  /\ \A e \in On(o)' : e \in On(o) /\ entry'[e] = entry[e]
           /\ \A e \in On(o) : entry'[e] = entry[e] \/ entry[e].kind = "Comment"
<1> USE DEF IInv
<1>1. CASE entry' = entry
    BY <1>1 DEF On
<1>2. ASSUME NEW q \in Requests, Request(q), NEW e \in Entries, entry'[e] # entry[e]
      PROVE  /\ e \notin On(o)'
             /\ e \in On(o) => entry[e].kind = "Comment"
  <2>1. CASE SaveEntry(q) /\ entry[e] = NoRow /\ entry'[e] = req[q].row
      BY <2>1 DEF SaveEntry, Settled, Touches, On
  <2>2. CASE SaveRemoval(q) /\ req[q].entry = e /\ entry'[e] = Gone
      BY <2>2 DEF SaveRemoval, Settled, Touches, On
  <2> QED
      BY <1>2, <2>1, <2>2, EntriesChange
<1>3. ASSUME NEW q \in Requests, Request(q)
      PROVE  /\ \A e \in On(o)' : e \in On(o) /\ entry'[e] = entry[e]
             /\ \A e \in On(o) : entry'[e] = entry[e] \/ entry[e].kind = "Comment"
    BY <1>2, <1>3 DEF On
<1> QED
    BY <1>1, <1>3 DEF Next, Fail, AddUserIfNeeded, vars, tables

\* Whoever begins now finds the object deleted.
LEMMA SettledRequests ==
    ASSUME IInv, NEW o \in Objects, Settled(o), NEW q \in Requests, Request(q)
    PROVE  ~Touches(q, o)'
<1> USE DEF IInv
<1>1. [Next]_vars /\ req \in [Requests -> InFlight] /\ ~Available(o) /\ ~Touches(q, o)
    BY DEF Next, TypeOK, Settled, Available
<1>2. \A e \in On(o)' : e \in On(o) /\ entry'[e] = entry[e]
    BY <1>1, SettledEntries
<1>3. ASSUME req'[q].at = "saveEntry" PROVE req'[q].row.object # o
  <2>1. CASE AddLike(q) \/ AddComment(q)
    <3>1. Available(req[q].job.object) /\ (SaveNext(q, "Like") \/ SaveNext(q, "Comment"))
        BY <1>1, <1>3, <2>1 DEF AddLike, AddComment, Reply, Go, Idle
    <3>2. req'[q].row.object = req[q].job.object
        BY <1>1, <3>1 DEF SaveNext, Go
    <3> QED
        BY <1>1, <3>1, <3>2
  <2>2. CASE AddView(q)
    <3>1. req'[q].row.object = req[q].job.object
        BY <1>1, <2>2 DEF AddView, SaveNext, Go
    <3>2. req[q].job.object # o
        BY <1>1, <2>2 DEF AddView, Performs, Touches
    <3> QED
        BY <3>1, <3>2
  <2>3. CASE \E l \in Logins, x \in Objects : AddPhotoToObject(q, l, x)
    <3>1. PICK l \in Logins, x \in Objects : AddPhotoToObject(q, l, x)
        BY <2>3
    <3>2. Available(x) /\ req'[q].row.object = x
        BY <1>1, <3>1 DEF AddPhotoToObject, Go
    <3> QED
        BY <1>1, <3>2
  <2> QED
      BY <1>3, <2>1, <2>2, <2>3, WhereRequestsGo
<1>4. ASSUME req'[q].at = "saveRemoval", req'[q].entry \in On(o)'
      PROVE  entry'[req'[q].entry].kind = "Comment"
  <2>1. CASE Unlike(q)
    <3>1. PICK e \in PreviousLikes(req[q].user, req[q].job.object) :
             Go(q, [at |-> "saveRemoval", entry |-> e])
        BY <1>1, <1>4, <2>1 DEF Unlike, Reply, Go, Idle
    <3>2. req'[q].entry = e /\ Available(req[q].job.object)
        BY <1>1, <1>4, <2>1, <3>1 DEF Unlike, Reply, Go, Idle
    <3>3. entry[e].object = req[q].job.object
        BY <3>1 DEF PreviousLikes
    <3>4. e \in On(o)
        BY <1>2, <1>4, <3>2
    <3> QED
        BY <1>1, <3>2, <3>3, <3>4 DEF On
  <2>2. CASE \E e \in Entries : AuthorizedDeleteComment(q, e)
    <3>1. PICK e \in Entries : AuthorizedDeleteComment(q, e)
        BY <2>2
    <3> QED
        BY <1>1, <3>1 DEF AuthorizedDeleteComment, Go, tables
  <2> QED
      BY <1>3, <1>4, <2>1, <2>2, WhereRequestsGo
<1>5. ASSUME req'[q].at \in {"askLogin", "saveUser", "saveLogin", "perform"},
             req'[q].job.op = "AddView"
      PROVE  req'[q].job.object # o
  <2>1. CASE CopyUser(q)
    <3>1. /\ req[q].at \in {"askLogin", "saveUser", "saveLogin"}
          /\ req'[q].job = req[q].job
        BY <1>1, <1>5, <2>1 DEF CopyUser, GetLoginInformation, SaveUser, SaveLogin, Perform, Reply,
           Go, Idle
    <3> QED
        BY <1>1, <1>5, <3>1 DEF Touches
  <2>2. CASE \E l \in Logins, job \in Jobs : Begin(q, l, job)
    <3>1. PICK l \in Logins, job \in Jobs : Begin(q, l, job)
        BY <2>2
    <3>2. req'[q].job = job
        BY <1>1, <3>1 DEF Begin, AddCurrentUserIfNeeded, Go
    <3> QED
        BY <1>1, <1>5, <3>1, <3>2 DEF Begin
  <2> QED
      BY <1>5, <2>1, <2>2, WhereRequestsGo
<1> QED
    BY <1>3, <1>4, <1>5 DEF Touches

LEMMA SettledNext ==
    ASSUME IInv, [Next]_vars, NEW o \in Objects, Settled(o)
    PROVE  Settled(o)'
<1> USE DEF IInv
<1>1. object'[o] # NoRow /\ object'[o].status = "Deleted"
    BY NextGrows DEF Grows, Settled, Deleted
<1>2. \A e \in On(o)' : e \in On(o) /\ entry'[e] = entry[e]
    BY SettledEntries
<1>3. ASSUME NEW p \in Requests, req'[p] = req[p] PROVE ~Touches(p, o)'
    BY <1>2, <1>3 DEF Settled, Touches
<1>4. CASE UNCHANGED req
    BY <1>1, <1>3, <1>4 DEF Settled
<1>5. ASSUME NEW q \in Requests, Request(q) PROVE Settled(o)'
  <2>1. \A p \in Requests \ {q} : req'[p] = req[p]
      BY <1>5, RequestTyped
  <2> QED
      BY <1>1, <1>3, <1>5, <2>1, SettledRequests DEF Settled
<1>6. ASSUME NEW q \in Requests, Fail(q) PROVE Settled(o)'
  <2>1. req'[q] = Idle /\ \A p \in Requests \ {q} : req'[p] = req[p]
      BY <1>6, ReplyTyped DEF Fail
  <2>2. ~Touches(q, o)'
      BY <2>1 DEF Touches, Idle
  <2> QED
      BY <1>1, <1>3, <2>1, <2>2 DEF Settled
<1> QED
    BY <1>4, <1>5, <1>6 DEF Next, vars, AddUserIfNeeded

\* Once the requests that found an object are over, its deletion is final and what
\* belongs to it stays as it is, but for comments that administrators delete.
THEOREM DeletedObjectsStaySettled == Spec => DeletedObjectsSettle
<1>1. ASSUME IInv, [Next]_vars, NEW o \in Objects, Settled(o)
      PROVE  /\ Settled(o)'
             /\ On(o)' \subseteq On(o)
             /\ \A e \in On(o) : entry'[e] = entry[e] \/ entry[e].kind = "Comment"
    BY <1>1, SettledNext, SettledEntries
<1>2. IInv /\ [Next]_vars =>
         [\A o \in Objects : Settled(o) =>
             /\ Settled(o)'
             /\ On(o)' \subseteq On(o)
             /\ \A e \in On(o) : entry'[e] = entry[e] \/ entry[e].kind = "Comment"]_vars
    BY <1>1
<1> QED
    BY <1>2, Invariance, PTL DEF Spec, DeletedObjectsSettle
=============================================================================
