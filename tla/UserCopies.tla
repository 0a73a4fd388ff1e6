----------------------------- MODULE UserCopies -----------------------------
(***************************************************************************)
(* UserDataManager: the Catalog service and the Transaction service each   *)
(* keep a copy of the users and logins that have called them.  A request   *)
(* first looks up the login that its access token names; one that is not   *)
(* there is asked of the Authorization service and added, with its user if *)
(* the user is not there either.  Nothing is ever removed from the copy.   *)
(*                                                                         *)
(* The steps are those of one request q, cut where it awaits; what the     *)
(* request does once it has its user is its job.                           *)
(***************************************************************************)
CONSTANTS
    Users,
    Logins,         \* logins, named by the access tokens
    Requests,       \* request slots: how many run at the same time
    NoRow           \* the row that is not there

ASSUME UserCopiesAssumption == NoRow \notin Users

VARIABLES
    user,   \* keys of the table Users
    login,  \* table Logins: the user of each login
    req     \* the requests in flight

copies == <<user, login>>

Idle == [at |-> "idle"]
\* A request on its way to one of Jobs.
Copying(Jobs) ==
    [at : {"askLogin"}, login : Logins, job : Jobs]
    \cup [at : {"saveUser", "saveLogin"}, login : Logins, user : Users, job : Jobs]
    \cup [at : {"perform"}, user : Users, job : Jobs]

InitCopies ==
    /\ user = {}
    /\ login = [l \in Logins |-> NoRow]

Go(q, next) == req' = [req EXCEPT ![q] = next]
Reply(q) == Go(q, Idle)
Perform(q, u) == Go(q, [at |-> "perform", user |-> u, job |-> req[q].job])

\* A login that is in the table gives the user it belongs to.
AddCurrentUserIfNeeded(q, l, job) ==
    /\ req[q] = Idle
    /\ \/ /\ login[l] # NoRow
          /\ Go(q, [at |-> "perform", user |-> login[l], job |-> job])
       \/ /\ login[l] = NoRow
          /\ Go(q, [at |-> "askLogin", login |-> l, job |-> job])
    /\ UNCHANGED copies

\* Mutant of GetLoginInformation: the user is not looked up and taken to be there.
GetLoginOfKnownUser(q, u) ==
    /\ req[q].at = "askLogin"
    /\ Go(q, [at |-> "saveLogin", login |-> req[q].login, user |-> u, job |-> req[q].job])
    /\ UNCHANGED copies

\* Mutant of GetLoginInformation: the user is not looked up and taken to be missing.
GetLoginOfNewUser(q, u) ==
    /\ req[q].at = "askLogin"
    /\ Go(q, [at |-> "saveUser", login |-> req[q].login, user |-> u, job |-> req[q].job])
    /\ UNCHANGED copies

\* The Authorization service answers that the login is one of user u, who is looked up.
GetLoginInformation(q, u) ==
    /\ req[q].at = "askLogin"
    /\ Go(q, [at |-> IF u \in user THEN "saveLogin" ELSE "saveUser",
              login |-> req[q].login, user |-> u, job |-> req[q].job])
    /\ UNCHANGED copies

\* User and login are added in one save. Another request may have added either since:
\* the key is taken, nobody catches the exception, and the request fails.
SaveUser(q) ==
    /\ req[q].at = "saveUser"
    /\ LET l == req[q].login
           u == req[q].user IN
       \/ /\ u \notin user /\ login[l] = NoRow
          /\ user' = user \cup {u}
          /\ login' = [login EXCEPT ![l] = u]
          /\ Perform(q, u)
       \/ (u \in user \/ login[l] # NoRow) /\ Reply(q) /\ UNCHANGED copies

SaveLogin(q) ==
    /\ req[q].at = "saveLogin"
    /\ LET l == req[q].login IN
       \/ /\ login[l] = NoRow
          /\ login' = [login EXCEPT ![l] = req[q].user]
          /\ Perform(q, req[q].user)
       \/ login[l] # NoRow /\ Reply(q) /\ UNCHANGED login
    /\ UNCHANGED user
=============================================================================
