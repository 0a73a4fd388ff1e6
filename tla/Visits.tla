------------------------------- MODULE Visits -------------------------------
(***************************************************************************)
(* The Authorization service and a service that its users call with the    *)
(* access tokens it has issued.  The service (the catalog, or the          *)
(* transactions) copies the user and the log-in an access token names when *)
(* it sees them first: Accounts composed with UserCopies.                  *)
(***************************************************************************)
EXTENDS Accounts

CONSTANTS Visitors  \* request slots of the service

VARIABLES
    copiedUser,     \* the service's table Users
    copiedLogin,    \* the service's table Logins
    visit           \* the requests in flight at the service

copied == <<copiedUser, copiedLogin>>
visits == <<vars, copied, visit>>

Copy == INSTANCE UserCopies WITH
            Requests <- Visitors, user <- copiedUser, login <- copiedLogin, req <- visit

VisitInit ==
    /\ Init
    /\ Copy!InitCopies
    /\ visit = [v \in Visitors |-> Copy!Idle]

\* A request with access token t. Tokens are good for 30 days, whatever happens to the
\* account.
Call(v, t) ==
    /\ t \in token
    /\ Copy!AddCurrentUserIfNeeded(v, t.tokenId, "call")
    /\ UNCHANGED vars

\* The log-in is asked of the Authorization service, which throws if it is gone.
AskLogin(v) ==
    /\ \/ \E l \in Logins :
             /\ visit[v].at = "askLogin" /\ visit[v].login = l
             /\ login[l] # NoRow
             /\ Copy!GetLoginInformation(v, login[l])
       \/ \E l \in Logins :
             /\ visit[v].at = "askLogin" /\ visit[v].login = l
             /\ login[l] = NoRow
             /\ Copy!Reply(v)
             /\ UNCHANGED copied
    /\ UNCHANGED vars

SaveCopy(v) ==
    /\ Copy!SaveUser(v) \/ Copy!SaveLogin(v)
    /\ UNCHANGED vars

\* The call has its user and does what it came for.
Perform(v) ==
    /\ visit[v].at = "perform"
    /\ Copy!Reply(v)
    /\ UNCHANGED <<vars, copied>>

DieVisiting(v) ==
    /\ visit[v] # Copy!Idle
    /\ deaths < MaxDeaths
    /\ deaths' = deaths + 1
    /\ Copy!Reply(v)
    /\ UNCHANGED <<account, confirmations, logins, req, copied>>

ContinueVisit(v) == AskLogin(v) \/ SaveCopy(v) \/ Perform(v)

VisitNext ==
    \/ Next /\ UNCHANGED <<copied, visit>>
    \/ \E v \in Visitors :
          \/ \E t \in token : Call(v, t)
          \/ ContinueVisit(v)
          \/ DieVisiting(v)

VisitSpec == VisitInit /\ [][VisitNext]_visits

-----------------------------------------------------------------------------
\* The service files a log-in under the user whose access token names it, and has that
\* user: whichever requests copy them at the same time, and whatever is deleted.
CopiesAgree ==
    \A l \in Logins :
        copiedLogin[l] # NoRow =>
            /\ copiedLogin[l] \in copiedUser
            /\ \A t \in token : t.tokenId = l => t.user = copiedLogin[l]

\* Users whose tokens name log-in l.
Calls(l) == \E v \in Visitors, t \in token : t.tokenId = l /\ Call(v, t)

VisitFairness ==
    /\ \A v \in Visitors : WF_visit(ContinueVisit(v))
    /\ \A l \in Logins : SF_visit(Calls(l))

FairVisitSpec == VisitSpec /\ Fairness /\ VisitFairness

\* Of two first calls of a user one fails on the key that the other has saved: who calls
\* again is let in, unless the account is deleted.
CallersAreLetIn ==
    \A l \in Logins :
        (\E t \in token : t.tokenId = l) ~> (copiedLogin[l] # NoRow \/ login[l] = NoRow)
=============================================================================
