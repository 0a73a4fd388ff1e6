------------------------------ MODULE Accounts ------------------------------
(***************************************************************************)
(* The Authorization service: an account is registered, confirmed with a   *)
(* code that is mailed to it, logged in to, and deleted by an              *)
(* administrator.                                                          *)
(*                                                                         *)
(* Confirmation codes and log-ins are ordered by the time they were made   *)
(* (ExpiresAtUtc is 30 minutes later, LoggedAt is that time).  Both are    *)
(* numbered in that order; the rows may be saved in another order.  As in  *)
(* the other services a handler is cut where it awaits.                    *)
(***************************************************************************)
EXTENDS Naturals

CONSTANTS
    Users,      \* accounts, each registered at most once
    Requests,   \* request slots: how many run at the same time
    MaxCodes,   \* how many codes may be made
    MaxLogins,  \* how many log-ins there may be
    MaxDeaths,  \* how many requests may die
    NoRow       \* the row that is not there

Codes  == 1..MaxCodes
Logins == 1..MaxLogins

ASSUME AccountsAssumption ==
    /\ MaxCodes \in Nat /\ MaxLogins \in Nat /\ MaxDeaths \in Nat
    /\ NoRow \notin Users

VARIABLES
    account,    \* table AspNetUsers: absent, EmailConfirmed or not, deleted
    code,       \* table Confirmations: the user of each code
    lastCode,   \* how many codes have been made
    expired,    \* the codes up to this one have expired
    mailed,     \* codes that have reached the user's mailbox
    login,      \* table Logins: the user of each log-in
    lastLogin,  \* how many log-ins there have been
    token,      \* access tokens: the user, the log-in that asked, the log-in it names
    req,        \* the requests in flight
    deaths      \* how many requests have died

confirmations == <<code, lastCode, expired, mailed>>
logins        == <<login, lastLogin, token>>
vars == <<account, confirmations, logins, req, deaths>>

Idle == [at |-> "idle"]
InFlight ==
    {Idle}
    \cup [at : {"saveCode", "sendMail"}, user : Users, code : Codes]
    \cup [at : {"deleteCodes", "markConfirmed"}, user : Users, codes : SUBSET Codes]
    \cup [at : {"saveLogin", "issueToken"}, user : Users, login : Logins]

Token == [user : Users, own : Logins, tokenId : Logins]

Init ==
    /\ account = [u \in Users |-> "absent"]
    /\ code = [c \in Codes |-> NoRow] /\ lastCode = 0 /\ expired = 0 /\ mailed = {}
    /\ login = [l \in Logins |-> NoRow] /\ lastLogin = 0 /\ token = {}
    /\ req = [q \in Requests |-> Idle]
    /\ deaths = 0

-----------------------------------------------------------------------------
Exists(u) == account[u] \in {"unconfirmed", "confirmed"}

CodesOf(u) == {c \in Codes : code[c] = u}

\* The code of u that expires last; the earlier ones are not accepted any more.
LastCodeOf(u, c) == c \in CodesOf(u) /\ \A d \in CodesOf(u) : d <= c

\* Mutant of LatestLogin: the order is the other way round.
FirstLogin(u, l) == login[l] = u /\ \A m \in Logins : login[m] = u => m >= l

\* GetUserLoginId: the latest log-in of u.
LatestLogin(u, l) == login[l] = u /\ \A m \in Logins : login[m] = u => m <= l

Go(q, next) == req' = [req EXCEPT ![q] = next]
Reply(q) == Go(q, Idle)

-----------------------------------------------------------------------------
(* Registration and confirmation.                                          *)

\* GenerateConfirmationCodeAsync, up to its save.
MakeCode(q, u) ==
    /\ lastCode < MaxCodes
    /\ lastCode' = lastCode + 1
    /\ Go(q, [at |-> "saveCode", user |-> u, code |-> lastCode + 1])

\* The account is saved before its first code is made.
Register(q, u) ==
    /\ req[q] = Idle
    /\ account[u] = "absent"
    /\ account' = [account EXCEPT ![u] = "unconfirmed"]
    /\ MakeCode(q, u)
    /\ UNCHANGED <<code, expired, mailed, logins, deaths>>

\* A code for an account that was deleted meanwhile violates the foreign key.
SaveCode(q) ==
    /\ req[q].at = "saveCode"
    /\ LET u == req[q].user
           c == req[q].code IN
       \/ Exists(u) /\ code' = [code EXCEPT ![c] = u]
                    /\ Go(q, [at |-> "sendMail", user |-> u, code |-> c])
       \/ ~Exists(u) /\ Reply(q) /\ UNCHANGED code
    /\ UNCHANGED <<account, lastCode, expired, mailed, logins, deaths>>

SendMail(q) ==
    /\ req[q].at = "sendMail"
    /\ mailed' = mailed \cup {req[q].code}
    /\ Reply(q)
    /\ UNCHANGED <<account, code, lastCode, expired, logins, deaths>>

\* Mutant of ResendEmailConfirmation: a confirmed account gets another code, too.
ResendToAnyone(q, u) ==
    /\ req[q] = Idle
    /\ Exists(u)
    /\ MakeCode(q, u)
    /\ UNCHANGED <<account, code, expired, mailed, logins, deaths>>

\* Mutant of ResendEmailConfirmation: another code only in the place of an earlier one.
ResendForCode(q, u) ==
    /\ req[q] = Idle
    /\ account[u] = "unconfirmed" /\ CodesOf(u) # {}
    /\ MakeCode(q, u)
    /\ UNCHANGED <<account, code, expired, mailed, logins, deaths>>

\* Only an account that is not confirmed gets another code; the earlier codes stay.
ResendEmailConfirmation(q, u) ==
    /\ req[q] = Idle
    /\ account[u] = "unconfirmed"
    /\ MakeCode(q, u)
    /\ UNCHANGED <<account, code, expired, mailed, logins, deaths>>

\* The user enters code c, which must be the last one and in time. All codes of the
\* user will be deleted.
ConfirmEmail(q, u, c) ==
    /\ req[q] = Idle
    /\ c \in mailed
    /\ LastCodeOf(u, c)
    /\ c > expired
    /\ Go(q, [at |-> "deleteCodes", user |-> u, codes |-> CodesOf(u)])
    /\ UNCHANGED <<account, confirmations, logins, deaths>>

\* Mutant of DeleteCodes: codes that are not there any more are passed over.
DeleteCodesLeft(q) ==
    /\ req[q].at = "deleteCodes"
    /\ code' = [c \in Codes |-> IF c \in req[q].codes THEN NoRow ELSE code[c]]
    /\ Go(q, [at |-> "markConfirmed", user |-> req[q].user, codes |-> req[q].codes])
    /\ UNCHANGED <<account, lastCode, expired, mailed, logins, deaths>>

\* A code that another request has deleted since makes the save fail as a whole.
DeleteCodes(q) ==
    /\ req[q].at = "deleteCodes"
    /\ LET mine == req[q].codes IN
       \/ /\ \A c \in mine : code[c] # NoRow
          /\ code' = [c \in Codes |-> IF c \in mine THEN NoRow ELSE code[c]]
          /\ Go(q, [at |-> "markConfirmed", user |-> req[q].user, codes |-> mine])
       \/ (\E c \in mine : code[c] = NoRow) /\ Reply(q) /\ UNCHANGED code
    /\ UNCHANGED <<account, lastCode, expired, mailed, logins, deaths>>

\* A user that was deleted meanwhile ends the request with an error.
MarkConfirmed(q) ==
    /\ req[q].at = "markConfirmed"
    /\ LET u == req[q].user IN
       account' = IF Exists(u) THEN [account EXCEPT ![u] = "confirmed"] ELSE account
    /\ Reply(q)
    /\ UNCHANGED <<confirmations, logins, deaths>>

\* Mutant of Expire: codes expire before they are made.
ExpireAhead ==
    /\ expired' = expired + 1
    /\ UNCHANGED <<account, code, lastCode, mailed, logins, req, deaths>>

\* Codes expire in the order in which they were made.
Expire ==
    /\ expired < lastCode
    /\ expired' = expired + 1
    /\ UNCHANGED <<account, code, lastCode, mailed, logins, req, deaths>>

-----------------------------------------------------------------------------
(* Log-in and deletion.                                                    *)

\* The password was right and the account confirmed.
LogIn(q, u) ==
    /\ req[q] = Idle
    /\ account[u] = "confirmed"
    /\ lastLogin < MaxLogins
    /\ lastLogin' = lastLogin + 1
    /\ Go(q, [at |-> "saveLogin", user |-> u, login |-> lastLogin + 1])
    /\ UNCHANGED <<account, confirmations, login, token, deaths>>

\* Mutant of UserLoggedIn: the log-in of a deleted user is saved, too.
UserLoggedInAnyway(q) ==
    /\ req[q].at = "saveLogin"
    /\ login' = [login EXCEPT ![req[q].login] = req[q].user]
    /\ Go(q, [at |-> "issueToken", user |-> req[q].user, login |-> req[q].login])
    /\ UNCHANGED <<account, confirmations, lastLogin, token, deaths>>

UserLoggedIn(q) ==
    /\ req[q].at = "saveLogin"
    /\ LET u == req[q].user
           l == req[q].login IN
       \/ Exists(u) /\ login' = [login EXCEPT ![l] = u]
                    /\ Go(q, [at |-> "issueToken", user |-> u, login |-> l])
       \/ ~Exists(u) /\ Reply(q) /\ UNCHANGED login
    /\ UNCHANGED <<account, confirmations, lastLogin, token, deaths>>

\* The access token names the latest log-in of the user, whichever request made it.
IssueToken(q) ==
    /\ req[q].at = "issueToken"
    /\ LET u == req[q].user IN
       \/ \E l \in Logins : /\ LatestLogin(u, l)
                            /\ token' = token \cup {[user |-> u, own |-> req[q].login,
                                                     tokenId |-> l]}
       \/ ~Exists(u) /\ UNCHANGED token
    /\ Reply(q)
    /\ UNCHANGED <<account, confirmations, login, lastLogin, deaths>>

\* Codes and log-ins are deleted with their user.
DeleteUser(u) ==
    /\ Exists(u)
    /\ account' = [account EXCEPT ![u] = "deleted"]
    /\ code' = [c \in Codes |-> IF code[c] = u THEN NoRow ELSE code[c]]
    /\ login' = [l \in Logins |-> IF login[l] = u THEN NoRow ELSE login[l]]
    /\ UNCHANGED <<lastCode, expired, mailed, lastLogin, token, req, deaths>>

Die(q) ==
    /\ req[q] # Idle
    /\ deaths < MaxDeaths
    /\ deaths' = deaths + 1
    /\ Reply(q)
    /\ UNCHANGED <<account, confirmations, logins>>

-----------------------------------------------------------------------------
Continue(q) ==
    \/ SaveCode(q) \/ SendMail(q) \/ DeleteCodes(q) \/ MarkConfirmed(q)
    \/ UserLoggedIn(q) \/ IssueToken(q)

Request(q) ==
    \/ \E u \in Users :
          \/ Register(q, u) \/ ResendEmailConfirmation(q, u) \/ LogIn(q, u)
          \/ \E c \in Codes : ConfirmEmail(q, u, c)
    \/ Continue(q)

Next ==
    \/ \E q \in Requests : Request(q) \/ Die(q)
    \/ \E u \in Users : DeleteUser(u)
    \/ Expire

Spec == Init /\ [][Next]_vars

-----------------------------------------------------------------------------
(* Properties.                                                             *)

TypeOK ==
    /\ account \in [Users -> {"absent", "unconfirmed", "confirmed", "deleted"}]
    /\ code \in [Codes -> Users \cup {NoRow}]
    /\ lastCode \in 0..MaxCodes
    /\ expired \in 0..MaxCodes
    /\ mailed \subseteq Codes
    /\ login \in [Logins -> Users \cup {NoRow}]
    /\ lastLogin \in 0..MaxLogins
    /\ token \subseteq Token
    /\ req \in [Requests -> InFlight]
    /\ deaths \in 0..MaxDeaths

\* A log-in asks for the latest log-in of the user to name it in the access token, and
\* others may log in meanwhile: the token never names an older log-in than its own, nor
\* one of another user.
TokenIsNotOlder ==
    \A t \in token :
        /\ t.own <= t.tokenId
        /\ login[t.tokenId] # NoRow => login[t.tokenId] = t.user

\* Two submissions of one code, or of two codes of one user, both pass the check; a
\* request that goes on to confirm the account is the only one that has used its codes.
CodesAreUsedOnce ==
    \A p, q \in Requests :
        /\ p # q
        /\ req[p].at = "markConfirmed" /\ req[q].at = "markConfirmed"
        => req[p].codes \cap req[q].codes = {}

\* Neither a code nor a log-in is left of a deleted account, although the requests that
\* save them may overlap with the deletion.
NothingOutlivesItsAccount ==
    /\ \A c \in Codes : code[c] # NoRow => Exists(code[c])
    /\ \A l \in Logins : login[l] # NoRow => Exists(login[l])

\* Nothing is under way that was begun before the account of u was confirmed.
Settled(u) ==
    /\ account[u] \in {"confirmed", "deleted"}
    /\ \A q \in Requests : req[q].at \in {"saveCode", "sendMail"} => req[q].user # u

\* The check that an account is not confirmed yet is made before the code is: a code may
\* be saved for an account that was confirmed meanwhile, but once those requests are
\* over no code of it is ever added again.
ConfirmedGetsNoCodes ==
    [][\A u \in Users : Settled(u) => Settled(u)' /\ CodesOf(u)' \subseteq CodesOf(u)]_vars

-----------------------------------------------------------------------------
(* Requests go on (WF). A user who is not confirmed is assumed to go on    *)
(* too: to enter a code that is valid and to ask for another one (SF: each *)
(* is tried again whenever the service is free).                           *)

Confirms(u) == \E q \in Requests, c \in Codes : ConfirmEmail(q, u, c)
Resends(u)  == \E q \in Requests : ResendEmailConfirmation(q, u)

Fairness ==
    /\ \A q \in Requests : WF_req(Continue(q))
    /\ \A u \in Users : SF_req(Confirms(u)) /\ SF_req(Resends(u))

FairSpec == Spec /\ Fairness

\* The codes are deleted before the account is confirmed, and mailed after they are
\* saved: whatever dies in between, the user can still be confirmed. (Unless an
\* administrator deletes the account, or all codes of the instance have been made.)
ConfirmationRecovers ==
    \A u \in Users :
        account[u] = "unconfirmed" ~> account[u] # "unconfirmed" \/ lastCode = MaxCodes
=============================================================================
