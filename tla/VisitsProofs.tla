---------------------------- MODULE VisitsProofs ----------------------------
(***************************************************************************)
(* The copies that a service keeps of the users and log-ins that have      *)
(* called it agree with the access tokens, for every number of accounts,   *)
(* requests, log-ins and deaths.                                           *)
(*                                                                         *)
(* The service asks whose a log-in is and files it later, while accounts   *)
(* are deleted and log-ins saved.  The answer is still right then, because *)
(* the number of a log-in is never used again (Known, from the invariant   *)
(* of Accounts).                                                           *)
(***************************************************************************)
EXTENDS Visits, AccountsProofs

\* Log-in l is that of u, and of nobody else ever after.
Known(l, u) ==
    /\ LoginSpent(l)
    /\ login[l] \in {u, NoRow}
    /\ \A t \in token : t.tokenId = l => t.user = u

CopiesTyped ==
    /\ copiedUser \subseteq Users
    /\ copiedLogin \in [Logins -> Users \cup {NoRow}]
    /\ visit \in [Visitors -> {Copy!Idle} \cup Copy!Copying({"call"})]

\* What the service has filed, and what it is about to file.
CopiesKnow ==
    \A l \in Logins : copiedLogin[l] # NoRow =>
        copiedLogin[l] \in copiedUser /\ Known(l, copiedLogin[l])

VisitsKnow ==
    \A v \in Visitors :
        /\ visit[v].at \in {"saveUser", "saveLogin"} => Known(visit[v].login, visit[v].user)
        /\ visit[v].at = "saveLogin" => visit[v].user \in copiedUser

VInv == IInv /\ CopiesTyped /\ CopiesKnow /\ VisitsKnow

-----------------------------------------------------------------------------
LEMMA KnownStays ==
    ASSUME IInv, [Next]_vars, NEW l \in Logins, NEW u \in Users, Known(l, u)
    PROVE  Known(l, u)'
<1>1. LoginSpent(l)'
    BY SpentStays DEF Known
<1>2. login'[l] \in {u, NoRow}
  <2>1. ASSUME login'[l] # login[l], login'[l] # NoRow PROVE FALSE
    <3>1. PICK q \in Requests : UserLoggedIn(q) /\ req[q].login = l
        BY <2>1, TablesChange
    <3> QED
        BY <3>1 DEF Known, LoginSpent, UserLoggedIn
  <2> QED
      BY <2>1 DEF Known
<1>3. ASSUME NEW t \in token', t.tokenId = l PROVE t.user = u
  <2>1. t.user \in Users
      BY <1>3, TypeNext DEF IInv, TypeOK, Token
  <2>2. CASE t \in token
      BY <1>3, <2>2 DEF Known
  <2>3. CASE t \notin token
    <3>1. LatestLogin(t.user, t.tokenId)
        BY <2>3, TablesChange
    <3> QED
        BY <1>3, <2>1, <3>1, AccountsAssumption DEF Known, LatestLogin
  <2> QED
      BY <2>2, <2>3
<1> QED
    BY <1>1, <1>2, <1>3 DEF Known

\* Whose a saved log-in is, is known.
LEMMA SavedIsKnown ==
    ASSUME IInv, NEW l \in Logins, login[l] # NoRow
    PROVE  login[l] \in Users /\ Known(l, login[l])
BY DEF IInv, TypeOK, Drawn, TokenIsNotOlder, Known

\* What a request in flight at the service carries, by where it is.
LEMMA VisitFields ==
    ASSUME CopiesTyped, NEW v \in Visitors
    PROVE  /\ visit[v].at \in {"askLogin", "saveUser", "saveLogin"} =>
                 visit[v].login \in Logins /\ visit[v].job = "call"
           /\ visit[v].at \in {"saveUser", "saveLogin"} => visit[v].user \in Users
BY DEF CopiesTyped, Copy!Idle, Copy!Copying

LEMMA VisitPlaces ==
    /\ Copy!Idle \in {Copy!Idle} \cup Copy!Copying({"call"})
    /\ \A l \in Logins :
          [at |-> "askLogin", login |-> l, job |-> "call"] \in Copy!Copying({"call"})
    /\ \A l \in Logins, u \in Users, p \in {"saveUser", "saveLogin"} :
          [at |-> p, login |-> l, user |-> u, job |-> "call"] \in Copy!Copying({"call"})
    /\ \A u \in Users :
          [at |-> "perform", user |-> u, job |-> "call"] \in Copy!Copying({"call"})
BY DEF Copy!Copying

\* The service's own steps: the Authorization service stays as it is, deaths apart.
LEMMA ServiceSteps ==
    ASSUME VInv, UNCHANGED <<account, confirmations, logins, req>>,
           deaths' \in 0..MaxDeaths, CopiesTyped', CopiesKnow', VisitsKnow'
    PROVE  VInv'
<1>1. IInv'
    BY DEF VInv, IInv, TypeOK, NothingOutlivesItsAccount, Exists, TokenIsNotOlder,
           CodesAreUsedOnce, Drawn, CodeSpent, LoginSpent, DrawnOnce, RequestsKnow, RequestKnows,
           confirmations, logins
<1> QED
    BY <1>1 DEF VInv

LEMMA KnownUnchanged ==
    ASSUME UNCHANGED <<account, confirmations, logins, req>>
    PROVE  \A l, u : Known(l, u)' = Known(l, u)
BY DEF Known, LoginSpent, logins

LEMMA VisitInitVInv ==
    ASSUME VisitInit
    PROVE  VInv
<1>1. CopiesTyped
    BY DEF VisitInit, CopiesTyped, Copy!InitCopies
<1>2. \A v \in Visitors : visit[v].at = "idle"
    BY DEF VisitInit, Copy!Idle
<1> QED
    BY <1>1, <1>2, InitIInv DEF VisitInit, Copy!InitCopies, VInv, CopiesKnow, VisitsKnow

LEMMA VisitGo ==
    ASSUME CopiesTyped, NEW v \in Visitors, NEW x \in {Copy!Idle} \cup Copy!Copying({"call"}),
           Copy!Go(v, x)
    PROVE  /\ visit' \in [Visitors -> {Copy!Idle} \cup Copy!Copying({"call"})]
           /\ visit'[v] = x
           /\ \A w \in Visitors \ {v} : visit'[w] = visit[w]
BY DEF CopiesTyped, Copy!Go

\* A step of one request of the service that leaves the copies alone.
LEMMA VisitStep ==
    ASSUME VInv, NEW v \in Visitors, NEW x \in {Copy!Idle} \cup Copy!Copying({"call"}),
           Copy!Go(v, x), UNCHANGED <<account, confirmations, logins, req, copied>>,
           deaths' \in 0..MaxDeaths,
           x.at \in {"saveUser", "saveLogin"} => Known(x.login, x.user),
           x.at = "saveLogin" => x.user \in copiedUser
    PROVE  VInv'
<1>1. /\ visit'[v] = x
      /\ \A w \in Visitors \ {v} : visit'[w] = visit[w]
      /\ CopiesTyped'
    BY VisitGo DEF VInv, CopiesTyped, copied
<1>2. VisitsKnow'
    BY <1>1, KnownUnchanged DEF VInv, VisitsKnow, copied
<1>3. CopiesKnow'
    BY KnownUnchanged DEF VInv, CopiesKnow, copied
<1> QED
    BY <1>1, <1>2, <1>3, ServiceSteps

\* A step of one request of the service that files log-in l under user u.
LEMMA FilingStep ==
    ASSUME VInv, NEW v \in Visitors, NEW l \in Logins, NEW u \in Users, Known(l, u),
           Copy!Perform(v, u), visit[v].job = "call",
           UNCHANGED vars,
           copiedLogin' = [copiedLogin EXCEPT ![l] = u],
           copiedUser' = copiedUser \cup {u}
    PROVE  VInv'
<1> DEFINE x == [at |-> "perform", user |-> u, job |-> "call"]
<1>1. /\ visit' \in [Visitors -> {Copy!Idle} \cup Copy!Copying({"call"})]
      /\ visit'[v] = x
      /\ \A w \in Visitors \ {v} : visit'[w] = visit[w]
    BY VisitPlaces, VisitGo DEF VInv, Copy!Perform
<1>2. CopiesTyped'
    BY <1>1 DEF VInv, CopiesTyped
<1>3. UNCHANGED <<account, confirmations, logins, req>> /\ deaths' \in 0..MaxDeaths
    BY DEF vars, VInv, IInv, TypeOK
<1>4. VisitsKnow'
    BY <1>1, <1>3, KnownUnchanged DEF VInv, VisitsKnow
<1>5. CopiesKnow'
    BY <1>3, KnownUnchanged DEF VInv, CopiesKnow, CopiesTyped
<1> QED
    BY <1>2, <1>3, <1>4, <1>5, ServiceSteps

LEMMA VisitNextVInv ==
    ASSUME VInv, [VisitNext]_visits
    PROVE  VInv'
<1> SUFFICES ASSUME VisitNext PROVE VInv'
  <2>1. ASSUME UNCHANGED visits PROVE VInv'
    <3>1. UNCHANGED <<account, confirmations, logins, req>> /\ deaths' \in 0..MaxDeaths
        BY <2>1 DEF visits, vars, VInv, IInv, TypeOK
    <3>2. CopiesTyped' /\ CopiesKnow' /\ VisitsKnow'
        BY <2>1, <3>1, KnownUnchanged
        DEF visits, copied, VInv, CopiesTyped, CopiesKnow, VisitsKnow
    <3> QED
        BY <3>1, <3>2, ServiceSteps
  <2> QED
      BY <2>1
<1>0. CopiesTyped /\ deaths \in 0..MaxDeaths /\ IInv
    BY DEF VInv, IInv, TypeOK
<1>1. CASE Next /\ UNCHANGED <<copied, visit>>
  <2>1. IInv'
      BY <1>0, <1>1, NextIInv
  <2>2. CopiesTyped'
      BY <1>0, <1>1 DEF CopiesTyped, copied
  <2>3. CopiesKnow'
      BY <1>0, <1>1, KnownStays DEF VInv, CopiesKnow, CopiesTyped, copied
  <2>4. VisitsKnow'
      BY <1>0, <1>1, KnownStays, VisitFields DEF VInv, VisitsKnow, copied
  <2> QED
      BY <2>1, <2>2, <2>3, <2>4 DEF VInv
<1>2. ASSUME NEW v \in Visitors, NEW t \in token, Call(v, t) PROVE VInv'
  <2>1. t.tokenId \in Logins
      BY <1>0 DEF IInv, TypeOK, Token
  <2>2. UNCHANGED <<account, confirmations, logins, req, copied>> /\ deaths' = deaths
      BY <1>2 DEF Call, Copy!AddCurrentUserIfNeeded, Copy!copies, copied, vars
  <2>3. CASE copiedLogin[t.tokenId] # NoRow
    <3>1. copiedLogin[t.tokenId] \in Users
        BY <1>0, <2>1, <2>3 DEF CopiesTyped
    <3>2. Copy!Go(v, [at |-> "perform", user |-> copiedLogin[t.tokenId], job |-> "call"])
        BY <1>2, <2>3 DEF Call, Copy!AddCurrentUserIfNeeded
    <3> QED
        BY <1>0, <2>2, <3>1, <3>2, VisitPlaces, VisitStep
  <2>4. CASE copiedLogin[t.tokenId] = NoRow
    <3>1. Copy!Go(v, [at |-> "askLogin", login |-> t.tokenId, job |-> "call"])
        BY <1>2, <2>4 DEF Call, Copy!AddCurrentUserIfNeeded
    <3> QED
        BY <1>0, <2>1, <2>2, <3>1, VisitPlaces, VisitStep
  <2> QED
      BY <2>3, <2>4
<1>3. ASSUME NEW v \in Visitors, AskLogin(v) PROVE VInv'
  <2>1. UNCHANGED <<account, confirmations, logins, req>> /\ deaths' = deaths
      BY <1>3 DEF AskLogin, vars
  <2>2. ASSUME NEW l \in Logins, visit[v].at = "askLogin", visit[v].login = l,
               login[l] # NoRow, Copy!GetLoginInformation(v, login[l])
        PROVE  VInv'
    <3>1. login[l] \in Users /\ Known(l, login[l]) /\ visit[v].job = "call"
        BY <1>0, <2>2, SavedIsKnown, VisitFields
    <3>2. UNCHANGED copied
        BY <2>2 DEF Copy!GetLoginInformation, Copy!copies, copied
    <3>3. CASE login[l] \in copiedUser
      <4>1. Copy!Go(v, [at |-> "saveLogin", login |-> l, user |-> login[l], job |-> "call"])
          BY <2>2, <3>1, <3>3 DEF Copy!GetLoginInformation
      <4> QED
          BY <1>0, <2>1, <3>1, <3>2, <3>3, <4>1, VisitPlaces, VisitStep
    <3>4. CASE login[l] \notin copiedUser
      <4>1. Copy!Go(v, [at |-> "saveUser", login |-> l, user |-> login[l], job |-> "call"])
          BY <2>2, <3>1, <3>4 DEF Copy!GetLoginInformation
      <4> QED
          BY <1>0, <2>1, <3>1, <3>2, <4>1, VisitPlaces, VisitStep
    <3> QED
        BY <3>3, <3>4
  <2>3. ASSUME Copy!Reply(v), UNCHANGED copied PROVE VInv'
    <3>1. Copy!Go(v, Copy!Idle) /\ Copy!Idle.at = "idle"
        BY <2>3 DEF Copy!Reply, Copy!Idle
    <3> QED
        BY <1>0, <2>1, <2>3, <3>1, VisitPlaces, VisitStep
  <2> QED
      BY <1>3, <2>2, <2>3 DEF AskLogin
<1>4. ASSUME NEW v \in Visitors,
             \/ Perform(v) \/ DieVisiting(v)
             \/ SaveCopy(v) /\ Copy!Reply(v) /\ UNCHANGED copied
      PROVE  VInv'
  <2>1. UNCHANGED <<account, confirmations, logins, req, copied>> /\ deaths' \in 0..MaxDeaths
      BY <1>0, <1>4, AccountsAssumption DEF Perform, DieVisiting, SaveCopy, vars
  <2>2. Copy!Go(v, Copy!Idle) /\ Copy!Idle.at = "idle"
      BY <1>4 DEF Perform, DieVisiting, Copy!Reply, Copy!Idle
  <2> QED
      BY <1>0, <2>1, <2>2, VisitPlaces, VisitStep
<1>5. ASSUME NEW v \in Visitors, SaveCopy(v) PROVE VInv'
  <2>1. UNCHANGED vars
      BY <1>5 DEF SaveCopy
  <2>2. CASE Copy!SaveUser(v)
    <3>1. /\ visit[v].login \in Logins /\ visit[v].user \in Users /\ visit[v].job = "call"
          /\ Known(visit[v].login, visit[v].user)
        BY <1>0, <2>2, VisitFields DEF VInv, VisitsKnow, Copy!SaveUser
    <3>2. \/ Copy!Reply(v) /\ UNCHANGED copied
          \/ /\ copiedUser' = copiedUser \cup {visit[v].user}
             /\ copiedLogin' = [copiedLogin EXCEPT ![visit[v].login] = visit[v].user]
             /\ Copy!Perform(v, visit[v].user)
        BY <2>2 DEF Copy!SaveUser, Copy!copies, copied
    <3> QED
        BY <1>4, <1>5, <2>1, <3>1, <3>2, FilingStep
  <2>3. CASE Copy!SaveLogin(v)
    <3>1. /\ visit[v].login \in Logins /\ visit[v].user \in Users /\ visit[v].job = "call"
          /\ Known(visit[v].login, visit[v].user) /\ visit[v].user \in copiedUser
        BY <1>0, <2>3, VisitFields DEF VInv, VisitsKnow, Copy!SaveLogin
    <3>2. \/ Copy!Reply(v) /\ UNCHANGED copied
          \/ /\ copiedUser' = copiedUser \cup {visit[v].user}
             /\ copiedLogin' = [copiedLogin EXCEPT ![visit[v].login] = visit[v].user]
             /\ Copy!Perform(v, visit[v].user)
        BY <2>3, <3>1 DEF Copy!SaveLogin, copied
    <3> QED
        BY <1>4, <1>5, <2>1, <3>1, <3>2, FilingStep
  <2> QED
      BY <1>5, <2>2, <2>3 DEF SaveCopy
<1> QED
    BY <1>1, <1>2, <1>3, <1>4, <1>5 DEF VisitNext, ContinueVisit

\* Whatever requests of the two services overlap or die, the invariant holds.
THEOREM VisitInvariance == VisitSpec => []VInv
BY VisitInitVInv, VisitNextVInv, PTL DEF VisitSpec

\* The service files a log-in under the user whose access token names it, and has that
\* user.
THEOREM CopiesAlwaysAgree == VisitSpec => []CopiesAgree
<1>1. VInv => CopiesAgree
    BY DEF VInv, CopiesKnow, Known, CopiesAgree
<1> QED
    BY <1>1, VisitInvariance, PTL

\* What holds of the Authorization service alone holds beside a service that is called:
\* its types, ...
THEOREM VisitTypeCorrect == VisitSpec => []TypeOK
<1>1. VInv => TypeOK
    BY DEF VInv, IInv
<1> QED
    BY <1>1, VisitInvariance, PTL

\* ... that no token names a log-in older than its own, or of another user, ...
THEOREM VisitTokensAreNotOlder == VisitSpec => []TokenIsNotOlder
<1>1. VInv => TokenIsNotOlder
    BY DEF VInv, IInv
<1> QED
    BY <1>1, VisitInvariance, PTL

\* ... that of the submissions that use a code only one confirms the account, ...
THEOREM VisitCodesUsedOnce == VisitSpec => []CodesAreUsedOnce
<1>1. VInv => CodesAreUsedOnce
    BY DEF VInv, IInv
<1> QED
    BY <1>1, VisitInvariance, PTL

\* ... and that no code or log-in is left of a deleted account.
THEOREM VisitNothingOutlives == VisitSpec => []NothingOutlivesItsAccount
<1>1. VInv => NothingOutlivesItsAccount
    BY DEF VInv, IInv
<1> QED
    BY <1>1, VisitInvariance, PTL

\* The service changes nothing of the Authorization service but its count of deaths.
LEMMA VisitsLeaveAccounts ==
    ASSUME [VisitNext]_visits
    PROVE  [Next]_vars \/ UNCHANGED <<account, confirmations, logins, req>>
<1>1. CASE UNCHANGED visits
    BY <1>1 DEF visits
<1>2. CASE Next /\ UNCHANGED <<copied, visit>>
    BY <1>2
<1>3. ASSUME NEW v \in Visitors, NEW t \in token, Call(v, t) PROVE UNCHANGED vars
    BY <1>3 DEF Call
<1>4. ASSUME NEW v \in Visitors, ContinueVisit(v) PROVE UNCHANGED vars
    BY <1>4 DEF ContinueVisit, AskLogin, SaveCopy, Perform
<1>5. ASSUME NEW v \in Visitors, DieVisiting(v)
      PROVE  UNCHANGED <<account, confirmations, logins, req>>
    BY <1>5 DEF DieVisiting
<1> QED
    BY <1>1, <1>2, <1>3, <1>4, <1>5 DEF VisitNext

\* However users call the service, no code of a confirmed account is added again once the
\* requests are over that were begun before.
THEOREM VisitNoCodesAfterConfirmation == VisitSpec => ConfirmedGetsNoCodes
<1>1. ASSUME VInv, [VisitNext]_visits
      PROVE  [\A u \in Users : Settled(u) => Settled(u)' /\ CodesOf(u)' \subseteq CodesOf(u)]_vars
  <2>1. CASE [Next]_vars
      BY <1>1, <2>1, SettledStays DEF VInv
  <2>2. CASE UNCHANGED <<account, confirmations, logins, req>>
      BY <2>2 DEF confirmations, Settled, CodesOf
  <2> QED
      BY <1>1, <2>1, <2>2, VisitsLeaveAccounts
<1> QED
    BY <1>1, VisitInvariance, PTL DEF VisitSpec, ConfirmedGetsNoCodes
=============================================================================
