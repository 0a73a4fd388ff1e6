--------------------------- MODULE AccountsProofs ---------------------------
(***************************************************************************)
(* Theorems about Accounts, for every number of accounts, requests, codes, *)
(* log-ins and deaths.                                                     *)
(*                                                                         *)
(* Codes and log-ins are numbered when they are made and saved later.  The *)
(* invariant says that a number is drawn once: one that is about to be     *)
(* saved is in no table, in no token and with no other request (Drawn,     *)
(* RequestsKnow).  So a code that was deleted never comes back, and a      *)
(* log-in that a token names is never that of somebody else.               *)
(***************************************************************************)
EXTENDS Accounts, TLAPS

\* Code c was saved once: no request will save it again.
CodeSpent(c) ==
    /\ c <= lastCode
    /\ \A q \in Requests : req[q].at = "saveCode" => req[q].code # c

LoginSpent(l) ==
    /\ l <= lastLogin
    /\ \A q \in Requests : req[q].at = "saveLogin" => req[q].login # l

Drawn ==
    /\ \A c \in Codes : code[c] # NoRow => CodeSpent(c)
    /\ \A l \in Logins : login[l] # NoRow => LoginSpent(l)
    /\ \A t \in token : LoginSpent(t.tokenId)

RequestKnows(q) ==
    /\ req[q].at = "saveCode" => req[q].code <= lastCode
    /\ req[q].at \in {"deleteCodes", "markConfirmed"} => \A c \in req[q].codes : CodeSpent(c)
    /\ req[q].at = "markConfirmed" => \A c \in req[q].codes : code[c] = NoRow
    /\ req[q].at = "saveLogin" => req[q].login <= lastLogin
    /\ req[q].at = "issueToken" =>
          login[req[q].login] = req[q].user \/ account[req[q].user] = "deleted"

\* No two requests are about to save the same number.
DrawnOnce ==
    \A p, q \in Requests : p # q =>
        /\ req[p].at = "saveCode" /\ req[q].at = "saveCode" => req[p].code # req[q].code
        /\ req[p].at = "saveLogin" /\ req[q].at = "saveLogin" => req[p].login # req[q].login

RequestsKnow == \A q \in Requests : RequestKnows(q)

IInv ==
    /\ TypeOK
    /\ NothingOutlivesItsAccount
    /\ TokenIsNotOlder
    /\ CodesAreUsedOnce
    /\ Drawn
    /\ DrawnOnce
    /\ RequestsKnow

-----------------------------------------------------------------------------
\* What a request in flight carries, by where it is.
LEMMA InFlightFields ==
    ASSUME NEW x \in InFlight
    PROVE  /\ x.at \in {"saveCode", "sendMail", "deleteCodes", "markConfirmed", "saveLogin",
                        "issueToken"} => x.user \in Users
           /\ x.at \in {"saveCode", "sendMail"} => x.code \in Codes
           /\ x.at \in {"deleteCodes", "markConfirmed"} => x.codes \in SUBSET Codes
           /\ x.at \in {"saveLogin", "issueToken"} => x.login \in Logins
BY DEF InFlight, Idle

\* Where a request can go.
LEMMA InFlightPlaces ==
    /\ Idle \in InFlight
    /\ \A u \in Users, c \in Codes :
          /\ [at |-> "saveCode", user |-> u, code |-> c] \in InFlight
          /\ [at |-> "sendMail", user |-> u, code |-> c] \in InFlight
    /\ \A u \in Users, C \in SUBSET Codes :
          /\ [at |-> "deleteCodes", user |-> u, codes |-> C] \in InFlight
          /\ [at |-> "markConfirmed", user |-> u, codes |-> C] \in InFlight
    /\ \A u \in Users, l \in Logins :
          /\ [at |-> "saveLogin", user |-> u, login |-> l] \in InFlight
          /\ [at |-> "issueToken", user |-> u, login |-> l] \in InFlight
BY DEF InFlight

LEMMA GoTyped ==
    ASSUME TypeOK, NEW q \in Requests, NEW x \in InFlight, Go(q, x)
    PROVE  /\ req' \in [Requests -> InFlight]
           /\ req'[q] = x
           /\ \A p \in Requests \ {q} : req'[p] = req[p]
BY DEF TypeOK, Go

LEMMA ReplyTyped ==
    ASSUME TypeOK, NEW q \in Requests, Reply(q)
    PROVE  /\ req' \in [Requests -> InFlight]
           /\ req'[q] = Idle
           /\ \A p \in Requests \ {q} : req'[p] = req[p]
BY InFlightPlaces, GoTyped DEF Reply

\* The next numbers.
LEMMA NextNumbers ==
    ASSUME TypeOK
    PROVE  /\ lastCode \in Nat /\ lastLogin \in Nat
           /\ lastCode < MaxCodes => lastCode + 1 \in Codes /\ lastCode + 1 \in 0..MaxCodes
           /\ lastLogin < MaxLogins => lastLogin + 1 \in Logins /\ lastLogin + 1 \in 0..MaxLogins
BY AccountsAssumption DEF TypeOK, Codes, Logins

LEMMA TypeNext ==
    ASSUME TypeOK, [Next]_vars
    PROVE  TypeOK'
<1>1. CASE UNCHANGED vars
    BY <1>1 DEF TypeOK, vars, confirmations, logins
<1>2. ASSUME NEW q \in Requests, NEW u \in Users, Register(q, u) \/ ResendEmailConfirmation(q, u)
      PROVE  TypeOK'
  <2>1. lastCode' \in 0..MaxCodes /\ req' \in [Requests -> InFlight]
      BY <1>2, NextNumbers, InFlightPlaces, GoTyped DEF Register, ResendEmailConfirmation, MakeCode
  <2> QED
      BY <1>2, <2>1 DEF TypeOK, Register, ResendEmailConfirmation, logins
<1>3. ASSUME NEW q \in Requests, NEW u \in Users, LogIn(q, u) PROVE TypeOK'
  <2>1. lastLogin' \in 0..MaxLogins /\ req' \in [Requests -> InFlight]
      BY <1>3, NextNumbers, InFlightPlaces, GoTyped DEF LogIn
  <2> QED
      BY <1>3, <2>1 DEF TypeOK, LogIn, confirmations
<1>4. ASSUME NEW q \in Requests, NEW u \in Users, NEW c \in Codes, ConfirmEmail(q, u, c)
      PROVE  TypeOK'
  <2>1. req' \in [Requests -> InFlight]
      BY <1>4, InFlightPlaces, GoTyped DEF ConfirmEmail, CodesOf
  <2> QED
      BY <1>4, <2>1 DEF TypeOK, ConfirmEmail, confirmations, logins
<1>5. ASSUME NEW q \in Requests, Continue(q) PROVE TypeOK'
  <2>1. req[q] \in InFlight
      BY DEF TypeOK
  <2>2. CASE SaveCode(q)
    <3>1. req[q].user \in Users /\ req[q].code \in Codes
        BY <2>1, <2>2, InFlightFields DEF SaveCode
    <3>2. req' \in [Requests -> InFlight]
        BY <2>2, <3>1, InFlightPlaces, GoTyped, ReplyTyped DEF SaveCode
    <3> QED
        BY <2>2, <3>1, <3>2 DEF SaveCode, TypeOK, logins
  <2>3. CASE SendMail(q)
    <3>1. req[q].code \in Codes
        BY <2>1, <2>3, InFlightFields DEF SendMail
    <3> QED
        BY <2>3, <3>1, ReplyTyped DEF SendMail, TypeOK, logins
  <2>4. CASE DeleteCodes(q)
    <3>1. req[q].user \in Users /\ req[q].codes \in SUBSET Codes
        BY <2>1, <2>4, InFlightFields DEF DeleteCodes
    <3>2. req' \in [Requests -> InFlight]
        BY <2>4, <3>1, InFlightPlaces, GoTyped, ReplyTyped DEF DeleteCodes
    <3> QED
        BY <2>4, <3>2 DEF DeleteCodes, TypeOK, logins
  <2>5. CASE MarkConfirmed(q)
      BY <2>5, ReplyTyped DEF MarkConfirmed, TypeOK, confirmations, logins
  <2>6. CASE UserLoggedIn(q)
    <3>1. req[q].user \in Users /\ req[q].login \in Logins
        BY <2>1, <2>6, InFlightFields DEF UserLoggedIn
    <3>2. req' \in [Requests -> InFlight]
        BY <2>6, <3>1, InFlightPlaces, GoTyped, ReplyTyped DEF UserLoggedIn
    <3> QED
        BY <2>6, <3>1, <3>2 DEF UserLoggedIn, TypeOK, confirmations
  <2>7. CASE IssueToken(q)
    <3>1. req[q].user \in Users /\ req[q].login \in Logins
        BY <2>1, <2>7, InFlightFields DEF IssueToken
    <3>2. \A l \in Logins : [user |-> req[q].user, own |-> req[q].login, tokenId |-> l] \in Token
        BY <3>1 DEF Token
    <3>3. token' \subseteq Token
        BY <2>7, <3>2 DEF IssueToken, TypeOK
    <3> QED
        BY <2>7, <3>3, ReplyTyped DEF IssueToken, TypeOK, confirmations
  <2> QED
      BY <1>5, <2>2, <2>3, <2>4, <2>5, <2>6, <2>7 DEF Continue
<1>6. ASSUME NEW q \in Requests, Die(q) PROVE TypeOK'
  <2>1. deaths' \in 0..MaxDeaths
      BY <1>6, AccountsAssumption DEF Die, TypeOK
  <2> QED
      BY <1>6, <2>1, ReplyTyped DEF Die, TypeOK, confirmations, logins
<1>7. ASSUME NEW u \in Users, DeleteUser(u) PROVE TypeOK'
    BY <1>7 DEF DeleteUser, TypeOK
<1>8. CASE Expire
    BY <1>8, AccountsAssumption DEF Expire, TypeOK, logins
<1> QED
    BY <1>1, <1>2, <1>3, <1>4, <1>5, <1>6, <1>7, <1>8 DEF Next, Request

-----------------------------------------------------------------------------
\* One request moves at a time, and who is about to save a number has just drawn it.
LEMMA NumbersAreDrawn ==
    ASSUME TypeOK, [Next]_vars
    PROVE  /\ lastCode' \in {lastCode, lastCode + 1} /\ lastLogin' \in {lastLogin, lastLogin + 1}
           /\ \A q \in Requests : req'[q] # req[q] =>
                 /\ \A p \in Requests \ {q} : req'[p] = req[p]
                 /\ req'[q].at = "saveCode" =>
                       lastCode' = lastCode + 1 /\ req'[q].code = lastCode + 1
                 /\ req'[q].at = "saveLogin" =>
                       lastLogin' = lastLogin + 1 /\ req'[q].login = lastLogin + 1
<1> DEFINE Moves(q) ==
              /\ \A p \in Requests \ {q} : req'[p] = req[p]
              /\ req'[q].at = "saveCode" =>
                    lastCode' = lastCode + 1 /\ req'[q].code = lastCode + 1
              /\ req'[q].at = "saveLogin" =>
                    lastLogin' = lastLogin + 1 /\ req'[q].login = lastLogin + 1
           Counts == /\ lastCode' \in {lastCode, lastCode + 1}
                     /\ lastLogin' \in {lastLogin, lastLogin + 1}
<1>0. req \in [Requests -> InFlight]
    BY DEF TypeOK
<1>1. SUFFICES Counts /\ (UNCHANGED req \/ \E q \in Requests : Moves(q))
    OBVIOUS
<1>2. CASE UNCHANGED vars \/ Expire \/ \E u \in Users : DeleteUser(u)
    BY <1>2 DEF vars, confirmations, logins, Expire, DeleteUser
<1>3. ASSUME NEW q \in Requests, Reply(q) PROVE Moves(q)
    BY <1>3, ReplyTyped DEF Idle
<1>4. ASSUME NEW q \in Requests, NEW u \in Users, Register(q, u) \/ ResendEmailConfirmation(q, u)
      PROVE  Counts /\ Moves(q)
    BY <1>0, <1>4 DEF Register, ResendEmailConfirmation, MakeCode, Go, logins
<1>5. ASSUME NEW q \in Requests, NEW u \in Users, LogIn(q, u) PROVE Counts /\ Moves(q)
    BY <1>0, <1>5 DEF LogIn, Go, confirmations
<1>6. ASSUME NEW q \in Requests, NEW u \in Users, NEW c \in Codes, ConfirmEmail(q, u, c)
      PROVE  Counts /\ Moves(q)
    BY <1>0, <1>6 DEF ConfirmEmail, Go, confirmations, logins
<1>7. ASSUME NEW q \in Requests, SaveCode(q) \/ DeleteCodes(q) PROVE Counts /\ Moves(q)
  <2>1. CASE Reply(q)
      BY <1>3, <1>7, <2>1 DEF SaveCode, DeleteCodes, logins
  <2>2. CASE ~Reply(q)
      BY <1>0, <1>7, <2>2 DEF SaveCode, DeleteCodes, Go, logins
  <2> QED
      BY <2>1, <2>2
<1>8. ASSUME NEW q \in Requests, UserLoggedIn(q) PROVE Counts /\ Moves(q)
  <2>1. CASE Reply(q)
      BY <1>3, <1>8, <2>1 DEF UserLoggedIn, confirmations
  <2>2. CASE ~Reply(q)
      BY <1>0, <1>8, <2>2 DEF UserLoggedIn, Go, confirmations
  <2> QED
      BY <2>1, <2>2
<1>9. ASSUME NEW q \in Requests, SendMail(q) \/ MarkConfirmed(q) \/ IssueToken(q) \/ Die(q)
      PROVE  Counts /\ Moves(q)
    BY <1>3, <1>9 DEF SendMail, MarkConfirmed, IssueToken, Die, confirmations, logins
<1> QED
    BY <1>2, <1>4, <1>5, <1>6, <1>7, <1>8, <1>9 DEF Next, Request, Continue

\* A spent number stays spent.
LEMMA SpentStays ==
    ASSUME IInv, [Next]_vars
    PROVE  /\ \A c \in Codes : CodeSpent(c) => CodeSpent(c)'
           /\ \A l \in Logins : LoginSpent(l) => LoginSpent(l)'
<1>1. TypeOK /\ lastCode \in Nat /\ lastLogin \in Nat
    BY NextNumbers DEF IInv
<1>2. Codes \subseteq Nat /\ Logins \subseteq Nat
    BY DEF Codes, Logins
<1>3. ASSUME NEW c \in Codes, CodeSpent(c) PROVE CodeSpent(c)'
  <2>1. c \in Nat /\ c <= lastCode /\ c <= lastCode' /\ lastCode' \in Nat
      BY <1>1, <1>2, <1>3, NumbersAreDrawn DEF CodeSpent
  <2>2. ASSUME NEW q \in Requests, req'[q].at = "saveCode" PROVE req'[q].code # c
    <3>1. CASE req'[q] = req[q]
        BY <1>3, <2>2, <3>1 DEF CodeSpent
    <3>2. CASE req'[q] # req[q]
      <4>1. req'[q].code = lastCode + 1
          BY <1>1, <2>2, <3>2, NumbersAreDrawn
      <4> QED
          BY <1>1, <2>1, <4>1
    <3> QED
        BY <3>1, <3>2
  <2> QED
      BY <2>1, <2>2 DEF CodeSpent
<1>4. ASSUME NEW l \in Logins, LoginSpent(l) PROVE LoginSpent(l)'
  <2>1. l \in Nat /\ l <= lastLogin /\ l <= lastLogin' /\ lastLogin' \in Nat
      BY <1>1, <1>2, <1>4, NumbersAreDrawn DEF LoginSpent
  <2>2. ASSUME NEW q \in Requests, req'[q].at = "saveLogin" PROVE req'[q].login # l
    <3>1. CASE req'[q] = req[q]
        BY <1>4, <2>2, <3>1 DEF LoginSpent
    <3>2. CASE req'[q] # req[q]
      <4>1. req'[q].login = lastLogin + 1
          BY <1>1, <2>2, <3>2, NumbersAreDrawn
      <4> QED
          BY <1>1, <2>1, <4>1
    <3> QED
        BY <3>1, <3>2
  <2> QED
      BY <2>1, <2>2 DEF LoginSpent
<1> QED
    BY <1>3, <1>4

LEMMA DrawnOnceNext ==
    ASSUME IInv, [Next]_vars
    PROVE  DrawnOnce'
<1>1. /\ TypeOK /\ lastCode \in Nat /\ lastLogin \in Nat
      /\ \A q \in Requests : /\ req[q].at = "saveCode" => req[q].code <= lastCode
                             /\ req[q].at = "saveLogin" => req[q].login <= lastLogin
    BY NextNumbers DEF IInv, RequestsKnow, RequestKnows
<1>2. \A q \in Requests : /\ req[q].at = "saveCode" => req[q].code \in Nat
                          /\ req[q].at = "saveLogin" => req[q].login \in Nat
    BY <1>1, InFlightFields DEF TypeOK, Codes, Logins
<1> SUFFICES ASSUME NEW p \in Requests, NEW q \in Requests, p # q
             PROVE  /\ req'[p].at = "saveCode" /\ req'[q].at = "saveCode"
                           => req'[p].code # req'[q].code
                    /\ req'[p].at = "saveLogin" /\ req'[q].at = "saveLogin"
                           => req'[p].login # req'[q].login
    BY DEF DrawnOnce
<1>3. CASE req'[p] = req[p] /\ req'[q] = req[q]
    BY <1>3 DEF IInv, DrawnOnce
<1>4. CASE req'[p] # req[p]
    BY <1>1, <1>2, <1>4, NumbersAreDrawn
<1>5. CASE req'[q] # req[q]
    BY <1>1, <1>2, <1>5, NumbersAreDrawn
<1> QED
    BY <1>3, <1>4, <1>5

\* What the tables and the tokens can gain, and when.
LEMMA TablesChange ==
    ASSUME IInv, [Next]_vars
    PROVE  /\ \A c \in Codes : code'[c] # code[c] /\ code'[c] # NoRow =>
                 \E q \in Requests : /\ SaveCode(q) /\ req[q].code = c
                                     /\ code'[c] = req[q].user /\ Exists(req[q].user)
           /\ \A l \in Logins : login'[l] # login[l] /\ login'[l] # NoRow =>
                 \E q \in Requests : /\ UserLoggedIn(q) /\ req[q].login = l
                                     /\ login'[l] = req[q].user /\ Exists(req[q].user)
           /\ \A t \in token' : t \notin token =>
                 \E q \in Requests : /\ IssueToken(q) /\ t.user = req[q].user
                                     /\ t.own = req[q].login /\ LatestLogin(t.user, t.tokenId)
<1> USE DEF IInv
<1> DEFINE Codes1 == code' = code
           Logins1 == login' = login
           Tokens1 == token' = token
<1>1. CASE UNCHANGED vars \/ Expire
    BY <1>1 DEF vars, confirmations, logins, Expire
<1>2. ASSUME NEW u \in Users, DeleteUser(u)
      PROVE  /\ \A c \in Codes : code'[c] # code[c] => code'[c] = NoRow
             /\ \A l \in Logins : login'[l] # login[l] => login'[l] = NoRow
             /\ Tokens1
    BY <1>2 DEF DeleteUser, TypeOK
<1>3. ASSUME NEW q \in Requests, NEW u \in Users,
             Register(q, u) \/ ResendEmailConfirmation(q, u) \/ LogIn(q, u)
             \/ \E c \in Codes : ConfirmEmail(q, u, c)
      PROVE  Codes1 /\ Logins1 /\ Tokens1
    BY <1>3 DEF Register, ResendEmailConfirmation, LogIn, ConfirmEmail, confirmations, logins
<1>4. ASSUME NEW q \in Requests, SendMail(q) \/ MarkConfirmed(q) \/ Die(q)
      PROVE  Codes1 /\ Logins1 /\ Tokens1
    BY <1>4 DEF SendMail, MarkConfirmed, Die, confirmations, logins
<1>5. ASSUME NEW q \in Requests, SaveCode(q)
      PROVE  /\ Logins1 /\ Tokens1
             /\ \A c \in Codes : code'[c] # code[c] => /\ req[q].code = c /\ code'[c] = req[q].user
                                                       /\ Exists(req[q].user)
    BY <1>5 DEF SaveCode, logins, TypeOK
<1>6. ASSUME NEW q \in Requests, DeleteCodes(q)
      PROVE  /\ Logins1 /\ Tokens1
             /\ \A c \in Codes : code'[c] # code[c] => code'[c] = NoRow
    BY <1>6 DEF DeleteCodes, logins, TypeOK
<1>7. ASSUME NEW q \in Requests, UserLoggedIn(q)
      PROVE  /\ Codes1 /\ Tokens1
             /\ \A l \in Logins : login'[l] # login[l] => /\ req[q].login = l
                                                          /\ login'[l] = req[q].user
                                                          /\ Exists(req[q].user)
    BY <1>7 DEF UserLoggedIn, confirmations, TypeOK
<1>8. ASSUME NEW q \in Requests, IssueToken(q)
      PROVE  /\ Codes1 /\ Logins1
             /\ \A t \in token' : t \notin token =>
                   /\ t.user = req[q].user /\ t.own = req[q].login
                   /\ LatestLogin(t.user, t.tokenId)
    BY <1>8 DEF IssueToken, confirmations
<1> QED
    BY <1>1, <1>2, <1>3, <1>4, <1>5, <1>6, <1>7, <1>8 DEF Next, Request, Continue

\* An account that exists is deleted by DeleteUser only, and stays deleted.
LEMMA AccountsChange ==
    ASSUME TypeOK, [Next]_vars, NEW u \in Users
    PROVE  /\ Exists(u) => Exists(u)' \/ DeleteUser(u)
           /\ account[u] = "deleted" => account'[u] = "deleted"
           /\ account[u] = "confirmed" => account'[u] \in {"confirmed", "deleted"}
<1>1. CASE UNCHANGED account
    BY <1>1 DEF Exists
<1>2. ASSUME NEW q \in Requests, NEW v \in Users, Register(q, v)
      PROVE  account' = [account EXCEPT ![v] = "unconfirmed"] /\ account[v] = "absent"
    BY <1>2 DEF Register
<1>3. ASSUME NEW q \in Requests, MarkConfirmed(q)
      PROVE  account' = account \/ (account' = [account EXCEPT ![req[q].user] = "confirmed"]
                                    /\ Exists(req[q].user))
    BY <1>3 DEF MarkConfirmed
<1>4. ASSUME NEW v \in Users, DeleteUser(v) PROVE account' = [account EXCEPT ![v] = "deleted"]
    BY <1>4 DEF DeleteUser
<1>5. account \in [Users -> {"absent", "unconfirmed", "confirmed", "deleted"}]
    BY DEF TypeOK
<1>6. CASE \E q \in Requests, v \in Users : Register(q, v)
    BY <1>2, <1>5, <1>6 DEF Exists
<1>7. CASE \E q \in Requests : MarkConfirmed(q)
    BY <1>3, <1>5, <1>7 DEF Exists
<1>8. CASE \E v \in Users : DeleteUser(v)
    BY <1>4, <1>5, <1>8 DEF Exists
<1>9. ASSUME NEW q \in Requests, NEW v \in Users,
             ResendEmailConfirmation(q, v) \/ LogIn(q, v) \/ \E c \in Codes : ConfirmEmail(q, v, c)
      PROVE  UNCHANGED account
    BY <1>9 DEF ResendEmailConfirmation, LogIn, ConfirmEmail
<1>10. ASSUME NEW q \in Requests, SaveCode(q) \/ SendMail(q) \/ DeleteCodes(q) \/ UserLoggedIn(q)
                                  \/ IssueToken(q) \/ Die(q)
       PROVE  UNCHANGED account
    BY <1>10 DEF SaveCode, SendMail, DeleteCodes, UserLoggedIn, IssueToken, Die
<1> QED
    BY <1>1, <1>6, <1>7, <1>8, <1>9, <1>10 DEF Next, Request, Continue, vars, Expire

\* A log-in is taken away with its user only.
LEMMA LoginsAreLost ==
    ASSUME IInv, [Next]_vars, NEW l \in Logins, login[l] # NoRow, login'[l] = NoRow
    PROVE  login[l] \in Users /\ DeleteUser(login[l])
<1> USE DEF IInv
<1>1. CASE UNCHANGED login
    BY <1>1
<1>2. ASSUME NEW q \in Requests, UserLoggedIn(q) PROVE FALSE
  <2>1. req[q].user \in Users
      BY <1>2, InFlightFields DEF UserLoggedIn, TypeOK
  <2> QED
      BY <1>2, <2>1, AccountsAssumption DEF UserLoggedIn, TypeOK
<1>3. ASSUME NEW u \in Users, DeleteUser(u) PROVE login[l] = u
    BY <1>3 DEF DeleteUser, TypeOK
<1>4. ASSUME NEW q \in Requests, NEW u \in Users,
             Register(q, u) \/ ResendEmailConfirmation(q, u) \/ LogIn(q, u)
             \/ \E c \in Codes : ConfirmEmail(q, u, c)
      PROVE  UNCHANGED login
    BY <1>4 DEF Register, ResendEmailConfirmation, LogIn, ConfirmEmail, logins
<1>5. ASSUME NEW q \in Requests, SaveCode(q) \/ SendMail(q) \/ DeleteCodes(q) \/ MarkConfirmed(q)
                                 \/ IssueToken(q) \/ Die(q)
      PROVE  UNCHANGED login
    BY <1>5 DEF SaveCode, SendMail, DeleteCodes, MarkConfirmed, IssueToken, Die, logins
<1>6. CASE UNCHANGED vars \/ Expire
    BY <1>6 DEF vars, Expire, logins
<1> QED
    BY <1>1, <1>2, <1>3, <1>4, <1>5, <1>6 DEF Next, Request, Continue

\* What a request has just read or saved where it goes.
LEMMA WhereRequestsGo ==
    ASSUME IInv, [Next]_vars, NEW q \in Requests, req'[q] # req[q]
    PROVE  /\ req'[q].at = "deleteCodes" => \E u \in Users : req'[q].codes = CodesOf(u)
           /\ req'[q].at = "markConfirmed" =>
                 /\ req'[q].codes = req[q].codes /\ req'[q].codes \in SUBSET Codes
                 /\ req[q].at = "deleteCodes"
                 /\ \A c \in req[q].codes : code[c] # NoRow /\ code'[c] = NoRow
           /\ req'[q].at = "issueToken" => login'[req'[q].login] = req'[q].user
           /\ req'[q].at = "sendMail" => SaveCode(q) /\ req'[q].user = req[q].user
           /\ req'[q].at = "saveCode" =>
                 \E u \in Users : /\ Register(q, u) \/ ResendEmailConfirmation(q, u)
                                  /\ req'[q].user = u
<1> USE DEF IInv
<1>0. req \in [Requests -> InFlight]
    BY DEF TypeOK
<1> DEFINE Facts ==
              /\ req'[q].at = "deleteCodes" => \E u \in Users : req'[q].codes = CodesOf(u)
              /\ req'[q].at = "markConfirmed" =>
                    /\ req'[q].codes = req[q].codes /\ req'[q].codes \in SUBSET Codes
                    /\ req[q].at = "deleteCodes"
                    /\ \A c \in req[q].codes : code[c] # NoRow /\ code'[c] = NoRow
              /\ req'[q].at = "issueToken" => login'[req'[q].login] = req'[q].user
              /\ req'[q].at = "sendMail" => SaveCode(q) /\ req'[q].user = req[q].user
              /\ req'[q].at = "saveCode" =>
                    \E u \in Users : /\ Register(q, u) \/ ResendEmailConfirmation(q, u)
                                     /\ req'[q].user = u
<1>1. SUFFICES Facts
    OBVIOUS
<1>2. CASE UNCHANGED req
    BY <1>2
<1>3. Reply(q) => Facts
    BY ReplyTyped DEF Idle
<1>4. ASSUME NEW p \in Requests, NEW x, Go(p, x) PROVE p = q
    BY <1>0, <1>4 DEF Go
<1>5. ASSUME NEW p \in Requests, NEW u \in Users,
             Register(p, u) \/ ResendEmailConfirmation(p, u)
      PROVE  Facts
  <2>1. p = q /\ req'[p] = [at |-> "saveCode", user |-> u, code |-> lastCode + 1]
      BY <1>0, <1>4, <1>5 DEF Register, ResendEmailConfirmation, MakeCode, Go
  <2> HIDE DEF Register, ResendEmailConfirmation
  <2> QED
      BY <1>5, <2>1
<1>6. ASSUME NEW p \in Requests, NEW u \in Users, LogIn(p, u) PROVE Facts
    BY <1>0, <1>4, <1>6 DEF LogIn, Go
<1>7. ASSUME NEW p \in Requests, NEW u \in Users, NEW c \in Codes, ConfirmEmail(p, u, c)
      PROVE  Facts
    BY <1>0, <1>4, <1>7 DEF ConfirmEmail, Go
<1>8. ASSUME NEW p \in Requests, SaveCode(p) PROVE Facts
  <2>1. p = q
      BY <1>4, <1>8 DEF SaveCode, Reply
  <2>2. CASE Go(q, [at |-> "sendMail", user |-> req[q].user, code |-> req[q].code])
      BY <1>0, <1>8, <2>1, <2>2 DEF Go
  <2> QED
      BY <1>3, <1>8, <2>1, <2>2 DEF SaveCode
<1>9. ASSUME NEW p \in Requests, DeleteCodes(p) PROVE Facts
  <2>1. p = q
      BY <1>4, <1>9 DEF DeleteCodes, Reply
  <2>2. CASE Go(q, [at |-> "markConfirmed", user |-> req[q].user, codes |-> req[q].codes])
    <3>1. req'[q].codes = req[q].codes /\ req'[q].at = "markConfirmed"
        BY <1>0, <2>2 DEF Go
    <3>2. req[q].codes \in SUBSET Codes /\ req[q].at = "deleteCodes"
        BY <1>0, <1>9, <2>1, InFlightFields DEF DeleteCodes
    <3>3. ~Reply(q)
        BY <3>1, ReplyTyped DEF Idle
    <3>4. \A c \in req[q].codes : code[c] # NoRow /\ code'[c] = NoRow
        BY <1>9, <2>1, <3>2, <3>3 DEF DeleteCodes
    <3> QED
        BY <3>1, <3>2, <3>4
  <2> QED
      BY <1>3, <1>9, <2>1, <2>2 DEF DeleteCodes
<1>10. ASSUME NEW p \in Requests, UserLoggedIn(p) PROVE Facts
  <2>1. p = q
      BY <1>4, <1>10 DEF UserLoggedIn, Reply
  <2>2. CASE Go(q, [at |-> "issueToken", user |-> req[q].user, login |-> req[q].login])
    <3>1. /\ req'[q].at = "issueToken" /\ req'[q].login = req[q].login
          /\ req'[q].user = req[q].user
        BY <1>0, <2>2 DEF Go
    <3>2. ~Reply(q)
        BY <3>1, ReplyTyped DEF Idle
    <3>3. req[q].login \in Logins
        BY <1>0, <1>10, <2>1, InFlightFields DEF UserLoggedIn
    <3>4. login'[req[q].login] = req[q].user
        BY <1>10, <2>1, <3>2, <3>3 DEF UserLoggedIn, TypeOK
    <3> QED
        BY <3>1, <3>4
  <2> QED
      BY <1>3, <1>10, <2>1, <2>2 DEF UserLoggedIn
<1>11. ASSUME NEW p \in Requests, SendMail(p) \/ MarkConfirmed(p) \/ IssueToken(p) \/ Die(p)
       PROVE  Facts
  <2>1. Reply(p)
      BY <1>11 DEF SendMail, MarkConfirmed, IssueToken, Die
  <2>2. p = q
      BY <1>4, <2>1 DEF Reply
  <2> QED
      BY <1>3, <2>1, <2>2
<1> QED
    BY <1>2, <1>5, <1>6, <1>7, <1>8, <1>9, <1>10, <1>11
    DEF Next, Request, Continue, vars, Expire, DeleteUser

-----------------------------------------------------------------------------
LEMMA NothingOutlivesNext ==
    ASSUME IInv, [Next]_vars
    PROVE  NothingOutlivesItsAccount'
<1> USE DEF IInv
<1>1. TypeOK'
    BY TypeNext
<1>2. ASSUME NEW c \in Codes, code'[c] # NoRow PROVE Exists(code[c])'
  <2>1. CASE code'[c] = code[c]
    <3>1. code[c] \in Users /\ Exists(code[c])
        BY <1>2, <2>1 DEF TypeOK, NothingOutlivesItsAccount
    <3>2. ~DeleteUser(code[c])
        BY <1>2, <2>1 DEF DeleteUser
    <3> QED
        BY <2>1, <3>1, <3>2, AccountsChange
  <2>2. CASE code'[c] # code[c]
    <3>1. PICK q \in Requests : SaveCode(q) /\ code'[c] = req[q].user /\ Exists(req[q].user)
        BY <1>2, <2>2, TablesChange
    <3> QED
        BY <3>1 DEF SaveCode, Exists
  <2> QED
      BY <2>1, <2>2
<1>3. ASSUME NEW l \in Logins, login'[l] # NoRow PROVE Exists(login[l])'
  <2>1. CASE login'[l] = login[l]
    <3>1. login[l] \in Users /\ Exists(login[l])
        BY <1>3, <2>1 DEF TypeOK, NothingOutlivesItsAccount
    <3>2. ~DeleteUser(login[l])
        BY <1>3, <2>1 DEF DeleteUser
    <3> QED
        BY <2>1, <3>1, <3>2, AccountsChange
  <2>2. CASE login'[l] # login[l]
    <3>1. PICK q \in Requests : UserLoggedIn(q) /\ login'[l] = req[q].user /\ Exists(req[q].user)
        BY <1>3, <2>2, TablesChange
    <3> QED
        BY <3>1 DEF UserLoggedIn, Exists
  <2> QED
      BY <2>1, <2>2
<1> QED
    BY <1>2, <1>3 DEF NothingOutlivesItsAccount

LEMMA TokenIsNotOlderNext ==
    ASSUME IInv, [Next]_vars
    PROVE  TokenIsNotOlder'
<1> USE DEF IInv
<1>1. TypeOK'
    BY TypeNext
<1> SUFFICES ASSUME NEW t \in token'
             PROVE  /\ t.own <= t.tokenId
                    /\ login'[t.tokenId] # NoRow => login'[t.tokenId] = t.user
    BY DEF TokenIsNotOlder
<1>2. t.user \in Users /\ t.own \in Logins /\ t.tokenId \in Logins
    BY <1>1 DEF TypeOK, Token
<1>3. CASE t \in token
  <2>1. /\ t.own <= t.tokenId /\ LoginSpent(t.tokenId)
        /\ login[t.tokenId] # NoRow => login[t.tokenId] = t.user
      BY <1>3 DEF TokenIsNotOlder, Drawn
  <2>2. ASSUME login'[t.tokenId] # login[t.tokenId], login'[t.tokenId] # NoRow PROVE FALSE
    <3>1. PICK q \in Requests : UserLoggedIn(q) /\ req[q].login = t.tokenId
        BY <1>2, <2>2, TablesChange
    <3> QED
        BY <2>1, <3>1 DEF LoginSpent, UserLoggedIn
  <2> QED
      BY <2>1, <2>2
<1>4. CASE t \notin token
  <2>1. PICK q \in Requests : /\ IssueToken(q) /\ t.user = req[q].user /\ t.own = req[q].login
                              /\ LatestLogin(t.user, t.tokenId)
      BY <1>4, TablesChange
  <2>2. login' = login /\ login[t.tokenId] = t.user
      BY <2>1 DEF IssueToken, LatestLogin
  <2>3. Exists(t.user)
      BY <1>2, <2>2, AccountsAssumption DEF NothingOutlivesItsAccount
  <2>4. login[t.own] = t.user
      BY <2>1, <2>3 DEF RequestsKnow, RequestKnows, IssueToken, Exists
  <2> QED
      BY <1>2, <2>1, <2>2, <2>4 DEF LatestLogin
<1> QED
    BY <1>3, <1>4

LEMMA DrawnNext ==
    ASSUME IInv, [Next]_vars
    PROVE  Drawn'
<1> USE DEF IInv
<1>0. TypeOK' /\ lastCode \in Nat /\ lastLogin \in Nat
    BY TypeNext, NextNumbers
<1>1. ASSUME NEW c \in Codes, code'[c] # NoRow PROVE CodeSpent(c)'
  <2>1. CASE code'[c] = code[c]
      BY <1>1, <2>1, SpentStays DEF Drawn
  <2>2. CASE code'[c] # code[c]
    <3>1. PICK q \in Requests : SaveCode(q) /\ req[q].code = c
        BY <1>1, <2>2, TablesChange
    <3>2. req[q].at = "saveCode" /\ c <= lastCode
        BY <3>1 DEF SaveCode, RequestsKnow, RequestKnows
    <3>3. req'[q].at # "saveCode"
        BY <3>1, <3>2, ReplyTyped DEF SaveCode, Go, Idle, TypeOK
    <3>4. \A p \in Requests \ {q} : req'[p] = req[p]
        BY <3>2, <3>3, NumbersAreDrawn
    <3>5. c <= lastCode'
        BY <1>0, <3>2, NumbersAreDrawn DEF Codes
    <3> QED
        BY <3>1, <3>2, <3>3, <3>4, <3>5 DEF CodeSpent, DrawnOnce
  <2> QED
      BY <2>1, <2>2
<1>2. ASSUME NEW l \in Logins, login'[l] # NoRow PROVE LoginSpent(l)'
  <2>1. CASE login'[l] = login[l]
      BY <1>2, <2>1, SpentStays DEF Drawn
  <2>2. CASE login'[l] # login[l]
    <3>1. PICK q \in Requests : UserLoggedIn(q) /\ req[q].login = l
        BY <1>2, <2>2, TablesChange
    <3>2. req[q].at = "saveLogin" /\ l <= lastLogin
        BY <3>1 DEF UserLoggedIn, RequestsKnow, RequestKnows
    <3>3. req'[q].at # "saveLogin"
        BY <3>1, <3>2, ReplyTyped DEF UserLoggedIn, Go, Idle, TypeOK
    <3>4. \A p \in Requests \ {q} : req'[p] = req[p]
        BY <3>2, <3>3, NumbersAreDrawn
    <3>5. l <= lastLogin'
        BY <1>0, <3>2, NumbersAreDrawn DEF Logins
    <3> QED
        BY <3>1, <3>2, <3>3, <3>4, <3>5 DEF LoginSpent, DrawnOnce
  <2> QED
      BY <2>1, <2>2
<1>3. ASSUME NEW t \in token' PROVE t.tokenId \in Logins /\ LoginSpent(t.tokenId)
  <2>1. t.user \in Users /\ t.tokenId \in Logins
      BY <1>0, <1>3 DEF TypeOK, Token
  <2>2. t \in token \/ LatestLogin(t.user, t.tokenId)
      BY <1>3, TablesChange
  <2> QED
      BY <2>1, <2>2, AccountsAssumption DEF Drawn, LatestLogin
<1>4. \A t \in token' : \A l \in Logins : l = t.tokenId /\ LoginSpent(l) => LoginSpent(l)'
    BY SpentStays
<1>5. \A t \in token' : (t.tokenId <= lastLogin') /\ \A q \in Requests :
                            req'[q].at = "saveLogin" => req'[q].login # t.tokenId
    BY <1>3, <1>4 DEF LoginSpent
<1> QED
    BY <1>1, <1>2, <1>5 DEF Drawn, LoginSpent

LEMMA CodesAreUsedOnceNext ==
    ASSUME IInv, [Next]_vars
    PROVE  CodesAreUsedOnce'
<1> USE DEF IInv
<1> SUFFICES ASSUME NEW p \in Requests, NEW q \in Requests, p # q,
                    req'[p].at = "markConfirmed", req'[q].at = "markConfirmed"
             PROVE  req'[p].codes \cap req'[q].codes = {}
    BY DEF CodesAreUsedOnce
<1>1. ASSUME NEW m \in Requests, NEW n \in Requests, m # n,
             req'[m].at = "markConfirmed", req'[n].at = "markConfirmed", req'[m] # req[m]
      PROVE  req'[m].codes \cap req'[n].codes = {}
  <2>1. \A c \in req'[m].codes : code[c] # NoRow
      BY <1>1, WhereRequestsGo
  <2>2. req'[n] = req[n]
      BY <1>1, NumbersAreDrawn
  <2>3. \A c \in req'[n].codes : code[c] = NoRow
      BY <1>1, <2>2 DEF RequestsKnow, RequestKnows
  <2> QED
      BY <2>1, <2>3
<1>2. CASE req'[p] = req[p] /\ req'[q] = req[q]
    BY <1>2 DEF CodesAreUsedOnce
<1> QED
    BY <1>1, <1>2

\* What a request knows that does not move itself.
LEMMA KnowsStays ==
    ASSUME IInv, [Next]_vars, NEW q \in Requests, UNCHANGED req[q]
    PROVE  RequestKnows(q)'
<1> USE DEF IInv
<1>1. RequestKnows(q) /\ req[q] \in InFlight /\ lastCode \in Nat /\ lastLogin \in Nat
    BY NextNumbers DEF RequestsKnow, TypeOK
<1>2. req[q].at = "saveCode" => req[q].code <= lastCode'
    BY <1>1, InFlightFields, NumbersAreDrawn DEF RequestKnows, Codes
<1>3. req[q].at = "saveLogin" => req[q].login <= lastLogin'
    BY <1>1, InFlightFields, NumbersAreDrawn DEF RequestKnows, Logins
<1>4. req[q].at \in {"deleteCodes", "markConfirmed"} => \A c \in req[q].codes : CodeSpent(c)'
    BY <1>1, InFlightFields, SpentStays DEF RequestKnows
<1>5. ASSUME req[q].at = "markConfirmed", NEW c \in req[q].codes, code'[c] # NoRow PROVE FALSE
  <2>1. c \in Codes /\ code[c] = NoRow /\ CodeSpent(c)
      BY <1>1, <1>5, InFlightFields DEF RequestKnows
  <2>2. PICK p \in Requests : SaveCode(p) /\ req[p].code = c
      BY <1>5, <2>1, TablesChange
  <2> QED
      BY <2>1, <2>2 DEF CodeSpent, SaveCode
<1>6. ASSUME req[q].at = "issueToken"
      PROVE  login'[req[q].login] = req[q].user \/ account'[req[q].user] = "deleted"
  <2>1. req[q].user \in Users /\ req[q].login \in Logins /\ req[q].user # NoRow
      BY <1>1, <1>6, InFlightFields, AccountsAssumption
  <2>2. CASE account[req[q].user] = "deleted"
      BY <2>1, <2>2, AccountsChange
  <2>3. CASE login[req[q].login] = req[q].user /\ login'[req[q].login] = NoRow
    <3>1. DeleteUser(req[q].user)
        BY <2>1, <2>3, LoginsAreLost
    <3> QED
        BY <2>1, <3>1 DEF DeleteUser, TypeOK
  <2>4. CASE login[req[q].login] = req[q].user /\ login'[req[q].login] # NoRow
    <3>1. LoginSpent(req[q].login)
        BY <2>1, <2>4 DEF Drawn
    <3> QED
        BY <2>1, <2>4, <3>1, TablesChange DEF LoginSpent, UserLoggedIn
  <2> QED
      BY <1>1, <1>6, <2>2, <2>3, <2>4 DEF RequestKnows
<1> QED
    BY <1>2, <1>3, <1>4, <1>5, <1>6 DEF RequestKnows

LEMMA RequestsKnowNext ==
    ASSUME IInv, [Next]_vars
    PROVE  RequestsKnow'
<1> USE DEF IInv
<1>0. /\ TypeOK' /\ lastCode \in Nat /\ lastLogin \in Nat
    BY TypeNext, NextNumbers
<1> SUFFICES ASSUME NEW q \in Requests PROVE RequestKnows(q)'
    BY DEF RequestsKnow
<1>1. CASE req'[q] = req[q]
    BY <1>1, KnowsStays
<1>2. CASE req'[q] # req[q]
  <2>1. req'[q].at = "saveCode" => req'[q].code <= lastCode'
      BY <1>0, <1>2, NumbersAreDrawn
  <2>2. req'[q].at = "saveLogin" => req'[q].login <= lastLogin'
      BY <1>0, <1>2, NumbersAreDrawn
  <2>3. req'[q].at \in {"deleteCodes", "markConfirmed"} => \A c \in req'[q].codes : CodeSpent(c)'
    <3>1. CASE req'[q].at = "deleteCodes"
      <4>1. PICK u \in Users : req'[q].codes = CodesOf(u)
          BY <1>2, <3>1, WhereRequestsGo
      <4>2. \A c \in req'[q].codes : c \in Codes /\ code[c] # NoRow
          BY <4>1, AccountsAssumption DEF CodesOf
      <4> QED
          BY <4>2, SpentStays DEF Drawn
    <3>2. CASE req'[q].at = "markConfirmed"
      <4>1. \A c \in req'[q].codes : c \in Codes /\ code[c] # NoRow
          BY <1>2, <3>2, WhereRequestsGo
      <4> QED
          BY <4>1, SpentStays DEF Drawn
    <3> QED
        BY <3>1, <3>2
  <2>4. req'[q].at = "markConfirmed" => \A c \in req'[q].codes : code'[c] = NoRow
      BY <1>2, WhereRequestsGo
  <2>5. req'[q].at = "issueToken" => login'[req'[q].login] = req'[q].user
      BY <1>2, WhereRequestsGo
  <2> QED
      BY <2>1, <2>2, <2>3, <2>4, <2>5 DEF RequestKnows
<1> QED
    BY <1>1, <1>2

LEMMA InitIInv ==
    ASSUME Init
    PROVE  IInv
<1>1. TypeOK
    BY AccountsAssumption DEF Init, TypeOK, InFlight, Idle
<1>2. \A q \in Requests : req[q].at = "idle"
    BY DEF Init, Idle
<1> QED
    BY <1>1, <1>2 DEF Init, IInv, NothingOutlivesItsAccount, TokenIsNotOlder, CodesAreUsedOnce,
                      Drawn, DrawnOnce, RequestsKnow, RequestKnows

LEMMA NextIInv ==
    ASSUME IInv, [Next]_vars
    PROVE  IInv'
BY TypeNext, NothingOutlivesNext, TokenIsNotOlderNext, CodesAreUsedOnceNext, DrawnNext,
   DrawnOnceNext, RequestsKnowNext
DEF IInv

\* Whatever requests overlap or die, the invariant holds.
THEOREM Invariance == Spec => []IInv
BY InitIInv, NextIInv, PTL DEF Spec

\* Accounts, codes, log-ins, tokens and requests keep their types; a code never expires
\* before it is made.
THEOREM TypeCorrect == Spec => []TypeOK
<1>1. IInv => TypeOK
    BY DEF IInv
<1> QED
    BY <1>1, Invariance, PTL

\* A token never names an older log-in than its own, nor one of another user.
THEOREM TokensAreNotOlder == Spec => []TokenIsNotOlder
<1>1. IInv => TokenIsNotOlder
    BY DEF IInv
<1> QED
    BY <1>1, Invariance, PTL

\* Of the submissions that use a code only one goes on to confirm the account.
THEOREM CodesUsedOnce == Spec => []CodesAreUsedOnce
<1>1. IInv => CodesAreUsedOnce
    BY DEF IInv
<1> QED
    BY <1>1, Invariance, PTL

\* Neither codes nor log-ins are left of a deleted account.
THEOREM NothingOutlives == Spec => []NothingOutlivesItsAccount
<1>1. IInv => NothingOutlivesItsAccount
    BY DEF IInv
<1> QED
    BY <1>1, Invariance, PTL

LEMMA SettledStays ==
    ASSUME IInv, [Next]_vars, NEW u \in Users, Settled(u)
    PROVE  Settled(u)' /\ CodesOf(u)' \subseteq CodesOf(u)
<1> USE DEF IInv
<1>1. account'[u] \in {"confirmed", "deleted"}
    BY AccountsChange DEF Settled
<1>2. ASSUME NEW q \in Requests, req'[q].at \in {"saveCode", "sendMail"} PROVE req'[q].user # u
  <2>1. CASE req'[q] = req[q]
      BY <1>2, <2>1 DEF Settled
  <2>2. CASE req'[q] # req[q] /\ req'[q].at = "saveCode"
    <3>1. PICK v \in Users : /\ Register(q, v) \/ ResendEmailConfirmation(q, v)
                             /\ req'[q].user = v
        BY <2>2, WhereRequestsGo
    <3>2. account[v] \in {"absent", "unconfirmed"}
        BY <3>1 DEF Register, ResendEmailConfirmation
    <3> QED
        BY <3>1, <3>2 DEF Settled
  <2>3. CASE req'[q] # req[q] /\ req'[q].at = "sendMail"
    <3>1. SaveCode(q) /\ req'[q].user = req[q].user
        BY <2>3, WhereRequestsGo
    <3> QED
        BY <3>1 DEF SaveCode, Settled
  <2> QED
      BY <1>2, <2>1, <2>2, <2>3
<1>3. ASSUME NEW c \in Codes, code'[c] = u, code[c] # u PROVE FALSE
  <2>1. PICK q \in Requests : SaveCode(q) /\ req[q].user = u
      BY <1>3, AccountsAssumption, TablesChange
  <2> QED
      BY <2>1 DEF SaveCode, Settled
<1> QED
    BY <1>1, <1>2, <1>3 DEF Settled, CodesOf

\* Once the requests are over that were begun before the account was confirmed, no code
\* of it is ever added again.
THEOREM NoCodesAfterConfirmation == Spec => ConfirmedGetsNoCodes
<1>1. ASSUME IInv, [Next]_vars
      PROVE  [\A u \in Users : Settled(u) => Settled(u)' /\ CodesOf(u)' \subseteq CodesOf(u)]_vars
    BY <1>1, SettledStays
<1> QED
    BY <1>1, Invariance, PTL DEF Spec, ConfirmedGetsNoCodes
=============================================================================
