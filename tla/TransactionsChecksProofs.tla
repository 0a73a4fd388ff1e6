---------------------- MODULE TransactionsChecksProofs ----------------------
(***************************************************************************)
(* What the checks that the handlers make before an await achieve, for     *)
(* every number of users, objects, registrations and tokens.               *)
(*                                                                         *)
(* However requests overlap, what the check was to make unique is never    *)
(* there more often than requests run at the same time: each save was      *)
(* announced by a request that went past the check, and a request goes     *)
(* past it only when nothing is there (Counting).                          *)
(*                                                                         *)
(* When requests do not overlap, what a request has checked is still so    *)
(* when it saves, and the service implements Custody.                      *)
(***************************************************************************)
EXTENDS TransactionsProofs, Counting

-----------------------------------------------------------------------------
(* However requests overlap: what is saved is bounded by their number.     *)

\* Only SaveRegistration adds a registration.
LEMMA NewRegistrationsAreSaved ==
    ASSUME IInv, NEW q \in Requests, Writes(q), ~SaveRegistration(q)
    PROVE  \A r \in Registrations : registration'[r] # NoRow => registration[r] # NoRow
<1>1. CASE SaveCancel(q)
  <2>1. registration[req[q].registration] # NoRow
      BY <1>1 DEF IInv, RequestsKnow, RequestKnows, SaveCancel
  <2> QED
      BY <1>1, <2>1 DEF IInv, SaveCancel, TypeOK
<1>2. CASE ~SaveCancel(q)
    BY <1>2 DEF Writes, SaveObject, GenerateToken, SaveReceiving, SaveReturning
<1> QED
    BY <1>1, <1>2

\* A request comes past each check only by the step that makes it.
LEMMA WhereRequestsGo ==
    ASSUME IInv, NEW q \in Requests, Request(q) \/ Fail(q)
    PROVE  /\ \A p \in Requests \ {q} : req'[p] = req[p]
           /\ req'[q].at = "saveReceiving" =>
                 \E u \in Users, t \in Tokens : CreateReceiving(q, u, t)
           /\ req'[q].at = "saveRegistration" =>
                 \/ CheckRegistration(q)
                 \/ \E u \in Users, o \in Objects : CreateRegistration(q, u, o)
           /\ req'[q].at = "fetchObject" =>
                 \E u \in Users, o \in Objects : CreateRegistration(q, u, o)
           /\ req'[q].at = "saveObject" => FetchObject(q)
<1>1. \A x : Go(q, x) => req'[q] = x /\ \A p \in Requests \ {q} : req'[p] = req[p]
    BY GoMoves DEF IInv
<1>2. \E x : Go(q, x)
    BY DEF Request, Continue, CreateRegistration, RefreshRegistrationToken, CreateReceiving,
       CreateReturning, GenerateReturnToken, CancelRegistration, FetchObject, SaveObject,
       CheckRegistration, SaveRegistration, Publish, GenerateToken, SaveReceiving,
       SaveReturning, SaveCancel, Fail, Reply
<1>3. CASE \E u \in Users : \E t \in Tokens : CreateReceiving(q, u, t)
    BY <1>1, <1>3 DEF CreateReceiving
<1>4. CASE \E u \in Users : \E o \in Objects : CreateRegistration(q, u, o)
  <2>1. req'[q].at \in {"fetchObject", "saveRegistration"}
    <3>1. PICK u \in Users, o \in Objects : CreateRegistration(q, u, o)
        BY <1>4
    <3>2. CASE Go(q, [at |-> "fetchObject", user |-> u, object |-> o])
        BY <1>1, <3>2
    <3>3. CASE \E k \in RowsOf(o) : Go(q, [at |-> "saveRegistration", user |-> u, row |-> k])
        BY <1>1, <3>3
    <3> QED
        BY <3>1, <3>2, <3>3 DEF CreateRegistration
  <2> QED
      BY <1>1, <1>2, <1>4, <2>1
<1>5. CASE FetchObject(q)
  <2>1. req'[q].at \in {"saveObject", "idle"}
      BY <1>1, <1>5 DEF FetchObject, Reply, Idle
  <2> QED
      BY <1>1, <1>2, <1>5, <2>1
<1>6. CASE CheckRegistration(q)
  <2>1. req'[q].at \in {"saveRegistration", "idle"}
      BY <1>1, <1>6 DEF CheckRegistration, Reply, Idle
  <2> QED
      BY <1>1, <1>2, <1>6, <2>1
<1>7. ASSUME NEW x, Go(q, x),
             x.at \notin {"saveReceiving", "saveRegistration", "fetchObject", "saveObject"}
      PROVE  /\ \A p \in Requests \ {q} : req'[p] = req[p]
             /\ req'[q].at \notin {"saveReceiving", "saveRegistration", "fetchObject", "saveObject"}
    BY <1>1, <1>7
<1>8. CASE \E u \in Users, r \in Registrations :
              GenerateReturnToken(q, u, r) \/ CancelRegistration(q, u, r)
    BY <1>7, <1>8 DEF GenerateReturnToken, CancelRegistration
<1>9. CASE \/ \E u \in Users, o \in Objects : RefreshRegistrationToken(q, u, o)
           \/ \E u \in Users, t \in Tokens : CreateReturning(q, u, t)
    BY <1>7, <1>9 DEF RefreshRegistrationToken, CreateReturning
<1>10. CASE SaveObject(q) \/ SaveRegistration(q) \/ GenerateToken(q) \/ SaveCancel(q) \/ Fail(q)
    BY <1>7, <1>10 DEF SaveObject, SaveRegistration, GenerateToken, SaveCancel, Fail, Reply, Idle
<1>11. CASE Publish(q) \/ SaveReceiving(q) \/ SaveReturning(q)
    BY <1>7, <1>11 DEF Publish, SaveReceiving, SaveReturning, Reply, Idle
<1> QED
    BY <1>3, <1>4, <1>5, <1>6, <1>8, <1>9, <1>10, <1>11 DEF Request, Continue

\* A step is one of a request, or leaves tables and requests alone.
LEMMA RequestsStep ==
    ASSUME [Next]_vars
    PROVE  \/ UNCHANGED <<tables, req>>
           \/ \E q \in Requests : Request(q) \/ Fail(q)
BY DEF Next, Tick, RegistrationExpires, TokenGoesStale, vars

LEMMA BoundedSetsAreFinite ==
    /\ \A k : IsFiniteSet(HoldersOf(k)) /\ IsFiniteSet(HandingOver(k))
    /\ \A k, u : IsFiniteSet(OpenRegistrations(k, u)) /\ IsFiniteSet(Registering(k, u))
    /\ \A o : IsFiniteSet(RowsOf(o)) /\ IsFiniteSet(Adding(o))
<1>1. \A k : HoldersOf(k) \subseteq Registrations /\ HandingOver(k) \subseteq Requests
    BY DEF HoldersOf, RegistrationsOn, HandingOver
<1>2. \A k, u : OpenRegistrations(k, u) \subseteq Registrations /\ Registering(k, u) \subseteq Requests
    BY DEF OpenRegistrations, RegistrationsOn, Registering
<1>3. \A o : RowsOf(o) \subseteq Rows /\ Adding(o) \subseteq Requests
    BY DEF RowsOf, Adding
<1> QED
    BY <1>1, <1>2, <1>3, FiniteAssumption, FS_Subset

\* A recipient who has the object had it before, or receives it in this step.
LEMMA NewHoldersReceive ==
    ASSUME IInv, Grows, NEW k \in Rows, NEW r \in HoldersOf(k)', r \notin HoldersOf(k)
    PROVE  r \in Registrations /\ receiving[r] = NoRow /\ receiving'[r] # NoRow
<1>1. /\ r \in Registrations
      /\ registration'[r] # NoRow /\ registration'[r].object = k
      /\ receiving'[r] # NoRow /\ returning'[r] = NoRow
    BY DEF HoldersOf, RegistrationsOn, Holding
<1>2. ASSUME receiving[r] # NoRow PROVE FALSE
  <2>1. registration[r] # NoRow
      BY <1>1, <1>2 DEF IInv, PartiesOfALoan
  <2>2. registration[r].object = k /\ returning[r] = NoRow
      BY <1>1, <2>1 DEF Grows
  <2> QED
      BY <1>1, <1>2, <2>1, <2>2 DEF HoldersOf, RegistrationsOn, Holding
<1> QED
    BY <1>1, <1>2

\* The registration of a token in a request's hands is saved, and stays the same.
LEMMA HandingOverStays ==
    ASSUME IInv, Grows, NEW k \in Rows, NEW q \in HandingOver(k)', req'[q] = req[q]
    PROVE  q \in HandingOver(k)
<1>1. q \in Requests /\ req[q].at = "saveReceiving"
    BY DEF HandingOver
<1>2. /\ req[q].token \in Tokens /\ token[req[q].token] # NoRow
      /\ token[req[q].token].registration \in Registrations
    BY <1>1, WriterFields
<1>3. registration[token[req[q].token].registration] # NoRow
    BY <1>2 DEF IInv, TokensKnown
<1>4. /\ token'[req[q].token].registration = token[req[q].token].registration
      /\ registration'[token[req[q].token].registration].object =
            registration[token[req[q].token].registration].object
    BY <1>2, <1>3 DEF Grows
<1>5. token'[req[q].token].registration \in RegistrationsOn(k)'
    BY DEF HandingOver
<1> QED
    BY <1>1, <1>2, <1>3, <1>4, <1>5 DEF HandingOver, RegistrationsOn

\* A hand-over is about to be saved after CreateReceiving has found nobody who has the
\* object; it is saved by the request that was about to; every other step takes the
\* object back, or nothing.
LEMMA HolderSteps ==
    ASSUME IInv, [Next]_vars, NEW k \in Rows
    PROVE  \/ HoldersOf(k)' = {}
           \/ HoldersOf(k)' \subseteq HoldersOf(k) /\ HandingOver(k)' \subseteq HandingOver(k)
           \/ \E q \in HandingOver(k) : \E e :
                 /\ HoldersOf(k)' \subseteq HoldersOf(k) \cup {e}
                 /\ HandingOver(k)' \subseteq HandingOver(k) \ {q}
<1>1. Grows /\ TypeOK
    BY NextGrows DEF IInv
<1>2. receiving' = receiving => HoldersOf(k)' \subseteq HoldersOf(k)
    BY <1>1, NewHoldersReceive
<1>3. \A q \in HandingOver(k)' : q \in Requests /\ (req'[q] = req[q] => q \in HandingOver(k))
    BY <1>1, HandingOverStays DEF HandingOver
<1>4. CASE UNCHANGED <<tables, req>>
    BY <1>2, <1>3, <1>4 DEF tables
<1>5. ASSUME NEW q \in Requests, Request(q) \/ Fail(q)
      PROVE  \/ HoldersOf(k)' = {}
             \/ HoldersOf(k)' \subseteq HoldersOf(k) /\ HandingOver(k)' \subseteq HandingOver(k)
             \/ \E p \in HandingOver(k) : \E e :
                   /\ HoldersOf(k)' \subseteq HoldersOf(k) \cup {e}
                   /\ HandingOver(k)' \subseteq HandingOver(k) \ {p}
  <2>1. HandingOver(k)' \subseteq HandingOver(k) \cup {q}
      BY <1>3, <1>5, WhereRequestsGo
  <2>2. CASE receiving' # receiving
    <3> DEFINE g == token[req[q].token].registration
    <3>1. PICK p \in Requests : SaveReceiving(p) /\ receiving' # receiving
        BY <2>2, OnlyWritesWrite
           DEF tables, Writes, SaveObject, SaveRegistration, GenerateToken, SaveReturning, SaveCancel
    <3>2. p = q
      <4>1. req'[p] # req[p]
          BY <1>1, <3>1, GoMoves DEF SaveReceiving
      <4> QED
          BY <1>5, <4>1, WhereRequestsGo
    <3>3. /\ req[q].at = "saveReceiving" /\ g \in Registrations /\ registration[g] # NoRow
          /\ registration' = registration
          /\ \A r \in Registrations : r # g => receiving'[r] = receiving[r]
          /\ req'[q].at = "publish"
      <4>1. /\ receiving' = [receiving EXCEPT ![g] =
                                [giver |-> req[q].user, recipient |-> token[req[q].token].issuer]]
            /\ Go(q, [at |-> "publish", event |-> [kind |-> "Received", registration |-> g]])
            /\ req[q].at = "saveReceiving" /\ registration' = registration
          BY <3>1, <3>2 DEF SaveReceiving
      <4>2. g \in Registrations /\ registration[g] # NoRow
          BY <4>1, WriterFields DEF IInv, TokensKnown
      <4>3. req'[q] = [at |-> "publish", event |-> [kind |-> "Received", registration |-> g]]
          BY <1>1, <4>1, GoMoves
      <4> HIDE DEF g
      <4> QED
          BY <1>1, <4>1, <4>2, <4>3 DEF TypeOK
    <3>4. HandingOver(k)' \subseteq HandingOver(k) \ {q}
      <4>1. q \notin HandingOver(k)'
          BY <3>3 DEF HandingOver
      <4> QED
          BY <2>1, <4>1
    <3>5. HoldersOf(k)' \subseteq HoldersOf(k) \cup {g}
        BY <1>1, <3>3, NewHoldersReceive
    <3>6. CASE g \in RegistrationsOn(k)
      <4>1. q \in HandingOver(k)
          BY <3>3, <3>6 DEF HandingOver
      <4> QED
          BY <3>4, <3>5, <4>1
    <3>7. CASE g \notin RegistrationsOn(k)
      <4>1. g \notin HoldersOf(k)'
          BY <3>3, <3>7 DEF HoldersOf, RegistrationsOn
      <4> QED
          BY <3>4, <3>5, <4>1
    <3> QED
        BY <3>6, <3>7
  <2>3. CASE receiving' = receiving /\ q \in HandingOver(k)' /\ req'[q] # req[q]
    <3>1. req'[q].at = "saveReceiving"
        BY <2>3 DEF HandingOver
    <3>2. PICK u \in Users, t \in Tokens : CreateReceiving(q, u, t)
        BY <1>5, <3>1, WhereRequestsGo
    <3>3. req'[q].token = t /\ NotTaken(token[t].registration) /\ UNCHANGED tables
        BY <1>1, <3>2, GoMoves DEF CreateReceiving
    <3>4. registration[token[t].registration].object = k
        BY <2>3, <3>3 DEF HandingOver, RegistrationsOn, tables
    <3>5. HoldersOf(k) = {}
        BY <3>3, <3>4 DEF NotTaken, HoldersOf
    <3> QED
        BY <1>2, <2>3, <3>5
  <2>4. CASE receiving' = receiving /\ (q \notin HandingOver(k)' \/ req'[q] = req[q])
      BY <1>2, <1>3, <2>1, <2>4
  <2> QED
      BY <2>2, <2>3, <2>4
<1> QED
    BY <1>4, <1>5, RequestsStep

LEMMA HoldersAreBoundedNext ==
    ASSUME IInv, HoldersAreBounded, [Next]_vars
    PROVE  HoldersAreBounded'
<1> SUFFICES ASSUME NEW k \in Rows
             PROVE  Cardinality(HoldersOf(k)') + Cardinality(HandingOver(k)')
                        <= Cardinality(Requests)
    BY DEF HoldersAreBounded
<1>1. HandingOver(k)' \subseteq Requests
    BY DEF HandingOver
<1>2. Cardinality(HoldersOf(k)) + Cardinality(HandingOver(k)) <= Cardinality(Requests)
    BY DEF HoldersAreBounded
<1>3. IsFiniteSet(HoldersOf(k)) /\ IsFiniteSet(HandingOver(k)) /\ IsFiniteSet(Requests)
    BY BoundedSetsAreFinite, FiniteAssumption
<1> QED
    BY <1>1, <1>2, <1>3, HolderSteps, BoundStays

\* A new registration is the only one that comes to be open.
LEMMA NewOpenRegistrations ==
    ASSUME IInv, Grows, NEW k \in Rows, NEW u \in Users,
           NEW r \in OpenRegistrations(k, u)', r \notin OpenRegistrations(k, u)
    PROVE  r \in Registrations /\ registration[r] = NoRow
BY DEF Grows, OpenRegistrations, RegistrationsOn, Open

\* A registration is about to be saved after a check that has found no open one of the
\* user; it is saved by the request that was about to; every other step closes one, or
\* none.
LEMMA OpenRegistrationSteps ==
    ASSUME IInv, [Next]_vars, NEW k \in Rows, NEW u \in Users
    PROVE  \/ OpenRegistrations(k, u)' = {}
           \/ /\ OpenRegistrations(k, u)' \subseteq OpenRegistrations(k, u)
              /\ Registering(k, u)' \subseteq Registering(k, u)
           \/ \E q \in Registering(k, u) : \E e :
                 /\ OpenRegistrations(k, u)' \subseteq OpenRegistrations(k, u) \cup {e}
                 /\ Registering(k, u)' \subseteq Registering(k, u) \ {q}
<1> DEFINE Here == [at |-> "saveRegistration", user |-> u, row |-> k]
           Fewer == OpenRegistrations(k, u)' \subseteq OpenRegistrations(k, u)
<1>1. Grows /\ TypeOK
    BY NextGrows DEF IInv
<1>2. (\A r \in Registrations : registration[r] = NoRow => registration'[r] = NoRow) => Fewer
    BY <1>1, NewOpenRegistrations DEF OpenRegistrations, RegistrationsOn
<1>3. CASE UNCHANGED <<tables, req>>
    BY <1>2, <1>3 DEF tables, Registering
<1>4. ASSUME NEW q \in Requests, Request(q) \/ Fail(q)
      PROVE  \/ OpenRegistrations(k, u)' = {}
             \/ /\ OpenRegistrations(k, u)' \subseteq OpenRegistrations(k, u)
                /\ Registering(k, u)' \subseteq Registering(k, u)
             \/ \E p \in Registering(k, u) : \E e :
                   /\ OpenRegistrations(k, u)' \subseteq OpenRegistrations(k, u) \cup {e}
                   /\ Registering(k, u)' \subseteq Registering(k, u) \ {p}
  <2>1. \A p \in Requests \ {q} : req'[p] = req[p]
      BY <1>4, WhereRequestsGo
  <2>2. CASE SaveRegistration(q)
    <3>1. PICK r \in Registrations :
              /\ registration[r] = NoRow
              /\ registration' = [registration EXCEPT ![r] =
                    [object |-> req[q].row, recipient |-> req[q].user, status |-> "OK"]]
              /\ Go(q, [at |-> "publish",
                        event |-> [kind |-> "NewRegistration", registration |-> r]])
        BY <2>2 DEF SaveRegistration
    <3>2. Registering(k, u)' \subseteq Registering(k, u) \ {q}
      <4>1. req'[q].at = "publish"
          BY <1>1, <3>1, GoMoves
      <4>2. q \notin Registering(k, u)'
          BY <4>1 DEF Registering
      <4> QED
          BY <2>1, <4>2 DEF Registering
    <3>3. /\ registration'[r].object = req[q].row
          /\ registration'[r].recipient = req[q].user
          /\ \A s \in Registrations : s # r => registration'[s] = registration[s]
        BY <1>1, <3>1 DEF TypeOK
    <3>4. OpenRegistrations(k, u)' \subseteq OpenRegistrations(k, u) \cup {r}
      <4>1. \A s \in Registrations : s \in OpenRegistrations(k, u)' /\ s # r =>
                s \in OpenRegistrations(k, u)
        <5> SUFFICES ASSUME NEW s \in Registrations, s \in OpenRegistrations(k, u)', s # r
                     PROVE  s \in OpenRegistrations(k, u)
            OBVIOUS
        <5>1. registration'[s] # NoRow
            BY DEF OpenRegistrations, RegistrationsOn
        <5>2. registration[s] # NoRow
            BY <3>3, <5>1
        <5> QED
            BY <1>1, <5>2, NewOpenRegistrations
      <4> QED
          BY <4>1 DEF OpenRegistrations, RegistrationsOn
    <3>5. CASE req[q].row = k /\ req[q].user = u
      <4>1. req[q] = Here
        <5>1. req[q] \in [at : {"checkRegistration", "saveRegistration"}, user : Users, row : Rows]
            BY <1>1, <2>2 DEF SaveRegistration, TypeOK, InFlight, Idle
        <5> QED
            BY <2>2, <3>5, <5>1 DEF SaveRegistration
      <4>2. q \in Registering(k, u)
          BY <4>1 DEF Registering
      <4> QED
          BY <3>2, <3>4, <4>2
    <3>6. CASE req[q].row # k \/ req[q].user # u
      <4>1. r \notin OpenRegistrations(k, u)'
          BY <3>3, <3>6 DEF OpenRegistrations, RegistrationsOn
      <4> QED
          BY <3>2, <3>4, <4>1
    <3> QED
        BY <3>5, <3>6
  <2>3. CASE ~SaveRegistration(q)
    <3>1. Fewer
      <4>1. CASE UNCHANGED tables
          BY <1>2, <4>1 DEF tables
      <4>2. ASSUME NEW p \in Requests, Writes(p), ~SaveRegistration(p) PROVE Fewer
        <5>1. \A r \in Registrations : registration'[r] # NoRow => registration[r] # NoRow
            BY <4>2, NewRegistrationsAreSaved
        <5> QED
            BY <1>2, <5>1
      <4>3. ASSUME NEW p \in Requests, SaveRegistration(p) PROVE p = q
        <5>1. req'[p] # req[p]
          <6>1. PICK x : Go(p, x) /\ x.at = "publish"
              BY <4>3 DEF SaveRegistration
          <6>2. req'[p].at = "publish" /\ req[p].at = "saveRegistration"
              BY <1>1, <4>3, <6>1, GoMoves DEF SaveRegistration
          <6> QED
              BY <6>2
        <5> QED
            BY <2>1, <5>1
      <4> QED
          BY <2>3, <4>1, <4>2, <4>3, OnlyWritesWrite
    <3>2. CASE q \in Registering(k, u)' /\ req'[q] # req[q]
      <4>1. req'[q] = Here
          BY <3>2 DEF Registering
      <4>2. Available(k, u)
        <5>1. CASE CheckRegistration(q)
          <6>1. CASE Reply(q)
              BY <1>1, <4>1, <6>1, GoMoves DEF Reply, Idle
          <6>2. CASE /\ Available(req[q].row, req[q].user)
                     /\ Go(q, [at |-> "saveRegistration", user |-> req[q].user,
                               row |-> req[q].row])
            <7>1. req[q].user = u /\ req[q].row = k
                BY <1>1, <4>1, <6>2, GoMoves
            <7> QED
                BY <6>2, <7>1
          <6> QED
              BY <5>1, <6>1, <6>2 DEF CheckRegistration
        <5>2. ASSUME NEW v \in Users, NEW o \in Objects, CreateRegistration(q, v, o)
              PROVE  Available(k, u)
          <6>1. CASE Go(q, [at |-> "fetchObject", user |-> v, object |-> o])
              BY <1>1, <4>1, <6>1, GoMoves
          <6>2. ASSUME NEW j \in RowsOf(o), Available(j, v),
                       Go(q, [at |-> "saveRegistration", user |-> v, row |-> j])
                PROVE  Available(k, u)
            <7>1. v = u /\ j = k
                BY <1>1, <4>1, <6>2, GoMoves
            <7> QED
                BY <6>2, <7>1
          <6> QED
              BY <5>2, <6>1, <6>2 DEF CreateRegistration
        <5> QED
            BY <1>4, <4>1, <5>1, <5>2, WhereRequestsGo
      <4>3. OpenRegistrations(k, u) = {}
          BY <4>2 DEF Available, OpenRegistrations
      <4> QED
          BY <3>1, <4>3
    <3>3. CASE q \notin Registering(k, u)' \/ req'[q] = req[q]
        BY <2>1, <3>1, <3>3 DEF Registering
    <3> QED
        BY <3>2, <3>3
  <2> QED
      BY <2>2, <2>3
<1> QED
    BY <1>3, <1>4, RequestsStep

LEMMA OpenRegistrationsAreBoundedNext ==
    ASSUME IInv, OpenRegistrationsAreBounded, [Next]_vars
    PROVE  OpenRegistrationsAreBounded'
<1> SUFFICES ASSUME NEW k \in Rows, NEW u \in Users
             PROVE  Cardinality(OpenRegistrations(k, u)') + Cardinality(Registering(k, u)')
                        <= Cardinality(Requests)
    BY DEF OpenRegistrationsAreBounded
<1>1. Registering(k, u)' \subseteq Requests
    BY DEF Registering
<1>2. Cardinality(OpenRegistrations(k, u)) + Cardinality(Registering(k, u))
          <= Cardinality(Requests)
    BY DEF OpenRegistrationsAreBounded
<1>3. /\ IsFiniteSet(OpenRegistrations(k, u)) /\ IsFiniteSet(Registering(k, u))
      /\ IsFiniteSet(Requests)
    BY BoundedSetsAreFinite, FiniteAssumption
<1> QED
    BY <1>1, <1>2, <1>3, OpenRegistrationSteps, BoundStays

\* A row is about to be saved after CreateRegistration has found none; it is saved by the
\* request that was about to; no other step adds one.
LEMMA RowSteps ==
    ASSUME IInv, [Next]_vars, NEW o \in Objects
    PROVE  \/ RowsOf(o)' = {}
           \/ RowsOf(o)' \subseteq RowsOf(o) /\ Adding(o)' \subseteq Adding(o)
           \/ \E q \in Adding(o) : \E e :
                 RowsOf(o)' \subseteq RowsOf(o) \cup {e} /\ Adding(o)' \subseteq Adding(o) \ {q}
<1>1. TypeOK
    BY DEF IInv
<1>2. CASE UNCHANGED <<tables, req>>
    BY <1>2 DEF tables, RowsOf, Adding
<1>3. ASSUME NEW q \in Requests, Request(q) \/ Fail(q)
      PROVE  \/ RowsOf(o)' = {}
             \/ RowsOf(o)' \subseteq RowsOf(o) /\ Adding(o)' \subseteq Adding(o)
             \/ \E p \in Adding(o) : \E e :
                   RowsOf(o)' \subseteq RowsOf(o) \cup {e} /\ Adding(o)' \subseteq Adding(o) \ {p}
  <2>1. \A p \in Requests \ {q} : req'[p] = req[p]
      BY <1>3, WhereRequestsGo
  <2>2. CASE SaveObject(q)
    <3>1. PICK k \in Rows :
              /\ offered' = [offered EXCEPT ![k] =
                                [original |-> req[q].object, owner |-> req[q].user]]
              /\ Go(q, [at |-> "checkRegistration", user |-> req[q].user, row |-> k])
        BY <2>2 DEF SaveObject
    <3>2. Adding(o)' \subseteq Adding(o) \ {q}
      <4>1. req'[q].at = "checkRegistration"
          BY <1>1, <3>1, GoMoves
      <4>2. q \notin Adding(o)'
          BY <4>1 DEF Adding
      <4> QED
          BY <2>1, <4>2 DEF Adding
    <3>3. /\ offered'[k].original = req[q].object
          /\ \A j \in Rows : j # k => offered'[j] = offered[j]
        BY <1>1, <3>1 DEF TypeOK
    <3>4. CASE req[q].object = o
      <4>1. q \in Adding(o)
          BY <2>2, <3>4 DEF SaveObject, Adding
      <4>2. RowsOf(o)' \subseteq RowsOf(o) \cup {k}
          BY <3>3 DEF RowsOf
      <4> QED
          BY <3>2, <4>1, <4>2
    <3>5. CASE req[q].object # o
      <4>1. RowsOf(o)' \subseteq RowsOf(o)
          BY <3>3, <3>5 DEF RowsOf
      <4> QED
          BY <3>2, <4>1
    <3> QED
        BY <3>4, <3>5
  <2>3. CASE ~SaveObject(q)
    <3>1. offered' = offered
      <4>1. ASSUME NEW p \in Requests, SaveObject(p) PROVE p = q
        <5>1. \E x : Go(p, x) /\ x.at = "checkRegistration" /\ req[p].at = "saveObject"
            BY <4>1 DEF SaveObject
        <5>2. req'[p] # req[p]
            BY <1>1, <5>1, GoMoves
        <5> QED
            BY <2>1, <5>2
      <4> QED
          BY <2>3, <4>1, OnlyWritesWrite
             DEF tables, Writes, SaveRegistration, GenerateToken, SaveReceiving, SaveReturning,
                 SaveCancel
    <3>2. RowsOf(o)' = RowsOf(o)
        BY <3>1 DEF RowsOf
    <3>3. CASE q \in Adding(o)' /\ req'[q].at = "fetchObject"
      <4>1. PICK u \in Users, x \in Objects : CreateRegistration(q, u, x)
          BY <1>3, <3>3, WhereRequestsGo
      <4>2. CASE RowsOf(x) = {} /\ Go(q, [at |-> "fetchObject", user |-> u, object |-> x])
        <5>1. x = o
            BY <1>1, <3>3, <4>2, GoMoves DEF Adding
        <5> QED
            BY <3>2, <4>2, <5>1
      <4>3. CASE \E k \in RowsOf(x) : Go(q, [at |-> "saveRegistration", user |-> u, row |-> k])
          BY <1>1, <3>3, <4>3, GoMoves
      <4> QED
          BY <4>1, <4>2, <4>3 DEF CreateRegistration
    <3>4. CASE q \in Adding(o)' /\ req'[q].at = "saveObject"
      <4>1. FetchObject(q)
          BY <1>3, <3>4, WhereRequestsGo
      <4>2. CASE Reply(q)
          BY <1>1, <3>4, <4>2, GoMoves DEF Reply, Idle
      <4>3. CASE Go(q, [at |-> "saveObject", user |-> req[q].user, object |-> req[q].object])
        <5>1. req[q].object = o /\ req[q].at = "fetchObject"
            BY <1>1, <3>4, <4>1, <4>3, GoMoves DEF Adding, FetchObject
        <5>2. Adding(o)' \subseteq Adding(o)
            BY <2>1, <5>1 DEF Adding
        <5> QED
            BY <3>2, <5>2
      <4> QED
          BY <4>1, <4>2, <4>3 DEF FetchObject
    <3>5. CASE q \notin Adding(o)'
        BY <2>1, <3>2, <3>5 DEF Adding
    <3> QED
        BY <3>3, <3>4, <3>5 DEF Adding
  <2> QED
      BY <2>2, <2>3
<1> QED
    BY <1>2, <1>3, RequestsStep

LEMMA RowsAreBoundedNext ==
    ASSUME IInv, RowsAreBounded, [Next]_vars
    PROVE  RowsAreBounded'
<1> SUFFICES ASSUME NEW o \in Objects
             PROVE  Cardinality(RowsOf(o)') + Cardinality(Adding(o)') <= Cardinality(Requests)
    BY DEF RowsAreBounded
<1>1. Adding(o)' \subseteq Requests
    BY DEF Adding
<1>2. Cardinality(RowsOf(o)) + Cardinality(Adding(o)) <= Cardinality(Requests)
    BY DEF RowsAreBounded
<1>3. IsFiniteSet(RowsOf(o)) /\ IsFiniteSet(Adding(o)) /\ IsFiniteSet(Requests)
    BY BoundedSetsAreFinite, FiniteAssumption
<1> QED
    BY <1>1, <1>2, <1>3, RowSteps, BoundStays

\* An object of the catalog is seeded once.
LEMMA SeededOnce ==
    ASSUME Init
    PROVE  \A o \in Objects : \A j, k \in RowsOf(o) : j = k
BY TransactionsAssumption DEF Init, RowsOf

\* At the start nothing is saved nor about to be, but for a row of each seeded object.
LEMMA InitBounded == Init => HoldersAreBounded /\ OpenRegistrationsAreBounded /\ RowsAreBounded
<1> SUFFICES ASSUME Init PROVE HoldersAreBounded /\ OpenRegistrationsAreBounded /\ RowsAreBounded
    OBVIOUS
<1>1. /\ \A k : HoldersOf(k) = {} /\ HandingOver(k) = {}
      /\ \A k, u : OpenRegistrations(k, u) = {} /\ Registering(k, u) = {}
      /\ \A o : Adding(o) = {}
    BY DEF Init, Idle, HoldersOf, HandingOver, OpenRegistrations, RegistrationsOn, Registering,
           Adding
<1>2. /\ Cardinality(Requests) \in Nat /\ Cardinality({}) = 0
      /\ Cardinality(Requests) >= 1
    BY FiniteAssumption, FS_CardinalityType, FS_EmptySet
<1>3. Cardinality({}) + Cardinality({}) <= Cardinality(Requests)
    BY <1>2
<1>4. HoldersAreBounded
    BY <1>1, <1>3 DEF HoldersAreBounded
<1>5. OpenRegistrationsAreBounded
    BY <1>1, <1>3 DEF OpenRegistrationsAreBounded
<1>6. ASSUME NEW o \in Objects PROVE Cardinality(RowsOf(o)) <= 1
    <2>1. CASE RowsOf(o) = {}
        BY <1>2, <2>1
    <2>2. ASSUME NEW k \in RowsOf(o) PROVE Cardinality(RowsOf(o)) = 1
        <3>1. RowsOf(o) = {k}
            BY <2>2, SeededOnce
        <3> QED
            BY <3>1, FS_Singleton
    <2>3. Cardinality(RowsOf(o)) = 0 \/ Cardinality(RowsOf(o)) = 1
        BY <1>2, <2>1, <2>2
    <2> QED
        BY <2>3
<1>7. ASSUME NEW o \in Objects PROVE Cardinality(RowsOf(o)) \in Nat
    BY BoundedSetsAreFinite, FS_CardinalityType
<1>8. ASSUME NEW o \in Objects
      PROVE  Cardinality(RowsOf(o)) + Cardinality(Adding(o)) <= Cardinality(Requests)
    <2>1. Cardinality(Adding(o)) = 0
        BY <1>1, <1>2
    <2> QED
        BY <1>2, <1>6, <1>7, <2>1
<1>9. RowsAreBounded
    BY <1>8 DEF RowsAreBounded
<1> QED
    BY <1>4, <1>5, <1>9

\* However scans overlap, an object is never with more recipients than requests run at
\* the same time.
THEOREM HoldersStayBounded == Spec => []HoldersAreBounded
<1>1. IInv /\ HoldersAreBounded /\ [Next]_vars => HoldersAreBounded'
    BY HoldersAreBoundedNext
<1> QED
    BY <1>1, InitBounded, Invariance, PTL DEF Spec

\* However registrations overlap, a user has no more open ones of an object than requests
\* run at the same time.
THEOREM OpenRegistrationsStayBounded == Spec => []OpenRegistrationsAreBounded
<1>1. IInv /\ OpenRegistrationsAreBounded /\ [Next]_vars => OpenRegistrationsAreBounded'
    BY OpenRegistrationsAreBoundedNext
<1> QED
    BY <1>1, InitBounded, Invariance, PTL DEF Spec

\* However registrations overlap, an object has no more rows than requests run at the
\* same time.
THEOREM RowsStayBounded == Spec => []RowsAreBounded
<1>1. IInv /\ RowsAreBounded /\ [Next]_vars => RowsAreBounded'
    BY RowsAreBoundedNext
<1> QED
    BY <1>1, InitBounded, Invariance, PTL DEF Spec

-----------------------------------------------------------------------------
(* Requests that do not overlap.                                           *)

\* Requests do not overlap.
Serial == \A p, q \in Requests : p = q

\* What request q has checked.
Checked(q) ==
    /\ req[q].at \in {"fetchObject", "saveObject"} => RowsOf(req[q].object) = {}
    /\ req[q].at = "saveRegistration" => Available(req[q].row, req[q].user)
    /\ req[q].at = "saveReceiving" => NotTaken(token[req[q].token].registration)

SInv ==
    /\ IInv
    /\ SingleHolder
    /\ OneOpenRegistration
    /\ OneRowPerObject
    /\ \A q \in Requests : Checked(q)

-----------------------------------------------------------------------------
\* What is checked depends on the tables only.
LEMMA CheckedStays ==
    ASSUME NEW q \in Requests, Checked(q), req'[q] = req[q], UNCHANGED tables
    PROVE  Checked(q)'
BY DEF Checked, tables, RowsOf, Available, NotTaken, RegistrationsOn, Holding, Open

\* Nobody comes between a check and the save it is for.
LEMMA CheckedNext ==
    ASSUME Serial, SInv, [Next]_vars
    PROVE  \A q \in Requests : Checked(q)'
<1> TypeOK
    BY DEF SInv, IInv
<1>1. CASE UNCHANGED <<tables, req>>
    BY <1>1, CheckedStays DEF SInv
<1>2. ASSUME NEW q \in Requests, NEW x, Go(q, x), req'[q] = x => Checked(q)'
      PROVE  \A p \in Requests : Checked(p)'
    BY <1>2, GoMoves DEF Serial
<1>3. ASSUME NEW q \in Requests, NEW x, Go(q, x),
             x.at \notin {"fetchObject", "saveObject", "saveRegistration", "saveReceiving"}
      PROVE  \A p \in Requests : Checked(p)'
    BY <1>2, <1>3 DEF Checked
<1>4. ASSUME NEW q \in Requests, Request(q) \/ Fail(q)
      PROVE  \A p \in Requests : Checked(p)'
    <2> DEFINE Goal == \A p \in Requests : Checked(p)'
    <2>1. ASSUME NEW u \in Users, NEW o \in Objects, CreateRegistration(q, u, o) PROVE Goal
        <3>1. CASE RowsOf(o) = {} /\ Go(q, [at |-> "fetchObject", user |-> u, object |-> o])
            BY <1>2, <2>1, <3>1 DEF CreateRegistration, Checked, RowsOf, tables
        <3>2. ASSUME NEW k \in RowsOf(o), Available(k, u),
                     Go(q, [at |-> "saveRegistration", user |-> u, row |-> k])
              PROVE  Goal
            <4>1. Available(k, u)'
                BY <2>1, <3>2 DEF CreateRegistration, tables, Available, RegistrationsOn,
                   Holding, Open
            <4> QED
                BY <1>2, <3>2, <4>1 DEF Checked
        <3> QED
            BY <2>1, <3>1, <3>2 DEF CreateRegistration
    <2>2. ASSUME NEW u \in Users, NEW t \in Tokens, CreateReceiving(q, u, t) PROVE Goal
        <3>1. NotTaken(token[t].registration)'
            BY <2>2 DEF CreateReceiving, tables, NotTaken, RegistrationsOn, Holding
        <3> QED
            BY <1>2, <2>2, <3>1 DEF CreateReceiving, Checked
    <2>3. CASE FetchObject(q)
        <3>1. CASE Reply(q)
            BY <1>3, <3>1 DEF Reply, Idle
        <3>2. CASE Go(q, [at |-> "saveObject", user |-> req[q].user, object |-> req[q].object])
            BY <1>2, <2>3, <3>2 DEF FetchObject, SInv, Checked, RowsOf, tables
        <3> QED
            BY <2>3, <3>1, <3>2 DEF FetchObject
    <2>4. CASE CheckRegistration(q)
        <3>1. CASE Reply(q)
            BY <1>3, <3>1 DEF Reply, Idle
        <3>2. CASE /\ Available(req[q].row, req[q].user)
                   /\ Go(q, [at |-> "saveRegistration", user |-> req[q].user, row |-> req[q].row])
            <4>1. ASSUME NEW k, NEW u, Available(k, u),
                         Go(q, [at |-> "saveRegistration", user |-> u, row |-> k])
                  PROVE  Goal
                <5>1. Available(k, u)'
                    BY <2>4, <4>1 DEF CheckRegistration, tables, Available, RegistrationsOn,
                       Holding, Open
                <5> QED
                    BY <1>2, <4>1, <5>1 DEF Checked
            <4> QED
                BY <3>2, <4>1
        <3> QED
            BY <2>4, <3>1, <3>2 DEF CheckRegistration
    <2>5. ASSUME NEW u \in Users, NEW o \in Objects, RefreshRegistrationToken(q, u, o) PROVE Goal
        BY <1>3, <2>5 DEF RefreshRegistrationToken
    <2>6. ASSUME NEW u \in Users, NEW t \in Tokens, CreateReturning(q, u, t) PROVE Goal
        BY <1>3, <2>6 DEF CreateReturning
    <2>7. ASSUME NEW u \in Users, NEW r \in Registrations,
                 GenerateReturnToken(q, u, r) \/ CancelRegistration(q, u, r) PROVE Goal
        BY <1>3, <2>7 DEF GenerateReturnToken, CancelRegistration
    <2>8. CASE SaveObject(q)
        BY <1>3, <2>8 DEF SaveObject
    <2>9. CASE SaveRegistration(q)
        BY <1>3, <2>9 DEF SaveRegistration
    <2>10. CASE Publish(q)
        BY <1>3, <2>10 DEF Publish, Reply, Idle
    <2>11. CASE GenerateToken(q)
        BY <1>3, <2>11 DEF GenerateToken, Reply, Idle
    <2>12. CASE SaveReceiving(q)
        BY <1>3, <2>12 DEF SaveReceiving, Reply, Idle
    <2>13. CASE SaveReturning(q)
        BY <1>3, <2>13 DEF SaveReturning, Reply, Idle
    <2>14. CASE SaveCancel(q)
        BY <1>3, <2>14 DEF SaveCancel
    <2>15. CASE Fail(q)
        BY <1>3, <2>15 DEF Fail, Reply, Idle
    <2> QED
        BY <1>4, <2>1, <2>2, <2>3, <2>4, <2>5, <2>6, <2>7, <2>8, <2>9, <2>10, <2>11,
           <2>12, <2>13, <2>14, <2>15 DEF Request, Continue
<1> QED
    BY <1>1, <1>4 DEF Next, Tick, RegistrationExpires, TokenGoesStale, vars, tables

-----------------------------------------------------------------------------
\* Only SaveRegistration adds a registration, and none changes its object or recipient.
LEMMA RegistrationsStay ==
    ASSUME IInv, [Next]_vars, NEW q \in Requests, Writes(q), ~SaveRegistration(q)
    PROVE  \A k : /\ RegistrationsOn(k)' = RegistrationsOn(k)
                  /\ \A r \in RegistrationsOn(k) :
                        registration'[r].recipient = registration[r].recipient
<1>1. Grows /\ TypeOK
    BY NextGrows DEF IInv
<1>2. \A r \in Registrations : registration'[r] # NoRow => registration[r] # NoRow
    BY NewRegistrationsAreSaved
<1> QED
    BY <1>1, <1>2 DEF Grows, RegistrationsOn

\* A new registration is not received.
LEMMA NewRegistrationsAreNotReceived ==
    ASSUME IInv, NEW q \in Requests, SaveRegistration(q)
    PROVE  \E r \in Registrations :
              /\ registration[r] = NoRow /\ receiving[r] = NoRow
              /\ registration' = [registration EXCEPT ![r] =
                    [object |-> req[q].row, recipient |-> req[q].user, status |-> "OK"]]
              /\ receiving' = receiving /\ returning' = returning
BY DEF IInv, PartiesOfALoan, SaveRegistration

\* A hand-over is saved for a registration none of whose object is handed over.
LEMMA SingleHolderNext ==
    ASSUME SInv, [Next]_vars
    PROVE  SingleHolder'
<1>1. TypeOK /\ IInv /\ SingleHolder
    BY DEF SInv, IInv
<1>2. CASE UNCHANGED tables
    BY <1>1, <1>2 DEF SingleHolder, RegistrationsOn, Holding, tables
<1>3. ASSUME NEW q \in Requests, Writes(q) PROVE SingleHolder'
    <2>1. CASE SaveRegistration(q)
        <3>1. PICK r \in Registrations :
                  /\ registration[r] = NoRow /\ receiving[r] = NoRow
                  /\ registration' = [registration EXCEPT ![r] =
                        [object |-> req[q].row, recipient |-> req[q].user, status |-> "OK"]]
                  /\ receiving' = receiving /\ returning' = returning
            BY <1>1, <2>1, NewRegistrationsAreNotReceived
        <3>2. \A k \in Rows : \A s \in RegistrationsOn(k)' :
                  Holding(s)' => s \in RegistrationsOn(k) /\ Holding(s)
            BY <1>1, <3>1 DEF RegistrationsOn, Holding, TypeOK
        <3> QED
            BY <1>1, <3>2 DEF SingleHolder
    <2>2. CASE SaveReceiving(q) /\ receiving' # receiving
        <3> DEFINE g == token[req[q].token].registration
        <3>1. /\ receiving' = [receiving EXCEPT ![g] =
                    [giver |-> req[q].user, recipient |-> token[req[q].token].issuer]]
              /\ UNCHANGED <<registration, returning>>
            BY <2>2 DEF SaveReceiving
        <3>2. \A s \in RegistrationsOn(registration[g].object) : ~Holding(s)
            BY <2>2 DEF SInv, Checked, SaveReceiving, NotTaken
        <3> HIDE DEF g
        <3>3. \A k \in Rows : \A s \in RegistrationsOn(k)' :
                  /\ s \in RegistrationsOn(k)
                  /\ Holding(s)' => s = g \/ Holding(s)
            BY <1>1, <3>1 DEF RegistrationsOn, Holding, TypeOK
        <3>4. \A k \in Rows : \A s, z \in RegistrationsOn(k) :
                  s = g => registration[g].object = k /\ ~Holding(z)
            BY <3>2 DEF RegistrationsOn
        <3> QED
            BY <1>1, <3>3, <3>4 DEF SingleHolder
    <2>3. CASE ~SaveRegistration(q) /\ receiving' = receiving
        <3>1. \A s \in Registrations : Holding(s)' => Holding(s)
            <4>1. Grows
                BY <1>1, NextGrows
            <4> QED
                BY <2>3, <4>1 DEF Holding, Grows
        <3> QED
            BY <1>1, <1>3, <2>3, <3>1, RegistrationsStay DEF SingleHolder, RegistrationsOn
    <2> QED
        BY <1>3, <2>1, <2>2, <2>3 DEF Writes, SaveObject, GenerateToken, SaveReturning, SaveCancel
<1> QED
    BY <1>2, <1>3, OnlyWritesWrite

\* A registration is saved for a user whose others are closed, and none is opened again.
LEMMA OneOpenRegistrationNext ==
    ASSUME SInv, [Next]_vars
    PROVE  OneOpenRegistration'
<1>1. TypeOK /\ IInv /\ OneOpenRegistration
    BY DEF SInv, IInv
<1>2. CASE UNCHANGED tables
    BY <1>1, <1>2 DEF OneOpenRegistration, RegistrationsOn, Open, tables
<1>3. \A s \in Registrations : Open(s)' => Open(s)
    <2>1. Grows
        BY <1>1, NextGrows
    <2> QED
        BY <2>1 DEF Open, Grows
<1>4. ASSUME NEW q \in Requests, Writes(q) PROVE OneOpenRegistration'
    <2>1. CASE SaveRegistration(q)
        <3>1. PICK r \in Registrations :
                  /\ registration[r] = NoRow /\ receiving[r] = NoRow
                  /\ registration' = [registration EXCEPT ![r] =
                        [object |-> req[q].row, recipient |-> req[q].user, status |-> "OK"]]
                  /\ receiving' = receiving /\ returning' = returning
            BY <1>1, <2>1, NewRegistrationsAreNotReceived
        <3>2. \A s \in RegistrationsOn(req[q].row) :
                  registration[s].recipient = req[q].user => ~Open(s)
            BY <2>1 DEF SInv, Checked, Available, SaveRegistration
        <3>3. /\ registration'[r].object = req[q].row
              /\ registration'[r].recipient = req[q].user
              /\ \A s \in Registrations : s # r => registration'[s] = registration[s]
            BY <1>1, <3>1 DEF TypeOK
        <3>4. \A k \in Rows : \A s \in RegistrationsOn(k)' :
                  /\ s \in Registrations
                  /\ s = r \/ s \in RegistrationsOn(k)
                  /\ s = r => k = req[q].row
            BY <3>3 DEF RegistrationsOn
        <3> QED
            BY <1>1, <1>3, <3>2, <3>3, <3>4 DEF OneOpenRegistration
    <2>2. CASE ~SaveRegistration(q)
        BY <1>1, <1>3, <1>4, <2>2, RegistrationsStay DEF OneOpenRegistration, RegistrationsOn
    <2> QED
        BY <2>1, <2>2
<1> QED
    BY <1>2, <1>4, OnlyWritesWrite

\* A row is saved for an object that has none.
LEMMA OneRowPerObjectNext ==
    ASSUME SInv, [Next]_vars
    PROVE  OneRowPerObject'
<1>1. TypeOK /\ OneRowPerObject
    BY DEF SInv, IInv
<1>2. ASSUME NEW q \in Requests, SaveObject(q) PROVE OneRowPerObject'
    <2>1. RowsOf(req[q].object) = {}
        BY <1>2 DEF SInv, Checked, SaveObject
    <2>2. PICK n \in Rows :
              offered' = [offered EXCEPT ![n] =
                             [original |-> req[q].object, owner |-> req[q].user]]
        BY <1>2 DEF SaveObject
    <2>3. /\ offered'[n].original = req[q].object
          /\ \A k \in Rows : k # n => offered'[k] = offered[k]
        BY <1>1, <2>2 DEF TypeOK
    <2> QED
        BY <1>1, <2>1, <2>3 DEF OneRowPerObject, RowsOf
<1>3. CASE offered' = offered
    BY <1>1, <1>3 DEF OneRowPerObject, RowsOf
<1> QED
    BY <1>2, <1>3, OnlyWritesWrite
       DEF tables, Writes, SaveRegistration, GenerateToken, SaveReceiving, SaveReturning, SaveCancel

-----------------------------------------------------------------------------
\* At the start nothing is registered and no request is in flight.
LEMMA InitSInv == Init => SInv
<1> SUFFICES ASSUME Init PROVE SInv
    OBVIOUS
<1>1. SingleHolder /\ OneOpenRegistration /\ OneRowPerObject
    BY SeededOnce DEF Init, SingleHolder, OneOpenRegistration, OneRowPerObject, RegistrationsOn
<1>2. \A q \in Requests : Checked(q)
    BY DEF Init, Checked, Idle
<1> QED
    BY <1>1, <1>2, InitIInv DEF SInv

\* The checks and what they are for, of requests that do not overlap.
THEOREM SerialInvariance == Serial => (Spec => []SInv)
<1>1. Serial /\ SInv /\ [Next]_vars => SInv'
    BY CheckedNext, SingleHolderNext, OneOpenRegistrationNext, OneRowPerObjectNext, NextIInv
       DEF SInv
<1> SUFFICES ASSUME Serial PROVE Spec => []SInv
    OBVIOUS
<1>2. SInv /\ [Next]_vars => SInv'
    BY <1>1
<1> QED
    BY <1>2, InitSInv, PTL DEF Spec

\* The check of CreateReceiving suffices when requests do not overlap: an object is
\* never with two recipients.
THEOREM SerialSingleHolder == Serial => (Spec => []SingleHolder)
<1> SUFFICES ASSUME Serial PROVE Spec => []SingleHolder
    OBVIOUS
<1>1. SInv => SingleHolder
    BY DEF SInv
<1> QED
    BY <1>1, SerialInvariance, PTL

\* The check of CreateRegistration suffices when requests do not overlap: a user has at
\* most one open registration of an object.
THEOREM SerialOneOpenRegistration == Serial => (Spec => []OneOpenRegistration)
<1> SUFFICES ASSUME Serial PROVE Spec => []OneOpenRegistration
    OBVIOUS
<1>1. SInv => OneOpenRegistration
    BY DEF SInv
<1> QED
    BY <1>1, SerialInvariance, PTL

\* The look-up of CreateRegistration suffices when requests do not overlap: an object of
\* the catalog has one row.
THEOREM SerialOneRowPerObject == Serial => (Spec => []OneRowPerObject)
<1> SUFFICES ASSUME Serial PROVE Spec => []OneRowPerObject
    OBVIOUS
<1>1. SInv => OneRowPerObject
    BY DEF SInv
<1> QED
    BY <1>1, SerialInvariance, PTL

\* An object that need not be returned is registered only while nobody has it, when
\* requests do not overlap.
THEOREM SerialFreeObjects == Serial => (Spec => FreeObjectsAreRegisteredAtHome)
<1> SUFFICES ASSUME Serial PROVE Spec => FreeObjectsAreRegisteredAtHome
    OBVIOUS
<1> DEFINE AtHome(r) ==
        registration[r] = NoRow /\ registration'[r] # NoRow =>
            LET k == registration'[r].object IN
            offered[k].original \notin Lending => \A s \in RegistrationsOn(k) : ~Holding(s)
<1>1. ASSUME SInv, [Next]_vars, NEW r \in Registrations PROVE AtHome(r)
    <2>1. IInv /\ TypeOK
        BY <1>1 DEF SInv, IInv
    <2>2. CASE UNCHANGED tables
        BY <2>2 DEF tables
    <2>3. ASSUME NEW q \in Requests, SaveRegistration(q) PROVE AtHome(r)
        <3>1. Available(req[q].row, req[q].user)
            BY <1>1, <2>3 DEF SInv, Checked, SaveRegistration
        <3>2. registration[r] = NoRow /\ registration'[r] # NoRow =>
                  registration'[r].object = req[q].row
            BY <2>1, <2>3 DEF SaveRegistration, TypeOK
        <3> QED
            BY <3>1, <3>2 DEF Available
    <2>4. ASSUME NEW q \in Requests, Writes(q), ~SaveRegistration(q) PROVE AtHome(r)
        <3>1. \A k : RegistrationsOn(k)' = RegistrationsOn(k)
            BY <1>1, <2>1, <2>4, RegistrationsStay
        <3> QED
            BY <3>1 DEF RegistrationsOn
    <2> QED
        BY <1>1, <2>2, <2>3, <2>4, OnlyWritesWrite
<1>2. SInv /\ [Next]_vars => \A r \in Registrations : AtHome(r)
    BY <1>1
<1> QED
    BY <1>2, SerialInvariance, PTL DEF Spec, FreeObjectsAreRegisteredAtHome

-----------------------------------------------------------------------------
\* Holder is the registration under which somebody has the object, if any.
HolderIsHolding ==
    \A k \in Rows :
        /\ \A r \in RegistrationsOn(k) : Holding(r) => Holder(k) = r
        /\ (\A r \in RegistrationsOn(k) : ~Holding(r)) => Holder(k) = NoRow

\* With one recipient at a time there is one such registration for CHOOSE to find.
LEMMA HolderOf == SingleHolder => HolderIsHolding
<1> SUFFICES ASSUME SingleHolder, NEW k \in Rows
             PROVE  /\ \A r \in RegistrationsOn(k) : Holding(r) => Holder(k) = r
                    /\ (\A r \in RegistrationsOn(k) : ~Holding(r)) => Holder(k) = NoRow
    BY DEF HolderIsHolding
<1>1. ASSUME NEW r \in RegistrationsOn(k), Holding(r) PROVE Holder(k) = r
    <2>1. Holder(k) \in RegistrationsOn(k) /\ Holding(Holder(k))
        BY <1>1 DEF Holder
    <2> QED
        BY <1>1, <2>1 DEF SingleHolder
<1>2. (\A r \in RegistrationsOn(k) : ~Holding(r)) => Holder(k) = NoRow
    BY DEF Holder
<1> QED
    BY <1>1, <1>2

\* The same of the next state.
LEMMA HolderOfNext == SingleHolder' => HolderIsHolding'
BY HolderOf, PTL

\* A row whose registrations are held as before has the same holder.
LEMMA HolderStays ==
    ASSUME SingleHolder, SingleHolder', NEW k \in Rows,
           \A r \in Registrations :
               (r \in RegistrationsOn(k) /\ Holding(r)) <=>
               (r \in RegistrationsOn(k)' /\ Holding(r)')
    PROVE  Holder(k)' = Holder(k)
<1>1. HolderIsHolding /\ HolderIsHolding'
    BY HolderOf, HolderOfNext
<1>2. RegistrationsOn(k) \subseteq Registrations /\ RegistrationsOn(k)' \subseteq Registrations
    BY DEF RegistrationsOn
<1> QED
    BY <1>1, <1>2 DEF HolderIsHolding

\* The steps that hand nothing over and take nothing back leave Custody as it is.
LEMMA CustodyStays ==
    ASSUME SInv, SInv', [Next]_vars, UNCHANGED <<receiving, returning>>
    PROVE  UNCHANGED <<[k \in Rows |-> Holder(k)],
                       {r \in Registrations : returning[r] # NoRow}>>
<1>1. IInv /\ TypeOK /\ SingleHolder /\ SingleHolder'
    BY DEF SInv, IInv
<1>2. ASSUME NEW k \in Rows PROVE Holder(k)' = Holder(k)
    <2>1. CASE UNCHANGED tables
        BY <1>1, <1>2, <2>1, HolderStays DEF tables, RegistrationsOn, Holding
    <2>2. ASSUME NEW q \in Requests, SaveRegistration(q) PROVE Holder(k)' = Holder(k)
        <3>1. PICK n \in Registrations :
                  /\ registration[n] = NoRow /\ receiving[n] = NoRow
                  /\ registration' = [registration EXCEPT ![n] =
                        [object |-> req[q].row, recipient |-> req[q].user, status |-> "OK"]]
                  /\ receiving' = receiving /\ returning' = returning
            BY <1>1, <2>2, NewRegistrationsAreNotReceived
        <3>2. \A r \in Registrations :
                  (r \in RegistrationsOn(k) /\ Holding(r)) <=>
                  (r \in RegistrationsOn(k)' /\ Holding(r)')
            BY <1>1, <3>1 DEF RegistrationsOn, Holding, TypeOK
        <3> QED
            BY <1>1, <3>2, HolderStays
    <2>3. ASSUME NEW q \in Requests, Writes(q), ~SaveRegistration(q)
          PROVE  Holder(k)' = Holder(k)
        <3>1. RegistrationsOn(k)' = RegistrationsOn(k)
            BY <1>1, <2>3, RegistrationsStay
        <3> QED
            BY <1>1, <3>1, HolderStays DEF Holding
    <2> QED
        BY <2>1, <2>2, <2>3, OnlyWritesWrite
<1> QED
    BY <1>2

\* A hand-over takes the object of the registration out.
LEMMA ReceivingTakesOut ==
    ASSUME SInv, SInv', [Next]_vars,
           NEW q \in Requests, SaveReceiving(q), receiving' # receiving
    PROVE  C!Next
<1>1. IInv /\ TypeOK /\ SingleHolder /\ SingleHolder' /\ PartiesOfALoan
    BY DEF SInv, IInv
<1>2. PICK g \in Registrations, x \in Rows :
          /\ g = token[req[q].token].registration
          /\ registration[g] # NoRow /\ registration[g].object = x
    <2> DEFINE t == req[q].token
               g == token[t].registration
    <2>1. t \in Tokens /\ token[t] # NoRow /\ g \in Registrations
        BY <1>1, WriterFields DEF SaveReceiving
    <2>2. token[t].type = "Receiving"
        BY <1>1 DEF SaveReceiving, IInv, RequestsKnow, RequestKnows, TokenFor
    <2>3. registration[g] # NoRow
        BY <1>1, <2>1, <2>2 DEF IInv, TokensKnown
    <2>4. registration[g].object \in Rows
        BY <1>1, <2>1, <2>3, RowFields
    <2> QED
        BY <2>1, <2>3, <2>4
<1>3. /\ receiving[g] = NoRow
      /\ receiving'[g] # NoRow
      /\ \A r \in Registrations : r # g => receiving'[r] = receiving[r]
      /\ UNCHANGED <<registration, returning>>
    BY <1>1, <1>2, NextGrows DEF SaveReceiving, ReceivingIndexAdmits, TypeOK
<1>4. \A r \in RegistrationsOn(x) : ~Holding(r)
    BY <1>2 DEF SInv, Checked, NotTaken, SaveReceiving
<1>5. returning[g] = NoRow /\ g \in RegistrationsOn(x) /\ g # NoRow
    BY <1>1, <1>2, <1>3, TransactionsAssumption DEF PartiesOfALoan, RegistrationsOn
<1>6. HolderIsHolding /\ HolderIsHolding'
    BY <1>1, HolderOf, HolderOfNext
<1>7. Holder(x) = NoRow
    BY <1>2, <1>4, <1>6 DEF HolderIsHolding
<1>8. Holder(x)' = g
    <2>1. g \in RegistrationsOn(x)' /\ Holding(g)'
        BY <1>3, <1>5 DEF RegistrationsOn, Holding
    <2> QED
        BY <1>2, <1>6, <2>1 DEF HolderIsHolding
<1>9. ASSUME NEW y \in Rows, y # x PROVE Holder(y)' = Holder(y)
    <2>1. \A r \in Registrations :
              (r \in RegistrationsOn(y) /\ Holding(r)) <=>
              (r \in RegistrationsOn(y)' /\ Holding(r)')
        BY <1>2, <1>3, <1>9 DEF RegistrationsOn, Holding
    <2> QED
        BY <1>1, <2>1, HolderStays
<1>10. ASSUME NEW y \in Rows PROVE Holder(y) # g
    <2>1. CASE \E r \in RegistrationsOn(y) : Holding(r)
        BY <1>3, <1>6, <2>1 DEF HolderIsHolding, Holding
    <2>2. CASE \A r \in RegistrationsOn(y) : ~Holding(r)
        BY <1>5, <1>6, <2>2 DEF HolderIsHolding
    <2> QED
        BY <2>1, <2>2
<1>11. C!TakeOut(x, g)
    BY <1>2, <1>3, <1>5, <1>7, <1>8, <1>9, <1>10 DEF C!TakeOut
<1> QED
    BY <1>2, <1>11 DEF C!Next

\* A return gives back the thing of the registration.
LEMMA ReturningGivesBack ==
    ASSUME SInv, SInv', [Next]_vars,
           NEW q \in Requests, SaveReturning(q), returning' # returning
    PROVE  C!Next
<1>1. IInv /\ TypeOK /\ SingleHolder /\ SingleHolder'
    BY DEF SInv, IInv
<1>2. PICK g \in Registrations, x \in Rows :
          /\ g = token[req[q].token].registration
          /\ registration[g] # NoRow /\ registration[g].object = x
          /\ receiving[g] # NoRow
    <2> DEFINE t == req[q].token
               g == token[t].registration
    <2>1. t \in Tokens /\ token[t] # NoRow /\ g \in Registrations
        BY <1>1, WriterFields DEF SaveReturning
    <2>2. token[t].type = "Returning"
        BY <1>1 DEF SaveReturning, IInv, RequestsKnow, RequestKnows, TokenFor
    <2>3. registration[g] # NoRow /\ receiving[g] # NoRow
        BY <1>1, <2>1, <2>2 DEF IInv, TokensKnown
    <2>4. registration[g].object \in Rows
        BY <1>1, <2>1, <2>3, RowFields
    <2> QED
        BY <2>1, <2>3, <2>4
<1>3. /\ returning[g] = NoRow
      /\ returning'[g] # NoRow
      /\ \A r \in Registrations : r # g => returning'[r] = returning[r]
      /\ UNCHANGED <<registration, receiving>>
    BY <1>1, <1>2, TransactionsAssumption
       DEF SaveReturning, ReturningIndexAdmits, TypeOK
<1>4. g \in RegistrationsOn(x) /\ Holding(g) /\ g # NoRow
    BY <1>2, <1>3, TransactionsAssumption DEF RegistrationsOn, Holding
<1>5. HolderIsHolding /\ HolderIsHolding'
    BY <1>1, HolderOf, HolderOfNext
<1>6. Holder(x) = g
    BY <1>2, <1>4, <1>5 DEF HolderIsHolding
<1>7. Holder(x)' = NoRow
    <2>1. \A r \in RegistrationsOn(x)' : ~Holding(r)'
        BY <1>1, <1>2, <1>3, <1>4 DEF RegistrationsOn, Holding, SingleHolder
    <2> QED
        BY <1>2, <1>5, <2>1 DEF HolderIsHolding
<1>8. ASSUME NEW y \in Rows, y # x PROVE Holder(y)' = Holder(y)
    <2>1. \A r \in Registrations :
              (r \in RegistrationsOn(y) /\ Holding(r)) <=>
              (r \in RegistrationsOn(y)' /\ Holding(r)')
        BY <1>2, <1>3, <1>8 DEF RegistrationsOn, Holding
    <2> QED
        BY <1>1, <2>1, HolderStays
<1>9. C!GiveBack(x)
    BY <1>2, <1>3, <1>4, <1>6, <1>7, <1>8 DEF C!GiveBack
<1> QED
    BY <1>2, <1>9 DEF C!Next

\* Requests that do not overlap implement Custody: an object is out on one loan at a
\* time, and each loan goes out once and comes back once.
THEOREM SerialImplementsCustody == Serial => (Spec => ImplementsCustody)
<1> SUFFICES ASSUME Serial PROVE Spec => ImplementsCustody
    OBVIOUS
<1> DEFINE held == [k \in Rows |-> Holder(k)]
           back == {r \in Registrations : returning[r] # NoRow}
<1>1. Init => C!Init
    BY DEF Init, C!Init, Holder, RegistrationsOn
<1>2. SInv /\ SInv' /\ [Next]_vars => [C!Next]_<<held, back>>
    <2> SUFFICES ASSUME SInv, SInv', [Next]_vars PROVE [C!Next]_<<held, back>>
        OBVIOUS
    <2>1. CASE UNCHANGED <<receiving, returning>>
        BY <2>1, CustodyStays
    <2>2. ASSUME NEW q \in Requests, SaveReceiving(q), receiving' # receiving PROVE C!Next
        BY <2>2, ReceivingTakesOut
    <2>3. ASSUME NEW q \in Requests, SaveReturning(q), returning' # returning PROVE C!Next
        BY <2>3, ReturningGivesBack
    <2> QED
        BY <2>1, <2>2, <2>3, OnlyWritesWrite
           DEF tables, Writes, SaveObject, SaveRegistration, GenerateToken, SaveReceiving,
               SaveReturning, SaveCancel
<1> QED
    BY <1>1, <1>2, SerialInvariance, PTL DEF Spec, ImplementsCustody, C!Spec
=============================================================================
