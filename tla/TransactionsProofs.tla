------------------------- MODULE TransactionsProofs -------------------------
(***************************************************************************)
(* Theorems about Transactions, for every number of users, objects,        *)
(* registrations, tokens and overlapping requests.                         *)
(*                                                                         *)
(* The safety properties are not inductive by themselves: what a handler   *)
(* saves rests on what it read before its last await.  The invariant below *)
(* adds what each request in flight may still rely on (RequestsKnow), and  *)
(* it is kept because the tables only grow (Grows): a fact a request read  *)
(* in the past and relies on stays true whatever the others do.            *)
(*                                                                         *)
(* The action properties follow: a row of receivings or returnings is new  *)
(* only where a token is marked in the same step.                          *)
(***************************************************************************)
EXTENDS Transactions, TLAPS

RowsKnown ==
    \A r \in Registrations :
        registration[r] # NoRow => offered[registration[r].object] # NoRow

TokensKnown ==
    \A t \in Tokens : token[t] # NoRow =>
        LET r == token[t].registration IN
        /\ registration[r] # NoRow
        /\ token[t].type = "Receiving" => token[t].issuer = registration[r].recipient
        /\ token[t].type = "Returning" => receiving[r] # NoRow

\* A token of this type for an object of u.
TokenFor(t, type, u) ==
    /\ token[t] # NoRow
    /\ token[t].type = type
    /\ OwnerOf(token[t].registration) = u

RequestKnows(q) ==
    /\ req[q].at \in {"checkRegistration", "saveRegistration"} => offered[req[q].row] # NoRow
    /\ req[q].at = "saveToken" =>
          /\ registration[req[q].registration] # NoRow
          /\ req[q].type = "Receiving" =>
                req[q].user = registration[req[q].registration].recipient
          /\ req[q].type = "Returning" => receiving[req[q].registration] # NoRow
    /\ req[q].at = "saveReceiving" => TokenFor(req[q].token, "Receiving", req[q].user)
    /\ req[q].at = "saveReturning" => TokenFor(req[q].token, "Returning", req[q].user)
    /\ req[q].at = "saveCancel" => registration[req[q].registration] # NoRow
    /\ req[q].at = "publish" => Saved(req[q].event)

RequestsKnow == \A q \in Requests : RequestKnows(q)

IInv ==
    /\ TypeOK
    /\ RowsKnown
    /\ TokensKnown
    /\ PartiesOfALoan
    /\ TokensAccountForLoans
    /\ RequestsKnow
    /\ AnnouncedIsSaved

\* What no step takes back.
Grows ==
    /\ \A k \in Rows : offered[k] # NoRow => offered'[k] = offered[k]
    /\ \A r \in Registrations :
          /\ registration[r] # NoRow =>
                /\ registration'[r] # NoRow
                /\ registration'[r].object = registration[r].object
                /\ registration'[r].recipient = registration[r].recipient
                /\ registration[r].status = "Canceled" => registration'[r] = registration[r]
          /\ receiving[r] # NoRow => receiving'[r] = receiving[r]
          /\ returning[r] # NoRow => returning'[r] = returning[r]
    /\ \A t \in Tokens : token[t] # NoRow =>
          /\ token'[t] # NoRow
          /\ token'[t].type = token[t].type
          /\ token'[t].registration = token[t].registration
          /\ token'[t].issuer = token[t].issuer
          /\ token[t].status = "Used" => token'[t].status = "Used"

\* The steps that write to the tables.
Writes(q) ==
    \/ SaveObject(q) \/ SaveRegistration(q) \/ GenerateToken(q)
    \/ SaveReceiving(q) \/ SaveReturning(q) \/ SaveCancel(q)

-----------------------------------------------------------------------------
\* What a request in flight carries, by where it is.
LEMMA InFlightFields ==
    ASSUME NEW x \in InFlight
    PROVE  /\ x.at \in {"fetchObject", "saveObject"} => x.user \in Users /\ x.object \in Objects
           /\ x.at \in {"checkRegistration", "saveRegistration"} =>
                 x.user \in Users /\ x.row \in Rows
           /\ x.at = "saveToken" =>
                 /\ x.user \in Users /\ x.type \in {"Receiving", "Returning"}
                 /\ x.registration \in Registrations
           /\ x.at \in {"saveReceiving", "saveReturning"} =>
                 x.user \in Users /\ x.token \in Tokens
           /\ x.at = "saveCancel" => x.registration \in Registrations
           /\ x.at = "publish" =>
                 /\ x.event \in Events
                 /\ x.event.kind \in EventKinds /\ x.event.registration \in Registrations
BY DEF InFlight, Idle, Events

\* A table has in each place NoRow or a row with its fields.
LEMMA RowFields ==
    ASSUME TypeOK
    PROVE  /\ \A k \in Rows : offered[k] # NoRow =>
                 offered[k].original \in Objects /\ offered[k].owner \in Users
           /\ \A r \in Registrations :
                 /\ registration[r] # NoRow =>
                       /\ registration[r].object \in Rows
                       /\ registration[r].recipient \in Users
                 /\ receiving[r] # NoRow =>
                       /\ receiving[r].giver \in Users /\ receiving[r].recipient \in Users
                       /\ receiving[r] = [giver |-> receiving[r].giver,
                                          recipient |-> receiving[r].recipient]
           /\ \A t \in Tokens : token[t] # NoRow =>
                 /\ token[t].registration \in Registrations
                 /\ token[t].type \in {"Receiving", "Returning"}
                 /\ token[t].issuer \in Users
                 /\ token[t].status \in {"Ok", "Used"}
BY DEF TypeOK, OfferedObject, ObjectRegistration, ObjectReceiving, TransactionToken

\* An update of a row keeps it a row.
LEMMA UpdatedRows ==
    /\ \A x \in ObjectRegistration : [x EXCEPT !.status = "Canceled"] # NoRow
    /\ \A x \in TransactionToken : [x EXCEPT !.status = "Used"] # NoRow
BY TransactionsAssumption DEF ObjectRegistration, TransactionToken

\* Every other step leaves the tables alone.
LEMMA OnlyWritesWrite ==
    ASSUME [Next]_vars
    PROVE  UNCHANGED tables \/ \E q \in Requests : Writes(q)
<1>1. CASE UNCHANGED vars
    BY <1>1 DEF vars
<1>2. CASE Tick
    BY <1>2 DEF Tick, RegistrationExpires, TokenGoesStale
<1>3. ASSUME NEW q \in Requests, Request(q) \/ Fail(q), ~Writes(q) PROVE UNCHANGED tables
    BY <1>3 DEF Request, Continue, Writes, FetchObject, CreateRegistration, RefreshRegistrationToken,
       CreateReceiving, CreateReturning, GenerateReturnToken, CancelRegistration,
       CheckRegistration, Publish, Fail
<1> QED
    BY <1>1, <1>2, <1>3 DEF Next

-----------------------------------------------------------------------------
\* Every step writes rows of the right type, because a request that writes carries
\* fields of the right type.
LEMMA TypeNext ==
    ASSUME IInv, [Next]_vars
    PROVE  TypeOK'
<1> TypeOK /\ RequestsKnow
    BY DEF IInv
<1> USE DEF Go, Reply, tables, clock
<1>1. CASE UNCHANGED vars
    BY <1>1 DEF TypeOK, vars
<1>2. ASSUME NEW r \in Registrations, RegistrationExpires(r) PROVE TypeOK'
    BY <1>2 DEF TypeOK, RegistrationExpires
<1>3. ASSUME NEW t \in Tokens, TokenGoesStale(t) PROVE TypeOK'
    BY <1>3 DEF TypeOK, TokenGoesStale
<1>4. ASSUME NEW q \in Requests, Request(q) \/ Fail(q) PROVE TypeOK'
    <2> req[q] \in InFlight /\ RequestKnows(q)
        BY DEF TypeOK, RequestsKnow
    <2>1. ASSUME NEW u \in Users, NEW o \in Objects, CreateRegistration(q, u, o) PROVE TypeOK'
        <3>1. \E x \in InFlight : req' = [req EXCEPT ![q] = x]
            BY <2>1 DEF CreateRegistration, InFlight, RowsOf
        <3> QED  BY <2>1, <3>1 DEF TypeOK, CreateRegistration
    <2>2. ASSUME NEW u \in Users, NEW o \in Objects, RefreshRegistrationToken(q, u, o)
          PROVE TypeOK'
        <3>1. \E x \in InFlight : req' = [req EXCEPT ![q] = x]
            BY <2>2 DEF RefreshRegistrationToken, InFlight, RowsOf, RegistrationsOn
        <3> QED  BY <2>2, <3>1 DEF TypeOK, RefreshRegistrationToken
    <2>3. ASSUME NEW u \in Users, NEW t \in Tokens, CreateReceiving(q, u, t) PROVE TypeOK'
        <3>1. [at |-> "saveReceiving", user |-> u, token |-> t] \in InFlight
            BY DEF InFlight
        <3> QED  BY <2>3, <3>1 DEF TypeOK, CreateReceiving
    <2>4. ASSUME NEW u \in Users, NEW t \in Tokens, CreateReturning(q, u, t) PROVE TypeOK'
        <3>1. [at |-> "saveReturning", user |-> u, token |-> t] \in InFlight
            BY DEF InFlight
        <3> QED  BY <2>4, <3>1 DEF TypeOK, CreateReturning
    <2>5. ASSUME NEW u \in Users, NEW r \in Registrations, GenerateReturnToken(q, u, r)
          PROVE TypeOK'
        <3>1. [at |-> "saveToken", user |-> u, type |-> "Returning", registration |-> r] \in InFlight
            BY DEF InFlight
        <3> QED  BY <2>5, <3>1 DEF TypeOK, GenerateReturnToken
    <2>6. ASSUME NEW u \in Users, NEW r \in Registrations, CancelRegistration(q, u, r)
          PROVE TypeOK'
        <3>1. [at |-> "saveCancel", registration |-> r] \in InFlight
            BY DEF InFlight
        <3> QED  BY <2>6, <3>1 DEF TypeOK, CancelRegistration
    <2>7. ASSUME FetchObject(q) PROVE TypeOK'
        <3>1. \E x \in InFlight : req' = [req EXCEPT ![q] = x]
            BY <2>7, InFlightFields DEF FetchObject, InFlight
        <3> QED  BY <2>7, <3>1 DEF TypeOK, FetchObject
    <2>8. ASSUME CheckRegistration(q) PROVE TypeOK'
        <3>1. \E x \in InFlight : req' = [req EXCEPT ![q] = x]
            BY <2>8, InFlightFields DEF CheckRegistration, InFlight
        <3> QED  BY <2>8, <3>1 DEF TypeOK, CheckRegistration
    <2>9. ASSUME SaveRegistration(q) PROVE TypeOK'
        <3>1. \E x \in InFlight : req' = [req EXCEPT ![q] = x]
            BY <2>9, InFlightFields DEF SaveRegistration, InFlight, Events, EventKinds
        <3>2. registration' \in [Registrations -> ObjectRegistration \cup {NoRow}]
            BY <2>9, InFlightFields DEF SaveRegistration, TypeOK, ObjectRegistration
        <3> QED  BY <2>9, <3>1, <3>2 DEF TypeOK, SaveRegistration
    <2>10. ASSUME Publish(q) PROVE TypeOK'
        <3>1. req[q].event \in Events /\ req[q].event.registration \in Registrations
            BY <2>10, InFlightFields DEF Publish
        <3>2. req[q].event.kind = "NewRegistration" =>
                 registration[req[q].event.registration].recipient \in Users
            BY <2>10, <3>1, RowFields DEF RequestKnows, Saved, Publish
        <3>3. \E x \in InFlight : req' = [req EXCEPT ![q] = x]
            BY <2>10, <3>1, <3>2 DEF Publish, InFlight
        <3> QED  BY <2>10, <3>1, <3>3 DEF TypeOK, Publish
    <2>11. ASSUME GenerateToken(q) PROVE TypeOK'
        <3>1. token' \in [Tokens -> TransactionToken \cup {NoRow}]
            BY <2>11, InFlightFields DEF GenerateToken, TypeOK, TransactionToken
        <3> QED  BY <2>11, <3>1 DEF TypeOK, GenerateToken, InFlight
    <2>12. ASSUME SaveReceiving(q) PROVE TypeOK'
        <3>1. /\ req[q].token \in Tokens /\ req[q].user \in Users
              /\ token[req[q].token] # NoRow
            BY <2>12, InFlightFields DEF SaveReceiving, RequestKnows, TokenFor
        <3>2. /\ token[req[q].token] \in TransactionToken
              /\ token[req[q].token].registration \in Registrations
              /\ token[req[q].token].issuer \in Users
            BY <3>1, RowFields DEF TypeOK
        <3>3. token' \in [Tokens -> TransactionToken \cup {NoRow}]
            BY <2>12, <3>1, <3>2 DEF SaveReceiving, TypeOK, TransactionToken
        <3>4. receiving' \in [Registrations -> ObjectReceiving \cup {NoRow}]
            BY <2>12, <3>1, <3>2 DEF SaveReceiving, TypeOK, ObjectReceiving
        <3>5. \E x \in InFlight : req' = [req EXCEPT ![q] = x]
            BY <2>12, <3>2 DEF SaveReceiving, InFlight, Events, EventKinds
        <3> QED  BY <2>12, <3>3, <3>4, <3>5 DEF TypeOK, SaveReceiving
    <2>13. ASSUME SaveReturning(q) PROVE TypeOK'
        <3>1. /\ req[q].token \in Tokens /\ req[q].user \in Users
              /\ token[req[q].token] # NoRow
            BY <2>13, InFlightFields DEF SaveReturning, RequestKnows, TokenFor
        <3>2. /\ token[req[q].token] \in TransactionToken
              /\ token[req[q].token].registration \in Registrations
              /\ token[req[q].token].issuer \in Users
            BY <3>1, RowFields DEF TypeOK
        <3>3. token' \in [Tokens -> TransactionToken \cup {NoRow}]
            BY <2>13, <3>1, <3>2 DEF SaveReturning, TypeOK, TransactionToken
        <3>4. returning' \in [Registrations -> ObjectReturning \cup {NoRow}]
            BY <2>13, <3>1, <3>2 DEF SaveReturning, TypeOK, ObjectReturning
        <3>5. \E x \in InFlight : req' = [req EXCEPT ![q] = x]
            BY <2>13, <3>2 DEF SaveReturning, InFlight, Events, EventKinds
        <3> QED  BY <2>13, <3>3, <3>4, <3>5 DEF TypeOK, SaveReturning
    <2>14. ASSUME SaveCancel(q) PROVE TypeOK'
        <3>1. req[q].registration \in Registrations /\ registration[req[q].registration] # NoRow
            BY <2>14, InFlightFields DEF SaveCancel, RequestKnows
        <3>2. registration' \in [Registrations -> ObjectRegistration \cup {NoRow}]
            BY <2>14, <3>1 DEF SaveCancel, TypeOK, ObjectRegistration
        <3>3. \E x \in InFlight : req' = [req EXCEPT ![q] = x]
            BY <2>14, <3>1 DEF SaveCancel, InFlight, Events, EventKinds
        <3> QED  BY <2>14, <3>2, <3>3 DEF TypeOK, SaveCancel
    <2>15. ASSUME Fail(q) PROVE TypeOK'
        BY <2>15 DEF TypeOK, Fail, InFlight
    <2>16. ASSUME SaveObject(q) PROVE TypeOK'
        <3>1. \E x \in InFlight : req' = [req EXCEPT ![q] = x]
            BY <2>16, InFlightFields DEF SaveObject, InFlight
        <3>2. offered' \in [Rows -> OfferedObject \cup {NoRow}]
            BY <2>16, InFlightFields DEF SaveObject, TypeOK, OfferedObject
        <3> QED  BY <2>16, <3>1, <3>2 DEF TypeOK, SaveObject
    <2> QED
        BY <1>4, <2>1, <2>2, <2>3, <2>4, <2>5, <2>6, <2>7, <2>8, <2>9, <2>10, <2>11,
           <2>12, <2>13, <2>14, <2>15, <2>16 DEF Request, Continue
<1> QED
    BY <1>1, <1>2, <1>3, <1>4 DEF Next, Tick

-----------------------------------------------------------------------------
\* What a writing request holds in hand.
LEMMA WriterFields ==
    ASSUME IInv, NEW q \in Requests
    PROVE  /\ req[q].at \in {"saveReceiving", "saveReturning"} =>
                 /\ req[q].user \in Users
                 /\ req[q].token \in Tokens
                 /\ token[req[q].token] \in TransactionToken
                 /\ token[req[q].token] # NoRow
                 /\ token[req[q].token].registration \in Registrations
                 /\ token[req[q].token].issuer \in Users
           /\ req[q].at = "saveCancel" =>
                 /\ req[q].registration \in Registrations
                 /\ registration[req[q].registration] \in ObjectRegistration
                 /\ registration[req[q].registration] # NoRow
<1>1. TypeOK /\ RequestKnows(q) /\ req[q] \in InFlight
    BY DEF IInv, RequestsKnow, TypeOK
<1> QED
    BY <1>1, InFlightFields, RowFields DEF RequestKnows, TokenFor, TypeOK

\* No handler deletes a row, or changes a row but for a status that moves one way.
LEMMA NextGrows ==
    ASSUME IInv, [Next]_vars
    PROVE  Grows
<1>1. CASE UNCHANGED tables
    BY <1>1 DEF tables, Grows
<1>2. ASSUME NEW q \in Requests, Writes(q) PROVE Grows
    <2> TypeOK
        BY DEF IInv
    <2>1. CASE SaveObject(q)
        BY <2>1 DEF SaveObject, Grows, TypeOK
    <2>2. CASE SaveRegistration(q)
        BY <2>2 DEF SaveRegistration, Grows, TypeOK
    <2>3. CASE GenerateToken(q)
        BY <2>3 DEF GenerateToken, Grows, TypeOK
    <2>4. CASE SaveReceiving(q)
        <3> DEFINE t == req[q].token
        <3>1. \/ UNCHANGED <<token, receiving>>
              \/ /\ token' = [token EXCEPT ![t] = [token[t] EXCEPT !.status = "Used"]]
                 /\ receiving[token[t].registration] = NoRow
                 /\ \E x : receiving' = [receiving EXCEPT ![token[t].registration] = x]
            BY <2>4 DEF SaveReceiving, ReceivingIndexAdmits
        <3>2. t \in Tokens /\ token[t] \in TransactionToken
            BY <2>4, WriterFields DEF SaveReceiving
        <3>3. [token[t] EXCEPT !.status = "Used"] # NoRow
            BY <3>2, UpdatedRows
        <3> QED
            BY <2>4, <3>1, <3>2, <3>3 DEF SaveReceiving, Grows, TypeOK, TransactionToken
    <2>5. CASE SaveReturning(q)
        <3> DEFINE t == req[q].token
        <3>1. \/ UNCHANGED <<token, returning>>
              \/ /\ token' = [token EXCEPT ![t] = [token[t] EXCEPT !.status = "Used"]]
                 /\ returning[token[t].registration] = NoRow
                 /\ \E x : returning' = [returning EXCEPT ![token[t].registration] = x]
            BY <2>5 DEF SaveReturning, ReturningIndexAdmits
        <3>2. t \in Tokens /\ token[t] \in TransactionToken
            BY <2>5, WriterFields DEF SaveReturning
        <3>3. [token[t] EXCEPT !.status = "Used"] # NoRow
            BY <3>2, UpdatedRows
        <3> QED
            BY <2>5, <3>1, <3>2, <3>3 DEF SaveReturning, Grows, TypeOK, TransactionToken
    <2>6. CASE SaveCancel(q)
        <3> DEFINE r == req[q].registration
        <3>1. registration' = [registration EXCEPT ![r] = [registration[r] EXCEPT !.status = "Canceled"]]
            BY <2>6 DEF SaveCancel
        <3>2. r \in Registrations /\ registration[r] \in ObjectRegistration
            BY <2>6, WriterFields DEF SaveCancel
        <3>3. [registration[r] EXCEPT !.status = "Canceled"] # NoRow
            BY <3>2, UpdatedRows
        <3>4. registration[r].status = "Canceled" =>
                 [registration[r] EXCEPT !.status = "Canceled"] = registration[r]
            BY <3>2 DEF ObjectRegistration
        <3> QED
            BY <2>6, <3>1, <3>2, <3>3, <3>4 DEF SaveCancel, Grows, TypeOK, ObjectRegistration
    <2> QED
        BY <1>2, <2>1, <2>2, <2>3, <2>4, <2>5, <2>6 DEF Writes
<1> QED
    BY <1>1, <1>2, OnlyWritesWrite

\* The owner of a registered object is known and stays the same.
LEMMA OwnerStays ==
    ASSUME IInv, Grows, NEW r \in Registrations, registration[r] # NoRow
    PROVE  OwnerOf(r)' = OwnerOf(r)
<1>1. registration[r].object \in Rows /\ offered[registration[r].object] # NoRow
    BY RowFields DEF IInv, RowsKnown
<1> QED
    BY <1>1 DEF Grows, OwnerOf

\* What a request relies on survives the steps of the others.
LEMMA KnowsStays ==
    ASSUME IInv, Grows, NEW p \in Requests, req'[p] = req[p]
    PROVE  RequestKnows(p)'
<1>1. TypeOK /\ RequestKnows(p) /\ req[p] \in InFlight
    BY DEF IInv, RequestsKnow, TypeOK
<1>2. CASE req[p].at \in {"checkRegistration", "saveRegistration"}
    BY <1>1, <1>2, InFlightFields DEF RequestKnows, Grows
<1>3. CASE req[p].at = "saveToken"
    BY <1>1, <1>3, InFlightFields DEF RequestKnows, Grows
<1>4. CASE req[p].at \in {"saveReceiving", "saveReturning"}
    <2>1. token[req[p].token] # NoRow /\ registration[token[req[p].token].registration] # NoRow
        BY <1>1, <1>4, InFlightFields DEF RequestKnows, TokenFor, IInv, TokensKnown
    <2>2. token[req[p].token].registration \in Registrations /\ req[p].token \in Tokens
        BY <1>1, <1>4, <2>1, InFlightFields, RowFields
    <2>3. OwnerOf(token[req[p].token].registration)' = OwnerOf(token[req[p].token].registration)
        <3>1. token'[req[p].token].registration = token[req[p].token].registration
            BY <2>1, <2>2 DEF Grows
        <3> QED  BY <2>1, <2>2, <3>1, OwnerStays DEF OwnerOf
    <2> QED
        BY <1>1, <1>4, <2>1, <2>2, <2>3 DEF RequestKnows, TokenFor, Grows
<1>5. CASE req[p].at = "saveCancel"
    BY <1>1, <1>5, InFlightFields DEF RequestKnows, Grows
<1>6. CASE req[p].at = "publish"
    BY <1>1, <1>6, InFlightFields DEF RequestKnows, Grows, Saved, EventKinds
<1> QED
    BY <1>2, <1>3, <1>4, <1>5, <1>6 DEF RequestKnows

-----------------------------------------------------------------------------
\* A registration is saved on a row its request has read or added.
LEMMA RowsKnownNext ==
    ASSUME IInv, [Next]_vars
    PROVE  RowsKnown'
<1>1. Grows /\ TypeOK /\ RowsKnown
    BY NextGrows DEF IInv
<1>2. CASE registration' = registration
    BY <1>1, <1>2, RowFields DEF RowsKnown, Grows
<1>3. ASSUME NEW q \in Requests, SaveRegistration(q) PROVE RowsKnown'
    <2>1. req[q].row \in Rows /\ offered[req[q].row] # NoRow
        BY <1>1, <1>3, InFlightFields DEF SaveRegistration, IInv, RequestsKnow, RequestKnows, TypeOK
    <2> QED
        BY <1>1, <1>3, <2>1, RowFields DEF SaveRegistration, RowsKnown, Grows, TypeOK
<1>4. ASSUME NEW q \in Requests, SaveCancel(q) PROVE RowsKnown'
    <2>1. \A r \in Registrations :
              registration'[r] # NoRow =>
                  /\ registration[r] # NoRow
                  /\ registration'[r].object = registration[r].object
        BY <1>1, <1>4, WriterFields DEF SaveCancel, TypeOK, ObjectRegistration
    <2>2. \A r \in Registrations : registration[r] # NoRow =>
              registration[r].object \in Rows /\ offered[registration[r].object] # NoRow
        BY <1>1, RowFields DEF RowsKnown
    <2> QED
        BY <1>1, <2>1, <2>2 DEF RowsKnown, Grows
<1> QED
    BY <1>2, <1>3, <1>4, OnlyWritesWrite
       DEF Writes, tables, SaveObject, GenerateToken, SaveReceiving, SaveReturning

\* A token is saved for a registration its request has read or added, and the issuer
\* of a receiving token is the recipient.
LEMMA TokensKnownNext ==
    ASSUME IInv, [Next]_vars
    PROVE  TokensKnown'
<1>1. Grows /\ TypeOK /\ TokensKnown
    BY NextGrows DEF IInv
<1>2. ASSUME \A t \in Tokens : token'[t] # NoRow =>
                 /\ token[t] # NoRow
                 /\ token'[t].type = token[t].type
                 /\ token'[t].registration = token[t].registration
                 /\ token'[t].issuer = token[t].issuer
      PROVE  TokensKnown'
    BY <1>1, <1>2, RowFields DEF TokensKnown, Grows
<1>3. ASSUME NEW q \in Requests, GenerateToken(q) PROVE TokensKnown'
    <2>1. /\ req[q].registration \in Registrations
          /\ req[q].type \in {"Receiving", "Returning"}
          /\ RequestKnows(q) /\ req[q].at = "saveToken"
        BY <1>1, <1>3, InFlightFields DEF GenerateToken, IInv, RequestsKnow, TypeOK
    <2>2. PICK t \in Tokens : token' = [token EXCEPT ![t] =
              [type |-> req[q].type, registration |-> req[q].registration,
               issuer |-> req[q].user, status |-> "Ok"]]
        BY <1>3 DEF GenerateToken
    <2>3. UNCHANGED <<registration, receiving>>
        BY <1>3 DEF GenerateToken
    <2> QED
        BY <1>1, <2>1, <2>2, <2>3 DEF TokensKnown, RequestKnows, TypeOK
<1>4. ASSUME NEW q \in Requests, SaveReceiving(q) \/ SaveReturning(q) PROVE TokensKnown'
    <2>1. req[q].token \in Tokens /\ token[req[q].token] \in TransactionToken
          /\ token[req[q].token] # NoRow
        BY <1>4, WriterFields DEF SaveReceiving, SaveReturning
    <2> QED
        BY <1>1, <1>2, <1>4, <2>1 DEF SaveReceiving, SaveReturning, TypeOK, TransactionToken
<1> QED
    BY <1>2, <1>3, <1>4, OnlyWritesWrite
       DEF Writes, tables, SaveObject, SaveRegistration, SaveCancel

\* The giver was the owner when the token was checked, and still is when the receiving
\* is saved; so is the loaner.
LEMMA PartiesOfALoanNext ==
    ASSUME IInv, [Next]_vars
    PROVE  PartiesOfALoan'
<1>1. Grows /\ TypeOK /\ PartiesOfALoan
    BY NextGrows DEF IInv
<1>2. ASSUME NEW r \in Registrations, receiving'[r] = receiving[r], returning'[r] = returning[r]
      PROVE  /\ receiving'[r] # NoRow =>
                    /\ registration'[r] # NoRow
                    /\ receiving'[r] = [giver |-> OwnerOf(r)',
                                        recipient |-> registration'[r].recipient]
             /\ returning'[r] # NoRow =>
                    /\ receiving'[r] # NoRow
                    /\ returning'[r].loaner = receiving'[r].giver
    BY <1>1, <1>2, OwnerStays DEF PartiesOfALoan, Grows
<1>3. CASE UNCHANGED <<receiving, returning>>
    BY <1>2, <1>3 DEF PartiesOfALoan, OwnerOf
<1>4. ASSUME NEW q \in Requests, SaveReceiving(q) PROVE PartiesOfALoan'
    <2>0. /\ req[q].token \in Tokens /\ token[req[q].token] # NoRow
          /\ token[req[q].token].registration \in Registrations
          /\ req[q].user \in Users /\ token[req[q].token].issuer \in Users
        BY <1>4, WriterFields DEF SaveReceiving
    <2>t. PICK t \in Tokens : t = req[q].token
        BY <2>0
    <2>r. PICK r \in Registrations : r = token[t].registration
        BY <2>0, <2>t
    <2>1. /\ t = req[q].token /\ r = token[t].registration /\ token[t] # NoRow
          /\ req[q].user \in Users /\ token[t].issuer \in Users
        BY <2>0, <2>t, <2>r
    <2>2. /\ token[t].type = "Receiving" /\ req[q].user = OwnerOf(r)
          /\ registration[r] # NoRow /\ token[t].issuer = registration[r].recipient
        BY <1>4, <2>1 DEF SaveReceiving, IInv, RequestsKnow, RequestKnows, TokenFor, TokensKnown
    <2>3. /\ OwnerOf(r)' = OwnerOf(r) /\ registration' = registration
          /\ UNCHANGED returning
        BY <1>1, <1>4, <2>1, <2>2, OwnerStays DEF SaveReceiving
    <2>4. returning[r] = NoRow \/ receiving' = receiving
        BY <1>1, <1>4, <2>1 DEF SaveReceiving, ReceivingIndexAdmits, PartiesOfALoan
    <2>5. CASE receiving' = receiving
        BY <1>3, <2>3, <2>5
    <2>6. CASE receiving' = [receiving EXCEPT ![r] =
                                [giver |-> req[q].user, recipient |-> token[t].issuer]]
               /\ returning[r] = NoRow
        <3>1. receiving'[r] = [giver |-> OwnerOf(r)', recipient |-> registration'[r].recipient]
            BY <1>1, <2>1, <2>2, <2>3, <2>6 DEF TypeOK
        <3>2. \A s \in Registrations : s # r => receiving'[s] = receiving[s]
            BY <1>1, <2>1, <2>6 DEF TypeOK
        <3> QED
            BY <1>2, <2>1, <2>2, <2>3, <2>6, <3>1, <3>2 DEF PartiesOfALoan, OwnerOf
    <2> QED
        BY <1>4, <2>1, <2>4, <2>5, <2>6 DEF SaveReceiving
<1>5. ASSUME NEW q \in Requests, SaveReturning(q) PROVE PartiesOfALoan'
    <2>0. /\ req[q].token \in Tokens /\ token[req[q].token] # NoRow
          /\ token[req[q].token].registration \in Registrations
          /\ req[q].user \in Users /\ token[req[q].token].issuer \in Users
        BY <1>5, WriterFields DEF SaveReturning
    <2>t. PICK t \in Tokens : t = req[q].token
        BY <2>0
    <2>r. PICK r \in Registrations : r = token[t].registration
        BY <2>0, <2>t
    <2>1. /\ t = req[q].token /\ r = token[t].registration /\ token[t] # NoRow
          /\ req[q].user \in Users /\ token[t].issuer \in Users
        BY <2>0, <2>t, <2>r
    <2>2. /\ token[t].type = "Returning" /\ req[q].user = OwnerOf(r)
          /\ receiving[r] # NoRow
        BY <1>5, <2>1 DEF SaveReturning, IInv, RequestsKnow, RequestKnows, TokenFor, TokensKnown
    <2>3. receiving[r].giver = OwnerOf(r)
        <3>1. receiving[r] = [giver |-> OwnerOf(r), recipient |-> registration[r].recipient]
            BY <1>1, <2>2 DEF PartiesOfALoan
        <3> QED  BY <3>1
    <2>4. UNCHANGED <<receiving, registration, offered>>
        BY <1>5 DEF SaveReturning
    <2>5. CASE returning' = returning
        BY <1>3, <2>4, <2>5
    <2>6. CASE returning' = [returning EXCEPT ![r] =
                                [loaner |-> req[q].user, loanee |-> token[t].issuer]]
        <3>1. returning'[r].loaner = receiving'[r].giver
            BY <1>1, <2>1, <2>2, <2>3, <2>4, <2>6 DEF TypeOK
        <3>2. \A s \in Registrations : s # r => returning'[s] = returning[s]
            BY <1>1, <2>1, <2>6 DEF TypeOK
        <3> QED
            BY <1>1, <1>2, <2>1, <2>2, <2>4, <3>1, <3>2 DEF PartiesOfALoan, OwnerOf
    <2> QED
        BY <1>5, <2>1, <2>5, <2>6 DEF SaveReturning
<1> QED
    BY <1>3, <1>4, <1>5, OnlyWritesWrite
       DEF Writes, tables, SaveObject, SaveRegistration, GenerateToken, SaveCancel

\* Two tables, one rule: a save that is admitted uses up the token it was given, and
\* it is the only one of its type for that registration; a save that is not leaves
\* the tokens and the table alone.
LEMMA TokensAccountForLoansNext ==
    ASSUME IInv, [Next]_vars
    PROVE  TokensAccountForLoans'
<1>1. Grows /\ TypeOK /\ TokensAccountForLoans
    BY NextGrows DEF IInv
<1>2. ASSUME NEW type \in {"Receiving", "Returning"}, NEW r \in Registrations,
             \A t \in Tokens : UsedFor(t, type, r)' <=> UsedFor(t, type, r),
             type = "Receiving" => receiving'[r] = receiving[r],
             type = "Returning" => returning'[r] = returning[r]
      PROVE  /\ type = "Receiving" =>
                   /\ \A t \in Tokens : UsedFor(t, type, r)' => receiving'[r] # NoRow
                   /\ receiving'[r] # NoRow =>
                         \E t \in Tokens : /\ UsedFor(t, type, r)'
                                         /\ \A s \in Tokens : UsedFor(s, type, r)' => s = t
             /\ type = "Returning" =>
                   /\ \A t \in Tokens : UsedFor(t, type, r)' => returning'[r] # NoRow
                   /\ returning'[r] # NoRow =>
                         \E t \in Tokens : /\ UsedFor(t, type, r)'
                                         /\ \A s \in Tokens : UsedFor(s, type, r)' => s = t
    BY <1>1, <1>2 DEF TokensAccountForLoans
<1>3. ASSUME UNCHANGED <<receiving, returning>>,
             \A type \in {"Receiving", "Returning"} : \A r \in Registrations : \A t \in Tokens :
                 UsedFor(t, type, r)' <=> UsedFor(t, type, r)
      PROVE  TokensAccountForLoans'
    BY <1>2, <1>3 DEF TokensAccountForLoans
<1>4. CASE UNCHANGED <<token, receiving, returning>>
    BY <1>3, <1>4 DEF UsedFor
<1>5. ASSUME NEW q \in Requests, GenerateToken(q) PROVE TokensAccountForLoans'
    <2>1. \A type \in {"Receiving", "Returning"} : \A r \in Registrations : \A t \in Tokens :
              UsedFor(t, type, r)' <=> UsedFor(t, type, r)
        BY <1>1, <1>5, InFlightFields DEF GenerateToken, UsedFor, TypeOK
    <2>2. UNCHANGED <<receiving, returning>>
        BY <1>5 DEF GenerateToken
    <2> QED
        BY <1>3, <2>1, <2>2
<1>6. ASSUME NEW q \in Requests, SaveReceiving(q) PROVE TokensAccountForLoans'
    <2>0. /\ req[q].token \in Tokens /\ token[req[q].token] # NoRow
          /\ token[req[q].token] \in TransactionToken
          /\ token[req[q].token].registration \in Registrations
          /\ req[q].user \in Users /\ token[req[q].token].issuer \in Users
        BY <1>6, WriterFields DEF SaveReceiving
    <2>t. PICK t \in Tokens : t = req[q].token
        BY <2>0
    <2>r. PICK r \in Registrations : r = token[t].registration
        BY <2>0, <2>t
    <2>1. token[t].type = "Receiving"
        BY <1>6, <2>t DEF SaveReceiving, IInv, RequestsKnow, RequestKnows, TokenFor
    <2>2. CASE UNCHANGED <<token, receiving>>
        BY <1>4, <1>6, <2>2 DEF SaveReceiving
    <2>3. CASE /\ receiving[r] = NoRow
               /\ token' = [token EXCEPT ![t] = [token[t] EXCEPT !.status = "Used"]]
               /\ receiving' = [receiving EXCEPT ![r] =
                     [giver |-> req[q].user, recipient |-> token[t].issuer]]
        <3>0. [token[t] EXCEPT !.status = "Used"] # NoRow
            BY <2>0, <2>t, UpdatedRows
        <3>1. UsedFor(t, "Receiving", r)'
            BY <1>1, <2>0, <2>1, <2>3, <2>t, <2>r, <3>0 DEF UsedFor, TypeOK, TransactionToken
        <3>2. \A type \in {"Receiving", "Returning"} : \A s \in Registrations : \A x \in Tokens :
                  ~(x = t /\ type = "Receiving" /\ s = r) =>
                      (UsedFor(x, type, s)' <=> UsedFor(x, type, s))
            BY <1>1, <2>0, <2>1, <2>3, <2>t, <2>r DEF UsedFor, TypeOK, TransactionToken
        <3>3. \A x \in Tokens : ~UsedFor(x, "Receiving", r)
            BY <1>1, <2>3 DEF TokensAccountForLoans
        <3>4. \A x \in Tokens : UsedFor(x, "Receiving", r)' => x = t
            BY <3>2, <3>3
        <3>5. receiving'[r] # NoRow /\ UNCHANGED returning
              /\ \A s \in Registrations : s # r => receiving'[s] = receiving[s]
            <4>1. [giver |-> req[q].user, recipient |-> token[t].issuer] # NoRow
                BY <2>0, <2>t, TransactionsAssumption DEF ObjectReceiving
            <4> QED  BY <1>1, <1>6, <2>3, <4>1 DEF SaveReceiving, TypeOK
        <3>6. \A s \in Registrations : s # r =>
                  /\ \A x \in Tokens : UsedFor(x, "Receiving", s)' => receiving'[s] # NoRow
                  /\ receiving'[s] # NoRow =>
                        \E x \in Tokens : /\ UsedFor(x, "Receiving", s)'
                                        /\ \A y \in Tokens : UsedFor(y, "Receiving", s)' => y = x
            BY <1>2, <3>2, <3>5
        <3>7. \A s \in Registrations :
                  /\ \A x \in Tokens : UsedFor(x, "Returning", s)' => returning'[s] # NoRow
                  /\ returning'[s] # NoRow =>
                        \E x \in Tokens : /\ UsedFor(x, "Returning", s)'
                                        /\ \A y \in Tokens : UsedFor(y, "Returning", s)' => y = x
            BY <1>2, <3>2, <3>5
        <3> QED
            BY <3>1, <3>4, <3>5, <3>6, <3>7 DEF TokensAccountForLoans
    <2> QED
        BY <1>6, <2>2, <2>3, <2>t, <2>r DEF SaveReceiving, ReceivingIndexAdmits
<1>7. ASSUME NEW q \in Requests, SaveReturning(q) PROVE TokensAccountForLoans'
    <2>0. /\ req[q].token \in Tokens /\ token[req[q].token] # NoRow
          /\ token[req[q].token] \in TransactionToken
          /\ token[req[q].token].registration \in Registrations
          /\ req[q].user \in Users /\ token[req[q].token].issuer \in Users
        BY <1>7, WriterFields DEF SaveReturning
    <2>t. PICK t \in Tokens : t = req[q].token
        BY <2>0
    <2>r. PICK r \in Registrations : r = token[t].registration
        BY <2>0, <2>t
    <2>1. token[t].type = "Returning"
        BY <1>7, <2>t DEF SaveReturning, IInv, RequestsKnow, RequestKnows, TokenFor
    <2>2. CASE UNCHANGED <<token, returning>>
        BY <1>4, <1>7, <2>2 DEF SaveReturning
    <2>3. CASE /\ returning[r] = NoRow
               /\ token' = [token EXCEPT ![t] = [token[t] EXCEPT !.status = "Used"]]
               /\ returning' = [returning EXCEPT ![r] =
                     [loaner |-> req[q].user, loanee |-> token[t].issuer]]
        <3>0. [token[t] EXCEPT !.status = "Used"] # NoRow
            BY <2>0, <2>t, UpdatedRows
        <3>1. UsedFor(t, "Returning", r)'
            BY <1>1, <2>0, <2>1, <2>3, <2>t, <2>r, <3>0 DEF UsedFor, TypeOK, TransactionToken
        <3>2. \A type \in {"Receiving", "Returning"} : \A s \in Registrations : \A x \in Tokens :
                  ~(x = t /\ type = "Returning" /\ s = r) =>
                      (UsedFor(x, type, s)' <=> UsedFor(x, type, s))
            BY <1>1, <2>0, <2>1, <2>3, <2>t, <2>r DEF UsedFor, TypeOK, TransactionToken
        <3>3. \A x \in Tokens : ~UsedFor(x, "Returning", r)
            BY <1>1, <2>3 DEF TokensAccountForLoans
        <3>4. \A x \in Tokens : UsedFor(x, "Returning", r)' => x = t
            BY <3>2, <3>3
        <3>5. returning'[r] # NoRow /\ UNCHANGED receiving
              /\ \A s \in Registrations : s # r => returning'[s] = returning[s]
            <4>1. [loaner |-> req[q].user, loanee |-> token[t].issuer] # NoRow
                BY <2>0, <2>t, TransactionsAssumption DEF ObjectReturning
            <4> QED  BY <1>1, <1>7, <2>3, <4>1 DEF SaveReturning, TypeOK
        <3>6. \A s \in Registrations : s # r =>
                  /\ \A x \in Tokens : UsedFor(x, "Returning", s)' => returning'[s] # NoRow
                  /\ returning'[s] # NoRow =>
                        \E x \in Tokens : /\ UsedFor(x, "Returning", s)'
                                        /\ \A y \in Tokens : UsedFor(y, "Returning", s)' => y = x
            BY <1>2, <3>2, <3>5
        <3>7. \A s \in Registrations :
                  /\ \A x \in Tokens : UsedFor(x, "Receiving", s)' => receiving'[s] # NoRow
                  /\ receiving'[s] # NoRow =>
                        \E x \in Tokens : /\ UsedFor(x, "Receiving", s)'
                                        /\ \A y \in Tokens : UsedFor(y, "Receiving", s)' => y = x
            BY <1>2, <3>2, <3>5
        <3> QED
            BY <3>1, <3>4, <3>5, <3>6, <3>7 DEF TokensAccountForLoans
    <2> QED
        BY <1>7, <2>2, <2>3, <2>t, <2>r DEF SaveReturning, ReturningIndexAdmits
<1> QED
    BY <1>4, <1>5, <1>6, <1>7, OnlyWritesWrite
       DEF Writes, tables, SaveObject, SaveRegistration, SaveCancel

-----------------------------------------------------------------------------
\* Only the request that takes the step moves.
LEMMA GoMoves ==
    ASSUME TypeOK, NEW q \in Requests, NEW x, Go(q, x)
    PROVE  req'[q] = x /\ \A p \in Requests : p # q => req'[p] = req[p]
BY DEF TypeOK, Go

\* What a request relies on next was read, or written, in the step it has just taken.
LEMMA RequestsKnowNext ==
    ASSUME IInv, [Next]_vars
    PROVE  RequestsKnow'
<1> TypeOK /\ Grows /\ TypeOK'
    BY NextGrows, TypeNext DEF IInv
<1>1. CASE req' = req
    BY <1>1, KnowsStays DEF RequestsKnow
<1>2. ASSUME NEW q \in Requests, NEW x, Go(q, x), req'[q] = x => RequestKnows(q)'
      PROVE  RequestsKnow'
    BY <1>2, GoMoves, KnowsStays DEF RequestsKnow
<1>3. ASSUME NEW q \in Requests, NEW x, Go(q, x), x.at \in {"idle", "fetchObject", "saveObject"}
      PROVE  RequestsKnow'
    BY <1>2, <1>3 DEF RequestKnows
<1>4. ASSUME NEW q \in Requests, Request(q) \/ Fail(q) PROVE RequestsKnow'
    <2> req[q] \in InFlight /\ RequestKnows(q)
        BY DEF TypeOK, IInv, RequestsKnow
    <2>1. ASSUME NEW u \in Users, NEW o \in Objects, CreateRegistration(q, u, o)
          PROVE  RequestsKnow'
        <3>1. CASE Go(q, [at |-> "fetchObject", user |-> u, object |-> o])
            BY <1>3, <3>1
        <3>2. ASSUME NEW k \in RowsOf(o),
                     Go(q, [at |-> "saveRegistration", user |-> u, row |-> k])
              PROVE  RequestsKnow'
            BY <1>2, <2>1, <3>2 DEF CreateRegistration, RequestKnows, RowsOf, tables
        <3> QED  BY <2>1, <3>1, <3>2 DEF CreateRegistration
    <2>2. ASSUME NEW u \in Users, NEW o \in Objects, RefreshRegistrationToken(q, u, o)
          PROVE  RequestsKnow'
        <3>1. PICK r \in Registrations :
                  /\ registration[r] # NoRow /\ registration[r].recipient = u
                  /\ Go(q, [at |-> "saveToken", user |-> u, type |-> "Receiving",
                            registration |-> r])
            BY <2>2 DEF RefreshRegistrationToken, RegistrationsOn
        <3> QED
            BY <1>2, <2>2, <3>1 DEF RefreshRegistrationToken, RequestKnows, tables
    <2>3. ASSUME NEW u \in Users, NEW t \in Tokens, CreateReceiving(q, u, t)
          PROVE  RequestsKnow'
        <3>1. TokenFor(t, "Receiving", u)'
            BY <2>3 DEF CreateReceiving, TokenFor, Accepts, OwnerOf, tables
        <3> QED
            BY <1>2, <2>3, <3>1 DEF CreateReceiving, RequestKnows
    <2>4. ASSUME NEW u \in Users, NEW t \in Tokens, CreateReturning(q, u, t)
          PROVE  RequestsKnow'
        <3>1. TokenFor(t, "Returning", u)'
            BY <2>4 DEF CreateReturning, TokenFor, Accepts, OwnerOf, tables
        <3> QED
            BY <1>2, <2>4, <3>1 DEF CreateReturning, RequestKnows
    <2>5. ASSUME NEW u \in Users, NEW r \in Registrations, GenerateReturnToken(q, u, r)
          PROVE  RequestsKnow'
        BY <1>2, <2>5 DEF GenerateReturnToken, RequestKnows, MayReturn, Holding, tables
    <2>6. ASSUME NEW u \in Users, NEW r \in Registrations, CancelRegistration(q, u, r)
          PROVE  RequestsKnow'
        BY <1>2, <2>6 DEF CancelRegistration, RequestKnows, tables
    <2>7. CASE FetchObject(q)
        BY <1>3, <2>7 DEF FetchObject, Reply, Idle
    <2>8. CASE CheckRegistration(q)
        <3>1. CASE Reply(q)
            BY <1>3, <3>1 DEF Reply, Idle
        <3>2. CASE Go(q, [at |-> "saveRegistration", user |-> req[q].user, row |-> req[q].row])
            BY <1>2, <2>8, <3>2 DEF CheckRegistration, RequestKnows, tables
        <3> QED  BY <2>8, <3>1, <3>2 DEF CheckRegistration
    <2>9. CASE SaveRegistration(q)
        <3>1. PICK r \in Registrations :
                  /\ registration' = [registration EXCEPT ![r] =
                        [object |-> req[q].row, recipient |-> req[q].user, status |-> "OK"]]
                  /\ Go(q, [at |-> "publish",
                            event |-> [kind |-> "NewRegistration", registration |-> r]])
            BY <2>9 DEF SaveRegistration
        <3>2. req[q].row \in Rows /\ req[q].user \in Users
            BY <2>9, InFlightFields DEF SaveRegistration
        <3>3. registration'[r] # NoRow
            BY <3>1, <3>2, TransactionsAssumption DEF TypeOK, ObjectRegistration
        <3> QED  BY <1>2, <3>1, <3>3 DEF RequestKnows, Saved
    <2>10. CASE Publish(q)
        <3>1. CASE Reply(q)
            BY <1>3, <3>1 DEF Reply, Idle
        <3>2. CASE Go(q, [at |-> "saveToken",
                          user |-> registration[req[q].event.registration].recipient,
                          type |-> "Receiving", registration |-> req[q].event.registration])
            BY <1>2, <2>10, <3>2 DEF Publish, RequestKnows, Saved, tables
        <3> QED  BY <2>10, <3>1, <3>2 DEF Publish
    <2>11. CASE GenerateToken(q)
        BY <1>3, <2>11 DEF GenerateToken, Reply, Idle
    <2>12. CASE SaveReceiving(q)
        <3>1. CASE Reply(q)
            BY <1>3, <3>1 DEF Reply, Idle
        <3>2. PICK t \in Tokens : t = req[q].token
            BY <2>12, WriterFields DEF SaveReceiving
        <3>3. PICK r \in Registrations : r = token[t].registration
            BY <2>12, <3>2, WriterFields DEF SaveReceiving
        <3>4. CASE /\ receiving' = [receiving EXCEPT ![r] =
                         [giver |-> req[q].user, recipient |-> token[t].issuer]]
                   /\ Go(q, [at |-> "publish",
                             event |-> [kind |-> "Received", registration |-> r]])
            <4>1. receiving'[r] # NoRow
                BY <2>12, <3>2, <3>4, WriterFields, TransactionsAssumption
                   DEF SaveReceiving, TypeOK, ObjectReceiving
            <4>2. registration'[r] # NoRow
                BY <2>12, <3>2, <3>3, WriterFields DEF SaveReceiving, IInv, TokensKnown
            <4> QED  BY <1>2, <3>4, <4>1, <4>2 DEF RequestKnows, Saved
        <3> QED  BY <2>12, <3>1, <3>2, <3>3, <3>4 DEF SaveReceiving
    <2>13. CASE SaveReturning(q)
        <3>1. CASE Reply(q)
            BY <1>3, <3>1 DEF Reply, Idle
        <3>2. PICK t \in Tokens : t = req[q].token
            BY <2>13, WriterFields DEF SaveReturning
        <3>3. PICK r \in Registrations : r = token[t].registration
            BY <2>13, <3>2, WriterFields DEF SaveReturning
        <3>4. CASE /\ returning' = [returning EXCEPT ![r] =
                         [loaner |-> req[q].user, loanee |-> token[t].issuer]]
                   /\ Go(q, [at |-> "publish",
                             event |-> [kind |-> "Returned", registration |-> r]])
            <4>1. returning'[r] # NoRow
                BY <2>13, <3>2, <3>4, WriterFields, TransactionsAssumption
                   DEF SaveReturning, TypeOK, ObjectReturning
            <4>2. registration'[r] # NoRow
                BY <2>13, <3>2, <3>3, WriterFields DEF SaveReturning, IInv, TokensKnown
            <4> QED  BY <1>2, <3>4, <4>1, <4>2 DEF RequestKnows, Saved
        <3> QED  BY <2>13, <3>1, <3>2, <3>3, <3>4 DEF SaveReturning
    <2>14. CASE SaveCancel(q)
        <3>1. PICK r \in Registrations : r = req[q].registration
            BY <2>14, WriterFields DEF SaveCancel
        <3>2. registration'[r].status = "Canceled" /\ registration'[r] # NoRow
            <4>1. registration' = [registration EXCEPT ![r] =
                                      [registration[r] EXCEPT !.status = "Canceled"]]
                BY <2>14, <3>1 DEF SaveCancel
            <4>2. registration[r] \in ObjectRegistration
                BY <2>14, <3>1, WriterFields DEF SaveCancel
            <4> QED  BY <4>1, <4>2, UpdatedRows DEF TypeOK, ObjectRegistration
        <3>3. Go(q, [at |-> "publish", event |-> [kind |-> "Cancelled", registration |-> r]])
            BY <2>14, <3>1 DEF SaveCancel
        <3> QED  BY <1>2, <3>2, <3>3 DEF RequestKnows, Saved
    <2>15. CASE Fail(q)
        BY <1>3, <2>15 DEF Fail, Reply, Idle
    <2>16. CASE SaveObject(q)
        <3>1. PICK k \in Rows :
                  /\ offered' = [offered EXCEPT ![k] =
                                    [original |-> req[q].object, owner |-> req[q].user]]
                  /\ Go(q, [at |-> "checkRegistration", user |-> req[q].user, row |-> k])
            BY <2>16 DEF SaveObject
        <3>2. req[q].object \in Objects /\ req[q].user \in Users
            BY <2>16, InFlightFields DEF SaveObject
        <3>3. offered'[k] # NoRow
            BY <3>1, <3>2, TransactionsAssumption DEF TypeOK, OfferedObject
        <3> QED  BY <1>2, <3>1, <3>3 DEF RequestKnows
    <2> QED
        BY <1>4, <2>1, <2>2, <2>3, <2>4, <2>5, <2>6, <2>7, <2>8, <2>9, <2>10, <2>11,
           <2>12, <2>13, <2>14, <2>15, <2>16 DEF Request, Continue
<1> QED
    BY <1>1, <1>4 DEF Next, Tick, RegistrationExpires, TokenGoesStale, vars

\* An event on the bus announced a saved row when it was published, and rows stay.
LEMMA AnnouncedIsSavedNext ==
    ASSUME IInv, [Next]_vars
    PROVE  AnnouncedIsSaved'
<1>1. Grows /\ TypeOK /\ AnnouncedIsSaved
    BY NextGrows DEF IInv
<1>2. ASSUME NEW e \in Events, Saved(e) PROVE Saved(e)'
    BY <1>1, <1>2 DEF Grows, Saved, Events, EventKinds
<1>3. CASE published' = published
    BY <1>1, <1>2, <1>3 DEF AnnouncedIsSaved, TypeOK
<1>4. ASSUME NEW q \in Requests, Publish(q) PROVE AnnouncedIsSaved'
    <2>1. req[q].event \in Events /\ Saved(req[q].event)
        BY <1>1, <1>4, InFlightFields DEF Publish, IInv, RequestsKnow, RequestKnows, TypeOK
    <2>2. PICK e \in Events : e = req[q].event
        BY <2>1
    <2>3. published' = published \cup {e}
        BY <1>4, <2>2 DEF Publish
    <2> QED
        BY <1>1, <1>2, <2>1, <2>2, <2>3 DEF AnnouncedIsSaved, TypeOK
<1>5. ASSUME NEW q \in Requests, Request(q) \/ Fail(q), ~Publish(q)
      PROVE  published' = published
    BY <1>5 DEF Request, Continue, CreateRegistration, RefreshRegistrationToken, CreateReceiving,
       CreateReturning, GenerateReturnToken, CancelRegistration, FetchObject, SaveObject,
       CheckRegistration, SaveRegistration, GenerateToken, SaveReceiving, SaveReturning,
       SaveCancel, Fail
<1> QED
    BY <1>3, <1>4, <1>5 DEF Next, Tick, RegistrationExpires, TokenGoesStale, vars

-----------------------------------------------------------------------------
\* The database the service starts with satisfies the invariant.
LEMMA InitIInv == Init => IInv
<1> SUFFICES ASSUME Init PROVE IInv
    OBVIOUS
<1>1. TypeOK
    BY TransactionsAssumption DEF Init, TypeOK, InFlight
<1>2. RequestsKnow
    BY DEF Init, RequestsKnow, RequestKnows, Idle
<1> QED
    BY <1>1, <1>2 DEF Init, IInv, RowsKnown, TokensKnown, PartiesOfALoan,
       TokensAccountForLoans, UsedFor, AnnouncedIsSaved

\* Every step keeps the invariant.
LEMMA NextIInv == IInv /\ [Next]_vars => IInv'
BY TypeNext, RowsKnownNext, TokensKnownNext, PartiesOfALoanNext, TokensAccountForLoansNext,
   RequestsKnowNext, AnnouncedIsSavedNext DEF IInv

\* The invariant holds however many requests overlap and wherever they die.
THEOREM Invariance == Spec => []IInv
BY InitIInv, NextIInv, PTL DEF Spec

\* Every table holds rows of its type and every request carries what its next step uses.
THEOREM TypeCorrect == Spec => []TypeOK
<1>1. IInv => TypeOK
    BY DEF IInv
<1> QED
    BY <1>1, Invariance, PTL

\* Each receiving and each returning used up exactly one token, although the handlers
\* check a token before the save and not in it.
THEOREM TokensAccount == Spec => []TokensAccountForLoans
<1>1. IInv => TokensAccountForLoans
    BY DEF IInv
<1> QED
    BY <1>1, Invariance, PTL

\* A receiving is between the owner of the row and the recipient of the registration.
THEOREM PartiesAgree == Spec => []PartiesOfALoan
<1>1. IInv => PartiesOfALoan
    BY DEF IInv
<1> QED
    BY <1>1, Invariance, PTL

\* An event on the bus announces a row that is saved and stays saved.
THEOREM AnnouncementsHold == Spec => []AnnouncedIsSaved
<1>1. IInv => AnnouncedIsSaved
    BY DEF IInv
<1> QED
    BY <1>1, Invariance, PTL

-----------------------------------------------------------------------------
(* What no step does: the action properties.                               *)

\* One step does not write a receiving and a returning.
LEMMA OneWriteAtATime ==
    ASSUME [Next]_vars, receiving' # receiving
    PROVE  returning' = returning
BY OnlyWritesWrite
   DEF tables, Writes, SaveObject, SaveRegistration, GenerateToken, SaveReceiving,
       SaveReturning, SaveCancel

\* A token is used up by the step that writes the receiving or the returning it gives.
LEMMA LoansAdvance ==
    ASSUME IInv, [Next]_vars, NEW r \in Registrations
    PROVE  /\ receiving'[r] # receiving[r] =>
                 /\ receiving[r] = NoRow
                 /\ \E t \in Tokens :
                       ~UsedFor(t, "Receiving", r) /\ UsedFor(t, "Receiving", r)'
           /\ returning'[r] # returning[r] =>
                 /\ returning[r] = NoRow /\ Holding(r)
                 /\ \E t \in Tokens :
                       ~UsedFor(t, "Returning", r) /\ UsedFor(t, "Returning", r)'
<1>1. Grows /\ TokensAccountForLoans /\ TokensAccountForLoans' /\ PartiesOfALoan'
    BY NextGrows, TokensAccountForLoansNext, PartiesOfALoanNext DEF IInv
<1>2. CASE receiving'[r] # receiving[r]
    <2>1. receiving[r] = NoRow /\ receiving'[r] # NoRow
        BY <1>1, <1>2 DEF Grows
    <2>2. \A t \in Tokens : ~UsedFor(t, "Receiving", r)
        BY <1>1, <2>1 DEF TokensAccountForLoans
    <2>3. \E t \in Tokens : UsedFor(t, "Receiving", r)'
        BY <1>1, <2>1 DEF TokensAccountForLoans
    <2> QED
        BY <1>2, <2>1, <2>2, <2>3, OneWriteAtATime
<1>3. CASE returning'[r] # returning[r]
    <2>1. returning[r] = NoRow /\ returning'[r] # NoRow
        BY <1>1, <1>3 DEF Grows
    <2>2. \A t \in Tokens : ~UsedFor(t, "Returning", r)
        BY <1>1, <2>1 DEF TokensAccountForLoans
    <2>3. \E t \in Tokens : UsedFor(t, "Returning", r)'
        BY <1>1, <2>1 DEF TokensAccountForLoans
    <2>4. receiving' = receiving
        BY <1>3, OneWriteAtATime
    <2>5. receiving'[r] # NoRow
        BY <1>1, <2>1 DEF PartiesOfALoan
    <2> QED
        BY <2>1, <2>2, <2>3, <2>4, <2>5 DEF Holding
<1> QED
    BY <1>2, <1>3

\* A hand-over or a return is recorded only by using up a token that was Ok up to that
\* very save, and neither is changed afterwards; a cancellation is final.
THEOREM LoansAdvanceOnce == Spec => LoansAdvanceByTokens
<1> DEFINE Step(r) ==
        /\ receiving'[r] # receiving[r] =>
              /\ receiving[r] = NoRow
              /\ \E t \in Tokens : ~UsedFor(t, "Receiving", r) /\ UsedFor(t, "Receiving", r)'
        /\ returning'[r] # returning[r] =>
              /\ returning[r] = NoRow /\ Holding(r)
              /\ \E t \in Tokens : ~UsedFor(t, "Returning", r) /\ UsedFor(t, "Returning", r)'
        /\ registration[r] # NoRow /\ registration[r].status = "Canceled" =>
              registration'[r] = registration[r]
<1>1. IInv /\ [Next]_vars => \A r \in Registrations : Step(r)
    BY LoansAdvance, NextGrows DEF Grows
<1> QED
    BY <1>1, Invariance, PTL DEF Spec, LoansAdvanceByTokens

-----------------------------------------------------------------------------
(* The code as committed: nothing is given back.                            *)

\* No returning token is issued, nor about to be.
NothingReturned ==
    /\ \A q \in Requests : req[q].at = "saveToken" => req[q].type = "Receiving"
    /\ \A t \in Tokens : token[t] # NoRow => token[t].type = "Receiving"
    /\ \A r \in Registrations : returning[r] = NoRow

\* A request comes to issue a returning token only by GenerateReturnToken.
LEMMA ReturningTokensAreAskedFor ==
    ASSUME ~ReturnPathResolves, IInv, [Next]_vars, NEW q \in Requests,
           req'[q].at = "saveToken", req'[q] # req[q]
    PROVE  req'[q].type = "Receiving"
<1>1. TypeOK
    BY DEF IInv
<1>2. req' # req
    OBVIOUS
<1>3. PICK p \in Requests : Request(p) \/ Fail(p)
    BY <1>2 DEF Next, Tick, RegistrationExpires, TokenGoesStale, vars
<1>4. \A x : Go(p, x) => (p = q /\ req'[q] = x) \/ req'[q] = req[q]
    BY <1>1, GoMoves
<1> DEFINE Goal == req'[q].type = "Receiving"
<1>5. ASSUME NEW u \in Users, NEW o \in Objects, CreateRegistration(p, u, o) PROVE Goal
    <2>1. PICK x : Go(p, x) /\ x.at # "saveToken"
        <3>1. CASE Go(p, [at |-> "fetchObject", user |-> u, object |-> o])
            BY <3>1
        <3>2. ASSUME NEW k \in RowsOf(o),
                     Go(p, [at |-> "saveRegistration", user |-> u, row |-> k])
              PROVE  \E x : Go(p, x) /\ x.at # "saveToken"
            BY <3>2
        <3> QED
            BY <1>5, <3>1, <3>2 DEF CreateRegistration
    <2> QED
        BY <1>4, <2>1
<1>6. ASSUME NEW u \in Users, NEW o \in Objects, RefreshRegistrationToken(p, u, o) PROVE Goal
    BY <1>4, <1>6 DEF RefreshRegistrationToken
<1>7. ASSUME NEW u \in Users, NEW t \in Tokens,
             CreateReceiving(p, u, t) \/ CreateReturning(p, u, t) PROVE Goal
    BY <1>4, <1>7 DEF CreateReceiving, CreateReturning
<1>8. ASSUME NEW u \in Users, NEW r \in Registrations, GenerateReturnToken(p, u, r) PROVE Goal
    BY <1>8 DEF GenerateReturnToken
<1>9. ASSUME NEW u \in Users, NEW r \in Registrations, CancelRegistration(p, u, r) PROVE Goal
    BY <1>4, <1>9 DEF CancelRegistration
<1>10. CASE FetchObject(p)
    BY <1>4, <1>10 DEF FetchObject, Reply, Idle
<1>11. CASE SaveObject(p)
    BY <1>4, <1>11 DEF SaveObject
<1>12. CASE CheckRegistration(p)
    BY <1>4, <1>12 DEF CheckRegistration, Reply, Idle
<1>13. CASE SaveRegistration(p)
    BY <1>4, <1>13 DEF SaveRegistration
<1>14. CASE Publish(p)
    BY <1>4, <1>14 DEF Publish, Reply, Idle
<1>15. CASE GenerateToken(p)
    BY <1>4, <1>15 DEF GenerateToken, Reply, Idle
<1>16. CASE SaveReceiving(p)
    BY <1>4, <1>16 DEF SaveReceiving, Reply, Idle
<1>17. CASE SaveReturning(p)
    BY <1>4, <1>17 DEF SaveReturning, Reply, Idle
<1>18. CASE SaveCancel(p)
    BY <1>4, <1>18 DEF SaveCancel
<1>19. CASE Fail(p)
    BY <1>4, <1>19 DEF Fail, Reply, Idle
<1> QED
    BY <1>3, <1>5, <1>6, <1>7, <1>8, <1>9, <1>10, <1>11, <1>12, <1>13, <1>14, <1>15,
       <1>16, <1>17, <1>18, <1>19 DEF Request, Continue

\* A token that was not there before is the one a request in flight was to issue.
LEMMA TokensAreIssuedByRequests ==
    ASSUME IInv, [Next]_vars, NEW t \in Tokens, token[t] = NoRow, token'[t] # NoRow
    PROVE  \E q \in Requests : /\ req[q].at = "saveToken"
                               /\ token'[t].type = req[q].type
                               /\ token'[t].registration = req[q].registration
<1>1. TypeOK
    BY DEF IInv
<1>2. PICK q \in Requests : Writes(q)
    BY OnlyWritesWrite DEF tables
<1>3. CASE GenerateToken(q)
    BY <1>1, <1>3 DEF GenerateToken, TypeOK
<1>4. CASE SaveReceiving(q)
    BY <1>1, <1>4, WriterFields DEF SaveReceiving, TypeOK
<1>5. CASE SaveReturning(q)
    BY <1>1, <1>5, WriterFields DEF SaveReturning, TypeOK
<1> QED
    BY <1>2, <1>3, <1>4, <1>5 DEF Writes, SaveObject, SaveRegistration, SaveCancel

LEMMA NothingReturnedNext ==
    ASSUME ~ReturnPathResolves, IInv, [Next]_vars, NothingReturned
    PROVE  NothingReturned'
<1>1. ASSUME NEW t \in Tokens, token'[t] # NoRow PROVE token'[t].type = "Receiving"
    <2>1. CASE token[t] # NoRow
        BY <2>1, NextGrows DEF NothingReturned, Grows
    <2>2. CASE token[t] = NoRow
        BY <1>1, <2>2, TokensAreIssuedByRequests DEF NothingReturned
    <2> QED
        BY <2>1, <2>2
<1>2. ASSUME NEW q \in Requests, req'[q].at = "saveToken" PROVE req'[q].type = "Receiving"
    BY <1>2, ReturningTokensAreAskedFor DEF NothingReturned
<1>3. ASSUME NEW r \in Registrations PROVE returning'[r] = NoRow
    <2>1. \A t \in Tokens : ~UsedFor(t, "Returning", r)'
        BY <1>1 DEF UsedFor
    <2> QED
        BY <2>1, LoansAdvance DEF NothingReturned
<1> QED
    BY <1>1, <1>2, <1>3 DEF NothingReturned

THEOREM AsCommitted == ~ReturnPathResolves => (Spec => []NothingReturned)
<1> SUFFICES ASSUME ~ReturnPathResolves PROVE Spec => []NothingReturned
    OBVIOUS
<1>1. Init => NothingReturned
    BY DEF Init, NothingReturned, Idle
<1>2. IInv /\ NothingReturned /\ [Next]_vars => NothingReturned'
    BY NothingReturnedNext
<1> QED
    BY <1>1, <1>2, Invariance, PTL DEF Spec

\* As committed, what was handed over is never recorded as given back, however requests
\* overlap and wherever they die: only GenerateReturnToken leads to a returning token.
THEOREM LoansNeverClose == ~ReturnPathResolves => (Spec => LoansStayOpen)
<1> SUFFICES ASSUME ~ReturnPathResolves PROVE Spec => LoansStayOpen
    OBVIOUS
<1>1. IInv /\ NothingReturned' /\ [Next]_vars =>
          \A r \in Registrations : Holding(r) => Holding(r)'
    BY NextGrows DEF NothingReturned, Grows, Holding
<1> QED
    BY <1>1, Invariance, AsCommitted, PTL DEF Spec, LoansStayOpen
=============================================================================
