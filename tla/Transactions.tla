---------------------------- MODULE Transactions ----------------------------
(***************************************************************************)
(* The command side of the Transaction service: an object of the catalog   *)
(* is registered by a recipient, handed over when its owner scans the      *)
(* recipient's receiving token, and given back when the owner scans a      *)
(* returning token.                                                        *)
(*                                                                         *)
(* The tables of the service's database are functions from identifiers to  *)
(* rows (NoRow where there is none).  Every HTTP request runs in its own   *)
(* scope, with its own database context, concurrently with the others: a   *)
(* handler is cut where it awaits, at each SaveChanges, at the call of the *)
(* catalog, and at each publication, and everything it reads between two   *)
(* cuts is one step.  req[q] is what request q will do next and what it    *)
(* read to decide it.  A request the handler refuses changes nothing, so   *)
(* refusals before the first cut are not steps.                            *)
(***************************************************************************)
EXTENDS Naturals, FiniteSets

CONSTANTS
    Users,          \* users, each with one login
    Objects,        \* objects of the catalog (OriginalObjectId)
    Lending,        \* those that should be returned (Type # Free)
    Rows,           \* identity column of the OfferedObjects table
    Registrations,  \* GUIDs of registrations; see the note on receivings
    Tokens,         \* GUIDs of transaction tokens
    Requests,       \* request slots: how many run at the same time
    Seeded,         \* the rows of OfferedObjects the service puts there as it starts
    ReturnPathResolves,  \* EF Core finds the path GenerateReturnToken has it include
    NoRow           \* the row that is not there

OfferedObject      == [original : Objects, owner : Users]
ObjectRegistration == [object : Rows, recipient : Users, status : {"OK", "Canceled"}]
\* Receivings and returnings have a GUID of their own, but a unique index on the
\* foreign key (one receiving per registration, one returning per receiving):
\* they are indexed by the registration they belong to.
ObjectReceiving    == [giver : Users, recipient : Users]
ObjectReturning    == [loaner : Users, loanee : Users]
TransactionToken   == [type : {"Receiving", "Returning"}, registration : Registrations,
                       issuer : Users, status : {"Ok", "Used"}]

EventKinds == {"NewRegistration", "Cancelled", "Received", "Returned"}
Events == [kind : EventKinds, registration : Registrations]

ASSUME TransactionsAssumption ==
    /\ Lending \subseteq Objects
    /\ NoRow \notin Registrations
    /\ NoRow \notin OfferedObject \cup ObjectRegistration \cup ObjectReceiving
                    \cup ObjectReturning \cup TransactionToken
    /\ Seeded \in [Rows -> OfferedObject \cup {NoRow}]
    /\ \A j, k \in Rows : Seeded[j] # NoRow /\ Seeded[k] # NoRow
                          /\ Seeded[j].original = Seeded[k].original => j = k
    /\ ReturnPathResolves \in BOOLEAN

\* There are finitely many identifiers and threads, and there is a thread.
ASSUME FiniteAssumption ==
    /\ IsFiniteSet(Rows) /\ IsFiniteSet(Registrations)
    /\ IsFiniteSet(Requests) /\ Requests # {}

VARIABLES
    offered,       \* table OfferedObjects
    registration,  \* table ObjectRegistrations
    receiving,     \* table ObjectReceivings
    returning,     \* table ObjectReturnings
    token,         \* table TransactionTokens
    expired,       \* registrations whose ExpiresAtUtc has passed
    stale,         \* tokens whose UseBeforeUtc has passed
    req,           \* the requests in flight
    published      \* the integration events handed to the event bus

tables == <<offered, registration, receiving, returning, token>>
clock  == <<expired, stale>>
vars   == <<tables, clock, req, published>>

Idle == [at |-> "idle"]
InFlight ==
    {Idle}
    \cup [at : {"fetchObject", "saveObject"}, user : Users, object : Objects]
    \cup [at : {"checkRegistration", "saveRegistration"}, user : Users, row : Rows]
    \cup [at : {"saveToken"}, user : Users, type : {"Receiving", "Returning"},
          registration : Registrations]
    \cup [at : {"saveReceiving", "saveReturning"}, user : Users, token : Tokens]
    \cup [at : {"saveCancel"}, registration : Registrations]
    \cup [at : {"publish"}, event : Events]

Init ==
    /\ offered      = Seeded
    /\ registration = [r \in Registrations |-> NoRow]
    /\ receiving    = [r \in Registrations |-> NoRow]
    /\ returning    = [r \in Registrations |-> NoRow]
    /\ token        = [t \in Tokens |-> NoRow]
    /\ expired = {} /\ stale = {}
    /\ req = [q \in Requests |-> Idle]
    /\ published = {}

-----------------------------------------------------------------------------
(* What the queries of the handlers select.                                *)

RowsOf(o) == {k \in Rows : offered[k] # NoRow /\ offered[k].original = o}

RegistrationsOn(k) ==
    {r \in Registrations : registration[r] # NoRow /\ registration[r].object = k}

\* Received and not returned: the recipient of r has the object.
Holding(r) == receiving[r] # NoRow /\ returning[r] = NoRow

\* Not received, or received and not returned.
Open(r) == receiving[r] = NoRow \/ returning[r] = NoRow

OwnerOf(r) == offered[registration[r].object].owner

\* Mutant of Available: a recipient who has the object may register it again.
AvailableToHolder(k, u) ==
    /\ offered[k].original \notin Lending => \A r \in RegistrationsOn(k) : ~Holding(r)
    /\ \A r \in RegistrationsOn(k) : registration[r].recipient = u => receiving[r] # NoRow

\* Mutant of Available: an object that need not be returned is treated like the others.
AvailableWhileHeld(k, u) ==
    \A r \in RegistrationsOn(k) : registration[r].recipient = u => ~Open(r)

\* What CreateRegistration demands of row k for user u.
Available(k, u) ==
    /\ offered[k].original \notin Lending => \A r \in RegistrationsOn(k) : ~Holding(r)
    /\ \A r \in RegistrationsOn(k) : registration[r].recipient = u => ~Open(r)

\* Mutants of NotTaken: no check, and a check of the scanned registration only.
NotChecked(r) == TRUE
NotTakenByItself(r) == ~Holding(r)

\* What CreateReceiving demands of the other registrations of the object of r.
NotTaken(r) == \A s \in RegistrationsOn(registration[r].object) : ~Holding(s)

\* What GenerateReturnToken demands of r once its query has run.
MayReturn(r) ==
    /\ registration[r] # NoRow
    /\ registration[r].status # "Canceled"
    /\ Holding(r)

\* Mutant of the two indexes: no unique index on the foreign key.
NoIndex(r) == TRUE

\* The unique indexes on ObjectReceivings.ObjectRegistrationId and on
\* ObjectReturnings.ObjectReceivingId.
ReceivingIndexAdmits(r) == receiving[r] = NoRow
ReturningIndexAdmits(r) == returning[r] = NoRow

\* Mutant of Accepts: the user who scans need not own the object.
AcceptsFromAnyone(t, u, type) ==
    /\ token[t] # NoRow
    /\ token[t].type = type
    /\ t \notin stale
    /\ token[t].status = "Ok"

\* The checks a receiving token or a returning token t scanned by u goes through:
\* the owner scans it, in time, and it was not used.
Accepts(t, u, type) ==
    /\ token[t] # NoRow
    /\ token[t].type = type
    /\ OwnerOf(token[t].registration) = u
    /\ t \notin stale
    /\ token[t].status = "Ok"

-----------------------------------------------------------------------------
(* The steps of a request.                                                 *)

Go(q, next) == req' = [req EXCEPT ![q] = next]
Reply(q) == Go(q, Idle)

\* Mutant of CreateRegistration: every registration asks the catalog.
CreateRegistrationAsking(q, u, o) ==
    /\ req[q] = Idle
    /\ Go(q, [at |-> "fetchObject", user |-> u, object |-> o])
    /\ UNCHANGED <<tables, clock, published>>

\* CreateRegistration by u on object o, up to its first write: a known object is
\* checked at once, an unknown one is asked of the catalog.
CreateRegistration(q, u, o) ==
    /\ req[q] = Idle
    /\ \/ /\ RowsOf(o) = {}
          /\ Go(q, [at |-> "fetchObject", user |-> u, object |-> o])
       \/ \E k \in RowsOf(o) :
             /\ Available(k, u)
             /\ Go(q, [at |-> "saveRegistration", user |-> u, row |-> k])
    /\ UNCHANGED <<tables, clock, published>>

\* The catalog answers; an object it does not know or does not offer ends the request.
FetchObject(q) ==
    /\ req[q].at = "fetchObject"
    /\ \/ Go(q, [at |-> "saveObject", user |-> req[q].user, object |-> req[q].object])
       \/ Reply(q)
    /\ UNCHANGED <<tables, clock, published>>

\* The row is added with the current user as its owner, not the one in the answer.
SaveObject(q) ==
    /\ req[q].at = "saveObject"
    /\ \E k \in Rows :
          /\ offered[k] = NoRow
          /\ offered' = [offered EXCEPT ![k] =
                            [original |-> req[q].object, owner |-> req[q].user]]
          /\ Go(q, [at |-> "checkRegistration", user |-> req[q].user, row |-> k])
    /\ UNCHANGED <<registration, receiving, returning, token, clock, published>>

\* An object that should be returned may also be refused because the request does
\* not say after how long.
CheckRegistration(q) ==
    /\ req[q].at = "checkRegistration"
    /\ LET k == req[q].row IN
       \/ /\ Available(k, req[q].user)
          /\ Go(q, [at |-> "saveRegistration", user |-> req[q].user, row |-> k])
       \/ /\ ~Available(k, req[q].user) \/ offered[k].original \in Lending
          /\ Reply(q)
    /\ UNCHANGED <<tables, clock, published>>

SaveRegistration(q) ==
    /\ req[q].at = "saveRegistration"
    /\ \E r \in Registrations :
          /\ registration[r] = NoRow
          /\ registration' = [registration EXCEPT ![r] =
                [object |-> req[q].row, recipient |-> req[q].user, status |-> "OK"]]
          /\ Go(q, [at |-> "publish",
                    event |-> [kind |-> "NewRegistration", registration |-> r]])
    /\ UNCHANGED <<offered, receiving, returning, token, clock, published>>

\* The event is handed to the bus after the save it announces; a new registration
\* gets its token only after its event.
Publish(q) ==
    /\ req[q].at = "publish"
    /\ published' = published \cup {req[q].event}
    /\ LET r == req[q].event.registration IN
       IF req[q].event.kind = "NewRegistration"
       THEN Go(q, [at |-> "saveToken", user |-> registration[r].recipient,
                   type |-> "Receiving", registration |-> r])
       ELSE Reply(q)
    /\ UNCHANGED <<tables, clock>>

\* Mutant of GenerateToken: tokens start in the status no handler uses.
GenerateTokenResolved(q) ==
    /\ req[q].at = "saveToken"
    /\ \E t \in Tokens :
          /\ token[t] = NoRow
          /\ token' = [token EXCEPT ![t] =
                [type |-> req[q].type, registration |-> req[q].registration,
                 issuer |-> req[q].user, status |-> "Resolved"]]
    /\ Reply(q)
    /\ UNCHANGED <<offered, registration, receiving, returning, clock, published>>

\* GenerateToken. Tokens issued earlier for the same registration stay Ok.
GenerateToken(q) ==
    /\ req[q].at = "saveToken"
    /\ \E t \in Tokens :
          /\ token[t] = NoRow
          /\ token' = [token EXCEPT ![t] =
                [type |-> req[q].type, registration |-> req[q].registration,
                 issuer |-> req[q].user, status |-> "Ok"]]
    /\ Reply(q)
    /\ UNCHANGED <<offered, registration, receiving, returning, clock, published>>

\* A valid registration of u for object o gets one more receiving token.
RefreshRegistrationToken(q, u, o) ==
    /\ req[q] = Idle
    /\ \E k \in RowsOf(o) : \E r \in RegistrationsOn(k) \ expired :
          /\ registration[r].recipient = u
          /\ registration[r].status = "OK"
          /\ receiving[r] = NoRow
          /\ Go(q, [at |-> "saveToken", user |-> u, type |-> "Receiving",
                    registration |-> r])
    /\ UNCHANGED <<tables, clock, published>>

\* CreateReceiving. The handler also looks at theRegistration.ObjectReceiving, which
\* no query has loaded: the unique index is what stops a second receiving.
CreateReceiving(q, u, t) ==
    /\ req[q] = Idle
    /\ Accepts(t, u, "Receiving")
    /\ NotTaken(token[t].registration)
    /\ Go(q, [at |-> "saveReceiving", user |-> u, token |-> t])
    /\ UNCHANGED <<tables, clock, published>>

\* The token's status and the receiving are written in one transaction; a second
\* receiving of the registration violates the unique index and nothing is written.
SaveReceiving(q) ==
    /\ req[q].at = "saveReceiving"
    /\ LET t == req[q].token
           r == token[t].registration IN
       \/ /\ ReceivingIndexAdmits(r)
          /\ token' = [token EXCEPT ![t].status = "Used"]
          /\ receiving' = [receiving EXCEPT ![r] =
                [giver |-> req[q].user, recipient |-> token[t].issuer]]
          /\ Go(q, [at |-> "publish",
                    event |-> [kind |-> "Received", registration |-> r]])
       \/ ~ReceivingIndexAdmits(r) /\ Reply(q) /\ UNCHANGED <<token, receiving>>
    /\ UNCHANGED <<offered, registration, returning, clock, published>>

\* GenerateReturnToken. The path it includes, "ObjectReceiving.ObjectReturning, Object",
\* is split at its dot only: EF Core 3.1.4 finds no navigation "ObjectReturning, Object"
\* and the query throws, whatever the registration, so the code as committed has
\* ReturnPathResolves FALSE and nothing behind the query is reached. Behind it, the
\* handler builds the error of a user u who is not the recipient, and goes on.
GenerateReturnToken(q, u, r) ==
    /\ ReturnPathResolves
    /\ req[q] = Idle
    /\ MayReturn(r)
    /\ Go(q, [at |-> "saveToken", user |-> u, type |-> "Returning", registration |-> r])
    /\ UNCHANGED <<tables, clock, published>>

CreateReturning(q, u, t) ==
    /\ req[q] = Idle
    /\ Accepts(t, u, "Returning")
    /\ Go(q, [at |-> "saveReturning", user |-> u, token |-> t])
    /\ UNCHANGED <<tables, clock, published>>

SaveReturning(q) ==
    /\ req[q].at = "saveReturning"
    /\ LET t == req[q].token
           r == token[t].registration IN
       \/ /\ ReturningIndexAdmits(r)
          /\ token' = [token EXCEPT ![t].status = "Used"]
          /\ returning' = [returning EXCEPT ![r] =
                [loaner |-> req[q].user, loanee |-> token[t].issuer]]
          /\ Go(q, [at |-> "publish",
                    event |-> [kind |-> "Returned", registration |-> r]])
       \/ ~ReturningIndexAdmits(r) /\ Reply(q) /\ UNCHANGED <<token, returning>>
    /\ UNCHANGED <<offered, registration, receiving, clock, published>>

\* Mutant of CancelRegistration: the event goes out before the save.
CancelAnnouncedFirst(q, u, r) ==
    /\ req[q] = Idle
    /\ registration[r] # NoRow
    /\ registration[r].recipient = u
    /\ Go(q, [at |-> "publish", event |-> [kind |-> "Cancelled", registration |-> r]])
    /\ UNCHANGED <<tables, clock, published>>

\* The recipient u cancels r; the tokens of r are left as they are.
CancelRegistration(q, u, r) ==
    /\ req[q] = Idle
    /\ registration[r] # NoRow
    /\ registration[r].recipient = u
    /\ registration[r].status = "OK"
    /\ receiving[r] = NoRow
    /\ r \notin expired
    /\ Go(q, [at |-> "saveCancel", registration |-> r])
    /\ UNCHANGED <<tables, clock, published>>

SaveCancel(q) ==
    /\ req[q].at = "saveCancel"
    /\ LET r == req[q].registration IN
       /\ registration' = [registration EXCEPT ![r].status = "Canceled"]
       /\ Go(q, [at |-> "publish",
                 event |-> [kind |-> "Cancelled", registration |-> r]])
    /\ UNCHANGED <<offered, receiving, returning, token, clock, published>>

\* The request dies where it is: the process stops, the database or the broker
\* refuses, and what was saved before stays saved.
Fail(q) ==
    /\ req[q] # Idle
    /\ Reply(q)
    /\ UNCHANGED <<tables, clock, published>>

\* ExpiresAtUtc is set at the registration and 48 hours later, UseBeforeUtc when the
\* token is issued and 6 days later: a receiving token outlives its registration.
RegistrationExpires(r) ==
    /\ registration[r] # NoRow
    /\ r \notin expired
    /\ expired' = expired \cup {r}
    /\ UNCHANGED <<tables, stale, req, published>>

TokenGoesStale(t) ==
    /\ token[t] # NoRow
    /\ t \notin stale
    /\ token[t].type = "Receiving" => token[t].registration \in expired
    /\ stale' = stale \cup {t}
    /\ UNCHANGED <<tables, expired, req, published>>

\* The rest of a request that has begun.
Continue(q) ==
    \/ FetchObject(q) \/ SaveObject(q) \/ CheckRegistration(q) \/ SaveRegistration(q)
    \/ Publish(q) \/ GenerateToken(q)
    \/ SaveReceiving(q) \/ SaveReturning(q) \/ SaveCancel(q)

Request(q) ==
    \/ \E u \in Users :
          \/ \E o \in Objects : CreateRegistration(q, u, o) \/ RefreshRegistrationToken(q, u, o)
          \/ \E t \in Tokens : CreateReceiving(q, u, t) \/ CreateReturning(q, u, t)
          \/ \E r \in Registrations :
                GenerateReturnToken(q, u, r) \/ CancelRegistration(q, u, r)
    \/ Continue(q)

Tick == \/ \E r \in Registrations : RegistrationExpires(r)
        \/ \E t \in Tokens : TokenGoesStale(t)

Next == (\E q \in Requests : Request(q) \/ Fail(q)) \/ Tick

Spec == Init /\ [][Next]_vars
-----------------------------------------------------------------------------
(* Properties.                                                             *)

TypeOK ==
    /\ offered \in [Rows -> OfferedObject \cup {NoRow}]
    /\ registration \in [Registrations -> ObjectRegistration \cup {NoRow}]
    /\ receiving \in [Registrations -> ObjectReceiving \cup {NoRow}]
    /\ returning \in [Registrations -> ObjectReturning \cup {NoRow}]
    /\ token \in [Tokens -> TransactionToken \cup {NoRow}]
    /\ expired \subseteq Registrations
    /\ stale \subseteq Tokens
    /\ req \in [Requests -> InFlight]
    /\ published \subseteq Events

\* Token t was used up for registration r.
UsedFor(t, type, r) ==
    /\ token[t] # NoRow
    /\ token[t].type = type
    /\ token[t].registration = r
    /\ token[t].status = "Used"

\* A token is marked Used together with the receiving or the returning it gave, and
\* each receiving and each returning used up exactly one token: neither two scans of
\* one QR code nor scans of two codes of one registration break this, although the
\* handlers check the token before the save and not in it.
TokensAccountForLoans ==
    \A r \in Registrations :
        /\ \A t \in Tokens :
              /\ UsedFor(t, "Receiving", r) => receiving[r] # NoRow
              /\ UsedFor(t, "Returning", r) => returning[r] # NoRow
        /\ receiving[r] # NoRow =>
              \E t \in Tokens : /\ UsedFor(t, "Receiving", r)
                              /\ \A s \in Tokens : UsedFor(s, "Receiving", r) => s = t
        /\ returning[r] # NoRow =>
              \E t \in Tokens : /\ UsedFor(t, "Returning", r)
                              /\ \A s \in Tokens : UsedFor(s, "Returning", r) => s = t

\* Whoever scans and whoever asked for the token, a receiving is recorded between the
\* owner of the registered row and the recipient of the registration, and a returning
\* is taken by that owner and closes a receiving.
PartiesOfALoan ==
    \A r \in Registrations :
        /\ receiving[r] # NoRow =>
              /\ registration[r] # NoRow
              /\ receiving[r] = [giver |-> OwnerOf(r), recipient |-> registration[r].recipient]
        /\ returning[r] # NoRow =>
              /\ receiving[r] # NoRow
              /\ returning[r].loaner = receiving[r].giver

\* What an event announces.
Saved(e) ==
    /\ registration[e.registration] # NoRow
    /\ e.kind = "Cancelled" => registration[e.registration].status = "Canceled"
    /\ e.kind = "Received" => receiving[e.registration] # NoRow
    /\ e.kind = "Returned" => returning[e.registration] # NoRow

\* The other services are told nothing that the database could still take back: an
\* event on the bus announces a row that is saved, whatever dies in between.
AnnouncedIsSaved == \A e \in published : Saved(e)

\* A hand-over or a return is recorded only by using up a token that was Ok up to that
\* very save, and neither is ever changed afterwards; a cancellation is final.
LoansAdvanceByTokens ==
    [][\A r \in Registrations :
          /\ receiving'[r] # receiving[r] =>
                /\ receiving[r] = NoRow
                /\ \E t \in Tokens : ~UsedFor(t, "Receiving", r) /\ UsedFor(t, "Receiving", r)'
          /\ returning'[r] # returning[r] =>
                /\ returning[r] = NoRow /\ Holding(r)
                /\ \E t \in Tokens : ~UsedFor(t, "Returning", r) /\ UsedFor(t, "Returning", r)'
          /\ registration[r] # NoRow /\ registration[r].status = "Canceled" =>
                registration'[r] = registration[r]]_vars

\* As committed, GenerateReturnToken throws for every registration, and no other request
\* leads to a returning token: what was handed over is never recorded as given back.
LoansStayOpen == [][\A r \in Registrations : Holding(r) => Holding(r)']_vars

\* At most one recipient has the object of a row (the check of CreateReceiving: all
\* registrations of the object are returned or not received). It holds when requests
\* do not overlap.
SingleHolder ==
    \A k \in Rows : \A r, s \in RegistrationsOn(k) : Holding(r) /\ Holding(s) => r = s

\* A user has at most one registration of a row that is not received or not returned
\* (the check of CreateRegistration). It holds when requests do not overlap.
OneOpenRegistration ==
    \A k \in Rows : \A r, s \in RegistrationsOn(k) :
        /\ registration[r].recipient = registration[s].recipient
        /\ Open(r) /\ Open(s)
        => r = s

\* An object that need not be returned is not registered while someone has it (the check
\* of CreateRegistration). It holds when requests do not overlap.
FreeObjectsAreRegisteredAtHome ==
    [][\A r \in Registrations : registration[r] = NoRow /\ registration'[r] # NoRow =>
          LET k == registration'[r].object IN
          offered[k].original \notin Lending =>
              \A s \in RegistrationsOn(k) : ~Holding(s)]_vars

\* An object of the catalog has one row. It holds when requests do not overlap.
OneRowPerObject == \A o \in Objects : \A j, k \in RowsOf(o) : j = k

\* When requests overlap, each of them may go past a check before the first one saves:
\* what was checked and is not saved yet counts like what is saved.
HoldersOf(k) == {r \in RegistrationsOn(k) : Holding(r)}
HandingOver(k) ==
    {q \in Requests : /\ req[q].at = "saveReceiving"
                      /\ token[req[q].token].registration \in RegistrationsOn(k)}

\* However requests overlap, an object is never with more recipients than requests ran
\* at the same time.
HoldersAreBounded ==
    \A k \in Rows :
        Cardinality(HoldersOf(k)) + Cardinality(HandingOver(k)) <= Cardinality(Requests)

OpenRegistrations(k, u) ==
    {r \in RegistrationsOn(k) : registration[r].recipient = u /\ Open(r)}
Registering(k, u) ==
    {q \in Requests : req[q] = [at |-> "saveRegistration", user |-> u, row |-> k]}

\* Nor has a user more open registrations of an object, ...
OpenRegistrationsAreBounded ==
    \A k \in Rows, u \in Users :
        Cardinality(OpenRegistrations(k, u)) + Cardinality(Registering(k, u))
            <= Cardinality(Requests)

Adding(o) ==
    {q \in Requests : req[q].at \in {"fetchObject", "saveObject"} /\ req[q].object = o}

\* ... nor an object of the catalog more rows.
RowsAreBounded ==
    \A o \in Objects : Cardinality(RowsOf(o)) + Cardinality(Adding(o)) <= Cardinality(Requests)

-----------------------------------------------------------------------------
(* Users who do their part, in a service whose requests do not fail for    *)
(* ever: a request ends, by an answer or by its death; the recipient asks  *)
(* for a returning code again while there is no valid one, the owner scans *)
(* it, and neither the code nor the scan fails to be saved each time.      *)

ReturnCode(t, r) ==
    /\ token[t] # NoRow
    /\ token[t].type = "Returning" /\ token[t].registration = r
    /\ token[t].status = "Ok" /\ t \notin stale

AsksToReturn(r) ==
    /\ registration[r] # NoRow
    /\ \A t \in Tokens : ~ReturnCode(t, r)
    /\ \E q \in Requests : GenerateReturnToken(q, registration[r].recipient, r)

TakesBack(r) ==
    \E q \in Requests, t \in Tokens : ReturnCode(t, r) /\ CreateReturning(q, OwnerOf(r), t)

SavesCode(q, r) == GenerateToken(q) /\ req[q].registration = r
SavesReturn(q, r) == SaveReturning(q) /\ token[req[q].token].registration = r

FairSpec ==
    /\ Spec
    /\ \A q \in Requests : WF_vars(Continue(q) \/ Fail(q))
    /\ \A r \in Registrations :
          /\ SF_vars(AsksToReturn(r)) /\ SF_vars(TakesBack(r))
          /\ \A q \in Requests : SF_vars(SavesCode(q, r)) /\ SF_vars(SavesReturn(q, r))

\* "Scenario 1: All good" (the page of return/generate/token): the recipient of an object
\* gets a returning code, and the loan is closed. A cancelled registration is a way out,
\* and so is the end of the instance's tokens.
LoansAreClosed ==
    \A r \in Registrations :
        Holding(r) ~> \/ ~Holding(r)
                      \/ registration[r].status = "Canceled"
                      \/ \A t \in Tokens : token[t] # NoRow

-----------------------------------------------------------------------------
(* Custody, read off the tables: the loan a row is out on and the loans    *)
(* that are closed.                                                        *)

Holder(k) ==
    IF \E r \in RegistrationsOn(k) : Holding(r)
    THEN CHOOSE r \in RegistrationsOn(k) : Holding(r)
    ELSE NoRow

C == INSTANCE Custody WITH
        Things <- Rows, Loans <- Registrations, NoLoan <- NoRow,
        holder <- [k \in Rows |-> Holder(k)],
        closed <- {r \in Registrations : returning[r] # NoRow}

\* Requests that do not overlap implement Custody.
ImplementsCustody == C!Spec
=============================================================================
