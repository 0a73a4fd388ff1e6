------------------------ MODULE CatalogTransactions ------------------------
(***************************************************************************)
(* The copy of the transactions that the Catalog service keeps to know     *)
(* which of its objects are with their owners.  It is written by the       *)
(* handlers of four integration events, and only by them.                  *)
(*                                                                         *)
(* The event bus resolves a handler from the root container of the         *)
(* process, where the scoped database context is a single one: what one    *)
(* event leaves in the context is still there when the next one comes.     *)
(***************************************************************************)
CONSTANTS
    Registrations,  \* identifiers of transactions
    Users,
    NoRow           \* the row that is not there; no user

Transaction == [received : BOOLEAN, returned : BOOLEAN, status : {"Ok", "Cancelled"}]

VARIABLES
    row,         \* table Transactions
    known,       \* table Users
    asked,       \* the user NewRegistration has not found in the table
    tracked,     \* transactions in the context of the handlers
    added,       \* those of them it will insert
    addedUsers   \* users it will insert

tables  == <<row, known>>
context == <<asked, tracked, added, addedUsers>>
vars    == <<tables, context>>

Empty == [r \in Registrations |-> NoRow]

Init ==
    /\ row = Empty /\ known = {}
    /\ asked = NoRow /\ tracked = Empty /\ added = {} /\ addedUsers = {}

\* The catalog subscribes in this order.
CatalogSubscriptions == <<"NewRegistration", "Cancelled", "Received", "Returned">>

\* SaveChanges writes all that the context holds, or nothing: the database refuses a key
\* it has, and may fail otherwise.
Writes(inserts, users, fails) ==
    ~fails /\ users \cap known = {} /\ \A r \in inserts : row[r] = NoRow

\* What was not written stays in the context.
SaveChanges(entities, inserts, users, fails) ==
    /\ tracked' = entities
    /\ IF Writes(inserts, users, fails)
       THEN /\ row' = [r \in Registrations |->
                          IF entities[r] = NoRow THEN row[r] ELSE entities[r]]
            /\ known' = known \cup users
            /\ added' = {} /\ addedUsers' = {}
       ELSE added' = inserts /\ addedUsers' = users /\ UNCHANGED tables

\* A user's own request to the catalog adds the user, in a context of its own.
AddCurrentUserIfNeeded(u) ==
    /\ u \notin known
    /\ known' = known \cup {u}
    /\ UNCHANGED <<row, context>>

\* AddUserIfNeeded, called for the recipient u of a new registration: u is looked up,
\* the Authorization service is asked about a user who is not there, ...
AskUser(u) ==
    /\ asked = NoRow /\ u \notin known
    /\ asked' = u
    /\ UNCHANGED <<tables, tracked, added, addedUsers>>

\* ... and added. The handler does not catch what is thrown here: that the context has
\* a user with that key to insert already, or that SaveChanges fails.
AddUserThrows(u, fails) ==
    u \in addedUsers \/ ~Writes(added, addedUsers \cup {u}, fails)

AddUser(u, fails) ==
    /\ asked = u /\ asked' = NoRow
    /\ IF u \in addedUsers
       THEN UNCHANGED <<tables, tracked, added, addedUsers>>
       ELSE SaveChanges(tracked, added, addedUsers \cup {u}, fails)

\* The context refuses a second entity with the key of one it tracks; the handler
\* catches that, and whatever SaveChanges throws.
NewRegistration(r, u, fails) ==
    /\ u \in known /\ UNCHANGED asked
    /\ IF tracked[r] = NoRow
       THEN SaveChanges([tracked EXCEPT ![r] =
                            [received |-> FALSE, returned |-> FALSE, status |-> "Ok"]],
                        added \cup {r}, addedUsers, fails)
       ELSE UNCHANGED <<tables, tracked, added, addedUsers>>

\* The entity the query for r returns: the tracked one if there is one.
Found(r) == IF tracked[r] = NoRow THEN row[r] ELSE tracked[r]

\* When the table has no r the handler dereferences null, and catches that.
Update(r, entity, fails) ==
    /\ UNCHANGED asked
    /\ IF row[r] = NoRow THEN UNCHANGED <<tables, tracked, added, addedUsers>>
       ELSE SaveChanges([tracked EXCEPT ![r] = entity], added, addedUsers, fails)

\* Mutants of Received: the entity is built anew; a hand-over under a cancelled registration is not recorded.
ReceivedAnew(r, fails) ==
    Update(r, [received |-> TRUE, returned |-> FALSE, status |-> "Ok"], fails)
ReceivedUnlessCancelled(r, fails) ==
    Update(r, IF Found(r).status = "Cancelled" THEN Found(r)
              ELSE [Found(r) EXCEPT !.received = TRUE], fails)

Cancelled(r, fails) == Update(r, [Found(r) EXCEPT !.status = "Cancelled"], fails)
Received(r, fails) == Update(r, [Found(r) EXCEPT !.received = TRUE], fails)
Returned(r, fails) == Update(r, [Found(r) EXCEPT !.returned = TRUE], fails)

\* The handler of e, u being the recipient of its registration.
Handle(e, u, fails) ==
    \/ e.kind = "NewRegistration" /\ NewRegistration(e.registration, u, fails)
    \/ e.kind = "Cancelled" /\ Cancelled(e.registration, fails)
    \/ e.kind = "Received" /\ Received(e.registration, fails)
    \/ e.kind = "Returned" /\ Returned(e.registration, fails)

\* The call of the handler is over: it threw.
GiveUp == asked' = NoRow /\ UNCHANGED <<tables, tracked, added, addedUsers>>

\* A new process has a new context.
Restart ==
    /\ asked' = NoRow /\ tracked' = Empty /\ added' = {} /\ addedUsers' = {}
    /\ UNCHANGED tables

\* ValidForFreeAndLendibg, of one transaction: it leaves its object at the owner.
AtOwner(r) ==
    row[r] # NoRow =>
        \/ row[r].returned
        \/ ~row[r].received /\ row[r].status = "Cancelled"
=============================================================================
