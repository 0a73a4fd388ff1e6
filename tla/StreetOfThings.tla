--------------------------- MODULE StreetOfThings ---------------------------
(***************************************************************************)
(* The Transaction service, the event bus and the Catalog service's copy   *)
(* of the transactions, together: a request publishes to the bus, the      *)
(* consumer of the catalog handles what it is delivered, and the           *)
(* Transaction service asks the catalog about an object it does not know.  *)
(***************************************************************************)
EXTENDS Transactions, Naturals, Sequences

CONSTANTS
    CatalogOwner,      \* the owner of each object of the catalog
    Visitors,          \* users who use the catalog themselves
    Deployed,          \* the catalog has been up before, and is up
    MaxDeaths,         \* bound: requests that die half-way
    MaxRestarts,       \* bound: restarts of the Catalog service
    MaxThrows,         \* bound: failed calls of the Authorization service
    MaxRefusals,       \* bound: saves of the handlers the database refuses
    NoEvent

VARIABLES
    bound, queue, subscribed, consuming, handling, handled, throws, restarts,
    row, known, asked, tracked, added, addedUsers,
    deaths, refusals

K == INSTANCE CatalogTransactions
B == INSTANCE EventBus WITH
        Events <- Events, Subscriptions <- K!CatalogSubscriptions, Poison <- {},
        sent <- published

ASSUME StreetOfThingsAssumption ==
    /\ CatalogOwner \in [Objects -> Users]
    /\ Visitors \subseteq Users
    /\ NoRow \notin K!Transaction \cup Users
    /\ NoEvent \notin Events
    /\ MaxDeaths \in Nat /\ MaxRefusals \in Nat

transactions == <<offered, registration, receiving, returning, token, expired, stale, req>>
bus          == <<bound, queue, subscribed, consuming, handling, handled, throws, restarts>>
catalog      == <<row, known, asked, tracked, added, addedUsers>>
system       == <<transactions, published, bus, catalog, deaths, refusals>>

SystemInit == Init /\ B!Init /\ K!Init /\ deaths = 0 /\ refusals = 0

\* The catalog offers an object none of whose transactions keeps it from its owner.
Listed(o) ==
    \A r \in Registrations :
        row[r] # NoRow /\ offered[registration[r].object].original = o => K!AtOwner(r)

\* A step of the Transaction service that neither asks the catalog nor publishes.
Serve(q) ==
    /\ Request(q)
    /\ req[q].at \notin {"fetchObject", "publish"}
    /\ UNCHANGED <<published, bus, catalog, deaths, refusals>>

\* The catalog subscribes before it starts to answer requests.
Up == subscribed = Len(K!CatalogSubscriptions)

\* Mutant of AskCatalog: the catalog answers while it starts.
AskCatalogStarting(q) ==
    /\ FetchObject(q)
    /\ req'[q].at = "saveObject" => Listed(req[q].object)
    /\ UNCHANGED <<bus, catalog, deaths, refusals>>

\* GET api/object/byId: the catalog answers with the object if it lists it.
AskCatalog(q) ==
    /\ FetchObject(q)
    /\ req'[q].at = "saveObject" => Up /\ Listed(req[q].object)
    /\ UNCHANGED <<bus, catalog, deaths, refusals>>

PublishToBus(q) ==
    /\ Publish(q)
    /\ B!Publish(req[q].event)
    /\ UNCHANGED <<catalog, deaths, refusals>>

Die(q) ==
    /\ deaths < MaxDeaths
    /\ Fail(q)
    /\ deaths' = deaths + 1
    /\ UNCHANGED <<published, bus, catalog, refusals>>

Pass == Tick /\ UNCHANGED <<published, bus, catalog, deaths, refusals>>

Visit(u) ==
    /\ Up
    /\ K!AddCurrentUserIfNeeded(u)
    /\ UNCHANGED <<transactions, published, bus, deaths, refusals>>

\* The database refuses a save of the handlers, or not.
Refused(fails) ==
    \/ ~fails /\ UNCHANGED refusals
    \/ fails /\ refusals < MaxRefusals /\ refusals' = refusals + 1

Recipient(e) == registration[e.registration].recipient

\* The consumer runs the catalog's handler for the event it was delivered to its end.
HandleEvent(e) ==
    /\ B!HandleEvent(e)
    /\ \E fails \in BOOLEAN : K!Handle(e, Recipient(e), fails) /\ Refused(fails)
    /\ UNCHANGED <<transactions, deaths>>

\* The handler of a new registration finds no user, ...
AskUser(e) ==
    /\ B!Processing(e) /\ B!HasSubscriptionsForEvent(e.kind)
    /\ e.kind = "NewRegistration"
    /\ K!AskUser(Recipient(e))
    /\ UNCHANGED <<transactions, published, bus, deaths, refusals>>

\* ... adds the user and goes on, or throws.
AddUser(e) ==
    /\ B!Processing(e)
    /\ e.kind = "NewRegistration"
    /\ \E fails \in BOOLEAN :
          /\ K!AddUser(Recipient(e), fails) /\ Refused(fails)
          /\ IF K!AddUserThrows(Recipient(e), fails)
             THEN B!RecreateChannel /\ UNCHANGED throws
             ELSE UNCHANGED <<published, bus>>
    /\ UNCHANGED <<transactions, deaths>>

\* The Authorization service does not answer.
UserNotFound ==
    /\ asked # NoRow
    /\ K!GiveUp
    /\ B!CallbackException
    /\ UNCHANGED <<transactions, deaths, refusals>>

Dispatch == B!Dispatch /\ UNCHANGED <<transactions, catalog, deaths, refusals>>

RestartCatalog ==
    /\ B!Restart /\ K!Restart
    /\ UNCHANGED <<transactions, deaths, refusals>>

Consume ==
    \/ \E e \in Events : HandleEvent(e) \/ AskUser(e) \/ AddUser(e)
    \/ UserNotFound \/ Dispatch

SystemNext ==
    \/ \E q \in Requests : Serve(q) \/ AskCatalog(q) \/ PublishToBus(q) \/ Die(q)
    \/ Pass
    \/ \E u \in Visitors : Visit(u)
    \/ Consume \/ RestartCatalog

SystemSpec == SystemInit /\ [][SystemNext]_system

\* A request that has begun goes on, and the consumer's threads run.
GoesOn(q) ==
    /\ req[q] # Idle
    /\ Serve(q) \/ AskCatalog(q) \/ PublishToBus(q)

FairSystemSpec ==
    SystemSpec /\ (\A q \in Requests : WF_system(GoesOn(q))) /\ WF_system(Consume)
-----------------------------------------------------------------------------
\* The catalog is never ahead of the Transaction service: what it shows of a transaction
\* is saved there, whatever dies, is delivered twice or fails to be written in between.
CatalogNeverAhead ==
    \A r \in Registrations : row[r] # NoRow =>
        /\ registration[r] # NoRow
        /\ row[r].received => receiving[r] # NoRow
        /\ row[r].returned => returning[r] # NoRow
        /\ row[r].status = "Cancelled" => registration[r].status = "Canceled"

\* A row of the catalog is never taken back: an event delivered a second time, after a
\* restart between the save and the acknowledgement, undoes nothing.
CatalogOnlyAdvances ==
    [][\A r \in Registrations : row[r] # NoRow =>
          /\ row'[r] # NoRow
          /\ row[r].received => row'[r].received
          /\ row[r].returned => row'[r].returned
          /\ row[r].status = "Cancelled" => row'[r].status = "Cancelled"]_system

\* The queue of the catalog is gone through in order and nothing leaves it unprocessed,
\* although here an event may be published twice: by cancellations that overlap.
DeliveredInOrder == B!ImplementsDelivery

\* The broker drops an event of a kind no queue is bound to, and nobody hears of it. A
\* service whose catalog has never run publishes nothing: it knows no object to register.
\* It holds when no object is seeded, or the catalog has been up before.
PublishedIsRouted ==
    \A q \in Requests : req[q].at = "publish" => req[q].event.kind \in bound

\* When requests do not overlap and nothing fails, each hand-over, each return and each
\* cancellation shows in the catalog some time: events published one after the other are
\* not handled in another order, and none is left behind in the queue.
CatalogCatchesUp ==
    \A r \in Registrations :
        /\ receiving[r] # NoRow ~> row[r] # NoRow /\ row[r].received
        /\ returning[r] # NoRow ~> row[r] # NoRow /\ row[r].returned
        /\ registration[r] # NoRow /\ registration[r].status = "Canceled"
              ~> row[r] # NoRow /\ row[r].status = "Cancelled"

\* Nothing is under way.
Quiet ==
    /\ \A q \in Requests : req[q] = Idle
    /\ queue = <<>> /\ Up

\* When requests do not overlap and nothing fails, the catalog has, whenever nothing is
\* under way, what the Transaction service has saved: each registration, and whether it
\* was handed over, given back or cancelled.
CatalogAgrees ==
    Quiet => \A r \in Registrations :
        /\ row[r] # NoRow <=> registration[r] # NoRow
        /\ row[r] # NoRow =>
              /\ row[r].received <=> receiving[r] # NoRow
              /\ row[r].returned <=> returning[r] # NoRow
              /\ row[r].status = "Cancelled" <=> registration[r].status = "Canceled"

\* "The object is actually is at the owner" (ValidForFreeAndLendibg): when nothing is
\* under way, no one has an object the catalog offers.
ListedIsAtOwner ==
    Quiet => \A r \in Registrations :
                registration[r] # NoRow /\ Listed(offered[registration[r].object].original)
                    => ~Holding(r)

\* "Owner gives loaner": a receiving is given by the owner of the object.
OwnerGives ==
    \A r \in Registrations :
        receiving[r] # NoRow =>
            receiving[r].giver = CatalogOwner[offered[registration[r].object].original]
=============================================================================
