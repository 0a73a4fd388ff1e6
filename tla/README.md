# Verification of StreetOfThings

StreetOfThings lets people lend and give things to one another. An object is offered in
the *catalog*; another user *registers* it and gets a receiving token (a QR code); the
owner scans the code and hands the object over (*receiving*); later the recipient shows a
returning token, the owner scans it and the object is back (*returning*). This directory
holds TLA+ models of that life cycle and of the events that keep the services in step, of
what users do with the objects of the catalog, and of the accounts they do it with; the TLC
configurations that check them, and proofs checked by TLAPS.

The program is written in C#. The JavaScript of the repository is third-party (jQuery
validation, under the `wwwroot` of three hosts) or a comment (`site.js`); none of it is
modelled. Paths below are relative to `src/src/`.

## The system

| Part | State | Operations | Interacts with |
|---|---|---|---|
| Transaction service, commands (`Services/Transaction`) | tables OfferedObjects, ObjectRegistrations, ObjectReceivings, ObjectReturnings, TransactionTokens | CreateRegistration, RefreshRegistrationToken, CreateReceiving, GenerateReturnToken, CreateReturning, CancelRegistration | asks the catalog for an unknown object (HTTP), the Authorization service for an unknown user (gRPC), publishes four integration events |
| Transaction service, queries | none | lists, return status, statistics | reads the tables |
| Event bus (`BuildingBlocks/EventBus`) | exchange bindings, one durable queue per service, the handlers registered in a process | Publish, Subscribe, Consumer_Received | RabbitMQ; used by the Transaction service (publishes) and the Catalog service (consumes) |
| Catalog service, transactions (`Catalog.Infrastructure/Events`) | table Transactions, the database context of the handlers | handlers of NewRegistration, Cancelled, Received, Returned | decides which objects the catalog offers (`ValidForFreeAndLendibg`) |
| User copies of the Catalog and the Transaction service (`UserDataManager`) | tables Users and Logins, one copy per service | AddCurrentUserIfNeeded, AddUserIfNeeded | every request with an access token; Authorization service (gRPC) |
| Catalog service, objects | table OfferedObjects | AddObject, DeleteObject, AuthorizedDelete, lists | publishes an event that nobody subscribes to when the owner deletes an object |
| Likes, comments, photos, views, tags, impressions | one table each | add, remove | belong to an object and to a log-in |
| Authorization service | accounts, confirmation codes, log-ins | register, confirm, resend the code, log in, delete an account | IdentityServer, e-mail; answers the other services (gRPC) |
| Event log (`BuildingBlocks/EventLog.DataAccessLayer`) | an outbox table | save, mark published | used by no service |
| Gateways, hosting helpers, common library | none | routing, aggregation, files | all services |

What is hard about it:

* Every request has its own thread and database context. A handler reads, decides, and
  then awaits `SaveChangesAsync`; no check is repeated in the database except the two
  unique indexes of `20201125211724_Initial.cs`.
* The save and the publication are two steps (the outbox is not used): a process may stop
  between them, and between the acknowledgement of a message and its effect.
* The consumer runs from its first `Subscribe` on, and its handlers share one database
  context for the life of the process.
* An access token is good for 30 days whatever happens to its account, and names a log-in
  that each service copies when it sees it first; two first requests race for the insertion.
* Likes and tags are unique only by a check before the save; an object may be deleted
  while somebody likes it.
* A confirmation deletes the codes in one save and confirms the account in the next.
* Registrations expire after 48 hours, tokens after six days, a cancelled registration
  keeps its tokens.
* The path a query includes is a string. That of `GenerateReturnToken` names no navigation,
  so its query throws whatever the registration; nothing finds out before it runs.
* An event that no queue is bound for is lost without an error.

What makes each part correct: a loan is opened and closed by exactly one token, between
the right people, and an object is with one person at a time (Transaction service); the
message acknowledged is the one handled and each message leaves the queue (event bus); the
copy in the catalog is never ahead of the Transaction service, never goes back, and
catches up (catalog); what the catalog offers is at its owner (all of them); every row of
the catalog has its user, and a deleted object settles (catalog objects); a code is used
once, nothing outlives its account, and a user who goes on is confirmed (accounts); a
service and the Authorization service agree on whose a log-in is (user copies).

## The modules

| Module | Models |
|---|---|
| `Custody` | abstract specification: a thing is at home or out on one loan, a loan goes out once and comes back once |
| `Transactions` | the command side of the Transaction service; instantiates `Custody` with a refinement mapping |
| `TransactionsProofs` | the invariants of `Transactions` and what a step of it may never do, proved |
| `TransactionsChecksProofs` | what the handlers' checks guarantee when requests overlap (bounds) and when they do not (uniqueness, the refinement of `Custody`), proved |
| `Counting` | lemmas on how a number of rows is bounded by the number of requests; used by `TransactionsChecksProofs` and `CatalogObjectsProofs` |
| `Delivery` | abstract specification: messages are processed in order, perhaps again, and discarded only when processed |
| `EventBus` | exchange, queue and consumer of one subscribing service; instantiates `Delivery` with a refinement mapping |
| `CatalogTransactions` | the catalog's table, the shared context of its handlers, the four handlers; operators without a specification of their own |
| `EventBusProofs` | what the consumer acknowledges, and the refinement of `Delivery`, proved |
| `StreetOfThings` | the composition of `Transactions`, `EventBus` and `CatalogTransactions` |
| `StreetOfThingsProofs` | that the composition implements `Transactions`, `Custody` and `Delivery`, that the catalog is never ahead and never goes back, and that it agrees where nothing disturbs it, proved |
| `UserCopies` | `UserDataManager`: how one request copies its user and log-in; operators without a specification of their own |
| `CatalogObjects` | objects, likes, comments, photos, views and tags of the catalog, over `UserCopies` |
| `CatalogObjectsProofs` | the safety and action properties of `CatalogObjects`, proved |
| `Accounts` | the Authorization service |
| `AccountsProofs` | its safety and action properties, proved |
| `Visits` | the composition of `Accounts` with one instance of `UserCopies`: a service that is called with the access tokens |
| `VisitsProofs` | that the service and the access tokens agree, and that what is proved of `Accounts` holds beside such a service |
| `MCTransactions`, `MCEventBus`, `MCStreetOfThings`, `MCCatalogObjects` | instances for TLC |

### Transactions

A table is a function from identifiers to rows, `NoRow` where there is none. `req[q]` is
what request `q` does next and what it has read to decide it. A handler is cut at each
`await` at which another request can change what it has read: `CreateRegistration` is
`CreateRegistration` (the lookup), `FetchObject` (the call of the catalog), `SaveObject`,
`CheckRegistration`, `SaveRegistration`, `Publish` and `GenerateToken`; `CreateReceiving`
is `CreateReceiving`, `SaveReceiving`, `Publish`; and so on. What is read between two cuts
is one step, as the queries of one handler are run back to back; this is coarser than the
code by the interleavings between two queries of one check.

Receivings and returnings have identifiers of their own in the code, but each has a unique
index on its foreign key; they are indexed by their registration, and the mutant `NoIndex`
shows what the indexes are worth. A user has one login. Time is two sets, the
registrations that have expired and the tokens that are stale. A handler that refuses
changes nothing, so that a refusal before the first cut is not a step. `Fail` is a request
that dies anywhere.

The handler of `CreateReceiving` tests `theRegistration.ObjectReceiving`, and that of
`CreateReturning` tests `theReceiving.ObjectReturning`. No query loads either (EF Core
without lazy loading), so both tests pass always and are not in the model.

*The query of `GenerateReturnToken`.* `GenerateReturnTokenCommandHandler.cs:41` includes the
one path `"ObjectReceiving.ObjectReturning, Object"`. `ListExtensions.cs:36-42` and
`QueryableHelper.cs:14-17` hand it to EF Core 3.1.4 as it is, which splits it at its dot only
and finds no navigation `ObjectReturning, Object`: `FirstOrDefault` in line 42 throws. As
committed the handler therefore issues no token, nothing is ever given back, and lines 44-83
are not reached (nor is the error of lines 54-62, which is built and not returned). The
constant `ReturnPathResolves` is `FALSE` for the code as committed. `TRUE` is the same handler
if its query ran; what `CreateReturning` and the catalog do with a returning token is then
reachable and checked. The constant guards `GenerateReturnToken` and nothing else, so every
behaviour of the code as committed is also one of `TRUE`, and what holds of those holds of
it, the clauses about returns emptily.

*What is seeded.* `ConfigDatabases.cs:12-110` puts two objects in the tables of the service as
it starts, before it answers. `Seeded` says which rows are there; the two registrations seeded
with them are left out.

### EventBus

`Publish` routes an event to the queue when its kind is bound and drops it otherwise.
`QueueBind` and `AddSubscription` are the steps of `Subscribe`; the second opens the
consumer. `Deliver`, `HandleEvent` or `NoSubscription`, and `BasicAck` are
`Consumer_Received`. A handler that throws ends in `RecreateChannel`. `Restart` is a
new process; what is bound and queued survives it.

Assumed of RabbitMQ and its client: the queue is FIFO; a message that was not acknowledged
goes back to its old place; the consumers of one channel run one callback at a time, in
order; disposing of a channel drops what it has prefetched; an exception of an
asynchronous consumer raises `CallbackException`.

### CatalogTransactions and StreetOfThings

The bus resolves a handler from the root container of the process (Unity), so the scoped
`CatalogContext` of all handlers is one and the same. `tracked`, `added` and `addedUsers`
are what is in it: what a failed `SaveChanges` left is written with the next event, or
makes it fail too. `AddUserIfNeeded` runs before the `try` of its handler and is cut at
its call of the Authorization service (`AskUser`, `AddUser`).

`StreetOfThings` extends `Transactions` and adds the bus and the catalog to its steps
(`Serve`, `AskCatalog`, `PublishToBus`, `Die`, `Pass`). It identifies the bus's `sent` with
`published` of `Transactions`. A request that asks the catalog gets an answer only if the
catalog is `Up` and lists the object: `Startup.Configure` of the catalog subscribes to
everything before its server answers, and the same holds for the visit of a user. The four
kinds of failure have a bound each: `MaxDeaths`, `MaxRestarts`, `MaxThrows`, `MaxRefusals`.

### UserCopies, CatalogObjects

`req[q]` is a request, as in `Transactions`. What a user does starts with
`AddCurrentUserIfNeeded` (the lookup of the log-in), goes on with `GetLoginInformation` (the
answer of the Authorization service and the lookup of the user) and `SaveUser` or
`SaveLogin`, unless the log-in is there; a key that another request has inserted since makes
the save, and the request, fail. Then the request performs its job (`AddObject`, `AddLike`,
`Unlike`, `AddComment`, `AddView`) up to its save.

Likes, comments, photos and views are rows of one table `entry`, told apart by `kind`, each
with the user of its log-in; a key whose row was deleted is `Gone`. `SaveRemoval` leaves
open whether the row is still there: the failing save and the second deletion have the same
effect. The owner deletes an object through `EventedObjectService`, which publishes after
the save (`SaveDeleted`, `PublishEvent`); an administrator through the service below it,
which does not publish. `AddView` is a request of its own, because the request that shows the
object does not wait for it; `Begin` has the guard of that request. A view reads nothing
afterwards, so it can be saved for an object that has been deleted.

### Accounts, Visits

Codes and log-ins are numbered by the time they carry (`ExpiresAtUtc`, `LoggedAt`), drawn
before the row is saved, so that rows are saved in any order. Codes expire in that order,
as all live 30 minutes. A confirmation is `ConfirmEmail` (the checks), `DeleteCodes` and
`MarkConfirmed`; a log-in is `LogIn` (the password and the confirmation), `UserLoggedIn` and
`IssueToken`, which looks up the *latest* log-in of the user for the token. `token` remembers
both log-ins of each access token: its own and the one it names. `DeleteUser` removes codes and
log-ins with their account (the cascades of `AuthorizationContext`) in one transaction. An
account that was deleted does not come back under its identifier.

In `Visits` a visitor is a request of the service with one of the tokens issued.
`AskLogin` reads the log-ins of the Authorization service at that time, which throws where
the log-in is gone. Deleting an account removes nothing from the copies and revokes no
token, as in the code. The instance stands for the Catalog as well as for the Transaction
service: their `UserDataManager`s differ in the location of a log-in only.

## The runs

| Run | Instance | Shows |
|---|---|---|
| `retries` | 2 requests, 1 registration, 3 tokens, 2 rows, 2 users | `TypeOK`, a loan is between the right people (`PartiesOfALoan`) and announced only when saved (`AnnouncedIsSaved`); it and its tokens account for one another (`TokensAccountForLoans`, `LoansAdvanceByTokens`); holders, open registrations of a user and rows of an object are at most as many as requests run at the same time (`HoldersAreBounded`, `OpenRegistrationsAreBounded`, `RowsAreBounded`) |
| `serial` | 1 request at a time, a lent and a free object, 2 registrations, 2 tokens, 2 rows | `SingleHolder`, `OneOpenRegistration`, `OneRowPerObject`, `FreeObjectsAreRegisteredAtHome`, `ImplementsCustody` |
| `delivery` | 3 events of 2 kinds, first deployment, 2 throws, 2 restarts | `AcksWhatItHandled`, `ImplementsDelivery`, `EveryEventLeaves` |
| `catalog_follows` | 1 registration, 2 tokens, one failure of each kind, first deployment, nothing seeded | `CatalogNeverAhead`, `CatalogOnlyAdvances`; no event is published before its queue is bound (`PublishedIsRouted`); the bus implements `Delivery` in the composition, too (`DeliveredInOrder`) |
| `catalog_catches_up` | 1 user, 2 registrations, 2 tokens, first deployment, no failures | `CatalogCatchesUp`; at rest the catalog agrees with the Transaction service (`CatalogAgrees`) and offers what is at its owner (`ListedIsAtOwner`) |
| `catalog_objects` | 2 requests, 2 users with a log-in each, 1 object, 2 rows of likes, comments, photos and views, 2 tags of 1 name | `TypeOK`; every row has its user (`RowsHaveTheirUser`); two likes and two tags of one name are the worst (`LikesAreBounded`, `OkTagsAreBounded`), and two likes stay (`DoubleLikeStays`); what is announced deleted is (`AnnouncedIsDeleted`), and a deleted object settles (`DeletedObjectsSettle`) |
| `visits` | 1 account, 2 requests and 2 visitors, 2 codes, 2 log-ins, 1 death | `TypeOK`; `TokenIsNotOlder`, `CodesAreUsedOnce`, `NothingOutlivesItsAccount`, `ConfirmedGetsNoCodes`, `CopiesAgree`; a user who goes on is confirmed (`ConfirmationRecovers`) and let in (`CallersAreLetIn`) |

The passing runs let the query of `GenerateReturnToken` run (`ReturnPathResolves = TRUE`), so
that whole loans are checked. The following runs are of the code as committed. Each finds a
behaviour that contradicts what the repository says of it.

| Run | Property | What happens |
|---|---|---|
| `two_holders` | `SingleHolder` | two scans pass the check of `CreateReceivingCommandHandler.cs:133` before either saves |
| `never_closed` | `LoansAreClosed` | a recipient who asks for a returning code again and again never gets one (`GenerateReturnTokenCommandHandler.cs:41`), and the loan is never closed, though the documentation of the call promises the code |
| `poison` | `EveryEventLeaves` | an exception skips the `BasicAck` that "even on exception" takes the message off the queue (`EventBusRabbitMq.cs:192`) |
| `catalog_falls_behind` | `ListedIsAtOwner` | after a restart, an event is acknowledged before its handler is registered; the catalog then offers an object that is out |
| `owner_gives` | `OwnerGives` | the owner stored with an object is the user who registered it first (`RemoteObjectGetter.cs:50`) |

`OneOpenRegistration` and `OneRowPerObject` are lost in the same way as `SingleHolder`
when two requests overlap, and for the same reason; no run repeats it. How much can be lost
is bounded: that is what the three bounds of `retries` are about.

`never_closed` differs from an instance in which `LoansAreClosed` holds by its
`ReturnPathResolves` alone: with `TRUE`, TLC goes through its 110157 states, over codes that
go stale, requests that die and registrations that expire under the loan, and finds each loan
closed. The path of the query is all that stands in the way.

**Bounds.** Two requests are the smallest number that overlap, and every check that can be
overtaken is overtaken by one other request. One registration is what tokens, scans and a
cancellation compete for in `retries`; three tokens give two receiving tokens and a returning
one, or the reverse. Two registrations of one object are what `SingleHolder` and
`OneOpenRegistration` compare in `serial`; two rows are what two first registrations would
insert. With two tokens one loan is closed or two are begun; a second hand-over after a
return is left to the theorems, which do without the bounds. In the composition one
registration takes all four events through the bus; two of them share the context in
`catalog_catches_up`. Three tokens in `never_closed` are the receiving one and what two
returning ones would need, one of them stale. In `catalog_objects` two rows are two likes of one user on one object;
`LikesAreBounded` and `OkTagsAreBounded` have the number of request slots as their bound and
are proved for any number of them; so are `HoldersAreBounded`, `OpenRegistrationsAreBounded`
and `RowsAreBounded`, for which `retries`, with its one registration, has two requests past
the check at once and one beside what another has saved; two saves it has only of rows. In `visits` two codes are an earlier and a later one, two
log-ins may overlap, and one request may die at any point of either service; accounts do not
interact, so one is enough, and `TokenIsNotOlder` and `CopiesAgree` (which are about whose a
log-in is) are proved for any number of them.

Users, registrations, rows, tokens and requests are symmetric in
`Transactions`; `MCStreetOfThings` keeps only registrations, tokens and requests
symmetric, `MCCatalogObjects` entries, tags and requests; `never_closed`,
`catalog_catches_up` and `visits`, which check liveness, use no symmetry. Deadlock is not checked: an instance stops when its
identifiers are used up.

**Fairness.** `FairSpec` of `Transactions`, which only `LoansAreClosed` is about, is mostly
about people: the recipient asks for a returning code again while there is no valid one, the
owner scans it, and neither the code nor the scan fails to be saved each time. These four are
strong, because requests come and go and codes become stale; that a request ends, by an answer
or by its death, is weak fairness. A cancelled registration and the last token of the instance
are ways out. The safety runs use `Spec`, without fairness.

The consumer of `EventBus` is weakly fair: its threads
run, and the host starts it again after a crash. `FairSystemSpec` of `StreetOfThings` adds that a
request which has begun goes on: each of its steps is a call that returns. No user is
obliged to start a request, and no failure is fair. Events published by overlapping
requests may reach the bus in another order than that of their saves (an update before its
row is dropped), which is why `CatalogCatchesUp` is about requests that do not overlap.

`FairVisitSpec` has the same weak fairness for the requests of both services (`Continue`,
`ContinueVisit`). Its two strong fairness conditions are not about the code but about the
people who use it: one who is not confirmed enters a code that is valid, or asks for another
one, again and again, and one whose call failed calls again. Strong, because all request slots
of the instance may be busy now and then. `MaxDeaths` bounds the deaths: no retry succeeds
against a service that dies each time. That a user who does not give up succeeds is what
`ConfirmationRecovers` and `CallersAreLetIn` say, with the ways out their comments name: the
account is deleted, or the codes of the instance are used up.

## The proofs

They hold for every value of the constants that satisfies the assumption of the module
(`NoRow` and the like are no rows; what is counted is finite; bounds are natural numbers).

### The commands

`TransactionsAssumption`: lent objects are objects; `NoRow` is neither a row nor a
registration; what is seeded are rows, at most one of an object. `FiniteAssumption`, which
only the bounds use: rows, registrations and request slots are finitely many, and there is a
slot. The theorems marked *serial* assume besides that requests do not
overlap (`Serial`: there is at most one request slot), those marked *as committed* that the
query of `GenerateReturnToken` throws (`~ReturnPathResolves`).

| Theorem | States |
|---|---|
| `TypeCorrect` | `Spec => []TypeOK` |
| `TokensAccount` | `Spec => []TokensAccountForLoans` |
| `PartiesAgree` | `Spec => []PartiesOfALoan` |
| `AnnouncementsHold` | `Spec => []AnnouncedIsSaved` |
| `Invariance` | `Spec => []IInv`, from which the others follow |
| `LoansAdvanceOnce` | `Spec => LoansAdvanceByTokens` |
| `AsCommitted` (*as committed*) | `Spec => []NothingReturned`: no returning, no returning token, nobody about to save one |
| `LoansNeverClose` (*as committed*) | `Spec => LoansStayOpen` |
| `HoldersStayBounded` | `Spec => []HoldersAreBounded` |
| `OpenRegistrationsStayBounded` | `Spec => []OpenRegistrationsAreBounded` |
| `RowsStayBounded` | `Spec => []RowsAreBounded` |
| `SerialInvariance` (*serial*) | `Spec => []SInv`, from which the next five follow |
| `SerialSingleHolder` | `Spec => []SingleHolder` |
| `SerialOneOpenRegistration` | `Spec => []OneOpenRegistration` |
| `SerialOneRowPerObject` | `Spec => []OneRowPerObject` |
| `SerialFreeObjects` | `Spec => FreeObjectsAreRegisteredAtHome` |
| `SerialImplementsCustody` | `Spec => ImplementsCustody` |

None of the three safety invariants is inductive: whether `SaveReceiving` may write
depends on what the request read some steps ago. `IInv` adds how the tables refer to one
another (`RowsKnown`, `TokensKnown`) and what each request in flight may still rely on
(`RequestsKnow`: a token it scanned is there, of its type, and for an object of the user; an
event it is going to publish is saved). What a request has read stays true because the
tables only grow (`Grows`: rows are never removed, and the columns relied on never change;
lemma `NextGrows`). Each conjunct has a lemma of its own with one step per action;
`NextIInv` puts them together.

The action properties follow from `IInv` and `Grows`: a row of `ObjectReceivings` or
`ObjectReturnings` appears only in `SaveReceiving` or `SaveReturning`, which mark a token in
the same transaction, and `TokensAccountForLoans` tells that it was not marked before.
`LoansStayOpen` (what was handed over is never recorded as given back) is about the code as
committed. That no returning is recorded is not inductive; `NothingReturned` adds that there
is no returning token and no request about to save one. `ReturningTokensAreAskedFor` says that
only `GenerateReturnToken` leads to one, and it throws; and a returning without a returning
token that is used up would contradict `LoansAdvance`. TLC checked `LoansStayOpen` on two
registrations and three tokens before it was proved. No run repeats it: `never_closed` says what
it means to the user.

The three bounds say how far overlapping requests can go, for any number of them: *n*
requests at a time leave an object with at most *n* recipients, a user with at most *n* open
registrations of it, and the object with at most *n* rows. The rows alone would not be
inductive. Counted with them are the requests that have passed the check and not saved
(`HandingOver`, `Registering`, `Adding`). A request joins them only where its check finds no
row (`WhereRequestsGo`), so that then there are at most as many as slots; a save moves one of
them to the rows; nothing else adds to either (`HolderSteps`, `OpenRegistrationSteps`,
`RowSteps`). `BoundStays` of `Counting` concludes for all of them, as for likes and tags.

When requests do not overlap, the reason is another one: `Checked(q)` says that what request
`q` has checked is still so at its save. Nothing else runs in between (`CheckedNext`), so
`SInv`, which adds `Checked` and the properties themselves to `IInv`, is inductive. The runs
`two_holders` and `serial` show both sides of the assumption. The refinement maps a
hand-over to `TakeOut`, a return to `GiveBack` and every other step to a stutter; with
`SingleHolder` there is one registration for the `CHOOSE` in `Holder` to find
(`HolderOf`).

### The bus and the catalog

| Theorem | States |
|---|---|
| `AcksOnlyHandled` | the bus: `Spec => []AcksWhatItHandled` |
| `BusImplementsDelivery` | the bus: `Spec => ImplementsDelivery` |
| `SystemImplementsTransactions` | `SystemSpec => Spec` |
| `SystemInvariance` | `SystemSpec => []SystemInv` |
| `CatalogStaysBehind` | `SystemSpec => []CatalogNeverAhead` |
| `CatalogAdvances` | `SystemSpec => CatalogOnlyAdvances` |
| `SystemDeliversInOrder` | `SystemSpec => DeliveredInOrder` |
| `SystemImplementsCustody` (*serial*) | `SystemSpec => ImplementsCustody` |
| `EventsAreRouted` (`Deployed` or `NothingSeeded`) | `SystemSpec => []PublishedIsRouted` |
| `UndisturbedInvariance` (*undisturbed*) | `SystemSpec => [](Dormant \/ UInv)`, from which the next two follow |
| `CatalogAgreesUndisturbed` | `SystemSpec => []CatalogAgrees` |
| `ListedIsHome` | `SystemSpec => []ListedIsAtOwner` |

The composition changes the tables of the Transaction service only by steps of
`Transactions`, so whatever is proved of `Transactions` holds in it. That the catalog is
never ahead goes along the way of an event: it is published only when saved
(`AnnouncedIsSaved`), the queue carries only what was published (`BusCarriesAnnounced`), the
handler is run with the head of the queue (`HandlesHead`), and the catalog's rows *and* its
context hold only what was announced (`CatalogAnnounced`). That its rows are never taken
back rests on `ContextAhead`: an entity the context tracks is at least as far as the row in
the table, or the context cannot write at all, whatever a failed save has left in it.

The refinement of `Delivery` maps the return of a handler, or the discovery that there is
none, to `Process`, an exception or a restart to `Redeliver`, the acknowledgement to
`Discard`; what `Discard` demands is that the message at hand is the head of the queue
(`HandlesHead`). `Delivery` says nothing of messages that no binding routes to the queue, and
an event without a handler counts as processed: that is what the code does.

`PublishedIsRouted` is about what is lost before the queue is bound. A command comes to
publish only when an object is in the tables or known to a request (`ObjectsAreKnown`). The
service learns of the first one from the catalog, which answers only when it is up, and then all kinds are bound; bindings
are never removed (`UpIsRouted`, `Routed`). So nothing is lost, unless the service knows an
object from the start: the theorem assumes that the queue has been bound before or that nothing
is seeded.

*Undisturbed* is what the last three theorems assume, each part because the catalog does not
agree without it (TLC violates `CatalogAgrees` on one registration and two users when any one
part is given up):

* requests do not overlap (`Serial`): those of two requests are published in another order
  than they are saved, and an update before its row is dropped;
* the queue has been bound before (`Deployed`) or no object is seeded (`NothingSeeded`): the
  events of a loan of a seeded object, published before the first start of the catalog, go
  nowhere (`EventBusRabbitMq.cs:103`), and the catalog offers an object that is out;
* no request dies (`MaxDeaths = 0`): between the save of a registration and its publication
  (`CreateRegistrationCommandHandler.cs:168`) the event is lost; the recipient refreshes the
  token, the owner scans it, and the catalog drops the hand-over, for which it has no row;
* the catalog does not restart (`MaxRestarts = 0`): events that come before their handler is
  subscribed are acknowledged (the run `catalog_falls_behind`);
* no save of the catalog is refused (`MaxRefusals = 0`), and no call of a user copies the user
  a handler is about to add (`Visitors = {}`): either leaves in the shared context what makes
  later saves fail.

Calls of the Authorization service may throw any number of times (`MaxThrows`): they happen
before the context is touched, and the event is delivered again. The invariant `UInv` follows
an event backwards: what is saved is shown in the catalog, or its event is on the queue or
about to be published (`NothingIsLost`); what has been handled and not yet acknowledged is
shown (`HandledIsShown`), so that the acknowledgement loses nothing; an update on the queue
has its registration's event before it, or the row is there (`InOrder`), so that no handler
drops it; and the context holds nothing that is not in the table (`ContextIsWritten`).
`Dormant` is the time before the catalog is up for the first time, in which nothing is known
and nothing published. `UInv` was model-checked as an invariant before it was proved. That the catalog comes to rest
at all is liveness, and stays with `CatalogCatchesUp`.

### The objects of the catalog

| Theorem | States |
|---|---|
| `TypeCorrect`, `Invariance` | `Spec => []TypeOK`, `Spec => []IInv` |
| `RowsAreOfUsers` | `Spec => []RowsHaveTheirUser` |
| `AnnouncementsHold` | `Spec => []AnnouncedIsDeleted` |
| `LikesStayBounded`, `OkTagsStayBounded` | `Spec => []LikesAreBounded`, `Spec => []OkTagsAreBounded` |
| `SerialSingleLikes`, `SerialSingleOkTags` (*serial*) | `Spec => []SingleLikes`, `Spec => []SingleOkTags`: one like, one Ok tag |
| `DoubleLikesStay`, `DeletedObjectsStaySettled` | `Spec => DoubleLikeStays`, `Spec => DeletedObjectsSettle` |

`IInv` adds what a request in flight knows: its user is in the copy, or will be, under the
log-in of the access token; the object it is going to delete, or to announce, is there. The
bounds on likes and tags count the requests between check and save together with the rows
that are saved: a check passes only where there is no row, and then there are at most as many
of those requests as slots; a save moves one from the requests to the rows (`LikeSteps`,
`TagSteps`, and `BoundStays` of `Counting`). With one slot the bound is one.

### Accounts and visits

| Theorem | States |
|---|---|
| `TypeCorrect`, `Invariance` | `Spec => []TypeOK`, `Spec => []IInv` |
| `TokensAreNotOlder` | `Spec => []TokenIsNotOlder` |
| `CodesUsedOnce` | `Spec => []CodesAreUsedOnce` |
| `NothingOutlives` | `Spec => []NothingOutlivesItsAccount` |
| `NoCodesAfterConfirmation` | `Spec => ConfirmedGetsNoCodes` |
| `VisitInvariance`, `CopiesAlwaysAgree` | `VisitSpec => []VInv`, `VisitSpec => []CopiesAgree` |
| `VisitTypeCorrect`, `VisitTokensAreNotOlder`, `VisitCodesUsedOnce`, `VisitNothingOutlives`, `VisitNoCodesAfterConfirmation` | the same of `VisitSpec`, which the run checks |

`IInv` adds that a number is drawn once: every code and every log-in in a table, in a request
or in a token has been drawn (`Drawn`), no two requests save the same one (`DrawnOnce`), and a
request knows whose it is (`RequestsKnow`). Hence what was deleted does not come back, which is
what a code used twice, or a token that names somebody else's log-in, would need. `VInv` adds
for the service that the log-in a visitor is about to save is one its user's token names
(`Known`). The service changes nothing of the Authorization service but the count of deaths
(`VisitsLeaveAccounts`), so that what is proved of `Accounts` is carried over.

Model-checked only: liveness (`EveryEventLeaves`, `CatalogCatchesUp`, `ConfirmationRecovers`,
`CallersAreLetIn`; `LoansAreClosed`, which the code violates), which is out of the reach of the prover. All other properties of the
passing runs are proved.

## Not modelled

* Queries, statistics, the duration of a loan and lateness; gateways; files: they change none
  of the state above, and the comparison of durations is arithmetic without a life cycle.
* Impressions: rows that are inserted when a list is shown and that nothing depends on.
* Passwords, roles and lockout (ASP.NET Identity), the token endpoint (IdentityServer),
  profile photos, the lists for administrators.
* The event log (`EventLog.DataAccessLayer`): no service saves an event in it, so there is no
  behaviour to check; a model of how it would be used would be a model of other code.
* The result of a cancellation: `CancelRegistrationCommandHandler.cs:76` returns `default`,
  a null result, after the event is published; the cancellation itself is as modelled.
* In `Transactions`, how a request gets its user: `Visits` has it, and a request that gets no
  user is refused. The two are not composed, because what a command does depends on its
  user only and not on when the user was copied.
* What the Transaction service does with an object that the catalog has deleted: nothing
  tells it (the event has no subscriber), and an object it knows is never asked of the
  catalog again; it can still be registered.
* Of the data the databases are seeded with, `Seeded` has the objects; the two registrations
  seeded with them, and the seeds of the other services, are left out.
* Cancellation and expiry never free a registration for its own user: `Available` counts a
  cancelled or expired registration that was not received, as the code does.
* JavaScript: see the beginning.

## Plan

1. *Done*: `Custody`, `Transactions`, `EventBus`, `CatalogTransactions`, `StreetOfThings`; every
   safety and action property of theirs that holds is proved, and the refinements of `Custody`
   and `Delivery`.
2. *Done*: `UserCopies`, `CatalogObjects`, `Accounts`, `Visits`; the same.
3. Left: the duration of a loan, lateness and return status as pure operators against a
   reference; the lockout of a log-in, once it is the code's own; a larger instance of
   `catalog_catches_up` with overlapping requests, should publication be ordered.
