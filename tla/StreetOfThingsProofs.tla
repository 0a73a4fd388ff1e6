------------------------ MODULE StreetOfThingsProofs ------------------------
(***************************************************************************)
(* Theorems about the Transaction service, the bus and the catalog         *)
(* together, for every number of users, objects, registrations, requests   *)
(* and failures.                                                           *)
(*                                                                         *)
(* The argument follows an event: it is published when what it announces   *)
(* is saved (AnnouncedIsSaved, an invariant of Transactions, which the     *)
(* composition implements), the bus carries published events only, and     *)
(* the catalog's tables and the context of its handlers show only what     *)
(* was announced.  That no row goes back needs more: what the context      *)
(* holds of a row is at least what the table has, or the context can write *)
(* nothing any more (ContextAhead).                                        *)
(*                                                                         *)
(* Where requests do not overlap and nothing fails, the catalog also has   *)
(* everything: what is saved is shown, or its event is on the queue, or    *)
(* about to be published (NothingIsLost), with the event of the            *)
(* registration before it (InOrder).                                       *)
(***************************************************************************)
EXTENDS StreetOfThings, TransactionsChecksProofs, SequenceTheorems

Announced(kind, r) == [kind |-> kind, registration |-> r] \in published

\* What entity x shows of transaction r was announced.
ShowsAnnounced(x, r) ==
    x # NoRow =>
        /\ Announced("NewRegistration", r)
        /\ x.received => Announced("Received", r)
        /\ x.returned => Announced("Returned", r)
        /\ x.status = "Cancelled" => Announced("Cancelled", r)

Ahead(x, y) ==
    /\ y.received => x.received
    /\ y.returned => x.returned
    /\ y.status = "Cancelled" => x.status = "Cancelled"

Entities == [Registrations -> K!Transaction \cup {NoRow}]

CatalogTyped ==
    /\ row \in Entities /\ tracked \in Entities
    /\ added \subseteq Registrations

\* Inserts that the database refuses, and every save of the context with them.
Blocks(inserts) == \E s \in inserts : row[s] # NoRow

KeepsUp(entities, inserts) ==
    \A r \in Registrations :
        entities[r] # NoRow /\ row[r] # NoRow => Ahead(entities[r], row[r]) \/ Blocks(inserts)

BusCarriesAnnounced ==
    /\ queue \in Seq(published)
    /\ handling \in published \cup {NoEvent}

\* What is to be acknowledged is being processed, and what is processed is the head of
\* the queue.
HandlesHead ==
    /\ handled \in BOOLEAN
    /\ handled => handling # NoEvent
    /\ handling # NoEvent => queue # <<>> /\ handling = Head(queue)

CatalogAnnounced ==
    \A r \in Registrations : ShowsAnnounced(row[r], r) /\ ShowsAnnounced(tracked[r], r)

ContextAhead == KeepsUp(tracked, added)

CatalogInv == CatalogTyped /\ CatalogAnnounced /\ ContextAhead

SystemInv == IInv /\ BusCarriesAnnounced /\ HandlesHead /\ CatalogInv

\* No row of the catalog goes back.
RowsAdvance ==
    \A r \in Registrations : row[r] # NoRow => row'[r] # NoRow /\ Ahead(row'[r], row[r])

-----------------------------------------------------------------------------
\* The composition implements the Transaction service.
LEMMA ServiceSteps ==
    ASSUME [SystemNext]_system
    PROVE  [Next]_vars
<1>1. CASE UNCHANGED system
    BY <1>1 DEF system, transactions, vars, tables, clock
<1>2. ASSUME NEW q \in Requests, Serve(q) \/ AskCatalog(q) \/ PublishToBus(q) \/ Die(q)
      PROVE  Next
    BY <1>2 DEF Serve, AskCatalog, PublishToBus, Die, Next, Request, Continue
<1>3. CASE Pass
    BY <1>3 DEF Pass, Next
<1>4. ASSUME NEW e \in Events, HandleEvent(e) \/ AskUser(e) \/ AddUser(e) PROVE UNCHANGED vars
    BY <1>4 DEF HandleEvent, AskUser, AddUser, B!HandleEvent, B!RecreateChannel, transactions,
                vars, tables, clock
<1>5. CASE (\E u \in Visitors : Visit(u)) \/ UserNotFound \/ Dispatch \/ RestartCatalog
    BY <1>5 DEF Visit, UserNotFound, Dispatch, RestartCatalog, B!CallbackException,
                B!RecreateChannel, B!Dispatch, B!QueueBind, B!AddSubscription, B!Deliver,
                B!NoSubscription, B!BasicAck, B!Restart, transactions, vars, tables, clock
<1> QED
    BY <1>1, <1>2, <1>3, <1>4, <1>5 DEF SystemNext, Consume

\* Nothing is taken back that was announced.
LEMMA PublishedGrows ==
    ASSUME [SystemNext]_system
    PROVE  published \subseteq published'
<1>1. ASSUME NEW q \in Requests, NEW u \in Users, NEW o \in Objects,
             CreateRegistration(q, u, o) \/ RefreshRegistrationToken(q, u, o)
      PROVE  UNCHANGED published
    BY <1>1 DEF CreateRegistration, RefreshRegistrationToken
<1>2. ASSUME NEW q \in Requests, NEW u \in Users, NEW t \in Tokens,
             CreateReceiving(q, u, t) \/ CreateReturning(q, u, t)
      PROVE  UNCHANGED published
    BY <1>2 DEF CreateReceiving, CreateReturning
<1>3. ASSUME NEW q \in Requests, NEW u \in Users, NEW r \in Registrations,
             GenerateReturnToken(q, u, r) \/ CancelRegistration(q, u, r)
      PROVE  UNCHANGED published
    BY <1>3 DEF GenerateReturnToken, CancelRegistration
<1>4. ASSUME NEW q \in Requests, FetchObject(q) \/ SaveObject(q) \/ CheckRegistration(q)
                                 \/ SaveRegistration(q) \/ GenerateToken(q)
      PROVE  UNCHANGED published
    BY <1>4 DEF FetchObject, SaveObject, CheckRegistration, SaveRegistration, GenerateToken
<1>5. ASSUME NEW q \in Requests, SaveReceiving(q) \/ SaveReturning(q) \/ SaveCancel(q) \/ Fail(q)
      PROVE  UNCHANGED published
    BY <1>5 DEF SaveReceiving, SaveReturning, SaveCancel, Fail
<1>6. CASE UNCHANGED vars \/ Tick
    BY <1>6 DEF vars, Tick, RegistrationExpires, TokenGoesStale
<1>7. ASSUME NEW q \in Requests, Publish(q) PROVE published \subseteq published'
    BY <1>7 DEF Publish
<1> QED
    BY <1>1, <1>2, <1>3, <1>4, <1>5, <1>6, <1>7, ServiceSteps DEF Next, Request, Continue

\* A queue of announced events is one after more were announced.
LEMMA QueueStays ==
    ASSUME NEW S, NEW S1, S \subseteq S1, NEW s \in Seq(S)
    PROVE  s \in Seq(S1)
OBVIOUS

LEMMA AppendToQueue ==
    ASSUME queue \in Seq(published), NEW e
    PROVE  /\ Len(Append(queue, e)) = Len(queue) + 1
           /\ Append(queue, e)[Len(queue) + 1] = e
           /\ \A i \in 1..Len(queue) : Append(queue, e)[i] = queue[i]
           /\ queue # <<>> => Head(Append(queue, e)) = Head(queue)
           /\ Append(queue, e) # <<>>
OBVIOUS

LEMMA TailOfQueue ==
    ASSUME queue \in Seq(published), queue # <<>>
    PROVE  /\ Head(queue) = queue[1] /\ Len(queue) \in Nat /\ Len(queue) >= 1
           /\ Len(Tail(queue)) = Len(queue) - 1
           /\ \A i \in 1..(Len(queue) - 1) : Tail(queue)[i] = queue[i + 1]
BY HeadTailProperties

\* What the steps of the system do to the messages.
LEMMA BusSteps ==
    ASSUME handled \in BOOLEAN, [SystemNext]_system
    PROVE  \/ UNCHANGED <<queue, handling, handled>>
           \/ \E q \in Requests : PublishToBus(q)
           \/ handling # NoEvent /\ handled' = TRUE /\ UNCHANGED <<queue, handling>>
           \/ handling' = NoEvent /\ handled' = FALSE /\ UNCHANGED queue
           \/ B!BasicAck \/ B!Deliver
<1>1. CASE UNCHANGED system
    BY <1>1 DEF system, bus
<1>2. ASSUME NEW q \in Requests, Serve(q) \/ AskCatalog(q) \/ Die(q)
      PROVE  UNCHANGED <<queue, handling, handled>>
    BY <1>2 DEF Serve, AskCatalog, Die, bus
<1>3. ASSUME NEW e \in Events, HandleEvent(e) \/ AskUser(e) \/ AddUser(e)
      PROVE  \/ UNCHANGED <<queue, handling, handled>>
             \/ handling # NoEvent /\ handled' = TRUE /\ UNCHANGED <<queue, handling>>
             \/ handling' = NoEvent /\ handled' = FALSE /\ UNCHANGED queue
    BY <1>3, StreetOfThingsAssumption
    DEF HandleEvent, AskUser, AddUser, B!HandleEvent, B!Processing, B!RecreateChannel, B!broker,
        bus
<1>4. CASE Pass \/ \E u \in Visitors : Visit(u)
    BY <1>4 DEF Pass, Visit, bus
<1>5. CASE UserNotFound \/ RestartCatalog
    BY <1>5 DEF UserNotFound, RestartCatalog, B!CallbackException, B!RecreateChannel, B!Restart,
                B!broker
<1>6. ASSUME NEW e \in Events, B!NoSubscription(e)
      PROVE  handling # NoEvent /\ handled' = TRUE /\ UNCHANGED <<queue, handling>>
    BY <1>6, StreetOfThingsAssumption DEF B!NoSubscription, B!Processing, B!broker
<1>7. CASE B!QueueBind \/ B!AddSubscription
    BY <1>7 DEF B!QueueBind, B!AddSubscription, B!broker, B!consumer
<1>8. CASE Dispatch
    BY <1>6, <1>7, <1>8 DEF Dispatch, B!Dispatch
<1> QED
    BY <1>1, <1>2, <1>3, <1>4, <1>5, <1>8 DEF SystemNext, Consume

LEMMA BusNext ==
    ASSUME SystemInv, [SystemNext]_system
    PROVE  BusCarriesAnnounced' /\ HandlesHead'
<1>1. /\ published \subseteq published' /\ queue \in Seq(published)
      /\ queue \in Seq(published') /\ handling \in published' \cup {NoEvent}
    BY PublishedGrows, QueueStays DEF SystemInv, BusCarriesAnnounced
<1>2. HandlesHead /\ handled \in BOOLEAN
    BY DEF SystemInv, HandlesHead
<1>3. CASE UNCHANGED <<queue, handling, handled>>
    BY <1>1, <1>2, <1>3 DEF BusCarriesAnnounced, HandlesHead
<1>4. ASSUME NEW q \in Requests, PublishToBus(q) PROVE BusCarriesAnnounced' /\ HandlesHead'
  <2>1. req[q].event \in published'
      BY <1>4 DEF PublishToBus, Publish
  <2>2. queue' = queue \/ queue' = Append(queue, req[q].event)
      BY <1>4 DEF PublishToBus, B!Publish
  <2>3. /\ queue' \in Seq(published')
        /\ queue # <<>> => queue' # <<>> /\ Head(queue') = Head(queue)
      BY <1>1, <2>1, <2>2, AppendToQueue
  <2> QED
      BY <1>1, <1>2, <1>4, <2>3
      DEF PublishToBus, B!Publish, B!consumer, BusCarriesAnnounced, HandlesHead
<1>5. CASE handling # NoEvent /\ handled' = TRUE /\ UNCHANGED <<queue, handling>>
    BY <1>1, <1>2, <1>5 DEF BusCarriesAnnounced, HandlesHead
<1>6. CASE handling' = NoEvent /\ handled' = FALSE /\ UNCHANGED queue
    BY <1>1, <1>6 DEF BusCarriesAnnounced, HandlesHead
<1>7. CASE B!BasicAck
  <2>1. queue # <<>>
      BY <1>2, <1>7 DEF B!BasicAck, HandlesHead
  <2>2. queue' \in Seq(published')
      BY <1>1, <1>7, <2>1 DEF B!BasicAck
  <2> QED
      BY <1>7, <2>2 DEF B!BasicAck, BusCarriesAnnounced, HandlesHead
<1>8. CASE B!Deliver
  <2>1. handling' \in published' /\ queue # <<>>
      BY <1>1, <1>8 DEF B!Deliver
  <2> QED
      BY <1>1, <1>8, <2>1 DEF B!Deliver, B!broker, BusCarriesAnnounced, HandlesHead
<1> QED
    BY <1>2, <1>3, <1>4, <1>5, <1>6, <1>7, <1>8, BusSteps

-----------------------------------------------------------------------------
\* The catalog. One save of the handlers' context, whatever the database does with it.
LEMMA SaveKeeps ==
    ASSUME CatalogInv, UNCHANGED published,
           NEW entities \in Entities, NEW inserts \in SUBSET Registrations, NEW users, NEW fails,
           \A r \in Registrations : ShowsAnnounced(entities[r], r),
           KeepsUp(entities, inserts),
           K!SaveChanges(entities, inserts, users, fails)
    PROVE  CatalogInv' /\ RowsAdvance
<1> USE DEF CatalogInv
<1>1. tracked' = entities
    BY DEF K!SaveChanges
<1>2. CASE K!Writes(inserts, users, fails)
  <2>1. /\ row' = [r \in Registrations |-> IF entities[r] = NoRow THEN row[r] ELSE entities[r]]
        /\ added' = {}
      BY <1>2 DEF K!SaveChanges
  <2>2. ~Blocks(inserts)
      BY <1>2 DEF K!Writes, Blocks
  <2>3. CatalogTyped'
      BY <1>1, <2>1 DEF CatalogTyped, Entities
  <2>4. CatalogAnnounced'
      BY <1>1, <2>1 DEF CatalogAnnounced, ShowsAnnounced, Announced
  <2>5. ContextAhead'
      BY <1>1, <2>1 DEF ContextAhead, KeepsUp, Ahead
  <2>6. RowsAdvance
      BY <2>1, <2>2 DEF RowsAdvance, KeepsUp, Ahead
  <2> QED
      BY <2>3, <2>4, <2>5, <2>6
<1>3. CASE ~K!Writes(inserts, users, fails)
  <2>1. UNCHANGED row /\ added' = inserts
      BY <1>3 DEF K!SaveChanges, K!tables
  <2>2. CatalogTyped'
      BY <1>1, <2>1 DEF CatalogTyped
  <2>3. CatalogAnnounced'
      BY <1>1, <2>1 DEF CatalogAnnounced, ShowsAnnounced, Announced
  <2>4. ContextAhead'
      BY <1>1, <2>1 DEF ContextAhead, KeepsUp, Ahead, Blocks
  <2>5. RowsAdvance
      BY <2>1 DEF RowsAdvance, Ahead
  <2> QED
      BY <2>2, <2>3, <2>4, <2>5
<1> QED
    BY <1>2, <1>3

LEMMA StandsStill ==
    ASSUME CatalogInv, UNCHANGED <<row, tracked, added>>, published \subseteq published'
    PROVE  CatalogInv' /\ RowsAdvance
<1>1. CatalogAnnounced'
    BY DEF CatalogInv, CatalogAnnounced, ShowsAnnounced, Announced
<1>2. CatalogTyped' /\ ContextAhead'
    BY DEF CatalogInv, CatalogTyped, ContextAhead, KeepsUp, Ahead, Blocks
<1> QED
    BY <1>1, <1>2 DEF CatalogInv, RowsAdvance, Ahead

\* The handler finds an entity that is at least what the table has.
LEMMA UpdateKeeps ==
    ASSUME CatalogInv, UNCHANGED published, NEW r \in Registrations, NEW x, NEW fails,
           row[r] # NoRow => x \in K!Transaction /\ Ahead(x, K!Found(r)) /\ ShowsAnnounced(x, r),
           K!Update(r, x, fails)
    PROVE  CatalogInv' /\ RowsAdvance
<1> USE DEF CatalogInv
<1>1. CASE row[r] = NoRow
    BY <1>1, StandsStill DEF K!Update, K!tables
<1>2. CASE row[r] # NoRow
  <2> DEFINE entities == [tracked EXCEPT ![r] = x]
  <2>1. entities \in Entities /\ entities[r] = x
      BY <1>2 DEF CatalogTyped, Entities
  <2>2. \A s \in Registrations \ {r} : entities[s] = tracked[s]
      BY DEF CatalogTyped, Entities
  <2>3. K!SaveChanges(entities, added, addedUsers, fails)
      BY <1>2 DEF K!Update
  <2>4. Ahead(x, row[r]) \/ Blocks(added)
      BY <1>2 DEF K!Found, ContextAhead, KeepsUp, Ahead
  <2>5. KeepsUp(entities, added)
      BY <2>1, <2>2, <2>4 DEF ContextAhead, KeepsUp
  <2>6. \A s \in Registrations : ShowsAnnounced(entities[s], s)
      BY <1>2, <2>1, <2>2 DEF CatalogAnnounced
  <2>7. added \in SUBSET Registrations
      BY DEF CatalogTyped
  <2> HIDE DEF entities
  <2> QED
      BY <2>1, <2>3, <2>5, <2>6, <2>7, SaveKeeps
<1> QED
    BY <1>1, <1>2

\* What the query of a handler returns of a row that is there.
LEMMA FoundFields ==
    ASSUME CatalogInv, NEW r \in Registrations, row[r] # NoRow
    PROVE  /\ K!Found(r) \in K!Transaction /\ K!Found(r) # NoRow
           /\ ShowsAnnounced(K!Found(r), r)
BY DEF CatalogInv, CatalogTyped, CatalogAnnounced, Entities, K!Found

\* A transaction with one of its flags set.
LEMMA SetFields ==
    ASSUME NEW x \in K!Transaction
    PROVE  /\ [x EXCEPT !.status = "Cancelled"] \in K!Transaction
           /\ [x EXCEPT !.status = "Cancelled"].status = "Cancelled"
           /\ [x EXCEPT !.status = "Cancelled"].received = x.received
           /\ [x EXCEPT !.status = "Cancelled"].returned = x.returned
           /\ [x EXCEPT !.received = TRUE] \in K!Transaction
           /\ [x EXCEPT !.received = TRUE].received = TRUE
           /\ [x EXCEPT !.received = TRUE].returned = x.returned
           /\ [x EXCEPT !.received = TRUE].status = x.status
           /\ [x EXCEPT !.returned = TRUE] \in K!Transaction
           /\ [x EXCEPT !.returned = TRUE].returned = TRUE
           /\ [x EXCEPT !.returned = TRUE].received = x.received
           /\ [x EXCEPT !.returned = TRUE].status = x.status
BY DEF K!Transaction

LEMMA NewRegistrationKeeps ==
    ASSUME CatalogInv, UNCHANGED published, NEW r \in Registrations, NEW u, NEW fails,
           Announced("NewRegistration", r), K!NewRegistration(r, u, fails)
    PROVE  CatalogInv' /\ RowsAdvance
<1> USE DEF CatalogInv
<1>1. CASE tracked[r] # NoRow
    BY <1>1, StandsStill DEF K!NewRegistration, K!tables
<1>2. CASE tracked[r] = NoRow
  <2> DEFINE x == [received |-> FALSE, returned |-> FALSE, status |-> "Ok"]
             entities == [tracked EXCEPT ![r] = x]
             inserts == added \cup {r}
  <2>1. x \in K!Transaction /\ ShowsAnnounced(x, r)
      BY DEF K!Transaction, ShowsAnnounced
  <2>2. /\ entities \in Entities /\ entities[r] = x
        /\ \A s \in Registrations \ {r} : entities[s] = tracked[s]
      BY <2>1 DEF CatalogTyped, Entities
  <2>3. K!SaveChanges(entities, inserts, addedUsers, fails)
      BY <1>2 DEF K!NewRegistration
  <2>4. KeepsUp(entities, inserts)
      BY <2>2 DEF ContextAhead, KeepsUp, Blocks
  <2>5. \A s \in Registrations : ShowsAnnounced(entities[s], s)
      BY <2>1, <2>2 DEF CatalogAnnounced
  <2>6. inserts \in SUBSET Registrations
      BY DEF CatalogTyped
  <2> HIDE DEF entities, inserts
  <2> QED
      BY <2>2, <2>3, <2>4, <2>5, <2>6, SaveKeeps
<1> QED
    BY <1>1, <1>2

LEMMA FlagKeeps ==
    ASSUME CatalogInv, UNCHANGED published, NEW r \in Registrations, NEW fails,
           \/ Announced("Cancelled", r) /\ K!Cancelled(r, fails)
           \/ Announced("Received", r) /\ K!Received(r, fails)
           \/ Announced("Returned", r) /\ K!Returned(r, fails)
    PROVE  CatalogInv' /\ RowsAdvance
<1> DEFINE Right(x) == x \in K!Transaction /\ Ahead(x, K!Found(r)) /\ ShowsAnnounced(x, r)
           c == [K!Found(r) EXCEPT !.status = "Cancelled"]
           v == [K!Found(r) EXCEPT !.received = TRUE]
           w == [K!Found(r) EXCEPT !.returned = TRUE]
<1>1. ASSUME row[r] # NoRow
      PROVE  /\ Announced("Cancelled", r) => Right(c)
             /\ Announced("Received", r) => Right(v)
             /\ Announced("Returned", r) => Right(w)
    BY <1>1, FoundFields, SetFields DEF Ahead, ShowsAnnounced
<1>2. \/ Announced("Cancelled", r) /\ K!Update(r, c, fails)
      \/ Announced("Received", r) /\ K!Update(r, v, fails)
      \/ Announced("Returned", r) /\ K!Update(r, w, fails)
    BY DEF K!Cancelled, K!Received, K!Returned
<1> HIDE DEF c, v, w
<1> QED
    BY <1>1, <1>2, UpdateKeeps

LEMMA HandleEventKeeps ==
    ASSUME SystemInv, NEW e \in Events, HandleEvent(e)
    PROVE  CatalogInv' /\ RowsAdvance
<1>1. CatalogInv /\ UNCHANGED published
    BY DEF SystemInv, HandleEvent, B!HandleEvent
<1>2. e \in published /\ e = [kind |-> e.kind, registration |-> e.registration]
      /\ e.registration \in Registrations
    BY StreetOfThingsAssumption
    DEF SystemInv, BusCarriesAnnounced, HandleEvent, B!HandleEvent, B!Processing, Events
<1>3. Announced(e.kind, e.registration)
    BY <1>2 DEF Announced
<1>4. PICK fails \in BOOLEAN : K!Handle(e, Recipient(e), fails)
    BY DEF HandleEvent
<1>5. CASE e.kind = "NewRegistration" /\ K!NewRegistration(e.registration, Recipient(e), fails)
    BY <1>1, <1>2, <1>3, <1>5, NewRegistrationKeeps
<1>6. CASE \/ e.kind = "Cancelled" /\ K!Cancelled(e.registration, fails)
           \/ e.kind = "Received" /\ K!Received(e.registration, fails)
           \/ e.kind = "Returned" /\ K!Returned(e.registration, fails)
    BY <1>1, <1>2, <1>3, <1>6, FlagKeeps
<1> QED
    BY <1>4, <1>5, <1>6 DEF K!Handle

LEMMA AddUserKeeps ==
    ASSUME SystemInv, NEW e \in Events, AddUser(e)
    PROVE  CatalogInv' /\ RowsAdvance
<1>1. CatalogInv /\ UNCHANGED published
    BY DEF SystemInv, AddUser, B!RecreateChannel
<1>2. PICK fails \in BOOLEAN : K!AddUser(Recipient(e), fails)
    BY DEF AddUser
<1>3. CASE Recipient(e) \in addedUsers
    BY <1>1, <1>2, <1>3, StandsStill DEF K!AddUser, K!tables
<1>4. CASE Recipient(e) \notin addedUsers
  <2>1. K!SaveChanges(tracked, added, addedUsers \cup {Recipient(e)}, fails)
      BY <1>2, <1>4 DEF K!AddUser
  <2>2. /\ tracked \in Entities /\ added \in SUBSET Registrations /\ KeepsUp(tracked, added)
        /\ \A r \in Registrations : ShowsAnnounced(tracked[r], r)
      BY <1>1 DEF CatalogInv, CatalogTyped, CatalogAnnounced, ContextAhead
  <2> QED
      BY <1>1, <2>1, <2>2, SaveKeeps
<1> QED
    BY <1>3, <1>4

LEMMA CatalogNext ==
    ASSUME SystemInv, [SystemNext]_system
    PROVE  CatalogInv' /\ RowsAdvance
<1>1. CatalogInv /\ published \subseteq published'
    BY PublishedGrows DEF SystemInv
<1>2. CASE UNCHANGED catalog
    BY <1>1, <1>2, StandsStill DEF catalog
<1>3. ASSUME NEW e \in Events, HandleEvent(e) \/ AddUser(e) PROVE CatalogInv' /\ RowsAdvance
    BY <1>3, HandleEventKeeps, AddUserKeeps
<1>4. CASE (\E e \in Events : AskUser(e)) \/ UserNotFound \/ \E u \in Visitors : Visit(u)
    BY <1>1, <1>4, StandsStill
    DEF AskUser, K!AskUser, UserNotFound, K!GiveUp, Visit, K!AddCurrentUserIfNeeded, K!tables,
        K!context
<1>5. CASE RestartCatalog
  <2>1. UNCHANGED row /\ tracked' = [r \in Registrations |-> NoRow] /\ added' = {}
      BY <1>5 DEF RestartCatalog, K!Restart, K!Empty, K!tables
  <2>2. CatalogAnnounced'
      BY <1>1, <2>1 DEF CatalogInv, CatalogAnnounced, ShowsAnnounced, Announced
  <2>3. CatalogTyped' /\ ContextAhead' /\ RowsAdvance
      BY <1>1, <2>1
      DEF CatalogInv, CatalogTyped, Entities, ContextAhead, KeepsUp, RowsAdvance, Ahead
  <2> QED
      BY <2>2, <2>3 DEF CatalogInv
<1>6. CASE Pass \/ Dispatch \/ UNCHANGED system
    BY <1>2, <1>6 DEF Pass, Dispatch, system
<1>7. ASSUME NEW q \in Requests, Serve(q) \/ AskCatalog(q) \/ PublishToBus(q) \/ Die(q)
      PROVE  UNCHANGED catalog
    BY <1>7 DEF Serve, AskCatalog, PublishToBus, Die
<1> QED
    BY <1>2, <1>3, <1>4, <1>5, <1>6, <1>7 DEF SystemNext, Consume

-----------------------------------------------------------------------------
LEMMA SystemInitInv ==
    ASSUME SystemInit
    PROVE  SystemInv
<1>1. IInv
    BY InitIInv DEF SystemInit
<1>2. BusCarriesAnnounced /\ HandlesHead
  <2>1. queue = <<>> /\ handling = NoEvent /\ handled = FALSE
      BY DEF SystemInit, B!Init
  <2>2. HandlesHead
      BY <2>1, Zenon DEF HandlesHead
  <2> QED
      BY <2>1, <2>2 DEF BusCarriesAnnounced
<1>3. CatalogInv
    BY DEF SystemInit, K!Init, K!Empty, CatalogInv, CatalogTyped, Entities, CatalogAnnounced,
           ShowsAnnounced, ContextAhead, KeepsUp
<1> QED
    BY <1>1, <1>2, <1>3 DEF SystemInv

LEMMA SystemNextInv ==
    ASSUME SystemInv, [SystemNext]_system
    PROVE  SystemInv' /\ RowsAdvance
<1>1. IInv'
    BY ServiceSteps, NextIInv DEF SystemInv
<1> QED
    BY <1>1, BusNext, CatalogNext DEF SystemInv

\* Whatever requests overlap, and whatever dies, is refused or restarted, the invariant
\* holds.
THEOREM SystemInvariance == SystemSpec => []SystemInv
BY SystemInitInv, SystemNextInv, PTL DEF SystemSpec

\* The composition implements the Transaction service: what is proved of its
\* specification holds whatever the bus and the catalog do.
THEOREM SystemImplementsTransactions == SystemSpec => Spec
BY ServiceSteps, PTL DEF SystemSpec, SystemInit, Spec

\* What the catalog shows of a transaction is saved in the Transaction service.
THEOREM CatalogStaysBehind == SystemSpec => []CatalogNeverAhead
<1>1. SystemInv => CatalogNeverAhead
    BY DEF SystemInv, CatalogInv, CatalogAnnounced, ShowsAnnounced, Announced, IInv,
           AnnouncedIsSaved, Saved, CatalogNeverAhead
<1> QED
    BY <1>1, SystemInvariance, PTL

\* No row of the catalog is taken back, however often an event is delivered.
THEOREM CatalogAdvances == SystemSpec => CatalogOnlyAdvances
<1>1. ASSUME SystemInv, [SystemNext]_system
      PROVE  [\A r \in Registrations : row[r] # NoRow =>
                 /\ row'[r] # NoRow
                 /\ row[r].received => row'[r].received
                 /\ row[r].returned => row'[r].returned
                 /\ row[r].status = "Cancelled" => row'[r].status = "Cancelled"]_system
    BY <1>1, SystemNextInv DEF RowsAdvance, Ahead
<1> QED
    BY <1>1, SystemInvariance, PTL DEF SystemSpec, CatalogOnlyAdvances

\* The message whose processing is over, as Delivery has it.
Processed == IF handled THEN handling ELSE NoEvent

LEMMA DeliverySteps ==
    ASSUME SystemInv, [SystemNext]_system
    PROVE  [B!D!Next]_<<queue, Processed>>
<1>1. IInv /\ HandlesHead /\ handled \in BOOLEAN
    BY DEF SystemInv, HandlesHead
<1>2. CASE UNCHANGED <<queue, handling, handled>>
    BY <1>2 DEF Processed
<1>3. ASSUME NEW q \in Requests, PublishToBus(q) PROVE [B!D!Next]_<<queue, Processed>>
  <2>1. req[q].event \in Events
      BY <1>1, <1>3, InFlightFields DEF PublishToBus, Publish, IInv, TypeOK
  <2>2. UNCHANGED Processed
      BY <1>3 DEF PublishToBus, B!Publish, B!consumer, Processed
  <2>3. UNCHANGED queue \/ B!D!Accept(req[q].event)
      BY <1>3, <2>2 DEF PublishToBus, B!Publish, B!D!Accept, Processed
  <2> QED
      BY <2>1, <2>2, <2>3 DEF B!D!Next
<1>4. CASE handling # NoEvent /\ handled' = TRUE /\ UNCHANGED <<queue, handling>>
  <2>1. B!D!Process
      BY <1>1, <1>4 DEF B!D!Process, HandlesHead
  <2> QED
      BY <2>1 DEF B!D!Next
<1>5. CASE handling' = NoEvent /\ handled' = FALSE /\ UNCHANGED queue
  <2>1. B!D!Redeliver
      BY <1>5 DEF B!D!Redeliver
  <2> QED
      BY <2>1 DEF B!D!Next
<1>6. CASE B!BasicAck
  <2>1. queue # <<>> /\ handling = Head(queue) /\ queue' = Tail(queue) /\ handled /\ ~handled'
      BY <1>1, <1>6 DEF B!BasicAck, HandlesHead
  <2>2. B!D!Discard
      BY <2>1 DEF B!D!Discard
  <2> QED
      BY <2>2 DEF B!D!Next
<1>7. CASE B!Deliver
    BY <1>1, <1>7 DEF B!Deliver, B!broker, HandlesHead, Processed
<1> QED
    BY <1>1, <1>2, <1>3, <1>4, <1>5, <1>6, <1>7, BusSteps

\* Composed with its publishers and the catalog the bus still implements Delivery.
THEOREM SystemDeliversInOrder == SystemSpec => DeliveredInOrder
<1>1. SystemInit => B!D!Init
    BY DEF SystemInit, B!Init, B!D!Init
<1>2. SystemInv /\ [SystemNext]_system =>
          [B!D!Next]_<<queue, IF handled THEN handling ELSE NoEvent>>
    BY DeliverySteps DEF Processed
<1> QED
    BY <1>1, <1>2, SystemInvariance, PTL
    DEF SystemSpec, DeliveredInOrder, B!ImplementsDelivery, B!D!Spec

\* Requests that do not overlap lend each object to one recipient at a time, whatever the
\* bus and the catalog do.
THEOREM SystemImplementsCustody == Serial => (SystemSpec => ImplementsCustody)
BY SystemImplementsTransactions, SerialImplementsCustody

-----------------------------------------------------------------------------
(* What is published is routed: the Transaction service learns of an       *)
(* object only from a catalog that has subscribed.                         *)

NothingSeeded == \A k \in Rows : Seeded[k] = NoRow

\* An object is in the tables, or known to a request under way.
ObjectsAreKnown ==
    \/ \E k \in Rows : offered[k] # NoRow
    \/ \E q \in Requests : req[q].at \notin {"idle", "fetchObject"}

Routed ==
    /\ subscribed \in 0..4
    /\ \A i \in 1..subscribed : K!CatalogSubscriptions[i] \in bound
    /\ ObjectsAreKnown => EventKinds \subseteq bound

LEMMA AllKinds ==
    /\ B!Kinds = EventKinds
    /\ Len(K!CatalogSubscriptions) = 4
    /\ \A e \in Events : \E i \in 1..4 : K!CatalogSubscriptions[i] = e.kind
BY DEF B!Kinds, K!CatalogSubscriptions, EventKinds, Events

\* A request on anything but an unknown object finds rows, and the object they lead to.
LEMMA RowsLeadToObjects ==
    ASSUME IInv, ~ObjectsAreKnown
    PROVE  /\ \A k \in Rows : offered[k] = NoRow
           /\ \A r \in Registrations : registration[r] = NoRow
           /\ \A t \in Tokens : token[t] = NoRow
           /\ \A o \in Objects : RowsOf(o) = {}
           /\ \A q \in Requests : req[q].at \in {"idle", "fetchObject"}
<1>1. /\ \A k \in Rows : offered[k] = NoRow
      /\ \A q \in Requests : req[q].at \in {"idle", "fetchObject"}
    BY DEF ObjectsAreKnown
<1>2. \A r \in Registrations : registration[r] = NoRow
    BY <1>1, RowFields DEF IInv, RowsKnown
<1>3. \A t \in Tokens : token[t] = NoRow
    BY <1>2, RowFields DEF IInv, TokensKnown
<1>4. \A o \in Objects : RowsOf(o) = {}
    BY <1>1 DEF RowsOf
<1> QED
    BY <1>1, <1>2, <1>3, <1>4

\* Without the catalog's answer no object becomes known.
LEMMA ServeKnowsNothingNew ==
    ASSUME IInv, ~ObjectsAreKnown, NEW q \in Requests, Serve(q)
    PROVE  ~ObjectsAreKnown'
<1>1. PICK u \in Users, o \in Objects : CreateRegistration(q, u, o)
  <2>1. req[q].at \in {"idle"}
      BY RowsLeadToObjects DEF Serve
  <2>2. ~Continue(q)
      BY <2>1 DEF Continue, FetchObject, SaveObject, CheckRegistration, SaveRegistration, Publish,
                  GenerateToken, SaveReceiving, SaveReturning, SaveCancel
  <2>3. ASSUME NEW u \in Users, NEW o \in Objects PROVE ~RefreshRegistrationToken(q, u, o)
      BY RowsLeadToObjects DEF RefreshRegistrationToken
  <2>4. ASSUME NEW u \in Users, NEW t \in Tokens
        PROVE  ~CreateReceiving(q, u, t) /\ ~CreateReturning(q, u, t)
      BY RowsLeadToObjects DEF CreateReceiving, CreateReturning, Accepts
  <2>5. ASSUME NEW u \in Users, NEW r \in Registrations
        PROVE  ~GenerateReturnToken(q, u, r) /\ ~CancelRegistration(q, u, r)
      BY RowsLeadToObjects DEF GenerateReturnToken, MayReturn, CancelRegistration
  <2> QED
      BY <2>2, <2>3, <2>4, <2>5 DEF Serve, Request
<1>2. /\ UNCHANGED offered
      /\ Go(q, [at |-> "fetchObject", user |-> u, object |-> o])
    BY <1>1, RowsLeadToObjects DEF CreateRegistration, tables
<1>3. \A p \in Requests : req'[p] = req[p] \/ req'[p].at = "fetchObject"
    BY <1>2, GoMoves DEF IInv
<1> QED
    BY <1>2, <1>3, RowsLeadToObjects DEF ObjectsAreKnown

LEMMA UpIsRouted ==
    ASSUME Routed, Up
    PROVE  EventKinds \subseteq bound
BY DEF Routed, Up, K!CatalogSubscriptions, EventKinds

LEMMA RoutedNext ==
    ASSUME IInv, Routed, [SystemNext]_system
    PROVE  Routed'
<1>1. subscribed \in 0..4 /\ (Up => EventKinds \subseteq bound)
    BY UpIsRouted DEF Routed
<1>2. CASE UNCHANGED <<bound, subscribed>> /\ (ObjectsAreKnown' => ObjectsAreKnown \/ Up)
    BY <1>1, <1>2 DEF Routed
<1>3. CASE UNCHANGED system
    BY <1>2, <1>3 DEF system, bus, transactions, ObjectsAreKnown
<1>4. ASSUME NEW q \in Requests, Serve(q) PROVE Routed'
    BY <1>2, <1>4, ServeKnowsNothingNew DEF Serve, bus
<1>5. ASSUME NEW q \in Requests, AskCatalog(q) PROVE Routed'
  <2>1. PICK x : Go(q, x) /\ (x.at = "saveObject" \/ x = Idle)
      BY <1>5 DEF AskCatalog, FetchObject, Reply
  <2>2. req'[q] = x /\ \A p \in Requests : p # q => req'[p] = req[p]
      BY <2>1, GoMoves DEF IInv
  <2>3. UNCHANGED <<bound, subscribed, offered>> /\ (req'[q].at = "saveObject" => Up)
      BY <1>5 DEF AskCatalog, FetchObject, bus, tables
  <2> QED
      BY <1>2, <2>1, <2>2, <2>3 DEF ObjectsAreKnown, Idle
<1>6. ASSUME NEW q \in Requests, PublishToBus(q) PROVE Routed'
    BY <1>2, <1>6 DEF PublishToBus, Publish, B!Publish, B!consumer, ObjectsAreKnown
<1>7. ASSUME NEW q \in Requests, Die(q) PROVE Routed'
  <2>1. req'[q] = Idle /\ \A p \in Requests : p # q => req'[p] = req[p]
      BY <1>7, GoMoves DEF Die, Fail, Reply, IInv
  <2>2. UNCHANGED <<bound, subscribed, offered>>
      BY <1>7 DEF Die, Fail, bus, tables
  <2> QED
      BY <1>2, <2>1, <2>2 DEF ObjectsAreKnown, Idle
<1>8. CASE Pass
    BY <1>2, <1>8 DEF Pass, Tick, RegistrationExpires, TokenGoesStale, bus, tables, ObjectsAreKnown
<1>9. ASSUME UNCHANGED transactions, UNCHANGED <<bound, subscribed>> PROVE Routed'
    BY <1>2, <1>9 DEF transactions, ObjectsAreKnown
<1>10. ASSUME NEW e \in Events, HandleEvent(e) \/ AskUser(e) \/ AddUser(e) PROVE Routed'
    BY <1>9, <1>10 DEF HandleEvent, B!HandleEvent, AskUser, AddUser, B!RecreateChannel, B!broker,
                       bus
<1>11. CASE UserNotFound \/ \E u \in Visitors : Visit(u)
    BY <1>9, <1>11 DEF UserNotFound, B!CallbackException, B!RecreateChannel, B!broker, Visit, bus
<1>12. CASE RestartCatalog
    BY <1>12 DEF RestartCatalog, B!Restart, B!broker, transactions, Routed, ObjectsAreKnown
<1>13. CASE Dispatch
  <2>1. UNCHANGED transactions
      BY <1>13 DEF Dispatch
  <2>2. CASE B!QueueBind
      BY <2>1, <2>2 DEF B!QueueBind, B!consumer, transactions, Routed, ObjectsAreKnown
  <2>3. CASE B!AddSubscription
    <3>1. /\ subscribed' = subscribed + 1 /\ subscribed < 4 /\ UNCHANGED bound
          /\ K!CatalogSubscriptions[subscribed + 1] \in bound
        BY <2>3, AllKinds DEF B!AddSubscription, B!broker
    <3> QED
        BY <1>1, <2>1, <3>1 DEF transactions, Routed, ObjectsAreKnown
  <2>4. CASE B!Deliver \/ B!BasicAck \/ \E e \in Events : B!NoSubscription(e)
      BY <1>9, <2>1, <2>4 DEF B!Deliver, B!BasicAck, B!NoSubscription, B!broker
  <2> QED
      BY <1>13, <2>2, <2>3, <2>4 DEF Dispatch, B!Dispatch
<1> QED
    BY <1>3, <1>4, <1>5, <1>6, <1>7, <1>8, <1>10, <1>11, <1>12, <1>13 DEF SystemNext, Consume

\* No event is dropped for want of a queue, whatever dies or restarts, if the catalog has
\* been up before or no object is seeded: the service publishes about objects that a
\* catalog with all its subscriptions has answered for.
THEOREM EventsAreRouted ==
    Deployed \/ NothingSeeded => (SystemSpec => []PublishedIsRouted)
<1> SUFFICES ASSUME Deployed \/ NothingSeeded PROVE SystemSpec => []PublishedIsRouted
    OBVIOUS
<1>1. SystemInit => Routed
  <2> SUFFICES ASSUME SystemInit PROVE Routed
      OBVIOUS
  <2>1. CASE Deployed
      BY <2>1, AllKinds DEF SystemInit, B!Init, Routed, K!CatalogSubscriptions, EventKinds
  <2>2. CASE ~Deployed
      BY <2>2 DEF SystemInit, B!Init, Init, NothingSeeded, Routed, ObjectsAreKnown, Idle
  <2> QED
      BY <2>1, <2>2
<1>2. SystemInv /\ Routed /\ [SystemNext]_system => Routed'
    BY RoutedNext DEF SystemInv
<1>3. SystemInv /\ Routed => PublishedIsRouted
    BY InFlightFields DEF SystemInv, IInv, TypeOK, Routed, ObjectsAreKnown, PublishedIsRouted
<1> QED
    BY <1>1, <1>2, <1>3, SystemInvariance, PTL DEF SystemSpec

-----------------------------------------------------------------------------
(* The catalog agrees with the Transaction service when nothing disturbs  *)
(* it.  Each of the hypotheses is needed: the runs that expect a violation *)
(* and the README say what goes wrong without it.                          *)

\* Requests do not overlap; the catalog has been up before or no object is seeded; nothing
\* dies, restarts or is refused; and no user's own call adds a user that a handler is about
\* to add. Calls of the Authorization service may fail.
Undisturbed ==
    /\ Serial
    /\ Deployed \/ NothingSeeded
    /\ MaxDeaths = 0 /\ MaxRestarts = 0 /\ MaxRefusals = 0
    /\ Visitors = {}

NothingFails == deaths = 0 /\ restarts = 0 /\ refusals = 0

AllSubscribed == bound = EventKinds /\ subscribed = Len(K!CatalogSubscriptions)

\* What the handlers leave in their context is written.
ContextIsWritten ==
    /\ tracked = row /\ added = {} /\ addedUsers = {}
    /\ asked # NoRow => asked \notin known

\* The catalog shows what e announces.
Shown(e) ==
    /\ row[e.registration] # NoRow
    /\ e.kind = "Cancelled" => row[e.registration].status = "Cancelled"
    /\ e.kind = "Received" => row[e.registration].received
    /\ e.kind = "Returned" => row[e.registration].returned

HandledIsShown == handled => Shown(handling)

Publishing(e) == \E q \in Requests : req[q].at = "publish" /\ req[q].event = e

\* What is saved is shown, or will be: its event is on the queue or about to be.
NothingIsLost == \A e \in Events : Saved(e) => Shown(e) \/ B!Queued(e) \/ Publishing(e)

NewOf(r) == [kind |-> "NewRegistration", registration |-> r]

\* Before an event the queue has that of the registration, unless the catalog has the row.
InOrder ==
    \A i \in 1..Len(queue) :
        \/ row[queue[i].registration] # NoRow
        \/ \E j \in 1..i : queue[j] = NewOf(queue[i].registration)

UInv ==
    /\ SystemInv
    /\ NothingFails /\ AllSubscribed /\ ContextIsWritten
    /\ HandledIsShown /\ NothingIsLost /\ InOrder

\* While the catalog starts for the first time the service knows no object, and the bus
\* has no event.
Dormant ==
    /\ SystemInv /\ Routed /\ ~ObjectsAreKnown
    /\ NothingFails /\ ContextIsWritten
    /\ bound \subseteq EventKinds
    /\ queue = <<>> /\ handling = NoEvent /\ ~handled

-----------------------------------------------------------------------------
LEMMA UndisturbedInit ==
    ASSUME Undisturbed, SystemInit
    PROVE  Dormant \/ UInv
<1>1. SystemInv
    BY SystemInitInv
<1>2. NothingFails
    BY DEF SystemInit, B!Init, NothingFails
<1>3. CASE ~Deployed
  <2>1. Routed /\ ~ObjectsAreKnown
      BY <1>3 DEF SystemInit, B!Init, Init, Undisturbed, NothingSeeded, Routed, ObjectsAreKnown,
                  Idle
  <2>2. bound = {} /\ queue = <<>> /\ handling = NoEvent /\ ~handled
      BY <1>3 DEF SystemInit, B!Init
  <2>3. ContextIsWritten
      BY DEF SystemInit, K!Init, ContextIsWritten
  <2> QED
      BY <1>1, <1>2, <2>1, <2>2, <2>3 DEF Dormant
<1>4. CASE Deployed
  <2>1. AllSubscribed
      BY <1>4, AllKinds DEF SystemInit, B!Init, AllSubscribed
  <2>2. ContextIsWritten
      BY DEF SystemInit, K!Init, ContextIsWritten
  <2>3. HandledIsShown /\ InOrder
      BY DEF SystemInit, B!Init, HandledIsShown, InOrder
  <2>4. NothingIsLost
      BY DEF SystemInit, Init, NothingIsLost, Saved, Events
  <2> QED
      BY <1>1, <1>2, <2>1, <2>2, <2>3, <2>4 DEF UInv
<1> QED
    BY <1>3, <1>4

\* A save that nothing refuses writes the context to the table.
LEMMA SaveWrites ==
    ASSUME CatalogTyped, ContextIsWritten, NEW entities \in Entities, NEW inserts, NEW users,
           \A r \in inserts : row[r] = NoRow,
           \A r \in Registrations : row[r] # NoRow => entities[r] # NoRow,
           users \cap known = {},
           K!SaveChanges(entities, inserts, users, FALSE)
    PROVE  /\ row' = entities /\ tracked' = entities
           /\ added' = {} /\ addedUsers' = {} /\ known' = known \cup users
<1>1. K!Writes(inserts, users, FALSE)
    BY DEF K!Writes
<1>2. /\ row' = [r \in Registrations |-> IF entities[r] = NoRow THEN row[r] ELSE entities[r]]
      /\ tracked' = entities /\ added' = {} /\ addedUsers' = {} /\ known' = known \cup users
    BY <1>1 DEF K!SaveChanges
<1>3. row' = entities
    BY <1>2 DEF Entities
<1> QED
    BY <1>2, <1>3

LEMMA NothingIsRefused ==
    ASSUME Undisturbed, NothingFails, NEW fails \in BOOLEAN, Refused(fails)
    PROVE  fails = FALSE /\ refusals' = 0
BY DEF Undisturbed, NothingFails, Refused

\* A handler that finds a row to update writes what it has changed.
LEMMA UpdateWrites ==
    ASSUME CatalogTyped, ContextIsWritten, NEW r \in Registrations, row[r] # NoRow,
           NEW x \in K!Transaction, K!Update(r, x, FALSE)
    PROVE  ContextIsWritten' /\ row'[r] = x
<1> DEFINE entities == [tracked EXCEPT ![r] = x]
<1>1. /\ entities \in Entities /\ entities[r] = x /\ x # NoRow
      /\ \A s \in Registrations \ {r} : entities[s] = row[s]
    BY StreetOfThingsAssumption DEF CatalogTyped, ContextIsWritten, Entities
<1>2. K!SaveChanges(entities, {}, {}, FALSE) /\ asked' = asked
    BY DEF K!Update, ContextIsWritten
<1> HIDE DEF entities
<1>3. /\ row' = entities /\ tracked' = entities
      /\ added' = {} /\ addedUsers' = {} /\ known' = known \cup {}
    BY <1>1, <1>2, SaveWrites
<1> QED
    BY <1>1, <1>2, <1>3 DEF ContextIsWritten

\* The handler of the event at the head of the queue makes the catalog show it.
LEMMA HandlerShows ==
    ASSUME Undisturbed, UInv, NEW e \in Events, HandleEvent(e)
    PROVE  ContextIsWritten' /\ refusals' = 0 /\ Shown(e)'
<1>1. CatalogInv /\ CatalogTyped /\ ContextIsWritten /\ NothingFails
    BY DEF UInv, SystemInv, CatalogInv
<1>2. PICK fails \in BOOLEAN : K!Handle(e, Recipient(e), fails) /\ Refused(fails)
    BY DEF HandleEvent
<1>3. fails = FALSE /\ refusals' = 0
    BY <1>1, <1>2, NothingIsRefused
<1> DEFINE r == e.registration
<1>4. r \in Registrations /\ e.kind \in EventKinds
    BY DEF Events
<1>5. row[r] # NoRow \/ e.kind = "NewRegistration"
  <2>1. handling = e /\ queue # <<>> /\ handling = Head(queue)
      BY StreetOfThingsAssumption
      DEF HandleEvent, B!HandleEvent, B!Processing, UInv, SystemInv, HandlesHead
  <2>2. queue \in Seq(published)
      BY DEF UInv, SystemInv, BusCarriesAnnounced
  <2>3. 1 \in 1..Len(queue) /\ queue[1] = e
      BY <2>1, <2>2
  <2>4. row[queue[1].registration] # NoRow
        \/ \E j \in 1..1 : queue[j] = NewOf(queue[1].registration)
      BY <2>3 DEF UInv, InOrder
  <2> QED
      BY <2>3, <2>4 DEF NewOf
<1>6. CASE e.kind = "NewRegistration"
  <2>1. K!NewRegistration(r, Recipient(e), FALSE)
      BY <1>2, <1>3, <1>6 DEF K!Handle
  <2>2. CASE row[r] # NoRow
    <3>1. UNCHANGED <<row, known, asked, tracked, added, addedUsers>>
        BY <1>1, <2>1, <2>2 DEF K!NewRegistration, ContextIsWritten, K!tables
    <3> QED
        BY <1>1, <1>3, <1>6, <2>2, <3>1 DEF ContextIsWritten, Shown
  <2>3. CASE row[r] = NoRow
    <3> DEFINE x == [received |-> FALSE, returned |-> FALSE, status |-> "Ok"]
               entities == [tracked EXCEPT ![r] = x]
               inserts == {r}
    <3>0. x \in K!Transaction
        BY DEF K!Transaction
    <3>1. x # NoRow
        BY <3>0, StreetOfThingsAssumption
    <3>2. /\ entities \in Entities /\ entities[r] = x
          /\ \A s \in Registrations \ {r} : entities[s] = row[s]
        BY <1>1, <1>4, <3>0 DEF CatalogTyped, ContextIsWritten, Entities
    <3>3. K!SaveChanges(entities, inserts, {}, FALSE) /\ asked' = asked
        BY <1>1, <2>1, <2>3 DEF K!NewRegistration, ContextIsWritten
    <3>4. \A s \in inserts : row[s] = NoRow
        BY <2>3
    <3> HIDE DEF entities, inserts, x
    <3>5. /\ row' = entities /\ tracked' = entities
          /\ added' = {} /\ addedUsers' = {} /\ known' = known \cup {}
        BY <1>1, <3>1, <3>2, <3>3, <3>4, SaveWrites
    <3> QED
        BY <1>1, <1>3, <1>6, <3>1, <3>2, <3>3, <3>5 DEF ContextIsWritten, Shown
  <2> QED
      BY <2>2, <2>3
<1>7. CASE e.kind # "NewRegistration"
  <2> DEFINE c == [K!Found(r) EXCEPT !.status = "Cancelled"]
             v == [K!Found(r) EXCEPT !.received = TRUE]
             w == [K!Found(r) EXCEPT !.returned = TRUE]
  <2>1. row[r] # NoRow /\ K!Found(r) \in K!Transaction
      BY <1>1, <1>4, <1>5, <1>7, FoundFields
  <2>2. /\ c \in K!Transaction /\ c.status = "Cancelled"
        /\ v \in K!Transaction /\ v.received
        /\ w \in K!Transaction /\ w.returned
      BY <2>1, SetFields
  <2>3. \/ e.kind = "Cancelled" /\ K!Update(r, c, FALSE)
        \/ e.kind = "Received" /\ K!Update(r, v, FALSE)
        \/ e.kind = "Returned" /\ K!Update(r, w, FALSE)
      BY <1>2, <1>3, <1>7 DEF K!Handle, K!Cancelled, K!Received, K!Returned
  <2> HIDE DEF c, v, w
  <2>4. \/ e.kind = "Cancelled" /\ ContextIsWritten' /\ row'[r] = c
        \/ e.kind = "Received" /\ ContextIsWritten' /\ row'[r] = v
        \/ e.kind = "Returned" /\ ContextIsWritten' /\ row'[r] = w
      BY <1>1, <1>4, <2>1, <2>2, <2>3, UpdateWrites
  <2> QED
      BY <1>3, <2>2, <2>4, StreetOfThingsAssumption DEF Shown
<1> QED
    BY <1>6, <1>7

LEMMA AddUserWrites ==
    ASSUME Undisturbed, UInv, NEW e \in Events, AddUser(e)
    PROVE  /\ ContextIsWritten' /\ refusals' = 0
           /\ UNCHANGED <<published, bus>>
<1>1. CatalogTyped /\ ContextIsWritten /\ NothingFails
    BY DEF UInv, SystemInv, CatalogInv
<1> DEFINE u == Recipient(e)
<1>2. PICK fails \in BOOLEAN :
          /\ K!AddUser(u, fails) /\ Refused(fails)
          /\ ~K!AddUserThrows(u, fails) => UNCHANGED <<published, bus>>
    BY DEF AddUser
<1>3. fails = FALSE /\ refusals' = 0
    BY <1>1, <1>2, NothingIsRefused
<1>4. {u} \cap known = {} /\ u \notin addedUsers /\ addedUsers \cup {u} = {u} /\ asked' = NoRow
  <2>1. asked = u /\ asked' = NoRow
      BY <1>2 DEF K!AddUser
  <2>2. e \in published /\ e.registration \in Registrations
      BY StreetOfThingsAssumption
      DEF AddUser, B!Processing, UInv, SystemInv, BusCarriesAnnounced, Events
  <2>3. registration[e.registration] # NoRow
      BY <2>2 DEF UInv, SystemInv, IInv, AnnouncedIsSaved, Saved
  <2>4. u \in Users
      BY <2>2, <2>3, RowFields DEF UInv, SystemInv, IInv, Recipient
  <2>5. u # NoRow
      BY <2>4, StreetOfThingsAssumption
  <2> QED
      BY <1>1, <2>1, <2>5 DEF ContextIsWritten
<1>5. ~K!AddUserThrows(u, FALSE)
    BY <1>1, <1>4 DEF K!AddUserThrows, K!Writes, ContextIsWritten
<1>6. K!SaveChanges(row, {}, {u}, FALSE)
    BY <1>1, <1>2, <1>3, <1>4 DEF K!AddUser, ContextIsWritten
<1>7. row \in Entities
    BY <1>1 DEF CatalogTyped
<1>8. row' = row /\ tracked' = row /\ added' = {} /\ addedUsers' = {}
    BY <1>1, <1>4, <1>6, <1>7, SaveWrites
<1> QED
    BY <1>2, <1>3, <1>4, <1>5, <1>8 DEF ContextIsWritten

\* The steps of the system when nothing disturbs it, by what they do to the queue.
LEMMA UndisturbedSteps ==
    ASSUME Undisturbed, UInv, [SystemNext]_system
    PROVE  \/ /\ UNCHANGED <<transactions, queue>>
              /\ \/ UNCHANGED <<handling, handled>>
                 \/ handling' \in Events /\ UNCHANGED handling /\ Shown(handling)'
                 \/ handling' = NoEvent /\ ~handled'
                 \/ queue # <<>> /\ handling' = Head(queue) /\ ~handled'
           \/ /\ Pass \/ \E q \in Requests : Serve(q) \/ AskCatalog(q)
              /\ UNCHANGED <<queue, handling, handled>>
           \/ \E q \in Requests : PublishToBus(q)
           \/ B!BasicAck /\ UNCHANGED transactions
<1>1. NothingFails /\ AllSubscribed
    BY DEF UInv
<1>2. CASE UNCHANGED system
    BY <1>2 DEF system, bus
<1>3. ASSUME NEW q \in Requests, Serve(q) \/ AskCatalog(q) \/ Die(q)
      PROVE  (Serve(q) \/ AskCatalog(q)) /\ UNCHANGED <<queue, handling, handled>>
    BY <1>1, <1>3 DEF Serve, AskCatalog, Die, bus, Undisturbed, NothingFails
<1>4. ASSUME NEW e \in Events, HandleEvent(e)
      PROVE  /\ UNCHANGED <<transactions, queue>>
             /\ handling' \in Events /\ UNCHANGED handling /\ Shown(handling)'
  <2>1. UNCHANGED <<transactions, queue, handling>> /\ handling = e
      BY <1>4 DEF HandleEvent, B!HandleEvent, B!Processing, B!broker
  <2>2. Shown(e)'
      BY <1>4, HandlerShows
  <2> QED
      BY <2>1, <2>2 DEF Shown
<1>5. ASSUME NEW e \in Events, AskUser(e) \/ AddUser(e)
      PROVE  UNCHANGED <<transactions, queue, handling, handled>>
    BY <1>5, AddUserWrites DEF AskUser, AddUser, bus
<1>6. CASE Pass
    BY <1>6 DEF Pass, bus
<1>7. CASE UserNotFound
    BY <1>7 DEF UserNotFound, B!CallbackException, B!RecreateChannel, B!broker
<1>8. ASSUME RestartCatalog \/ \E u \in Visitors : Visit(u) PROVE FALSE
    BY <1>1, <1>8 DEF RestartCatalog, B!Restart, Undisturbed, NothingFails
<1>9. ASSUME B!QueueBind \/ B!AddSubscription PROVE FALSE
    BY <1>1, <1>9, AllKinds DEF B!QueueBind, B!AddSubscription, AllSubscribed
<1>10. ASSUME NEW e \in Events, B!NoSubscription(e) PROVE FALSE
  <2>1. PICK i \in 1..4 : K!CatalogSubscriptions[i] = e.kind
      BY AllKinds
  <2> QED
      BY <1>1, <1>10, <2>1, AllKinds
      DEF AllSubscribed, B!NoSubscription, B!HasSubscriptionsForEvent
<1>11. CASE Dispatch
  <2>1. CASE B!Deliver
      BY <1>11, <2>1 DEF Dispatch, B!Deliver, B!broker
  <2>2. CASE B!BasicAck
      BY <1>11, <2>2 DEF Dispatch
  <2> QED
      BY <1>9, <1>10, <1>11, <2>1, <2>2 DEF Dispatch, B!Dispatch
<1> QED
    BY <1>2, <1>3, <1>4, <1>5, <1>6, <1>7, <1>8, <1>11 DEF SystemNext, Consume

\* The catalog stays up and its context written.
LEMMA ReadyNext ==
    ASSUME Undisturbed, UInv, [SystemNext]_system
    PROVE  NothingFails' /\ AllSubscribed' /\ ContextIsWritten'
<1> DEFINE Goal == NothingFails' /\ AllSubscribed' /\ ContextIsWritten'
<1>1. NothingFails /\ AllSubscribed /\ ContextIsWritten
    BY DEF UInv
<1>2. ASSUME UNCHANGED <<deaths, restarts, bound, subscribed>>, refusals' = 0, ContextIsWritten'
      PROVE  Goal
    BY <1>1, <1>2 DEF NothingFails, AllSubscribed
<1>3. ASSUME UNCHANGED <<deaths, refusals, restarts, bound, subscribed, catalog>> PROVE Goal
    BY <1>1, <1>3 DEF NothingFails, AllSubscribed, ContextIsWritten, catalog
<1>4. CASE UNCHANGED system
    BY <1>3, <1>4 DEF system, bus
<1>5. ASSUME NEW q \in Requests, Serve(q) \/ AskCatalog(q) \/ PublishToBus(q) \/ Die(q)
      PROVE  Goal
    BY <1>1, <1>3, <1>5 DEF Serve, AskCatalog, PublishToBus, Die, bus, B!Publish, B!consumer,
                            Undisturbed, NothingFails
<1>6. CASE Pass
    BY <1>3, <1>6 DEF Pass, bus
<1>7. ASSUME NEW e \in Events, HandleEvent(e) PROVE Goal
    BY <1>2, <1>7, HandlerShows DEF HandleEvent, B!HandleEvent, B!broker
<1>8. ASSUME NEW e \in Events, AddUser(e) PROVE Goal
    BY <1>2, <1>8, AddUserWrites DEF AddUser, bus
<1>9. ASSUME NEW e \in Events, AskUser(e) PROVE Goal
  <2>1. ContextIsWritten'
      BY <1>1, <1>9 DEF AskUser, K!AskUser, K!tables, ContextIsWritten
  <2> QED
      BY <1>1, <1>2, <1>9, <2>1 DEF AskUser, bus, NothingFails
<1>10. CASE UserNotFound
  <2>1. ContextIsWritten'
      BY <1>1, <1>10 DEF UserNotFound, K!GiveUp, K!tables, ContextIsWritten
  <2> QED
      BY <1>1, <1>2, <1>10, <2>1
      DEF UserNotFound, B!CallbackException, B!RecreateChannel, B!broker, NothingFails
<1>11. CASE Dispatch
  <2>1. UNCHANGED <<deaths, refusals, catalog>> /\ B!Dispatch
      BY <1>11 DEF Dispatch
  <2>2. ~B!QueueBind /\ ~B!AddSubscription
      BY <1>1, AllKinds DEF B!QueueBind, B!AddSubscription, AllSubscribed
  <2>3. UNCHANGED <<restarts, bound, subscribed>>
      BY <2>1, <2>2 DEF B!Dispatch, B!Deliver, B!NoSubscription, B!BasicAck, B!broker
  <2> QED
      BY <1>3, <2>1, <2>3
<1>12. ASSUME RestartCatalog \/ \E u \in Visitors : Visit(u) PROVE FALSE
    BY <1>1, <1>12 DEF RestartCatalog, B!Restart, Undisturbed, NothingFails
<1> HIDE DEF Goal
<1> QED
    BY <1>4, <1>5, <1>6, <1>7, <1>8, <1>9, <1>10, <1>11, <1>12 DEF SystemNext, Consume, Goal

\* What the catalog shows it goes on showing.
LEMMA ShownStays ==
    ASSUME RowsAdvance, NEW e, e.registration \in Registrations, Shown(e)
    PROVE  Shown(e)'
BY DEF RowsAdvance, Ahead, Shown

\* What is on the queue and what is handled are events of registrations.
LEMMA QueueOfEvents ==
    ASSUME UInv
    PROVE  /\ queue \in Seq(published) /\ Len(queue) \in Nat
           /\ \A i \in 1..Len(queue) :
                 queue[i] \in Events /\ queue[i].registration \in Registrations
           /\ handling \in Events \cup {NoEvent}
<1>1. queue \in Seq(published) /\ handling \in published \cup {NoEvent}
    BY DEF UInv, SystemInv, BusCarriesAnnounced
<1>2. published \subseteq Events
    BY DEF UInv, SystemInv, IInv, TypeOK
<1>3. \A i \in 1..Len(queue) : queue[i] \in published
    BY <1>1
<1> QED
    BY <1>1, <1>2, <1>3 DEF Events

LEMMA HandledIsShownNext ==
    ASSUME Undisturbed, UInv, [SystemNext]_system
    PROVE  HandledIsShown'
<1>1. RowsAdvance /\ HandledIsShown /\ (handled => handling \in Events)
    BY SystemNextInv, QueueOfEvents DEF UInv, SystemInv, HandlesHead
<1>2. \A e \in Events : handled /\ handling = e => Shown(e)'
    BY <1>1, ShownStays DEF HandledIsShown, Events
<1>3. CASE UNCHANGED <<handling, handled>>
    BY <1>1, <1>2, <1>3 DEF HandledIsShown, Shown
<1>4. CASE ~handled' \/ Shown(handling)'
    BY <1>4 DEF HandledIsShown
<1>5. ASSUME NEW q \in Requests, PublishToBus(q) PROVE UNCHANGED <<handling, handled>>
    BY <1>5 DEF PublishToBus, B!Publish, B!consumer
<1>6. CASE B!BasicAck
    BY <1>6 DEF B!BasicAck, HandledIsShown
<1> QED
    BY <1>3, <1>4, <1>5, <1>6, UndisturbedSteps

\* What a request newly saves it goes on to publish.
LEMMA SavedIsPublished ==
    ASSUME Serial, IInv, [Next]_vars, NEW e \in Events, ~Saved(e), Saved(e)'
    PROVE  Publishing(e)'
<1>1. TypeOK /\ RequestsKnow /\ PartiesOfALoan
    BY DEF IInv
<1>2. e = [kind |-> e.kind, registration |-> e.registration]
      /\ e.registration \in Registrations /\ e.kind \in EventKinds
    BY DEF Events
<1>3. PICK q \in Requests : Writes(q)
    BY OnlyWritesWrite DEF tables, Saved
<1>4. ASSUME NEW x, Go(q, x), x.at = "publish", x.event = e PROVE Publishing(e)'
    BY <1>1, <1>4, GoMoves DEF Publishing
<1>5. CASE SaveObject(q) \/ GenerateToken(q)
    BY <1>5 DEF SaveObject, GenerateToken, Saved
<1>6. CASE SaveRegistration(q)
  <2>1. PICK r \in Registrations :
            /\ registration[r] = NoRow
            /\ registration' = [registration EXCEPT ![r] =
                  [object |-> req[q].row, recipient |-> req[q].user, status |-> "OK"]]
            /\ Go(q, [at |-> "publish", event |-> [kind |-> "NewRegistration", registration |-> r]])
            /\ UNCHANGED <<receiving, returning>>
      BY <1>6 DEF SaveRegistration
  <2>2. receiving[r] = NoRow /\ returning[r] = NoRow /\ registration'[r].status = "OK"
        /\ \A s \in Registrations : s # r => registration'[s] = registration[s]
      BY <1>1, <2>1 DEF PartiesOfALoan, TypeOK
  <2>3. e.registration = r /\ e.kind = "NewRegistration"
      BY <1>2, <2>1, <2>2 DEF Saved, EventKinds
  <2> QED
      BY <1>2, <1>4, <2>1, <2>3
<1>7. CASE SaveReceiving(q)
  <2> DEFINE r == token[req[q].token].registration
  <2>1. /\ \A s \in Registrations : s # r => receiving'[s] = receiving[s]
        /\ UNCHANGED <<registration, returning>>
        /\ UNCHANGED receiving \/
              Go(q, [at |-> "publish", event |-> [kind |-> "Received", registration |-> r]])
      BY <1>1, <1>7 DEF SaveReceiving, TypeOK
  <2> HIDE DEF r
  <2>2. e.registration = r /\ e.kind = "Received"
      BY <1>2, <2>1 DEF Saved, EventKinds
  <2> QED
      BY <1>2, <1>4, <2>1, <2>2 DEF Saved
<1>8. CASE SaveReturning(q)
  <2> DEFINE r == token[req[q].token].registration
  <2>1. /\ \A s \in Registrations : s # r => returning'[s] = returning[s]
        /\ UNCHANGED <<registration, receiving>>
        /\ UNCHANGED returning \/
              Go(q, [at |-> "publish", event |-> [kind |-> "Returned", registration |-> r]])
      BY <1>1, <1>8 DEF SaveReturning, TypeOK
  <2> HIDE DEF r
  <2>2. e.registration = r /\ e.kind = "Returned"
      BY <1>2, <2>1 DEF Saved, EventKinds
  <2> QED
      BY <1>2, <1>4, <2>1, <2>2 DEF Saved
<1>9. CASE SaveCancel(q)
  <2> DEFINE r == req[q].registration
  <2>1. /\ \A s \in Registrations : s # r => registration'[s] = registration[s]
        /\ registration[r] # NoRow
        /\ UNCHANGED <<receiving, returning>>
        /\ Go(q, [at |-> "publish", event |-> [kind |-> "Cancelled", registration |-> r]])
      BY <1>1, <1>9 DEF SaveCancel, TypeOK, RequestsKnow, RequestKnows
  <2> HIDE DEF r
  <2>2. e.registration = r /\ e.kind = "Cancelled"
      BY <1>2, <2>1 DEF Saved, EventKinds
  <2> QED
      BY <1>2, <1>4, <2>1, <2>2
<1> QED
    BY <1>3, <1>5, <1>6, <1>7, <1>8, <1>9 DEF Writes

LEMMA NothingIsLostNext ==
    ASSUME Undisturbed, UInv, [SystemNext]_system
    PROVE  NothingIsLost'
<1> SUFFICES ASSUME NEW e \in Events, Saved(e)'
             PROVE  (Shown(e) \/ B!Queued(e) \/ Publishing(e))'
    BY DEF NothingIsLost
<1>1. /\ Serial /\ IInv /\ [Next]_vars /\ NothingIsLost /\ RowsAdvance
      /\ queue \in Seq(published) /\ Len(queue) \in Nat /\ e.registration \in Registrations
    BY ServiceSteps, SystemNextInv, QueueOfEvents DEF Undisturbed, UInv, SystemInv, Events
<1>2. CASE ~Saved(e)
    BY <1>1, <1>2, SavedIsPublished
<1>3. CASE Shown(e)
    BY <1>1, <1>3, ShownStays
<1>4. ASSUME B!Queued(e), UNCHANGED queue PROVE B!Queued(e)'
    BY <1>4 DEF B!Queued
<1>5. ASSUME Publishing(e), UNCHANGED transactions PROVE Publishing(e)'
    BY <1>5 DEF Publishing, transactions
<1>6. ASSUME NEW q \in Requests, Publishing(e), Serve(q) \/ AskCatalog(q) PROVE FALSE
    BY <1>1, <1>6 DEF Serial, Publishing, Serve, AskCatalog, FetchObject
<1>7. CASE Pass
    BY <1>1, <1>2, <1>3, <1>4, <1>7
    DEF NothingIsLost, Publishing, Pass, bus, Tick, RegistrationExpires, TokenGoesStale
<1>8. ASSUME NEW q \in Requests, PublishToBus(q), B!Queued(e) \/ Publishing(e)
      PROVE  B!Queued(e)'
  <2>1. /\ bound = EventKinds /\ req[q].event \in Events /\ req[q].event.kind \in EventKinds
      BY <1>1, <1>8, InFlightFields
      DEF UInv, AllSubscribed, PublishToBus, Publish, IInv, TypeOK
  <2>2. queue' = Append(queue, req[q].event)
      BY <1>8, <2>1 DEF PublishToBus, B!Publish
  <2>3. CASE B!Queued(e)
      BY <1>1, <2>2, <2>3, AppendToQueue DEF B!Queued
  <2>4. CASE Publishing(e)
    <3>1. req[q].event = e
        BY <1>1, <2>4 DEF Serial, Publishing
    <3> QED
        BY <1>1, <2>2, <3>1, AppendToQueue DEF B!Queued
  <2> QED
      BY <1>8, <2>3, <2>4
<1>9. ASSUME B!BasicAck, B!Queued(e), ~Shown(e) PROVE B!Queued(e)'
  <2>1. queue # <<>> /\ Shown(Head(queue)) /\ queue' = Tail(queue)
      BY <1>9 DEF B!BasicAck, UInv, SystemInv, HandlesHead, HandledIsShown
  <2>2. PICK i \in 1..Len(queue) : queue[i] = e
      BY <1>9 DEF B!Queued
  <2>3. i # 1
      BY <1>1, <1>9, <2>1, <2>2, TailOfQueue
  <2>4. i - 1 \in 1..(Len(queue) - 1) /\ queue[(i - 1) + 1] = e
      BY <1>1, <2>2, <2>3
  <2>5. i - 1 \in 1..Len(queue') /\ queue'[i - 1] = e
      BY <1>1, <2>1, <2>4, TailOfQueue
  <2> QED
      BY <2>5 DEF B!Queued
<1> QED
    BY <1>1, <1>2, <1>3, <1>4, <1>5, <1>6, <1>7, <1>8, <1>9, UndisturbedSteps
    DEF NothingIsLost

LEMMA InOrderNext ==
    ASSUME Undisturbed, UInv, [SystemNext]_system
    PROVE  InOrder'
<1>1. /\ IInv /\ InOrder /\ RowsAdvance /\ queue \in Seq(published) /\ Len(queue) \in Nat
      /\ \A i \in 1..Len(queue) : queue[i] \in Events /\ queue[i].registration \in Registrations
    BY SystemNextInv, QueueOfEvents DEF UInv, SystemInv
<1>2. \A r \in Registrations : row[r] # NoRow => row'[r] # NoRow
    BY <1>1 DEF RowsAdvance
<1>3. CASE UNCHANGED queue
    BY <1>1, <1>2, <1>3 DEF InOrder
<1>4. ASSUME NEW q \in Requests, PublishToBus(q) PROVE InOrder'
  <2> DEFINE e == req[q].event
             n == NewOf(e.registration)
  <2>1. /\ e \in Events /\ e.registration \in Registrations /\ req[q].at = "publish"
        /\ e.kind \in EventKinds
      BY <1>1, <1>4, InFlightFields DEF PublishToBus, Publish, IInv, TypeOK
  <2>2. n \in Events /\ Saved(n) /\ n.registration = e.registration
      BY <1>1, <1>4, <2>1
      DEF NewOf, Saved, Events, EventKinds, IInv, RequestsKnow, RequestKnows
  <2>3. Shown(n) \/ B!Queued(n) \/ n = e
      BY <2>2 DEF UInv, NothingIsLost, Publishing, Undisturbed, Serial
  <2>4. queue' = Append(queue, e)
      BY <1>4, <2>1 DEF PublishToBus, B!Publish, UInv, AllSubscribed
  <2> HIDE DEF e, n
  <2>5. /\ Len(queue') = Len(queue) + 1 /\ queue'[Len(queue) + 1] = e
        /\ \A i \in 1..Len(queue) : queue'[i] = queue[i]
      BY <1>1, <2>4, AppendToQueue
  <2>6. ASSUME NEW i \in 1..Len(queue)
        PROVE  \/ row'[queue'[i].registration] # NoRow
               \/ \E j \in 1..i : queue'[j] = NewOf(queue'[i].registration)
    <3>1. CASE row[queue[i].registration] # NoRow
        BY <1>1, <1>2, <2>5, <3>1
    <3>2. ASSUME NEW j \in 1..i, queue[j] = NewOf(queue[i].registration)
          PROVE  queue'[j] = NewOf(queue'[i].registration)
      <4>1. j \in 1..Len(queue)
          BY <1>1
      <4> QED
          BY <2>5, <3>2, <4>1
    <3> QED
        BY <1>1, <3>1, <3>2 DEF InOrder
  <2>7. \/ row'[e.registration] # NoRow
        \/ \E j \in 1..(Len(queue) + 1) : queue'[j] = n
    <3>1. CASE Shown(n)
        BY <1>2, <2>1, <2>2, <3>1 DEF Shown
    <3>2. ASSUME NEW j \in 1..Len(queue), queue[j] = n
          PROVE  j \in 1..(Len(queue) + 1) /\ queue'[j] = n
        BY <1>1, <2>5, <3>2
    <3>3. CASE n = e
        BY <1>1, <2>5, <3>3
    <3> QED
        BY <2>3, <3>1, <3>2, <3>3 DEF B!Queued
  <2>8. \A i \in 1..Len(queue') : i \in 1..Len(queue) \/ i = Len(queue) + 1
      BY <1>1, <2>5
  <2> QED
      BY <2>5, <2>6, <2>7, <2>8 DEF InOrder, n
<1>5. CASE B!BasicAck
  <2>1. queue # <<>> /\ Shown(Head(queue)) /\ queue' = Tail(queue)
      BY <1>5 DEF B!BasicAck, UInv, SystemInv, HandlesHead, HandledIsShown
  <2>2. /\ Len(queue') = Len(queue) - 1 /\ Head(queue) = queue[1] /\ Len(queue) >= 1
        /\ \A i \in 1..(Len(queue) - 1) : queue'[i] = queue[i + 1]
      BY <1>1, <2>1, TailOfQueue
  <2>3. ASSUME NEW i \in 1..Len(queue')
        PROVE  \/ row'[queue'[i].registration] # NoRow
               \/ \E j \in 1..i : queue'[j] = NewOf(queue'[i].registration)
    <3>1. i + 1 \in 1..Len(queue) /\ queue'[i] = queue[i + 1]
        BY <1>1, <2>2
    <3> DEFINE r == queue[i + 1].registration
    <3>2. r \in Registrations
        BY <1>1, <3>1
    <3>3. CASE row[r] # NoRow
        BY <1>2, <3>1, <3>2, <3>3
    <3>4. ASSUME NEW j \in 1..(i + 1), queue[j] = NewOf(r)
          PROVE  row[r] # NoRow \/ \E k \in 1..i : queue'[k] = NewOf(r)
      <4>1. CASE j = 1
          BY <2>1, <2>2, <3>4, <4>1 DEF Shown, NewOf
      <4>2. CASE j # 1
        <5>1. j - 1 \in 1..i /\ j - 1 \in 1..(Len(queue) - 1) /\ (j - 1) + 1 = j
            BY <1>1, <2>2, <4>2
        <5> QED
            BY <2>2, <3>4, <5>1
      <4> QED
          BY <4>1, <4>2
    <3>5. row[r] # NoRow \/ \E j \in 1..(i + 1) : queue[j] = NewOf(r)
        BY <1>1, <3>1 DEF InOrder
    <3> QED
        BY <3>1, <3>3, <3>4, <3>5
  <2> QED
      BY <2>3 DEF InOrder
<1> QED
    BY <1>3, <1>4, <1>5, UndisturbedSteps

-----------------------------------------------------------------------------
\* When requests do not overlap and nothing fails, nothing that was saved is lost on its
\* way to the catalog, and the event of a registration comes before the others.
\* The first object becomes known when the catalog is up, and nothing is saved of it yet.
LEMMA DormantNext ==
    ASSUME Undisturbed, Dormant, [SystemNext]_system
    PROVE  Dormant' \/ UInv'
<1>1. SystemInv' /\ Routed' /\ IInv
    BY SystemNextInv, RoutedNext DEF Dormant, SystemInv
<1>2. /\ handling = NoEvent /\ ~handled /\ queue = <<>>
      /\ \A e \in Events : e # NoEvent
    BY StreetOfThingsAssumption DEF Dormant
<1>3. \A q \in Requests : req[q].at \in {"idle", "fetchObject"}
    BY <1>1, RowsLeadToObjects DEF Dormant
<1> DEFINE Quietly == UNCHANGED <<deaths, restarts, refusals, catalog, queue, handling, handled>>
<1>4. ASSUME Quietly, ~ObjectsAreKnown', bound' \subseteq EventKinds PROVE Dormant'
    BY <1>1, <1>4 DEF Dormant, NothingFails, ContextIsWritten, catalog
<1>5. CASE UNCHANGED system
    BY <1>4, <1>5 DEF system, bus, transactions, Dormant, ObjectsAreKnown
<1>6. ASSUME NEW q \in Requests, Serve(q) PROVE Dormant'
    BY <1>1, <1>4, <1>6, ServeKnowsNothingNew DEF Serve, bus, Dormant
<1>7. ASSUME NEW q \in Requests, AskCatalog(q) PROVE Dormant' \/ UInv'
  <2>1. Quietly /\ UNCHANGED <<bound, subscribed, offered, registration>>
      BY <1>7 DEF AskCatalog, FetchObject, bus, tables
  <2>2. PICK x : Go(q, x) /\ (x.at = "saveObject" \/ x = Idle)
      BY <1>7 DEF AskCatalog, FetchObject, Reply
  <2>3. req'[q] = x /\ \A p \in Requests : p # q => req'[p] = req[p]
      BY <1>1, <2>2, GoMoves DEF IInv
  <2>4. CASE x = Idle
    <3>1. ~ObjectsAreKnown'
        BY <2>1, <2>3, <2>4 DEF Dormant, ObjectsAreKnown, Idle
    <3> QED
        BY <1>4, <2>1, <3>1 DEF Dormant
  <2>5. CASE x.at = "saveObject"
    <3>1. Up
        BY <1>7, <2>3, <2>5 DEF AskCatalog
    <3>2. EventKinds \subseteq bound /\ bound \subseteq EventKinds
        BY <3>1, UpIsRouted DEF Dormant
    <3>3. AllSubscribed'
        BY <2>1, <3>1, <3>2 DEF Up, AllSubscribed
    <3>4. NothingFails' /\ ContextIsWritten'
        BY <2>1 DEF Dormant, NothingFails, ContextIsWritten, catalog
    <3>5. HandledIsShown' /\ InOrder'
        BY <1>2, <2>1 DEF HandledIsShown, InOrder
    <3>6. NothingIsLost'
      <4>1. \A r \in Registrations : registration'[r] = NoRow
          BY <1>1, <2>1, RowsLeadToObjects DEF Dormant
      <4> QED
          BY <4>1 DEF NothingIsLost, Saved, Events
    <3> QED
        BY <1>1, <3>3, <3>4, <3>5, <3>6 DEF UInv
  <2> QED
      BY <2>2, <2>4, <2>5
<1>8. ASSUME NEW q \in Requests, PublishToBus(q) PROVE FALSE
    BY <1>3, <1>8 DEF PublishToBus, Publish
<1>9. ASSUME NEW q \in Requests, Die(q) PROVE FALSE
    BY <1>9 DEF Die, Dormant, NothingFails, Undisturbed
<1>10. CASE Pass
    BY <1>4, <1>10 DEF Pass, Tick, RegistrationExpires, TokenGoesStale, bus, tables, Dormant,
                       ObjectsAreKnown
<1>11. ASSUME RestartCatalog \/ \E u \in Visitors : Visit(u) PROVE FALSE
    BY <1>11 DEF RestartCatalog, B!Restart, Dormant, NothingFails, Undisturbed
<1>12. ASSUME UserNotFound \/ \E e \in Events : HandleEvent(e) \/ AskUser(e) \/ AddUser(e)
       PROVE  FALSE
    BY <1>2, <1>12 DEF UserNotFound, B!CallbackException, B!RecreateChannel, HandleEvent,
                       B!HandleEvent, AskUser, AddUser, B!Processing
<1>13. CASE Dispatch
  <2>1. ~ObjectsAreKnown' /\ UNCHANGED <<deaths, refusals, catalog>>
      BY <1>13 DEF Dispatch, transactions, Dormant, ObjectsAreKnown
  <2>2. CASE B!QueueBind
    <3>1. subscribed < 4 /\ bound' = bound \cup {K!CatalogSubscriptions[subscribed + 1]}
        BY <2>2, AllKinds DEF B!QueueBind
    <3>2. K!CatalogSubscriptions[subscribed + 1] \in EventKinds
        BY <3>1 DEF Dormant, Routed, K!CatalogSubscriptions, EventKinds
    <3> QED
        BY <1>4, <2>1, <2>2, <3>1, <3>2 DEF B!QueueBind, B!consumer, Dormant
  <2>3. CASE B!AddSubscription
      BY <1>4, <2>1, <2>3 DEF B!AddSubscription, B!broker, Dormant
  <2>4. ~B!Deliver /\ ~B!BasicAck /\ \A e \in Events : ~B!NoSubscription(e)
      BY <1>2 DEF B!Deliver, B!BasicAck, B!NoSubscription, B!Processing
  <2> QED
      BY <1>13, <2>2, <2>3, <2>4 DEF Dispatch, B!Dispatch
<1> QED
    BY <1>5, <1>6, <1>7, <1>8, <1>9, <1>10, <1>11, <1>12, <1>13 DEF SystemNext, Consume

THEOREM UndisturbedInvariance == Undisturbed => (SystemSpec => [](Dormant \/ UInv))
<1> SUFFICES ASSUME Undisturbed PROVE SystemSpec => [](Dormant \/ UInv)
    OBVIOUS
<1>1. SystemInit => Dormant \/ UInv
    BY UndisturbedInit
<1>2. UInv /\ [SystemNext]_system => UInv'
    BY SystemNextInv, ReadyNext, HandledIsShownNext, NothingIsLostNext, InOrderNext DEF UInv
<1>3. Dormant /\ [SystemNext]_system => Dormant' \/ UInv'
    BY DormantNext
<1> QED
    BY <1>1, <1>2, <1>3, PTL DEF SystemSpec

\* When nothing is under way there is no event left to wait for.
LEMMA QuietAgrees ==
    ASSUME Dormant \/ UInv
    PROVE  CatalogAgrees
<1> SUFFICES ASSUME Quiet, NEW r \in Registrations
             PROVE  /\ row[r] # NoRow <=> registration[r] # NoRow
                    /\ row[r] # NoRow =>
                          /\ row[r].received <=> receiving[r] # NoRow
                          /\ row[r].returned <=> returning[r] # NoRow
                          /\ row[r].status = "Cancelled" <=> registration[r].status = "Canceled"
    BY DEF CatalogAgrees
<1>1. \A e \in Events : Saved(e) => Shown(e)
  <2>1. CASE Dormant
    <3>1. \A s \in Registrations : registration[s] = NoRow
        BY <2>1, RowsLeadToObjects DEF Dormant, SystemInv
    <3> QED
        BY <3>1 DEF Saved, Events
  <2>2. CASE UInv
      BY <2>2 DEF UInv, NothingIsLost, Quiet, B!Queued, Publishing, Idle
  <2> QED
      BY <2>1, <2>2
<1>2. \A k \in EventKinds : Saved([kind |-> k, registration |-> r])
                              => Shown([kind |-> k, registration |-> r])
    BY <1>1 DEF Events
<1>3. registration[r] # NoRow =>
          /\ row[r] # NoRow
          /\ registration[r].status = "Canceled" => row[r].status = "Cancelled"
          /\ receiving[r] # NoRow => row[r].received
          /\ returning[r] # NoRow => row[r].returned
    BY <1>2 DEF EventKinds, Saved, Shown
<1>4. row[r] # NoRow =>
          /\ registration[r] # NoRow
          /\ row[r].received => receiving[r] # NoRow
          /\ row[r].returned => returning[r] # NoRow
          /\ row[r].status = "Cancelled" => registration[r].status = "Canceled"
    BY DEF Dormant, UInv, SystemInv, CatalogInv, CatalogAnnounced, ShowsAnnounced, Announced,
           IInv, AnnouncedIsSaved, Saved
<1> QED
    BY <1>3, <1>4

\* When requests do not overlap and nothing fails, the copy of the catalog and the tables
\* of the Transaction service agree whenever nothing is under way.
THEOREM CatalogAgreesUndisturbed == Undisturbed => (SystemSpec => []CatalogAgrees)
<1> SUFFICES ASSUME Undisturbed PROVE SystemSpec => []CatalogAgrees
    OBVIOUS
<1>1. Dormant \/ UInv => CatalogAgrees
    BY QuietAgrees
<1> QED
    BY <1>1, UndisturbedInvariance, PTL

\* Then no recipient has an object that the catalog offers: the query of the catalog that
\* says "the object is actually at the owner" is right, for the copy it reads.
THEOREM ListedIsHome == Undisturbed => (SystemSpec => []ListedIsAtOwner)
<1> SUFFICES ASSUME Undisturbed PROVE SystemSpec => []ListedIsAtOwner
    OBVIOUS
<1>1. Dormant \/ UInv => ListedIsAtOwner
  <2> SUFFICES ASSUME Dormant \/ UInv, Quiet,
                      NEW r \in Registrations, registration[r] # NoRow, Holding(r),
                      Listed(offered[registration[r].object].original)
               PROVE  FALSE
      BY DEF ListedIsAtOwner
  <2>1. row[r] # NoRow /\ row[r].received /\ ~row[r].returned
      BY QuietAgrees DEF CatalogAgrees, Holding
  <2>2. ~K!AtOwner(r)
      BY <2>1 DEF K!AtOwner
  <2> QED
      BY <2>1, <2>2 DEF Listed
<1> QED
    BY <1>1, UndisturbedInvariance, PTL
=============================================================================
