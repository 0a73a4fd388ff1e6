--------------------------- MODULE CatalogObjects ---------------------------
(***************************************************************************)
(* The Catalog service between its HTTP requests and its database: users   *)
(* add and delete objects, like and unlike them, comment on them and add   *)
(* photos; administrators delete objects, comments and tags and add tags.  *)
(*                                                                         *)
(* A request runs in a scope of its own, with its own database context.    *)
(* As in Transactions, a handler is cut where it awaits and what it reads  *)
(* between two cuts is one step; req[q] is what request q will do next.    *)
(* What a user does first copies the user and the login of the access      *)
(* token from the Authorization service, if they are not there yet.        *)
(***************************************************************************)
EXTENDS UserCopies, FiniteSets, Naturals

CONSTANTS
    LoginUser,      \* whose login it is: the answer of the Authorization service
    Objects,        \* identity column of the OfferedObjects table
    Entries,        \* keys of likes, comments, photos and views
    Tags,           \* identity column of the Tags table
    Names,          \* names of tags
    Gone            \* the row that was deleted: its key is not used again

OfferedObject == [owner : Users, status : {"Available", "Deleted"}]
Tag           == [name : Names, status : {"Ok", "Deleted"}]
\* The tables of likes, comments, photos and views, with the user of the login that
\* added the row.
Entry         == [kind : {"Like", "Comment", "Photo", "View"}, by : Users, object : Objects]

ASSUME CatalogObjectsAssumption ==
    /\ LoginUser \in [Logins -> Users]
    /\ IsFiniteSet(Requests) /\ IsFiniteSet(Entries) /\ IsFiniteSet(Tags)
    /\ NoRow \notin OfferedObject \cup Entry \cup Tag
    /\ Gone \notin Entry \cup {NoRow}

VARIABLES
    object,       \* table OfferedObjects
    entry,        \* tables ObjectLikes, ObjectComments, ObjectPhotos and ObjectViews
    tag,          \* table Tags
    published     \* objects for which an ObjectDeletedIntegrationEvent was published

\* What a user may ask for that needs the copy of the user.
Jobs == [op : {"AddLike", "Unlike", "AddComment", "AddView"}, object : Objects]
        \cup [op : {"AddObject"}]

vars == <<copies, object, entry, tag, req, published>>

InFlight ==
    {Idle} \cup Copying(Jobs)
    \cup [at : {"saveEntry"}, row : Entry]
    \cup [at : {"saveRemoval"}, entry : Entries]
    \cup [at : {"saveDeleted"}, object : Objects, announce : BOOLEAN]
    \cup [at : {"publish"}, object : Objects]
    \cup [at : {"saveTag"}, name : Names]
    \cup [at : {"saveTagDeleted"}, tag : Tags]

Init ==
    /\ InitCopies
    /\ object = [o \in Objects |-> NoRow]
    /\ entry = [e \in Entries |-> NoRow]
    /\ tag = [t \in Tags |-> NoRow]
    /\ req = [q \in Requests |-> Idle]
    /\ published = {}

-----------------------------------------------------------------------------
(* What the queries of the services select.                                *)

Available(o) == object[o] # NoRow /\ object[o].status = "Available"

Owns(u, o) == object[o] # NoRow /\ object[o].owner = u

\* The likes of user u on object o, whichever login they were given with.
PreviousLikes(u, o) == {e \in Entries : entry[e] = [kind |-> "Like", by |-> u, object |-> o]}

OkTags(n) == {t \in Tags : tag[t] = [name |-> n, status |-> "Ok"]}

-----------------------------------------------------------------------------
(* What a user does, once the catalog has a copy of the user.              *)

tables == <<object, entry, tag, published>>

\* A view is added for an object that was found; the other services look at the object
\* afterwards.
Begin(q, l, job) ==
    /\ job.op = "AddView" => Available(job.object)
    /\ AddCurrentUserIfNeeded(q, l, job)
    /\ UNCHANGED tables

CopyUser(q) ==
    /\ \/ GetLoginInformation(q, LoginUser[req[q].login])
       \/ SaveUser(q)
       \/ SaveLogin(q)
    /\ UNCHANGED tables

Performs(q, op) == req[q].at = "perform" /\ req[q].job.op = op
SaveNext(q, kind) ==
    Go(q, [at |-> "saveEntry",
           row |-> [kind |-> kind, by |-> req[q].user, object |-> req[q].job.object]])

\* Mutant of AddObject: the object is saved without its user.
AddObjectOfNobody(q) ==
    /\ Performs(q, "AddObject")
    /\ \E o \in Objects :
          /\ object[o] = NoRow
          /\ object' = [object EXCEPT ![o] = [owner |-> NoRow, status |-> "Available"]]
    /\ Reply(q)
    /\ UNCHANGED <<copies, entry, tag, published>>

\* SaveChanges is synchronous here. The tags the request names are looked up before.
AddObject(q) ==
    /\ Performs(q, "AddObject")
    /\ \E o \in Objects :
          /\ object[o] = NoRow
          /\ object' = [object EXCEPT ![o] = [owner |-> req[q].user, status |-> "Available"]]
    /\ Reply(q)
    /\ UNCHANGED <<copies, entry, tag, published>>

\* Mutant of AddLike: whether the user likes the object already is not looked up.
AddLikeAgain(q) ==
    /\ Performs(q, "AddLike")
    /\ IF Available(req[q].job.object) THEN SaveNext(q, "Like") ELSE Reply(q)
    /\ UNCHANGED <<copies, tables>>

AddLike(q) ==
    /\ Performs(q, "AddLike")
    /\ LET o == req[q].job.object IN
       IF Available(o) /\ PreviousLikes(req[q].user, o) = {} THEN SaveNext(q, "Like") ELSE Reply(q)
    /\ UNCHANGED <<copies, tables>>

\* Mutant of Unlike: any of the likes is deleted.
UnlikeAny(q) ==
    /\ Performs(q, "Unlike")
    /\ \/ \E e \in PreviousLikes(req[q].user, req[q].job.object) :
             Go(q, [at |-> "saveRemoval", entry |-> e])
       \/ Reply(q)
    /\ UNCHANGED <<copies, tables>>

\* Mutant of Unlike: the object may have been deleted.
UnlikeDeleted(q) ==
    /\ Performs(q, "Unlike")
    /\ LET mine == PreviousLikes(req[q].user, req[q].job.object) IN
       IF \E e \in mine : mine = {e}
       THEN \E e \in mine : Go(q, [at |-> "saveRemoval", entry |-> e])
       ELSE Reply(q)
    /\ UNCHANGED <<copies, tables>>

\* The like to delete is taken with SingleOrDefault, which throws where there are two.
Unlike(q) ==
    /\ Performs(q, "Unlike")
    /\ LET o == req[q].job.object
           mine == PreviousLikes(req[q].user, o) IN
       IF Available(o) /\ \E e \in mine : mine = {e}
       THEN \E e \in mine : Go(q, [at |-> "saveRemoval", entry |-> e])
       ELSE Reply(q)
    /\ UNCHANGED <<copies, tables>>

AddComment(q) ==
    /\ Performs(q, "AddComment")
    /\ IF Available(req[q].job.object) THEN SaveNext(q, "Comment") ELSE Reply(q)
    /\ UNCHANGED <<copies, tables>>

\* AddView is not awaited by the request that shows the object, and does not look at
\* the object again.
AddView(q) ==
    /\ Performs(q, "AddView")
    /\ SaveNext(q, "View")
    /\ UNCHANGED <<copies, tables>>

\* Who adds a photo is compared with the owner; the image is stored in between.
AddPhotoToObject(q, l, o) ==
    /\ req[q] = Idle
    /\ Owns(LoginUser[l], o) /\ Available(o)
    /\ Go(q, [at |-> "saveEntry",
              row |-> [kind |-> "Photo", by |-> LoginUser[l], object |-> o]])
    /\ UNCHANGED <<copies, tables>>

\* There is no unique index on who likes what: any row can be added.
SaveEntry(q) ==
    /\ req[q].at = "saveEntry"
    /\ \E e \in Entries :
          /\ entry[e] = NoRow
          /\ entry' = [entry EXCEPT ![e] = req[q].row]
    /\ Reply(q)
    /\ UNCHANGED <<copies, object, tag, published>>

\* A row that another request has deleted since makes the save fail.
SaveRemoval(q) ==
    /\ req[q].at = "saveRemoval"
    /\ entry' = [entry EXCEPT ![req[q].entry] = Gone]
    /\ Reply(q)
    /\ UNCHANGED <<copies, object, tag, published>>

\* Mutant of DeleteObject: the event is published before the object is saved.
DeletePublishedFirst(q, l, o) ==
    /\ req[q] = Idle
    /\ Owns(LoginUser[l], o) /\ Available(o)
    /\ published' = published \cup {o}
    /\ Go(q, [at |-> "saveDeleted", object |-> o, announce |-> FALSE])
    /\ UNCHANGED <<copies, object, entry, tag>>

\* The owner deletes the object: the event is published once it is saved.
DeleteObject(q, l, o) ==
    /\ req[q] = Idle
    /\ Owns(LoginUser[l], o) /\ Available(o)
    /\ Go(q, [at |-> "saveDeleted", object |-> o, announce |-> TRUE])
    /\ UNCHANGED <<copies, tables>>

SaveDeleted(q) ==
    /\ req[q].at = "saveDeleted"
    /\ LET o == req[q].object IN
       /\ object' = [object EXCEPT ![o].status = "Deleted"]
       /\ IF req[q].announce THEN Go(q, [at |-> "publish", object |-> o]) ELSE Reply(q)
    /\ UNCHANGED <<copies, entry, tag, published>>

PublishEvent(q) ==
    /\ req[q].at = "publish"
    /\ published' = published \cup {req[q].object}
    /\ Reply(q)
    /\ UNCHANGED <<copies, object, entry, tag>>

-----------------------------------------------------------------------------
(* What an administrator does.                                             *)

\* The administration controller calls the service that publishes nothing.
AuthorizedDelete(q, o) ==
    /\ req[q] = Idle
    /\ Available(o)
    /\ Go(q, [at |-> "saveDeleted", object |-> o, announce |-> FALSE])
    /\ UNCHANGED <<copies, tables>>

AuthorizedDeleteComment(q, e) ==
    /\ req[q] = Idle
    /\ entry[e] \notin {NoRow, Gone} /\ entry[e].kind = "Comment"
    /\ Go(q, [at |-> "saveRemoval", entry |-> e])
    /\ UNCHANGED <<copies, tables>>

\* Mutant of AddTag: the name is not looked up.
AddTagAgain(q, n) ==
    /\ req[q] = Idle
    /\ Go(q, [at |-> "saveTag", name |-> n])
    /\ UNCHANGED <<copies, tables>>

\* The image of the tag is stored between the check and the save.
AddTag(q, n) ==
    /\ req[q] = Idle
    /\ OkTags(n) = {}
    /\ Go(q, [at |-> "saveTag", name |-> n])
    /\ UNCHANGED <<copies, tables>>

SaveTag(q) ==
    /\ req[q].at = "saveTag"
    /\ \E t \in Tags :
          /\ tag[t] = NoRow
          /\ tag' = [tag EXCEPT ![t] = [name |-> req[q].name, status |-> "Ok"]]
    /\ Reply(q)
    /\ UNCHANGED <<copies, object, entry, published>>

\* A tag that is deleted already may be deleted again.
DeleteTag(q, t) ==
    /\ req[q] = Idle
    /\ tag[t] # NoRow
    /\ Go(q, [at |-> "saveTagDeleted", tag |-> t])
    /\ UNCHANGED <<copies, tables>>

SaveTagDeleted(q) ==
    /\ req[q].at = "saveTagDeleted"
    /\ tag' = [tag EXCEPT ![req[q].tag].status = "Deleted"]
    /\ Reply(q)
    /\ UNCHANGED <<copies, object, entry, published>>

-----------------------------------------------------------------------------
\* The handler of a new registration adds the recipient without a login (see
\* CatalogTransactions), while requests look users up.
AddUserIfNeeded(u) ==
    /\ u \notin user
    /\ user' = user \cup {u}
    /\ UNCHANGED <<login, req, tables>>

\* The request dies where it is; what was saved before stays saved.
Fail(q) ==
    /\ req[q] # Idle
    /\ Reply(q)
    /\ UNCHANGED <<copies, tables>>

Continue(q) ==
    \/ CopyUser(q)
    \/ AddObject(q) \/ AddLike(q) \/ Unlike(q) \/ AddComment(q) \/ AddView(q)
    \/ SaveEntry(q) \/ SaveRemoval(q) \/ SaveDeleted(q) \/ PublishEvent(q)
    \/ SaveTag(q) \/ SaveTagDeleted(q)

Request(q) ==
    \/ \E l \in Logins :
          \/ \E job \in Jobs : Begin(q, l, job)
          \/ \E o \in Objects : AddPhotoToObject(q, l, o) \/ DeleteObject(q, l, o)
    \/ \E o \in Objects : AuthorizedDelete(q, o)
    \/ \E e \in Entries : AuthorizedDeleteComment(q, e)
    \/ \E n \in Names : AddTag(q, n)
    \/ \E t \in Tags : DeleteTag(q, t)
    \/ Continue(q)

Next ==
    \/ \E q \in Requests : Request(q) \/ Fail(q)
    \/ \E u \in Users : AddUserIfNeeded(u)

Spec == Init /\ [][Next]_vars

-----------------------------------------------------------------------------
(* Properties.                                                             *)

TypeOK ==
    /\ user \subseteq Users
    /\ login \in [Logins -> Users \cup {NoRow}]
    /\ object \in [Objects -> OfferedObject \cup {NoRow}]
    /\ entry \in [Entries -> Entry \cup {NoRow, Gone}]
    /\ tag \in [Tags -> Tag \cup {NoRow}]
    /\ req \in [Requests -> InFlight]
    /\ published \subseteq Objects

\* Whatever is copied at the same time, a login is filed under its own user, and the
\* user of an object, of a like, of a comment, of a photo or of a view is one the
\* catalog has: no save meets a foreign key without its row.
RowsHaveTheirUser ==
    /\ \A l \in Logins : login[l] # NoRow => login[l] = LoginUser[l] /\ login[l] \in user
    /\ \A o \in Objects : object[o] # NoRow => object[o].owner \in user
    /\ \A e \in Entries : entry[e] \notin {NoRow, Gone} => entry[e].by \in user

\* The requests that have passed the check of AddLike and not saved yet.
Liking(u, o) ==
    {q \in Requests : req[q] = [at |-> "saveEntry",
                                row |-> [kind |-> "Like", by |-> u, object |-> o]]}

\* AddLike checks that the user has not liked the object before it saves, and the table
\* has no unique index: a user can get two likes on one object, by two requests at the
\* same time, but never more than run at the same time. (Where requests do not overlap,
\* one: what Unlike takes for granted.)
LikesAreBounded ==
    \A u \in Users, o \in Objects :
        Cardinality(PreviousLikes(u, o)) + Cardinality(Liking(u, o)) <= Cardinality(Requests)

\* The requests that have passed the check of AddTag and not saved yet.
Tagging(n) == {q \in Requests : req[q] = [at |-> "saveTag", name |-> n]}

\* AddTag checks that no Ok tag has the name, then stores an image, then saves: two Ok
\* tags of one name need two requests at the same time.
OkTagsAreBounded ==
    \A n \in Names :
        Cardinality(OkTags(n)) + Cardinality(Tagging(n)) <= Cardinality(Requests)

\* User u likes object o twice, and no request is about to delete one of these likes.
LikedTwice(u, o) ==
    /\ \E d, e \in PreviousLikes(u, o) : d # e
    /\ \A q \in Requests : req[q].at = "saveRemoval" => req[q].entry \notin PreviousLikes(u, o)

\* From then on Unlike throws for this user and object (SingleOrDefault) and nothing
\* else deletes a like: both stay for ever.
DoubleLikeStays ==
    [][\A u \in Users, o \in Objects : LikedTwice(u, o) => LikedTwice(u, o)']_vars

\* What belongs to object o.
On(o) == {e \in Entries : entry[e] \notin {NoRow, Gone} /\ entry[e].object = o}

\* Request q was begun while object o was there, and will save something about it.
Touches(q, o) ==
    \/ req[q].at = "saveEntry" /\ req[q].row.object = o
    \/ /\ req[q].at \in {"askLogin", "saveUser", "saveLogin", "perform"}
       /\ req[q].job.op = "AddView" /\ req[q].job.object = o
    \/ /\ req[q].at = "saveRemoval" /\ req[q].entry \in On(o)
       /\ entry[req[q].entry].kind # "Comment"

Settled(o) ==
    /\ object[o] # NoRow /\ object[o].status = "Deleted"
    /\ \A q \in Requests : ~Touches(q, o)

\* A request that found the object available may save a like, a comment, a photo or a
\* view of it after it was deleted. Once those requests are over, the object stays
\* deleted and all that ever happens to what belongs to it is that an administrator
\* deletes a comment.
DeletedObjectsSettle ==
    [][\A o \in Objects : Settled(o) =>
          /\ Settled(o)'
          /\ On(o)' \subseteq On(o)
          /\ \A e \in On(o) : entry'[e] = entry[e] \/ entry[e].kind = "Comment"]_vars

\* An object whose deletion was published is deleted, and stays so, whichever request
\* died in between and whoever else deletes it.
AnnouncedIsDeleted ==
    \A o \in published : object[o] # NoRow /\ object[o].status = "Deleted"
=============================================================================
