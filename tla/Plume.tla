------------------------------- MODULE Plume -------------------------------
(***************************************************************************)
(* cpp/plume: deleting a user.  The database is external (lib.cpp has       *)
(* dummies): the program knows find, count and deleteRow of a Connection,   *)
(* each for the id of a row.  The lookups pass the number of the user as    *)
(* the id, so that what is found of a kind is the row with that number,     *)
(* whosever it is.  A row that is not there is an empty Row, and its first  *)
(* value cannot be read: the process dies, what was deleted so far stays    *)
(* deleted, and the user may ask again.                                     *)
(***************************************************************************)
EXTENDS Naturals

CONSTANTS
  Id,        \* row ids
  User,      \* the ids of the rows of the table users
  None,
  ConnId,    \* conn.id, 1 in every Connection
  InitRows,  \* the rows that a table may have to begin with
  InitPosts  \* whose the posts may be

ASSUME PlumeAssumption ==
  /\ User \subseteq Id /\ None \notin User
  /\ ConnId \in Id
  /\ InitRows \subseteq SUBSET Id
  /\ InitPosts \subseteq [Id -> User \cup {None}]

Swept == {"blogs", "post_authors", "notifications", "comments", "media"}

VARIABLES
  rows,    \* the ids of the rows there are, by table
  posts,   \* by id, whose post it is, or None
  users,   \* the rows of the table users
  pc,      \* the loop of deleteUserController
  user     \* id()

vars == <<rows, posts, users, pc, user>>

Init ==
  /\ rows \in [Swept -> InitRows]
  /\ posts \in InitPosts
  /\ users = User
  /\ pc = "idle" /\ user = None

\* find, and fromRow of what it gives.
Found(t) == user \in rows[t]

\* deleteRow of the row that was found.
DeleteAny(t) == rows' = [rows EXCEPT ![t] = @ \ {user}] /\ UNCHANGED posts
DeletePost   == posts' = [posts EXCEPT ![ConnId] = None] /\ UNCHANGED rows
Keep         == UNCHANGED <<rows, posts>>

Continue(at, to) == pc = at /\ pc' = to /\ UNCHANGED user

DeleteUserController(u) ==
  /\ pc = "idle"
  /\ u \in users
  /\ user' = u
  /\ pc' = "blogs"
  /\ Keep /\ UNCHANGED users

\* countAuthors and countOtherAuthors give what count gives for an id, without
\* a table: anything.
DeleteBlogs ==
  /\ Continue("blogs", "posts")
  /\ Found("blogs")
  /\ \E count \in 0 .. 2 : IF count <= 1 THEN DeleteAny("blogs") ELSE Keep
  /\ UNCHANGED users

\* Mutant of DeletePosts: the controller gives up at the post of another author.
DeletePostsOrStop ==
  /\ Found("post_authors")
  /\ \E count \in 0 .. 2 :
       IF count = 0 THEN DeletePost /\ Continue("posts", "notifications")
                    ELSE Keep /\ Continue("posts", "idle")
  /\ UNCHANGED users

\* getPost is the post with the number of the connection, whichever is meant.
DeletePosts ==
  /\ Continue("posts", "notifications")
  /\ Found("post_authors")
  /\ \E count \in 0 .. 2 : IF count = 0 THEN DeletePost ELSE Keep
  /\ UNCHANGED users

DeleteNotifications ==
  /\ Continue("notifications", "comments")
  /\ Found("notifications") /\ DeleteAny("notifications")
  /\ UNCHANGED users

DeleteComments ==
  /\ Continue("comments", "media")
  /\ Found("comments") /\ DeleteAny("comments")
  /\ UNCHANGED users

DeleteMedia ==
  /\ Continue("media", "record")
  /\ Found("media") /\ DeleteAny("media")
  /\ UNCHANGED users

\* conn.deleteAny(*this)
DeleteRecord ==
  /\ Continue("record", "idle")
  /\ users' = users \ {user}
  /\ Keep

\* Mutant of Die: media that are not there are none to delete.
DieUnlessMedia ==
  /\ pc \in {"blogs", "posts", "notifications", "comments", "media"}
  /\ ~ Found(IF pc = "posts" THEN "post_authors" ELSE pc)
  /\ pc' = IF pc = "media" THEN "record" ELSE "idle"
  /\ Keep /\ UNCHANGED <<users, user>>

\* fromRow of an empty Row.
Die ==
  /\ pc \in {"blogs", "posts", "notifications", "comments", "media"}
  /\ ~ Found(IF pc = "posts" THEN "post_authors" ELSE pc)
  /\ pc' = "idle"
  /\ Keep /\ UNCHANGED <<users, user>>

Work == \/ DeleteBlogs \/ DeletePosts \/ DeleteNotifications
        \/ DeleteComments \/ DeleteMedia \/ DeleteRecord \/ Die

Next == Work \/ \E u \in User : DeleteUserController(u)

Spec     == Init /\ [][Next]_vars
FairSpec == Spec /\ WF_vars(Work)

-----------------------------------------------------------------------------
TypeOK ==
  /\ rows \in [Swept -> SUBSET Id]
  /\ posts \in [Id -> User \cup {None}]
  /\ users \subseteq User
  /\ pc \in {"idle", "blogs", "posts", "notifications", "comments", "media", "record"}
  /\ user \in User \cup {None}
  /\ pc # "idle" => user \in users

\* Somebody whose number is that of a row of every kind is deleted, however many
\* authors the counts give.
HasAll(u) == \A t \in Swept : u \in rows[t]
CompleteUsersGo == \A u \in User : (pc = "blogs" /\ user = u /\ HasAll(u)) ~> u \notin users

\* And nobody else ever is: a deletion that has died took rows with it that the
\* next attempt will not find, so that no number of attempts, by this user and
\* by the others, brings it to the record.
LackingUsersStay ==
  \A u \in User : [](pc = "blogs" /\ user = u /\ ~ HasAll(u) => [](u \in users))

GonePosts == {i \in Id : posts[i] # None /\ posts'[i] = None}

\* "Delete posts where the user is the only author" (main.cpp:189).
OnlyOwnPosts == [][\A i \in GonePosts : posts[i] = user]_vars

\* "Finally, delete the user record" (main.cpp:222).
RecordGoes == \A u \in User : (pc = "blogs" /\ user = u) ~> u \notin users
=============================================================================
