---------------------------- MODULE PlumeProofs ----------------------------
(***************************************************************************)
(* What deleteUserController deletes, and whom, for every number of users   *)
(* and rows and however often it dies and is called again.                 *)
(***************************************************************************)
EXTENDS Plume, TLAPS

\* Every variable keeps its type, and who is being deleted has a record.
THEOREM TypeCorrect == Spec => []TypeOK
<1>1. Init => TypeOK
  BY PlumeAssumption DEF Init, TypeOK
<1>2. TypeOK /\ [Next]_vars => TypeOK'
  <2> SUFFICES ASSUME TypeOK, [Next]_vars PROVE TypeOK'
    OBVIOUS
  <2>1. ASSUME NEW t \in Swept, DeleteAny(t)
        PROVE  rows' \in [Swept -> SUBSET Id] /\ posts' = posts
    BY <2>1 DEF DeleteAny, TypeOK
  <2>2. CASE DeleteBlogs
    BY <2>1, <2>2 DEF TypeOK, DeleteBlogs, Continue, Keep, Swept
  <2>3. CASE DeletePosts
    BY <2>3 DEF TypeOK, DeletePosts, Continue, DeletePost, Keep
  <2>4. CASE DeleteNotifications
    BY <2>1, <2>4 DEF TypeOK, DeleteNotifications, Continue, Swept
  <2>5. CASE DeleteComments
    BY <2>1, <2>5 DEF TypeOK, DeleteComments, Continue, Swept
  <2>6. CASE DeleteMedia
    BY <2>1, <2>6 DEF TypeOK, DeleteMedia, Continue, Swept
  <2>7. CASE DeleteRecord
    BY <2>7 DEF TypeOK, DeleteRecord, Continue, Keep
  <2>8. CASE Die
    BY <2>8 DEF TypeOK, Die, Keep
  <2>9. CASE \E u \in User : DeleteUserController(u)
    BY <2>9 DEF TypeOK, DeleteUserController, Keep
  <2>10. CASE UNCHANGED vars
    BY <2>10 DEF TypeOK, vars
  <2> QED
    BY <2>2, <2>3, <2>4, <2>5, <2>6, <2>7, <2>8, <2>9, <2>10 DEF Next, Work
<1> QED BY <1>1, <1>2, PTL DEF Spec

-----------------------------------------------------------------------------
\* The tables in which the controller still has to find a row with the user's
\* number, and where it goes from each of its points.
Needed(at) == CASE at = "blogs"         -> Swept
                [] at = "posts"         -> Swept \ {"blogs"}
                [] at = "notifications" -> {"notifications", "comments", "media"}
                [] at = "comments"      -> {"comments", "media"}
                [] at = "media"         -> {"media"}
                [] at = "record"        -> {}
After(at)  == CASE at = "blogs"         -> "posts"
                [] at = "posts"         -> "notifications"
                [] at = "notifications" -> "comments"
                [] at = "comments"      -> "media"
                [] at = "media"         -> "record"
Looks(at)  == IF at = "posts" THEN "post_authors" ELSE at

Points == {"blogs", "posts", "notifications", "comments", "media"}

\* What is needed at a point: the table looked at there and what is needed after.
LEMMA NeededNext ==
  \A at \in Points :
    /\ Needed(at) = {Looks(at)} \cup Needed(After(at)) /\ Looks(at) \notin Needed(After(at))
    /\ Needed(at) \subseteq Swept /\ Needed(After(at)) \subseteq Swept
    /\ After(at) \in Points \cup {"record"}
  BY DEF Points, Needed, After, Looks, Swept

\* A step of the controller: it dies, or finds what it looks for and goes on;
\* no table loses a row but the one it looks at, and that only the user's.
LEMMA AStep ==
  ASSUME TypeOK, Next, pc \in Points
  PROVE  /\ IF user \in rows[Looks(pc)] THEN pc' = After(pc) ELSE pc' = "idle"
         /\ user' = user /\ users' = users
         /\ \A t \in Swept : rows'[t] = rows[t] \/ (t = Looks(pc) /\ rows'[t] = rows[t] \ {user})
<1>1. ASSUME NEW t \in Swept, DeleteAny(t)
      PROVE  \A s \in Swept : rows'[s] = rows[s] \/ (s = t /\ rows'[s] = rows[s] \ {user})
  BY <1>1 DEF DeleteAny, TypeOK
<1>2. CASE DeleteBlogs
  BY <1>1, <1>2 DEF DeleteBlogs, Continue, Keep, Found, Looks, After, Swept
<1>3. CASE DeletePosts
  BY <1>3 DEF DeletePosts, Continue, DeletePost, Keep, Found, Looks, After
<1>4. CASE DeleteNotifications
  BY <1>1, <1>4 DEF DeleteNotifications, Continue, Found, Looks, After, Swept
<1>5. CASE DeleteComments
  BY <1>1, <1>5 DEF DeleteComments, Continue, Found, Looks, After, Swept
<1>6. CASE DeleteMedia
  BY <1>1, <1>6 DEF DeleteMedia, Continue, Found, Looks, After, Swept
<1>7. CASE Die
  BY <1>7 DEF Die, Keep, Found, Looks
<1>8. CASE DeleteRecord \/ \E u \in User : DeleteUserController(u)
  BY <1>8 DEF DeleteRecord, DeleteUserController, Continue, Points
<1> QED BY <1>2, <1>3, <1>4, <1>5, <1>6, <1>7, <1>8 DEF Next, Work

\* There is a row with the user's number wherever the controller will look.
Provided == pc # "idle" /\ \A t \in Needed(pc) : user \in rows[t]

\* A deletion goes from find to find, and none takes away what a later one
\* needs, so that it never dies in the middle: whose number is in every table is
\* five tables and the record later no user (main.cpp:177-224).
THEOREM CompleteUsersAdvance ==
  Spec => /\ [](pc = "blogs" /\ HasAll(user) => Provided)
          /\ [][Provided => \/ pc # "record" /\ Provided' /\ pc' = After(pc) /\ user' = user
                            \/ pc = "record" /\ pc' = "idle" /\ user \notin users']_vars
<1> DEFINE Goes == Provided => \/ pc # "record" /\ Provided' /\ pc' = After(pc) /\ user' = user
                               \/ pc = "record" /\ pc' = "idle" /\ user \notin users'
<1>1. pc = "blogs" /\ HasAll(user) => Provided
  BY DEF HasAll, Provided, Needed
<1>2. TypeOK /\ [Next]_vars => [Goes]_vars
  <2> SUFFICES ASSUME TypeOK, Next, Provided
               PROVE  \/ pc # "record" /\ Provided' /\ pc' = After(pc) /\ user' = user
                      \/ pc = "record" /\ pc' = "idle" /\ user \notin users'
    OBVIOUS
  <2>1. CASE pc = "record"
    BY <2>1 DEF Next, Work, DeleteBlogs, DeletePosts, DeleteNotifications, DeleteComments,
                DeleteMedia, DeleteRecord, Die, DeleteUserController, Continue
  <2>2. CASE pc \in Points
    <3>1. pc' = After(pc) /\ user' = user /\ pc' # "idle" /\ pc # "record"
      BY <2>2, AStep, NeededNext DEF Provided, Points
    <3>2. \A t \in Needed(After(pc)) : user \in rows'[t]
      BY <2>2, AStep, NeededNext DEF Provided
    <3> QED BY <3>1, <3>2 DEF Provided
  <2> QED BY <2>1, <2>2 DEF TypeOK, Provided, Points
<1> QED BY <1>1, <1>2, TypeCorrect, PTL DEF Spec

\* Who is doomed: there is no row with the number in some table, and if that is
\* who is being deleted, in one that is still to be looked at.
Doomed(u) ==
  /\ u \in users /\ ~ HasAll(u)
  /\ pc # "idle" /\ user = u => \E t \in Needed(pc) : u \notin rows[t]

\* Whose number is missing in one of the tables is never deleted, however many
\* attempts are made, by this user and by others.
THEOREM LackingUsersRemain == Spec => LackingUsersStay
<1> SUFFICES ASSUME NEW u \in User
             PROVE  Spec => [](pc = "blogs" /\ user = u /\ ~ HasAll(u) => [](u \in users))
  BY DEF LackingUsersStay
<1>1. TypeOK /\ pc = "blogs" /\ user = u /\ ~ HasAll(u) => Doomed(u)
  BY DEF TypeOK, Doomed, HasAll, Needed
<1>2. TypeOK /\ Doomed(u) /\ [Next]_vars => Doomed(u)'
  <2> SUFFICES ASSUME TypeOK, Doomed(u), [Next]_vars PROVE Doomed(u)'
    OBVIOUS
  <2>1. CASE Next /\ pc \in Points
    <3>1. u \in users' /\ ~ HasAll(u)'
      BY <2>1, AStep DEF Doomed, HasAll
    <3>2. ASSUME pc' # "idle", user' = u PROVE \E t \in Needed(pc') : u \notin rows'[t]
      <4>1. user = u /\ user \in rows[Looks(pc)] /\ pc' = After(pc)
        BY <2>1, <3>2, AStep
      <4>2. PICK t \in Needed(pc) : u \notin rows[t]
        BY <2>1, <4>1 DEF Doomed, Points
      <4>3. t \in Needed(After(pc)) /\ t \in Swept
        BY <2>1, <4>1, <4>2, NeededNext
      <4>4. u \notin rows'[t]
        BY <2>1, <4>2, <4>3, AStep
      <4> QED BY <4>1, <4>3, <4>4
    <3> QED BY <3>1, <3>2 DEF Doomed
  <2>2. CASE Next /\ pc = "record"
    <3>1. user # u
      BY <2>2 DEF Doomed, Needed
    <3>2. pc' = "idle" /\ users' = users \ {user} /\ rows' = rows
      BY <2>2 DEF Next, Work, DeleteBlogs, DeletePosts, DeleteNotifications, DeleteComments,
                  DeleteMedia, DeleteRecord, Die, DeleteUserController, Continue, Keep
    <3> QED BY <3>1, <3>2 DEF Doomed, HasAll
  <2>3. CASE Next /\ pc = "idle"
    <3>1. pc' = "blogs" /\ UNCHANGED <<rows, users>>
      BY <2>3 DEF Next, Work, DeleteBlogs, DeletePosts, DeleteNotifications, DeleteComments,
                  DeleteMedia, DeleteRecord, Die, DeleteUserController, Continue, Keep
    <3>2. Needed(pc') = Swept
      BY <3>1 DEF Needed
    <3> QED BY <3>1, <3>2 DEF Doomed, HasAll
  <2>4. CASE UNCHANGED vars
    BY <2>4 DEF vars, Doomed, HasAll, Needed
  <2> QED BY <2>1, <2>2, <2>3, <2>4 DEF TypeOK, Points
<1>3. Doomed(u) => u \in users
  BY DEF Doomed
<1> QED BY <1>1, <1>2, <1>3, TypeCorrect, PTL DEF Spec

-----------------------------------------------------------------------------
\* Whichever post is meant, only that with the number of the connection goes,
\* whosever it is; and only while there is an authorship with the user's number.
THEOREM OnlyThePostOfConn ==
  Spec => [][\A i \in GonePosts : i = ConnId /\ user \in rows["post_authors"]]_vars
<1> DEFINE One == \A i \in GonePosts : i = ConnId /\ user \in rows["post_authors"]
<1>1. TypeOK /\ [Next]_vars => [One]_vars
  <2> SUFFICES ASSUME TypeOK, Next PROVE One
    OBVIOUS
  <2>1. CASE DeletePosts
    BY <2>1 DEF DeletePosts, DeletePost, Keep, GonePosts, Found, TypeOK
  <2>2. CASE ~ DeletePosts
    <3>1. posts' = posts
      BY <2>2 DEF Next, Work, DeleteBlogs, DeleteNotifications, DeleteComments, DeleteMedia,
                  DeleteRecord, Die, DeleteUserController, DeleteAny, Keep
    <3> QED BY <3>1 DEF GonePosts
  <2> QED BY <2>1, <2>2
<1> QED BY <1>1, TypeCorrect, PTL DEF Spec
=============================================================================
