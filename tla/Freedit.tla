------------------------------ MODULE Freedit ------------------------------
(***************************************************************************)
(* cpp/freedit: request handlers and the cron job over one store.  The      *)
(* process may end between any two accesses; the store outlives it.         *)
(***************************************************************************)
EXTENDS EditPost, UserCron

CONSTANTS
  MaxCrashes  \* bound on the crashes of a behaviour

ASSUME CrashAssumption == MaxCrashes \in Nat

VARIABLES crashes

vars == <<db, handlers, sweeper, crashes>>

Init == DBInit /\ EditInit /\ CronInit /\ crashes = 0

\* The process dies: an abort, an uncaught exception of another thread, a signal.
Crash ==
  /\ crashes < MaxCrashes
  /\ crashes' = crashes + 1
  /\ pc' = [h \in Handlers |-> "idle"]
  /\ job' = [h \in Handlers |-> NoJob]
  /\ cron' = "asleep"
  /\ cursor' = 0
  /\ UNCHANGED <<db, served>>

Handle(h) == (Receive(h) \/ Serve(h)) /\ UNCHANGED <<sweeper, crashes>>

Cron == Sweep /\ UNCHANGED <<handlers, crashes>>

Clock ==
  /\ Tick
  /\ UNCHANGED <<counter, posts, tags, notifications, innPosts, userPosts,
                 innIndex, tan, drafts, lastWrites, stats, wrapped>>
  /\ UNCHANGED <<handlers, sweeper, crashes>>

Next == (\E h \in Handlers : Handle(h)) \/ Cron \/ Clock \/ Crash

\* The scheduler runs every thread, sleeps end and time passes.  No client has
\* to send a request and nothing has to crash.
Fairness ==
  /\ \A h \in Handlers : WF_vars(Serve(h) /\ UNCHANGED <<sweeper, crashes>>)
  /\ WF_vars(Cron)
  /\ WF_vars(Clock)

Spec     == Init /\ [][Next]_vars
FairSpec == Spec /\ Fairness

-----------------------------------------------------------------------------
\* The rows have the shape their trees have, the handlers and the cron job
\* hold what lines 412-649 let them hold.
TypeOK ==
  /\ DBTypeOK /\ EditTypeOK /\ CronTypeOK
  /\ crashes \in 0 .. MaxCrashes

\* No tree that lists posts names one that is not stored: whatever the handlers
\* do at once and wherever the process dies, a reader who follows a row of
\* inn_posts, user_posts, inn_index or tan finds a row of posts.
IndexedStored ==
  /\ \A row \in innPosts \cup innIndex : row[2] \in Stored
  /\ userPosts \cup tan \subseteq Stored

\* The store is a PostStore: posts and lists only grow, in that order.
Blog == INSTANCE PostStore
          WITH stored <- Stored, listed <- innPosts, owned <- userPosts,
               indexed <- innIndex, announced <- tan
ImplementsPostStore == Blog!Spec

\* The redirect to /post/iid/pid is sent only when the post is stored and its
\* rows are in place.  The one exception is a post whose row another edit is
\* moving, between inn_rm_index and inn_add_index.
RedirectMeansPublished ==
  \A h \in Handlers : pc[h] = "redirect" /\ Req(h) # NoRequest =>
    /\ job[h].pid \in Stored
    /\ IsNew(h) => Row(h) \in innPosts /\ job[h].pid \in userPosts
    /\ ~ Private(h) => job[h].pid \in tan
    /\ \/ Row(h) \in innIndex
       \/ \E g \in Handlers : At(g, "index") /\ Row(g) = Row(h)

\* As long as the process lives, each imported post is in the index of its inn,
\* but for moments: whoever takes its row out (line 591) is between there and
\* inn_add_index, however many edits move the row at once and whatever becomes
\* of them.  Only a crash between the two leaves a post out for good.
OnlyCrashesUnindex ==
  crashes = 0 =>
    \A row \in ImportedLists : row \in innIndex \/ \E h \in Handlers : At(h, "index") /\ Row(h) = row

\* update_stats never creates a row: the function it gives to incr_id leaves a
\* missing counter missing.  So a request gets past it only when the very key
\* of its second and user was imported; every other edit is answered with
\* "failed to increment id" although its post is stored and listed.
StatsNeverCreated ==
  /\ stats \subseteq InitStats
  /\ \A h \in Handlers :
       \/ pc[h] \in {"lastWrite", "tan"}
       \/ pc[h] = "redirect" /\ Req(h) # NoRequest
       => job[h].key \in InitStats

\* Of the statistics, only those go whose leading number lies in the past and
\* that no key which is not a number comes before: std::stoll rejects such a
\* key and ends the walk of clear_invalid each time.  Neither a row that the
\* walk holds while a handler counts it, nor one that a handler found missing
\* and update_and_fetch then removes, is an exception; only a row too short to
\* be counted is.
OnlyDueGo ==
  \A k \in InitStats \ (stats \cup ShortStats) :
    /\ Expired(k)
    /\ \A l \in InitStats \ ShortStats : l <= k => Lead[l] # NoNumber

\* A database without the row posts_count, or with one that is too short, never
\* gets one, and no new post is ever listed in it.
NothingWithoutCounter ==
  InitCount["posts_count"] \notin Ids =>
    counter["posts_count"] \notin Ids /\ innPosts = ImportedLists

\* update_and_fetch removes the row when the function returns nothing.  It
\* never takes away a counter that was there and could be read, however its two
\* halves interleave.
CounterNeverLost ==
  [][\A c \in Counters : counter[c] \in Ids => counter'[c] \in Ids]_counter

Moves(h) == pc'[h] # pc[h]

\* A new post is never given a number that is listed already, and a
\* notification never overwrites another, as long as uint32_t has not wrapped.
\* (One handler: the read and the write of incr_id are two steps; and keys of
\* notifications that came out with their number in them.)
FreshNumbers ==
  [][\A h \in Handlers :
       /\ At(h, "listInn") /\ pc'[h] = "listUser" /\ "posts_count" \notin wrapped =>
            \A row \in innPosts : row[2] # job[h].pid
       /\ At(h, "notify") /\ pc'[h] = "mention" /\ "notifications_count" \notin wrapped =>
            \A row \in notifications : row[1] # job[h].read]_vars

\* The request is the author's own edit of p, in the inn of p.
Author(h, p) ==
  /\ ~ IsNew(h) /\ job[h].pid = p
  /\ Imported[p].uid = Uid(h) /\ Imported[p].iid = Req(h).iid /\ Imported[p].normal

\* The tags of an imported post change, and through a public inn its row
\* changes, only by an edit of its author in its inn: the check at lines
\* 495-509 still stands when the tags and the post are written, whatever has
\* happened to the store in between.  A private inn has no such check.
AuthorEdits ==
  [][\A p \in DOMAIN Imported : "posts_count" \notin wrapped =>
       /\ (\E t \in Tags : (<<t, p>> \in tags) # (<<t, p>> \in tags')) =>
            \E h \in Handlers : Moves(h) /\ At(h, "tags") /\ Author(h, p)
       /\ posts[p] # posts'[p] =>
            \E h \in Handlers : /\ Moves(h) /\ At(h, "store") /\ job[h].pid = p
                                /\ ~ IsNew(h)
                                /\ Private(h) \/ Author(h, p)]_<<posts, tags>>

\* A post is written only for a session that is not banned, may post in the inn
\* and, when the site is read only, is an administrator's: every path to Store
\* has passed Claim::get and get_inn_role.
AdmittedStores ==
  [][\E h \in Handlers :
       /\ Moves(h) /\ At(h, "store")
       /\ Sessions[Req(h).cookie].role # 3
       /\ ReadOnly => Sessions[Req(h).cookie].role = 0
       /\ MayPost(Req(h).iid, Uid(h))]_posts

\* Every request is answered, or dies with the process.
Answered ==
  \A h \in Handlers : pc[h] # "idle" ~> pc[h] \in {"idle", "redirect", "failed"}

\* Statistics expire: a row whose leading number lies in the past is removed,
\* unless a key that is not a number comes before it.
Expiring ==
  {k \in InitStats : /\ Lead[k] # NoNumber /\ Lead[k] < MaxNow
                     /\ \A l \in InitStats : l < k => Lead[l] # NoNumber}
StatsExpire == \A k \in Expiring : k \in stats ~> k \notin stats
=============================================================================
