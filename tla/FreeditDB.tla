----------------------------- MODULE FreeditDB -----------------------------
(***************************************************************************)
(* The key-value store behind cpp/freedit: the trees that the handler of    *)
(* an edited post and the cron job of the user statistics share.  The       *)
(* store itself (cpp/freedit/flib) is a stub for a precompiled library:     *)
(* each get, insert, set, remove and apply_batch is one atomic, durable     *)
(* step.  What flib.hpp implements itself, update_and_fetch, is a get and   *)
(* then a set or a remove: two steps.                                       *)
(*                                                                         *)
(* A tree is the set of the keys it holds.  The values kept are those that  *)
(* the code reads back: the counters and the posts.                         *)
(***************************************************************************)
EXTENDS Integers, FiniteSets

CONSTANTS
  U32,         \* the number of values of a uint32_t
  Missing,     \* what get answers for a key the tree does not hold
  Short,       \* a row with fewer bytes than the uint32_t read from it
  Users,       \* keys of the tree "users"
  Sessions,    \* tree "session": a function from keys to claims
  Posters,     \* tree "inn_users": the <<iid, uid>> whose role is above Limited
  Inns,        \* keys of the tree "inns"
  Iids,        \* the inns a request may name
  Tags,        \* the tags, as numbers in the order of std::string
  Garbage,     \* keys read through iterators of two different vectors
  Imported,    \* the posts whose row holds the record itself
  InitCount,   \* the counters before the first request
  StatKeys,    \* keys of "user_stats", as numbers in the order of the tree
  Lead,        \* what std::stoll reads at the start of a key of "user_stats"
  NoNumber,    \* ... when the key starts with no number: it throws
  InitStats,   \* keys of "user_stats" before the first request
  ShortStats,  \* those of them whose row is too short
  MaxNow       \* bound of the clock

Ids      == 0 .. U32 - 1
Counts   == Ids \cup {Missing, Short}
Counters == {"posts_count", "notifications_count"}
Now      == 1 .. MaxNow
Claim    == [uid : Ids, role : 0 .. 3, expires : Nat, last_write : Int]
Record   == [uid : Ids, iid : Iids, normal : BOOLEAN]
Lists    == Iids \X Ids

\* The key of update_stats for a second and a user.  Smaller numbers are keys
\* that sort before every date, larger ones keys that sort after.
StatKey(t, uid) == t * U32 + uid

ASSUME WidthAssumption   == U32 \in Nat /\ U32 > 1
ASSUME MissingAssumption == Missing \notin Ids /\ Short \notin Ids /\ NoNumber \notin Nat
ASSUME TreeAssumption ==
  /\ Users \subseteq Ids
  /\ Inns \subseteq Iids
  /\ Posters \subseteq Iids \X Ids
  /\ Sessions \in [DOMAIN Sessions -> Claim]
  /\ Tags \subseteq Nat
  /\ StatKeys \subseteq Nat \ {0}
  /\ InitStats \subseteq StatKeys
  /\ ShortStats \subseteq InitStats
  /\ Lead \in [StatKeys -> Nat \cup {NoNumber}]
  /\ MaxNow \in Nat \ {0}
  /\ \A t \in Now, uid \in Ids : StatKey(t, uid) \in StatKeys

\* An imported post has the number of a post that was counted.
ASSUME ImportAssumption ==
  /\ InitCount \in [Counters -> Counts]
  /\ DOMAIN Imported \subseteq Ids
  /\ Imported \in [DOMAIN Imported -> Record]
  /\ InitCount["posts_count"] \in Ids =>
       \A p \in DOMAIN Imported : p <= InitCount["posts_count"]

VARIABLES
  counter,        \* tree "default": the counters of posts and notifications
  posts,          \* tree "posts": what the row of a number holds
  tags,           \* tree "tags": <<tag, pid>>
  notifications,  \* tree "notifications": <<key, pid>>
  innPosts,       \* tree "inn_posts": <<iid, pid>>
  userPosts,      \* tree "user_posts": the pid at the end of its keys
  innIndex,       \* tree "inn_index": <<iid, pid>>
  tan,            \* tree "tan": the posts announced in it
  drafts,         \* tree "drafts"
  lastWrites,     \* tree "sessions", which nothing reads
  stats,          \* tree "user_stats"
  now,            \* std::chrono::system_clock
  wrapped         \* history: the counters that passed the largest uint32_t

db == <<counter, posts, tags, notifications, innPosts, userPosts, innIndex,
        tan, drafts, lastWrites, stats, now, wrapped>>

DBTypeOK ==
  /\ counter \in [Counters -> Counts]
  /\ posts \in [Ids -> {"none", "record", "pointer"}]
  /\ tags \subseteq Tags \X Ids
  /\ notifications \subseteq (Ids \cup Garbage) \X Ids
  /\ innPosts \subseteq Lists
  /\ userPosts \subseteq Ids
  /\ innIndex \subseteq Lists
  /\ tan \subseteq Ids
  /\ drafts \subseteq Garbage
  /\ lastWrites \subseteq DOMAIN Sessions
  /\ stats \subseteq StatKeys
  /\ now \in Now
  /\ wrapped \subseteq Counters

\* An imported database: its posts are listed, indexed and tagged.
ImportedLists == {<<Imported[p].iid, p>> : p \in DOMAIN Imported}

DBInit ==
  /\ counter = InitCount
  /\ posts = [p \in Ids |-> IF p \in DOMAIN Imported THEN "record" ELSE "none"]
  /\ tags = Tags \X DOMAIN Imported
  /\ notifications = {}
  /\ innPosts = ImportedLists
  /\ userPosts = DOMAIN Imported
  /\ innIndex = ImportedLists
  /\ tan = {}
  /\ drafts = {}
  /\ lastWrites = {}
  /\ stats = InitStats
  /\ now = 1
  /\ wrapped = {}

Stored == {p \in Ids : posts[p] # "none"}

\* Mutants of Increment: no width; a missing counter starts at 1.
IncrementUnbounded(v) == IF v \in Ids THEN v + 1 ELSE Missing
IncrementSeeds(v)     == IF v \in Ids THEN (v + 1) % U32 ELSE 1

\* The function incr_id gives to update_and_fetch: from no row, and from one that
\* is too short, it makes none.
Increment(v) == IF v \in Ids THEN (v + 1) % U32 ELSE Missing

\* Mutants of Fetch: a new value of 0 counts as none; the set is forgotten.
FetchDropsZero(c, v) ==
  /\ counter' = [counter EXCEPT ![c] = IF Increment(v) = 0 THEN Missing ELSE Increment(v)]
  /\ wrapped' = wrapped
FetchForgets(c, v) == UNCHANGED <<counter, wrapped>>

\* The second half of update_and_fetch on a counter whose row was read as v: it
\* sets the row, or removes it.
Fetch(c, v) ==
  /\ counter' = [counter EXCEPT ![c] = Increment(v)]
  /\ wrapped' = IF Increment(v) = 0 THEN wrapped \cup {c} ELSE wrapped

\* get_one<Inn>, get_inn_role and Claim::get read trees that no code here writes.
MayPost(iid, uid) == <<iid, uid>> \in Posters

Tick ==
  /\ now < MaxNow
  /\ now' = now + 1
=============================================================================
