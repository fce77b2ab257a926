--------------------------- MODULE FreeditCounts ---------------------------
(***************************************************************************)
(* Further proofs about module Freedit: the counters and the statistics     *)
(* (what update_and_fetch may take away and create, what the cron job       *)
(* removes), who may post and edit, what a redirect promises, when numbers  *)
(* are fresh, that requests end, and which tags a post gets.                *)
(***************************************************************************)
EXTENDS FreeditProofs

\* Every action of a handler, and the operators that move it.
USE DEF At

-----------------------------------------------------------------------------
(* Counters.  A counter is missing for ever, or never; so is what a handler *)
(* has read of it.                                                         *)

\* What h has read of a counter it is about to set.
ReadOK(h) ==
  /\ pc[h] = "pidSet" => (job[h].read \notin Ids <=> InitCount["posts_count"] \notin Ids)
  /\ pc[h] = "nidSet" => (job[h].read \notin Ids <=> InitCount["notifications_count"] \notin Ids)

\* Without posts_count, who is past the number of the post edits an old one.
PastPid == {"check", "tags", "mention", "nidGet", "nidSet", "notify", "store", "listInn"}
OldOnly(h) == InitCount["posts_count"] \notin Ids => (pc[h] \in PastPid => ~ IsNew(h) /\ pc[h] # "listInn")

CountInv ==
  /\ \A c \in Counters : counter[c] \notin Ids <=> InitCount[c] \notin Ids
  /\ InitCount["posts_count"] \notin Ids => innPosts = ImportedLists
  /\ \A h \in Handlers : ReadOK(h) /\ OldOnly(h)

LEMMA IncrementKeeps ==
  ASSUME NEW v \in Counts
  PROVE  Increment(v) \notin Ids <=> v \notin Ids
<1>1. CASE v \in Ids
  <2>1. Increment(v) \in Ids
    BY <1>1, IncrementType
  <2>. QED
    BY <1>1, <2>1
<1>2. CASE v \notin Ids
  BY <1>2, MissingAssumption DEF Increment
<1>. QED
  BY <1>1, <1>2

\* A row of the statistics is counted when it is there and long enough.
LEMMA StatRowCounts ==
  ASSUME NEW k
  PROVE  StatRow(k) \in Ids <=> k \in stats \ ShortStats
<1>1. 0 \in Ids /\ Missing \notin Ids /\ Short \notin Ids
  BY ZeroIsCounted, MissingAssumption
<1>. QED
  BY <1>1 DEF StatRow

\* The steps that set a counter.
LEMMA CountSet ==
  ASSUME TypeOK, CountInv, NEW h \in Handlers, PidSet(h) \/ NidSet(h)
  PROVE  \A c \in Counters : counter'[c] \notin Ids <=> InitCount[c] \notin Ids
<1>1. job[h].read \in Counts /\ counter \in [Counters -> Counts]
  BY AtWork DEF TypeOK, DBTypeOK, Job
<1>2. Increment(job[h].read) \notin Ids <=> job[h].read \notin Ids
  BY <1>1, IncrementKeeps
<1>3. CASE PidSet(h)
  <2>1. pc[h] = "pidSet" /\ counter' = [counter EXCEPT !["posts_count"] = Increment(job[h].read)]
    BY <1>3 DEF PidSet, IncrSet, Fetch
  <2>2. job[h].read \notin Ids <=> InitCount["posts_count"] \notin Ids
    BY <2>1 DEF CountInv, ReadOK
  <2>. QED
    BY <1>1, <1>2, <2>1, <2>2 DEF CountInv, Counters
<1>4. CASE NidSet(h)
  <2>1. pc[h] = "nidSet" /\ counter' = [counter EXCEPT !["notifications_count"] = Increment(job[h].read)]
    BY <1>4 DEF NidSet, IncrSet, Fetch
  <2>2. job[h].read \notin Ids <=> InitCount["notifications_count"] \notin Ids
    BY <2>1 DEF CountInv, ReadOK
  <2>. QED
    BY <1>1, <1>2, <2>1, <2>2 DEF CountInv, Counters
<1>. QED
  BY <1>3, <1>4

\* The other steps of a handler leave the counters alone.
LEMMA CountStays ==
  ASSUME NEW h \in Handlers, Receive(h) \/ Serve(h), ~ PidSet(h), ~ NidSet(h)
  PROVE  counter' = counter
BY DEF Receive, Serve, Login, WriteDraft, Admit, PidGet, CheckOld, ApplyTags,
       Mention, NidGet, Notify, Store, ListInn, ListUser, inn_rm_index,
       inn_add_index, StatGet, StatSet, LastWrite, Announce, IncrGet, db

LEMMA ReadStep ==
  ASSUME TypeOK, CountInv, NEW h \in Handlers, Receive(h) \/ Serve(h)
  PROVE  ReadOK(h)'
<1>1. EditTypeOK /\ job[h] \in Job
  BY AtWork DEF TypeOK
<1>2. CASE pc'[h] \notin {"pidSet", "nidSet"}
  BY <1>2 DEF ReadOK
<1>3. CASE pc'[h] \in {"pidSet", "nidSet"}
  <2>1. PidGet(h) \/ NidGet(h)
    BY <1>1, <1>3 DEF EditTypeOK, Receive, Serve, Login, WriteDraft, Admit,
         PidSet, CheckOld, ApplyTags, Mention, MentionId, NidSet, Notify, Store,
         ListInn, ListUser, inn_rm_index, inn_add_index, StatGet, StatSet,
         LastWrite, Announce, IncrSet, Throw, Goto, GotoWith
  <2>2. CASE PidGet(h)
    BY <1>1, <2>2 DEF PidGet, IncrGet, GotoWith, EditTypeOK, Job, ReadOK, CountInv, Counters
  <2>3. CASE NidGet(h)
    BY <1>1, <2>3 DEF NidGet, IncrGet, GotoWith, EditTypeOK, Job, ReadOK, CountInv, Counters
  <2>. QED
    BY <2>1, <2>2, <2>3
<1>. QED
  BY <1>2, <1>3

\* The request of a handler at work stays the same.
LEMMA SameRequest ==
  ASSUME TypeInv, NEW h \in Handlers, Serve(h)
  PROVE  job'[h].req = job[h].req \/ pc'[h] \in Quiet
<1>1. EditTypeOK /\ job[h] \in Job /\ TypeOK /\ HandOK(h)
  BY AtWork DEF TypeInv, TypeOK
<1>2. pc[h] \in {"nidGet", "nidSet", "notify"} => NextMention(h).req = job[h].req
  BY <1>1, NextMentionType DEF HandOK, Req
<1>3. CASE Notify(h)
  BY <1>1, <1>2, <1>3, NextMentionType DEF Notify, GotoWith, EditTypeOK, Job, HandOK
<1>4. CASE Mention(h)
  BY <1>1, <1>4, NextMentionType
  DEF Mention, MentionId, Goto, GotoWith, Throw, EditTypeOK, Quiet, Req
<1>5. CASE Login(h) \/ WriteDraft(h)
  BY <1>1, <1>5 DEF EditTypeOK, Login, WriteDraft, Throw, Goto, GotoWith, Quiet
<1>6. CASE Admit(h)
  <2>1. ASSUME NEW private \in BOOLEAN
        PROVE  [job[h] EXCEPT !.pid = Req(h).old_pid, !.private = private,
                              !.todo = Req(h).mentions].req = job[h].req
    BY <1>1 DEF Job
  <2>. QED
    BY <1>1, <1>6, <2>1 DEF EditTypeOK, Admit, Throw, GotoWith, Quiet
<1>7. CASE PidGet(h) \/ NidGet(h)
  <2>1. \A c \in Counters : [job[h] EXCEPT !.read = counter[c]].req = job[h].req
    BY <1>1 DEF Job
  <2>. QED
    BY <1>1, <1>7, <2>1 DEF EditTypeOK, PidGet, NidGet, IncrGet, GotoWith, Counters
<1>8. CASE PidSet(h)
  <2>1. [job[h] EXCEPT !.pid = Increment(job[h].read), !.read = Missing].req = job[h].req
    BY <1>1 DEF Job
  <2>. QED
    BY <1>1, <1>8, <2>1 DEF EditTypeOK, PidSet, IncrSet, Throw, GotoWith, Quiet
<1>9. CASE NidSet(h)
  <2>1. [job[h] EXCEPT !.read = Increment(job[h].read)].req = job[h].req
    BY <1>1 DEF Job
  <2>. QED
    BY <1>1, <1>9, <2>1 DEF EditTypeOK, NidSet, IncrSet, Throw, GotoWith, Quiet
<1>10. CASE CheckOld(h) \/ ApplyTags(h) \/ Store(h) \/ ListInn(h) \/ ListUser(h)
            \/ inn_rm_index(h) \/ inn_add_index(h) \/ LastWrite(h) \/ Announce(h)
  BY <1>1, <1>10 DEF EditTypeOK, CheckOld, ApplyTags, Store, ListInn, ListUser,
                     inn_rm_index, inn_add_index, LastWrite, Announce, Throw, Goto,
                     GotoWith, Quiet
<1>11. CASE StatGet(h)
  <2>1. [job[h] EXCEPT !.key = StatKey(now, Uid(h)),
                       !.read = StatRow(StatKey(now, Uid(h)))].req = job[h].req
    BY <1>1 DEF Job
  <2>. QED
    BY <1>1, <1>11, <2>1 DEF EditTypeOK, StatGet, GotoWith
<1>12. CASE StatSet(h)
  <2>1. [job[h] EXCEPT !.read = Missing].req = job[h].req
    BY <1>1 DEF Job
  <2>. QED
    BY <1>1, <1>12, <2>1 DEF EditTypeOK, StatSet, Throw, GotoWith, Quiet
<1>. QED
  BY <1>3, <1>4, <1>5, <1>6, <1>7, <1>8, <1>9, <1>10, <1>11, <1>12 DEF Serve

LEMMA OldStep ==
  ASSUME TypeInv, CountInv, NEW h \in Handlers, Receive(h) \/ Serve(h)
  PROVE  OldOnly(h)'
<1> SUFFICES ASSUME InitCount["posts_count"] \notin Ids, pc'[h] \in PastPid
             PROVE  ~ IsNew(h)' /\ pc'[h] # "listInn"
  BY DEF OldOnly
<1>1. EditTypeOK /\ job[h] \in Job /\ OldOnly(h) /\ ReadOK(h)
  BY AtWork DEF TypeInv, TypeOK, CountInv
<1>2. Serve(h)
  BY <1>1 DEF Receive, PastPid, EditTypeOK
<1>3. job'[h].req = job[h].req
  BY <1>2, SameRequest DEF PastPid, Quiet
<1>4. CASE pc[h] \in PastPid
  <2>1. ~ IsNew(h) /\ pc[h] # "listInn"
    BY <1>1, <1>4 DEF OldOnly
  <2>2. pc'[h] # "listInn"
    BY <1>1, <1>2, <1>4, <2>1
    DEF EditTypeOK, PastPid, Serve, Login, WriteDraft, Admit, PidGet, PidSet,
         CheckOld, ApplyTags, Mention, MentionId, NidGet, NidSet, Notify, Store,
         ListInn, ListUser, inn_rm_index, inn_add_index, StatGet, StatSet,
         LastWrite, Announce, IncrGet, IncrSet, Throw, Goto, GotoWith
  <2>. QED
    BY <1>3, <2>1, <2>2 DEF IsNew, Req
<1>5. CASE pc[h] \notin PastPid
  <2>1. Admit(h) \/ PidSet(h)
    BY <1>1, <1>2, <1>5
    DEF EditTypeOK, PastPid, Serve, Login, WriteDraft, PidGet,
         CheckOld, ApplyTags, Mention, MentionId, NidGet, NidSet, Notify, Store,
         ListInn, ListUser, inn_rm_index, inn_add_index, StatGet, StatSet,
         LastWrite, Announce, IncrGet, IncrSet, Throw, Goto, GotoWith
  <2>2. CASE Admit(h)
    BY <1>1, <1>3, <2>2 DEF Admit, Throw, GotoWith, EditTypeOK, PastPid, IsNew, Req
  <2>3. CASE PidSet(h)
    BY <1>1, <2>3 DEF PidSet, IncrSet, Throw, GotoWith, EditTypeOK, PastPid, ReadOK
  <2>. QED
    BY <2>1, <2>2, <2>3
<1>. QED
  BY <1>4, <1>5

\* Lists of inns are written by ListInn only.
LEMMA ListStep ==
  ASSUME TypeInv, CountInv, NEW h \in Handlers, Receive(h) \/ Serve(h),
         InitCount["posts_count"] \notin Ids
  PROVE  innPosts' = innPosts
<1>1. ~ ListInn(h)
  BY DEF ListInn, CountInv, OldOnly, PastPid
<1>. QED
  BY <1>1 DEF Receive, Serve, Login, WriteDraft, Admit, PidGet, PidSet, CheckOld,
       ApplyTags, Mention, NidGet, NidSet, Notify, Store, ListUser, inn_rm_index,
       inn_add_index, StatGet, StatSet, LastWrite, Announce, IncrGet, IncrSet, db

LEMMA CountInit == Init => CountInv
BY DEF Init, DBInit, EditInit, CountInv, ReadOK, OldOnly, PastPid

LEMMA CountStep == TypeInv /\ CountInv /\ [Next]_vars => CountInv'
<1> SUFFICES ASSUME TypeInv, CountInv, [Next]_vars PROVE CountInv'
  OBVIOUS
<1>0. TypeOK /\ EditTypeOK
  BY DEF TypeInv, TypeOK
<1>1. ASSUME NEW h \in Handlers, Handle(h)
      PROVE  CountInv'
  <2>0. Receive(h) \/ Serve(h)
    BY <1>1 DEF Handle
  <2>1. \A c \in Counters : counter'[c] \notin Ids <=> InitCount[c] \notin Ids
    BY <1>0, <2>0, CountSet, CountStays DEF CountInv
  <2>2. InitCount["posts_count"] \notin Ids => innPosts' = ImportedLists
    BY <2>0, ListStep DEF CountInv
  <2>3. ASSUME NEW g \in Handlers
        PROVE  ReadOK(g)' /\ OldOnly(g)'
    <3>1. CASE g = h
      BY <1>0, <2>0, <3>1, ReadStep, OldStep
    <3>2. CASE g # h
      <4>1. pc'[g] = pc[g] /\ job'[g] = job[g]
        BY <1>0, <2>0, <3>2, OthersStay
      <4>. QED
        BY <4>1 DEF CountInv, ReadOK, OldOnly, IsNew, Req
    <3>. QED
      BY <3>1, <3>2
  <2>. QED
    BY <2>1, <2>2, <2>3 DEF CountInv
<1>2. CASE Cron
  BY <1>2 DEF Cron, Sweep, Wake, Advance, Judge, db, handlers, CountInv, ReadOK,
              OldOnly, IsNew, Req
<1>3. CASE Clock \/ UNCHANGED vars
  BY <1>3 DEF Clock, vars, db, handlers, CountInv, ReadOK, OldOnly, IsNew, Req
<1>4. CASE Crash
  BY <1>4 DEF Crash, db, CountInv, ReadOK, OldOnly, PastPid
<1>. QED
  BY <1>1, <1>2, <1>3, <1>4 DEF Next

LEMMA CountAlways == Spec => [](TypeInv /\ CountInv)
<1>1. Init => TypeInv /\ CountInv
  BY TypeInit, CountInit
<1>2. TypeInv /\ CountInv /\ [Next]_vars => TypeInv' /\ CountInv'
  BY TypeStep, CountStep
<1>. QED
  BY <1>1, <1>2, PTL DEF Spec

\* A counter that is there stays there, however the two halves of
\* update_and_fetch of different handlers interleave (flib.hpp:37).
THEOREM CountersStay == Spec => CounterNeverLost
<1>1. CountInv /\ CountInv' =>
        [\A c \in Counters : counter[c] \in Ids => counter'[c] \in Ids]_counter
  BY DEF CountInv
<1>. QED
  BY <1>1, CountAlways, PTL DEF CounterNeverLost

\* Without posts_count no new post is ever listed (incr_id never starts one).
THEOREM NoCounterNoPosts == Spec => []NothingWithoutCounter
<1>1. CountInv => NothingWithoutCounter
  BY DEF CountInv, NothingWithoutCounter, Counters
<1>. QED
  BY <1>1, CountAlways, PTL

-----------------------------------------------------------------------------
(* Statistics.  The rows of user_stats are those the database came with, or *)
(* fewer; a handler is past update_stats only with the key of such a row.   *)

KeyOK(h) ==
  /\ pc[h] = "statSet" /\ job[h].read \in Ids => job[h].key \in InitStats
  /\ pc[h] \in {"lastWrite", "tan"} => job[h].key \in InitStats
  /\ pc[h] = "redirect" /\ Req(h) # NoRequest => job[h].key \in InitStats

StatInv == stats \subseteq InitStats /\ \A h \in Handlers : KeyOK(h)

\* The steps that leave update_stats alone, and do not get past it.
LEMMA BeforeStats ==
  ASSUME TypeInv, NEW h \in Handlers, Receive(h) \/ Serve(h),
         ~ StatGet(h), ~ StatSet(h), ~ LastWrite(h), ~ Announce(h)
  PROVE  stats' = stats /\ KeyOK(h)'
<1>1. EditTypeOK
  BY DEF TypeInv, TypeOK
<1>2. stats' = stats
  BY DEF Receive, Serve, Login, WriteDraft, Admit, PidGet, PidSet, CheckOld,
       ApplyTags, Mention, NidGet, NidSet, Notify, Store, ListInn, ListUser,
       inn_rm_index, inn_add_index, IncrGet, IncrSet, db
<1>3. pc'[h] \notin {"statSet", "lastWrite", "tan"}
  BY <1>1 DEF EditTypeOK, Receive, Serve, Login, WriteDraft, Admit, PidGet, PidSet,
       CheckOld, ApplyTags, Mention, MentionId, NidGet, NidSet, Notify, Store,
       ListInn, ListUser, inn_rm_index, inn_add_index, IncrGet, IncrSet,
       Throw, Goto, GotoWith
<1>4. pc'[h] = "redirect" => job'[h] = NoJob
  BY <1>1 DEF EditTypeOK, Receive, Serve, Login, WriteDraft, Admit, PidGet, PidSet,
       CheckOld, ApplyTags, Mention, MentionId, NidGet, NidSet, Notify, Store,
       ListInn, ListUser, inn_rm_index, inn_add_index, IncrGet, IncrSet,
       Throw, Goto, GotoWith
<1>. QED
  BY <1>2, <1>3, <1>4, NoJobType DEF KeyOK, Req

LEMMA StatsStep ==
  ASSUME TypeInv, StatInv, NEW h \in Handlers, Receive(h) \/ Serve(h)
  PROVE  stats' \subseteq InitStats /\ KeyOK(h)'
<1>1. EditTypeOK /\ job[h] \in Job /\ KeyOK(h) /\ stats \subseteq InitStats
  BY AtWork DEF TypeInv, TypeOK, StatInv
<1>2. CASE StatGet(h)
  <2> DEFINE k == StatKey(now, Uid(h))
             j == [job[h] EXCEPT !.key = k, !.read = StatRow(k)]
  <2>1. pc'[h] = "statSet" /\ job'[h] = j /\ stats' = stats
    BY <1>1, <1>2 DEF StatGet, GotoWith, EditTypeOK, db
  <2>2. j.key = k /\ (j.read \in Ids => k \in stats)
    <3>1. j.key = k /\ j.read = StatRow(k)
      BY <1>1 DEF Job
    <3>. QED
      BY <3>1, StatRowCounts
  <2>. QED
    BY <1>1, <2>1, <2>2 DEF KeyOK
<1>3. CASE StatSet(h)
  <2>1. [job[h] EXCEPT !.read = Missing].key = job[h].key
    BY <1>1 DEF Job
  <2>2. CASE job[h].read \notin Ids
    BY <1>1, <1>3, <2>2 DEF StatSet, Throw, GotoWith, EditTypeOK, KeyOK
  <2>3. CASE job[h].read \in Ids
    <3>1. job[h].key \in InitStats
      BY <1>1, <1>3, <2>3 DEF StatSet, KeyOK
    <3>2. pc'[h] = "lastWrite" /\ job'[h].key = job[h].key /\ stats' = stats \cup {job[h].key}
      BY <1>1, <1>3, <2>1, <2>3 DEF StatSet, GotoWith, EditTypeOK
    <3>. QED
      BY <1>1, <3>1, <3>2 DEF KeyOK
  <2>. QED
    BY <2>2, <2>3
<1>4. CASE LastWrite(h) \/ Announce(h)
  BY <1>1, <1>4 DEF LastWrite, Announce, Goto, EditTypeOK, KeyOK
<1>. QED
  BY <1>1, <1>2, <1>3, <1>4, BeforeStats

\* A step other than a handler's keeps the keys in hand.
LEMMA KeyFrame ==
  ASSUME TypeInv, StatInv, Cron \/ Clock \/ Crash \/ UNCHANGED vars, NEW h \in Handlers
  PROVE  KeyOK(h)'
<1>1. CASE Crash
  BY <1>1 DEF Crash, KeyOK
<1>2. CASE Cron \/ Clock \/ UNCHANGED vars
  BY <1>2 DEF Cron, Clock, vars, handlers, StatInv, KeyOK, Req
<1>. QED
  BY <1>1, <1>2

LEMMA StatStep == TypeInv /\ StatInv /\ [Next]_vars => StatInv'
<1> SUFFICES ASSUME TypeInv, StatInv, [Next]_vars PROVE StatInv'
  OBVIOUS
<1>1. ASSUME NEW h \in Handlers, Handle(h)
      PROVE  StatInv'
  <2>0. (Receive(h) \/ Serve(h)) /\ EditTypeOK
    BY <1>1 DEF Handle, TypeInv, TypeOK
  <2>1. stats' \subseteq InitStats /\ KeyOK(h)'
    BY <2>0, StatsStep
  <2>2. ASSUME NEW g \in Handlers, g # h
        PROVE  KeyOK(g)'
    BY <2>0, <2>2, OthersStay DEF StatInv, KeyOK, Req
  <2>. QED
    BY <2>1, <2>2 DEF StatInv
<1>2. CASE Cron \/ Clock \/ Crash \/ UNCHANGED vars
  <2>1. stats' \subseteq stats
    BY <1>2 DEF Cron, Sweep, Wake, Advance, Judge, Clock, Crash, vars, db
  <2>. QED
    BY <1>2, <2>1, KeyFrame DEF StatInv
<1>. QED
  BY <1>1, <1>2 DEF Next

\* update_stats never creates a row of user_stats, and no request gets past it
\* without one: edits whose key was not imported fail after storing the post.
THEOREM StatsOnlyShrink == Spec => []StatsNeverCreated
<1>1. Init => StatInv
  BY DEF Init, DBInit, EditInit, StatInv, KeyOK
<1>2. StatInv => StatsNeverCreated
  BY DEF StatInv, KeyOK, StatsNeverCreated
<1>. QED
  BY <1>1, <1>2, TypeInit, TypeStep, StatStep, PTL DEF Spec

-----------------------------------------------------------------------------
(* The cron job.  Its walk ends at the first key that is not a number, and  *)
(* no handler removes a row that it could count.                           *)

Poison   == {l \in InitStats \ ShortStats : Lead[l] = NoNumber}
Shadowed == {k \in InitStats \ ShortStats : \E l \in Poison : l <= k}

ShadowInv ==
  /\ Shadowed \subseteq stats
  /\ cron = "walking" => \A l \in Poison : cursor < l
  /\ cron = "holding" => \A l \in Poison : cursor <= l
  /\ \A h \in Handlers : pc[h] = "statSet" /\ job[h].read \notin Ids => job[h].key \notin Shadowed

LEMMA PoisonIsShadowed == Poison \subseteq Shadowed /\ InitStats \subseteq Nat \ {0}
BY TreeAssumption DEF Poison, Shadowed

LEMMA ShadowInit == Init => ShadowInv
BY PoisonIsShadowed DEF Init, DBInit, EditInit, CronInit, ShadowInv, Shadowed

LEMMA ShadowCron ==
  ASSUME TypeInv, ShadowInv, Cron
  PROVE  ShadowInv'
<1>1. /\ cursor \in Nat /\ stats \subseteq Nat \ {0} /\ Poison \subseteq stats
      /\ Poison \subseteq Nat \ {0}
  BY PoisonIsShadowed, TreeAssumption DEF TypeInv, TypeOK, CronTypeOK, DBTypeOK, ShadowInv
<1>2. pc' = pc /\ job' = job
  BY DEF Cron, handlers
<1>3. CASE Wake
  <2>1. stats' = stats /\ cron' = "walking" /\ cursor' = 0
    BY <1>3 DEF Wake, db
  <2>2. \A l \in Poison : 0 < l
    BY <1>1
  <2>. QED
    BY <1>1, <1>2, <2>1, <2>2 DEF ShadowInv
<1>4. CASE Advance
  <2>1. stats' = stats /\ cron = "walking"
    BY <1>4 DEF Advance, db
  <2>2. CASE cron' = "holding"
    <3>1. \A l \in Poison : l \in Ahead
      BY <1>1, <2>1 DEF Ahead, ShadowInv
    <3>2. \A l \in Ahead : cursor' <= l
      BY <1>4, <2>2 DEF Advance
    <3>. QED
      BY <1>2, <2>1, <2>2, <3>1, <3>2 DEF ShadowInv
  <2>3. CASE cron' = "asleep"
    BY <1>2, <2>1, <2>3 DEF ShadowInv
  <2>. QED
    BY <1>4, <2>2, <2>3 DEF Advance
<1>5. CASE Judge
  <2>1. cron = "holding" /\ \A l \in Poison : cursor <= l
    BY <1>5 DEF Judge, ShadowInv
  <2>2. CASE Lead[cursor] = NoNumber
    BY <1>2, <1>5, <2>2 DEF Judge, ShadowInv
  <2>3. CASE Lead[cursor] # NoNumber
    <3>1. \A l \in Poison : cursor < l
      BY <1>1, <2>1, <2>3 DEF Poison
    <3>2. cursor \notin Shadowed
      BY <1>1, <3>1 DEF Shadowed
    <3>3. cron' = "walking" /\ cursor' = cursor /\ stats \ {cursor} \subseteq stats'
      BY <1>5, <2>3 DEF Judge
    <3>. QED
      BY <1>2, <3>1, <3>2, <3>3 DEF ShadowInv
  <2>. QED
    BY <2>2, <2>3
<1>. QED
  BY <1>3, <1>4, <1>5 DEF Cron, Sweep

LEMMA ShadowServe ==
  ASSUME TypeInv, ShadowInv, NEW h \in Handlers, Receive(h) \/ Serve(h)
  PROVE  /\ Shadowed \subseteq stats'
         /\ pc'[h] = "statSet" /\ job'[h].read \notin Ids => job'[h].key \notin Shadowed
<1>1. EditTypeOK /\ job[h] \in Job /\ Shadowed \subseteq stats
  BY AtWork DEF TypeInv, TypeOK, ShadowInv
<1>2. CASE StatGet(h)
  <2> DEFINE k == StatKey(now, Uid(h))
             j == [job[h] EXCEPT !.key = k, !.read = StatRow(k)]
  <2>1. pc'[h] = "statSet" /\ job'[h] = j /\ stats' = stats
    BY <1>1, <1>2 DEF StatGet, GotoWith, EditTypeOK, db
  <2>2. j.key = k /\ j.read = StatRow(k)
    BY <1>1 DEF Job
  <2>3. j.read \notin Ids => k \notin Shadowed
    BY <1>1, <2>2, StatRowCounts DEF Shadowed
  <2>. QED
    BY <1>1, <2>1, <2>2, <2>3
<1>3. CASE StatSet(h)
  <2>1. pc'[h] # "statSet"
    BY <1>1, <1>3 DEF StatSet, Throw, GotoWith, EditTypeOK
  <2>2. Shadowed \subseteq stats'
    BY <1>1, <1>3 DEF StatSet, ShadowInv
  <2>. QED
    BY <2>1, <2>2
<1>4. CASE LastWrite(h) \/ Announce(h)
  BY <1>1, <1>4 DEF LastWrite, Announce, Goto, EditTypeOK
<1>5. CASE ~ StatGet(h) /\ ~ StatSet(h) /\ ~ LastWrite(h) /\ ~ Announce(h)
  <2>1. stats' = stats
    BY <1>5, BeforeStats
  <2>2. pc'[h] # "statSet"
    BY <1>1, <1>5 DEF EditTypeOK, Receive, Serve, Login, WriteDraft, Admit, PidGet,
         PidSet, CheckOld, ApplyTags, Mention, MentionId, NidGet, NidSet, Notify,
         Store, ListInn, ListUser, inn_rm_index, inn_add_index, IncrGet, IncrSet,
         Throw, Goto, GotoWith
  <2>. QED
    BY <1>1, <2>1, <2>2
<1>. QED
  BY <1>2, <1>3, <1>4, <1>5

LEMMA ShadowStep == TypeInv /\ ShadowInv /\ [Next]_vars => ShadowInv'
<1> SUFFICES ASSUME TypeInv, ShadowInv, [Next]_vars PROVE ShadowInv'
  OBVIOUS
<1>1. ASSUME NEW h \in Handlers, Handle(h)
      PROVE  ShadowInv'
  <2>0. (Receive(h) \/ Serve(h)) /\ EditTypeOK
    BY <1>1 DEF Handle, TypeInv, TypeOK
  <2>1. /\ Shadowed \subseteq stats'
        /\ pc'[h] = "statSet" /\ job'[h].read \notin Ids => job'[h].key \notin Shadowed
    BY <2>0, ShadowServe
  <2>2. \A g \in Handlers : g # h => pc'[g] = pc[g] /\ job'[g] = job[g]
    BY <2>0, OthersStay
  <2>3. cron' = cron /\ cursor' = cursor
    BY <1>1 DEF Handle, sweeper
  <2>. QED
    BY <2>1, <2>2, <2>3 DEF ShadowInv
<1>2. CASE Cron
  BY <1>2, ShadowCron
<1>3. CASE Clock \/ UNCHANGED vars
  BY <1>3 DEF Clock, vars, db, handlers, sweeper, ShadowInv
<1>4. CASE Crash
  BY <1>4 DEF Crash, db, ShadowInv
<1>. QED
  BY <1>1, <1>2, <1>3, <1>4 DEF Next

\* A row of these that is gone, or that a handler found missing, is expired; it
\* stays so.
Lasting == InitStats \ ShortStats

DueInv ==
  /\ \A k \in Lasting \ stats : Expired(k)
  /\ \A h \in Handlers :
       pc[h] = "statSet" /\ job[h].read \notin Ids /\ job[h].key \in Lasting => Expired(job[h].key)

\* Time only passes.
LEMMA StaysExpired ==
  ASSUME TypeInv, [Next]_vars, NEW k \in InitStats, Expired(k)
  PROVE  Expired(k)'
<1>1. now' = now \/ now' = now + 1
  BY DEF Next, Handle, Receive, Serve, Login, WriteDraft, Admit, PidGet, PidSet, CheckOld,
       ApplyTags, Mention, NidGet, NidSet, Notify, Store, ListInn, ListUser, inn_rm_index,
       inn_add_index, StatGet, StatSet, LastWrite, Announce, IncrGet, IncrSet,
       Cron, Sweep, Wake, Advance, Judge, Clock, Tick, Crash, vars, db
<1>2. Lead[k] \in Nat /\ now \in Nat
  BY TreeAssumption DEF Expired, TypeInv, TypeOK, DBTypeOK, Now
<1>. QED
  BY <1>1, <1>2 DEF Expired

\* update_and_fetch takes away only what its handler found missing.
LEMMA DueServe ==
  ASSUME TypeInv, DueInv, NEW h \in Handlers, Receive(h) \/ Serve(h)
  PROVE  /\ \A k \in Lasting \ stats' : Expired(k)
         /\ pc'[h] = "statSet" /\ job'[h].read \notin Ids /\ job'[h].key \in Lasting =>
              Expired(job'[h].key)
<1>1. EditTypeOK /\ job[h] \in Job
  BY AtWork DEF TypeInv, TypeOK
<1>2. CASE StatGet(h)
  <2> DEFINE k == StatKey(now, Uid(h))
             j == [job[h] EXCEPT !.key = k, !.read = StatRow(k)]
  <2>1. pc'[h] = "statSet" /\ job'[h] = j /\ stats' = stats
    BY <1>1, <1>2 DEF StatGet, GotoWith, EditTypeOK, db
  <2>2. j.key = k /\ j.read = StatRow(k)
    BY <1>1 DEF Job
  <2>3. j.read \notin Ids /\ k \in Lasting => k \notin stats
    BY <2>2, StatRowCounts DEF Lasting
  <2>4. k \in Lasting \ stats => Expired(k)
    BY DEF DueInv
  <2>5. \A l \in Lasting \ stats' : Expired(l)
    BY <2>1 DEF DueInv
  <2>. QED
    BY <2>1, <2>2, <2>3, <2>4, <2>5
<1>3. CASE StatSet(h)
  <2>1. pc'[h] # "statSet"
    BY <1>1, <1>3 DEF StatSet, Throw, GotoWith, EditTypeOK
  <2>2. stats \subseteq stats' \/ (job[h].read \notin Ids /\ stats' = stats \ {job[h].key})
    BY <1>3 DEF StatSet
  <2>3. pc[h] = "statSet"
    BY <1>3 DEF StatSet
  <2>. QED
    BY <2>1, <2>2, <2>3 DEF DueInv
<1>4. CASE ~ StatGet(h) /\ ~ StatSet(h)
  <2>1. stats' = stats
    BY <1>4, BeforeStats DEF LastWrite, Announce
  <2>2. pc'[h] # "statSet"
    BY <1>1, <1>4 DEF EditTypeOK, Receive, Serve, Login, WriteDraft, Admit, PidGet,
         PidSet, CheckOld, ApplyTags, Mention, MentionId, NidGet, NidSet, Notify,
         Store, ListInn, ListUser, inn_rm_index, inn_add_index, IncrGet, IncrSet,
         LastWrite, Announce, Throw, Goto, GotoWith
  <2>. QED
    BY <2>1, <2>2 DEF DueInv
<1>. QED
  BY <1>2, <1>3, <1>4

LEMMA DueStep == TypeInv /\ DueInv /\ [Next]_vars => DueInv'
<1> SUFFICES ASSUME TypeInv, DueInv, [Next]_vars PROVE DueInv'
  OBVIOUS
<1>0. \A k \in Lasting : Expired(k) => Expired(k)'
  BY StaysExpired DEF Lasting
<1>1. ASSUME NEW h \in Handlers, Handle(h)
      PROVE  DueInv'
  <2>0. (Receive(h) \/ Serve(h)) /\ EditTypeOK
    BY <1>1 DEF Handle, TypeInv, TypeOK
  <2>1. /\ \A k \in Lasting \ stats' : Expired(k)
        /\ pc'[h] = "statSet" /\ job'[h].read \notin Ids /\ job'[h].key \in Lasting =>
             Expired(job'[h].key)
    BY <2>0, DueServe
  <2>2. \A g \in Handlers : g # h => pc'[g] = pc[g] /\ job'[g] = job[g]
    BY <2>0, OthersStay
  <2>3. \A k \in Lasting \ stats' : Expired(k)'
    BY <1>0, <2>1
  <2>4. ASSUME NEW g \in Handlers, pc'[g] = "statSet", job'[g].read \notin Ids,
               job'[g].key \in Lasting
        PROVE  Expired(job[g].key)'
    <3>1. PICK k \in Lasting : k = job'[g].key
      BY <2>4
    <3>2. Expired(k)
      BY <2>1, <2>2, <2>4, <3>1 DEF DueInv
    <3>. QED
      BY <1>0, <3>1, <3>2 DEF Expired
  <2>. QED
    BY <2>3, <2>4 DEF DueInv, Expired
<1>2. CASE Cron
  <2>1. pc' = pc /\ job' = job
    BY <1>2 DEF Cron, handlers
  <2>2. \A k \in Lasting \ stats' : Expired(k)
    BY <1>2 DEF Cron, Sweep, Wake, Advance, Judge, db, DueInv
  <2>. QED
    BY <1>0, <2>1, <2>2 DEF DueInv, Expired
<1>3. CASE Clock \/ UNCHANGED vars
  <2>1. pc' = pc /\ job' = job /\ stats' = stats
    BY <1>3 DEF Clock, vars, db, handlers
  <2>. QED
    BY <1>0, <2>1 DEF DueInv, Expired
<1>4. CASE Crash
  <2>1. stats' = stats /\ \A h \in Handlers : pc'[h] = "idle"
    BY <1>4 DEF Crash, db
  <2>. QED
    BY <1>0, <2>1 DEF DueInv, Expired
<1>. QED
  BY <1>1, <1>2, <1>3, <1>4 DEF Next

\* A row of user_stats that can be counted goes only when its number lies in the
\* past, and from a key that is not a number on none ever goes: clear_invalid
\* throws at that key each time (main.cpp:622), and incr_id removes no row that
\* is there and long enough.
THEOREM NothingPastPoison == Spec => []OnlyDueGo
<1>1. Init => DueInv
  BY DEF Init, DBInit, EditInit, DueInv, Lasting
<1>2. ShadowInv /\ DueInv => OnlyDueGo
  <2> SUFFICES ASSUME ShadowInv, DueInv, NEW k \in InitStats \ (stats \cup ShortStats)
               PROVE  /\ Expired(k)
                      /\ \A l \in InitStats \ ShortStats : l <= k => Lead[l] # NoNumber
    BY DEF OnlyDueGo
  <2>1. Expired(k)
    BY DEF DueInv, Lasting
  <2>2. k \notin Shadowed
    BY DEF ShadowInv
  <2>. QED
    BY <2>1, <2>2 DEF Shadowed, Poison
<1>. QED
  BY <1>1, <1>2, DueStep, ShadowInit, ShadowStep, TypeInit, TypeStep, PTL DEF Spec

-----------------------------------------------------------------------------
(* The index.  Only inn_rm_index takes rows out of it, and its handler puts *)
(* the row back unless the process ends.                                   *)

\* The steps of a handler and the index of an inn.
LEMMA IndexServe ==
  ASSUME TypeInv, NEW h \in Handlers, Receive(h) \/ Serve(h)
  PROVE  /\ At(h, "index") => Row(h) \in innIndex'
         /\ \/ innIndex \subseteq innIndex'
            \/ /\ innIndex' = innIndex \ {Row(h)}
               /\ At(h, "index")' /\ Row(h)' = Row(h)
<1>1. EditTypeOK
  BY DEF TypeInv, TypeOK
<1>2. CASE inn_rm_index(h)
  <2>1. pc[h] = "unindex" /\ pc'[h] = "index" /\ job' = job
    BY <1>1, <1>2 DEF inn_rm_index, Goto, EditTypeOK
  <2>. QED
    BY <1>2, <2>1 DEF inn_rm_index, Row, Req
<1>3. CASE inn_add_index(h)
  BY <1>3 DEF inn_add_index
<1>4. CASE ~ inn_rm_index(h) /\ ~ inn_add_index(h)
  <2>1. innIndex' = innIndex /\ pc[h] # "index"
    BY <1>4 DEF Receive, Serve, Login, WriteDraft, Admit, PidGet, PidSet, CheckOld,
         ApplyTags, Mention, NidGet, NidSet, Notify, Store, ListInn, ListUser,
         StatGet, StatSet, LastWrite, Announce, IncrGet, IncrSet, db
  <2>. QED
    BY <2>1
<1>. QED
  BY <1>2, <1>3, <1>4

LEMMA IndexStep == TypeInv /\ OnlyCrashesUnindex /\ [Next]_vars => OnlyCrashesUnindex'
<1> SUFFICES ASSUME TypeInv, OnlyCrashesUnindex, [Next]_vars,
                    crashes' = 0, NEW row \in ImportedLists
             PROVE  row \in innIndex' \/ \E g \in Handlers : (At(g, "index")' /\ Row(g)' = row)
  BY DEF OnlyCrashesUnindex, ImportedLists
<1>0. CASE Crash
  <2>1. crashes \in Nat /\ crashes' = crashes + 1
    BY <1>0, CrashAssumption DEF Crash, TypeInv, TypeOK
  <2>. QED
    BY <2>1
<1>1. ASSUME NEW h \in Handlers, Handle(h)
      PROVE  row \in innIndex' \/ \E g \in Handlers : (At(g, "index")' /\ Row(g)' = row)
  <2>0. (Receive(h) \/ Serve(h)) /\ EditTypeOK /\ crashes = 0
    BY <1>1 DEF Handle, TypeInv, TypeOK
  <2>1. row \in innIndex \/ \E g \in Handlers : At(g, "index") /\ Row(g) = row
    BY <2>0 DEF OnlyCrashesUnindex
  <2>2. CASE row \in innIndex
    BY <2>0, <2>2, IndexServe
  <2>3. ASSUME NEW g \in Handlers, At(g, "index"), Row(g) = row
        PROVE  row \in innIndex' \/ (At(g, "index")' /\ Row(g)' = row)
    <3>1. CASE g = h
      BY <2>0, <2>3, <3>1, IndexServe
    <3>2. CASE g # h
      BY <2>0, <2>3, <3>2, OthersStay DEF Row, Req
    <3>. QED
      BY <3>1, <3>2
  <2>. QED
    BY <2>1, <2>2, <2>3
<1>2. CASE Cron \/ Clock \/ UNCHANGED vars
  <2>1. innIndex' = innIndex /\ pc' = pc /\ job' = job /\ crashes' = crashes
    BY <1>2 DEF Cron, Sweep, Wake, Advance, Judge, Clock, vars, db, handlers
  <2>. QED
    BY <2>1 DEF OnlyCrashesUnindex, Row, Req
<1>. QED
  BY <1>0, <1>1, <1>2 DEF Next

\* As long as the process lives, an imported post that is out of the index of its
\* inn (inn_rm_index, main.cpp:591) is on its way back, in the hands of some
\* handler: for any number of edits of the same row at once.
THEOREM OutOfTheIndexForMoments == Spec => []OnlyCrashesUnindex
<1>1. Init => OnlyCrashesUnindex
  BY DEF Init, DBInit, OnlyCrashesUnindex
<1>. QED
  BY <1>1, IndexStep, TypeInit, TypeStep, PTL DEF Spec

-----------------------------------------------------------------------------
(* Requests.  What a handler has found out about its request, its session   *)
(* and its post holds until it is done with them.                          *)

\* A request that goes on keeps its post, but where it is given one.
LEMMA SameJob ==
  ASSUME TypeInv, NEW h \in Handlers, Serve(h), ~ Admit(h), ~ PidSet(h), ~ WriteDraft(h),
         pc'[h] # "failed"
  PROVE  /\ job'[h].req = job[h].req /\ job'[h].pid = job[h].pid
         /\ job'[h].private = job[h].private
<1>1. EditTypeOK /\ job[h] \in Job /\ TypeOK /\ HandOK(h)
  BY AtWork DEF TypeInv, TypeOK
<1>2. job[h].todo # <<>> =>
        /\ NextMention(h).req = job[h].req /\ NextMention(h).pid = job[h].pid
        /\ NextMention(h).private = job[h].private
        /\ NextMention(h) \in Job
  BY <1>1, NextMentionType DEF NextMention, Job
<1>3. CASE Mention(h)
  BY <1>1, <1>2, <1>3 DEF Mention, MentionId, Goto, GotoWith, Throw, EditTypeOK
<1>4. CASE Notify(h)
  <2>1. job[h].todo # <<>>
    BY <1>1, <1>4 DEF Notify, HandOK
  <2>2. job'[h] = [NextMention(h) EXCEPT !.read = Missing]
    BY <1>1, <1>4 DEF Notify, GotoWith, EditTypeOK
  <2>. QED
    BY <1>2, <2>1, <2>2 DEF Job
<1>5. CASE PidGet(h) \/ NidGet(h)
  <2>1. \E r : job'[h] = [job[h] EXCEPT !.read = r]
    BY <1>1, <1>5 DEF PidGet, NidGet, IncrGet, GotoWith, EditTypeOK
  <2>. QED
    BY <1>1, <2>1 DEF Job
<1>6. CASE NidSet(h)
  <2>1. job'[h] = [job[h] EXCEPT !.read = Increment(job[h].read)]
    BY <1>1, <1>6 DEF NidSet, IncrSet, GotoWith, Throw, EditTypeOK
  <2>. QED
    BY <1>1, <2>1 DEF Job
<1>7. CASE StatGet(h)
  <2>1. \E k, r : job'[h] = [job[h] EXCEPT !.key = k, !.read = r]
    BY <1>1, <1>7 DEF StatGet, GotoWith, EditTypeOK
  <2>. QED
    BY <1>1, <2>1 DEF Job
<1>8. CASE StatSet(h)
  <2>1. job'[h] = [job[h] EXCEPT !.read = Missing]
    BY <1>1, <1>8 DEF StatSet, GotoWith, Throw, EditTypeOK
  <2>. QED
    BY <1>1, <2>1 DEF Job
<1>9. CASE \/ Login(h) \/ CheckOld(h) \/ ApplyTags(h) \/ Store(h) \/ ListInn(h) \/ ListUser(h)
           \/ inn_rm_index(h) \/ inn_add_index(h) \/ LastWrite(h) \/ Announce(h)
  BY <1>1, <1>9 DEF EditTypeOK, Login, CheckOld, ApplyTags, Store, ListInn, ListUser,
                    inn_rm_index, inn_add_index, LastWrite, Announce, Throw, Goto, GotoWith
<1>. QED
  BY <1>3, <1>4, <1>5, <1>6, <1>7, <1>8, <1>9 DEF Serve

\* Up to these places it is not known yet whether the user may post.
Admission == Anon \cup {"draft", "admit"}

Admissible(h) ==
  /\ pc[h] \notin Anon => /\ Sessions[Req(h).cookie].role # 3
                          /\ ReadOnly => Sessions[Req(h).cookie].role = 0
  /\ pc[h] \notin Admission => MayPost(Req(h).iid, Uid(h))

AdmitInv == \A h \in Handlers : Admissible(h)

LEMMA AdmitStep ==
  ASSUME TypeInv, AdmitInv, NEW h \in Handlers, Receive(h) \/ Serve(h)
  PROVE  Admissible(h)'
<1>1. EditTypeOK
  BY DEF TypeInv, TypeOK
<1>2. CASE pc'[h] \in Anon
  BY <1>2 DEF Admissible, Admission
<1>3. CASE pc'[h] \notin Anon
  <2>1. Serve(h) /\ job'[h].req = job[h].req
    BY <1>1, <1>3, SameRequest DEF Receive, Anon, Quiet, EditTypeOK
  <2>2. CASE Login(h)
    BY <1>1, <1>3, <2>1, <2>2
    DEF Login, LoggedIn, Admissible, Admission, Anon, Quiet, Goto, GotoWith, Throw, EditTypeOK, Req
  <2>3. CASE Admit(h)
    BY <1>1, <1>3, <2>1, <2>3
    DEF Admit, Admitted, AdmitInv, Admissible, Admission, Anon, Quiet, GotoWith, Throw, EditTypeOK,
        Req, Uid
  <2>4. CASE ~ Login(h) /\ ~ Admit(h)
    <3>1. pc[h] \notin Admission
      BY <1>1, <1>3, <2>1, <2>4
      DEF EditTypeOK, Admission, Anon, Quiet, Serve, WriteDraft, PidGet, PidSet,
          CheckOld, ApplyTags, Mention, NidGet, NidSet, Notify, Store,
          ListInn, ListUser, inn_rm_index, inn_add_index, StatGet, StatSet,
          LastWrite, Announce, IncrGet, IncrSet, GotoWith
    <3>. QED
      BY <2>1, <3>1 DEF AdmitInv, Admissible, Admission, Req, Uid
  <2>. QED
    BY <2>2, <2>3, <2>4
<1>. QED
  BY <1>2, <1>3

LEMMA AdmitAlways == Spec => []AdmitInv
<1>1. Init => AdmitInv
  BY DEF Init, EditInit, AdmitInv, Admissible, Admission, Anon, Quiet
<1>2. TypeInv /\ AdmitInv /\ [Next]_vars => AdmitInv'
  <2> SUFFICES ASSUME TypeInv, AdmitInv, [Next]_vars, NEW g \in Handlers PROVE Admissible(g)'
    BY DEF AdmitInv
  <2>1. ASSUME NEW h \in Handlers, Handle(h) PROVE Admissible(g)'
    <3>1. (Receive(h) \/ Serve(h)) /\ EditTypeOK
      BY <2>1 DEF Handle, TypeInv, TypeOK
    <3>2. CASE g = h
      BY <3>1, <3>2, AdmitStep
    <3>3. CASE g # h
      BY <3>1, <3>3, OthersStay DEF AdmitInv, Admissible, Req, Uid
    <3>. QED
      BY <3>2, <3>3
  <2>2. CASE Cron \/ Clock \/ UNCHANGED vars
    BY <2>2 DEF Cron, Clock, vars, handlers, AdmitInv, Admissible, Req, Uid
  <2>3. CASE Crash
    BY <2>3 DEF Crash, Admissible, Admission, Anon, Quiet
  <2>. QED
    BY <2>1, <2>2, <2>3 DEF Next
<1>. QED
  BY <1>1, <1>2, TypeInit, TypeStep, PTL DEF Spec

\* The tree posts is written by Store only.
LEMMA PostsStay ==
  ASSUME NEW h \in Handlers, Receive(h) \/ Serve(h), ~ Store(h)
  PROVE  posts' = posts
BY DEF Receive, Serve, Login, WriteDraft, Admit, PidGet, PidSet, CheckOld, ApplyTags,
       Mention, NidGet, NidSet, Notify, ListInn, ListUser, inn_rm_index,
       inn_add_index, StatGet, StatSet, LastWrite, Announce, IncrGet, IncrSet, db

\* Store, and what it leaves.
LEMMA Stores ==
  ASSUME EditTypeOK, NEW h \in Handlers, Store(h)
  PROVE  At(h, "store") /\ Moves(h)
BY DEF Store, Moves, Goto, EditTypeOK

\* Who writes a post has a session that is not banned, an administrator's on a
\* site that is read only, and may post in the inn.
THEOREM OnlyAdmittedStore == Spec => AdmittedStores
<1> DEFINE Allowed ==
      \E h \in Handlers :
        /\ Moves(h) /\ At(h, "store")
        /\ Sessions[Req(h).cookie].role # 3
        /\ ReadOnly => Sessions[Req(h).cookie].role = 0
        /\ MayPost(Req(h).iid, Uid(h))
<1>1. TypeInv /\ AdmitInv /\ [Next]_vars => [Allowed]_posts
  <2> SUFFICES ASSUME TypeInv, AdmitInv, [Next]_vars, posts' # posts PROVE Allowed
    OBVIOUS
  <2>1. PICK h \in Handlers : Handle(h)
    BY DEF Next, Cron, Sweep, Wake, Advance, Judge, Clock, Crash, vars, db
  <2>2. Store(h)
    BY <2>1, PostsStay DEF Handle
  <2>. QED
    BY <2>2, Stores DEF TypeInv, TypeOK, AdmitInv, Admissible, Admission, Anon, Quiet
<1>. QED
  BY <1>1, AdmitAlways, TypeInit, TypeStep, PTL DEF Spec, AdmittedStores

-----------------------------------------------------------------------------
(* Posts of others.  Numbers only grow until they wrap, so that a new post  *)
(* is none of the imported ones; and who edits one has been checked.        *)

First == InitCount["posts_count"]

\* From here on a handler may write the post it has in hand.
Editing == {"tags", "mention", "nidGet", "nidSet", "notify", "store"}

Numbered(h) == "posts_count" \notin wrapped =>
  /\ pc[h] = "pidSet" /\ job[h].read \in Ids => job[h].read >= First
  /\ pc[h] \in Editing /\ IsNew(h) => job[h].pid \notin DOMAIN Imported

CheckedEdit(h) ==
  /\ pc[h] = "tags" /\ ~ IsNew(h) => Author(h, job[h].pid)
  /\ pc[h] \in Editing /\ ~ IsNew(h) /\ ~ Private(h) => Author(h, job[h].pid)
  /\ pc[h] = "check" => ~ Private(h) /\ ~ IsNew(h)
  /\ pc[h] \in {"pidGet", "pidSet"} => IsNew(h)

EditInv ==
  /\ "posts_count" \notin wrapped /\ counter["posts_count"] \in Ids => counter["posts_count"] >= First
  /\ \A h \in Handlers : Numbered(h) /\ CheckedEdit(h)

\* Adding 1 to what is at least the first number: past it, or back to 0.
LEMMA Larger ==
  ASSUME NEW v \in Ids, First \in Ids, v >= First, Increment(v) # 0
  PROVE  Increment(v) > First /\ Increment(v) \notin DOMAIN Imported
<1>1. First \in Int /\ v \in Int
  BY WidthAssumption DEF Ids
<1>2. Increment(v) = v + 1
  <2>1. v + 1 \in 0 .. U32 /\ v + 1 # U32 => (v + 1) % U32 = v + 1
    BY <1>1, WidthAssumption DEF Ids
  <2>2. v + 1 = U32 => (v + 1) % U32 = 0
    BY <1>1, WidthAssumption DEF Ids
  <2>. QED
    BY <2>1, <2>2, <1>1, MissingAssumption, WidthAssumption DEF Increment, Ids
<1>3. \A p \in DOMAIN Imported : p <= First /\ p \in Int
  BY ImportAssumption, MissingAssumption, WidthAssumption DEF First, Ids
<1>. QED
  BY <1>1, <1>2, <1>3

\* The counter of posts and who is given a number by it.
LEMMA NumberStep ==
  ASSUME TypeInv, CountInv, EditInv, NEW h \in Handlers, PidSet(h), "posts_count" \notin wrapped'
  PROVE  /\ counter'["posts_count"] \in Ids => counter'["posts_count"] >= First
         /\ pc'[h] \in Editing => job'[h].pid \notin DOMAIN Imported
<1>1. /\ pc[h] = "pidSet" /\ EditTypeOK /\ job[h] \in Job
      /\ counter' = [counter EXCEPT !["posts_count"] = Increment(job[h].read)]
      /\ counter \in [Counters -> Counts]
      /\ "posts_count" \notin wrapped /\ Increment(job[h].read) # 0
  BY AtWork DEF TypeInv, TypeOK, DBTypeOK, PidSet, IncrSet, Fetch
<1>2. counter'["posts_count"] = Increment(job[h].read)
  BY <1>1 DEF Counters
<1>3. CASE job[h].read \notin Ids
  <2>1. counter'["posts_count"] \notin Ids
    BY <1>1, <1>2, <1>3, MissingAssumption DEF Increment
  <2>2. pc'[h] = "failed"
    BY <1>1, <1>3 DEF PidSet, IncrSet, Throw, GotoWith, EditTypeOK
  <2>. QED
    BY <2>1, <2>2 DEF Editing
<1>4. CASE job[h].read \in Ids
  <2>1. job[h].read \in Ids /\ job[h].read >= First
    BY <1>1, <1>4 DEF EditInv, Numbered, Job
  <2>2. First \in Ids
    BY <1>1, <1>4, ImportAssumption DEF CountInv, ReadOK, First, Counters
  <2>3. Increment(job[h].read) > First /\ Increment(job[h].read) \notin DOMAIN Imported
    BY <1>1, <2>1, <2>2, Larger
  <2>4. Increment(job[h].read) \in Int /\ First \in Int
    BY <2>1, <2>2, WidthAssumption, IncrementType, MissingAssumption DEF Increment, Ids
  <2>5. job'[h].pid = Increment(job[h].read)
    <3>1. [job[h] EXCEPT !.pid = Increment(job[h].read), !.read = Missing].pid = Increment(job[h].read)
      BY <1>1 DEF Job
    <3>. QED
      BY <1>1, <1>4, <3>1 DEF PidSet, IncrSet, GotoWith, EditTypeOK
  <2>. QED
    BY <1>2, <2>3, <2>4, <2>5
<1>. QED
  BY <1>3, <1>4

\* wrapped only grows, and the counter of posts is set by PidSet only.
LEMMA NumbersStay ==
  ASSUME TypeOK, NEW h \in Handlers, Receive(h) \/ Serve(h)
  PROVE  /\ wrapped \subseteq wrapped'
         /\ ~ PidSet(h) => counter'["posts_count"] = counter["posts_count"]
<1>1. CASE PidSet(h) \/ NidSet(h)
  <2>1. wrapped \subseteq wrapped'
    BY <1>1 DEF PidSet, NidSet, IncrSet, Fetch
  <2>2. CASE NidSet(h)
    <3>1. counter' = [counter EXCEPT !["notifications_count"] = Increment(job[h].read)]
      BY <2>2 DEF NidSet, IncrSet, Fetch
    <3>. QED
      BY <2>1, <3>1 DEF TypeOK, DBTypeOK, Counters
  <2>. QED
    BY <1>1, <2>1, <2>2
<1>2. CASE ~ PidSet(h) /\ ~ NidSet(h)
  BY <1>2 DEF Receive, Serve, Login, WriteDraft, Admit, PidGet, CheckOld, ApplyTags,
       Mention, NidGet, Notify, Store, ListInn, ListUser, inn_rm_index,
       inn_add_index, StatGet, StatSet, LastWrite, Announce, IncrGet, db
<1>. QED
  BY <1>1, <1>2

\* How a handler gets to where it may write.
LEMMA WaysToEdit ==
  ASSUME EditTypeOK, NEW h \in Handlers, Receive(h) \/ Serve(h)
  PROVE  /\ pc'[h] \in Editing => Serve(h) /\ (pc[h] \in Editing \/ Admit(h) \/ PidSet(h) \/ CheckOld(h))
         /\ pc'[h] = "tags" => PidSet(h) \/ CheckOld(h)
         /\ pc'[h] = "pidSet" => PidGet(h)
         /\ pc'[h] \in {"check", "pidGet"} => Admit(h)
BY DEF EditTypeOK, Editing, Receive, Serve, Login, WriteDraft, Admit, PidGet, PidSet,
       CheckOld, ApplyTags, Mention, MentionId, NidGet, NidSet, Notify, Store, ListInn,
       ListUser, inn_rm_index, inn_add_index, StatGet, StatSet,
       LastWrite, Announce, IncrGet, IncrSet, Throw, Goto, GotoWith

LEMMA NumberedStep ==
  ASSUME TypeInv, CountInv, EditInv, NEW h \in Handlers, Receive(h) \/ Serve(h)
  PROVE  Numbered(h)'
<1> SUFFICES ASSUME "posts_count" \notin wrapped'
             PROVE  /\ pc'[h] = "pidSet" /\ job'[h].read \in Ids => job'[h].read >= First
                    /\ pc'[h] \in Editing /\ IsNew(h)' => job'[h].pid \notin DOMAIN Imported
  BY DEF Numbered
<1>0. TypeOK /\ EditTypeOK /\ job[h] \in Job /\ "posts_count" \notin wrapped
  BY AtWork, NumbersStay DEF TypeInv, TypeOK
<1>1. ASSUME pc'[h] = "pidSet", job'[h].read \in Ids PROVE job'[h].read >= First
  <2>1. PidGet(h)
    BY <1>0, <1>1, WaysToEdit
  <2>2. job'[h].read = counter["posts_count"]
    BY <1>0, <2>1 DEF PidGet, IncrGet, GotoWith, EditTypeOK, Job
  <2>. QED
    BY <1>0, <1>1, <2>2 DEF EditInv
<1>2. ASSUME pc'[h] \in Editing, IsNew(h)' PROVE job'[h].pid \notin DOMAIN Imported
  <2>1. Serve(h) /\ (pc[h] \in Editing \/ Admit(h) \/ PidSet(h) \/ CheckOld(h))
    BY <1>0, <1>2, WaysToEdit
  <2>2. job'[h].req = job[h].req
    BY <2>1, <1>2, SameRequest DEF Editing, Quiet
  <2>3. IsNew(h)
    BY <2>2, <1>2 DEF IsNew, Req
  <2>4. CASE PidSet(h)
    BY <2>4, <1>2, NumberStep
  <2>5. CASE Admit(h)
    BY <2>3, <2>5, <1>0, <1>2 DEF Admit, Throw, GotoWith, EditTypeOK, Editing
  <2>6. CASE CheckOld(h)
    BY <2>3, <2>6 DEF EditInv, CheckedEdit, CheckOld
  <2>7. CASE pc[h] \in Editing /\ ~ PidSet(h) /\ ~ Admit(h)
    <3>1. ~ WriteDraft(h) /\ pc'[h] # "failed"
      BY <2>7, <1>2 DEF Editing, WriteDraft
    <3>2. job'[h].pid = job[h].pid
      BY <2>1, <2>7, <3>1, SameJob
    <3>. QED
      BY <2>3, <2>7, <3>2, <1>0 DEF EditInv, Numbered
  <2>. QED
    BY <2>1, <2>4, <2>5, <2>6, <2>7
<1>. QED
  BY <1>1, <1>2

LEMMA CheckedStep ==
  ASSUME TypeInv, EditInv, NEW h \in Handlers, Receive(h) \/ Serve(h)
  PROVE  CheckedEdit(h)'
<1>0. TypeOK /\ EditTypeOK /\ job[h] \in Job /\ CheckedEdit(h)
  BY AtWork DEF TypeInv, TypeOK, EditInv
<1>1. pc'[h] \in Editing \cup {"check", "pidGet", "pidSet"} => Serve(h) /\ job'[h].req = job[h].req
  <2>1. pc'[h] \in Editing \cup {"check", "pidGet", "pidSet"} => Serve(h) /\ pc'[h] \notin Quiet
    BY <1>0 DEF Receive, EditTypeOK, Editing, Quiet
  <2>. QED
    BY <2>1, SameRequest
<1>2. CASE Admit(h)
  <2>1. pc'[h] \in {"failed", "pidGet", "mention", "check"}
    BY <1>0, <1>2 DEF Admit, Throw, GotoWith, EditTypeOK
  <2>2. pc'[h] # "failed" => \E private \in BOOLEAN :
          /\ job'[h] = [job[h] EXCEPT !.pid = Req(h).old_pid, !.private = private,
                                      !.todo = Req(h).mentions]
          /\ pc'[h] = IF IsNew(h) THEN "pidGet" ELSE IF private THEN "mention" ELSE "check"
    BY <1>0, <1>2 DEF Admit, Throw, GotoWith, EditTypeOK
  <2>3. pc'[h] # "failed" =>
          pc'[h] = IF IsNew(h) THEN "pidGet" ELSE IF job'[h].private THEN "mention" ELSE "check"
    BY <1>0, <2>2 DEF Job
  <2>4. pc'[h] # "failed" => IsNew(h)' = IsNew(h) /\ Private(h)' = job'[h].private
    BY <1>1, <2>1 DEF IsNew, Req, Private, Editing
  <2>. QED
    BY <2>1, <2>3, <2>4 DEF CheckedEdit, Editing
<1>3. CASE PidSet(h)
  <2>1. IsNew(h)
    BY <1>0, <1>3 DEF CheckedEdit, PidSet, IncrSet
  <2>2. pc'[h] \in {"failed", "mention", "tags"}
    BY <1>0, <1>3 DEF PidSet, IncrSet, Throw, GotoWith, EditTypeOK
  <2>. QED
    BY <1>1, <2>1, <2>2 DEF CheckedEdit, IsNew, Req, Editing
<1>4. CASE CheckOld(h)
  <2>1. \/ pc[h] = "check" /\ job'[h] = job[h] /\ pc'[h] = "tags" /\ MayEdit(h)
        \/ pc'[h] = "failed"
    BY <1>0, <1>4 DEF CheckOld, Throw, Goto, GotoWith, EditTypeOK
  <2>2. pc[h] = "check" /\ MayEdit(h) => Author(h, job[h].pid)
    BY <1>0 DEF CheckedEdit, MayEdit, Author
  <2>. QED
    BY <2>1, <2>2 DEF CheckedEdit, Editing, Author, IsNew, Private, Req, Uid
<1>5. CASE ~ Admit(h) /\ ~ PidSet(h) /\ ~ CheckOld(h)
  <2>1. pc'[h] \notin {"tags", "check", "pidGet"}
    BY <1>0, <1>5, WaysToEdit
  <2>2. CASE pc'[h] \in Editing \cup {"pidSet"}
    <3>1. Serve(h) /\ (pc[h] \in Editing \/ (pc[h] = "pidGet" /\ pc'[h] = "pidSet"))
      BY <1>0, <1>1, <1>5, <2>2, WaysToEdit DEF PidGet, IncrGet, Editing
    <3>2. /\ job'[h].req = job[h].req /\ job'[h].pid = job[h].pid /\ job'[h].private = job[h].private
      BY <1>5, <2>2, <3>1, SameJob DEF Editing, WriteDraft
    <3>3. pc'[h] = "pidSet" => pc[h] = "pidGet"
      BY <1>0, <1>5, WaysToEdit DEF PidGet, IncrGet
    <3>. QED
      BY <1>0, <2>1, <2>2, <3>1, <3>2, <3>3
      DEF CheckedEdit, Editing, Author, IsNew, Private, Req, Uid
  <2>3. CASE pc'[h] \notin Editing \cup {"pidSet"}
    BY <2>1, <2>3 DEF CheckedEdit, Editing
  <2>. QED
    BY <2>2, <2>3
<1>. QED
  BY <1>2, <1>3, <1>4, <1>5

LEMMA EditInvInit == Init => EditInv
<1> SUFFICES ASSUME Init PROVE EditInv
  OBVIOUS
<1>1. counter["posts_count"] = First
  BY DEF Init, DBInit, First
<1>2. First \in Ids => First \in Int
  BY ImportAssumption, WidthAssumption DEF First, Counters, Ids
<1>3. \A h \in Handlers : pc[h] = "idle"
  BY DEF Init, EditInit
<1>. QED
  BY <1>1, <1>2, <1>3 DEF EditInv, Numbered, CheckedEdit, Editing

LEMMA EditStep == TypeInv /\ CountInv /\ EditInv /\ [Next]_vars => EditInv'
<1> SUFFICES ASSUME TypeInv, CountInv, EditInv, [Next]_vars PROVE EditInv'
  OBVIOUS
<1>0. TypeOK /\ EditTypeOK
  BY DEF TypeInv, TypeOK
<1>1. ASSUME NEW h \in Handlers, Handle(h)
      PROVE  EditInv'
  <2>0. Receive(h) \/ Serve(h)
    BY <1>1 DEF Handle
  <2>1. "posts_count" \notin wrapped' => "posts_count" \notin wrapped
    BY <1>0, <2>0, NumbersStay
  <2>2. "posts_count" \notin wrapped' /\ counter'["posts_count"] \in Ids =>
          counter'["posts_count"] >= First
    <3>1. CASE PidSet(h)
      BY <3>1, NumberStep
    <3>2. CASE ~ PidSet(h)
      BY <1>0, <2>0, <2>1, <3>2, NumbersStay DEF EditInv
    <3>. QED
      BY <3>1, <3>2
  <2>3. ASSUME NEW g \in Handlers
        PROVE  Numbered(g)' /\ CheckedEdit(g)'
    <3>1. CASE g = h
      BY <2>0, <3>1, NumberedStep, CheckedStep
    <3>2. CASE g # h
      <4>1. pc'[g] = pc[g] /\ job'[g] = job[g]
        BY <1>0, <2>0, <3>2, OthersStay
      <4>2. Numbered(g) /\ CheckedEdit(g)
        BY DEF EditInv
      <4>3. Numbered(g)'
        BY <2>1, <4>1, <4>2 DEF Numbered, IsNew, Req
      <4>4. CheckedEdit(g)'
        BY <4>1, <4>2 DEF CheckedEdit, Author, IsNew, Private, Req, Uid
      <4>. QED
        BY <4>3, <4>4
    <3>. QED
      BY <3>1, <3>2
  <2>. QED
    BY <2>2, <2>3 DEF EditInv
<1>2. CASE Cron \/ Clock \/ UNCHANGED vars
  <2>1. UNCHANGED <<counter, wrapped, pc, job>>
    BY <1>2 DEF Cron, Sweep, Wake, Advance, Judge, Clock, vars, db, handlers
  <2>2. ASSUME NEW g \in Handlers PROVE Numbered(g)' /\ CheckedEdit(g)'
    <3>1. Numbered(g)'
      BY <2>1 DEF EditInv, Numbered, IsNew, Req
    <3>2. CheckedEdit(g)'
      BY <2>1 DEF EditInv, CheckedEdit, Author, IsNew, Private, Req, Uid
    <3>. QED
      BY <3>1, <3>2
  <2>. QED
    BY <2>1, <2>2 DEF EditInv
<1>3. CASE Crash
  BY <1>3 DEF Crash, db, EditInv, Numbered, CheckedEdit, Editing
<1>. QED
  BY <1>1, <1>2, <1>3 DEF Next

\* Tags are written by ApplyTags only, and those of the post it has in hand.
LEMMA TagsStay ==
  ASSUME NEW h \in Handlers, Receive(h) \/ Serve(h), NEW t, NEW p,
         (<<t, p>> \in tags) # (<<t, p>> \in tags')
  PROVE  ApplyTags(h) /\ p = job[h].pid
<1>1. ApplyTags(h)
  BY DEF Receive, Serve, Login, WriteDraft, Admit, PidGet, PidSet, CheckOld, Store,
       Mention, NidGet, NidSet, Notify, ListInn, ListUser, inn_rm_index,
       inn_add_index, StatGet, StatSet, LastWrite, Announce, IncrGet, IncrSet, db
<1>. QED
  BY <1>1 DEF ApplyTags

\* The tags and the row of a post that was there change only by an edit of its
\* author in its inn, or, as far as the row goes, through a private inn; the
\* check of lines 495-509 still stands when they are written.
THEOREM OnlyAuthorsEdit == Spec => AuthorEdits
<1> DEFINE Authorized ==
      \A p \in DOMAIN Imported : "posts_count" \notin wrapped =>
         /\ (\E t \in Tags : (<<t, p>> \in tags) # (<<t, p>> \in tags')) =>
              \E h \in Handlers : Moves(h) /\ At(h, "tags") /\ Author(h, p)
         /\ posts[p] # posts'[p] =>
              \E h \in Handlers : /\ Moves(h) /\ At(h, "store") /\ job[h].pid = p
                                  /\ ~ IsNew(h)
                                  /\ Private(h) \/ Author(h, p)
<1>1. TypeInv /\ EditInv /\ [Next]_vars => [Authorized]_<<posts, tags>>
  <2> SUFFICES ASSUME TypeInv, EditInv, [Next]_vars, <<posts, tags>>' # <<posts, tags>>,
                      NEW p \in DOMAIN Imported, "posts_count" \notin wrapped
               PROVE  /\ (\E t \in Tags : (<<t, p>> \in tags) # (<<t, p>> \in tags')) =>
                           \E h \in Handlers : Moves(h) /\ At(h, "tags") /\ Author(h, p)
                      /\ posts[p] # posts'[p] =>
                           \E h \in Handlers : /\ Moves(h) /\ At(h, "store") /\ job[h].pid = p
                                               /\ ~ IsNew(h)
                                               /\ Private(h) \/ Author(h, p)
    OBVIOUS
  <2>1. PICK h \in Handlers : Handle(h)
    BY DEF Next, Cron, Sweep, Wake, Advance, Judge, Clock, Crash, vars, db
  <2>2. (Receive(h) \/ Serve(h)) /\ EditTypeOK /\ TypeOK
    BY <2>1 DEF Handle, TypeInv, TypeOK
  <2>3. Numbered(h) /\ CheckedEdit(h)
    BY DEF EditInv
  <2>4. ASSUME NEW t \in Tags, (<<t, p>> \in tags) # (<<t, p>> \in tags')
        PROVE  Moves(h) /\ At(h, "tags") /\ Author(h, p)
    <3>1. ApplyTags(h) /\ p = job[h].pid
      BY <2>2, <2>4, TagsStay
    <3>2. pc[h] = "tags" /\ Moves(h)
      BY <2>2, <3>1 DEF ApplyTags, Moves, Goto, EditTypeOK
    <3>3. ~ IsNew(h)
      BY <2>3, <3>1, <3>2 DEF Numbered, Editing
    <3>. QED
      BY <2>3, <3>1, <3>2, <3>3 DEF CheckedEdit
  <2>5. ASSUME posts[p] # posts'[p]
        PROVE  /\ Moves(h) /\ At(h, "store") /\ job[h].pid = p
               /\ ~ IsNew(h)
               /\ Private(h) \/ Author(h, p)
    <3>1. Store(h)
      BY <2>2, <2>5, PostsStay
    <3>2. At(h, "store") /\ Moves(h)
      BY <2>2, <3>1, Stores
    <3>3. p = job[h].pid
      BY <2>2, <2>5, <3>1, ImportAssumption DEF Store, TypeOK, DBTypeOK
    <3>4. ~ IsNew(h)
      BY <2>3, <3>2, <3>3 DEF Numbered, Editing
    <3>. QED
      BY <2>3, <3>2, <3>3, <3>4 DEF CheckedEdit, Editing
  <2>. QED
    BY <2>4, <2>5
<1>2. Spec => [][Authorized]_<<posts, tags>>
  <2>1. TypeInv /\ CountInv /\ EditInv /\ [Next]_vars => EditInv'
    BY EditStep
  <2>. QED
    BY <1>1, <2>1, EditInvInit, CountAlways, PTL DEF Spec
<1>. QED
  BY <1>2 DEF AuthorEdits

-----------------------------------------------------------------------------
(* Redirects.  A row that was written stays, but for the moment an edit     *)
(* takes to move it in the index.                                          *)

\* The places behind inn_add_index, and the redirect of a post.
After   == {"statGet", "statSet", "lastWrite", "tan"}
Told(h) == pc[h] = "redirect" /\ Req(h) # NoRequest

Indexed(h) == \/ Row(h) \in innIndex
              \/ \E g \in Handlers : At(g, "index") /\ Row(g) = Row(h)

Listed(h) ==
  /\ IsNew(h) /\ (pc[h] \in After \cup {"listUser", "index"} \/ Told(h)) => Row(h) \in innPosts
  /\ IsNew(h) /\ (pc[h] \in After \cup {"index"} \/ Told(h)) => job[h].pid \in userPosts
  /\ pc[h] = "unindex" => ~ IsNew(h)
  /\ pc[h] = "tan" => ~ Private(h)
  /\ Told(h) => /\ job[h].pid \in Stored
                /\ ~ Private(h) => job[h].pid \in tan

PubInv == \A h \in Handlers : Listed(h) /\ (pc[h] \in After \/ Told(h) => Indexed(h))

\* How a handler gets to where its rows are written.
LEMMA WaysToRows ==
  ASSUME EditTypeOK, NEW h \in Handlers, Receive(h) \/ Serve(h)
  PROVE  /\ pc'[h] = "listUser" => ListInn(h)
         /\ pc'[h] = "index" => ListUser(h) \/ inn_rm_index(h)
         /\ pc'[h] \in After => pc[h] \in After \/ inn_add_index(h)
         /\ pc'[h] = "unindex" => Store(h) /\ ~ IsNew(h)
         /\ pc'[h] = "tan" => LastWrite(h) /\ ~ Private(h)
         /\ pc'[h] = "redirect" => WriteDraft(h) \/ Announce(h) \/ (LastWrite(h) /\ Private(h))
BY DEF EditTypeOK, After, Receive, Serve, Login, WriteDraft, Admit, PidGet, PidSet,
       CheckOld, ApplyTags, Mention, MentionId, NidGet, NidSet, Notify, Store, ListInn,
       ListUser, inn_rm_index, inn_add_index, StatGet, StatSet,
       LastWrite, Announce, IncrGet, IncrSet, Throw, Goto, GotoWith

\* Of the lists, only the index ever loses a row, to inn_rm_index.
LEMMA RowsGrow ==
  ASSUME NEW h \in Handlers, Receive(h) \/ Serve(h)
  PROVE  /\ innPosts \subseteq innPosts' /\ userPosts \subseteq userPosts' /\ tan \subseteq tan'
         /\ ~ inn_rm_index(h) => innIndex \subseteq innIndex'
BY DEF Receive, Serve, Login, WriteDraft, Admit, PidGet, PidSet,
       CheckOld, ApplyTags, Mention, NidGet, NidSet, Notify, Store, ListInn,
       ListUser, inn_rm_index, inn_add_index, StatGet, StatSet,
       LastWrite, Announce, IncrGet, IncrSet, db

\* The request that a redirect is told is the one that was served.
LEMMA SameRow ==
  ASSUME TypeInv, NEW h \in Handlers, Receive(h) \/ Serve(h),
         pc'[h] \in After \cup {"listUser", "index", "unindex"} \/ Told(h)'
  PROVE  /\ Serve(h) /\ ~ WriteDraft(h)
         /\ job'[h].req = job[h].req /\ job'[h].pid = job[h].pid /\ job'[h].private = job[h].private
<1>1. EditTypeOK
  BY DEF TypeInv, TypeOK
<1>2. ~ WriteDraft(h) /\ ~ Receive(h)
  BY <1>1, NoJobType DEF EditTypeOK, WriteDraft, Receive, GotoWith, Told, After, Req
<1>3. ~ Admit(h) /\ ~ PidSet(h) /\ pc'[h] # "failed"
  BY <1>1 DEF EditTypeOK, Admit, PidSet, IncrSet, Throw, GotoWith, Told, After
<1>. QED
  BY <1>2, <1>3, SameJob

LEMMA ListedStep ==
  ASSUME TypeInv, StoreInv, PubInv, NEW h \in Handlers, Receive(h) \/ Serve(h)
  PROVE  Listed(h)'
<1>0. TypeOK /\ EditTypeOK /\ Listed(h)
  BY DEF TypeInv, TypeOK, PubInv
<1>1. CASE ~ (pc'[h] \in After \cup {"listUser", "index", "unindex"} \/ Told(h)')
  BY <1>1 DEF Listed, After
<1>2. CASE pc'[h] \in After \cup {"listUser", "index", "unindex"} \/ Told(h)'
  <2>1. /\ Serve(h) /\ ~ WriteDraft(h)
        /\ job'[h].req = job[h].req /\ job'[h].pid = job[h].pid /\ job'[h].private = job[h].private
    BY <1>2, SameRow
  <2>2. /\ Row(h)' = Row(h) /\ IsNew(h)' = IsNew(h) /\ Private(h)' = Private(h)
    BY <2>1 DEF Row, IsNew, Private, Req
  <2>3. Told(h)' => (Announce(h) \/ (LastWrite(h) /\ Private(h))) /\ pc[h] \in After
    BY <1>0, <2>1, WaysToRows DEF Told, Announce, LastWrite, After
  <2>4. pc'[h] \in After \/ Told(h)' => pc[h] \in After \cup {"index"}
    BY <1>0, <2>3, WaysToRows DEF inn_add_index
  <2>5. IsNew(h) /\ (pc'[h] \in After \cup {"listUser", "index"} \/ Told(h)') => Row(h) \in innPosts'
    <3>1. CASE ListInn(h)
      BY <3>1 DEF ListInn
    <3>2. CASE ~ ListInn(h)
      <4>1. IsNew(h) /\ pc'[h] = "index" => pc[h] = "listUser"
        BY <1>0, WaysToRows DEF ListUser, inn_rm_index, Listed
      <4>. QED
        BY <1>0, <2>4, <3>2, <4>1, WaysToRows, RowsGrow DEF Listed
    <3>. QED
      BY <3>1, <3>2
  <2>6. IsNew(h) /\ (pc'[h] \in After \cup {"index"} \/ Told(h)') => job[h].pid \in userPosts'
    <3>1. IsNew(h) /\ pc'[h] = "index" => job[h].pid \in userPosts'
      BY <1>0, WaysToRows DEF ListUser, inn_rm_index, Listed, Throw, GotoWith, EditTypeOK
    <3>. QED
      BY <1>0, <2>4, <3>1, RowsGrow DEF Listed
  <2>7. pc'[h] = "unindex" => ~ IsNew(h)
    BY <1>0, WaysToRows
  <2>8. pc'[h] = "tan" => ~ Private(h)
    BY <1>0, WaysToRows
  <2>9. Told(h)' => job[h].pid \in Stored' /\ (~ Private(h) => job[h].pid \in tan')
    <3>1. Told(h)' => job[h].pid \in Stored /\ Stored' = Stored
      BY <2>3 DEF StoreInv, Writing, After, Stored, Announce, LastWrite
    <3>2. Announce(h) => job[h].pid \in tan'
      BY DEF Announce
    <3>. QED
      BY <2>3, <3>1, <3>2
  <2>. QED
    BY <2>1, <2>2, <2>5, <2>6, <2>7, <2>8, <2>9 DEF Listed
<1>. QED
  BY <1>1, <1>2

\* A row of the index that goes, inn_rm_index is about to put back.
LEMMA IndexedStep ==
  ASSUME TypeInv, PubInv, NEW h \in Handlers, Receive(h) \/ Serve(h),
         NEW g \in Handlers, pc'[g] \in After \/ Told(g)'
  PROVE  Indexed(g)'
<1>0. TypeOK /\ EditTypeOK
  BY DEF TypeInv, TypeOK
<1>1. Row(g)' = Row(g) /\ (pc[g] \in After \/ Told(g) \/ (g = h /\ inn_add_index(h)))
  <2>1. CASE g = h
    <3>1. Row(g)' = Row(g)
      BY <2>1, SameRow DEF Row, Req
    <3>2. ~ WriteDraft(h)
      BY <2>1, SameRow
    <3>. QED
      BY <1>0, <2>1, <3>1, <3>2, WaysToRows DEF Told, Announce, LastWrite, After
  <2>2. CASE g # h
    <3>1. pc'[g] = pc[g] /\ job'[g] = job[g]
      BY <1>0, <2>2, OthersStay
    <3>. QED
      BY <3>1 DEF Row, Req, Told
  <2>. QED
    BY <2>1, <2>2
<1>2. CASE inn_add_index(h) /\ Row(g) = Row(h)
  BY <1>1, <1>2 DEF inn_add_index, Indexed
<1>3. CASE inn_rm_index(h) /\ Row(g) = Row(h)
  <2>1. pc'[h] = "index" /\ job'[h] = job[h]
    BY <1>0, <1>3 DEF inn_rm_index, Goto, EditTypeOK
  <2>2. Row(h)' = Row(g)'
    BY <1>1, <1>3, <2>1 DEF Row, Req
  <2>. QED
    BY <2>1, <2>2 DEF Indexed
<1>4. CASE ~ (inn_add_index(h) /\ Row(g) = Row(h)) /\ ~ (inn_rm_index(h) /\ Row(g) = Row(h))
  <2>1. Indexed(g)
    BY <1>1, <1>4 DEF PubInv
  <2>2. CASE Row(g) \in innIndex
    BY <1>1, <1>4, <2>2, RowsGrow DEF inn_rm_index, Indexed
  <2>3. ASSUME NEW f \in Handlers, At(f, "index"), Row(f) = Row(g)
        PROVE  Indexed(g)'
    <3>1. f # h
      <4>1. ASSUME f = h PROVE inn_add_index(h)
        BY <1>0, <2>3, <4>1
        DEF Receive, Serve, Login, WriteDraft, Admit, PidGet, PidSet,
            CheckOld, ApplyTags, Mention, NidGet, NidSet, Notify, Store, ListInn,
            ListUser, inn_rm_index, StatGet, StatSet,
            LastWrite, Announce, IncrGet, IncrSet
      <4>. QED
        BY <1>4, <2>3, <4>1
    <3>2. pc'[f] = pc[f] /\ job'[f] = job[f]
      BY <1>0, <3>1, OthersStay
    <3>. QED
      BY <1>1, <2>3, <3>2 DEF Indexed, Row, Req
  <2>. QED
    BY <2>1, <2>2, <2>3 DEF Indexed
<1>. QED
  BY <1>2, <1>3, <1>4

LEMMA PubStep == TypeInv /\ StoreInv /\ PubInv /\ [Next]_vars => PubInv'
<1> SUFFICES ASSUME TypeInv, StoreInv, PubInv, [Next]_vars PROVE PubInv'
  OBVIOUS
<1>0. TypeOK /\ EditTypeOK
  BY DEF TypeInv, TypeOK
<1>1. ASSUME NEW h \in Handlers, Handle(h), NEW g \in Handlers
      PROVE  Listed(g)' /\ (pc'[g] \in After \/ Told(g)' => Indexed(g)')
  <2>0. Receive(h) \/ Serve(h)
    BY <1>1 DEF Handle
  <2>1. pc'[g] \in After \/ Told(g)' => Indexed(g)'
    BY <2>0, IndexedStep
  <2>2. CASE g = h
    BY <2>0, <2>1, <2>2, ListedStep
  <2>3. CASE g # h
    <3>1. pc'[g] = pc[g] /\ job'[g] = job[g]
      BY <1>0, <2>0, <2>3, OthersStay
    <3>2. innPosts \subseteq innPosts' /\ userPosts \subseteq userPosts' /\ tan \subseteq tan'
      BY <2>0, RowsGrow
    <3>3. Stored \subseteq Stored'
      <4>1. CASE Store(h)
        BY <1>0, <4>1 DEF Store, Stored, TypeOK, DBTypeOK
      <4>2. CASE ~ Store(h)
        BY <2>0, <4>2, PostsStay DEF Stored
      <4>. QED
        BY <4>1, <4>2
    <3>4. Row(g)' = Row(g) /\ IsNew(g)' = IsNew(g) /\ Private(g)' = Private(g) /\ Told(g)' = Told(g)
      BY <3>1 DEF Row, IsNew, Private, Told, Req
    <3>5. Listed(g)
      BY DEF PubInv
    <3>6. Listed(g)'
      BY <3>1, <3>2, <3>3, <3>4, <3>5 DEF Listed
    <3>. QED
      BY <2>1, <3>6
  <2>. QED
    BY <2>2, <2>3
<1>2. CASE Cron \/ Clock \/ UNCHANGED vars
  <2>1. UNCHANGED <<posts, innPosts, userPosts, innIndex, tan, pc, job>>
    BY <1>2 DEF Cron, Sweep, Wake, Advance, Judge, Clock, vars, db, handlers
  <2>2. Stored' = Stored
    BY <2>1 DEF Stored
  <2>3. ASSUME NEW g \in Handlers
        PROVE  /\ Row(g)' = Row(g) /\ IsNew(g)' = IsNew(g) /\ Private(g)' = Private(g)
               /\ Told(g)' = Told(g)
    BY <2>1 DEF Row, IsNew, Private, Told, Req
  <2>4. ASSUME NEW g \in Handlers PROVE Listed(g)'
    BY <2>1, <2>2, <2>3 DEF PubInv, Listed
  <2>5. ASSUME NEW g \in Handlers, pc'[g] \in After \/ Told(g)' PROVE Indexed(g)'
    BY <2>1, <2>3, <2>5 DEF PubInv, Indexed
  <2>. QED
    BY <2>4, <2>5 DEF PubInv
<1>3. CASE Crash
  BY <1>3 DEF Crash, PubInv, Listed, After, Told
<1>. QED
  BY <1>1, <1>2, <1>3 DEF Next, PubInv

\* Whoever is redirected to a post finds it stored, listed, announced, and
\* indexed unless another edit is moving its row just then.
THEOREM RedirectsArePublished == Spec => []RedirectMeansPublished
<1>1. Init => PubInv
  BY DEF Init, EditInit, PubInv, Listed, After, Told
<1>2. PubInv => RedirectMeansPublished
  BY DEF PubInv, Listed, Told, Indexed, RedirectMeansPublished
<1>. QED
  BY <1>1, <1>2, PubStep, StoreInit, StoreStep, TypeInit, TypeStep, PTL DEF Spec

-----------------------------------------------------------------------------
(* Fresh numbers.  A handler that is alone finds both counters where it     *)
(* left them: what it has read is the counter, and what it was given is     *)
(* above every number in use.                                              *)

\* Adding 1 without wrapping.
LEMMA PlusOne ==
  ASSUME NEW v \in Ids, Increment(v) # 0
  PROVE  Increment(v) = v + 1
<1>1. v \in Int /\ 0 <= v /\ v + 1 <= U32
  BY WidthAssumption DEF Ids
<1>2. v + 1 # U32 => (v + 1) % U32 = v + 1
  BY <1>1, WidthAssumption
<1>3. v + 1 = U32 => (v + 1) % U32 = 0
  BY WidthAssumption
<1>. QED
  BY <1>1, <1>2, <1>3, MissingAssumption DEF Increment

\* Posts: with the number of a new post in hand, every listed one is smaller.
FreshPost(h) == "posts_count" \notin wrapped =>
  /\ counter["posts_count"] \in Ids =>
       \A row \in innPosts : row[2] <= counter["posts_count"]
  /\ pc[h] = "pidSet" /\ job[h].read \in Ids => job[h].read = counter["posts_count"]
  /\ pc[h] \in Editing \cup {"listInn"} /\ IsNew(h) =>
       /\ job[h].pid = counter["posts_count"]
       /\ \A row \in innPosts : row[2] < job[h].pid
  /\ pc[h] = "listInn" => IsNew(h)

\* Notifications: the same, of the keys that came out as numbers.
Numeric == {row \in notifications : row[1] \notin Garbage}

FreshNote(h) == "notifications_count" \notin wrapped =>
  /\ counter["notifications_count"] \in Ids =>
       \A row \in Numeric : row[1] <= counter["notifications_count"]
  /\ pc[h] = "nidSet" /\ job[h].read \in Ids => job[h].read = counter["notifications_count"]
  /\ pc[h] = "notify" =>
       /\ job[h].read = counter["notifications_count"]
       /\ \A row \in Numeric : row[1] < job[h].read

FreshInv == \A h \in Handlers : FreshPost(h) /\ FreshNote(h)

\* Of the steps of a handler, one writes each counter and one each list.
LEMMA OneWriter ==
  ASSUME TypeOK, NEW h \in Handlers, Receive(h) \/ Serve(h)
  PROVE  /\ ~ NidSet(h) => counter'["notifications_count"] = counter["notifications_count"]
         /\ ~ ListInn(h) => innPosts' = innPosts
         /\ ~ Notify(h) => notifications' = notifications
<1>1. CASE PidSet(h)
  <2>1. counter' = [counter EXCEPT !["posts_count"] = Increment(job[h].read)]
    BY <1>1 DEF PidSet, IncrSet, Fetch
  <2>. QED
    BY <1>1, <2>1 DEF TypeOK, DBTypeOK, Counters, PidSet, IncrSet
<1>2. CASE NidSet(h)
  BY <1>2 DEF NidSet, IncrSet
<1>3. CASE ~ PidSet(h) /\ ~ NidSet(h)
  BY <1>3 DEF Receive, Serve, Login, WriteDraft, Admit, PidGet, CheckOld, ApplyTags,
       Mention, NidGet, Notify, Store, ListInn, ListUser, inn_rm_index,
       inn_add_index, StatGet, StatSet, LastWrite, Announce, IncrGet, db
<1>. QED
  BY <1>1, <1>2, <1>3

\* How a handler gets to where it uses a number.
LEMMA WaysToNumbers ==
  ASSUME EditTypeOK, NEW h \in Handlers, Receive(h) \/ Serve(h)
  PROVE  /\ pc'[h] = "listInn" => Store(h) /\ IsNew(h)
         /\ pc'[h] = "nidSet" => NidGet(h)
         /\ pc'[h] = "notify" => NidSet(h)
BY DEF EditTypeOK, Receive, Serve, Login, WriteDraft, Admit, PidGet, PidSet,
       CheckOld, ApplyTags, Mention, MentionId, NidGet, NidSet, Notify, Store, ListInn,
       ListUser, inn_rm_index, inn_add_index, StatGet, StatSet,
       LastWrite, Announce, IncrGet, IncrSet, Throw, Goto, GotoWith

\* PidSet: the number is one above the counter, and so above every row.
LEMMA FreshPidSet ==
  ASSUME TypeInv, NEW h \in Handlers, PidSet(h), FreshPost(h), "posts_count" \notin wrapped'
  PROVE  FreshPost(h)'
<1>1. /\ pc[h] = "pidSet" /\ EditTypeOK /\ job[h] \in Job /\ innPosts' = innPosts
      /\ counter' = [counter EXCEPT !["posts_count"] = Increment(job[h].read)]
      /\ counter \in [Counters -> Counts] /\ innPosts \subseteq Lists
      /\ "posts_count" \notin wrapped /\ Increment(job[h].read) # 0
  BY AtWork DEF TypeInv, TypeOK, DBTypeOK, PidSet, IncrSet, Fetch
<1>2. counter'["posts_count"] = Increment(job[h].read)
  BY <1>1 DEF Counters
<1>3. CASE job[h].read \notin Ids
  <2>1. counter'["posts_count"] \notin Ids
    BY <1>1, <1>2, <1>3, MissingAssumption DEF Increment
  <2>2. pc'[h] = "failed"
    BY <1>1, <1>3 DEF PidSet, IncrSet, Throw, GotoWith, EditTypeOK
  <2>. QED
    BY <2>1, <2>2 DEF FreshPost, Editing
<1>4. CASE job[h].read \in Ids
  <2>1. job[h].read \in Ids /\ job[h].read = counter["posts_count"]
    BY <1>1, <1>4 DEF FreshPost, Job
  <2>2. Increment(job[h].read) = job[h].read + 1
    BY <1>1, <2>1, PlusOne
  <2>3. pc'[h] \in {"mention", "tags"} /\ job'[h].pid = Increment(job[h].read)
    <3>1. [job[h] EXCEPT !.pid = Increment(job[h].read), !.read = Missing].pid = Increment(job[h].read)
      BY <1>1 DEF Job
    <3>. QED
      BY <1>1, <1>4, <3>1 DEF PidSet, IncrSet, GotoWith, EditTypeOK
  <2>4. \A row \in innPosts : row[2] <= job[h].read
    BY <1>1, <2>1, <1>4 DEF FreshPost
  <2>5. ASSUME NEW row \in innPosts
        PROVE  row[2] < job[h].read + 1 /\ row[2] <= job[h].read + 1
    <3>1. row[2] \in Int /\ job[h].read \in Int
      BY <1>1, <2>1, WidthAssumption DEF Lists, Ids
    <3>. QED
      BY <2>4, <3>1
  <2>6. \A row \in innPosts' : row[2] < job'[h].pid /\ row[2] <= counter'["posts_count"]
    BY <1>1, <1>2, <2>2, <2>3, <2>5
  <2>. QED
    BY <1>2, <2>3, <2>6 DEF FreshPost
<1>. QED
  BY <1>3, <1>4

LEMMA FreshPostStep ==
  ASSUME TypeInv, EditInv, NEW h \in Handlers, FreshPost(h), Receive(h) \/ Serve(h)
  PROVE  FreshPost(h)'
<1> SUFFICES ASSUME "posts_count" \notin wrapped' PROVE FreshPost(h)'
  BY DEF FreshPost
<1>0. TypeOK /\ EditTypeOK /\ job[h] \in Job /\ "posts_count" \notin wrapped
  BY AtWork, NumbersStay DEF TypeInv, TypeOK
<1>1. CASE PidSet(h)
  BY <1>1, FreshPidSet
<1>2. CASE ListInn(h)
  <2>1. /\ pc[h] = "listInn" /\ pc'[h] = "listUser" /\ innPosts' = innPosts \cup {Row(h)}
        /\ counter' = counter
    BY <1>0, <1>2 DEF ListInn, Goto, EditTypeOK
  <2>2. Row(h)[2] = counter["posts_count"] /\ counter["posts_count"] \in Int
    BY <1>0, <2>1, WidthAssumption DEF FreshPost, Row, Job, Ids
  <2>3. counter["posts_count"] \in Ids
    BY <1>0, <2>1, MissingAssumption DEF FreshPost, Job
  <2>4. \A row \in innPosts' : row[2] <= counter["posts_count"]
    BY <1>0, <2>1, <2>2, <2>3 DEF FreshPost
  <2>. QED
    BY <2>1, <2>4 DEF FreshPost, Editing
<1>3. CASE ~ PidSet(h) /\ ~ ListInn(h)
  <2>1. counter'["posts_count"] = counter["posts_count"] /\ innPosts' = innPosts
    BY <1>0, <1>3, NumbersStay, OneWriter
  <2>2. pc'[h] = "pidSet" => job'[h].read = counter["posts_count"]
    BY <1>0, WaysToEdit DEF PidGet, IncrGet, GotoWith, EditTypeOK, Job
  <2>3. ASSUME pc'[h] \in Editing \cup {"listInn"}, IsNew(h)'
        PROVE  /\ job'[h].pid = job[h].pid
               /\ pc[h] \in Editing /\ IsNew(h)
    <3>1. Serve(h) /\ (pc[h] \in Editing \/ Admit(h) \/ CheckOld(h))
      BY <1>0, <1>3, <2>3, WaysToEdit, WaysToNumbers DEF Store, Editing, Receive, Quiet
    <3>2. job'[h].req = job[h].req
      BY <3>1, <2>3, SameRequest DEF Editing, Quiet
    <3>3. IsNew(h)
      BY <3>2, <2>3 DEF IsNew, Req
    <3>4. ~ Admit(h) /\ ~ CheckOld(h)
      BY <3>3, <1>0, <2>3 DEF Admit, Throw, GotoWith, EditTypeOK, Editing, EditInv,
                              CheckedEdit, CheckOld
    <3>5. ~ WriteDraft(h) /\ pc'[h] # "failed"
      BY <3>1, <3>4, <2>3 DEF Editing, WriteDraft
    <3>. QED
      BY <1>3, <3>1, <3>3, <3>4, <3>5, SameJob
  <2>4. pc'[h] = "listInn" => IsNew(h)'
    <3>1. ASSUME pc'[h] = "listInn" PROVE IsNew(h)'
      <4>1. Serve(h) /\ IsNew(h)
        BY <1>0, <3>1, WaysToNumbers DEF Serve
      <4>. QED
        BY <3>1, <4>1, SameRequest DEF IsNew, Req, Quiet
    <3>. QED
      BY <3>1
  <2>. QED
    BY <1>0, <2>1, <2>2, <2>3, <2>4 DEF FreshPost
<1>. QED
  BY <1>1, <1>2, <1>3

\* NidSet: the number of the notification is one above the counter.
LEMMA FreshNidSet ==
  ASSUME TypeInv, NEW h \in Handlers, NidSet(h), FreshNote(h),
         "notifications_count" \notin wrapped', Garbage \cap Ids = {}
  PROVE  FreshNote(h)'
<1>1. /\ pc[h] = "nidSet" /\ EditTypeOK /\ job[h] \in Job /\ notifications' = notifications
      /\ counter' = [counter EXCEPT !["notifications_count"] = Increment(job[h].read)]
      /\ counter \in [Counters -> Counts]
      /\ notifications \subseteq (Ids \cup Garbage) \X Ids
      /\ "notifications_count" \notin wrapped /\ Increment(job[h].read) # 0
  BY AtWork DEF TypeInv, TypeOK, DBTypeOK, NidSet, IncrSet, Fetch
<1>2. counter'["notifications_count"] = Increment(job[h].read) /\ Numeric' = Numeric
  BY <1>1 DEF Counters, Numeric
<1>3. CASE job[h].read \notin Ids
  <2>1. counter'["notifications_count"] \notin Ids
    BY <1>1, <1>2, <1>3, MissingAssumption DEF Increment
  <2>2. pc'[h] = "failed"
    BY <1>1, <1>3 DEF NidSet, IncrSet, Throw, GotoWith, EditTypeOK
  <2>. QED
    BY <2>1, <2>2 DEF FreshNote
<1>4. CASE job[h].read \in Ids
  <2>1. job[h].read \in Ids /\ job[h].read = counter["notifications_count"]
    BY <1>1, <1>4 DEF FreshNote, Job
  <2>2. Increment(job[h].read) = job[h].read + 1
    BY <1>1, <2>1, PlusOne
  <2>3. pc'[h] = "notify" /\ job'[h].read = Increment(job[h].read)
    BY <1>1, <1>4 DEF NidSet, IncrSet, GotoWith, EditTypeOK, Job
  <2>4. \A row \in Numeric : row[1] <= job[h].read
    BY <1>1, <2>1, <1>4 DEF FreshNote
  <2>5. ASSUME NEW row \in Numeric
        PROVE  row[1] < job[h].read + 1 /\ row[1] <= job[h].read + 1
    <3>1. row[1] \in Int /\ job[h].read \in Int
      BY <1>1, <2>1, WidthAssumption DEF Numeric, Ids
    <3>. QED
      BY <2>4, <3>1
  <2>6. \A row \in Numeric' : row[1] < job'[h].read /\ row[1] <= counter'["notifications_count"]
    BY <1>2, <2>2, <2>3, <2>5
  <2>. QED
    BY <1>2, <2>3, <2>6 DEF FreshNote
<1>. QED
  BY <1>3, <1>4

LEMMA FreshNoteStep ==
  ASSUME TypeInv, NEW h \in Handlers, FreshNote(h), Receive(h) \/ Serve(h),
         Garbage \cap Ids = {}
  PROVE  FreshNote(h)'
<1> SUFFICES ASSUME "notifications_count" \notin wrapped' PROVE FreshNote(h)'
  BY DEF FreshNote
<1>0. TypeOK /\ EditTypeOK /\ job[h] \in Job /\ HandOK(h) /\ "notifications_count" \notin wrapped
  BY AtWork, NumbersStay DEF TypeInv, TypeOK
<1>1. CASE NidSet(h)
  BY <1>1, FreshNidSet
<1>2. CASE Notify(h)
  <2>1. PICK k \in Garbage \cup {job[h].read} :
          notifications' = notifications \cup {<<k, job[h].pid>>}
    BY <1>2 DEF Notify
  <2>2. pc[h] = "notify" /\ pc'[h] = "mention" /\ counter' = counter
    BY <1>0, <1>2 DEF Notify, GotoWith, EditTypeOK
  <2>3. job[h].read = counter["notifications_count"] /\ counter["notifications_count"] \in Ids
    BY <1>0, <2>2, MissingAssumption DEF FreshNote, HandOK
  <2>4. counter["notifications_count"] \in Int
    BY <1>0, <2>2, <2>3, WidthAssumption DEF HandOK, Ids
  <2>5. \A row \in Numeric : row[1] <= counter["notifications_count"]
    BY <1>0, <2>3 DEF FreshNote
  <2>6. \A row \in Numeric' : row \in Numeric \/ row[1] = counter["notifications_count"]
    BY <2>1, <2>3 DEF Numeric
  <2>7. \A row \in Numeric' : row[1] <= counter["notifications_count"]
    BY <2>4, <2>5, <2>6
  <2>. QED
    BY <2>2, <2>7 DEF FreshNote
<1>3. CASE ~ NidSet(h) /\ ~ Notify(h)
  <2>1. counter'["notifications_count"] = counter["notifications_count"] /\ Numeric' = Numeric
    BY <1>0, <1>3, OneWriter DEF Numeric
  <2>2. pc'[h] = "nidSet" => job'[h].read = counter["notifications_count"]
    BY <1>0, WaysToNumbers DEF NidGet, IncrGet, GotoWith, EditTypeOK, Job
  <2>3. pc'[h] # "notify"
    BY <1>0, <1>3, WaysToNumbers
  <2>. QED
    BY <1>0, <2>1, <2>2, <2>3 DEF FreshNote
<1>. QED
  BY <1>1, <1>2, <1>3

LEMMA FreshInit == Init => FreshInv
<1> SUFFICES ASSUME Init, NEW h \in Handlers PROVE FreshPost(h) /\ FreshNote(h)
  BY DEF FreshInv
<1>1. pc[h] = "idle" /\ counter = InitCount /\ innPosts = ImportedLists /\ Numeric = {}
  BY DEF Init, DBInit, EditInit, Numeric
<1>2. First \in Ids => \A row \in ImportedLists : row[2] <= First
  BY ImportAssumption DEF ImportedLists, First
<1>. QED
  BY <1>1, <1>2 DEF FreshPost, FreshNote, Editing, First

LEMMA FreshStep ==
  ASSUME \A g, h \in Handlers : g = h, Garbage \cap Ids = {}
  PROVE  TypeInv /\ EditInv /\ FreshInv /\ [Next]_vars => FreshInv'
<1> SUFFICES ASSUME TypeInv, EditInv, FreshInv, [Next]_vars, NEW g \in Handlers
             PROVE  FreshPost(g)' /\ FreshNote(g)'
  BY DEF FreshInv
<1>1. ASSUME NEW h \in Handlers, Handle(h)
      PROVE  FreshPost(g)' /\ FreshNote(g)'
  BY <1>1, FreshPostStep, FreshNoteStep DEF Handle, FreshInv
<1>2. CASE Cron \/ Clock \/ UNCHANGED vars
  <2>1. UNCHANGED <<counter, wrapped, innPosts, notifications, pc, job>>
    BY <1>2 DEF Cron, Sweep, Wake, Advance, Judge, Clock, vars, db, handlers
  <2>2. Numeric' = Numeric /\ IsNew(g)' = IsNew(g)
    BY <2>1 DEF Numeric, IsNew, Req
  <2>. QED
    BY <2>1, <2>2 DEF FreshInv, FreshPost, FreshNote
<1>3. CASE Crash
  <2>1. pc'[g] = "idle" /\ UNCHANGED <<counter, wrapped, innPosts, notifications>>
    BY <1>3 DEF Crash, db
  <2>2. Numeric' = Numeric
    BY <2>1 DEF Numeric
  <2>. QED
    BY <2>1, <2>2 DEF FreshInv, FreshPost, FreshNote, Editing
<1>. QED
  BY <1>1, <1>2, <1>3 DEF Next

\* When one handler serves at a time, and the keys that come out garbled are
\* not numbers, a new post gets a number that no listed post has, and a
\* notification one that no other has, until a counter wraps; whatever crashes
\* in between.  With two handlers incr_id hands out the same number twice.
THEOREM FreshWhenAlone ==
  ASSUME \A g, h \in Handlers : g = h, Garbage \cap Ids = {}
  PROVE  Spec => FreshNumbers
<1> DEFINE Fresh ==
      \A h \in Handlers :
        /\ At(h, "listInn") /\ pc'[h] = "listUser" /\ "posts_count" \notin wrapped =>
             \A row \in innPosts : row[2] # job[h].pid
        /\ At(h, "notify") /\ pc'[h] = "mention" /\ "notifications_count" \notin wrapped =>
             \A row \in notifications : row[1] # job[h].read
<1>1. TypeInv /\ FreshInv => [Fresh]_vars
  <2> SUFFICES ASSUME TypeInv, FreshInv, NEW h \in Handlers
               PROVE  /\ pc[h] = "listInn" /\ "posts_count" \notin wrapped =>
                           \A row \in innPosts : row[2] # job[h].pid
                      /\ pc[h] = "notify" /\ "notifications_count" \notin wrapped =>
                           \A row \in notifications : row[1] # job[h].read
    OBVIOUS
  <2>1. TypeOK /\ HandOK(h) /\ job[h] \in Job
    BY AtWork DEF TypeInv, TypeOK
  <2>2. ASSUME pc[h] = "listInn", "posts_count" \notin wrapped, NEW row \in innPosts
        PROVE  row[2] # job[h].pid
    <3>1. row[2] < job[h].pid
      BY <2>2 DEF FreshInv, FreshPost
    <3>2. row[2] \in Int /\ job[h].pid \in Int
      BY <2>1, WidthAssumption DEF TypeOK, DBTypeOK, Lists, Job, Ids
    <3>. QED
      BY <3>1, <3>2
  <2>3. ASSUME pc[h] = "notify", "notifications_count" \notin wrapped, NEW row \in notifications
        PROVE  row[1] # job[h].read
    <3>1. CASE row \in Numeric
      <4>1. row[1] < job[h].read
        BY <2>3, <3>1 DEF FreshInv, FreshNote
      <4>2. row[1] \in Int /\ job[h].read \in Int
        BY <2>1, <2>3, <3>1, WidthAssumption DEF TypeOK, DBTypeOK, HandOK, Numeric, Ids
      <4>. QED
        BY <4>1, <4>2
    <3>2. CASE row \notin Numeric
      BY <2>1, <2>3, <3>2 DEF Numeric, HandOK
    <3>. QED
      BY <3>1, <3>2
  <2>. QED
    BY <2>2, <2>3
<1>2. Spec => []EditInv
  <2>1. TypeInv /\ CountInv /\ EditInv /\ [Next]_vars => EditInv'
    BY EditStep
  <2>. QED
    BY <2>1, EditInvInit, CountAlways, PTL DEF Spec
<1>3. Spec => [][Fresh]_vars
  BY <1>1, <1>2, FreshInit, FreshStep, CountAlways, PTL DEF Spec
<1>. QED
  BY <1>3 DEF FreshNumbers

-----------------------------------------------------------------------------
(* Ends.  No handler waits, and none goes back but to shorten its list of   *)
(* mentions: a request takes a bounded number of accesses to the store.     *)

\* The accesses that the request of h has left at most.
Left(h) ==
  LET m == 4 * Len(job[h].todo) IN
  CASE pc[h] \in {"tan", "draft"} -> 1
    [] pc[h] = "lastWrite" -> 2
    [] pc[h] = "statSet"   -> 3
    [] pc[h] = "statGet"   -> 4
    [] pc[h] = "index"     -> 5
    [] pc[h] \in {"unindex", "listUser"} -> 6
    [] pc[h] = "listInn"   -> 7
    [] pc[h] = "store"     -> 8
    [] pc[h] = "notify"    -> 6 + m
    [] pc[h] = "nidSet"    -> 7 + m
    [] pc[h] = "nidGet"    -> 8 + m
    [] pc[h] = "mention"   -> 9 + m
    [] pc[h] = "tags"      -> 10 + m
    [] pc[h] \in {"check", "pidSet"} -> 11 + m
    [] pc[h] = "pidGet"    -> 12 + m
    [] pc[h] = "admit"     -> 13 + 4 * MaxMentions
    [] pc[h] = "login"     -> 14 + 4 * MaxMentions
    [] pc[h] \in Quiet     -> 0

FewMentions == \A h \in Handlers : Len(job[h].todo) <= MaxMentions

LEMMA Shorter ==
  ASSUME NEW ms \in Seq(Word), ms # <<>>
  PROVE  Tail(ms) \in Seq(Word) /\ Len(Tail(ms)) = Len(ms) - 1 /\ Len(ms) \in Nat
OBVIOUS

\* What becomes of the mentions.
LEMMA TodoStays ==
  ASSUME TypeInv, NEW h \in Handlers, Serve(h), ~ Admit(h), ~ Mention(h), ~ Notify(h)
  PROVE  job'[h].todo = job[h].todo \/ (job'[h].todo = <<>> /\ pc'[h] \in Quiet)
<1>1. EditTypeOK /\ job[h] \in Job /\ NoJob.todo = <<>>
  BY AtWork DEF TypeInv, TypeOK, NoJob
<1>2. CASE PidGet(h) \/ NidGet(h) \/ StatGet(h)
  <2>1. CASE PidGet(h) \/ NidGet(h)
    <3>1. \E r : job'[h] = [job[h] EXCEPT !.read = r]
      BY <1>1, <2>1 DEF PidGet, NidGet, IncrGet, GotoWith, EditTypeOK
    <3>. QED
      BY <1>1, <3>1 DEF Job
  <2>2. CASE StatGet(h)
    <3>1. \E k, r : job'[h] = [job[h] EXCEPT !.key = k, !.read = r]
      BY <1>1, <2>2 DEF StatGet, GotoWith, EditTypeOK
    <3>. QED
      BY <1>1, <3>1 DEF Job
  <2>. QED
    BY <1>2, <2>1, <2>2
<1>3. CASE PidSet(h)
  <2>1. \/ job'[h] = [job[h] EXCEPT !.pid = Increment(job[h].read), !.read = Missing]
        \/ job'[h] = NoJob /\ pc'[h] = "failed"
    BY <1>1, <1>3 DEF PidSet, IncrSet, GotoWith, Throw, EditTypeOK
  <2>. QED
    BY <1>1, <2>1 DEF Job, Quiet
<1>4. CASE NidSet(h) \/ StatSet(h)
  <2>1. \/ \E r : job'[h] = [job[h] EXCEPT !.read = r]
        \/ job'[h] = NoJob /\ pc'[h] = "failed"
    BY <1>1, <1>4 DEF NidSet, StatSet, IncrSet, GotoWith, Throw, EditTypeOK
  <2>. QED
    BY <1>1, <2>1 DEF Job, Quiet
<1>5. CASE \/ Login(h) \/ WriteDraft(h) \/ CheckOld(h) \/ ApplyTags(h) \/ Store(h) \/ ListInn(h)
           \/ ListUser(h) \/ inn_rm_index(h) \/ inn_add_index(h) \/ LastWrite(h) \/ Announce(h)
  BY <1>1, <1>5 DEF EditTypeOK, Login, WriteDraft, CheckOld, ApplyTags, Store, ListInn, ListUser,
                    inn_rm_index, inn_add_index, LastWrite, Announce, Throw, Goto, GotoWith, Quiet
<1>. QED
  BY <1>2, <1>3, <1>4, <1>5 DEF Serve

LEMMA TodoAdmit ==
  ASSUME TypeInv, NEW h \in Handlers, Admit(h)
  PROVE  /\ pc[h] = "admit" /\ job[h] \in Job
         /\ \/ pc'[h] = "failed" /\ job'[h].todo = <<>>
            \/ /\ pc'[h] \in {"pidGet", "mention", "check"}
               /\ job'[h].todo \in Seq(Word)
               /\ Len(job'[h].todo) <= MaxMentions
<1>1. EditTypeOK /\ job[h] \in Job /\ NoJob.todo = <<>> /\ pc[h] = "admit"
  BY AtWork DEF TypeInv, TypeOK, NoJob, Admit
<1>2. Req(h).mentions \in Seq(Word) /\ Len(Req(h).mentions) <= MaxMentions
  BY <1>1, AtWork, RequestAssumption DEF Request, Quiet
<1>3. ASSUME NEW b PROVE [job[h] EXCEPT !.pid = Req(h).old_pid, !.private = b,
                                        !.todo = Req(h).mentions].todo = Req(h).mentions
  BY <1>1 DEF Job
<1>. QED
  BY <1>1, <1>2, <1>3 DEF Admit, Throw, GotoWith, EditTypeOK

LEMMA TodoMention ==
  ASSUME TypeInv, NEW h \in Handlers, Mention(h) \/ Notify(h)
  PROVE  /\ pc[h] \in {"mention", "notify"} /\ job[h] \in Job
         /\ \/ pc'[h] = "failed" /\ job'[h].todo = <<>>
            \/ pc[h] = "mention" /\ pc'[h] \in {"store", "nidGet"} /\ job'[h].todo = job[h].todo
            \/ /\ pc'[h] = "mention" /\ job[h].todo # <<>>
               /\ job'[h].todo = Tail(job[h].todo)
<1>1. EditTypeOK /\ job[h] \in Job /\ NoJob.todo = <<>> /\ HandOK(h) /\ TypeOK
  BY AtWork DEF TypeInv, TypeOK, NoJob
<1>2. NextMention(h).todo = Tail(job[h].todo)
  BY <1>1 DEF NextMention, Job
<1>3. CASE Mention(h)
  BY <1>1, <1>2, <1>3 DEF Mention, MentionId, Goto, GotoWith, Throw, EditTypeOK
<1>4. CASE Notify(h)
  <2>1. job[h].todo # <<>> /\ pc[h] = "notify"
    BY <1>1, <1>4 DEF Notify, HandOK
  <2>2. [NextMention(h) EXCEPT !.read = Missing].todo = Tail(job[h].todo)
    BY <1>1, <1>2 DEF NextMention, Job
  <2>. QED
    BY <1>1, <1>4, <2>1, <2>2 DEF Notify, GotoWith, EditTypeOK
<1>. QED
  BY <1>3, <1>4

LEMMA FewStep ==
  ASSUME TypeInv, FewMentions, [Next]_vars
  PROVE  FewMentions'
<1>1. MaxMentions \in Nat /\ Len(<<>>) = 0 /\ NoJob.todo = <<>>
  BY RequestAssumption DEF NoJob
<1>2. ASSUME NEW h \in Handlers, Handle(h), NEW g \in Handlers
      PROVE  Len(job'[g].todo) <= MaxMentions
  <2>1. EditTypeOK /\ (Receive(h) \/ Serve(h)) /\ job[h] \in Job
    BY <1>2, AtWork DEF Handle, TypeInv, TypeOK
  <2>2. CASE g # h
    BY <2>1, <2>2, OthersStay DEF FewMentions
  <2>3. CASE g = h /\ Receive(h)
    <3>1. ASSUME NEW r PROVE [NoJob EXCEPT !.req = r].todo = <<>>
      BY DEF NoJob
    <3>. QED
      BY <1>1, <2>1, <2>3, <3>1 DEF Receive, EditTypeOK
  <2>4. CASE g = h /\ Admit(h)
    BY <1>1, <2>4, TodoAdmit
  <2>5. CASE g = h /\ (Mention(h) \/ Notify(h))
    <3>1. Len(job[h].todo) <= MaxMentions
      BY DEF FewMentions
    <3>2. job[h].todo # <<>> => Len(Tail(job[h].todo)) <= MaxMentions
      BY <1>1, <2>1, <3>1, Shorter DEF Job
    <3>3. \/ job'[h].todo = <<>>
          \/ job'[h].todo = job[h].todo
          \/ job[h].todo # <<>> /\ job'[h].todo = Tail(job[h].todo)
      BY <2>5, TodoMention
    <3>4. job'[h].todo = <<>> => Len(job'[h].todo) <= MaxMentions
      BY <1>1
    <3>. QED
      BY <2>5, <3>1, <3>2, <3>3, <3>4
  <2>6. CASE g = h /\ Serve(h) /\ ~ Admit(h) /\ ~ Mention(h) /\ ~ Notify(h)
    BY <1>1, <2>6, TodoStays DEF FewMentions
  <2>. QED
    BY <2>1, <2>2, <2>3, <2>4, <2>5, <2>6
<1>3. CASE Cron \/ Clock \/ UNCHANGED vars
  BY <1>3 DEF Cron, Clock, vars, handlers, FewMentions
<1>4. CASE Crash
  BY <1>1, <1>4 DEF Crash, FewMentions
<1>. QED
  BY <1>2, <1>3, <1>4 DEF Next, FewMentions

LEMMA LeftType ==
  ASSUME TypeInv, FewMentions, NEW h \in Handlers
  PROVE  /\ Left(h) \in 0 .. 14 + 4 * MaxMentions
         /\ Left(h) = 0 <=> pc[h] \in Quiet
<1>1. job[h] \in Job /\ pc[h] \in PCs /\ MaxMentions \in Nat /\ Len(job[h].todo) <= MaxMentions
  BY AtWork, RequestAssumption DEF TypeInv, TypeOK, FewMentions
<1>2. Len(job[h].todo) \in Nat
  BY <1>1 DEF Job
<1>3. CASE pc[h] \in Quiet
  BY <1>1, <1>3 DEF Left, Quiet
<1>4. CASE pc[h] \in {"login", "admit", "draft", "tan", "lastWrite", "statSet", "statGet", "index",
                      "unindex", "listUser", "listInn", "store"}
  <2>1. Left(h) \in 1 .. 8 \cup {13 + 4 * MaxMentions, 14 + 4 * MaxMentions}
    BY <1>4 DEF Left, Quiet
  <2>. QED
    BY <1>1, <1>4, <2>1 DEF Quiet
<1>5. CASE pc[h] \in {"notify", "nidSet", "nidGet", "mention", "tags", "check", "pidSet", "pidGet"}
  <2>1. Left(h) \in 6 + 4 * Len(job[h].todo) .. 12 + 4 * Len(job[h].todo)
    BY <1>1, <1>2, <1>5 DEF Left, Quiet
  <2>2. 4 * Len(job[h].todo) <= 4 * MaxMentions
    BY <1>1, <1>2
  <2>. QED
    BY <1>1, <1>2, <1>5, <2>1, <2>2 DEF Quiet
<1>. QED
  BY <1>1, <1>3, <1>4, <1>5 DEF PCs, Quiet

\* Each access leaves fewer.
LEMMA LeftDrops ==
  ASSUME TypeInv, FewMentions, TypeInv', FewMentions', NEW h \in Handlers, Serve(h)
  PROVE  Left(h)' < Left(h)
<1>1. /\ EditTypeOK /\ job[h] \in Job /\ pc[h] \notin Quiet /\ MaxMentions \in Nat
      /\ Len(job[h].todo) \in Nat /\ Len(job[h].todo) <= MaxMentions
  <2>1. EditTypeOK /\ job[h] \in Job /\ Len(job[h].todo) <= MaxMentions /\ MaxMentions \in Nat
    BY AtWork, RequestAssumption DEF TypeInv, TypeOK, FewMentions
  <2>2. pc[h] \notin Quiet
    BY DEF Quiet, Serve, Login, WriteDraft, Admit, PidGet, PidSet, CheckOld, ApplyTags, Mention,
         NidGet, NidSet, Notify, Store, ListInn, ListUser, inn_rm_index, inn_add_index,
         StatGet, StatSet, LastWrite, Announce, IncrGet, IncrSet
  <2>3. Len(job[h].todo) \in Nat
    BY <2>1 DEF Job
  <2>. QED
    BY <2>1, <2>2, <2>3
<1>2. CASE pc'[h] \in Quiet
  <2>1. Left(h)' = 0
    BY <1>2 DEF Left, Quiet
  <2>2. Left(h) \in Nat /\ Left(h) # 0
    BY <1>1, LeftType
  <2>. QED
    BY <2>1, <2>2
<1>3. CASE pc'[h] \notin Quiet /\ Admit(h)
  <2>1. pc[h] = "admit" /\ pc'[h] \in {"pidGet", "mention", "check"} /\ Len(job'[h].todo) <= MaxMentions
    BY <1>3, TodoAdmit DEF Quiet
  <2>2. Len(job'[h].todo) \in Nat
    BY <1>3, TodoAdmit DEF Quiet
  <2>. QED
    BY <1>1, <2>1, <2>2 DEF Left, Quiet
<1>4. CASE pc'[h] \notin Quiet /\ (Mention(h) \/ Notify(h))
  <2>1. \/ pc[h] = "mention" /\ pc'[h] \in {"store", "nidGet"} /\ job'[h].todo = job[h].todo
        \/ /\ pc[h] \in {"mention", "notify"} /\ pc'[h] = "mention"
           /\ job[h].todo # <<>> /\ job'[h].todo = Tail(job[h].todo)
    BY <1>4, TodoMention DEF Quiet
  <2>2. job[h].todo # <<>> => Len(Tail(job[h].todo)) = Len(job[h].todo) - 1
    BY <1>1, Shorter DEF Job
  <2>3. ASSUME pc[h] = "mention", pc'[h] \in {"store", "nidGet"}, job'[h].todo = job[h].todo
        PROVE  Left(h)' < Left(h)
    BY <1>1, <2>3 DEF Left, Quiet
  <2>4. ASSUME pc[h] \in {"mention", "notify"}, pc'[h] = "mention",
               Len(job'[h].todo) = Len(job[h].todo) - 1
        PROVE  Left(h)' < Left(h)
    <3>1. Left(h)' = 9 + 4 * (Len(job[h].todo) - 1)
      BY <2>4 DEF Left, Quiet
    <3>2. Left(h) \in {6 + 4 * Len(job[h].todo), 9 + 4 * Len(job[h].todo)}
      BY <2>4 DEF Left, Quiet
    <3>. QED
      BY <1>1, <3>1, <3>2
  <2>. QED
    BY <2>1, <2>2, <2>3, <2>4
<1>5. CASE pc'[h] \notin Quiet /\ ~ Admit(h) /\ ~ Mention(h) /\ ~ Notify(h)
  <2>1. job'[h].todo = job[h].todo
    BY <1>5, TodoStays
  <2>2. <<pc[h], pc'[h]>> \in
          {<<"login", "admit">>, <<"login", "draft">>, <<"pidGet", "pidSet">>, <<"pidSet", "mention">>,
           <<"pidSet", "tags">>, <<"check", "tags">>, <<"tags", "mention">>, <<"nidGet", "nidSet">>,
           <<"nidSet", "notify">>, <<"store", "listInn">>, <<"store", "unindex">>,
           <<"listInn", "listUser">>, <<"listUser", "index">>, <<"unindex", "index">>,
           <<"index", "statGet">>, <<"statGet", "statSet">>, <<"statSet", "lastWrite">>,
           <<"lastWrite", "tan">>}
    BY <1>1, <1>5
    DEF EditTypeOK, Quiet, Serve, Login, WriteDraft, PidGet, PidSet, CheckOld, ApplyTags, NidGet,
        NidSet, Store, ListInn, ListUser, inn_rm_index, inn_add_index, StatGet, StatSet,
        LastWrite, Announce, IncrGet, IncrSet, Throw, Goto, GotoWith
  <2>. QED
    BY <1>1, <2>1, <2>2 DEF Left, Quiet
<1>. QED
  BY <1>2, <1>3, <1>4, <1>5

\* A request ends after at most 14 + 4 * MaxMentions accesses of its handler
\* (34 with the 5 mentions of main.cpp:193), whatever others do meanwhile: each
\* access leaves fewer, and nothing but a new request adds to them.
THEOREM RequestsGetDone ==
  Spec => /\ [](\A h \in Handlers : /\ Left(h) \in 0 .. 14 + 4 * MaxMentions
                                    /\ Left(h) = 0 <=> pc[h] \in Quiet)
          /\ [][\A h \in Handlers : /\ Serve(h) => Left(h)' < Left(h)
                                    /\ Left(h)' > Left(h) => Receive(h)]_vars
<1> DEFINE Bound == \A h \in Handlers : /\ Left(h) \in 0 .. 14 + 4 * MaxMentions
                                        /\ Left(h) = 0 <=> pc[h] \in Quiet
           Less == \A h \in Handlers : /\ Serve(h) => Left(h)' < Left(h)
                                       /\ Left(h)' > Left(h) => Receive(h)
<1>1. Init => FewMentions
  BY RequestAssumption DEF Init, EditInit, FewMentions, NoJob
<1>2. TypeInv /\ FewMentions /\ [Next]_vars => FewMentions'
  BY FewStep
<1>3. TypeInv /\ FewMentions => Bound
  BY LeftType
<1>4. TypeInv /\ FewMentions /\ TypeInv' /\ FewMentions' /\ [Next]_vars => [Less]_vars
  <2> SUFFICES ASSUME TypeInv, FewMentions, TypeInv', FewMentions', Next, NEW h \in Handlers
               PROVE  /\ Serve(h) => Left(h)' < Left(h)
                      /\ Left(h)' > Left(h) => Receive(h)
    BY <1>3
  <2>1. Serve(h) => Left(h)' < Left(h)
    BY LeftDrops
  <2>2. Left(h) \in Int
    BY LeftType, RequestAssumption
  <2>3. ASSUME NEW g \in Handlers, Handle(g), g # h
        PROVE  Left(h)' = Left(h)
    <3>1. pc'[h] = pc[h] /\ job'[h] = job[h]
      BY <2>3, OthersStay DEF Handle, TypeInv, TypeOK
    <3>. QED
      BY <3>1 DEF Left
  <2>4. ASSUME Cron \/ Clock PROVE Left(h)' = Left(h)
    <3>1. pc' = pc /\ job' = job
      BY <2>4 DEF Cron, Clock, handlers
    <3>. QED
      BY <3>1 DEF Left
  <2>5. ASSUME Crash PROVE Left(h)' <= Left(h)
    <3>1. pc'[h] = "idle"
      BY <2>5 DEF Crash
    <3>2. Left(h)' = 0
      BY <3>1 DEF Left, Quiet
    <3>3. Left(h) >= 0
      BY LeftType, RequestAssumption
    <3>. QED
      BY <3>2, <3>3
  <2>6. ASSUME Left(h)' > Left(h) PROVE Receive(h)
    <3>0. Left(h)' \in Int
      <4>1. (TypeInv /\ FewMentions => Bound)'
        BY <1>3, PTL
      <4>. QED
        BY <4>1, RequestAssumption
    <3>1. Left(h)' # Left(h) /\ ~ (Left(h)' <= Left(h)) /\ ~ (Left(h)' < Left(h))
      BY <2>2, <2>6, <3>0
    <3>2. PICK g \in Handlers : Handle(g)
      BY <2>4, <2>5, <3>1 DEF Next
    <3>3. g = h
      BY <2>3, <3>1, <3>2
    <3>. QED
      BY <2>1, <3>1, <3>2, <3>3 DEF Handle
  <2>. QED
    BY <2>1, <2>6
<1>. QED
  BY <1>1, <1>2, <1>3, <1>4, TypeInit, TypeStep, PTL DEF Spec

=============================================================================
