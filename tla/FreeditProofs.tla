--------------------------- MODULE FreeditProofs ---------------------------
(***************************************************************************)
(* Proofs about module Freedit, for any number of handlers, any requests    *)
(* and any imported database.                                              *)
(***************************************************************************)
EXTENDS Freedit, TLAPS

-----------------------------------------------------------------------------
(* Types.                                                                  *)

\* Handlers with no request at hand, and those that have not logged in.
Quiet == {"idle", "redirect", "failed"}
Anon  == Quiet \cup {"login"}

\* A handler without a request has a well-formed job.
LEMMA NoJobType == NoJob \in Job /\ NoJob.req = NoRequest
<1>1. 0 \in Ids
  BY WidthAssumption DEF Ids
<1>2. <<>> \in Seq(Word)
  OBVIOUS
<1>. QED
  BY <1>1, <1>2 DEF NoJob, Job, Counts

\* A move to a place that fits the new job keeps the handlers well-formed.
LEMMA MoveType ==
  ASSUME EditTypeOK, NEW h \in Handlers, NEW there \in PCs, NEW j \in Job,
         GotoWith(h, there, j),
         there \notin Quiet => j.req \in Requests,
         there \notin Anon => j.req.cookie \in DOMAIN Sessions
  PROVE  EditTypeOK'
<1>1. pc' \in [Handlers -> PCs] /\ job' \in [Handlers -> Job] /\ served' \in 0 .. MaxRequests
  BY DEF EditTypeOK, GotoWith
<1>2. ASSUME NEW g \in Handlers
      PROVE  /\ pc'[g] \notin Quiet => job'[g].req \in Requests
             /\ pc'[g] \notin Anon => job'[g].req.cookie \in DOMAIN Sessions
  <2>1. CASE g = h
    BY <2>1 DEF EditTypeOK, GotoWith
  <2>2. CASE g # h
    BY <2>2 DEF EditTypeOK, GotoWith, Quiet, Anon, Req
  <2>. QED
    BY <2>1, <2>2
<1>. QED
  BY <1>1, <1>2 DEF EditTypeOK, Quiet, Anon, Req

\* A request at work is one of the requests; past the login it has a claim.
LEMMA AtWork ==
  ASSUME EditTypeOK, NEW h \in Handlers
  PROVE  /\ job[h] \in Job
         /\ pc[h] \in PCs
         /\ pc[h] \notin Quiet => Req(h) \in Requests /\ Req(h) \in Request
         /\ pc[h] \notin Anon => Req(h).cookie \in DOMAIN Sessions /\ Uid(h) \in Ids
<1>1. job[h] \in Job /\ pc[h] \in PCs
  BY DEF EditTypeOK
<1>2. pc[h] \notin Quiet => Req(h) \in Requests /\ Req(h) \in Request
  BY RequestAssumption DEF EditTypeOK, Quiet
<1>3. pc[h] \notin Anon => Req(h).cookie \in DOMAIN Sessions
  BY DEF EditTypeOK, Anon, Quiet
<1>4. pc[h] \notin Anon => Uid(h) \in Ids
  BY <1>3, TreeAssumption DEF Uid, Claim
<1>. QED
  BY <1>1, <1>2, <1>3, <1>4

\* Keeping the job while moving on.
LEMMA GotoType ==
  ASSUME EditTypeOK, NEW h \in Handlers, NEW there \in PCs, Goto(h, there),
         pc[h] \notin Anon
  PROVE  EditTypeOK'
<1>1. GotoWith(h, there, job[h])
  BY DEF Goto, GotoWith, EditTypeOK
<1>. QED
  BY <1>1, AtWork, MoveType DEF Quiet, Anon, Req

LEMMA ThrowType ==
  ASSUME EditTypeOK, NEW h \in Handlers, Throw(h)
  PROVE  EditTypeOK'
BY NoJobType, MoveType DEF Throw, Quiet, Anon, PCs

\* Numbers counted up stay within the width.
LEMMA IncrementType ==
  ASSUME NEW v \in Counts
  PROVE  Increment(v) \in Counts /\ (v \in Ids => Increment(v) \in Ids)
<1>1. v \in Ids => (v + 1) % U32 \in Ids
  BY WidthAssumption DEF Ids
<1>. QED
  BY <1>1 DEF Increment, Counts

LEMMA ZeroIsCounted == 0 \in Ids
BY WidthAssumption DEF Ids

\* Each step of a handler keeps the types.
LEMMA ReceiveType ==
  ASSUME TypeOK, NEW h \in Handlers, Receive(h)
  PROVE  DBTypeOK' /\ EditTypeOK'
<1>1. DBTypeOK'
  BY DEF TypeOK, DBTypeOK, Receive, db
<1>2. PICK r \in Requests :
        /\ pc' = [pc EXCEPT ![h] = "login"]
        /\ job' = [job EXCEPT ![h] = [NoJob EXCEPT !.req = r]]
  BY DEF Receive
<1>3. [NoJob EXCEPT !.req = r] \in Job /\ [NoJob EXCEPT !.req = r].req = r
  BY NoJobType DEF Job, NoJob
<1>4. served' \in 0 .. MaxRequests
  BY RequestAssumption DEF Receive, TypeOK, EditTypeOK
<1>5. pc' \in [Handlers -> PCs] /\ job' \in [Handlers -> Job]
  BY <1>2, <1>3 DEF TypeOK, EditTypeOK, PCs
<1>6. ASSUME NEW g \in Handlers
      PROVE  /\ pc'[g] \notin Quiet => job'[g].req \in Requests
             /\ pc'[g] \notin Anon => job'[g].req.cookie \in DOMAIN Sessions
  <2>1. CASE g = h
    BY <2>1, <1>2, <1>3 DEF TypeOK, EditTypeOK, Anon, Quiet
  <2>2. CASE g # h
    BY <2>2, <1>2 DEF TypeOK, EditTypeOK, Quiet, Anon, Req
  <2>. QED
    BY <2>1, <2>2
<1>. QED
  BY <1>1, <1>4, <1>5, <1>6 DEF EditTypeOK, Quiet, Anon, Req

LEMMA LoginType ==
  ASSUME TypeOK, NEW h \in Handlers, Login(h)
  PROVE  DBTypeOK' /\ EditTypeOK'
<1>1. DBTypeOK'
  BY DEF TypeOK, DBTypeOK, Login, db
<1>2. CASE Throw(h)
  BY <1>1, <1>2, ThrowType DEF TypeOK
<1>3. CASE ~ Throw(h)
  <2>1. PICK there \in {"admit", "draft"} : Goto(h, there)
    BY <1>3 DEF Login
  <2>2. Req(h).cookie \in DOMAIN Sessions
    BY <1>3 DEF Login, LoggedIn
  <2>3. GotoWith(h, there, job[h])
    BY <2>1 DEF Goto, GotoWith, TypeOK, EditTypeOK
  <2>4. job[h] \in Job /\ Req(h) \in Requests
    BY AtWork DEF Login, At, Quiet, TypeOK
  <2>. QED
    BY <1>1, <2>2, <2>3, <2>4, MoveType DEF TypeOK, PCs, Req
<1>. QED
  BY <1>2, <1>3

LEMMA WriteDraftType ==
  ASSUME TypeOK, NEW h \in Handlers, WriteDraft(h)
  PROVE  DBTypeOK' /\ EditTypeOK'
<1>1. DBTypeOK'
  BY DEF TypeOK, DBTypeOK, WriteDraft
<1>2. EditTypeOK'
  BY NoJobType, MoveType DEF TypeOK, WriteDraft, Quiet, Anon, PCs
<1>. QED
  BY <1>1, <1>2

LEMMA AdmitType ==
  ASSUME TypeOK, NEW h \in Handlers, Admit(h)
  PROVE  DBTypeOK' /\ EditTypeOK'
<1>1. DBTypeOK'
  BY DEF TypeOK, DBTypeOK, Admit, db
<1>2. CASE Throw(h)
  BY <1>1, <1>2, ThrowType DEF TypeOK
<1>3. CASE ~ Throw(h)
  <2>1. PICK private \in BOOLEAN, there \in {"pidGet", "mention", "check"} :
          GotoWith(h, there, [job[h] EXCEPT !.pid = Req(h).old_pid,
                                            !.private = private,
                                            !.todo = Req(h).mentions])
    BY <1>3 DEF Admit
  <2>2. /\ job[h] \in Job /\ Req(h) \in Request /\ Req(h) \in Requests
        /\ Req(h).cookie \in DOMAIN Sessions
    BY AtWork DEF Admit, At, Quiet, Anon, TypeOK
  <2> DEFINE j == [job[h] EXCEPT !.pid = Req(h).old_pid, !.private = private,
                                 !.todo = Req(h).mentions]
  <2>3. j \in Job /\ j.req = Req(h)
    BY <2>2 DEF Job, Request, Req
  <2>. QED
    BY <1>1, <2>1, <2>2, <2>3, MoveType DEF TypeOK, PCs
<1>. QED
  BY <1>2, <1>3

LEMMA IncrGetType ==
  ASSUME TypeOK, NEW h \in Handlers, NEW c \in Counters, NEW here \in PCs \ Anon,
         NEW there \in PCs, IncrGet(h, c, here, there)
  PROVE  DBTypeOK' /\ EditTypeOK'
<1>1. DBTypeOK'
  BY DEF TypeOK, DBTypeOK, IncrGet, db
<1>2. /\ job[h] \in Job /\ Req(h) \in Requests
      /\ Req(h).cookie \in DOMAIN Sessions
  BY AtWork DEF IncrGet, At, Quiet, Anon, TypeOK
<1> DEFINE j == [job[h] EXCEPT !.read = counter[c]]
<1>3. j \in Job /\ j.req = Req(h)
  BY <1>2 DEF Job, Req, TypeOK, DBTypeOK
<1>4. EditTypeOK'
  BY <1>2, <1>3, MoveType DEF IncrGet, TypeOK
<1>. QED
  BY <1>1, <1>4

LEMMA IncrSetType ==
  ASSUME TypeOK, NEW h \in Handlers, NEW c \in Counters, NEW here \in PCs \ Anon,
         NEW there \in PCs, NEW j, job[h].read \in Ids => j \in Job,
         j.req = Req(h), IncrSet(h, c, here, there, j)
  PROVE  DBTypeOK' /\ EditTypeOK'
<1>1. /\ job[h] \in Job /\ Req(h) \in Requests
      /\ Req(h).cookie \in DOMAIN Sessions
  BY AtWork DEF IncrSet, At, Quiet, Anon, TypeOK
<1>2. Increment(job[h].read) \in Counts
  BY <1>1, IncrementType DEF Job
<1>3. DBTypeOK'
  BY <1>2 DEF TypeOK, DBTypeOK, IncrSet, Fetch
<1>4. EditTypeOK'
  <2>1. CASE job[h].read \notin Ids
    BY <2>1, ThrowType DEF IncrSet, TypeOK
  <2>2. CASE job[h].read \in Ids
    BY <2>2, <1>1, MoveType DEF IncrSet, TypeOK
  <2>. QED
    BY <2>1, <2>2
<1>. QED
  BY <1>3, <1>4

LEMMA PidType ==
  ASSUME TypeOK, NEW h \in Handlers, PidGet(h) \/ PidSet(h)
  PROVE  DBTypeOK' /\ EditTypeOK'
<1>1. CASE PidGet(h)
  BY <1>1, IncrGetType DEF PidGet, Counters, PCs, Anon, Quiet
<1>2. CASE PidSet(h)
  <2> DEFINE j == [job[h] EXCEPT !.pid = Increment(job[h].read), !.read = Missing]
             there == IF Private(h) THEN "mention" ELSE "tags"
  <2>1. job[h] \in Job
    BY AtWork DEF TypeOK
  <2>2. j.req = Req(h) /\ (job[h].read \in Ids => j \in Job)
    BY <2>1, IncrementType DEF Job, Req, Counts
  <2>3. IncrSet(h, "posts_count", "pidSet", there, j)
    BY <1>2 DEF PidSet
  <2>4. there \in PCs /\ "pidSet" \in PCs \ Anon /\ "posts_count" \in Counters
    BY DEF PCs, Anon, Quiet, Counters
  <2>. HIDE DEF j, there
  <2>. QED
    BY <2>2, <2>3, <2>4, IncrSetType
<1>. QED
  BY <1>1, <1>2

LEMMA NidType ==
  ASSUME TypeOK, NEW h \in Handlers, NidGet(h) \/ NidSet(h)
  PROVE  DBTypeOK' /\ EditTypeOK'
<1>1. CASE NidGet(h)
  BY <1>1, IncrGetType DEF NidGet, Counters, PCs, Anon, Quiet
<1>2. CASE NidSet(h)
  <2> DEFINE j == [job[h] EXCEPT !.read = Increment(job[h].read)]
  <2>1. job[h] \in Job
    BY AtWork DEF TypeOK
  <2>2. j.req = Req(h) /\ (job[h].read \in Ids => j \in Job)
    BY <2>1, IncrementType DEF Job, Req, Counts
  <2>3. IncrSet(h, "notifications_count", "nidSet", "notify", j)
    BY <1>2 DEF NidSet
  <2>4. "notify" \in PCs /\ "nidSet" \in PCs \ Anon /\ "notifications_count" \in Counters
    BY DEF PCs, Anon, Quiet, Counters
  <2>. HIDE DEF j
  <2>. QED
    BY <2>2, <2>3, <2>4, IncrSetType
<1>. QED
  BY <1>1, <1>2

LEMMA CheckOldType ==
  ASSUME TypeOK, NEW h \in Handlers, CheckOld(h)
  PROVE  DBTypeOK' /\ EditTypeOK'
<1>1. DBTypeOK'
  BY DEF TypeOK, DBTypeOK, CheckOld, db
<1>2. EditTypeOK'
  BY GotoType, ThrowType DEF CheckOld, At, Quiet, Anon, PCs, TypeOK
<1>. QED
  BY <1>1, <1>2

LEMMA ApplyTagsType ==
  ASSUME TypeOK, NEW h \in Handlers, ApplyTags(h)
  PROVE  DBTypeOK' /\ EditTypeOK'
<1>1. job[h] \in Job /\ Req(h) \in Request
  BY AtWork DEF ApplyTags, At, Quiet, TypeOK
<1>2. job[h].pid \in Ids /\ FirstTags(Req(h).tags) \subseteq Tags
  BY <1>1 DEF Job, Request, FirstTags
<1>3. DBTypeOK'
  BY <1>2 DEF TypeOK, DBTypeOK, ApplyTags
<1>4. EditTypeOK'
  BY GotoType DEF ApplyTags, At, Quiet, Anon, PCs, TypeOK
<1>. QED
  BY <1>3, <1>4

\* Going on to the next mention.
LEMMA NextMentionType ==
  ASSUME TypeOK, NEW h \in Handlers, job[h].todo # <<>>
  PROVE  NextMention(h) \in Job /\ NextMention(h).req = Req(h)
<1>1. job[h] \in Job
  BY AtWork DEF TypeOK
<1>2. Tail(job[h].todo) \in Seq(Word)
  BY <1>1 DEF Job
<1>. QED
  BY <1>1, <1>2 DEF NextMention, Job, Req

LEMMA MentionType ==
  ASSUME TypeOK, NEW h \in Handlers, Mention(h)
  PROVE  DBTypeOK' /\ EditTypeOK'
<1>1. DBTypeOK'
  BY DEF TypeOK, DBTypeOK, Mention, db
<1>2. /\ Req(h) \in Requests
      /\ Req(h).cookie \in DOMAIN Sessions
      /\ pc[h] \notin Anon
  BY AtWork DEF Mention, At, Quiet, Anon, TypeOK
<1>3. CASE Goto(h, "store") \/ Goto(h, "nidGet")
  BY <1>1, <1>2, <1>3, GotoType DEF TypeOK, PCs
<1>4. CASE Throw(h)
  BY <1>1, <1>4, ThrowType DEF TypeOK
<1>5. CASE job[h].todo # <<>> /\ GotoWith(h, "mention", NextMention(h))
  BY <1>1, <1>2, <1>5, NextMentionType, MoveType DEF TypeOK, PCs
<1>. QED
  BY <1>1, <1>3, <1>4, <1>5 DEF Mention, MentionId

\* Who is about to notify has a mention in hand and a number for it; who is
\* about to write a row of user_stats has computed its key.
HandOK(h) ==
  /\ pc[h] \in {"nidGet", "nidSet", "notify"} => job[h].todo # <<>>
  /\ pc[h] = "notify" => job[h].read \in Ids
  /\ pc[h] = "statSet" => job[h].key \in StatKeys

TypeInv == TypeOK /\ \A h \in Handlers : HandOK(h)

LEMMA NotifyType ==
  ASSUME TypeOK, NEW h \in Handlers, HandOK(h), Notify(h)
  PROVE  DBTypeOK' /\ EditTypeOK'
<1>1. /\ job[h] \in Job /\ Req(h) \in Requests /\ job[h].pid \in Ids
      /\ Req(h).cookie \in DOMAIN Sessions
  BY AtWork DEF Notify, At, Quiet, Anon, TypeOK, Job
<1>2. job[h].read \in Ids /\ job[h].todo # <<>>
  BY DEF HandOK, Notify, At
<1>3. DBTypeOK'
  BY <1>1, <1>2 DEF TypeOK, DBTypeOK, Notify
<1> DEFINE j == [NextMention(h) EXCEPT !.read = Missing]
<1>4. j \in Job /\ j.req = Req(h)
  BY <1>2, NextMentionType DEF Job, Counts
<1>5. EditTypeOK'
  BY <1>1, <1>4, MoveType DEF Notify, TypeOK, PCs
<1>. QED
  BY <1>3, <1>5

\* The rows of the post.
LEMMA RowsType ==
  ASSUME TypeOK, NEW h \in Handlers,
         \/ Store(h) \/ ListInn(h) \/ ListUser(h)
         \/ inn_rm_index(h) \/ inn_add_index(h) \/ Announce(h)
  PROVE  DBTypeOK' /\ EditTypeOK'
<1>1. pc[h] \notin Anon /\ pc[h] \notin Quiet
  BY DEF Store, ListInn, ListUser, inn_rm_index, inn_add_index, Announce,
         At, Quiet, Anon
<1>2. job[h] \in Job /\ Req(h) \in Request
  BY <1>1, AtWork DEF TypeOK
<1>3. job[h].pid \in Ids /\ Row(h) \in Lists
  BY <1>2 DEF Job, Request, Row, Lists
<1>4. CASE Store(h)
  BY <1>1, <1>3, <1>4, GotoType DEF Store, TypeOK, DBTypeOK, PCs
<1>5. CASE ListInn(h)
  BY <1>1, <1>3, <1>5, GotoType DEF ListInn, TypeOK, DBTypeOK, PCs
<1>6. CASE ListUser(h)
  BY <1>1, <1>3, <1>6, GotoType, ThrowType DEF ListUser, TypeOK, DBTypeOK, PCs
<1>7. CASE inn_rm_index(h)
  BY <1>1, <1>3, <1>7, GotoType DEF inn_rm_index, TypeOK, DBTypeOK, PCs
<1>8. CASE inn_add_index(h)
  BY <1>1, <1>3, <1>8, GotoType DEF inn_add_index, TypeOK, DBTypeOK, PCs
<1>9. CASE Announce(h)
  BY <1>1, <1>3, <1>9, GotoType DEF Announce, TypeOK, DBTypeOK, PCs
<1>. QED
  BY <1>4, <1>5, <1>6, <1>7, <1>8, <1>9

LEMMA StatType ==
  ASSUME TypeOK, NEW h \in Handlers,
         HandOK(h), StatGet(h) \/ StatSet(h) \/ LastWrite(h)
  PROVE  DBTypeOK' /\ EditTypeOK'
<1>1. pc[h] \notin Anon /\ pc[h] \notin Quiet
  BY DEF StatGet, StatSet, LastWrite, At, Quiet, Anon
<1>2. /\ job[h] \in Job /\ Req(h) \in Requests
      /\ Req(h).cookie \in DOMAIN Sessions /\ Uid(h) \in Ids
  BY <1>1, AtWork DEF TypeOK
<1>3. CASE StatGet(h)
  <2> DEFINE k == StatKey(now, Uid(h))
             j == [job[h] EXCEPT !.key = k, !.read = StatRow(k)]
  <2>1. k \in StatKeys /\ 0 \in Ids
    BY <1>2, TreeAssumption, WidthAssumption DEF TypeOK, DBTypeOK, Ids
  <2>2. j \in Job /\ j.req = Req(h)
    BY <1>2, <2>1, ZeroIsCounted DEF Job, Req, StatRow, Counts
  <2>3. GotoWith(h, "statSet", j) /\ UNCHANGED db
    BY <1>3 DEF StatGet
  <2>. HIDE DEF j
  <2>4. EditTypeOK'
    BY <1>2, <2>2, <2>3, MoveType DEF TypeOK, PCs
  <2>5. DBTypeOK'
    BY <2>3 DEF TypeOK, DBTypeOK, db
  <2>. QED
    BY <2>4, <2>5
<1>4. CASE StatSet(h)
  <2> DEFINE j == [job[h] EXCEPT !.read = Missing]
  <2>1. j \in Job /\ j.req = Req(h)
    BY <1>2 DEF Job, Req, Counts
  <2>2. EditTypeOK'
    BY <1>2, <1>4, <2>1, ThrowType, MoveType DEF StatSet, TypeOK, PCs
  <2>3. DBTypeOK'
    BY <1>4 DEF StatSet, At, HandOK, TypeOK, DBTypeOK
  <2>. QED
    BY <2>2, <2>3
<1>5. CASE LastWrite(h)
  <2>1. DBTypeOK'
    BY <1>2, <1>5 DEF LastWrite, TypeOK, DBTypeOK
  <2>2. EditTypeOK'
    BY <1>1, <1>5, GotoType DEF LastWrite, TypeOK, PCs
  <2>. QED
    BY <2>1, <2>2
<1>. QED
  BY <1>3, <1>4, <1>5

LEMMA ServeType ==
  ASSUME TypeInv, NEW h \in Handlers, Receive(h) \/ Serve(h)
  PROVE  DBTypeOK' /\ EditTypeOK'
<1>1. TypeOK /\ HandOK(h)
  BY DEF TypeInv
<1>2. CASE Receive(h) \/ Login(h) \/ WriteDraft(h) \/ Admit(h)
  BY <1>1, <1>2, ReceiveType, LoginType, WriteDraftType, AdmitType
<1>3. CASE PidGet(h) \/ PidSet(h) \/ CheckOld(h) \/ ApplyTags(h)
  BY <1>1, <1>3, PidType, CheckOldType, ApplyTagsType
<1>4. CASE Mention(h) \/ NidGet(h) \/ NidSet(h) \/ Notify(h)
  BY <1>1, <1>4, MentionType, NidType, NotifyType
<1>5. CASE Store(h) \/ ListInn(h) \/ ListUser(h) \/ inn_rm_index(h) \/ inn_add_index(h) \/ Announce(h)
  BY <1>1, <1>5, RowsType
<1>6. CASE StatGet(h) \/ StatSet(h) \/ LastWrite(h)
  BY <1>1, <1>6, StatType
<1>. QED
  BY <1>2, <1>3, <1>4, <1>5, <1>6 DEF Serve

\* Only the handler that moves changes its place and its locals.
LEMMA OthersStay ==
  ASSUME NEW h \in Handlers, Receive(h) \/ Serve(h), NEW g \in Handlers, g # h,
         EditTypeOK
  PROVE  pc'[g] = pc[g] /\ job'[g] = job[g]
BY DEF EditTypeOK, Receive, Serve, Login, WriteDraft, Admit, PidGet, PidSet,
       CheckOld, ApplyTags, Mention, MentionId, NidGet, NidSet, Notify, Store,
       ListInn, ListUser, inn_rm_index, inn_add_index, StatGet, StatSet,
       LastWrite, Announce, IncrGet, IncrSet, Throw, Goto, GotoWith

\* What a handler has in hand, it has prepared.
LEMMA HandStep ==
  ASSUME TypeInv, NEW h \in Handlers, Receive(h) \/ Serve(h)
  PROVE  HandOK(h)'
<1>1. TypeOK /\ EditTypeOK /\ HandOK(h) /\ job[h] \in Job
  BY AtWork DEF TypeInv, TypeOK
<1>2. CASE pc'[h] \notin {"nidGet", "nidSet", "notify", "statSet"}
  BY <1>2 DEF HandOK
<1>3. CASE pc'[h] \in {"nidGet", "nidSet", "notify", "statSet"}
  <2>1. Mention(h) \/ NidGet(h) \/ NidSet(h) \/ StatGet(h)
    BY <1>1, <1>3 DEF EditTypeOK, Receive, Serve, Login, WriteDraft, Admit,
         PidGet, PidSet, CheckOld, ApplyTags, Notify, Store, ListInn, ListUser,
         inn_rm_index, inn_add_index, StatSet, LastWrite, Announce,
         IncrGet, IncrSet, Throw, Goto, GotoWith
  <2>2. CASE Mention(h)
    BY <1>1, <1>3, <2>2 DEF HandOK, Mention, MentionId, Goto, GotoWith, Throw,
         EditTypeOK
  <2>3. CASE NidGet(h)
    BY <1>1, <1>3, <2>3 DEF HandOK, NidGet, IncrGet, At, GotoWith, EditTypeOK, Job
  <2>4. CASE NidSet(h)
    BY <1>1, <1>3, <2>4, IncrementType
    DEF HandOK, NidSet, IncrSet, At, Throw, GotoWith, EditTypeOK, Job
  <2>5. CASE StatGet(h)
    <3>1. StatKey(now, Uid(h)) \in StatKeys
      BY <2>5, <1>1, AtWork, TreeAssumption
      DEF StatGet, At, Anon, Quiet, TypeOK, DBTypeOK
    <3>. QED
      BY <1>1, <2>5, <3>1 DEF HandOK, StatGet, At, GotoWith, EditTypeOK, Job
  <2>. QED
    BY <2>1, <2>2, <2>3, <2>4, <2>5
<1>. QED
  BY <1>2, <1>3

LEMMA TypeInit == Init => TypeInv
<1> SUFFICES ASSUME Init PROVE TypeInv
  OBVIOUS
<1>1. DBTypeOK
  <2>1. ImportedLists \subseteq Lists
    BY ImportAssumption DEF ImportedLists, Lists, Record
  <2>. QED
    BY <2>1, TreeAssumption, ImportAssumption, WidthAssumption
    DEF Init, DBInit, DBTypeOK, Now
<1>2. EditTypeOK
  BY NoJobType, RequestAssumption DEF Init, EditInit, EditTypeOK, PCs
<1>3. CronTypeOK /\ crashes \in 0 .. MaxCrashes
  BY CrashAssumption DEF Init, CronInit, CronTypeOK
<1>4. \A h \in Handlers : HandOK(h)
  BY DEF Init, EditInit, HandOK
<1>. QED
  BY <1>1, <1>2, <1>3, <1>4 DEF TypeInv, TypeOK

LEMMA CronType ==
  ASSUME TypeInv, Cron
  PROVE  TypeInv'
<1>1. DBTypeOK' /\ CronTypeOK'
  <2>1. CASE Wake
    BY <2>1 DEF TypeInv, TypeOK, DBTypeOK, CronTypeOK, Wake, db
  <2>2. CASE Advance
    BY <2>2 DEF TypeInv, TypeOK, DBTypeOK, CronTypeOK, Advance, Ahead, db
  <2>3. CASE Judge
    BY <2>3 DEF TypeInv, TypeOK, DBTypeOK, CronTypeOK, Judge
  <2>. QED
    BY <2>1, <2>2, <2>3 DEF Cron, Sweep
<1>2. UNCHANGED <<handlers, crashes>>
  BY DEF Cron
<1>. QED
  BY <1>1, <1>2 DEF TypeInv, TypeOK, EditTypeOK, HandOK, handlers, Req

LEMMA TypeStep == TypeInv /\ [Next]_vars => TypeInv'
<1> SUFFICES ASSUME TypeInv, [Next]_vars PROVE TypeInv'
  OBVIOUS
<1>1. ASSUME NEW h \in Handlers, Handle(h)
      PROVE  TypeInv'
  <2>1. DBTypeOK' /\ EditTypeOK'
    BY <1>1, ServeType DEF Handle
  <2>2. UNCHANGED <<sweeper, crashes>>
    BY <1>1 DEF Handle
  <2>3. ASSUME NEW g \in Handlers
        PROVE  HandOK(g)'
    <3>1. CASE g = h
      BY <1>1, <3>1, HandStep DEF Handle
    <3>2. CASE g # h
      BY <1>1, <3>2, OthersStay DEF Handle, HandOK, TypeInv, TypeOK
    <3>. QED
      BY <3>1, <3>2
  <2>. QED
    BY <2>1, <2>2, <2>3 DEF TypeInv, TypeOK, CronTypeOK, sweeper
<1>2. CASE Cron
  BY <1>2, CronType
<1>3. CASE Clock
  <2>1. now' \in Now
    BY <1>3, TreeAssumption DEF Clock, Tick, Now, TypeInv, TypeOK, DBTypeOK
  <2>. QED
    BY <1>3, <2>1 DEF Clock, TypeInv, TypeOK, DBTypeOK, EditTypeOK, CronTypeOK,
                      HandOK, handlers, sweeper, Req
<1>4. CASE Crash
  BY <1>4, NoJobType, CrashAssumption
  DEF Crash, TypeInv, TypeOK, DBTypeOK, EditTypeOK, CronTypeOK, HandOK, db, PCs, Req
<1>5. CASE UNCHANGED vars
  BY <1>5 DEF vars, TypeInv, TypeOK, DBTypeOK, EditTypeOK, CronTypeOK, HandOK, db,
              handlers, sweeper, Req
<1>. QED
  BY <1>1, <1>2, <1>3, <1>4, <1>5 DEF Next

\* Every tree, handler and the cron job keep their types.
THEOREM TypeCorrect == Spec => []TypeOK
<1>1. TypeInv => TypeOK
  BY DEF TypeInv
<1>. QED
  BY <1>1, TypeInit, TypeStep, PTL DEF Spec

-----------------------------------------------------------------------------
(* The store is a PostStore.  A row names a stored post because its writer  *)
(* has stored the post, and no step takes a post away.                      *)

\* The places behind Store.
Writing == {"listInn", "listUser", "unindex", "index", "statGet", "statSet",
            "lastWrite", "tan"}

StoreInv ==
  /\ IndexedStored
  /\ \A h \in Handlers : pc[h] \in Writing => job[h].pid \in Stored

blog == <<posts, innPosts, userPosts, innIndex, tan>>

\* Apart from the writers of rows, a handler leaves the lists alone and gets
\* behind Store only from there, with the post it had.
LEMMA QuietStep ==
  ASSUME TypeOK, NEW h \in Handlers, Receive(h) \/ Serve(h),
         ~ Store(h), ~ ListInn(h), ~ ListUser(h), ~ inn_rm_index(h),
         ~ inn_add_index(h), ~ Announce(h)
  PROVE  /\ UNCHANGED blog
         /\ pc'[h] \in Writing => pc[h] \in Writing /\ job'[h].pid = job[h].pid
<1>1. CASE Receive(h) \/ Login(h) \/ WriteDraft(h) \/ Admit(h)
  BY <1>1 DEF Receive, Login, WriteDraft, Admit, Throw, Goto, GotoWith, db, blog,
              Writing, TypeOK, EditTypeOK
<1>2. CASE PidGet(h) \/ PidSet(h) \/ NidGet(h) \/ NidSet(h)
  BY <1>2 DEF PidGet, PidSet, NidGet, NidSet, IncrGet, IncrSet, Throw, GotoWith,
              db, blog, Writing, TypeOK, EditTypeOK
<1>3. CASE CheckOld(h) \/ ApplyTags(h) \/ Mention(h) \/ Notify(h)
  BY <1>3 DEF CheckOld, ApplyTags, Mention, MentionId, Notify, Throw, Goto,
              GotoWith, db, blog, Writing, TypeOK, EditTypeOK
<1>4. CASE StatGet(h) \/ StatSet(h) \/ LastWrite(h)
  <2>1. UNCHANGED blog
    BY <1>4 DEF StatGet, StatSet, LastWrite, db, blog
  <2>2. pc[h] \in Writing
    BY <1>4 DEF StatGet, StatSet, LastWrite, At, Writing
  <2>3. job[h] \in Job
    BY AtWork DEF TypeOK
  <2>4. pc'[h] = "failed" \/ job'[h].pid = job[h].pid
    BY <1>4, <2>3 DEF StatGet, StatSet, LastWrite, Throw, Goto, GotoWith, Job,
                      TypeOK, EditTypeOK
  <2>. QED
    BY <2>1, <2>2, <2>4 DEF Writing
<1>. QED
  BY <1>1, <1>2, <1>3, <1>4 DEF Serve

\* What a handler that writes rows does to the store, as PostStore says it.
LEMMA RowStep ==
  ASSUME TypeInv, StoreInv, NEW h \in Handlers,
         \/ Store(h) \/ ListInn(h) \/ ListUser(h)
         \/ inn_rm_index(h) \/ inn_add_index(h) \/ Announce(h)
  PROVE  /\ Blog!Next \/ UNCHANGED blog
         /\ job'[h].pid = job[h].pid \/ pc'[h] = "failed"
         /\ job[h].pid \in Stored'
<1>1. pc[h] \notin Anon /\ pc[h] \notin Quiet /\ TypeOK
  BY DEF Store, ListInn, ListUser, inn_rm_index, inn_add_index, Announce,
         At, Quiet, Anon, TypeInv
<1>2. job[h].pid \in Ids /\ Row(h) \in Iids \X Ids /\ Row(h)[2] = job[h].pid
  BY <1>1, AtWork DEF TypeOK, Job, Request, Row
<1>3. CASE Store(h)
  <2>1. Stored' = Stored \cup {job[h].pid}
    BY <1>1, <1>2, <1>3 DEF Store, Stored, TypeOK, DBTypeOK
  <2>2. Blog!Publish
    BY <1>2, <1>3, <2>1 DEF Store, Blog!Publish
  <2>. QED
    BY <1>3, <2>1, <2>2 DEF Store, Goto, Blog!Next
<1>4. CASE ~ Store(h)
  <2>1. job[h].pid \in Stored
    BY <1>4 DEF StoreInv, Writing, ListInn, ListUser, inn_rm_index,
                inn_add_index, Announce, At
  <2>2. UNCHANGED posts /\ Stored' = Stored
    BY <1>4 DEF Stored, ListInn, ListUser, inn_rm_index, inn_add_index, Announce
  <2>3. Row(h) \in Blog!Rows(Stored)
    BY <1>2, <2>1 DEF Blog!Rows
  <2>4. job'[h].pid = job[h].pid \/ pc'[h] = "failed"
    BY <1>1, <1>4 DEF ListInn, ListUser, inn_rm_index, inn_add_index, Announce,
                      Throw, Goto, GotoWith, TypeOK, EditTypeOK
  <2>5. Blog!Next \/ UNCHANGED blog
    <3>1. CASE ListInn(h)
      BY <2>2, <2>3, <3>1 DEF ListInn, Blog!ListInInn, Blog!Next
    <3>2. CASE ListUser(h)
      BY <2>1, <2>2, <3>2 DEF ListUser, blog, Blog!ListForUser, Blog!Next
    <3>3. CASE inn_rm_index(h)
      BY <2>2, <2>3, <3>3 DEF inn_rm_index, Blog!Index, Blog!Next
    <3>4. CASE inn_add_index(h)
      BY <2>2, <2>3, <3>4 DEF inn_add_index, Blog!Index, Blog!Next
    <3>5. CASE Announce(h)
      BY <2>1, <2>2, <3>5 DEF Announce, Blog!Announce, Blog!Next
    <3>. QED
      BY <1>4, <3>1, <3>2, <3>3, <3>4, <3>5
  <2>. QED
    BY <2>1, <2>2, <2>4, <2>5
<1>. QED
  BY <1>3, <1>4

\* A step of the abstract store keeps rows behind posts.
LEMMA BlogStep ==
  ASSUME IndexedStored, TypeOK, Blog!Next
  PROVE  IndexedStored' /\ Stored \subseteq Stored'
BY DEF IndexedStored, Blog!Next, Blog!Publish, Blog!ListInInn, Blog!ListForUser,
       Blog!Index, Blog!Announce, Blog!Rows, TypeOK, DBTypeOK, Lists

LEMMA StoreInit == Init => StoreInv
<1> SUFFICES ASSUME Init PROVE StoreInv
  OBVIOUS
<1>1. Stored = DOMAIN Imported
  BY ImportAssumption DEF Init, DBInit, Stored
<1>. QED
  BY <1>1 DEF Init, DBInit, EditInit, ImportedLists, StoreInv, IndexedStored, Writing

\* Each step keeps the rows behind the posts, and is a step of PostStore.
LEMMA StoreStep ==
  ASSUME TypeInv, StoreInv, [Next]_vars
  PROVE  StoreInv' /\ [Blog!Next]_Blog!vars
<1>1. ASSUME NEW h \in Handlers, Handle(h)
      PROVE  StoreInv' /\ [Blog!Next]_Blog!vars
  <2>1. Receive(h) \/ Serve(h)
    BY <1>1 DEF Handle
  <2>2. TypeOK /\ EditTypeOK
    BY DEF TypeInv, TypeOK
  <2>3. /\ Blog!Next \/ UNCHANGED blog
        /\ pc'[h] \in Writing => job'[h].pid \in Stored'
    <3>1. CASE /\ ~ Store(h) /\ ~ ListInn(h) /\ ~ ListUser(h)
               /\ ~ inn_rm_index(h) /\ ~ inn_add_index(h) /\ ~ Announce(h)
      BY <2>1, <2>2, <3>1, QuietStep DEF StoreInv, Stored, blog
    <3>2. CASE \/ Store(h) \/ ListInn(h) \/ ListUser(h)
               \/ inn_rm_index(h) \/ inn_add_index(h) \/ Announce(h)
      BY <3>2, RowStep DEF Writing
    <3>. QED
      BY <3>1, <3>2
  <2>4. IndexedStored' /\ Stored \subseteq Stored'
    <3>1. CASE Blog!Next
      BY <2>2, <3>1, BlogStep DEF StoreInv
    <3>2. CASE UNCHANGED blog
      BY <3>2 DEF StoreInv, IndexedStored, Stored, blog
    <3>. QED
      BY <2>3, <3>1, <3>2
  <2>5. ASSUME NEW g \in Handlers, pc'[g] \in Writing
        PROVE  job'[g].pid \in Stored'
    <3>1. CASE g = h
      BY <2>3, <2>5, <3>1
    <3>2. CASE g # h
      BY <2>1, <2>2, <2>4, <2>5, <3>2, OthersStay DEF StoreInv
    <3>. QED
      BY <3>1, <3>2
  <2>6. [Blog!Next]_Blog!vars
    BY <2>3 DEF blog, Blog!vars, Stored
  <2>. QED
    BY <2>4, <2>5, <2>6 DEF StoreInv
<1>2. CASE Cron \/ Clock \/ Crash \/ UNCHANGED vars
  <2>1. UNCHANGED blog
    BY <1>2 DEF Cron, Sweep, Wake, Advance, Judge, Clock, Crash, vars, db, blog
  <2>2. \A h \in Handlers : pc'[h] \in Writing => pc'[h] = pc[h] /\ job'[h] = job[h]
    BY <1>2 DEF Cron, Clock, Crash, vars, handlers, Writing
  <2>. QED
    BY <2>1, <2>2 DEF StoreInv, IndexedStored, Stored, blog, Blog!vars
<1>. QED
  BY <1>1, <1>2 DEF Next

\* No row names a post that is not stored.
THEOREM RowsNameStoredPosts == Spec => []IndexedStored
<1>1. StoreInv => IndexedStored
  BY DEF StoreInv
<1>2. TypeInv /\ StoreInv /\ [Next]_vars => StoreInv'
  BY StoreStep
<1>. QED
  BY <1>1, <1>2, TypeInit, TypeStep, StoreInit, PTL DEF Spec

\* Handlers, cron job and crashes implement the abstract store.
THEOREM StoreIsPostStore == Spec => ImplementsPostStore
<1>1. Init => Blog!Init
  <2> SUFFICES ASSUME Init PROVE Blog!Init
    OBVIOUS
  <2>1. Stored = DOMAIN Imported /\ Stored \subseteq Ids
    BY ImportAssumption DEF Init, DBInit, Stored
  <2>2. ImportedLists \subseteq Blog!Rows(Stored)
    BY <2>1, ImportAssumption DEF ImportedLists, Record, Blog!Rows
  <2>. QED
    BY <2>1, <2>2 DEF Init, DBInit, Blog!Init
<1>2. TypeInv /\ StoreInv /\ [Next]_vars => [Blog!Next]_Blog!vars /\ StoreInv'
  BY StoreStep
<1>. QED
  BY <1>1, <1>2, TypeInit, TypeStep, StoreInit, PTL DEF Spec, ImplementsPostStore, Blog!Spec
=============================================================================
