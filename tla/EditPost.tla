------------------------------ MODULE EditPost ------------------------------
(***************************************************************************)
(* The request handlers of cpp/freedit: edit_post_post, one action for each *)
(* access to the store.  A request names the post it edits, or 0 for a new  *)
(* one.  A throw ends the request and undoes nothing.                       *)
(*                                                                         *)
(* Where the code reads through iterators of two different temporaries      *)
(* (lines 433, 182, 202 and 582) or destroys a string copied with memcpy    *)
(* (Inn, Post, User), the step has every outcome of the build: an           *)
(* exception, a garbled value, and the end of the process, which is the     *)
(* Crash of module Freedit.                                                 *)
(***************************************************************************)
EXTENDS FreeditDB, Sequences

CONSTANTS
  Handlers,     \* the threads that serve requests
  Requests,     \* what a client may send
  MaxRequests,  \* bound on the requests of a behaviour
  NoCookie,     \* the request has no cookie
  NoRequest,    \* the handler has no request
  ReadOnly,     \* site_config.read_only
  PostInterval, \* site_config.post_interval
  MaxMentions,  \* 5 in the code
  MaxTags       \* 5 in the code

VARIABLES
  pc,      \* where each handler is
  job,     \* the locals of its request
  served   \* the requests received

handlers == <<pc, job, served>>

\* A word that extract_element found after an '@': a
\* number, a number beyond unsigned long, or a name.
Word     == [type : {"id", "huge", "name"}, n : Nat]
Request  == [cookie : DOMAIN Sessions \cup {NoCookie},
             form : {"publish", "save_draft", "delete_draft"},
             old_pid : Ids, iid : Iids, tags : SUBSET Tags,
             mentions : Seq(Word)]

ASSUME RequestAssumption ==
  /\ Requests \subseteq Request
  /\ MaxRequests \in Nat
  /\ \A r \in Requests : Len(r.mentions) <= MaxMentions
  /\ MaxMentions \in Nat /\ MaxTags \in Nat
  /\ ReadOnly \in BOOLEAN
  /\ PostInterval \in Int
  /\ NoCookie \notin DOMAIN Sessions
  /\ NoRequest \notin Requests

\* tags.resize(5) on the sorted tags.
FirstTags(S) == {t \in S : Cardinality({u \in S : u < t}) < MaxTags}

NoJob == [req |-> NoRequest, pid |-> 0, private |-> FALSE,
          read |-> Missing, todo |-> <<>>, key |-> 0]

Private(h) == job[h].private
Req(h)     == job[h].req
Uid(h)     == Sessions[Req(h).cookie].uid
IsNew(h)   == Req(h).old_pid = 0
Row(h)     == <<Req(h).iid, job[h].pid>>

-----------------------------------------------------------------------------
\* Moving from one access to the next.

At(h, here) == pc[h] = here

Goto(h, there) ==
  /\ pc' = [pc EXCEPT ![h] = there]
  /\ UNCHANGED <<job, served>>

GotoWith(h, there, j) ==
  /\ pc' = [pc EXCEPT ![h] = there]
  /\ job' = [job EXCEPT ![h] = j]
  /\ UNCHANGED served

\* An AppError or a standard exception leaves the handler.
Throw(h) == GotoWith(h, "failed", NoJob)

-----------------------------------------------------------------------------
\* Who asks, and may it post?

Receive(h) ==
  /\ pc[h] \in {"idle", "redirect", "failed"}
  /\ served < MaxRequests
  /\ \E r \in Requests :
       /\ pc' = [pc EXCEPT ![h] = "login"]
       /\ job' = [job EXCEPT ![h] = [NoJob EXCEPT !.req = r]]
  /\ served' = served + 1
  /\ UNCHANGED db

\* Mutants of LoggedIn: banned users log in; so does everybody to a site that is
\* read only.
LoggedInBanned(h) ==
  /\ Req(h).cookie \in DOMAIN Sessions
  /\ LET claim == Sessions[Req(h).cookie]
     IN  now <= claim.expires /\ (ReadOnly => claim.role = 0)
LoggedInToReadOnly(h) ==
  /\ Req(h).cookie \in DOMAIN Sessions
  /\ now <= Sessions[Req(h).cookie].expires /\ Sessions[Req(h).cookie].role # 3

\* Claim::get finds a claim.
LoggedIn(h) ==
  /\ Req(h).cookie \in DOMAIN Sessions
  /\ LET claim == Sessions[Req(h).cookie]
     IN  /\ now <= claim.expires
         /\ ReadOnly => claim.role = 0
         /\ claim.role # 3

\* The key of the draft is read through two temporaries: it throws or is garbage.
Login(h) ==
  /\ At(h, "login")
  /\ \/ Throw(h)
     \/ /\ LoggedIn(h)
        /\ Goto(h, IF Req(h).form = "publish" THEN "admit" ELSE "draft")
  /\ UNCHANGED db

WriteDraft(h) ==
  /\ At(h, "draft")
  /\ \E k \in Garbage :
       drafts' = IF Req(h).form = "delete_draft" THEN drafts \ {k} ELSE drafts \cup {k}
  /\ GotoWith(h, "redirect", NoJob)
  /\ UNCHANGED <<counter, posts, tags, notifications, innPosts, userPosts,
                 innIndex, tan, lastWrites, stats, now, wrapped>>

\* Mutant of Admitted: every user may post.
AdmittedAnybody(h) ==
  /\ now - Sessions[Req(h).cookie].last_write >= PostInterval
  /\ Req(h).iid \in Inns

\* The claim in the tree "session" is as old as the login: see LastWrite.
Admitted(h) ==
  /\ MayPost(Req(h).iid, Uid(h))
  /\ now - Sessions[Req(h).cookie].last_write >= PostInterval
  /\ Req(h).iid \in Inns

\* Whether the inn is private is read from a copied std::string: either.
Admit(h) ==
  /\ At(h, "admit")
  /\ \/ ~ Admitted(h) /\ Throw(h)
     \/ /\ Admitted(h)
        /\ \E private \in BOOLEAN :
             GotoWith(h, IF IsNew(h) THEN "pidGet"
                         ELSE IF private THEN "mention" ELSE "check",
                      [job[h] EXCEPT
                         !.pid = Req(h).old_pid, !.private = private,
                         !.todo = Req(h).mentions])
  /\ UNCHANGED db

-----------------------------------------------------------------------------
\* incr_id on a counter, for the number of a post and of a notification.

IncrGet(h, c, here, there) ==
  /\ At(h, here)
  /\ GotoWith(h, there, [job[h] EXCEPT !.read = counter[c]])
  /\ UNCHANGED db

IncrSet(h, c, here, there, j) ==
  /\ At(h, here)
  /\ Fetch(c, job[h].read)
  /\ IF job[h].read \in Ids THEN GotoWith(h, there, j) ELSE Throw(h)
  /\ UNCHANGED <<posts, tags, notifications, innPosts, userPosts, innIndex,
                 tan, drafts, lastWrites, stats, now>>

PidGet(h) == IncrGet(h, "posts_count", "pidGet", "pidSet")

PidSet(h) ==
  IncrSet(h, "posts_count", "pidSet", IF Private(h) THEN "mention" ELSE "tags",
          [job[h] EXCEPT !.pid = Increment(job[h].read), !.read = Missing])

NidGet(h) == IncrGet(h, "notifications_count", "nidGet", "nidSet")

NidSet(h) ==
  IncrSet(h, "notifications_count", "nidSet", "notify",
          [job[h] EXCEPT !.read = Increment(job[h].read)])

-----------------------------------------------------------------------------
\* Tags, and the check of the post that a public inn asks for.

\* Mutant of MayEdit: anyone may edit.
MayEditAny(h) ==
  posts[job[h].pid] = "record" /\ Imported[job[h].pid].iid = Req(h).iid

\* A post this code has stored is a pointer, which get_one<Post> rejects.
MayEdit(h) ==
  LET p == job[h].pid
  IN  /\ posts[p] = "record"
      /\ Imported[p].uid = Uid(h)
      /\ Imported[p].normal
      /\ Imported[p].iid = Req(h).iid

CheckOld(h) ==
  /\ At(h, "check")
  /\ \/ ~ MayEdit(h) /\ Throw(h)
     \/ MayEdit(h) /\ Goto(h, "tags")
  /\ UNCHANGED db

\* One batch.  The old tags are read from a copied std::vector: any of them.
ApplyTags(h) ==
  /\ At(h, "tags")
  /\ \E old \in IF IsNew(h) THEN {{}} ELSE SUBSET Tags :
       tags' = (tags \ (old \X {job[h].pid}))
                 \cup (FirstTags(Req(h).tags) \X {job[h].pid})
  /\ Goto(h, "mention")
  /\ UNCHANGED <<counter, posts, notifications, innPosts, userPosts, innIndex,
                 tan, drafts, lastWrites, stats, now, wrapped>>

-----------------------------------------------------------------------------
\* One notification for each user mentioned.

NextMention(h) == [job[h] EXCEPT !.todo = Tail(job[h].todo)]

\* A number is cut to a uint32_t.
MentionId(h, uid) ==
  \/ uid \notin Users /\ Throw(h)
  \/ uid \in Users /\ uid = Uid(h) /\ GotoWith(h, "mention", NextMention(h))
  \/ uid \in Users /\ uid # Uid(h) /\ Goto(h, "nidGet")

\* get_id_by_name replaces through the iterators of a temporary: it throws, or
\* looks for garbage, which may be nobody's name, the author's or another's.
\* std::out_of_range is not std::invalid_argument.
Mention(h) ==
  /\ At(h, "mention")
  /\ IF job[h].todo = <<>> THEN Goto(h, "store")
     ELSE LET m == Head(job[h].todo)
          IN  \/ m.type = "id" /\ MentionId(h, m.n % U32)
              \/ m.type \in {"huge", "name"} /\ Throw(h)
              \/ m.type = "name" /\ GotoWith(h, "mention", NextMention(h))
              \/ m.type = "name" /\ Goto(h, "nidGet")
  /\ UNCHANGED db

\* The bytes of the type are inserted at the end of another vector: the key is
\* the number of the notification after some zeros, or garbage.
Notify(h) ==
  /\ At(h, "notify")
  /\ \E k \in Garbage \cup {job[h].read} :
       notifications' = notifications \cup {<<k, job[h].pid>>}
  /\ GotoWith(h, "mention", [NextMention(h) EXCEPT !.read = Missing])
  /\ UNCHANGED <<counter, posts, tags, innPosts, userPosts, innIndex, tan,
                 drafts, lastWrites, stats, now, wrapped>>

-----------------------------------------------------------------------------
\* The post and its rows.

\* Mutant of Store: the row is not written.
StoreNothing(h) ==
  /\ At(h, "store")
  /\ Goto(h, IF IsNew(h) THEN "listInn" ELSE "unindex")
  /\ UNCHANGED db

\* set_one is given &post: the row holds a pointer to the stack.
Store(h) ==
  /\ At(h, "store")
  /\ posts' = [posts EXCEPT ![job[h].pid] = "pointer"]
  /\ Goto(h, IF IsNew(h) THEN "listInn" ELSE "unindex")
  /\ UNCHANGED <<counter, tags, notifications, innPosts, userPosts, innIndex,
                 tan, drafts, lastWrites, stats, now, wrapped>>

ListInn(h) ==
  /\ At(h, "listInn")
  /\ innPosts' = innPosts \cup {Row(h)}
  /\ Goto(h, "listUser")
  /\ UNCHANGED <<counter, posts, tags, notifications, userPosts, innIndex, tan,
                 drafts, lastWrites, stats, now, wrapped>>

\* The key starts with what lies between two temporaries: it throws or is garbage.
ListUser(h) ==
  /\ At(h, "listUser")
  /\ \/ Throw(h) /\ UNCHANGED userPosts
     \/ /\ userPosts' = userPosts \cup {job[h].pid}
        /\ Goto(h, "index")
  /\ UNCHANGED <<counter, posts, tags, notifications, innPosts, innIndex, tan,
                 drafts, lastWrites, stats, now, wrapped>>

\* Mutant of inn_rm_index: the row is not put back.
inn_rm_index_only(h) ==
  /\ At(h, "unindex")
  /\ innIndex' = innIndex \ {Row(h)}
  /\ Goto(h, "statGet")
  /\ UNCHANGED <<counter, posts, tags, notifications, innPosts, userPosts, tan,
                 drafts, lastWrites, stats, now, wrapped>>

\* Where remove throws, the row stays and the error that comes back is ignored.
inn_rm_index(h) ==
  /\ At(h, "unindex")
  /\ innIndex' = innIndex \ {Row(h)} \/ UNCHANGED innIndex
  /\ Goto(h, "index")
  /\ UNCHANGED <<counter, posts, tags, notifications, innPosts, userPosts, tan,
                 drafts, lastWrites, stats, now, wrapped>>

inn_add_index(h) ==
  /\ At(h, "index")
  /\ innIndex' = innIndex \cup {Row(h)}
  /\ Goto(h, "statGet")
  /\ UNCHANGED <<counter, posts, tags, notifications, innPosts, userPosts, tan,
                 drafts, lastWrites, stats, now, wrapped>>

-----------------------------------------------------------------------------
\* After the post.

\* What get answers for a key of "user_stats".  How much a row counts, nothing reads.
StatRow(k) == IF k \notin stats THEN Missing ELSE IF k \in ShortStats THEN Short ELSE 0

\* update_stats: incr_id on the key of this second.  A key that is not in the
\* tree is not created.
StatGet(h) ==
  /\ At(h, "statGet")
  /\ LET k == StatKey(now, Uid(h))
     IN  GotoWith(h, "statSet",
                  [job[h] EXCEPT !.key = k, !.read = StatRow(k)])
  /\ UNCHANGED db

\* Mutants of StatSet: a missing row is created; a missing row is waited for.
StatSetCreates(h) ==
  /\ At(h, "statSet")
  /\ stats' = stats \cup {job[h].key}
  /\ Goto(h, "lastWrite")
  /\ UNCHANGED <<counter, posts, tags, notifications, innPosts, userPosts,
                 innIndex, tan, drafts, lastWrites, now, wrapped>>
StatSetWaits(h) ==
  /\ At(h, "statSet")
  /\ Goto(h, IF job[h].read \in Ids THEN "lastWrite" ELSE "statGet")
  /\ UNCHANGED db

StatSet(h) ==
  /\ At(h, "statSet")
  /\ IF job[h].read \in Ids
       THEN /\ stats' = stats \cup {job[h].key}
            /\ GotoWith(h, "lastWrite", [job[h] EXCEPT !.read = Missing])
       ELSE stats' = stats \ {job[h].key} /\ Throw(h)
  /\ UNCHANGED <<counter, posts, tags, notifications, innPosts, userPosts,
                 innIndex, tan, drafts, lastWrites, now, wrapped>>

\* update_last_write writes the tree "sessions"; Claim::get reads "session".
LastWrite(h) ==
  /\ At(h, "lastWrite")
  /\ lastWrites' = lastWrites \cup {Req(h).cookie}
  /\ Goto(h, IF Private(h) THEN "redirect" ELSE "tan")
  /\ UNCHANGED <<counter, posts, tags, notifications, innPosts, userPosts,
                 innIndex, tan, drafts, stats, now, wrapped>>

Announce(h) ==
  /\ At(h, "tan")
  /\ tan' = tan \cup {job[h].pid}
  /\ Goto(h, "redirect")
  /\ UNCHANGED <<counter, posts, tags, notifications, innPosts, userPosts,
                 innIndex, drafts, lastWrites, stats, now, wrapped>>

-----------------------------------------------------------------------------
PCs == {"idle", "login", "draft", "admit", "pidGet", "pidSet", "check", "tags",
        "mention", "nidGet", "nidSet", "notify", "store", "listInn", "listUser",
        "unindex", "index", "statGet", "statSet", "lastWrite", "tan",
        "redirect", "failed"}

Job == [req : Requests \cup {NoRequest}, pid : Ids, private : BOOLEAN,
        read : Counts, todo : Seq(Word), key : StatKeys \cup {0}]

\* A handler at work has a request; past the login it has a session.
EditTypeOK ==
  /\ pc \in [Handlers -> PCs]
  /\ job \in [Handlers -> Job]
  /\ served \in 0 .. MaxRequests
  /\ \A h \in Handlers :
       /\ pc[h] \notin {"idle", "redirect", "failed"} => Req(h) \in Requests
       /\ pc[h] \notin {"idle", "login", "redirect", "failed"} =>
            Req(h).cookie \in DOMAIN Sessions

EditInit ==
  /\ pc = [h \in Handlers |-> "idle"]
  /\ job = [h \in Handlers |-> NoJob]
  /\ served = 0

\* What a handler does once it has a request.
Serve(h) ==
  \/ Login(h) \/ WriteDraft(h) \/ Admit(h)
  \/ PidGet(h) \/ PidSet(h) \/ CheckOld(h) \/ ApplyTags(h)
  \/ Mention(h) \/ NidGet(h) \/ NidSet(h) \/ Notify(h)
  \/ Store(h) \/ ListInn(h) \/ ListUser(h)
  \/ inn_rm_index(h) \/ inn_add_index(h)
  \/ StatGet(h) \/ StatSet(h) \/ LastWrite(h) \/ Announce(h)
=============================================================================
