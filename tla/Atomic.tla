------------------------------- MODULE Atomic -------------------------------
(***************************************************************************)
(* cpp/atomic: Commit::apply_opts validates a commit, edits a copy of the   *)
(* resource it is about, asks check_write whether its signer may, and       *)
(* stores both.  The store behind Storelike, the signature library and the  *)
(* clock are external: a call of theirs may fail, and what is stored        *)
(* outlives the process.                                                    *)
(*                                                                         *)
(* The shared_ptr of line 243 is null, and lines 246 and 250 assign through *)
(* it: object = FALSE.  object = TRUE is the program with a Resource at     *)
(* that address, which lines 253-297 are written for and the policy         *)
(* real-world-policies/atomic.ql asks about.  Both are checked.             *)
(***************************************************************************)
EXTENDS Integers, FiniteSets

CONSTANTS
  Page,        \* urls that are not of commits
  Signature,   \* the signatures a client may send
  Agent,       \* urls of signers
  Data,        \* what other properties hold
  None,        \* no such property, no such resource, no signature
  Commits,     \* the commits that may be asked for
  Options,     \* the validate_ arguments of a call, as the set of those given
  InitStores,  \* the store before the first commit
  SelfUrl,     \* get_self_url()
  TicksPerMs,  \* ticks of the system clock in a millisecond
  Slack,       \* acceptable_ms_difference
  MaxNow,      \* bound of the clock, in milliseconds
  MaxCommits,  \* bound on the commits of a behaviour
  MaxDepth     \* the frames of check_write that the stack has room for

\* Commits and what they are about are in one store: a commit may be about any
\* url, that of a stored commit and its own among them.
Now      == 1 .. MaxNow
Url      == Page \cup ({"commits"} \X Signature) \cup ({"commitsUnsigned"} \X Now)
Props(D) == [write : {None} \cup SUBSET Agent, parent : Url \cup {None}, data : D \cup {None}]
Commit   == [subject : Url, created_at : Int, signer : Agent, set : Props(Data),
             remove : SUBSET {"write", "parent", "data"}, destroy : BOOLEAN,
             signature : Signature \cup {None}]
Resource == Props(Data \cup Commits)

ASSUME AtomicAssumption ==
  /\ None \notin Url /\ None \notin Signature /\ \A A \in SUBSET Agent : A # None
  /\ None \notin Data /\ None \notin Commit /\ None \notin Resource
  /\ Commits \subseteq Commit /\ Commits # {}
  /\ Options \subseteq SUBSET {"signature", "timestamp", "rights"}
  /\ InitStores \subseteq [Url -> Resource \cup {None}]
  /\ \A st \in InitStores : IsFiniteSet({u \in Url : st[u] # None})
  /\ SelfUrl \in Url \cup {None}
  /\ TicksPerMs \in Nat \ {0} /\ Slack \in Nat
  /\ MaxNow \in Nat \ {0} /\ MaxCommits \in Nat /\ MaxDepth \in Nat

VARIABLES
  object,    \* whether the pointer of line 243 has an object
  store,     \* the resources, those of commits among them, by their url
  now,       \* milliseconds
  requests,
  \* The call of apply_opts.
  pc, commit, opts,
  key,       \* url of commit_resource
  resource,
  at, depth, \* check_write: the resource and the number of the call
  clean      \* history: nothing undefined was read since line 278

frame == <<at, depth, clean>>
vars  == <<object, store, now, requests, pc, commit, opts, key, resource, frame>>

Empty  == [write |-> None, parent |-> None, data |-> None]
Stored == {u \in Url : store[u] # None}

TypeOK ==
  /\ object \in BOOLEAN
  /\ store \in [Url -> Resource \cup {None}]
  /\ now \in Now /\ requests \in 0 .. MaxCommits
  /\ pc \in {"idle", "signature", "timestamp", "resource", "rights", "walk", "store", "add"}
  /\ commit \in Commits /\ opts \in SUBSET {"signature", "timestamp", "rights"}
  /\ key \in Url \cup {None}
  /\ resource \in Resource /\ at \in Resource
  /\ depth \in 0 .. MaxDepth /\ clean \in BOOLEAN

Init ==
  /\ object \in BOOLEAN
  /\ store \in InitStores
  /\ now = 1 /\ requests = 0
  /\ pc = "idle" /\ commit \in Commits /\ opts = {}
  /\ key = None
  /\ resource = Empty /\ at = Empty
  /\ depth = 0 /\ clean = TRUE

-----------------------------------------------------------------------------
\* The call ends: it returns, throws, or takes the process with it.  Nothing
\* that was stored is undone.
End == pc' = "idle"

Request ==
  /\ pc = "idle" /\ requests < MaxCommits
  /\ requests' = requests + 1
  /\ commit' \in Commits /\ opts' \in Options
  /\ pc' = "signature"
  /\ UNCHANGED <<object, store, now, key, resource, frame>>

Validating == UNCHANGED <<object, store, now, requests, commit, opts, key, resource, frame>>

\* Lines 186-225.  Without a signature the call throws; with one, the library
\* accepts or rejects it, and a signer that is not stored is read nevertheless.
CheckSignature ==
  /\ pc = "signature"
  /\ \/ ("signature" \in opts => commit.signature # None) /\ pc' = "timestamp"
     \/ "signature" \in opts /\ End
  /\ Validating

\* created_at counts milliseconds, time_since_epoch().count() ticks.
Future == commit.created_at > now * TicksPerMs + Slack

CheckTimestamp ==
  /\ pc = "timestamp"
  /\ IF "timestamp" \in opts /\ Future THEN End ELSE pc' = "resource"
  /\ Validating

\* The urls a commit's resource may get: by the signature its client gave it,
\* which only validate_signature looks at, or by the millisecond.
KeysOf(c) == IF c.signature # None THEN {<<"commits", c.signature>>}
                                   ELSE {"commitsUnsigned"} \X Now

\* Mutant of CommitKey: by the millisecond, always.
CommitKeyByTime == <<"commitsUnsigned", now>>

CommitKey == IF commit.signature # None THEN <<"commits", commit.signature>>
                                        ELSE <<"commitsUnsigned", now>>

\* What into_resource puts there: the properties of the commit, and neither
\* write rights nor a parent.
Recorded(c) == [Empty EXCEPT !.data = c]

\* set_propval for all of set, then remove_propval for all of remove.
Edit(p, value) ==
  IF p \in commit.remove THEN None ELSE IF commit.set[p] # None THEN commit.set[p] ELSE value
Edited(r) ==
  [write |-> Edit("write", r.write), parent |-> Edit("parent", r.parent),
   data |-> Edit("data", r.data)]

\* Mutant of Prepare: the commit is recorded as soon as it has a resource.
PrepareRecords ==
  /\ pc = "resource"
  /\ key' = CommitKey
  /\ store' = [store EXCEPT ![key'] = Recorded(commit)]
  /\ IF object THEN /\ resource' = Edited(IF commit.subject \in Stored THEN store[commit.subject] ELSE Empty)
                    /\ pc' = IF "rights" \in opts THEN "rights" ELSE "store"
               ELSE End /\ UNCHANGED resource
  /\ UNCHANGED <<object, now, requests, commit, opts, frame>>

\* Lines 241-272.  What an optional without a resource gives is no Resource:
\* here it throws, or has no properties.  check_required_props does nothing.
Prepare ==
  /\ pc = "resource"
  /\ key' = CommitKey
  /\ IF object THEN /\ resource' = Edited(IF commit.subject \in Stored THEN store[commit.subject] ELSE Empty)
                    /\ pc' = IF "rights" \in opts THEN "rights" ELSE "store"
               ELSE End /\ UNCHANGED resource
  /\ UNCHANGED <<object, store, now, requests, commit, opts, frame>>

\* Mutant of ModifyParent: who destroys is not asked for rights.
ModifyParentUnlessDestroyed ==
  /\ pc = "rights"
  /\ resource' = IF resource.parent = None THEN [resource EXCEPT !.parent = SelfUrl] ELSE resource
  /\ IF resource'.parent = None THEN End ELSE pc' = IF commit.destroy THEN "store" ELSE "walk"
  /\ at' = resource' /\ depth' = 0 /\ clean' = TRUE
  /\ UNCHANGED <<object, store, now, requests, commit, opts, key>>

\* modify_parent, and the first call of check_write.
ModifyParent ==
  /\ pc = "rights"
  /\ resource' = IF resource.parent = None THEN [resource EXCEPT !.parent = SelfUrl] ELSE resource
  /\ IF resource'.parent = None THEN End ELSE pc' = "walk"
  /\ at' = resource' /\ depth' = 0 /\ clean' = TRUE
  /\ UNCHANGED <<object, store, now, requests, commit, opts, key>>

-----------------------------------------------------------------------------
\* check_write.  A property that is missing is read from an empty optional,
\* with what the stack held before.  As write rights it may be a list with the
\* agent or without, or raise an exception that is caught; as parent it may
\* raise one, or name another resource.  A parent that is not stored is an
\* empty optional as well.
Names(r, agent) == r.write # None /\ agent \in r.write

Walking == pc = "walk" /\ UNCHANGED <<object, store, now, requests, commit, opts, key, resource>>

Grant ==
  /\ Walking
  /\ at.write # None => commit.signer \in at.write
  /\ pc' = "store"
  /\ clean' = (clean /\ at.write # None)
  /\ UNCHANGED <<at, depth>>

\* The parents that the next call may get.
Parents(r) == IF r.parent \in Stored THEN {r.parent} ELSE Stored

\* Mutant of Climb: the resource itself is looked up again.
ClimbNowhere ==
  /\ Walking
  /\ ~ Names(at, commit.signer)
  /\ IF depth = MaxDepth THEN End /\ UNCHANGED frame
     ELSE /\ depth' = depth + 1
          /\ clean' = (clean /\ at.write # None /\ at.parent \in Stored)
          /\ at' = at /\ UNCHANGED pc

\* The recursive call of line 137; the stack may be full.
Climb ==
  /\ Walking
  /\ ~ Names(at, commit.signer)
  /\ IF depth = MaxDepth THEN End /\ UNCHANGED frame
     ELSE /\ depth' = depth + 1
          /\ clean' = (clean /\ at.write # None /\ at.parent \in Stored)
          /\ \E s \in Parents(at) : at' = store[s]
          /\ UNCHANGED pc

\* check_write catches an exception at the parent and returns false, and
\* apply_opts throws.  Nothing else makes it return false.
Deny ==
  /\ Walking
  /\ ~ Names(at, commit.signer)
  /\ at.parent \notin Stored
  /\ End
  /\ UNCHANGED frame

-----------------------------------------------------------------------------
\* Mutant of StoreCommit: the resource first.
StoreResourceFirst ==
  /\ pc = "store"
  /\ store' = [store EXCEPT ![commit.subject] = IF commit.destroy THEN None ELSE resource]
  /\ IF commit.destroy THEN End ELSE pc' = "add"
  /\ UNCHANGED <<object, now, requests, commit, opts, key, resource, frame>>

\* Lines 288-294.  The commit of a destruction is not stored, and whatever was
\* at the commit's url is replaced.
StoreCommit ==
  /\ pc = "store"
  /\ IF commit.destroy
       THEN store' = [store EXCEPT ![commit.subject] = None] /\ End
       ELSE store' = [store EXCEPT ![key] = Recorded(commit)] /\ pc' = "add"
  /\ UNCHANGED <<object, now, requests, commit, opts, key, resource, frame>>

AddResource ==
  /\ pc = "add"
  /\ store' = [store EXCEPT ![commit.subject] = resource]
  /\ End
  /\ UNCHANGED <<object, now, requests, commit, opts, key, resource, frame>>

\* A call into the store throws, or the process dies.
Interrupt ==
  /\ pc # "idle"
  /\ End
  /\ UNCHANGED <<object, store, now, requests, commit, opts, key, resource, frame>>

Tick ==
  /\ now < MaxNow
  /\ now' = now + 1
  /\ UNCHANGED <<object, store, requests, pc, commit, opts, key, resource, frame>>

check_write == Grant \/ Climb \/ Deny
apply_opts  == \/ CheckSignature \/ CheckTimestamp \/ Prepare \/ ModifyParent
               \/ check_write \/ StoreCommit \/ AddResource

Next == Request \/ apply_opts \/ Interrupt \/ Tick

Spec == Init /\ [][Next]_vars

-----------------------------------------------------------------------------
\* As the program is, nothing is ever committed: whatever the call is asked to
\* do, it is over before the first change of the store.
NothingCommitted == [][object]_store

\* A resource changes only after the commit that changes it was stored, so
\* that who dies in between has stored a commit without its effect, and never
\* an effect without its commit.  A destruction has no commit in the store.
ChangesRecorded ==
  [][\A u \in Url : store'[u] # store[u] =>
       \/ u = commit.subject /\ store'[u] = None /\ commit.destroy
       \/ u = key /\ store'[u] = Recorded(commit)
       \/ u = commit.subject /\ store[key] = Recorded(commit)]_store

\* What is at a url, a stored commit say, is replaced only by a commit about
\* that url, by one that came with the signature the url is made of, or, at the
\* url of an unsigned one, by another without a signature.  So two commits of
\* one signature share a record, and so do two unsigned ones of a millisecond.
RecordsStay ==
  [][\A u \in Url : store[u] # None /\ store'[u] # store[u] =>
       u = commit.subject \/ u \in KeysOf(commit)]_store

\* The reference for check_write: the resources that lie above r, as the least
\* set that has its parent and the parents of its own.
Closed(r, C) ==
  /\ r.parent \in Stored => r.parent \in C
  /\ \A s \in C : s \in Stored /\ store[s].parent \in Stored => store[s].parent \in C
Above(r) == {u \in Url : \A C \in SUBSET Url : Closed(r, C) => u \in C}

MayWrite(agent, r) ==
  Names(r, agent) \/ \E s \in Above(r) \cap Stored : Names(store[s], agent)

\* The step with which a call begins to change the store.
Begins == pc # "add" /\ (pc' = "add" \/ store' # store)

\* "There should be a write right referring to this Agent in this Resource or
\* its parent" (main.cpp:282): with validate_rights, and as long as nothing
\* undefined is read, a call begins to change the store, to edit or to destroy,
\* only for a signer named by the edited resource or by one above it.  (What is
\* stored first, the commit, may replace a resource that is above.)
OnlyAllowed ==
  [][ Begins /\ "rights" \in opts /\ clean => MayWrite(commit.signer, resource)]_<<pc, store>>

\* The stack only fills up where parents form a cycle (or an undefined parent
\* was read): otherwise check_write ends in as many calls as there are resources.
DeepMeansCycle ==
  pc = "walk" /\ clean /\ depth > Cardinality(Stored) => \E s \in Stored : s \in Above(store[s])

\* "Commit CreatedAt timestamp must lie in the past" (main.cpp:234), give or
\* take the acceptable difference, of a commit that line 231 has let through.
NotFromFuture ==
  "timestamp" \in opts /\ pc \notin {"idle", "signature", "timestamp"} =>
    commit.created_at <= now + Slack
=============================================================================
