---------------------------- MODULE AtomicProofs ----------------------------
(***************************************************************************)
(* What Atomic promises for every set of resources, commits and stores.    *)
(***************************************************************************)
EXTENDS Atomic, FiniteSetTheorems, TLAPS

USE DEF Now

\* The pc values at which the call has its resource.
Late == {"rights", "walk", "store", "add"}

\* Every variable keeps its type: no step stores, or walks to, a resource that
\* is none.
THEOREM TypeCorrect == Spec => []TypeOK
<1>1. Init => TypeOK
  BY AtomicAssumption DEF Init, TypeOK, Empty, Resource, Props
<1>2. TypeOK /\ [Next]_vars => TypeOK'
  <2> SUFFICES ASSUME TypeOK, [Next]_vars PROVE TypeOK'
    OBVIOUS
  <2>1. CASE Request
    BY <2>1, AtomicAssumption DEF TypeOK, Request, frame
  <2>2. CASE CheckSignature
    BY <2>2 DEF TypeOK, CheckSignature, Validating, End, frame
  <2>3. CASE CheckTimestamp
    BY <2>3 DEF TypeOK, CheckTimestamp, Validating, End, frame
  <2>4. CASE Prepare
    <3>0. commit \in Commit
      BY AtomicAssumption DEF TypeOK
    <3>1. key' \in Url
      BY <2>4, <3>0 DEF TypeOK, Prepare, CommitKey, Commit, Url
    <3>2. ASSUME NEW r \in Resource PROVE Edited(r) \in Resource
      BY <3>0, <3>2 DEF Edited, Edit, Resource, Commit, Props
    <3>3. Empty \in Resource /\ (commit.subject \in Stored => store[commit.subject] \in Resource)
      BY DEF Empty, Resource, Props, Stored, TypeOK
    <3>4. resource' \in Resource
      BY <2>4, <3>2, <3>3 DEF TypeOK, Prepare
    <3>5. pc' \in {"idle", "rights", "store"}
      BY <2>4 DEF Prepare, End
    <3> QED BY <2>4, <3>1, <3>4, <3>5 DEF TypeOK, Prepare, frame
  <2>5. CASE ModifyParent
    <3>1. resource' \in Resource
      BY <2>5, AtomicAssumption DEF TypeOK, ModifyParent, Resource, Props
    <3>2. pc' \in {"idle", "walk"}
      BY <2>5 DEF ModifyParent, End
    <3> QED BY <2>5, <3>1, <3>2, AtomicAssumption DEF TypeOK, ModifyParent
  <2>6. CASE Grant
    BY <2>6 DEF TypeOK, Grant, Walking
  <2>7. CASE Climb
    <3>1. ASSUME NEW s \in Parents(at) PROVE store[s] \in Resource
      BY <3>1 DEF Parents, Stored, TypeOK
    <3>2. pc' \in {"idle", "walk"} /\ depth' \in 0 .. MaxDepth
      BY <2>7, AtomicAssumption DEF TypeOK, Climb, Walking, End, frame
    <3>3. at' \in Resource /\ clean' \in BOOLEAN
      BY <2>7, <3>1 DEF TypeOK, Climb, Walking, End, frame
    <3> QED BY <2>7, <3>2, <3>3 DEF TypeOK, Climb, Walking
  <2>8. CASE Deny
    BY <2>8 DEF TypeOK, Deny, Walking, End, frame
  <2>9. CASE StoreCommit
    <3>1. Recorded(commit) \in Resource
      BY DEF Recorded, Empty, Resource, Props, TypeOK
    <3>2. store' \in [Url -> Resource \cup {None}]
      BY <2>9, <3>1 DEF TypeOK, StoreCommit
    <3>3. pc' \in {"idle", "add"}
      BY <2>9 DEF StoreCommit, End
    <3> QED BY <2>9, <3>2, <3>3 DEF TypeOK, StoreCommit, frame
  <2>10. CASE AddResource
    BY <2>10 DEF TypeOK, AddResource, End, frame
  <2>11. CASE Interrupt
    BY <2>11 DEF TypeOK, Interrupt, End, frame
  <2>12. CASE Tick
    BY <2>12, AtomicAssumption DEF TypeOK, Tick, frame
  <2>13. CASE UNCHANGED vars
    BY <2>13 DEF TypeOK, vars, frame
  <2> QED
    BY <2>1, <2>2, <2>3, <2>4, <2>5, <2>6, <2>7, <2>8, <2>9, <2>10, <2>11, <2>12, <2>13
    DEF Next, apply_opts, check_write
<1> QED BY <1>1, <1>2, PTL DEF Spec

-----------------------------------------------------------------------------
\* Only a call whose pointer has an object gets past line 250.
HasObject == pc \in Late => object

LEMMA Objects == Spec => []HasObject
<1>1. Init => HasObject
  BY DEF Init, HasObject, Late
<1>2. HasObject /\ [Next]_vars => HasObject'
  BY DEF HasObject, Late, Next, apply_opts, check_write, Request, CheckSignature,
     CheckTimestamp, Validating, Prepare, ModifyParent, Grant, Climb, Deny, Walking,
     StoreCommit, AddResource, Interrupt, Tick, End, vars
<1> QED BY <1>1, <1>2, PTL DEF Spec

\* As the program is, with object = FALSE, no call ever changes the store.
THEOREM NothingIsCommitted == Spec => NothingCommitted
<1>1. HasObject /\ [Next]_vars => [object]_store
  BY DEF HasObject, Late, Next, apply_opts, check_write, Request, CheckSignature,
     CheckTimestamp, Validating, Prepare, ModifyParent, Grant, Climb, Deny, Walking,
     StoreCommit, AddResource, Interrupt, Tick, End, vars
<1> QED BY <1>1, Objects, PTL DEF Spec, NothingCommitted

-----------------------------------------------------------------------------
\* The url of the commit is one of those it may get, and before the resource is
\* added, the commit is there.
CommitFirst ==
  /\ pc \in Late => key \in KeysOf(commit) /\ key \in Url
  /\ pc = "add"   => store[key] = Recorded(commit)

LEMMA CommitsFirst == Spec => []CommitFirst
<1>1. Init => CommitFirst
  BY DEF Init, CommitFirst, Late
<1>2. TypeOK /\ CommitFirst /\ [Next]_vars => CommitFirst'
  <2> SUFFICES ASSUME TypeOK, CommitFirst, [Next]_vars PROVE CommitFirst'
    OBVIOUS
  <2>1. CASE Prepare
    <3>1. commit \in Commit /\ UNCHANGED commit /\ key' = CommitKey
      BY <2>1, AtomicAssumption DEF TypeOK, Prepare
    <3>2. CommitKey \in KeysOf(commit) /\ CommitKey \in Url
      BY <3>1 DEF CommitKey, KeysOf, Url, Commit, TypeOK
    <3>3. KeysOf(commit)' = KeysOf(commit) /\ Url' = Url
      BY <3>1 DEF KeysOf, Url
    <3>4. pc' # "add"
      BY <2>1 DEF Prepare, End
    <3> QED BY <3>1, <3>2, <3>3, <3>4 DEF CommitFirst
  <2>2. CASE StoreCommit
    <3>1. UNCHANGED <<commit, key>> /\ key \in KeysOf(commit) /\ key \in Url
      BY <2>2 DEF StoreCommit, CommitFirst, Late
    <3>2. pc' = "add" => store' = [store EXCEPT ![key] = Recorded(commit)]
      BY <2>2 DEF StoreCommit, End
    <3>3. pc' = "add" => store'[key] = Recorded(commit)
      BY <3>1, <3>2 DEF TypeOK
    <3> QED BY <3>1, <3>3 DEF CommitFirst, KeysOf, Recorded, Empty, Url
  <2>3. CASE Request \/ AddResource \/ Interrupt \/ Deny
    BY <2>3 DEF CommitFirst, Late, Request, AddResource, Interrupt, Deny, Walking, End
  <2>4. CASE CheckSignature \/ CheckTimestamp
    BY <2>4 DEF CommitFirst, Late, CheckSignature, CheckTimestamp, End
  <2>5. CASE ModifyParent \/ Grant \/ Climb \/ Tick \/ UNCHANGED vars
    <3>1. UNCHANGED <<store, commit, key>> /\ (pc' \in Late => pc \in Late)
      BY <2>5 DEF ModifyParent, Grant, Climb, Walking, Tick, End, vars, Late
    <3>2. pc' = "add" => pc = "add"
      BY <2>5 DEF ModifyParent, Grant, Climb, Walking, Tick, End, vars
    <3> QED BY <3>1, <3>2 DEF CommitFirst, KeysOf, Recorded, Empty, Url
  <2> QED
    BY <2>1, <2>2, <2>3, <2>4, <2>5 DEF Next, apply_opts, check_write
<1> QED BY <1>1, <1>2, TypeCorrect, PTL DEF Spec

\* Which actions change the store, and where.
LEMMA WhereItChanges ==
  ASSUME TypeOK, CommitFirst, [Next]_vars, NEW u \in Url, store'[u] # store[u]
  PROVE  \/ u = commit.subject /\ store'[u] = None /\ commit.destroy
         \/ u = key /\ key \in KeysOf(commit) /\ store'[u] = Recorded(commit)
         \/ u = commit.subject /\ store[key] = Recorded(commit)
<1>1. CASE StoreCommit
  <2>1. CASE commit.destroy
    <3>1. store' = [store EXCEPT ![commit.subject] = None]
      BY <1>1, <2>1 DEF StoreCommit
    <3> QED BY <2>1, <3>1 DEF TypeOK
  <2>2. CASE ~ commit.destroy
    <3>1. store' = [store EXCEPT ![key] = Recorded(commit)] /\ key \in KeysOf(commit)
      BY <1>1, <2>2 DEF StoreCommit, CommitFirst, Late
    <3> QED BY <3>1 DEF TypeOK
  <2> QED BY <2>1, <2>2
<1>2. CASE AddResource
  BY <1>2 DEF AddResource, TypeOK, CommitFirst
<1> QED
  BY <1>1, <1>2 DEF Next, apply_opts, check_write, Request, CheckSignature,
     CheckTimestamp, Validating, Prepare, ModifyParent, Grant, Climb, Deny, Walking,
     Interrupt, Tick, vars

\* No resource changes before the commit that changes it was stored, wherever
\* the process dies.
THEOREM ChangesAreRecorded == Spec => ChangesRecorded
<1> DEFINE OfCommit ==
      \A u \in Url : store'[u] # store[u] =>
        \/ u = commit.subject /\ store'[u] = None /\ commit.destroy
        \/ u = key /\ store'[u] = Recorded(commit)
        \/ u = commit.subject /\ store[key] = Recorded(commit)
<1>1. TypeOK /\ CommitFirst /\ [Next]_vars => [OfCommit]_store
  BY WhereItChanges
<1> QED BY <1>1, TypeCorrect, CommitsFirst, PTL DEF Spec, ChangesRecorded

\* What is stored, a commit or not, gives way only to a commit about its url, or
\* to one that came with the signature, or has the millisecond, of its url.
THEOREM RecordsThatStay == Spec => RecordsStay
<1> DEFINE Stays ==
      \A u \in Url : store[u] # None /\ store'[u] # store[u] =>
        u = commit.subject \/ u \in KeysOf(commit)
<1>1. TypeOK /\ CommitFirst /\ [Next]_vars => [Stays]_store
  BY WhereItChanges
<1> QED BY <1>1, TypeCorrect, CommitsFirst, PTL DEF Spec, RecordsStay

-----------------------------------------------------------------------------
\* What the walk has reached lies above the resource it began at.
OnTheWay == at = resource \/ \E s \in Above(resource) \cap Stored : at = store[s]

\* A call that has passed the rights check may write, and nothing between the
\* check and the first change of the store takes that back.
Rights ==
  /\ pc = "walk" /\ clean => OnTheWay
  /\ pc = "store" /\ "rights" \in opts /\ clean => MayWrite(commit.signer, resource)

\* The parent of what lies on the way lies above the resource.
LEMMA ParentsAreAbove ==
  ASSUME OnTheWay, at.parent \in Stored
  PROVE  at.parent \in Above(resource)
<1> SUFFICES ASSUME NEW C \in SUBSET Url, Closed(resource, C) PROVE at.parent \in C
  BY DEF Above, Stored
<1>1. CASE at = resource
  BY <1>1 DEF Closed
<1>2. ASSUME NEW s \in Above(resource) \cap Stored, at = store[s] PROVE at.parent \in C
  <2>1. s \in C
    BY DEF Above
  <2> QED BY <1>2, <2>1 DEF Closed
<1> QED BY <1>1, <1>2 DEF OnTheWay

LEMMA RightsHold == Spec => []Rights
<1>1. Init => Rights
  BY DEF Init, Rights
<1>2. TypeOK /\ Rights /\ [Next]_vars => Rights'
  <2> SUFFICES ASSUME TypeOK, Rights, [Next]_vars PROVE Rights'
    OBVIOUS
  <2> USE DEF Rights
  <2>1. CASE ModifyParent
    BY <2>1 DEF ModifyParent, End, OnTheWay
  <2>2. CASE Grant
    <3>1. ASSUME clean' PROVE OnTheWay /\ Names(at, commit.signer)
      BY <2>2, <3>1 DEF Grant, Walking, Names
    <3>2. clean' => MayWrite(commit.signer, resource)
      BY <3>1 DEF OnTheWay, MayWrite
    <3>3. MayWrite(commit.signer, resource)' = MayWrite(commit.signer, resource)
      BY <2>2 DEF Grant, Walking, MayWrite, Names, Above, Closed, Stored
    <3> QED BY <2>2, <3>2, <3>3 DEF Grant, Walking
  <2>3. CASE Climb
    <3>1. ASSUME pc' = "walk", clean' PROVE OnTheWay'
      <4>1. OnTheWay /\ at.parent \in Stored /\ at' = store[at.parent]
        BY <2>3, <3>1 DEF Climb, Walking, Parents, End
      <4>2. at.parent \in Above(resource) \cap Stored
        BY <4>1, ParentsAreAbove
      <4>3. UNCHANGED <<store, resource>>
        BY <2>3 DEF Climb, Walking
      <4>4. at.parent \in Above(resource)' \cap Stored'
        BY <4>2, <4>3 DEF Above, Closed, Stored
      <4> QED BY <4>1, <4>3, <4>4 DEF OnTheWay
    <3>2. pc' \in {"walk", "idle"}
      BY <2>3 DEF Climb, Walking, End
    <3> QED BY <3>1, <3>2
  <2>4. CASE Prepare
    BY <2>4 DEF Prepare, End
  <2>5. CASE StoreCommit
    BY <2>5 DEF StoreCommit, End
  <2>6. CASE Tick \/ UNCHANGED vars
    <3>1. UNCHANGED <<store, pc, commit, opts, resource, at, clean>>
      BY <2>6 DEF Tick, vars, frame
    <3>2. MayWrite(commit.signer, resource)' = MayWrite(commit.signer, resource) /\ OnTheWay' = OnTheWay
      BY <3>1 DEF MayWrite, OnTheWay, Names, Above, Closed, Stored
    <3> QED BY <3>1, <3>2
  <2>7. CASE Request \/ CheckSignature \/ CheckTimestamp \/ Deny \/ AddResource \/ Interrupt
    BY <2>7 DEF Request, CheckSignature, CheckTimestamp, Validating, Deny, Walking, AddResource,
       Interrupt, End
  <2> QED
    BY <2>1, <2>2, <2>3, <2>4, <2>5, <2>6, <2>7 DEF Next, apply_opts, check_write
<1> QED BY <1>1, <1>2, TypeCorrect, PTL DEF Spec

\* With validate_rights, and while nothing undefined is read, a call only
\* begins to change the store for a signer that the resource or one above it
\* names, however long the chain of parents is and whether or not it is a cycle.
THEOREM OnlyWhoIsAllowed == Spec => OnlyAllowed
<1> DEFINE Allowed == Begins /\ "rights" \in opts /\ clean => MayWrite(commit.signer, resource)
<1>1. Rights /\ [Next]_vars => [Allowed]_<<pc, store>>
  <2> SUFFICES ASSUME Rights, [Next]_vars, Begins, "rights" \in opts, clean
               PROVE  MayWrite(commit.signer, resource)
    OBVIOUS
  <2>1. pc = "store"
    BY DEF Begins, Next, apply_opts, check_write, Request, CheckSignature, CheckTimestamp,
       Validating, Prepare, ModifyParent, Grant, Climb, Deny, Walking, StoreCommit, AddResource,
       Interrupt, Tick, End, vars
  <2> QED BY <2>1 DEF Rights
<1> QED BY <1>1, RightsHold, PTL DEF Spec, OnlyAllowed

-----------------------------------------------------------------------------
(* How deep the walk is.                                                    *)

\* A store holds finitely many resources.
LEMMA StoreIsFinite == Spec => []IsFiniteSet(Stored)
<1>1. Init => IsFiniteSet(Stored)
  BY AtomicAssumption DEF Init, Stored
<1>2. TypeOK /\ IsFiniteSet(Stored) /\ [Next]_vars => IsFiniteSet(Stored)'
  <2> SUFFICES ASSUME TypeOK, IsFiniteSet(Stored), [Next]_vars PROVE IsFiniteSet(Stored)'
    OBVIOUS
  <2>1. store' = store \/ \E v, r : store' = [store EXCEPT ![v] = r]
    BY DEF Next, apply_opts, check_write, Request, CheckSignature, CheckTimestamp, Validating,
       Prepare, ModifyParent, Grant, Climb, Deny, Walking, StoreCommit, AddResource, Interrupt,
       Tick, vars
  <2>2. PICK v : store' = store \/ \E r : store' = [store EXCEPT ![v] = r]
    BY <2>1
  <2>3. Stored' \in SUBSET (Stored \cup {v})
    BY <2>2 DEF Stored, TypeOK
  <2>4. IsFiniteSet(Stored \cup {v})
    BY FS_AddElement
  <2> QED BY <2>3, <2>4, FS_Subset
<1> QED BY <1>1, <1>2, TypeCorrect, PTL DEF Spec

\* u is the way that check_write has come: the urls it has looked up, each of
\* them above those before it.
Way(u) ==
  /\ u \in [1 .. depth -> Stored]
  /\ depth > 0 => at = store[u[depth]]
  /\ \A i, k \in 1 .. depth : i < k => u[k] \in Above(store[u[i]])

Walked == pc = "walk" /\ clean => \E u : Way(u)

\* What is above something has its parent above it as well.
LEMMA AboveIsClosed ==
  ASSUME NEW r, NEW s \in Stored, s \in Above(r) \/ store[s] = r, store[s].parent \in Stored
  PROVE  store[s].parent \in Above(r)
<1> SUFFICES ASSUME NEW C \in SUBSET Url, Closed(r, C) PROVE store[s].parent \in C
  BY DEF Above, Stored
<1>1. CASE s \in Above(r)
  BY <1>1 DEF Above, Closed
<1>2. CASE store[s] = r
  BY <1>2 DEF Closed
<1> QED BY <1>1, <1>2

\* One call more.
LEMMA OneMore ==
  ASSUME TypeOK, NEW u, Way(u), Climb, pc' = "walk", clean'
  PROVE  \E v : Way(v)'
<1>1. /\ depth \in Nat /\ depth' = depth + 1 /\ at.parent \in Stored /\ at' = store[at.parent]
      /\ store' = store
  <2>1. depth' = depth + 1 /\ clean' = (clean /\ at.write # None /\ at.parent \in Stored)
        /\ (\E s \in Parents(at) : at' = store[s]) /\ store' = store
    BY DEF Climb, Walking, End
  <2>2. Parents(at) = {at.parent} /\ at.parent \in Stored
    BY <2>1 DEF Parents
  <2> QED BY <2>1, <2>2, AtomicAssumption DEF TypeOK
<1>2. Stored' = Stored /\ \A r : Above(r)' = Above(r)
  BY <1>1 DEF Stored, Above, Closed
<1>0. PICK v : v = [i \in 1 .. depth + 1 |-> IF i = depth + 1 THEN at.parent ELSE u[i]]
  OBVIOUS
<1>3. v[depth + 1] = at.parent /\ \A i \in 1 .. depth : v[i] = u[i] /\ u[i] \in Stored
  BY <1>0, <1>1 DEF Way
<1>4. v \in [1 .. depth + 1 -> Stored]
  <2>1. \A i \in 1 .. depth + 1 : i = depth + 1 \/ i \in 1 .. depth
    BY <1>1
  <2>2. \A i \in 1 .. depth + 1 : v[i] \in Stored
    BY <2>1, <1>1, <1>3
  <2> QED BY <1>0, <2>2
<1>5. ASSUME NEW i \in 1 .. depth + 1, NEW k \in 1 .. depth + 1, i < k
      PROVE  v[k] \in Above(store[v[i]])
  <2>1. i \in 1 .. depth
    BY <1>1, <1>5
  <2>2. CASE k \in 1 .. depth
    BY <1>3, <1>5, <2>1, <2>2 DEF Way
  <2>3. CASE k = depth + 1
    <3>1. depth \in 1 .. depth /\ depth > 0 /\ at = store[u[depth]] /\ u[depth] \in Stored
      BY <1>1, <1>3, <2>1 DEF Way
    <3>2. u[depth] \in Above(store[u[i]]) \/ store[u[depth]] = store[u[i]]
      <4>1. i = depth \/ i < depth
        BY <1>1, <2>1
      <4> QED BY <2>1, <3>1, <4>1 DEF Way
    <3>3. at.parent \in Above(store[u[i]])
      BY <1>1, <3>1, <3>2, AboveIsClosed
    <3> QED BY <1>3, <2>1, <2>3, <3>3
  <2> QED BY <1>1, <2>2, <2>3
<1>6. Way(v)'
  <2>1. (v \in [1 .. depth -> Stored])'
    BY <1>1, <1>2, <1>4
  <2>2. (at = store[v[depth]])'
    BY <1>1, <1>3
  <2>3. (\A i, k \in 1 .. depth : i < k => v[k] \in Above(store[v[i]]))'
    <3>1. \A i, k \in 1 .. depth + 1 : i < k => v[k] \in Above(store[v[i]])
      BY <1>5
    <3> QED BY <1>1, <3>1 DEF Above, Closed, Stored
  <2> QED BY <2>1, <2>2, <2>3 DEF Way
<1> QED BY <1>6

LEMMA WalkedStays == Spec => []Walked
<1>1. Init => Walked
  BY DEF Init, Walked
<1>2. TypeOK /\ Walked /\ [Next]_vars => Walked'
  <2> SUFFICES ASSUME TypeOK, Walked, [Next]_vars, pc' = "walk", clean' PROVE \E u : Way(u)'
    BY DEF Walked
  <2>1. CASE ModifyParent
    <3> DEFINE u == [i \in 1 .. 0 |-> None]
    <3>1. depth' = 0 /\ u \in [1 .. 0 -> Stored']
      BY <2>1 DEF ModifyParent
    <3> HIDE DEF u
    <3>2. Way(u)'
      BY <3>1 DEF Way
    <3> QED BY <3>2
  <2>2. CASE Climb
    <3>1. pc = "walk" /\ clean
      BY <2>2 DEF Climb, Walking, End, frame, TypeOK
    <3> QED BY <2>2, <3>1, OneMore DEF Walked
  <2>3. CASE UNCHANGED <<store, pc, frame>>
    <3>1. PICK u : Way(u)
      BY <2>3 DEF Walked, frame
    <3>2. Way(u)'
      BY <2>3, <3>1 DEF Way, frame, Stored, Above, Closed
    <3> QED BY <3>2
  <2> QED
    BY <2>1, <2>2, <2>3 DEF Next, apply_opts, check_write, Request, CheckSignature,
       CheckTimestamp, Validating, Prepare, Grant, Deny, Walking, StoreCommit, AddResource,
       Interrupt, Tick, End, vars
<1> QED BY <1>1, <1>2, TypeCorrect, PTL DEF Spec

\* Without a cycle of parents, and while nothing undefined is read, check_write
\* is called at most once more than there are resources: with more calls one of
\* them was looked up twice, and is then above itself.
THEOREM DeepIsCyclic == Spec => []DeepMeansCycle
<1>1. TypeOK /\ Walked /\ IsFiniteSet(Stored) => DeepMeansCycle
  <2> SUFFICES ASSUME TypeOK, Walked, IsFiniteSet(Stored), pc = "walk", clean,
                      depth > Cardinality(Stored)
               PROVE  \E s \in Stored : s \in Above(store[s])
    BY DEF DeepMeansCycle
  <2>1. PICK u : Way(u)
    BY DEF Walked
  <2>2. depth \in Nat /\ Cardinality(Stored) \in Nat
    BY FS_CardinalityType, AtomicAssumption DEF TypeOK
  <2>3. IsFiniteSet(1 .. depth) /\ Cardinality(1 .. depth) = depth
    BY <2>2, FS_Interval
  <2>4. u \in [1 .. depth -> Stored]
    BY <2>1 DEF Way
  <2>5. PICK i \in 1 .. depth, k \in 1 .. depth : i # k /\ u[i] = u[k]
    BY <2>2, <2>3, <2>4, FS_PigeonHole
  <2>6. i < k \/ k < i
    BY <2>5, <2>2
  <2> QED BY <2>1, <2>4, <2>5, <2>6 DEF Way
<1> QED BY <1>1, TypeCorrect, WalkedStays, StoreIsFinite, PTL

-----------------------------------------------------------------------------
\* What line 231 has let through is not from the future of a clock of which
\* now * TicksPerMs is the time.
InTicks ==
  "timestamp" \in opts /\ pc \notin {"idle", "signature", "timestamp"} =>
    commit.created_at <= now * TicksPerMs + Slack

\* The time of a commit whose time is asked for is bounded by the ticks of the
\* clock, at every step after the check: milliseconds against ticks.
THEOREM TimesAreInTicks == Spec => []InTicks
<1>1. Init => InTicks
  BY DEF Init, InTicks
<1>2. TypeOK /\ InTicks /\ [Next]_vars => InTicks'
  <2> SUFFICES ASSUME TypeOK, InTicks, [Next]_vars PROVE InTicks'
    OBVIOUS
  <2>a. commit \in Commit /\ commit.created_at \in Int /\ now \in Nat
    BY AtomicAssumption DEF TypeOK, Commit
  <2>1. CASE Request
    BY <2>1 DEF Request, InTicks
  <2>2. CASE CheckSignature
    BY <2>2 DEF CheckSignature, End, InTicks
  <2>3. CASE CheckTimestamp
    <3>1. UNCHANGED <<commit, opts, now>>
      BY <2>3 DEF CheckTimestamp, Validating
    <3>2. pc' # "idle" => "timestamp" \notin opts \/ ~ Future
      BY <2>3 DEF CheckTimestamp, End
    <3>3. ~ Future => commit.created_at <= now * TicksPerMs + Slack
      <4>1. now * TicksPerMs + Slack \in Int
        BY <2>a, AtomicAssumption
      <4> QED BY <4>1, <2>a DEF Future
    <3> QED BY <3>1, <3>2, <3>3 DEF InTicks
  <2>4. CASE Prepare \/ ModifyParent \/ check_write \/ StoreCommit \/ AddResource \/ Interrupt
    <3>1. UNCHANGED <<commit, opts, now>>
      BY <2>4 DEF Prepare, ModifyParent, check_write, Grant, Climb, Deny, Walking, StoreCommit,
                  AddResource, Interrupt
    <3>2. pc' = "idle" \/ pc \notin {"idle", "signature", "timestamp"}
      BY <2>4 DEF Prepare, ModifyParent, check_write, Grant, Climb, Deny, Walking, StoreCommit,
                  AddResource, Interrupt, End
    <3> QED BY <3>1, <3>2 DEF InTicks
  <2>5. CASE Tick
    <3>1. UNCHANGED <<pc, commit, opts>> /\ now' = now + 1
      BY <2>5 DEF Tick
    <3>2. commit.created_at <= now * TicksPerMs + Slack =>
            commit.created_at <= (now + 1) * TicksPerMs + Slack
      <4>1. (now + 1) * TicksPerMs = now * TicksPerMs + TicksPerMs
        BY <2>a, AtomicAssumption
      <4>2. now * TicksPerMs \in Nat /\ TicksPerMs \in Nat /\ Slack \in Nat
        BY <2>a, AtomicAssumption
      <4> QED BY <4>1, <4>2, <2>a
    <3> QED BY <3>1, <3>2 DEF InTicks
  <2>6. CASE UNCHANGED vars
    BY <2>6 DEF vars, InTicks
  <2> QED BY <2>1, <2>2, <2>3, <2>4, <2>5, <2>6 DEF Next, apply_opts
<1> QED BY <1>1, <1>2, TypeCorrect, PTL DEF Spec

=============================================================================
