--------------------------- MODULE McaptchaProofs ---------------------------
(***************************************************************************)
(* What the handlers promise for any number of workers, requests, captchas *)
(* and accounts.                                                            *)
(***************************************************************************)
EXTENDS Mcaptcha, FiniteSetTheorems, TLAPS

USE DEF SolvePoints, DeletePoints, CallPoints

LEMMA RequestKinds ==
  ASSUME NEW r \in Requests
  PROVE  r \in Solve \/ r \in Delete
BY McaptchaAssumption

\* The remainder fits the column.
LEMMA CutFits ==
  ASSUME NEW n \in Nonce
  PROVE  Cut(n) \in 0 .. Width - 1
BY McaptchaAssumption DEF Cut

\* Every variable keeps its type; a worker at a point of one handler has a
\* request of its kind.
THEOREM TypeCorrect == Spec => []TypeOK
<1>1. Init => TypeOK
  <2> SUFFICES ASSUME Init PROVE TypeOK
    OBVIOUS
  <2> USE McaptchaAssumption DEF Init
  <2>1. req \in [Worker -> Requests] /\ factor \in [Worker -> Factor]
    OBVIOUS
  <2>2. max_nonce \in [Key \X Factor -> 0 .. Width - 1]
    OBVIOUS
  <2>3. requests \in 0 .. MaxRequests /\ changes \in 0 .. MaxChanges
    OBVIOUS
  <2> QED BY <2>1, <2>2, <2>3 DEF TypeOK
<1>2. TypeOK /\ [Next]_vars => TypeOK'
  <2> SUFFICES ASSUME TypeOK, [Next]_vars PROVE TypeOK'
    OBVIOUS
  <2> USE DEF TypeOK, data, extern, local, past, GoTo
  <2>1. ASSUME NEW w \in Worker, Request(w) PROVE TypeOK'
    <3>1. PICK r \in Requests :
            /\ req' = [req EXCEPT ![w] = r]
            /\ IF r \in Solve
                 THEN GoTo(w, "verify") /\ UNCHANGED <<identity, since>>
                 ELSE /\ GoTo(w, "password")
                      /\ identity' = [identity EXCEPT ![w] = r.user]
                      /\ since' = [since EXCEPT ![w] = {password[r.user]}]
      BY <2>1 DEF Request
    <3>2. requests' \in 0 .. MaxRequests
      BY <2>1, McaptchaAssumption DEF Request
    <3>3. CASE r \in Solve
      BY <2>1, <3>1, <3>2, <3>3 DEF Request
    <3>4. CASE r \notin Solve
      <4>1. r \in Delete /\ r.user \in User
        BY <3>4, RequestKinds DEF Delete
      <4> QED BY <2>1, <3>1, <3>2, <3>4, <4>1 DEF Request
    <3> QED BY <3>3, <3>4
  <2>2. ASSUME NEW w \in Worker, Launch(w) PROVE TypeOK'
    BY <2>2 DEF Launch
  <2>3. ASSUME NEW w \in Worker, Verify(w) PROVE TypeOK'
    BY <2>3 DEF Verify, Called
  <2>4. ASSUME NEW w \in Worker, RecordSolve(w) PROVE TypeOK'
    <3>1. req[w].key \in Key /\ solves' \in [Key -> Nat]
      BY <2>4 DEF RecordSolve, Called, Solve
    <3> QED BY <2>4, <3>1 DEF RecordSolve, Called
  <2>5. ASSUME NEW w \in Worker, Ask(w) PROVE TypeOK'
    BY <2>5 DEF Ask, Called
  <2>6. ASSUME NEW w \in Worker, Save(w) PROVE TypeOK'
    <3>1. analyses' \in [Key -> Nat] /\ late' \in [Key -> Nat]
      BY <2>6 DEF Save, Called, Solve
    <3> QED BY <2>6, <3>1 DEF Save, Called
  <2>7. ASSUME NEW w \in Worker, Update(w) PROVE TypeOK'
    <3>1. req[w].key \in Key /\ req[w].nonce \in Nonce /\ factor[w] \in Factor
      BY <2>7 DEF Update, Called, Solve
    <3>2. Cut(req[w].nonce) \in 0 .. Width - 1
      BY <3>1, CutFits
    <3>3. max_nonce' \in [Key \X Factor -> 0 .. Width - 1]
      BY <2>7, <3>1, <3>2 DEF Update
    <3> QED BY <2>7, <3>3 DEF Update, Called
  <2>8. ASSUME NEW w \in Worker, RespondSolved(w) PROVE TypeOK'
    <3>1. told' \in [Key -> Nat]
      BY <2>8 DEF RespondSolved, Solve
    <3> QED BY <2>8, <3>1 DEF RespondSolved
  <2>9. ASSUME NEW w \in Worker, GetPassword(w) PROVE TypeOK'
    BY <2>9 DEF GetPassword, Called
  <2>10. ASSUME password' \in [User -> Hash \cup {None}], Witnessed
         PROVE  since' \in [Worker -> SUBSET (Hash \cup {None})]
    <3>1. ASSUME NEW w \in Worker, pc[w] \in DeletePoints
          PROVE  password'[req[w].user] \in Hash \cup {None}
      BY <2>10, <3>1 DEF Delete
    <3> QED BY <2>10, <3>1 DEF Witnessed
  <2>11. ASSUME NEW w \in Worker, DeleteUser(w) PROVE TypeOK'
    <3>1. password' \in [User -> Hash \cup {None}]
      BY <2>11 DEF DeleteUser
    <3>2. since' \in [Worker -> SUBSET (Hash \cup {None})]
      BY <2>10, <2>11, <3>1 DEF DeleteUser
    <3> QED BY <2>11, <3>1, <3>2 DEF DeleteUser, Called
  <2>12. ASSUME NEW w \in Worker, Forget(w) PROVE TypeOK'
    BY <2>12 DEF Forget
  <2>13. ASSUME NEW w \in Worker, RespondDeleted(w) PROVE TypeOK'
    BY <2>13 DEF RespondDeleted
  <2>14. ASSUME NEW w \in Worker, Throw(w) PROVE TypeOK'
    BY <2>14 DEF Throw
  <2>15. Others => changes' \in 0 .. MaxChanges
    BY McaptchaAssumption DEF Others
  <2>16. ASSUME NEW k \in Key, Publish(k) PROVE TypeOK'
    BY <2>15, <2>16 DEF Publish
  <2>17. ASSUME NEW u \in User, SetPassword(u) PROVE TypeOK'
    <3>1. password' \in [User -> Hash \cup {None}]
      BY <2>17 DEF SetPassword
    <3>2. since' \in [Worker -> SUBSET (Hash \cup {None})]
      BY <2>10, <2>17, <3>1 DEF SetPassword
    <3> QED BY <2>15, <2>17, <3>1, <3>2 DEF SetPassword
  <2>18. CASE UNCHANGED vars
    BY <2>18 DEF vars
  <2> QED
    BY <2>1, <2>2, <2>3, <2>4, <2>5, <2>6, <2>7, <2>8, <2>9, <2>11, <2>12, <2>13, <2>14,
       <2>16, <2>17, <2>18 DEF Next, Handle, verify_pow, delete_account
<1> QED BY <1>1, <1>2, PTL DEF Spec

-----------------------------------------------------------------------------
\* What a deletion knows at each of its points.
Deleting ==
  \A w \in Worker :
    /\ pc[w] \in {"password", "delete", "forget"} => identity[w] = req[w].user
    /\ pc[w] \in DeletePoints => password[req[w].user] \in since[w]
    /\ pc[w] = "delete" => \E h \in since[w] : <<req[w].password, h>> \in Accepts
    /\ pc[w] \in {"forget", "deleted"} => None \in since[w]
    /\ pc[w] = "deleted" => identity[w] = None

\* A change of passwords adds to what every deletion has seen.
LEMMA SeenByAll ==
  ASSUME TypeOK, Deleting, Witnessed, UNCHANGED <<req, identity>>,
         NEW w \in Worker, pc'[w] = pc[w]
  PROVE  /\ pc'[w] \in {"password", "delete", "forget"} => identity'[w] = req'[w].user
         /\ pc'[w] \in DeletePoints => password'[req'[w].user] \in since'[w]
         /\ pc'[w] = "delete" => \E h \in since'[w] : <<req'[w].password, h>> \in Accepts
         /\ pc'[w] \in {"forget", "deleted"} => None \in since'[w]
         /\ pc'[w] = "deleted" => identity'[w] = None
<1>1. since[w] \subseteq since'[w]
  BY DEF Witnessed, TypeOK
<1>2. pc[w] \in DeletePoints => password'[req[w].user] \in since'[w]
  BY DEF Witnessed, TypeOK
<1> QED BY <1>1, <1>2 DEF Deleting

LEMMA DeletingHolds == Spec => []Deleting
<1>1. Init => Deleting
  BY DEF Init, Deleting
<1>2. TypeOK /\ Deleting /\ [Next]_vars => Deleting'
  <2> SUFFICES ASSUME TypeOK, Deleting, [Next]_vars PROVE Deleting'
    OBVIOUS
  <2> USE DEF data, extern, local, past, GoTo
  <2>1. ASSUME NEW w \in Worker, Request(w) PROVE Deleting'
    <3>1. PICK r \in Requests :
            /\ req' = [req EXCEPT ![w] = r]
            /\ IF r \in Solve
                 THEN GoTo(w, "verify") /\ UNCHANGED <<identity, since>>
                 ELSE /\ GoTo(w, "password")
                      /\ identity' = [identity EXCEPT ![w] = r.user]
                      /\ since' = [since EXCEPT ![w] = {password[r.user]}]
      BY <2>1 DEF Request
    <3>2. \A v \in Worker \ {w} : /\ pc'[v] = pc[v] /\ req'[v] = req[v]
                                 /\ identity'[v] = identity[v] /\ since'[v] = since[v]
      BY <2>1, <3>1 DEF Request, TypeOK
    <3>3. UNCHANGED password
      BY <2>1 DEF Request
    <3>4. CASE r \in Solve
      <4>1. pc'[w] = "verify"
        BY <3>1, <3>4 DEF TypeOK
      <4> QED BY <3>2, <3>3, <4>1 DEF Deleting
    <3>5. CASE r \notin Solve
      <4>1. /\ pc'[w] = "password" /\ req'[w] = r
            /\ identity'[w] = r.user /\ since'[w] = {password[r.user]}
        BY <3>1, <3>5 DEF TypeOK
      <4> QED BY <3>2, <3>3, <4>1 DEF Deleting
    <3> QED BY <3>4, <3>5
  <2>2. ASSUME NEW w \in Worker, verify_pow(w) PROVE Deleting'
    BY <2>2 DEF verify_pow, Verify, RecordSolve, Ask, Save, Update, RespondSolved, Called,
       Deleting, TypeOK
  <2>3. ASSUME NEW w \in Worker, GetPassword(w) PROVE Deleting'
    BY <2>3 DEF GetPassword, Called, Deleting, TypeOK
  <2>4. ASSUME NEW w \in Worker, DeleteUser(w) PROVE Deleting'
    <3>1. password'[req[w].user] = None
      <4>1. req[w].user \in User /\ identity[w] = req[w].user
        BY <2>4 DEF DeleteUser, Called, Deleting, TypeOK, Delete
      <4> QED BY <2>4, <4>1 DEF DeleteUser, TypeOK
    <3>2. None \in since'[w]
      BY <2>4, <3>1 DEF DeleteUser, Called, Witnessed, TypeOK
    <3>3. pc'[w] = "forget" /\ UNCHANGED <<req, identity>>
      BY <2>4 DEF DeleteUser, Called, TypeOK
    <3>4. identity'[w] = req'[w].user /\ password'[req'[w].user] \in since'[w]
      BY <2>4, <3>1, <3>2, <3>3 DEF DeleteUser, Called, Deleting
    <3>5. \A v \in Worker \ {w} : pc'[v] = pc[v]
      BY <2>4 DEF DeleteUser, TypeOK
    <3>6. Witnessed
      BY <2>4 DEF DeleteUser
    <3> QED BY <3>2, <3>3, <3>4, <3>5, <3>6, SeenByAll DEF Deleting
  <2>5. ASSUME NEW w \in Worker, Forget(w) PROVE Deleting'
    BY <2>5 DEF Forget, Deleting, TypeOK
  <2>6. ASSUME NEW w \in Worker, RespondDeleted(w) \/ Throw(w) \/ Launch(w) PROVE Deleting'
    BY <2>6 DEF RespondDeleted, Throw, Launch, Deleting, TypeOK
  <2>7. ASSUME NEW k \in Key, Publish(k) PROVE Deleting'
    BY <2>7 DEF Publish, Deleting
  <2>8. ASSUME NEW u \in User, SetPassword(u) PROVE Deleting'
    BY <2>8, SeenByAll DEF SetPassword, Deleting
  <2>9. CASE UNCHANGED vars
    BY <2>9 DEF vars, Deleting
  <2> QED
    BY <2>1, <2>2, <2>3, <2>4, <2>5, <2>6, <2>7, <2>8, <2>9 DEF Next, Handle, delete_account
<1> QED BY <1>1, <1>2, TypeCorrect, PTL DEF Spec

\* Who is told so has been deleted, at a moment of the request, and forgotten.
THEOREM OkMeansDeleted == Spec => []OkMeansGone
<1>1. Deleting => OkMeansGone
  BY DEF Deleting, OkMeansGone
<1> QED BY <1>1, DeletingHolds, PTL

\* No account goes without a password that was its user's since the request
\* began, however many deletions and changes of it are under way.
THEOREM DeletedForAPassword == Spec => DeletedByPassword
<1> DEFINE ByPassword ==
      \A u \in User : password'[u] = None /\ password[u] # None /\ UNCHANGED changes =>
        \E w \in Worker : /\ pc[w] = "delete" /\ req[w].user = u
                          /\ \E h \in since[w] : <<req[w].password, h>> \in Accepts
<1>1. TypeOK /\ Deleting /\ [Next]_vars => [ByPassword]_password
  <2> SUFFICES ASSUME TypeOK, Deleting, [Next]_vars, password' # password PROVE ByPassword
    OBVIOUS
  <2>1. ASSUME NEW w \in Worker, DeleteUser(w) PROVE ByPassword
    <3> SUFFICES ASSUME NEW u \in User, password'[u] = None, password[u] # None
                 PROVE  /\ pc[w] = "delete" /\ req[w].user = u
                        /\ \E h \in since[w] : <<req[w].password, h>> \in Accepts
      OBVIOUS
    <3>1. pc[w] = "delete" /\ identity[w] = req[w].user
      BY <2>1 DEF DeleteUser, Called, Deleting
    <3>2. u = identity[w]
      BY <2>1 DEF DeleteUser, TypeOK
    <3> QED BY <3>1, <3>2 DEF Deleting
  <2>2. ASSUME NEW u \in User, SetPassword(u) PROVE changes' # changes
    BY <2>2, McaptchaAssumption DEF SetPassword, Others, TypeOK
  <2> QED
    BY <2>1, <2>2 DEF Next, Handle, verify_pow, delete_account, Request, Launch, Verify,
       RecordSolve, Ask, Save, Update, RespondSolved, GetPassword, Forget, RespondDeleted,
       Throw, Publish, vars, data
<1> QED BY <1>1, TypeCorrect, DeletingHolds, PTL DEF Spec, DeletedByPassword

-----------------------------------------------------------------------------
\* Counting workers.
LEMMA Sizes ==
  ASSUME NEW S \in SUBSET Worker
  PROVE  /\ Cardinality(S) \in Nat /\ Cardinality(S) <= Cardinality(Worker)
         /\ Cardinality(Worker) \in Nat
         /\ \A w \in S : Cardinality(S \ {w}) = Cardinality(S) - 1
         /\ \A w \in Worker : \A T \in SUBSET (S \cup {w}) :
              Cardinality(T) \in Nat /\ Cardinality(T) <= Cardinality(S) + 1
         /\ \A T \in SUBSET S : Cardinality(T) \in Nat /\ Cardinality(T) <= Cardinality(S)
<1>1. IsFiniteSet(Worker)
  BY McaptchaAssumption
<1>2. IsFiniteSet(S) /\ Cardinality(S) <= Cardinality(Worker)
  BY <1>1, FS_Subset
<1>3. Cardinality(Worker) \in Nat /\ Cardinality(S) \in Nat
  BY <1>1, <1>2, FS_CardinalityType
<1>4. \A w \in S : Cardinality(S \ {w}) = Cardinality(S) - 1
  BY <1>2, FS_RemoveElement
<1>5. ASSUME NEW T \in SUBSET S PROVE Cardinality(T) \in Nat /\ Cardinality(T) <= Cardinality(S)
  BY <1>2, FS_Subset, FS_CardinalityType
<1>6. ASSUME NEW w \in Worker, NEW T \in SUBSET (S \cup {w})
      PROVE  Cardinality(T) \in Nat /\ Cardinality(T) <= Cardinality(S) + 1
  <2>1. IsFiniteSet(S \cup {w})
    BY <1>2, FS_AddElement
  <2>2. Cardinality(S \cup {w}) \in {Cardinality(S), Cardinality(S) + 1}
    BY <1>2, FS_AddElement
  <2>3. IsFiniteSet(T) /\ Cardinality(T) <= Cardinality(S \cup {w})
    BY <2>1, FS_Subset
  <2>4. Cardinality(T) \in Nat
    BY <2>3, FS_CardinalityType
  <2> QED BY <1>3, <2>2, <2>3, <2>4
<1> QED BY <1>2, <1>3, <1>4, <1>5, <1>6

\* The steps of one worker leave the points and requests of the others alone.
LEMMA OneMoves ==
  ASSUME TypeOK, NEW w \in Worker, Request(w) \/ Handle(w) \/ Throw(w)
  PROVE  \A v \in Worker \ {w} : pc'[v] = pc[v] /\ req'[v] = req[v]
BY DEF TypeOK, Request, Handle, Throw, Launch, verify_pow, delete_account, Verify, RecordSolve,
   Ask, Save, Update, RespondSolved, GetPassword, DeleteUser, Forget, RespondDeleted, Called,
   GoTo, local

\* What is left over of a captcha's withdrawal is at most one save per worker.
THEOREM LateSavesAreBounded == Spec => []LateSaves
<1>1. Init => LateSaves
  <2> SUFFICES ASSUME Init, NEW k \in Key
               PROVE  late[k] + Cardinality(Busy(k, {"save"})) <= Cardinality(Worker)
    BY DEF LateSaves
  <2>1. Busy(k, {"save"}) = {}
    BY DEF Init, Busy
  <2>2. late[k] = 0
    BY DEF Init
  <2>3. Cardinality(Worker) \in Nat /\ Cardinality({}) <= Cardinality(Worker) /\ Cardinality({}) \in Nat
    BY Sizes
  <2> QED BY <2>1, <2>2, <2>3
<1>2. TypeOK /\ LateSaves /\ [Next]_vars => LateSaves'
  <2> SUFFICES ASSUME TypeOK, LateSaves, [Next]_vars, NEW k \in Key, ~ published'[k]
               PROVE  late'[k] + Cardinality(Busy(k, {"save"})') <= Cardinality(Worker)
    BY DEF LateSaves
  <2> DEFINE B == Busy(k, {"save"})
  <2>1. B \subseteq Worker /\ B' \subseteq Worker /\ late[k] \in Nat
    BY DEF Busy, TypeOK
  <2>2. ~ published[k] => late[k] + Cardinality(B) <= Cardinality(Worker)
    BY DEF LateSaves
  <2>3. ASSUME B' \subseteq B, late'[k] = late[k], ~ published[k] PROVE late'[k] + Cardinality(B') <= Cardinality(Worker)
    <3>1. B \in SUBSET Worker /\ B' \in SUBSET B
      BY <2>1, <2>3
    <3>2. /\ Cardinality(B) \in Nat /\ Cardinality(Worker) \in Nat
          /\ Cardinality(B') \in Nat /\ Cardinality(B') <= Cardinality(B)
      BY <3>1, Sizes
    <3> HIDE DEF B
    <3> QED BY <2>1, <2>2, <2>3, <3>2
  <2>4. ASSUME NEW w \in Worker, Save(w) PROVE late'[k] + Cardinality(B') <= Cardinality(Worker)
    <3>1. pc[w] = "save" /\ pc'[w] = "update" /\ req' = req /\ UNCHANGED published
      BY <2>4 DEF Save, Called, GoTo, TypeOK
    <3>2. \A v \in Worker \ {w} : pc'[v] = pc[v]
      BY <2>4, OneMoves DEF Handle, verify_pow
    <3>3. CASE req[w].key = k
      <4>1. w \in B /\ B' = B \ {w}
        BY <3>1, <3>2, <3>3 DEF Busy
      <4>2. late'[k] = late[k] + 1
        BY <2>4, <3>1, <3>3 DEF Save, TypeOK
      <4>3. Cardinality(B') = Cardinality(B) - 1 /\ Cardinality(B) \in Nat /\ Cardinality(Worker) \in Nat
        BY <2>1, <4>1, Sizes
      <4> HIDE DEF B
      <4> QED BY <2>1, <2>2, <3>1, <4>2, <4>3
    <3>4. CASE req[w].key # k
      <4>1. B' \subseteq B
        BY <3>1, <3>2, <3>4 DEF Busy
      <4>2. late'[k] = late[k]
        BY <2>4, <3>4 DEF Save, TypeOK
      <4> QED BY <2>3, <3>1, <4>1, <4>2
    <3> QED BY <3>3, <3>4
  <2>5. ASSUME NEW w \in Worker, Request(w) \/ Handle(w) \/ Throw(w), ~ Save(w)
        PROVE  late'[k] + Cardinality(B') <= Cardinality(Worker)
    <3>1. UNCHANGED <<published, late>>
      BY <2>5 DEF Request, Handle, Throw, Launch, verify_pow, delete_account, Verify, RecordSolve,
         Ask, Update, RespondSolved, GetPassword, DeleteUser, Forget, RespondDeleted, data, past
    <3>2. \A v \in Worker \ {w} : pc'[v] = pc[v] /\ req'[v] = req[v]
      BY <2>5, OneMoves
    <3>3. w \in B' => w \in B
      <4>1. CASE Ask(w)
        BY <3>1, <4>1 DEF Ask, Called, GoTo, Busy, TypeOK
      <4>2. CASE Launch(w)
        BY <4>2 DEF Launch, Busy, local
      <4>3. CASE Request(w)
        BY <4>3 DEF Request, GoTo, Busy, TypeOK
      <4>4. CASE Verify(w) \/ RecordSolve(w) \/ Update(w) \/ RespondSolved(w) \/ delete_account(w) \/ Throw(w)
        BY <4>4 DEF Verify, RecordSolve, Update, RespondSolved, delete_account, GetPassword,
           DeleteUser, Forget, RespondDeleted, Throw, GoTo, Busy, TypeOK
      <4> QED BY <2>5, <4>1, <4>2, <4>3, <4>4 DEF Handle, verify_pow
    <3>4. B' \subseteq B
      BY <3>2, <3>3 DEF Busy
    <3> QED BY <2>3, <3>1, <3>4
  <2>6. ASSUME NEW j \in Key, Publish(j) PROVE late'[k] + Cardinality(B') <= Cardinality(Worker)
    <3>1. B' = B
      BY <2>6 DEF Publish, local, Busy
    <3>2. CASE j = k
      <4>1. late'[k] = 0
        BY <2>6, <3>2 DEF Publish, TypeOK
      <4>2. Cardinality(B) \in Nat /\ Cardinality(B) <= Cardinality(Worker)
        BY <2>1, Sizes
      <4> HIDE DEF B
      <4> QED BY <3>1, <4>1, <4>2
    <3>3. CASE j # k
      <4>1. late'[k] = late[k] /\ published'[k] = published[k]
        BY <2>6, <3>3 DEF Publish, TypeOK
      <4> QED BY <2>3, <3>1, <4>1
    <3> QED BY <3>2, <3>3
  <2>7. ASSUME (\E u \in User : SetPassword(u)) \/ UNCHANGED vars
        PROVE  late'[k] + Cardinality(B') <= Cardinality(Worker)
    <3>1. UNCHANGED <<published, late, pc, req>>
      BY <2>7 DEF SetPassword, vars, data, local, past
    <3>2. B' = B
      BY <3>1 DEF Busy
    <3> QED BY <2>3, <3>1, <3>2
  <2> QED BY <2>4, <2>5, <2>6, <2>7 DEF Next
<1> QED BY <1>1, <1>2, TypeCorrect, PTL DEF Spec

\* The statistics count whatever is answered, or about to be, even where calls
\* throw.
Underway == {"ask", "save", "update", "solved"}
THEOREM SolvesAreCounted == Spec => []SolvesCount
<1> USE DEF Underway
<1>1. Init => SolvesCount
  <2> SUFFICES ASSUME Init, NEW k \in Key PROVE told[k] + Cardinality(Busy(k, Underway)) <= solves[k]
    BY DEF SolvesCount
  <2>1. Busy(k, Underway) = {}
    BY DEF Init, Busy
  <2>2. told[k] = 0 /\ solves[k] = 0
    BY DEF Init
  <2> QED BY <2>1, <2>2, FS_EmptySet
<1>2. TypeOK /\ SolvesCount /\ [Next]_vars => SolvesCount'
  <2> SUFFICES ASSUME TypeOK, SolvesCount, [Next]_vars, NEW k \in Key
               PROVE  told'[k] + Cardinality(Busy(k, Underway)') <= solves'[k]
    BY DEF SolvesCount
  <2> DEFINE B == Busy(k, Underway)
  <2>1. B \subseteq Worker /\ B' \subseteq Worker /\ told[k] \in Nat /\ solves[k] \in Nat
    BY DEF Busy, TypeOK
  <2>2. told[k] + Cardinality(B) <= solves[k]
    BY DEF SolvesCount
  <2>3. ASSUME B' \subseteq B, told'[k] = told[k], solves'[k] = solves[k]
        PROVE  told'[k] + Cardinality(B') <= solves'[k]
    <3>1. B \in SUBSET Worker /\ B' \in SUBSET B
      BY <2>1, <2>3
    <3>2. Cardinality(B) \in Nat /\ Cardinality(B') \in Nat /\ Cardinality(B') <= Cardinality(B)
      BY <3>1, Sizes
    <3> HIDE DEF B
    <3> QED BY <2>1, <2>2, <2>3, <3>2
  <2>4. ASSUME NEW w \in Worker, Request(w) \/ Handle(w) \/ Throw(w)
        PROVE  /\ \A v \in Worker \ {w} : pc'[v] = pc[v] /\ req'[v] = req[v]
               /\ B' \subseteq B \cup {w}
               /\ w \notin B' => B' \subseteq B \ {w}
    BY <2>4, OneMoves DEF Busy
  <2>5. ASSUME NEW w \in Worker, RecordSolve(w) PROVE told'[k] + Cardinality(B') <= solves'[k]
    <3>1. B' \subseteq B \cup {w}
      BY <2>4, <2>5 DEF Handle, verify_pow
    <3>2. told'[k] = told[k]
      BY <2>5 DEF RecordSolve, past
    <3>3. CASE req[w].key = k
      <4>1. solves'[k] = solves[k] + 1
        BY <2>5, <3>3 DEF RecordSolve, TypeOK
      <4>2. Cardinality(B) \in Nat /\ Cardinality(B') \in Nat /\ Cardinality(B') <= Cardinality(B) + 1
        BY <2>1, <3>1, Sizes
      <4> HIDE DEF B
      <4> QED BY <2>1, <2>2, <3>2, <4>1, <4>2
    <3>4. CASE req[w].key # k
      <4>1. w \notin B' /\ solves'[k] = solves[k]
        BY <2>5, <3>4 DEF RecordSolve, Called, Busy, TypeOK
      <4> QED BY <2>3, <3>1, <3>2, <4>1
    <3> QED BY <3>3, <3>4
  <2>6. ASSUME NEW w \in Worker, RespondSolved(w) PROVE told'[k] + Cardinality(B') <= solves'[k]
    <3>1. w \notin B' /\ B' \subseteq B \ {w}
      <4>1. w \notin B'
        BY <2>6 DEF RespondSolved, GoTo, Busy, TypeOK
      <4>2. Handle(w)
        BY <2>6 DEF Handle, verify_pow
      <4> QED BY <2>4, <4>1, <4>2
    <3>2. solves'[k] = solves[k]
      BY <2>6 DEF RespondSolved, data
    <3>3. CASE req[w].key = k
      <4>1. told'[k] = told[k] + 1 /\ w \in B
        BY <2>6, <3>3 DEF RespondSolved, Busy, TypeOK
      <4>2. Cardinality(B) \in Nat /\ Cardinality(B \ {w}) = Cardinality(B) - 1
        BY <2>1, <4>1, Sizes
      <4>3. Cardinality(B') \in Nat /\ Cardinality(B') <= Cardinality(B \ {w})
        <5>1. B \ {w} \in SUBSET Worker /\ B' \in SUBSET (B \ {w})
          BY <2>1, <3>1
        <5> QED BY <5>1, Sizes
      <4> HIDE DEF B
      <4> QED BY <2>1, <2>2, <3>2, <4>1, <4>2, <4>3
    <3>4. CASE req[w].key # k
      <4>1. told'[k] = told[k]
        BY <2>6, <3>4 DEF RespondSolved, TypeOK
      <4> QED BY <2>3, <3>1, <3>2, <4>1
    <3> QED BY <3>3, <3>4
  <2>7. ASSUME NEW w \in Worker, Request(w) \/ Handle(w) \/ Throw(w), ~ RecordSolve(w), ~ RespondSolved(w)
        PROVE  told'[k] + Cardinality(B') <= solves'[k]
    <3>1. UNCHANGED <<solves, told>>
      BY <2>7 DEF Request, Handle, Throw, Launch, verify_pow, delete_account, Verify, Ask, Save,
         Update, GetPassword, DeleteUser, Forget, RespondDeleted, data, past
    <3>2. w \in B' => w \in B
      <4>1. CASE Ask(w) \/ Save(w) \/ Update(w)
        BY <4>1 DEF Ask, Save, Update, Called, GoTo, Busy, TypeOK
      <4>2. CASE Launch(w)
        BY <4>2 DEF Launch, Busy, local
      <4>3. CASE Request(w)
        BY <4>3 DEF Request, GoTo, Busy, TypeOK
      <4>4. CASE Verify(w) \/ delete_account(w) \/ Throw(w)
        BY <4>4 DEF Verify, delete_account, GetPassword, DeleteUser, Forget, RespondDeleted,
           Throw, GoTo, Busy, TypeOK
      <4> QED BY <2>7, <4>1, <4>2, <4>3, <4>4 DEF Handle, verify_pow
    <3>3. B' \subseteq B
      BY <2>4, <2>7, <3>2
    <3> QED BY <2>3, <3>1, <3>3
  <2>8. ASSUME (\E j \in Key : Publish(j)) \/ (\E u \in User : SetPassword(u)) \/ UNCHANGED vars
        PROVE  told'[k] + Cardinality(B') <= solves'[k]
    <3>1. UNCHANGED <<solves, told, pc, req>>
      BY <2>8 DEF Publish, SetPassword, vars, data, local, past
    <3>2. B' = B
      BY <3>1 DEF Busy
    <3> QED BY <2>3, <3>1, <3>2
  <2> QED BY <2>5, <2>6, <2>7, <2>8 DEF Next
<1> QED BY <1>1, <1>2, TypeCorrect, PTL DEF Spec

-----------------------------------------------------------------------------
\* The steps that are left of a worker's request: the points ahead, each call
\* among them made as a task first, in the async form.
Point(at) == CASE at = "idle"                -> 0
               [] at \in {"solved", "deleted"} -> 1
               [] at \in {"update", "forget"}  -> 2
               [] at = "delete"              -> 3
               [] at = "save"                -> 4
               [] at = "password"            -> 5
               [] at = "ask"                 -> 6
               [] at = "record"              -> 8
               [] at = "verify"              -> 10
Left(w) == Point(pc[w]) + IF pc[w] \in CallPoints /\ req[w].async /\ ~ task[w] THEN 1 ELSE 0

LEMMA LeftIsSmall ==
  ASSUME TypeOK, NEW w \in Worker
  PROVE  Left(w) \in 0 .. 11 /\ (Left(w) = 0 <=> pc[w] = "idle")
BY DEF TypeOK, Left, Point

LEMMA ServingLeavesLess ==
  ASSUME TypeOK, NEW w \in Worker, Handle(w) \/ Throw(w)
  PROVE  Left(w)' < Left(w)
<1>1. CASE Launch(w)
  <2>1. task'[w] /\ pc' = pc /\ req' = req
    BY <1>1 DEF TypeOK, Launch, local
  <2>2. Left(w)' = Point(pc[w]) + 0
    BY <2>1 DEF Left
  <2>3. Left(w) = Point(pc[w]) + 1
    BY <1>1 DEF Left, Launch
  <2>4. Point(pc[w]) \in Nat
    BY DEF TypeOK, Point
  <2> QED BY <2>2, <2>3, <2>4
<1>2. CASE ~ Launch(w)
  <2>1. /\ <<pc[w], pc'[w]>> \in
             {<<"verify", "record">>, <<"record", "ask">>, <<"record", "update">>,
              <<"ask", "save">>, <<"ask", "update">>, <<"save", "update">>,
              <<"update", "solved">>, <<"solved", "idle">>, <<"password", "delete">>,
              <<"password", "idle">>, <<"delete", "forget">>, <<"forget", "deleted">>,
              <<"deleted", "idle">>} \cup (CallPoints \X {"idle"})
    BY <1>2 DEF TypeOK, Handle, verify_pow, delete_account, Verify, RecordSolve, Ask, Save, Update,
                RespondSolved, GetPassword, DeleteUser, Forget, RespondDeleted, Throw, Called, GoTo
  <2> QED BY <2>1 DEF Left, Point
<1> QED BY <1>1, <1>2

\* Nothing that another worker or the others do adds to it.
LEMMA OthersLeaveIt ==
  ASSUME TypeOK, NEW w \in Worker, [Next]_vars, ~ Request(w), ~ Handle(w), ~ Throw(w)
  PROVE  Left(w)' = Left(w)
<1> USE DEF TypeOK, local, extern
<1>1. pc'[w] = pc[w] /\ req'[w] = req[w] /\ task'[w] = task[w]
  <2>1. ASSUME NEW v \in Worker, v # w, Request(v) \/ Handle(v) \/ Throw(v)
        PROVE  pc'[w] = pc[w] /\ req'[w] = req[w] /\ task'[w] = task[w]
    <3>1. CASE Request(v)
      BY <2>1, <3>1 DEF Request, GoTo
    <3>2. CASE Launch(v) \/ Throw(v)
      BY <2>1, <3>2 DEF Launch, Throw, GoTo
    <3>3. CASE verify_pow(v)
      BY <2>1, <3>3 DEF verify_pow, Verify, RecordSolve, Ask, Save, Update, RespondSolved, Called, GoTo
    <3>4. CASE delete_account(v)
      BY <2>1, <3>4 DEF delete_account, GetPassword, DeleteUser, Forget, RespondDeleted, Called, GoTo
    <3> QED BY <2>1, <3>1, <3>2, <3>3, <3>4 DEF Handle
  <2>2. ASSUME NEW k \in Key, Publish(k) PROVE UNCHANGED <<pc, req, task>>
    BY <2>2 DEF Publish
  <2>3. ASSUME NEW u \in User, SetPassword(u) PROVE UNCHANGED <<pc, req, task>>
    BY <2>3 DEF SetPassword
  <2>4. UNCHANGED vars => UNCHANGED <<pc, req, task>>
    BY DEF vars
  <2> QED BY <2>1, <2>2, <2>3, <2>4 DEF Next
<1> QED BY <1>1 DEF Left

\* A request, of either kind and in both forms, ends within 11 steps of its
\* worker, whether or not its calls throw: no call is repeated or waits for
\* another worker, and only a new request adds to them.
THEOREM RequestsGetDone ==
  Spec => /\ [](\A w \in Worker : Left(w) \in 0 .. 11 /\ (Left(w) = 0 <=> pc[w] = "idle"))
          /\ [][\A w \in Worker : /\ Handle(w) \/ Throw(w) => Left(w)' < Left(w)
                                  /\ Left(w)' > Left(w) => Request(w)]_vars
<1> DEFINE Small == \A w \in Worker : Left(w) \in 0 .. 11 /\ (Left(w) = 0 <=> pc[w] = "idle")
           Less  == \A w \in Worker : /\ Handle(w) \/ Throw(w) => Left(w)' < Left(w)
                                      /\ Left(w)' > Left(w) => Request(w)
<1>1. TypeOK => Small
  BY LeftIsSmall
<1>2. (TypeOK => Small)'
  BY <1>1, PTL
<1>3. TypeOK /\ TypeOK' /\ [Next]_vars => [Less]_vars
  <2> SUFFICES ASSUME TypeOK, TypeOK', [Next]_vars, NEW w \in Worker
               PROVE  /\ Handle(w) \/ Throw(w) => Left(w)' < Left(w)
                      /\ Left(w)' > Left(w) => Request(w)
    OBVIOUS
  <2>1. Left(w) \in Nat /\ Left(w)' \in Nat
    BY <1>1, <1>2
  <2>2. CASE Handle(w) \/ Throw(w)
    BY <2>1, <2>2, ServingLeavesLess
  <2>3. CASE ~ Request(w) /\ ~ Handle(w) /\ ~ Throw(w)
    BY <2>1, <2>3, OthersLeaveIt
  <2>4. Request(w) => ~ Handle(w) /\ ~ Throw(w)
    BY DEF Request, Handle, Launch, verify_pow, delete_account, Verify, RecordSolve, Ask, Save, Update,
           RespondSolved, GetPassword, DeleteUser, Forget, RespondDeleted, Throw, Called
  <2> QED BY <2>2, <2>3, <2>4
<1> QED BY <1>1, <1>3, TypeCorrect, PTL DEF Spec
=============================================================================
