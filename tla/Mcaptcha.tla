------------------------------ MODULE Mcaptcha ------------------------------
(***************************************************************************)
(* cpp/mcaptcha: verify_pow and delete_account, in their plain and in their *)
(* std::async forms, by concurrent workers on one AppData.  The captchas,   *)
(* the statistics, the database and the password hashing are dummies in the *)
(* code (third_party/impl.cpp) and external: each call takes effect at once *)
(* or throws, and others change accounts and publish captchas in between.   *)
(***************************************************************************)
EXTENDS Integers, FiniteSets

CONSTANTS
  Worker,      \* the threads that handle requests
  Key,         \* captchas
  Factor,      \* difficulty factors
  Nonce,       \* what clients send as nonce
  Width,       \* 2^32
  User, Password, Hash, None,
  Accepts,     \* the pairs for which Config::verify gives true
  Requests,    \* what may be asked for
  MaxRequests, \* bound on the requests of a behaviour
  MaxChanges   \* bound on what others do

Solve  == [key : Key, nonce : Nonce, analytics : BOOLEAN, async : BOOLEAN]
Delete == [user : User, password : Password, async : BOOLEAN]

ASSUME McaptchaAssumption ==
  /\ IsFiniteSet(Worker)
  /\ None \notin Hash /\ None \notin User
  /\ Nonce \subseteq Nat /\ Width \in Nat \ {0}
  /\ Accepts \subseteq Password \X Hash
  /\ Requests \subseteq Solve \cup Delete /\ Requests # {} /\ Factor # {}
  /\ MaxRequests \in Nat /\ MaxChanges \in Nat

VARIABLES
  published,   \* the captchas whose analytics are
  analyses,    \* how many of each were saved
  solves,      \* the statistics
  max_nonce,   \* by captcha and difficulty factor
  password,    \* the hash of each account, or None
  requests, changes,
  \* Of each worker:
  pc, req,
  task,        \* the task of std::async that get() waits for is there
  factor,      \* difficulty_factor
  identity,    \* whom the Identity of a deletion names
  \* History:
  late,        \* analyses saved since the captcha was last withdrawn
  told,        \* how many solves of each captcha were answered
  since        \* of a deletion: what the password of its user has been

data   == <<published, analyses, solves, max_nonce, password>>
extern == <<requests, changes>>
local  == <<req, factor, identity>>
past   == <<late, told, since>>
vars   == <<data, extern, pc, task, local, past>>

SolvePoints  == {"verify", "record", "ask", "save", "update", "solved"}
DeletePoints == {"password", "delete", "forget", "deleted"}
\* Where a call into AppData is made, as a task in the async form.
CallPoints   == {"verify", "record", "ask", "save", "update", "password", "delete"}

TypeOK ==
  /\ published \in [Key -> BOOLEAN] /\ analyses \in [Key -> Nat] /\ solves \in [Key -> Nat]
  /\ max_nonce \in [Key \X Factor -> 0 .. Width - 1]
  /\ password \in [User -> Hash \cup {None}]
  /\ requests \in 0 .. MaxRequests /\ changes \in 0 .. MaxChanges
  /\ pc \in [Worker -> {"idle"} \cup SolvePoints \cup DeletePoints]
  /\ req \in [Worker -> Requests] /\ task \in [Worker -> BOOLEAN]
  /\ factor \in [Worker -> Factor] /\ identity \in [Worker -> User \cup {None}]
  /\ late \in [Key -> Nat] /\ told \in [Key -> Nat]
  /\ since \in [Worker -> SUBSET (Hash \cup {None})]
  /\ \A w \in Worker : /\ pc[w] \in SolvePoints  => req[w] \in Solve
                       /\ pc[w] \in DeletePoints => req[w] \in Delete

Init ==
  /\ published \in [Key -> BOOLEAN]
  /\ analyses = [k \in Key |-> 0] /\ solves = [k \in Key |-> 0]
  /\ max_nonce = [l \in Key \X Factor |-> 0]
  /\ password \in [User -> Hash]
  /\ requests = 0 /\ changes = 0
  /\ pc = [w \in Worker |-> "idle"] /\ task = [w \in Worker |-> FALSE]
  /\ req = [w \in Worker |-> CHOOSE r \in Requests : TRUE]
  /\ factor = [w \in Worker |-> CHOOSE f \in Factor : TRUE]
  /\ identity = [w \in Worker |-> None]
  /\ late = [k \in Key |-> 0] /\ told = [k \in Key |-> 0]
  /\ since = [w \in Worker |-> {}]

-----------------------------------------------------------------------------
GoTo(w, at) == pc' = [pc EXCEPT ![w] = at]

Request(w) ==
  /\ pc[w] = "idle" /\ requests < MaxRequests
  /\ requests' = requests + 1
  /\ \E r \in Requests :
       /\ req' = [req EXCEPT ![w] = r]
       /\ IF r \in Solve
            THEN GoTo(w, "verify") /\ UNCHANGED <<identity, since>>
            ELSE /\ GoTo(w, "password")
                 /\ identity' = [identity EXCEPT ![w] = r.user]
                 /\ since' = [since EXCEPT ![w] = {password[r.user]}]
  /\ UNCHANGED <<data, changes, task, factor, late, told>>

\* The async forms make each call a task and wait for it at once.
Launch(w) ==
  /\ pc[w] \in CallPoints /\ req[w].async /\ ~ task[w]
  /\ task' = [task EXCEPT ![w] = TRUE]
  /\ UNCHANGED <<data, extern, pc, local, past>>

\* The call at that point takes effect, here or in its task.
Called(w, at) ==
  /\ pc[w] = at
  /\ req[w].async => task[w]
  /\ task' = [task EXCEPT ![w] = FALSE]
  /\ UNCHANGED <<extern, req>>

Verify(w) ==
  /\ Called(w, "verify")
  /\ \E f \in Factor : factor' = [factor EXCEPT ![w] = f]
  /\ GoTo(w, "record")
  /\ UNCHANGED <<data, identity, past>>

\* Mutant of RecordSolve: only the solves with analytics are counted.
RecordSolveOfAnalytics(w) ==
  /\ Called(w, "record")
  /\ IF req[w].analytics
       THEN solves' = [solves EXCEPT ![req[w].key] = @ + 1] /\ GoTo(w, "ask")
       ELSE UNCHANGED solves /\ GoTo(w, "update")
  /\ UNCHANGED <<published, analyses, max_nonce, password, factor, identity, past>>

RecordSolve(w) ==
  /\ Called(w, "record")
  /\ solves' = [solves EXCEPT ![req[w].key] = @ + 1]
  /\ GoTo(w, IF req[w].analytics THEN "ask" ELSE "update")
  /\ UNCHANGED <<published, analyses, max_nonce, password, factor, identity, past>>

\* Mutants of Ask: analytics that are given are saved; they wait to be published.
AskNothing(w) ==
  /\ Called(w, "ask")
  /\ GoTo(w, "save")
  /\ UNCHANGED <<data, factor, identity, past>>
AskAgain(w) ==
  /\ Called(w, "ask")
  /\ GoTo(w, IF published[req[w].key] THEN "save" ELSE "ask")
  /\ UNCHANGED <<data, factor, identity, past>>

Ask(w) ==
  /\ Called(w, "ask")
  /\ GoTo(w, IF published[req[w].key] THEN "save" ELSE "update")
  /\ UNCHANGED <<data, factor, identity, past>>

Save(w) ==
  LET k == req[w].key IN
  /\ Called(w, "save")
  /\ analyses' = [analyses EXCEPT ![k] = @ + 1]
  /\ late' = IF published[k] THEN late ELSE [late EXCEPT ![k] = @ + 1]
  /\ GoTo(w, "update")
  /\ UNCHANGED <<published, solves, max_nonce, password, factor, identity, told, since>>

\* static_cast<uint32_t>
Cut(n) == n % Width

Update(w) ==
  LET l == <<req[w].key, factor[w]>>
      n == Cut(req[w].nonce) IN
  /\ Called(w, "update")
  /\ max_nonce' = IF n > max_nonce[l] THEN [max_nonce EXCEPT ![l] = n] ELSE max_nonce
  /\ GoTo(w, "solved")
  /\ UNCHANGED <<published, analyses, solves, password, factor, identity, late, told, since>>

RespondSolved(w) ==
  /\ pc[w] = "solved"
  /\ told' = [told EXCEPT ![req[w].key] = @ + 1]
  /\ GoTo(w, "idle")
  /\ UNCHANGED <<data, extern, task, local, late, since>>

-----------------------------------------------------------------------------
\* Mutant of GetPassword: what verify gives is not looked at.
GetPasswordOnly(w) ==
  /\ Called(w, "password")
  /\ GoTo(w, IF password[identity[w]] # None THEN "delete" ELSE "idle")
  /\ UNCHANGED <<data, factor, identity, past>>

\* get_password and verify; what does not verify throws.
GetPassword(w) ==
  /\ Called(w, "password")
  /\ GoTo(w, IF <<req[w].password, password[identity[w]]>> \in Accepts THEN "delete" ELSE "idle")
  /\ UNCHANGED <<data, factor, identity, past>>

\* What each deletion under way has seen of the password of its user.
Witnessed ==
  since' = [w \in Worker |->
              IF pc[w] \in DeletePoints THEN since[w] \cup {password'[req[w].user]} ELSE since[w]]

\* Mutant of DeleteUser: an account whose password was changed meanwhile stays.
DeleteUserUnchanged(w) ==
  /\ Called(w, "delete")
  /\ password' = IF <<req[w].password, password[identity[w]]>> \in Accepts
                   THEN [password EXCEPT ![identity[w]] = None] ELSE password
  /\ Witnessed
  /\ GoTo(w, "forget")
  /\ UNCHANGED <<published, analyses, solves, max_nonce, factor, identity, late, told>>

DeleteUser(w) ==
  /\ Called(w, "delete")
  /\ password' = [password EXCEPT ![identity[w]] = None]
  /\ Witnessed
  /\ GoTo(w, "forget")
  /\ UNCHANGED <<published, analyses, solves, max_nonce, factor, identity, late, told>>

Forget(w) ==
  /\ pc[w] = "forget"
  /\ identity' = [identity EXCEPT ![w] = None]
  /\ GoTo(w, "deleted")
  /\ UNCHANGED <<data, extern, task, req, factor, past>>

RespondDeleted(w) ==
  /\ pc[w] = "deleted"
  /\ GoTo(w, "idle")
  /\ UNCHANGED <<data, extern, task, local, past>>

-----------------------------------------------------------------------------
\* A call throws; or the account, the captcha is changed by others.
Throw(w) ==
  /\ pc[w] \in CallPoints
  /\ GoTo(w, "idle")
  /\ task' = [task EXCEPT ![w] = FALSE]
  /\ UNCHANGED <<data, extern, local, past>>

Others == changes < MaxChanges /\ changes' = changes + 1

Publish(k) ==
  /\ Others
  /\ published' = [published EXCEPT ![k] = ~ @]
  /\ late' = [late EXCEPT ![k] = 0]
  /\ UNCHANGED <<analyses, solves, max_nonce, password, requests, pc, task, local, told, since>>

\* A password is changed, an account deleted or registered again.
SetPassword(u) ==
  /\ Others
  /\ \E h \in Hash \cup {None} : password' = [password EXCEPT ![u] = h]
  /\ Witnessed
  /\ UNCHANGED <<published, analyses, solves, max_nonce, requests, pc, task, local, late, told>>

verify_pow(w)     == \/ Verify(w) \/ RecordSolve(w) \/ Ask(w) \/ Save(w) \/ Update(w)
                     \/ RespondSolved(w)
delete_account(w) == GetPassword(w) \/ DeleteUser(w) \/ Forget(w) \/ RespondDeleted(w)
Handle(w)         == Launch(w) \/ verify_pow(w) \/ delete_account(w)

Next == \/ \E w \in Worker : Request(w) \/ Handle(w) \/ Throw(w)
        \/ \E k \in Key : Publish(k)
        \/ \E u \in User : SetPassword(u)

Spec     == Init /\ [][Next]_vars
FairSpec == Spec /\ \A w \in Worker : WF_vars(Handle(w))

-----------------------------------------------------------------------------
Busy(k, points) == {w \in Worker : pc[w] \in points /\ req[w].key = k}

\* After a captcha's analytics were withdrawn, at most those who had asked
\* before still save: one analysis for each worker, whatever else is asked for.
LateSaves ==
  \A k \in Key : ~ published[k] => late[k] + Cardinality(Busy(k, {"save"})) <= Cardinality(Worker)

\* No solve is answered, or about to be, that the statistics do not count;
\* those that a call that threw cut short may be counted besides.
SolvesCount ==
  \A k \in Key :
    told[k] + Cardinality(Busy(k, {"ask", "save", "update", "solved"})) <= solves[k]

\* An account goes, other than by what others do, only for a password that was
\* its user's at some moment since the deletion was asked for: it may have been
\* changed since, and the account may be another one of that name.
DeletedByPassword ==
  [][\A u \in User : password'[u] = None /\ password[u] # None /\ UNCHANGED changes =>
       \E w \in Worker : /\ pc[w] = "delete" /\ req[w].user = u
                         /\ \E h \in since[w] : <<req[w].password, h>> \in Accepts]_password

\* Who is told that their account is deleted had none at a moment of the
\* request, and their identity is forgotten.
OkMeansGone ==
  \A w \in Worker : pc[w] = "deleted" => None \in since[w] /\ identity[w] = None

\* Every request is answered, or ends with an exception.
Answered == \A w \in Worker : pc[w] # "idle" ~> pc[w] = "idle"
=============================================================================
