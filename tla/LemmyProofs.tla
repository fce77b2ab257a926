---------------------------- MODULE LemmyProofs ----------------------------
(***************************************************************************)
(* What a login promises, whatever becomes of the user, the site and the    *)
(* clock while it goes on.                                                  *)
(***************************************************************************)
EXTENDS Lemmy, TLAPS

USE DEF Now

\* Every variable keeps its type, and a login is only ever at a point of its own.
THEOREM TypeCorrect == Spec => []TypeOK
<1>1. Init => TypeOK
  <2>1. 1 \in Now /\ 0 \in 0 .. MaxChanges
    BY LemmyAssumption
  <2>2. Persons \subseteq Person
    BY LemmyAssumption
  <2> QED BY <2>1, <2>2 DEF Init, TypeOK
<1>2. TypeOK /\ [Next]_vars => TypeOK'
  <2> SUFFICES ASSUME TypeOK, [Next]_vars PROVE TypeOK'
    OBVIOUS
  <2> USE DEF TypeOK, database
  <2>1. CASE Login
    <3>1. Moment \in [person : Person, site : BOOLEAN, now : Now]
      BY DEF Moment
    <3> QED BY <2>1, <3>1 DEF Login
  <2>2. CASE Launch
    BY <2>2 DEF Launch
  <2>3. CASE FindUser \/ ReadLocalSite \/ CheckRegistrationApplication
    BY <2>3 DEF FindUser, ReadLocalSite, CheckRegistrationApplication, Called
  <2>4. CASE CheckUser
    BY <2>4 DEF CheckUser
  <2>5. CASE Respond \/ Throw
    BY <2>5 DEF Respond, Throw
  <2>6. CASE Change
    <3>1. changes' \in 0 .. MaxChanges /\ person' \in Person /\ site' \in BOOLEAN
      <4>1. changes' \in 0 .. MaxChanges
        BY <2>6, LemmyAssumption DEF Change
      <4>2. Persons \subseteq Person
        BY LemmyAssumption
      <4> QED BY <2>6, <4>1, <4>2 DEF Change
    <3>2. Moment' \in [person : Person, site : BOOLEAN, now : Now]
      BY <2>6, <3>1 DEF Change, Moment
    <3> QED BY <2>6, <3>1, <3>2 DEF Change, Witnessed
  <2>7. CASE Tick
    BY <2>7, LemmyAssumption DEF Tick, Witnessed, Moment
  <2>8. CASE UNCHANGED vars
    BY <2>8 DEF vars
  <2> QED BY <2>1, <2>2, <2>3, <2>4, <2>5, <2>6, <2>7, <2>8 DEF Next, perform
<1> QED BY <1>1, <1>2, PTL DEF Spec

-----------------------------------------------------------------------------
\* What a login knows, at each of its points, of the moments since it began:
\* they go up to now; the copy is the user of one of them; what was checked of
\* the copy held, the end of the ban at one of them, the site's rule at another.
Copied  == {"check", "site", "application", "token"}
Checked == {"site", "application", "token"}
Known ==
  /\ pc # "idle" => Moment \in seen /\ \A s \in seen : s.now <= now
  /\ pc \in Copied => \E s \in seen : s.person = local_user_view
  /\ pc \in Checked =>
       /\ <<password, local_user_view.password_encrypted>> \in Accepts
       /\ ~ local_user_view.banned /\ ~ local_user_view.deleted
       /\ \E t \in seen : local_user_view.ban_expires <= t.now
  /\ pc \in {"application", "token"} =>
       \E u \in seen : u.site => local_user_view.email_verified

\* A moment that others make is added to those of the login, which it outdates.
LEMMA MomentsArePassed ==
  ASSUME TypeOK, Known, Change \/ Tick
  PROVE  Known'
<1>1. UNCHANGED <<pc, password, local_user_view>> /\ now <= now'
  BY DEF Change, Tick, TypeOK
<1>2. pc # "idle" => seen' = seen \cup {Moment'}
  BY DEF Change, Tick, Witnessed
<1>3. pc # "idle" => Moment' \in seen' /\ \A s \in seen' : s.now <= now'
  <2> SUFFICES ASSUME pc # "idle", NEW s \in seen' PROVE s.now <= now'
    BY <1>2
  <2>1. CASE s \in seen
    BY <2>1, <1>1 DEF Known, TypeOK, Change, Tick
  <2>2. CASE s = Moment'
    BY <2>2, <1>1 DEF Moment, TypeOK, Change, Tick
  <2> QED BY <2>1, <2>2, <1>2
<1> QED BY <1>1, <1>2, <1>3 DEF Known, Copied, Checked, Moment

LEMMA KnownHolds == Spec => []Known
<1>1. Init => Known
  BY DEF Init, Known, Copied, Checked
<1>2. TypeOK /\ Known /\ [Next]_vars => Known'
  <2> SUFFICES ASSUME TypeOK, Known, [Next]_vars PROVE Known'
    OBVIOUS
  <2> USE DEF Known, Copied, Checked, Moment, database
  <2>1. CASE Login
    BY <2>1 DEF Login, TypeOK
  <2>2. CASE Launch
    BY <2>2 DEF Launch
  <2>3. CASE FindUser
    BY <2>3 DEF FindUser, Called
  <2>4. CASE CheckUser
    <3>1. pc' # "idle" => ~ (local_user_view.ban_expires > now)
      BY <2>4 DEF CheckUser, Banned
    <3>2. pc' # "idle" => \E t \in seen : local_user_view.ban_expires <= t.now
      BY <2>4, <3>1 DEF CheckUser, TypeOK, Person
    <3> QED BY <2>4, <3>2 DEF CheckUser, Banned
  <2>5. CASE ReadLocalSite
    BY <2>5 DEF ReadLocalSite, Called
  <2>6. CASE CheckRegistrationApplication
    BY <2>6 DEF CheckRegistrationApplication, Called
  <2>7. CASE Respond \/ Throw
    BY <2>7 DEF Respond, Throw
  <2>8. CASE Change \/ Tick
    BY <2>8, MomentsArePassed
  <2>9. CASE UNCHANGED vars
    BY <2>9 DEF vars
  <2> QED
    BY <2>1, <2>2, <2>3, <2>4, <2>5, <2>6, <2>7, <2>8, <2>9 DEF Next, perform
<1> QED BY <1>1, <1>2, TypeCorrect, PTL DEF Spec

\* A token is for a user who was fit for it, in the sense of the three moments.
THEOREM TokensAreForTheFit == Spec => []TokensOfTheFit
<1>1. Known => TokensOfTheFit
  BY DEF Known, Copied, Checked, TokensOfTheFit
<1> QED BY <1>1, KnownHolds, PTL

\* Without a change of the user the three are one, and the last.
THEOREM UntouchedAreFit == Spec => []FitAtTheEnd
<1>1. TypeOK /\ Known => FitAtTheEnd
  <2> SUFFICES ASSUME TypeOK, Known, pc = "token", \A s \in seen : s.person = person
               PROVE  /\ <<password, person.password_encrypted>> \in Accepts
                      /\ ~ Banned(person) /\ ~ person.deleted
    BY DEF FitAtTheEnd
  <2>1. local_user_view = person
    BY DEF Known, Copied
  <2>2. PICK t \in seen : person.ban_expires <= t.now
    BY <2>1 DEF Known, Checked
  <2>3. t.now <= now /\ t.now \in Nat /\ now \in Nat /\ person.ban_expires \in Nat
    BY LemmyAssumption DEF Known, TypeOK, Person
  <2>4. ~ (person.ban_expires > now)
    BY <2>2, <2>3
  <2> QED BY <2>1, <2>4 DEF Known, Checked, Banned
<1> QED BY <1>1, KnownHolds, TypeCorrect, PTL

-----------------------------------------------------------------------------
\* The steps that are left of a login: its points, the calls among them made
\* as a task first, in the async form.
Point == CASE pc = "idle"        -> 0
           [] pc = "token"       -> 1
           [] pc = "application" -> 2
           [] pc = "site"        -> 4
           [] pc = "check"       -> 6
           [] pc = "find"        -> 7
Left  == Point + IF async /\ ~ task /\ pc \in {"find", "site", "application"} THEN 1 ELSE 0

LEMMA LeftIsSmall ==
  ASSUME TypeOK
  PROVE  Left \in 0 .. 8 /\ (Left = 0 <=> pc = "idle")
BY DEF TypeOK, Left, Point

\* A login ends within 8 steps of its own, in both forms, whether or not its
\* calls throw: none of them is repeated or waits for another, what others do
\* to the user, the site and the clock adds nothing, and only a login begins.
THEOREM LoginsGetDone ==
  Spec => /\ [](Left \in 0 .. 8 /\ (Left = 0 <=> pc = "idle"))
          /\ [][(perform \/ Throw => Left' < Left) /\ (Left' > Left => Login)]_vars
<1> DEFINE Small == Left \in 0 .. 8 /\ (Left = 0 <=> pc = "idle")
           Less  == (perform \/ Throw => Left' < Left) /\ (Left' > Left => Login)
<1>1. TypeOK => Small
  BY LeftIsSmall
<1>2. (TypeOK => Small)'
  BY <1>1, PTL
<1>3. TypeOK /\ TypeOK' /\ [Next]_vars => [Less]_vars
  <2> SUFFICES ASSUME TypeOK, TypeOK', [Next]_vars PROVE Less
    OBVIOUS
  <2>1. Left \in Nat /\ Left' \in Nat
    BY <1>1, <1>2
  <2>2. CASE Login
    <3>1. ~ (perform \/ Throw)
      BY <2>2 DEF Login, perform, Launch, FindUser, CheckUser, ReadLocalSite,
                  CheckRegistrationApplication, Respond, Throw, Called
    <3> QED BY <2>2, <3>1
  <2>3. CASE Change \/ Tick \/ UNCHANGED vars
    <3>1. Left' = Left
      <4>1. UNCHANGED <<pc, async, task>>
        BY <2>3 DEF Change, Tick, vars
      <4> QED BY <4>1 DEF Left, Point
    <3>2. ~ (perform \/ Throw)
      <4>1. perform \/ Throw => pc' # pc \/ task' # task
        BY DEF TypeOK, perform, Launch, FindUser, CheckUser, ReadLocalSite,
               CheckRegistrationApplication, Respond, Throw, Called
      <4> QED BY <2>3, <4>1 DEF Change, Tick, vars
    <3> QED BY <2>1, <3>1, <3>2
  <2>4. CASE perform \/ Throw
    <3>1. Left' < Left
      BY <2>4 DEF TypeOK, perform, Launch, FindUser, CheckUser, ReadLocalSite,
                  CheckRegistrationApplication, Respond, Throw, Called, Left, Point
    <3> QED BY <2>1, <3>1
  <2> QED BY <2>2, <2>3, <2>4 DEF Next
<1> QED BY <1>1, <1>3, TypeCorrect, PTL DEF Spec
=============================================================================
