------------------------------- MODULE Lemmy -------------------------------
(***************************************************************************)
(* cpp/lemmy: Login::perform and perform_async.  A login copies the user    *)
(* out of the database, and checks the copy while others change the user,   *)
(* the site and the clock.  The database, bcrypt, the registration check    *)
(* and the token are dummies in the code; here they are what their comments *)
(* say, and may throw.  Logins write nothing that another one reads, so one *)
(* at a time is enough.                                                     *)
(***************************************************************************)
EXTENDS Naturals

CONSTANTS
  Password,    \* what a login is tried with
  Hash,        \* password_encrypted
  Accepts,     \* the pairs for which bcrypt::verify gives true
  Persons,     \* what the user may be
  MaxNow,      \* bound of the clock
  MaxChanges   \* bound on the changes of person and site

Now    == 1 .. MaxNow
\* A ban_expires of 0 is an empty optional.
Person == [password_encrypted : Hash, email_verified : BOOLEAN,
           banned : BOOLEAN, ban_expires : Now \cup {0}, deleted : BOOLEAN]

ASSUME LemmyAssumption ==
  /\ Accepts \subseteq Password \X Hash /\ Persons \subseteq Person
  /\ MaxNow \in Nat \ {0} /\ MaxChanges \in Nat

VARIABLES
  person,          \* the user as the database has it
  site,            \* site.require_email_verification
  now,             \* time(nullptr)
  changes,
  \* The login.
  pc,
  async,           \* perform_async
  task,            \* the task of std::async that get() waits for is there
  password,
  local_user_view, \* the copy
  seen             \* history: the moments since the login began

database == <<person, site, now, changes>>
vars     == <<database, pc, async, task, password, local_user_view, seen>>

Moment == [person |-> person, site |-> site, now |-> now]

TypeOK ==
  /\ person \in Person /\ site \in BOOLEAN /\ now \in Now /\ changes \in 0 .. MaxChanges
  /\ pc \in {"idle", "find", "check", "site", "application", "token"}
  /\ async \in BOOLEAN /\ task \in BOOLEAN
  /\ password \in Password /\ local_user_view \in Person
  /\ seen \subseteq [person : Person, site : BOOLEAN, now : Now]

Init ==
  /\ person \in Persons /\ site \in BOOLEAN /\ now = 1 /\ changes = 0
  /\ pc = "idle" /\ async = FALSE /\ task = FALSE
  /\ password \in Password /\ local_user_view = person
  /\ seen = {}

-----------------------------------------------------------------------------
Login ==
  /\ pc = "idle"
  /\ password' \in Password /\ async' \in BOOLEAN
  /\ pc' = "find" /\ task' = FALSE
  /\ seen' = {Moment}
  /\ UNCHANGED <<database, local_user_view>>

\* perform_async makes each call that goes to the database a task.
Launch ==
  /\ async /\ ~ task
  /\ pc \in {"find", "site", "application"}
  /\ task' = TRUE
  /\ UNCHANGED <<database, pc, async, password, local_user_view, seen>>

\* The call at one of those points, or the task of it; get() waits for its end.
Called(at) ==
  /\ pc = at
  /\ async => task
  /\ task' = FALSE
  /\ UNCHANGED <<database, async, password, seen>>

FindUser ==
  /\ Called("find")
  /\ local_user_view' = person
  /\ pc' = "check"

Banned(p) == p.banned \/ p.ban_expires > now

\* Mutants of CheckUser: the deleted are not refused; whose ban will end waits for it.
CheckUserNotDeleted ==
  /\ pc = "check"
  /\ pc' = IF <<password, local_user_view.password_encrypted>> \in Accepts
              /\ ~ Banned(local_user_view)
             THEN "site" ELSE "idle"
  /\ UNCHANGED <<database, async, task, password, local_user_view, seen>>
CheckUserWaits ==
  /\ pc = "check"
  /\ pc' = IF local_user_view.ban_expires > now THEN pc
           ELSE IF <<password, local_user_view.password_encrypted>> \in Accepts
              /\ ~ Banned(local_user_view) /\ ~ local_user_view.deleted
             THEN "site" ELSE "idle"
  /\ UNCHANGED <<database, async, task, password, local_user_view, seen>>

\* Password and validity, both of the copy; only the clock is read anew.
CheckUser ==
  /\ pc = "check"
  /\ pc' = IF /\ <<password, local_user_view.password_encrypted>> \in Accepts
              /\ ~ Banned(local_user_view) /\ ~ local_user_view.deleted
             THEN "site" ELSE "idle"
  /\ UNCHANGED <<database, async, task, password, local_user_view, seen>>

ReadLocalSite ==
  /\ Called("site")
  /\ pc' = IF site /\ ~ local_user_view.email_verified THEN "idle" ELSE "application"
  /\ UNCHANGED local_user_view

CheckRegistrationApplication ==
  /\ Called("application")
  /\ pc' = "token"
  /\ UNCHANGED local_user_view

\* The response leaves; or a call of the login throws, as std::async also does
\* where there is no thread for the task.
Respond ==
  /\ pc = "token"
  /\ pc' = "idle"
  /\ UNCHANGED <<database, async, task, password, local_user_view, seen>>
Throw ==
  /\ pc \in {"find", "site", "application"}
  /\ pc' = "idle" /\ task' = FALSE
  /\ UNCHANGED <<database, async, password, local_user_view, seen>>

\* Others: who changes the user or the site, and the clock.
Witnessed == seen' = IF pc = "idle" THEN {} ELSE seen \cup {Moment'}
Change ==
  /\ changes < MaxChanges
  /\ changes' = changes + 1
  /\ \/ person' \in Persons /\ UNCHANGED site
     \/ site' = ~ site /\ UNCHANGED person
  /\ UNCHANGED <<now, pc, async, task, password, local_user_view>>
  /\ Witnessed
Tick ==
  /\ now < MaxNow
  /\ now' = now + 1
  /\ UNCHANGED <<person, site, changes, pc, async, task, password, local_user_view>>
  /\ Witnessed

perform == \/ Launch \/ FindUser \/ CheckUser \/ ReadLocalSite
           \/ CheckRegistrationApplication \/ Respond
Next    == Login \/ perform \/ Throw \/ Change \/ Tick

Spec     == Init /\ [][Next]_vars
FairSpec == Spec /\ WF_vars(perform)

-----------------------------------------------------------------------------
\* Whoever gets a token was, at one moment of the login, a user with that
\* password, neither banned nor deleted; their ban, if it had a term, was over
\* at some moment of the login, and an address they had not verified was not
\* asked for at some moment of it.  The three moments need not be one: who is
\* banned while the login goes on may still get in, who was before may not.
TokensOfTheFit ==
  pc = "token" =>
    \E s, t, u \in seen :
      /\ <<password, s.person.password_encrypted>> \in Accepts
      /\ ~ s.person.banned /\ ~ s.person.deleted
      /\ s.person.ban_expires <= t.now
      /\ u.site => s.person.email_verified

\* As long as nobody touches the user, nobody who is banned, deleted or of
\* another password at the end of a login has got a token by it.
FitAtTheEnd ==
  pc = "token" /\ (\A s \in seen : s.person = person) =>
    /\ <<password, person.password_encrypted>> \in Accepts
    /\ ~ Banned(person) /\ ~ person.deleted

\* Each login ends, in both forms.
Ends == pc # "idle" ~> pc = "idle"
=============================================================================
