------------------------------ MODULE UserCron ------------------------------
(***************************************************************************)
(* The cron job of cpp/freedit, user_cron_job and clear_invalid: a thread   *)
(* that sleeps, walks the tree "user_stats" in the order of its keys, and   *)
(* removes each key whose leading number lies in the past.  The keys that   *)
(* update_stats computes start with the year, a number far in the past of   *)
(* the seconds since the epoch: Lead gives it as 0.                         *)
(***************************************************************************)
EXTENDS FreeditDB

VARIABLES
  cron,   \* "asleep", "walking", or "holding" a key
  cursor  \* the key the iterator has reached

sweeper == <<cron, cursor>>

CronTypeOK ==
  /\ cron \in {"asleep", "walking", "holding"}
  /\ cursor \in StatKeys \cup {0}

CronInit ==
  /\ cron = "asleep"
  /\ cursor = 0

\* Both sleeps of user_cron_job.
Wake ==
  /\ cron = "asleep"
  /\ cron' = "walking"
  /\ cursor' = 0
  /\ UNCHANGED db

Ahead == {k \in stats : k > cursor}

Advance ==
  /\ cron = "walking"
  /\ IF Ahead = {} THEN cron' = "asleep" /\ cursor' = 0
     ELSE /\ cron' = "holding"
          /\ \E k \in Ahead : (\A l \in Ahead : k <= l) /\ cursor' = k
  /\ UNCHANGED db

\* Mutant of Expired: the comparison the other way round.
ExpiredReversed(k) == Lead[k] # NoNumber /\ Lead[k] > now

\* The key in hand is still as the iterator returned it; the tree may have moved.
Expired(k) == Lead[k] # NoNumber /\ Lead[k] < now

\* Mutant of Judge: a key that is not a number is passed over.
JudgeSkips ==
  /\ cron = "holding"
  /\ stats' = IF Expired(cursor) THEN stats \ {cursor} ELSE stats
  /\ cron' = "walking"
  /\ UNCHANGED cursor
  /\ UNCHANGED <<counter, posts, tags, notifications, innPosts, userPosts,
                 innIndex, tan, drafts, lastWrites, now, wrapped>>

Judge ==
  /\ cron = "holding"
  /\ IF Lead[cursor] = NoNumber
       THEN cron' = "asleep" /\ cursor' = 0 /\ UNCHANGED stats
       ELSE /\ stats' = IF Expired(cursor) THEN stats \ {cursor} ELSE stats
            /\ cron' = "walking"
            /\ UNCHANGED cursor
  /\ UNCHANGED <<counter, posts, tags, notifications, innPosts, userPosts,
                 innIndex, tan, drafts, lastWrites, now, wrapped>>

Sweep == Wake \/ Advance \/ Judge
=============================================================================
