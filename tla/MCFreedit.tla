----------------------------- MODULE MCFreedit -----------------------------
(***************************************************************************)
(* Small databases and requests for module Freedit.                        *)
(***************************************************************************)
EXTENDS Freedit, TLC

CONSTANTS g1, NaN, None

\* Two users, one inn of theirs; an administrator, whose session ends at time 1,
\* a banned user, one who wrote just now, and one who may not post.
MCSessions ==
  [s1 |-> [uid |-> 1, role |-> 1, expires |-> 9, last_write |-> 0],
   s2 |-> [uid |-> 2, role |-> 0, expires |-> 1, last_write |-> 0],
   s3 |-> [uid |-> 2, role |-> 3, expires |-> 9, last_write |-> 0],
   s4 |-> [uid |-> 1, role |-> 1, expires |-> 9, last_write |-> 9],
   s5 |-> [uid |-> 3, role |-> 1, expires |-> 9, last_write |-> 0]]
MCUsers   == {1, 2}
MCPosters == {<<1, 1>>, <<1, 2>>}
MCGarbage == {g1}

\* Post 1 of user 1 in inn 1.
MCImported == 1 :> [uid |-> 1, iid |-> 1, normal |-> TRUE]
MCCount    == [c \in Counters |-> IF c = "posts_count" THEN 1 ELSE 0]
LateCount  == [c \in Counters |-> IF c = "posts_count" THEN 2 ELSE 0]
ShortCount == [c \in Counters |-> IF c = "posts_count" THEN Short ELSE 0]
\* The same post, of the administrator.
OfAdmin    == 1 :> [uid |-> 2, iid |-> 1, normal |-> TRUE]

\* Keys 1 .. U32-1 sort before every date.  The year that starts a date is 0
\* seconds after the epoch.  Or one key from between the dates is no number.
MCStatKeys == 1 .. 3 + U32 * (MaxNow + 1)
MCLead     == [k \in MCStatKeys |-> IF k < U32 THEN k ELSE 0]
Poisoned   == [MCLead EXCEPT ![2 * U32] = NaN]

Ask(s, p) == [cookie |-> s, form |-> "publish", old_pid |-> p, iid |-> 1,
              tags |-> {1}, mentions |-> <<>>]
At2(n)    == [type |-> "id", n |-> n]
Named     == [type |-> "name", n |-> 0]
Huge      == [type |-> "huge", n |-> 0]

\* A new post, and the edit of post 1 by its author and by another user.
EditRequests == {Ask("s1", 0), Ask("s1", 1), Ask("s2", 1)}
\* To a site that is read only: the administrator's new post, an edit that names
\* a user, and a draft; an edit by a user.
AdminRequests == {Ask("s2", 0), [Ask("s2", 1) EXCEPT !.mentions = <<Named>>],
                  [Ask("s2", 1) EXCEPT !.form = "save_draft"], Ask("s1", 1)}

\* Every kind of form, session and mention.
SessionRequests ==
  {Ask(s, 0) : s \in {"s2", "s3", "s4", "s5", None}}
MentionRequests ==
  {[Ask("s1", 0) EXCEPT !.mentions = ms, !.tags = {1, 2}] :
     ms \in {<<At2(2), At2(U32 + 2)>>, <<At2(1), Named>>, <<At2(0)>>, <<Huge>>}}
DraftRequests == {[Ask("s1", 0) EXCEPT !.form = f] : f \in {"save_draft", "delete_draft"}}
AllRequests == SessionRequests \cup DraftRequests \cup MentionRequests
=============================================================================
