----------------------------- MODULE PostStore -----------------------------
(***************************************************************************)
(* What a reader of cpp/freedit's store may rely on: posts are never taken  *)
(* away, and every row that names a post is put there after the post.  The  *)
(* lists of an inn and of a user and the announcements only grow; the row   *)
(* of a post in the index may be taken out and put back.                    *)
(***************************************************************************)
CONSTANTS Iids, Ids

VARIABLES stored, listed, owned, indexed, announced

vars == <<stored, listed, owned, indexed, announced>>

Rows(S) == {row \in Iids \X Ids : row[2] \in S}

Init ==
  /\ stored \subseteq Ids
  /\ listed \subseteq Rows(stored)
  /\ owned \subseteq stored
  /\ indexed \subseteq Rows(stored)
  /\ announced \subseteq stored

Publish ==
  /\ \E p \in Ids : stored' = stored \cup {p}
  /\ UNCHANGED <<listed, owned, indexed, announced>>

ListInInn ==
  /\ \E row \in Rows(stored) : listed' = listed \cup {row}
  /\ UNCHANGED <<stored, owned, indexed, announced>>

ListForUser ==
  /\ \E p \in stored : owned' = owned \cup {p}
  /\ UNCHANGED <<stored, listed, indexed, announced>>

Index ==
  /\ \E row \in Rows(stored) : indexed' \in {indexed \cup {row}, indexed \ {row}}
  /\ UNCHANGED <<stored, listed, owned, announced>>

Announce ==
  /\ \E p \in stored : announced' = announced \cup {p}
  /\ UNCHANGED <<stored, listed, owned, indexed>>

Next == Publish \/ ListInInn \/ ListForUser \/ Index \/ Announce

Spec == Init /\ [][Next]_vars
=============================================================================
