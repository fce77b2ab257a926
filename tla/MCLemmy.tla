------------------------------ MODULE MCLemmy ------------------------------
(***************************************************************************)
(* Two passwords and their hashes; a user as good as can be, and with each  *)
(* single thing wrong.                                                     *)
(***************************************************************************)
EXTENDS Lemmy

CONSTANTS old, new, hold, hnew

MCPassword == {old, new}
MCHash     == {hold, hnew}
MCAccepts  == {<<old, hold>>, <<new, hnew>>}

Good      == [password_encrypted |-> hold, email_verified |-> TRUE,
              banned |-> FALSE, ban_expires |-> 0, deleted |-> FALSE]
MCPersons == {Good, [Good EXCEPT !.password_encrypted = hnew], [Good EXCEPT !.email_verified = FALSE],
              [Good EXCEPT !.banned = TRUE], [Good EXCEPT !.ban_expires = 2],
              [Good EXCEPT !.ban_expires = 3], [Good EXCEPT !.deleted = TRUE]}
=============================================================================
