------------------------------ MODULE MCPlume ------------------------------
(* Users 1 and 2; of every kind there are the rows of both or of one of them. *)
EXTENDS Plume
CONSTANTS none
Either  == {{1, 2}, {1}, {2, 3}}
\* The post with the number of the connection is of user 2, or of nobody.
OfOther == {<<2, 1, 1>>, <<none, 2, 1>>}
=============================================================================
