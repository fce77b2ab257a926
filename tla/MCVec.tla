------------------------------- MODULE MCVec -------------------------------
(* A vec of two values, with integers so narrow that its capacity wraps. *)
EXTENDS Vec
CONSTANTS a, b, garbage
MCValue == {a, b}
=============================================================================
