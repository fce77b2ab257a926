------------------------------- MODULE VecSeq -------------------------------
(***************************************************************************)
(* What a vector promises: a sequence that grows at its end by what is      *)
(* pushed and changes where it is assigned to.  A push may fail, and then   *)
(* changes nothing.                                                        *)
(***************************************************************************)
EXTENDS Naturals, Sequences

CONSTANT Value

VARIABLE items

Init == items = <<>>

Push   == \E x \in Value : items' = Append(items, x)
Assign == \E i \in DOMAIN items, x \in Value : items' = [items EXCEPT ![i] = x]

Next == Push \/ Assign

Spec == Init /\ [][Next]_items
=============================================================================
