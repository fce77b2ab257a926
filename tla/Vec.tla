-------------------------------- MODULE Vec --------------------------------
(***************************************************************************)
(* cpp/manual-vector: the class vec, a growing array written by hand, and   *)
(* its iterator.  The memory of a vec is the function from the offsets of   *)
(* its buffer to what they hold; push_back is taken apart into the steps of *)
(* ensure_cap and the write.  The element pushed is a temporary of the      *)
(* caller, as everywhere in main, never an element of the vec itself.       *)
(***************************************************************************)
EXTENDS Naturals, Sequences

CONSTANTS
  Value,    \* the values of T
  Garbage,  \* what memory holds before it is written
  U64,      \* the number of values of a uint64_t
  MaxLen    \* bound on the elements pushed

ASSUME VecAssumption ==
  /\ Garbage \notin Value
  /\ U64 \in Nat /\ U64 > 4
  /\ MaxLen \in Nat

VARIABLES
  cells,   \* the buffer at __start, by offset
  count,   \* __end - __start
  cap,
  \* The locals of push_back and of a range-for loop.
  pc,
  elem,    \* the element pushed
  new_cap,
  old,     \* the buffer at old_start
  p,       \* the iterator
  seen     \* what the loop has read

buffer == <<cells, count, cap>>
vars   == <<buffer, pc, elem, new_cap, old, p, seen>>

\* What new T[n] hands out, and no memory at all.
Raw(n) == [i \in 0 .. n - 1 |-> Garbage]
target == count + 1

Elements == IF pc = "copy" THEN old ELSE cells
items    == [i \in 1 .. count |-> Elements[i - 1]]

Init ==
  /\ cells = Raw(0) /\ count = 0 /\ cap = 0
  /\ pc = "idle"
  /\ elem = Garbage /\ new_cap = 0 /\ old = Raw(0)
  /\ p = 0 /\ seen = <<>>

-----------------------------------------------------------------------------
\* Mutant of Roomy: off by one.
RoomyByOne(n) == n + 1 >= target

\* The condition of ensure_cap and of its loop: target elements fit n places.
Roomy(n) == n >= target

\* Mutant of PushBack: the capacity 0 is doubled like any other.
PushBackZero ==
  /\ pc = "idle"
  /\ count < MaxLen
  /\ elem' \in Value
  /\ IF Roomy(cap) THEN pc' = "write" /\ UNCHANGED new_cap
     ELSE pc' = "double" /\ new_cap' = (cap * 2) % U64
  /\ UNCHANGED <<buffer, old, p, seen>>

\* push_back(x), up to the loop of ensure_cap.
PushBack ==
  /\ pc = "idle"
  /\ count < MaxLen
  /\ elem' \in Value
  /\ IF Roomy(cap) THEN pc' = "write" /\ UNCHANGED new_cap
     ELSE /\ pc' = "double"
          /\ new_cap' = IF (cap * 2) % U64 = 0 THEN 4 ELSE (cap * 2) % U64
  /\ UNCHANGED <<buffer, old, p, seen>>

Double ==
  /\ pc = "double"
  /\ ~ Roomy(new_cap)
  /\ new_cap' = (new_cap * 2) % U64
  /\ UNCHANGED <<buffer, pc, elem, old, p, seen>>

\* new T[new_cap]: the new buffer, or std::bad_alloc before anything is changed.
Allocate ==
  /\ pc = "double"
  /\ Roomy(new_cap)
  /\ \/ /\ cells' = Raw(new_cap)
        /\ old' = cells
        /\ pc' = "copy"
     \/ /\ pc' = "idle"
        /\ UNCHANGED <<cells, old>>
  /\ UNCHANGED <<count, cap, elem, new_cap, p, seen>>

\* Mutant of Copy: sizeof(T) is forgotten and only part is copied.
CopyPart ==
  /\ pc = "copy"
  /\ cells' = [i \in DOMAIN cells |-> IF i < cap \div 2 THEN old[i] ELSE cells[i]]
  /\ old' = Raw(0)
  /\ cap' = new_cap
  /\ pc' = "write"
  /\ UNCHANGED <<count, elem, new_cap, p, seen>>

\* memcpy of the whole old buffer, and free.
Copy ==
  /\ pc = "copy"
  /\ cells' = [i \in DOMAIN cells |-> IF i < cap THEN old[i] ELSE cells[i]]
  /\ old' = Raw(0)
  /\ cap' = new_cap
  /\ pc' = "write"
  /\ UNCHANGED <<count, elem, new_cap, p, seen>>

Write ==
  /\ pc = "write"
  /\ cells' = [cells EXCEPT ![count] = elem]
  /\ count' = count + 1
  /\ pc' = "idle"
  /\ UNCHANGED <<cap, elem, new_cap, old, p, seen>>

\* v[n] = x, for an element of the vec.  Elsewhere in the buffer it would write
\* what no loop sees, outside of it what is not the vec's.
Assign ==
  /\ pc = "idle"
  /\ \E n \in 0 .. count - 1, x \in Value : cells' = [cells EXCEPT ![n] = x]
  /\ UNCHANGED <<count, cap, pc, elem, new_cap, old, p, seen>>

\* for (auto elem : v): begin, !=, * and ++ of vec_iter.
Begin ==
  /\ pc = "idle"
  /\ p' = 0 /\ seen' = <<>>
  /\ pc' = "loop"
  /\ UNCHANGED <<buffer, elem, new_cap, old>>

\* Mutant of Visit: the iterator is advanced before it is read.
VisitNext ==
  /\ pc = "loop"
  /\ p # count
  /\ seen' = Append(seen, cells[p + 1])
  /\ p' = p + 1
  /\ UNCHANGED <<buffer, pc, elem, new_cap, old>>

Visit ==
  /\ pc = "loop"
  /\ p # count
  /\ seen' = Append(seen, cells[p])
  /\ p' = p + 1
  /\ UNCHANGED <<buffer, pc, elem, new_cap, old>>

End ==
  /\ pc = "loop"
  /\ p = count
  /\ pc' = "idle"
  /\ p' = 0 /\ seen' = <<>>
  /\ UNCHANGED <<buffer, elem, new_cap, old>>

Grow == Double \/ Allocate \/ Copy \/ Write
Loop == Visit \/ End

Next == PushBack \/ Grow \/ Assign \/ Begin \/ Loop

Spec     == Init /\ [][Next]_vars
FairSpec == Spec /\ WF_vars(Grow) /\ WF_vars(Loop)

-----------------------------------------------------------------------------
\* The buffers have the sizes the class believes they have, and the elements
\* have been written.
TypeOK ==
  /\ count \in Nat /\ cap \in 0 .. U64 - 1 /\ new_cap \in 0 .. U64 - 1
  /\ pc \in {"idle", "double", "copy", "write", "loop"}
  /\ elem \in Value \cup {Garbage}
  /\ cells \in [0 .. (IF pc = "copy" THEN new_cap ELSE cap) - 1 -> Value \cup {Garbage}]
  /\ old \in [0 .. (IF pc = "copy" THEN cap ELSE 0) - 1 -> Value \cup {Garbage}]
  /\ p \in Nat /\ seen \in Seq(Value \cup {Garbage})

\* push_back, memcpy and the iterator stay inside the buffers: an element is
\* written to a place that is there, the new buffer holds the old one, and the
\* loop reads only elements.
InBounds ==
  /\ count <= cap
  /\ pc = "write" => count < cap
  /\ pc = "copy" => cap <= new_cap /\ count < new_cap
  /\ p <= count

\* No element is ever memory that was not written.
ElementsWritten == \A i \in 1 .. count : items[i] \in Value

\* A loop reads the elements in order, each of them once.
LoopSeesItems == pc = "loop" => seen = SubSeq(items, 1, p)

\* Growing is invisible: vec is a VecSeq, a failed allocation changes nothing.
Abstract == INSTANCE VecSeq
ImplementsVecSeq == Abstract!Spec

\* A push_back ends as long as the vec is smaller than half the numbers of
\* uint64_t; past that new_cap would be doubled to 0 for ever.
PushEnds == pc # "idle" /\ target <= U64 \div 2 ~> pc = "idle"
=============================================================================
