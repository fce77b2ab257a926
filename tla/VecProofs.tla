----------------------------- MODULE VecProofs -----------------------------
(***************************************************************************)
(* Vec stays inside its buffers and is a VecSeq, for every type of elements *)
(* and every width of the capacity.                                         *)
(***************************************************************************)
EXTENDS Vec, SequenceTheorems, TLAPS

\* While the vec grows its buffer is full, and the element is at hand.
Growing ==
  /\ pc \in {"double", "copy"} => ~ Roomy(cap)
  /\ pc \in {"double", "copy", "write"} => elem \in Value

VecInv == TypeOK /\ InBounds /\ ElementsWritten /\ Growing

\* Arithmetic of uint64_t stays in its range.
LEMMA Wraps == ASSUME NEW n \in Nat PROVE n % U64 \in 0 .. U64 - 1
<1>1. U64 \in Nat /\ U64 > 0
  BY VecAssumption
<1> QED
  BY <1>1

\* The elements by the buffer they are in.
LEMMA ItemsIn ==
  ASSUME NEW i \in 1 .. count
  PROVE  items[i] = Elements[i - 1]
BY DEF items

LEMMA VecInit == Init => VecInv
<1> SUFFICES ASSUME Init PROVE VecInv
  OBVIOUS
<1>1. TypeOK
  <2>1. U64 \in Nat /\ U64 > 4
    BY VecAssumption
  <2>2. seen \in Seq(Value \cup {Garbage})
    BY DEF Init
  <2>3. cells \in [0 .. 0 - 1 -> Value \cup {Garbage}] /\ old = cells
    BY DEF Init, Raw
  <2> QED
    BY <2>1, <2>2, <2>3 DEF Init, TypeOK
<1>2. InBounds /\ ElementsWritten /\ Growing
  BY DEF Init, InBounds, ElementsWritten, Growing
<1> QED
  BY <1>1, <1>2 DEF VecInv

LEMMA VecType == VecInv /\ [Next]_vars => TypeOK'
<1> SUFFICES ASSUME VecInv, [Next]_vars PROVE TypeOK'
  OBVIOUS
<1> USE VecAssumption DEF VecInv, TypeOK
<1>1. CASE PushBack
  <2>0. cap * 2 \in Nat
    OBVIOUS
  <2>1. (cap * 2) % U64 \in 0 .. U64 - 1
    BY ONLY <2>0, Wraps
  <2> QED
    BY <1>1, <2>1 DEF PushBack, buffer
<1>2. CASE Double
  <2>0. new_cap * 2 \in Nat
    OBVIOUS
  <2>1. (new_cap * 2) % U64 \in 0 .. U64 - 1
    BY ONLY <2>0, Wraps
  <2> QED
    BY <1>2, <2>1 DEF Double, buffer
<1>3. CASE Allocate
  BY <1>3 DEF Allocate, Raw
<1>4. CASE Copy
  <2>1. \A i \in 0 .. new_cap - 1 : i < cap => i \in 0 .. cap - 1
    OBVIOUS
  <2>2. cells' \in [0 .. new_cap - 1 -> Value \cup {Garbage}]
    BY <1>4, <2>1 DEF Copy
  <2>3. old' \in [0 .. 0 - 1 -> Value \cup {Garbage}]
    BY <1>4 DEF Copy, Raw
  <2> QED
    BY <1>4, <2>2, <2>3 DEF Copy
<1>5. CASE Write
  <2>1. pc = "write" /\ elem \in Value
    BY <1>5 DEF Write, Growing
  <2>2. cells' \in [0 .. cap - 1 -> Value \cup {Garbage}]
    BY <1>5, <2>1 DEF Write
  <2> QED
    BY <1>5, <2>1, <2>2 DEF Write
<1>6. CASE Assign
  BY <1>6 DEF Assign
<1>7. CASE Begin
  BY <1>7 DEF Begin, buffer
<1>8. CASE Visit
  <2>1. cells[p] \in Value \cup {Garbage}
    BY <1>8 DEF Visit, InBounds
  <2> QED
    BY <1>8, <2>1 DEF Visit, buffer
<1>9. CASE End
  BY <1>9 DEF End, buffer
<1>10. CASE UNCHANGED vars
  BY <1>10 DEF vars, buffer
<1> QED
  BY <1>1, <1>2, <1>3, <1>4, <1>5, <1>6, <1>7, <1>8, <1>9, <1>10 DEF Next, Grow, Loop

LEMMA VecBounds == VecInv /\ [Next]_vars => InBounds' /\ Growing'
<1> SUFFICES ASSUME VecInv, [Next]_vars PROVE InBounds' /\ Growing'
  OBVIOUS
<1> USE VecAssumption DEF VecInv, TypeOK, InBounds, Growing, Roomy, target
<1>1. CASE PushBack
  BY <1>1 DEF PushBack, buffer
<1>2. CASE Double
  BY <1>2 DEF Double, buffer
<1>3. CASE Allocate
  BY <1>3 DEF Allocate
<1>4. CASE Copy
  BY <1>4 DEF Copy
<1>5. CASE Write
  BY <1>5 DEF Write
<1>6. CASE Assign
  BY <1>6 DEF Assign
<1>7. CASE Begin
  BY <1>7 DEF Begin, buffer
<1>8. CASE Loop
  BY <1>8 DEF Loop, Visit, End, buffer
<1>9. CASE UNCHANGED vars
  BY <1>9 DEF vars, buffer
<1> QED
  BY <1>1, <1>2, <1>3, <1>4, <1>5, <1>6, <1>7, <1>8, <1>9 DEF Next, Grow

\* Append as a function of the places.
LEMMA AppendIs ==
  ASSUME NEW S, NEW s \in Seq(S), NEW x \in S
  PROVE  Append(s, x) = [i \in 1 .. Len(s) + 1 |-> IF i = Len(s) + 1 THEN x ELSE s[i]]
<1>1. /\ Append(s, x) \in Seq(S)
      /\ Len(Append(s, x)) = Len(s) + 1
      /\ \A i \in 1 .. Len(s) : Append(s, x)[i] = s[i]
      /\ Append(s, x)[Len(s) + 1] = x
  BY AppendProperties
<1>2. Append(s, x) \in [1 .. Len(s) + 1 -> S] /\ Len(s) \in Nat
  BY <1>1, LenProperties
<1>3. \A i \in 1 .. Len(s) + 1 : i = Len(s) + 1 \/ i \in 1 .. Len(s)
  BY <1>2
<1>4. \A i \in 1 .. Len(s) + 1 : Append(s, x)[i] = IF i = Len(s) + 1 THEN x ELSE s[i]
  BY <1>1, <1>3
<1>5. Append(s, x) = [i \in 1 .. Len(s) + 1 |-> Append(s, x)[i]]
  BY <1>2
<1> QED
  BY <1>4, <1>5

\* A vec that no action writes into keeps its elements.
LEMMA SameItems ==
  ASSUME count' = count, \A i \in 0 .. count - 1 : Elements'[i] = Elements[i], count \in Nat
  PROVE  items' = items
<1>1. \A i \in 1 .. count : i - 1 \in 0 .. count - 1
  OBVIOUS
<1> QED
  BY <1>1 DEF items

\* The steps seen as steps of a sequence.
LEMMA ItemsStep ==
  VecInv /\ [Next]_vars =>
    \/ items' = Append(items, elem) /\ elem \in Value
    \/ \E i \in DOMAIN items, x \in Value : items' = [items EXCEPT ![i] = x]
    \/ items' = items
<1> SUFFICES ASSUME VecInv, [Next]_vars
             PROVE  \/ items' = Append(items, elem) /\ elem \in Value
                    \/ \E i \in DOMAIN items, x \in Value : items' = [items EXCEPT ![i] = x]
                    \/ items' = items
  OBVIOUS
<1>0. count \in Nat /\ cap \in Nat /\ new_cap \in Nat /\ count <= cap
  BY VecAssumption DEF VecInv, TypeOK, InBounds
<1>1. CASE Write
  <2>1. elem \in Value /\ count < cap /\ pc = "write"
    BY <1>1 DEF Write, VecInv, Growing, InBounds
  <2>2. cells \in [0 .. cap - 1 -> Value \cup {Garbage}]
    BY <2>1 DEF VecInv, TypeOK
  <2>3. Elements = cells /\ Elements' = [cells EXCEPT ![count] = elem]
    BY <1>1 DEF Write, Elements
  <2>4. items' = [i \in 1 .. count + 1 |-> Elements'[i - 1]]
    BY <1>1 DEF Write, items
  <2>5. \A i \in 1 .. count + 1 : Elements'[i - 1] = IF i = count + 1 THEN elem ELSE items[i]
    <3> TAKE i \in 1 .. count + 1
    <3>1. CASE i = count + 1
      BY <3>1, <2>1, <2>2, <2>3, <1>0
    <3>2. CASE i # count + 1
      <4>1. i \in 1 .. count /\ i - 1 # count /\ i - 1 \in 0 .. cap - 1
        BY <3>2, <1>0
      <4> QED
        BY <4>1, <2>2, <2>3, ItemsIn, <3>2
    <3> QED
      BY <3>1, <3>2
  <2>6. items' = [i \in 1 .. count + 1 |-> IF i = count + 1 THEN elem ELSE items[i]]
    BY <2>4, <2>5
  <2>7. items \in Seq(Value \cup {Garbage}) /\ Len(items) = count
    <3>1. \A i \in 1 .. count : items[i] \in Value \cup {Garbage}
      BY <1>0 DEF VecInv, ElementsWritten
    <3>2. items \in [1 .. count -> Value \cup {Garbage}]
      BY <3>1 DEF items
    <3> QED
      BY <3>2, <1>0
  <2>8. items' = Append(items, elem)
    BY <1>0, <2>1, <2>6, <2>7, AppendIs
  <2> QED
    BY <2>8, <2>1
<1>2. CASE Assign
  <2>1. PICK n \in 0 .. count - 1, x \in Value : cells' = [cells EXCEPT ![n] = x]
    BY <1>2 DEF Assign
  <2>2. pc = "idle" /\ pc' = "idle" /\ count' = count
    BY <1>2 DEF Assign
  <2>3. cells \in [0 .. cap - 1 -> Value \cup {Garbage}]
    BY <2>2 DEF VecInv, TypeOK
  <2>4. Elements = cells /\ Elements' = [cells EXCEPT ![n] = x]
    BY <2>1, <2>2 DEF Elements
  <2>5. n + 1 \in 1 .. count /\ DOMAIN items = 1 .. count
    BY <1>0 DEF items
  <2>6. items' = [i \in 1 .. count |-> Elements'[i - 1]]
    BY <2>2 DEF items
  <2>7. \A i \in 1 .. count : Elements'[i - 1] = IF i = n + 1 THEN x ELSE items[i]
    <3> TAKE i \in 1 .. count
    <3>1. i - 1 \in 0 .. cap - 1 /\ (i = n + 1 <=> i - 1 = n)
      BY <1>0
    <3> QED
      BY <3>1, <2>3, <2>4, ItemsIn
  <2>8. items' = [items EXCEPT ![n + 1] = x]
    BY <2>5, <2>6, <2>7 DEF items
  <2> QED
    BY <2>5, <2>8
<1>3. CASE Copy
  <2>1. pc = "copy" /\ pc' = "write" /\ count' = count /\ Elements = old /\ Elements' = cells'
    BY <1>3 DEF Copy, Elements
  <2>2. DOMAIN cells = 0 .. new_cap - 1 /\ cap <= new_cap
    BY <2>1 DEF VecInv, TypeOK, InBounds
  <2>3. \A i \in 0 .. count - 1 : i < cap /\ i \in DOMAIN cells
    BY <1>0, <2>2
  <2>4. \A i \in 0 .. count - 1 : cells'[i] = old[i]
    BY <1>3, <2>3 DEF Copy
  <2> QED
    BY <2>1, <2>4, <1>0, SameItems
<1>4. CASE Allocate
  BY <1>4, <1>0, SameItems DEF Allocate, Elements
<1>5. CASE PushBack \/ Double \/ Begin \/ Loop \/ UNCHANGED vars
  <2>1. count' = count /\ Elements' = Elements
    BY <1>5 DEF PushBack, Double, Begin, Loop, Visit, End, vars, buffer, Elements
  <2> QED
    BY <2>1, <1>0, SameItems
<1> QED
  BY <1>1, <1>2, <1>3, <1>4, <1>5 DEF Next, Grow

LEMMA VecStep == VecInv /\ [Next]_vars => VecInv'
<1> SUFFICES ASSUME VecInv, [Next]_vars PROVE VecInv'
  OBVIOUS
<1>1. TypeOK' /\ InBounds' /\ Growing'
  BY VecType, VecBounds
<1>2. count \in Nat /\ count' \in Nat /\ DOMAIN items = 1 .. count /\ DOMAIN items' = 1 .. count'
  BY <1>1 DEF VecInv, TypeOK, items
<1>3. items \in [1 .. count -> Value]
  BY DEF items, VecInv, ElementsWritten
<1>4. \A i \in DOMAIN items' : items'[i] \in Value
  <2>1. CASE items' = Append(items, elem) /\ elem \in Value
    <3>1. items \in Seq(Value)
      BY <1>2, <1>3
    <3>2. Append(items, elem) \in Seq(Value)
      BY <3>1, <2>1
    <3> QED
      BY <3>2, <2>1
  <2>2. CASE \E i \in DOMAIN items, x \in Value : items' = [items EXCEPT ![i] = x]
    BY <2>2, <1>2, <1>3
  <2>3. CASE items' = items
    BY <2>3, <1>2, <1>3
  <2> QED
    BY <2>1, <2>2, <2>3, ItemsStep
<1>5. ElementsWritten'
  BY <1>2, <1>4 DEF ElementsWritten
<1> QED
  BY <1>1, <1>5 DEF VecInv

LEMMA VecAlways == Spec => []VecInv
BY VecInit, VecStep, PTL DEF Spec

\* The buffers are used within their bounds, in whatever order vectors are
\* pushed to, grown, assigned and read (ensure_cap, push_back, vec_iter).
THEOREM StaysInBounds == Spec => []InBounds
<1>1. VecInv => InBounds
  BY DEF VecInv
<1> QED
  BY <1>1, VecAlways, PTL

\* No element is memory that was never written, growth included.
THEOREM NeverReadsGarbage == Spec => []ElementsWritten
<1>1. VecInv => ElementsWritten
  BY DEF VecInv
<1> QED
  BY <1>1, VecAlways, PTL

\* vec is a sequence: growing, and failing to grow, cannot be seen.
THEOREM VecIsASequence == Spec => ImplementsVecSeq
<1>1. Init => Abstract!Init
  BY DEF Init, Abstract!Init, items
<1>2. VecInv /\ [Next]_vars => [Abstract!Next]_items
  <2> SUFFICES ASSUME VecInv, [Next]_vars PROVE [Abstract!Next]_items
    OBVIOUS
  <2>1. CASE items' = Append(items, elem) /\ elem \in Value
    BY <2>1 DEF Abstract!Next, Abstract!Push
  <2>2. CASE \E i \in DOMAIN items, x \in Value : items' = [items EXCEPT ![i] = x]
    BY <2>2 DEF Abstract!Next, Abstract!Assign
  <2> QED
    BY <2>1, <2>2, ItemsStep
<1> QED
  BY <1>1, <1>2, VecAlways, PTL DEF Spec, ImplementsVecSeq, Abstract!Spec

-----------------------------------------------------------------------------
\* The elements before the iterator, as the loop has them.
LoopInv ==
  /\ pc = "loop" => seen = [i \in 1 .. p |-> items[i]]
  /\ LoopSeesItems

\* A prefix as a function of the places.
LEMMA PrefixIs ==
  ASSUME NEW S, NEW s \in Seq(S), NEW n \in 0 .. Len(s)
  PROVE  SubSeq(s, 1, n) = [i \in 1 .. n |-> s[i]]
<1>1. Len(s) \in Nat
  BY LenProperties
<1>2. SubSeq(s, 1, n) \in Seq(S) /\ Len(SubSeq(s, 1, n)) = n
  BY <1>1
<1>3. \A i \in 1 .. n : SubSeq(s, 1, n)[i] = s[i]
  BY <1>1
<1>4. SubSeq(s, 1, n) = [i \in 1 .. n |-> SubSeq(s, 1, n)[i]]
  BY <1>2, LenProperties
<1> QED
  BY <1>3, <1>4

\* The elements are a sequence, now and after the step.
SeqOfValues == items \in Seq(Value) /\ Len(items) = count

LEMMA ItemsType == VecInv => SeqOfValues
<1> SUFFICES ASSUME VecInv PROVE SeqOfValues
  OBVIOUS
<1>1. items \in [1 .. count -> Value] /\ count \in Nat
  BY DEF VecInv, ElementsWritten, items, TypeOK
<1> QED
  BY <1>1 DEF SeqOfValues

LEMMA ItemsTypeNext == VecInv' => SeqOfValues'
BY ItemsType, PTL

LEMMA VisitStep ==
  ASSUME VecInv, LoopInv, Visit
  PROVE  seen' = [i \in 1 .. p' |-> items'[i]]
<1>1. pc = "loop" /\ p # count /\ seen' = Append(seen, cells[p]) /\ p' = p + 1
  BY DEF Visit
<1>2. items' = items
  BY DEF Visit, items, Elements, buffer
<1>3. p \in Nat /\ count \in Nat /\ p < count
  BY <1>1 DEF VecInv, TypeOK, InBounds
<1>4. p + 1 \in 1 .. count /\ cells[p] = items[p + 1]
  BY <1>1, <1>3 DEF items, Elements
<1>5. items \in Seq(Value) /\ Len(items) = count /\ \A i \in 1 .. count : items[i] \in Value
  BY ItemsType DEF VecInv, ElementsWritten, SeqOfValues
<1>6. seen = [i \in 1 .. p |-> items[i]]
  BY <1>1 DEF LoopInv
<1>7. seen \in [1 .. p -> Value]
  <2>1. \A i \in 1 .. p : i \in 1 .. count
    BY <1>3
  <2> QED
    BY <2>1, <1>5, <1>6
<1>8. seen \in Seq(Value) /\ Len(seen) = p
  BY <1>3, <1>7
<1>9. seen' = [i \in 1 .. p + 1 |-> IF i = p + 1 THEN items[p + 1] ELSE seen[i]]
  BY <1>1, <1>4, <1>5, <1>8, AppendIs
<1>10. \A i \in 1 .. p + 1 : (IF i = p + 1 THEN items[p + 1] ELSE seen[i]) = items[i]
  BY <1>3, <1>6
<1> QED
  BY <1>1, <1>2, <1>9, <1>10

LEMMA LoopStep == VecInv /\ LoopInv /\ VecInv' /\ [Next]_vars => LoopInv'
<1> SUFFICES ASSUME VecInv, LoopInv, VecInv', [Next]_vars PROVE LoopInv'
  OBVIOUS
<1>1. pc' = "loop" => seen' = [i \in 1 .. p' |-> items'[i]]
  <2> SUFFICES ASSUME pc' = "loop" PROVE seen' = [i \in 1 .. p' |-> items'[i]]
    OBVIOUS
  <2>1. CASE Begin
    BY <2>1 DEF Begin
  <2>2. CASE Visit
    BY <2>2, VisitStep
  <2>3. CASE UNCHANGED vars
    BY <2>3 DEF vars, buffer, LoopInv, items, Elements
  <2> QED
    BY <2>1, <2>2, <2>3 DEF Next, Grow, Loop, PushBack, Double, Allocate, Copy, Write, Assign, End
<1>2. LoopSeesItems'
  <2> SUFFICES ASSUME pc' = "loop" PROVE seen' = SubSeq(items', 1, p')
    BY DEF LoopSeesItems
  <2>1. items' \in Seq(Value) /\ Len(items') = count'
    BY ItemsTypeNext DEF SeqOfValues
  <2>2. p' \in 0 .. Len(items')
    BY <2>1 DEF VecInv, TypeOK, InBounds
  <2> QED
    BY <1>1, <2>1, <2>2, PrefixIs
<1> QED
  BY <1>1, <1>2 DEF LoopInv

\* A range-for loop reads the elements in their order, each of them once
\* (vec_iter, begin and end).
THEOREM LoopReadsInOrder == Spec => []LoopSeesItems
<1>1. Init => LoopInv
  BY DEF Init, LoopInv, LoopSeesItems
<1>2. LoopInv => LoopSeesItems
  BY DEF LoopInv
<1> QED
  BY <1>1, <1>2, LoopStep, VecAlways, PTL DEF Spec

-----------------------------------------------------------------------------
\* A vec whose next element is within half the numbers of uint64_t, as PushEnds
\* asks; then doubling does not wrap.
Small == target <= U64 \div 2

\* What is left of an operation that has begun: the elements that the capacity
\* lacks and the three steps behind the loop, or the elements not yet read.
Remaining ==
  CASE pc = "double" -> 3 + (IF Roomy(new_cap) THEN 0 ELSE target - new_cap)
    [] pc = "copy"   -> 2
    [] pc = "write"  -> 1
    [] pc = "loop"   -> count - p + 1
    [] pc = "idle"   -> 0

DoubleInv == pc = "double" /\ Small => new_cap > 0

\* A capacity below the target of a small vec can be doubled.
LEMMA NoWrap ==
  ASSUME NEW n \in Nat, Small, count \in Nat, n < target
  PROVE  (n * 2) % U64 = n * 2
<1>1. n * 2 \in 0 .. U64 - 1 /\ U64 \in Nat /\ U64 > 0
  BY VecAssumption DEF Small, target
<1> QED
  BY <1>1

LEMMA DoubleStep == VecInv /\ DoubleInv /\ [Next]_vars => DoubleInv'
<1> SUFFICES ASSUME VecInv, DoubleInv, [Next]_vars, pc' = "double", Small'
             PROVE  new_cap' > 0
  BY DEF DoubleInv
<1>1. count \in Nat /\ cap \in Nat /\ new_cap \in Nat
  BY VecAssumption DEF VecInv, TypeOK
<1>2. CASE PushBack
  <2>1. Small /\ cap < target /\ new_cap' = IF (cap * 2) % U64 = 0 THEN 4 ELSE (cap * 2) % U64
    BY <1>1, <1>2 DEF PushBack, Small, target, Roomy, buffer
  <2>2. (cap * 2) % U64 = cap * 2
    BY <1>1, <2>1, NoWrap
  <2> QED
    BY <1>1, <2>1, <2>2
<1>3. CASE Double
  <2>1. Small /\ new_cap < target /\ new_cap' = (new_cap * 2) % U64 /\ new_cap > 0
    BY <1>1, <1>3 DEF Double, Small, target, Roomy, buffer, DoubleInv
  <2>2. (new_cap * 2) % U64 = new_cap * 2
    BY <1>1, <2>1, NoWrap
  <2> QED
    BY <1>1, <2>1, <2>2
<1>4. CASE UNCHANGED vars
  BY <1>4 DEF vars, buffer, DoubleInv, Small, target
<1> QED
  BY <1>2, <1>3, <1>4 DEF Next, Grow, Loop, Allocate, Copy, Write, Assign, Begin, Visit, End

\* As long as the vec is small, each step of a push or of a loop leaves less to
\* do: new_cap does not wrap and only grows until the target fits (line 57).
THEOREM PushesGetDone ==
  Spec => /\ [](Remaining \in Nat)
          /\ [][Small => /\ Grow \/ Loop => Remaining' < Remaining
                         /\ Remaining' > Remaining => PushBack \/ Begin]_vars
<1> DEFINE Less == Small => /\ Grow \/ Loop => Remaining' < Remaining
                            /\ Remaining' > Remaining => PushBack \/ Begin
<1>1. VecInv => Remaining \in Nat /\ (pc # "idle" => Remaining > 0)
  BY VecAssumption DEF VecInv, TypeOK, InBounds, Remaining, Roomy, target
<1>2. VecInv /\ DoubleInv /\ VecInv' /\ [Next]_vars => [Less]_vars
  <2> SUFFICES ASSUME VecInv, VecInv', DoubleInv, Next, Small
               PROVE  /\ Grow \/ Loop => Remaining' < Remaining
                      /\ Remaining' > Remaining => PushBack \/ Begin
    OBVIOUS
  <2>1. count \in Nat /\ cap \in Nat /\ new_cap \in Nat /\ p \in Nat /\ Remaining \in Nat
    BY <1>1, VecAssumption DEF VecInv, TypeOK
  <2>2. ASSUME Double PROVE Remaining' < Remaining
    <3>1. /\ pc = "double" /\ pc' = "double" /\ count' = count
          /\ new_cap < target /\ new_cap > 0 /\ new_cap' = (new_cap * 2) % U64
      BY <2>1, <2>2 DEF Double, DoubleInv, Roomy, buffer, target
    <3>2. new_cap' = new_cap * 2
      BY <2>1, <3>1, NoWrap
    <3>3. Remaining = 3 + (target - new_cap)
      BY <2>1, <3>1 DEF Remaining, Roomy, target
    <3>4. Remaining' = 3 + (IF new_cap' >= target THEN 0 ELSE target - new_cap')
      BY <3>1 DEF Remaining, Roomy, target
    <3> QED
      BY <2>1, <3>1, <3>2, <3>3, <3>4 DEF target
  <2>3. ASSUME Allocate \/ Copy \/ Write PROVE Remaining' < Remaining
    BY <2>1, <2>3 DEF Allocate, Copy, Write, Remaining, Roomy, target
  <2>4. ASSUME Loop PROVE Remaining' < Remaining
    BY <2>1, <2>4 DEF Loop, Visit, End, Remaining, buffer, VecInv, InBounds
  <2>5. ASSUME Assign PROVE Remaining' = Remaining
    BY <2>5 DEF Assign, Remaining
  <2>6. Remaining' < Remaining => ~ (Remaining' > Remaining)
    <3>1. (VecInv => Remaining \in Nat)'
      BY <1>1, PTL
    <3> QED
      BY <2>1, <3>1
  <2>7. Remaining' = Remaining => ~ (Remaining' > Remaining)
    BY <2>1
  <2> QED
    BY <2>2, <2>3, <2>4, <2>5, <2>6, <2>7 DEF Next, Grow
<1>3. Init => DoubleInv
  BY DEF Init, DoubleInv
<1> QED
  BY <1>1, <1>2, <1>3, DoubleStep, VecAlways, PTL DEF Spec
=============================================================================
