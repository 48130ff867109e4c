------------------------ MODULE MessageFiltersProofs ------------------------
(***************************************************************************)
(* Proofs about the message filters, for any number of filters and of      *)
(* arrays, registered and unregistered at any time.                        *)
(***************************************************************************)
EXTENDS MessageFilters, FiniteSetTheorems, SequenceTheorems, TLAPS

(***************************************************************************)
(* Type correctness.                                                       *)
(***************************************************************************)
Content == Filters \union {Free}

\* The array behind messageFilters, and the one the loop ranges over.
Slots == arrays[slice.array]
Ranged == arrays[range.array]
Same == slice.array = range.array

TypeOK ==
  /\ arrays \in Seq(Seq(Content))
  /\ slice \in [array : 1..Len(arrays), length : Nat] /\ slice.length <= Len(Slots)
  /\ range \in [array : 1..Len(arrays), length : Nat] /\ range.length <= Len(Ranged)
  /\ fresh \in SUBSET Filters /\ removed \in SUBSET Filters
  /\ loop \in {"read", "range", "filter", "passed", "swallowed"}
  /\ index \in 0..range.length
  /\ before \in Seq(Content) /\ called \in Seq(Content) /\ Len(called) = index

\* A sequence in which one element is changed, and one more.
LEMMA OneChanged ==
  ASSUME NEW T, NEW as \in Seq(T), NEW a \in 1..Len(as), NEW new \in T
  PROVE  /\ [as EXCEPT ![a] = new] \in Seq(T) /\ Len([as EXCEPT ![a] = new]) = Len(as)
         /\ [as EXCEPT ![a] = new][a] = new
         /\ \A b \in 1..Len(as) : b # a => [as EXCEPT ![a] = new][b] = as[b]
<1>1. PICK changed : changed = [as EXCEPT ![a] = new]
  OBVIOUS
<1>2. changed \in Seq(T) /\ Len(changed) = Len(as)
  BY <1>1, ExceptSeq
<1>3. as \in [1..Len(as) -> T]
  BY LenProperties
<1>4. \A b \in 1..Len(as) : changed[b] = IF b = a THEN new ELSE as[b]
  BY <1>1, <1>3
<1> QED
  BY <1>1, <1>2, <1>4

LEMMA OneAdded ==
  ASSUME NEW T, NEW as \in Seq(T), NEW new \in T
  PROVE  /\ Append(as, new) \in Seq(T) /\ Len(Append(as, new)) = Len(as) + 1
         /\ Append(as, new)[Len(as) + 1] = new
         /\ \A b \in 1..Len(as) : Append(as, new)[b] = as[b]
<1>1. Len(as) \in Nat
  BY LenProperties
<1>2. /\ Append(as, new) \in Seq(T) /\ Len(Append(as, new)) = Len(as) + 1
      /\ Append(as, new)[Len(as) + 1] = new
  BY AppendProperties
<1>3. \A b \in 1..Len(as) : Append(as, new)[b] = as[b]
  BY AppendProperties
<1> QED
  BY <1>2, <1>3

LEMMA FunctionIsArray ==
  ASSUME NEW S, NEW n \in Nat, NEW s \in [1..n -> S]
  PROVE  s \in Seq(S) /\ Len(s) = n
  OBVIOUS

\* What Register does to the slots.
Grows(f) ==
  /\ slice'.length = slice.length + 1
  /\ Slots'[slice.length + 1] = f
  /\ \A i \in 1..slice.length : Slots'[i] = Slots[i]
  /\ \/ slice'.array = slice.array /\ Len(Slots') = Len(Slots) /\ (~ Same => Ranged' = Ranged)
        /\ \A i \in 1..Len(Slots) : i # slice.length + 1 => Slots'[i] = Slots[i]
     \/ ~ Same' /\ Ranged' = Ranged

LEMMA RegisterGrows ==
  ASSUME TypeOK, NEW f \in Filters, Register(f)
  PROVE  TypeOK' /\ Grows(f)
<1>1. /\ arrays \in Seq(Seq(Content)) /\ Len(arrays) \in Nat
      /\ slice.array \in 1..Len(arrays) /\ slice.length \in Nat /\ slice.length <= Len(Slots)
      /\ range.array \in 1..Len(arrays) /\ range.length \in Nat /\ range.length <= Len(Ranged)
      /\ f \in Content /\ Slots \in Seq(Content) /\ Len(Slots) \in Nat
  BY DEF TypeOK, Content, Slots, Ranged
<1>2. /\ range' = range /\ loop' = loop /\ index' = index /\ before' = before /\ called' = called
      /\ removed' = removed /\ fresh' \in SUBSET Filters
  BY DEF Register, TypeOK, loopVars
<1>3. CASE slice.length < Len(Slots)
  <2>1. PICK new : new = [Slots EXCEPT ![slice.length + 1] = f]
    OBVIOUS
  <2>2. /\ new \in Seq(Content) /\ Len(new) = Len(Slots) /\ new[slice.length + 1] = f
        /\ \A i \in 1..Len(Slots) : i # slice.length + 1 => new[i] = Slots[i]
    <3>1. slice.length + 1 \in 1..Len(Slots)
      BY <1>1, <1>3
    <3> QED
      BY <1>1, <2>1, <3>1, ExceptSeq
  <2>3. arrays' = [arrays EXCEPT ![slice.array] = new] /\ slice' = [slice EXCEPT !.length = slice.length + 1]
    BY <1>3, <2>1 DEF Register, Slots
  <2>4. /\ arrays' \in Seq(Seq(Content)) /\ Len(arrays') = Len(arrays) /\ arrays'[slice.array] = new
        /\ \A b \in 1..Len(arrays) : b # slice.array => arrays'[b] = arrays[b]
    BY <1>1, <2>2, <2>3, OneChanged
  <2>5. slice'.array = slice.array /\ slice'.length = slice.length + 1
    BY <2>3 DEF TypeOK
  <2>6. Grows(f)
    <3>1. Slots' = new /\ range' = range /\ (~ Same => Ranged' = Ranged)
      BY <1>1, <1>2, <2>4, <2>5 DEF Same, Slots, Ranged
    <3>2. \A i \in 1..slice.length : i \in 1..Len(Slots) /\ i # slice.length + 1
      BY <1>1
    <3> QED
      BY <2>2, <2>5, <3>1, <3>2 DEF Grows
  <2>7. slice' \in [array : 1..Len(arrays'), length : Nat] /\ slice'.length <= Len(Slots')
    <3>1. Slots' = new /\ slice'.length <= Len(new)
      BY <1>1, <1>3, <2>2, <2>4, <2>5 DEF Slots
    <3>2. slice' \in [array : 1..Len(arrays'), length : Nat]
      <4>1. slice' = [array |-> slice.array, length |-> slice.length + 1]
        BY <2>3 DEF TypeOK
      <4>2. slice.array \in 1..Len(arrays') /\ slice.length + 1 \in Nat
        BY <1>1, <2>4
      <4> QED
        BY <4>1, <4>2
    <3> QED
      BY <3>1, <3>2
  <2>8. range' \in [array : 1..Len(arrays'), length : Nat] /\ range'.length <= Len(Ranged')
    BY <1>1, <1>2, <2>2, <2>4 DEF TypeOK, Slots, Ranged
  <2> QED
    BY <1>2, <2>4, <2>6, <2>7, <2>8 DEF TypeOK
<1>4. CASE ~ (slice.length < Len(Slots))
  <2> DEFINE n == IF Slots = <<>> THEN 1 ELSE 2 * Len(Slots)
             room == [i \in 1..n |-> IF i <= Len(Slots) THEN Slots[i] ELSE Free]
  <2>1. PICK new : new = [room EXCEPT ![slice.length + 1] = f]
    OBVIOUS
  <2>2. n \in Nat /\ slice.length + 1 \in 1..n /\ slice.length = Len(Slots)
    <3>1. Slots # <<>> => Len(Slots) # 0
      BY <1>1, EmptySeq
    <3>2. Slots = <<>> => Len(Slots) = 0
      BY EmptySeq
    <3> QED
      BY <1>1, <1>4, <3>1, <3>2
  <2>3. /\ new \in [1..n -> Content] /\ new[slice.length + 1] = f
        /\ \A i \in 1..slice.length : new[i] = Slots[i]
    <3>1. room \in [1..n -> Content]
      BY <1>1 DEF Content
    <3> HIDE DEF n
    <3>2. \A i \in 1..slice.length : i \in 1..n /\ i # slice.length + 1 /\ i <= Len(Slots)
      BY <1>1, <2>2
    <3> QED
      BY <1>1, <2>1, <2>2, <3>1, <3>2
  <2> HIDE DEF n
  <2>4. new \in Seq(Content) /\ Len(new) = n
    BY <2>2, <2>3, FunctionIsArray
  <2>5. arrays' = Append(arrays, new) /\ slice' = [array |-> Len(arrays) + 1, length |-> slice.length + 1]
    BY <1>4, <2>1 DEF Register, Slots, n
  <2>6. /\ arrays' \in Seq(Seq(Content)) /\ Len(arrays') = Len(arrays) + 1 /\ arrays'[Len(arrays) + 1] = new
        /\ \A b \in 1..Len(arrays) : arrays'[b] = arrays[b]
    BY <1>1, <2>4, <2>5, OneAdded
  <2>7. Grows(f)
    BY <1>1, <1>2, <2>3, <2>5, <2>6 DEF Grows, Same, Slots, Ranged
  <2>8. slice' \in [array : 1..Len(arrays'), length : Nat] /\ slice'.length <= Len(Slots')
    BY <1>1, <2>2, <2>4, <2>5, <2>6 DEF Slots
  <2>9. range' \in [array : 1..Len(arrays'), length : Nat] /\ range'.length <= Len(Ranged')
    <3>1. Ranged' = Ranged
      BY <1>1, <1>2, <2>6 DEF Ranged
    <3>2. range.array \in 1..Len(arrays')
      BY <1>1, <2>6
    <3> QED
      BY <1>1, <1>2, <3>1, <3>2 DEF TypeOK
  <2> QED
    BY <1>2, <2>6, <2>7, <2>8, <2>9 DEF TypeOK
<1> QED
  BY <1>3, <1>4

\* What Unregister does to them.
Listed(f) == \E i \in 1..slice.length : Slots[i] = f
Shrinks(f, at) ==
  /\ at \in 1..slice.length /\ Slots[at] = f
  /\ slice'.array = slice.array /\ slice'.length = slice.length - 1
  /\ Len(Slots') = Len(Slots)
  /\ \A i \in 1..Len(Slots) : Slots'[i] = IF at <= i /\ i < slice.length THEN Slots[i + 1] ELSE Slots[i]
  /\ Same' <=> Same
  /\ ~ Same => Ranged' = Ranged
  /\ removed' = IF loop = "filter" /\ Same THEN removed \union {f} ELSE removed

\* The registered filters are those of the slots.
LEMMA RegisteredListed ==
  ASSUME TypeOK
  PROVE  /\ slice.length \in Nat /\ Registered \in Seq(Content) /\ Len(Registered) = slice.length
         /\ \A i \in 1..slice.length : Registered[i] = Slots[i]
         /\ \A f : f \in ToSet(Registered) <=> Listed(f)
<1>1. /\ Slots \in Seq(Content) /\ Len(Slots) \in Nat
      /\ slice.length \in Nat /\ slice.length <= Len(Slots)
  BY LenProperties DEF TypeOK, Slots
<1>2. /\ Registered \in Seq(Content) /\ Len(Registered) = slice.length
      /\ \A i \in 1..slice.length : Registered[i] = Slots[i]
  <2>1. Registered = SubSeq(Slots, 1, slice.length)
    BY DEF Registered, Slots
  <2>2. PICK s, n : s = Slots /\ n = slice.length
    OBVIOUS
  <2>3. s \in Seq(Content) /\ n \in Nat /\ n <= Len(s)
    BY <1>1, <2>2
  <2>4. SubSeq(s, 1, n) \in Seq(Content) /\ Len(SubSeq(s, 1, n)) = n
    BY <2>3
  <2>5. \A i \in 1..n : SubSeq(s, 1, n)[i] = s[i]
    BY <2>3
  <2> QED
    BY <2>1, <2>2, <2>4, <2>5
<1>3. \A f : f \in ToSet(Registered) <=> \E i \in 1..slice.length : Registered[i] = f
  BY <1>2, LenProperties DEF ToSet
<1> QED
  BY <1>1, <1>2, <1>3 DEF Listed

LEMMA UnregisterShrinks ==
  ASSUME TypeOK, NEW f \in Filters, Unregister(f)
  PROVE  TypeOK' /\ Listed(f) /\ \E at : Shrinks(f, at)
<1>1. /\ arrays \in Seq(Seq(Content)) /\ Len(arrays) \in Nat
      /\ slice.array \in 1..Len(arrays) /\ slice.length \in Nat /\ slice.length <= Len(Slots)
      /\ range.array \in 1..Len(arrays) /\ range.length \in Nat /\ range.length <= Len(Ranged)
      /\ Slots \in Seq(Content) /\ Len(Slots) \in Nat
  BY LenProperties DEF TypeOK, Slots, Ranged
<1>2. /\ range' = range /\ loop' = loop /\ index' = index /\ before' = before /\ called' = called
      /\ fresh' = fresh /\ removed' \in SUBSET Filters
  BY DEF Unregister, TypeOK, loopVars
<1>3. Listed(f)
  BY RegisteredListed DEF Unregister
<1> DEFINE place == CHOOSE i \in 1..slice.length : Registered[i] = f
<1>4. PICK at : at = place
  OBVIOUS
<1>5. at \in 1..slice.length /\ Slots[at] = f
  BY <1>3, <1>4, RegisteredListed DEF Listed
<1>6. PICK new : new = [i \in DOMAIN Slots |-> IF i \in at..slice.length - 1 THEN Slots[i + 1] ELSE Slots[i]]
  OBVIOUS
<1>7. arrays' = [arrays EXCEPT ![slice.array] = new] /\ slice' = [slice EXCEPT !.length = slice.length - 1]
  BY <1>4, <1>6 DEF Unregister, Slots
<1>8. /\ new \in Seq(Content) /\ Len(new) = Len(Slots)
      /\ \A i \in 1..Len(Slots) : new[i] = IF at <= i /\ i < slice.length THEN Slots[i + 1] ELSE Slots[i]
  <2>1. Slots \in [1..Len(Slots) -> Content] /\ DOMAIN Slots = 1..Len(Slots)
    BY <1>1, LenProperties
  <2>2. \A i \in 1..Len(Slots) : (i \in at..slice.length - 1 <=> at <= i /\ i < slice.length)
                                 /\ (i < slice.length => i + 1 \in 1..Len(Slots))
    BY <1>1, <1>5
  <2>3. \A i \in 1..Len(Slots) : new[i] = IF at <= i /\ i < slice.length THEN Slots[i + 1] ELSE Slots[i]
    BY <1>6, <2>1, <2>2
  <2>4. new \in [1..Len(Slots) -> Content]
    BY <1>6, <2>1, <2>2
  <2> QED
    BY <1>1, <2>3, <2>4, FunctionIsArray
<1>9. /\ arrays' \in Seq(Seq(Content)) /\ Len(arrays') = Len(arrays) /\ arrays'[slice.array] = new
      /\ \A b \in 1..Len(arrays) : b # slice.array => arrays'[b] = arrays[b]
  BY <1>1, <1>7, <1>8, OneChanged
<1>10. slice' = [array |-> slice.array, length |-> slice.length - 1]
  BY <1>7 DEF TypeOK
<1>11. Slots' = new /\ (Same' <=> Same) /\ (~ Same => Ranged' = Ranged)
  BY <1>1, <1>2, <1>9, <1>10 DEF Slots, Ranged, Same
<1>12. Shrinks(f, at)
  <2>1. removed' = IF loop = "filter" /\ Same THEN removed \union {f} ELSE removed
    BY DEF Unregister, Same
  <2> QED
    BY <1>5, <1>8, <1>10, <1>11, <2>1 DEF Shrinks
<1>13. slice' \in [array : 1..Len(arrays'), length : Nat] /\ slice'.length <= Len(Slots')
  <2>1. slice.array \in 1..Len(arrays') /\ slice.length - 1 \in Nat /\ slice.length - 1 <= Len(Slots)
    <3> PICK n, l : n = slice.length /\ l = Len(Slots)
      OBVIOUS
    <3>1. n \in Nat /\ l \in Nat /\ n <= l /\ at \in 1..n
      BY <1>1, <1>5
    <3>2. n - 1 \in Nat /\ n - 1 <= l
      BY <3>1
    <3> QED
      BY <1>1, <1>9, <3>2
  <2> QED
    BY <1>8, <1>10, <1>11, <2>1
<1>14. range' \in [array : 1..Len(arrays'), length : Nat] /\ range'.length <= Len(Ranged')
  <2>1. Len(Ranged') = Len(Ranged)
    BY <1>2, <1>8, <1>11 DEF Same, Slots, Ranged
  <2> QED
    BY <1>1, <1>2, <1>9, <2>1 DEF TypeOK
<1> QED
  BY <1>2, <1>3, <1>9, <1>12, <1>13, <1>14 DEF TypeOK

LEMMA InitTyped == Init => TypeOK
<1> SUFFICES ASSUME Init PROVE TypeOK
  OBVIOUS
<1>1. PICK none : none = <<>>
  OBVIOUS
<1>2. none \in Seq(Content) /\ Len(none) = 0
  BY <1>1, EmptySeq
<1>3. arrays = <<none>> /\ <<none>> \in Seq(Seq(Content)) /\ Len(<<none>>) = 1 /\ <<none>>[1] = none
  <2>1. \A T : none \in T => <<none>> \in Seq(T) /\ Len(<<none>>) = 1 /\ <<none>>[1] = none
    OBVIOUS
  <2> QED
    BY <1>1, <1>2, <2>1 DEF Init
<1>4. slice = [array |-> 1, length |-> 0] /\ range = slice
  BY DEF Init
<1>5. Slots = none /\ Ranged = none
  BY <1>3, <1>4 DEF Slots, Ranged
<1>6. slice \in [array : 1..Len(arrays), length : Nat] /\ slice.length <= Len(Slots) /\ 0 \in 0..slice.length
  <2>1. 1 \in 1..Len(arrays) /\ 0 \in Nat
    BY <1>3
  <2> QED
    BY <1>2, <1>4, <1>5, <2>1
<1> QED
  BY <1>1, <1>2, <1>3, <1>4, <1>5, <1>6 DEF Init, TypeOK

\* The steps of the loop leave the slots as they are.
LoopStep == Dispatch \/ CallFilter \/ FilterReturns \/ PassOn \/ Done

LEMMA LoopTyped ==
  ASSUME TypeOK, LoopStep
  PROVE  TypeOK' /\ UNCHANGED <<arrays, slice, fresh>>
<1>1. UNCHANGED <<arrays, slice, fresh>>
  BY DEF LoopStep, Dispatch, CallFilter, FilterReturns, PassOn, Done
<1>2. CASE Dispatch
  <2>1. <<>> \in Seq(Content) /\ Len(<<>>) = 0
    BY EmptySeq
  <2>2. 0 \in 0..slice.length
    BY RegisteredListed
  <2>3. Registered \in Seq(Content)
    BY RegisteredListed
  <2>4. /\ range' = slice /\ index' = 0 /\ loop' = "range" /\ removed' = {}
        /\ before' = Registered /\ called' = <<>>
    BY <1>2 DEF Dispatch
  <2>5. Ranged' = Slots
    BY <1>1, <2>4 DEF Ranged, Slots
  <2> QED
    BY <1>1, <2>1, <2>2, <2>3, <2>4, <2>5 DEF TypeOK, Slots
<1>3. CASE CallFilter
  <2>1. /\ UNCHANGED <<range, before, removed>> /\ loop' = "filter" /\ index < range.length
        /\ index' = index + 1 /\ called' = Append(called, Ranged[index + 1])
    BY <1>3 DEF CallFilter, Ranged
  <2>2. /\ index' \in 0..range.length /\ index + 1 \in 1..Len(Ranged) /\ Ranged \in Seq(Content)
    BY <2>1 DEF TypeOK, Ranged
  <2>3. Ranged[index + 1] \in Content
    BY <2>2, LenProperties
  <2>4. called' \in Seq(Content) /\ Len(called') = index'
    BY <2>1, <2>3, AppendProperties DEF TypeOK
  <2> QED
    BY <1>1, <2>1, <2>2, <2>4 DEF TypeOK, Slots, Ranged
<1>4. CASE FilterReturns \/ PassOn \/ Done
  <2>1. UNCHANGED <<range, index, before, called, removed>>
        /\ loop' \in {"read", "range", "passed", "swallowed"}
    BY <1>4 DEF FilterReturns, PassOn, Done
  <2> QED
    BY <1>1, <2>1 DEF TypeOK, Slots, Ranged
<1> QED
  BY <1>1, <1>2, <1>3, <1>4 DEF LoopStep

(***************************************************************************)
(* The invariant.                                                          *)
(***************************************************************************)
\* The slots of a slice hold filters, each one once in messageFilters.
ContentInv ==
  /\ \A i \in 1..slice.length : Slots[i] \in Filters \ fresh
  /\ \A i, j \in 1..slice.length : Slots[i] = Slots[j] => i = j
  /\ \A i \in 1..range.length : Ranged[i] \in Filters
  /\ \A i \in 1..index : called[i] \in Filters

Dispatching == loop \in {"range", "filter", "passed"}

BeforeInv ==
  Dispatching =>
    /\ Len(before) = range.length
    /\ \A i \in 1..Len(before) : before[i] \in Filters \ fresh
    /\ \A i, j \in 1..Len(before) : before[i] = before[j] => i = j
    /\ loop = "passed" => index = range.length

\* While the loop ranges over the array of messageFilters, the filters that are left
\* stand in front of the new ones, and in their order.
OrderInv ==
  Dispatching /\ Same =>
    /\ \A i \in 1..Len(before) : before[i] \in removed \/ Listed(before[i])
    /\ \A t \in 1..slice.length, j \in 1..Len(before) : Slots[t] = before[j] =>
         \A s \in 1..slice.length : s < t => \E i \in 1..Len(before) : i < j /\ Slots[s] = before[i]

\* While nothing is unregistered in that array, the slots stay as they were.
StillInv ==
  Dispatching /\ removed = {} =>
    /\ \A i \in 1..range.length : Ranged[i] = before[i]
    /\ \A i \in 1..index : called[i] = before[i]
    /\ Same => slice.length >= range.length

RemovedBefore(q) == \E i \in 1..Len(before) : i < q /\ before[i] \in removed

\* The last that is left, with one removed before it, may be in several slots.
Lagging(q) == RemovedBefore(q) /\ \A i \in 1..Len(before) : q < i => before[i] \in removed

\* Another filter is in one slot, at most as far back as it was.  It was called if
\* the loop has come past it, unless it was moved towards the front.
Follows(q, p) ==
  /\ p <= q /\ Ranged[p] = before[q] /\ (Same => p <= slice.length)
  /\ \A s \in 1..range.length : Ranged[s] = before[q] => s = p
  /\ \A i, j \in 1..index : called[i] = before[q] /\ called[j] = before[q] => i = j
  /\ \A i \in 1..index : called[i] = before[q] => p <= index
  /\ p <= index => RemovedBefore(q) \/ \E i \in 1..index : called[i] = before[q]
FollowInv ==
  Dispatching =>
    \A q \in 1..Len(before) : Listed(before[q]) => Lagging(q) \/ \E p \in 1..Len(before) : Follows(q, p)

IInv == TypeOK /\ ContentInv /\ BeforeInv /\ OrderInv /\ StillInv /\ FollowInv

\* What TypeOK says of the numbers.
LEMMA Numbers ==
  ASSUME TypeOK
  PROVE  /\ slice.length \in Nat /\ Len(Slots) \in Nat /\ slice.length <= Len(Slots)
         /\ range.length \in Nat /\ Len(Ranged) \in Nat /\ range.length <= Len(Ranged)
         /\ Len(before) \in Nat /\ index \in Nat /\ index <= range.length
  BY LenProperties DEF TypeOK, Slots, Ranged

\* A filter that is registered is a new one, and goes behind the others.
LEMMA RegisterKeeps ==
  ASSUME IInv, NEW f \in Filters, Register(f)
  PROVE  IInv'
<1>1. TypeOK /\ ContentInv /\ BeforeInv /\ OrderInv /\ StillInv /\ FollowInv
  BY DEF IInv
<1>2. TypeOK' /\ Grows(f)
  BY <1>1, RegisterGrows
<1>3. PICK l, n, m, k : l = slice.length /\ n = range.length /\ m = Len(before) /\ k = Len(Slots)
  OBVIOUS
<1>4. l \in Nat /\ n \in Nat /\ m \in Nat /\ k \in Nat /\ l <= k /\ index \in Nat /\ index <= n
  BY <1>1, <1>3, Numbers
<1>5. /\ UNCHANGED <<range, loop, index, before, called, removed>>
      /\ fresh' = fresh \ {f} /\ f \in fresh
  BY DEF Register, loopVars
<1>6. slice'.length = l + 1 /\ Slots'[l + 1] = f /\ \A i \in 1..l : Slots'[i] = Slots[i]
  BY <1>2, <1>3 DEF Grows
<1>7. \/ (Same' <=> Same) /\ (~ Same => Ranged' = Ranged)
         /\ (Same => Ranged = Slots /\ Ranged' = Slots')
         /\ \A i \in 1..k : i # l + 1 => Slots'[i] = Slots[i]
      \/ ~ Same' /\ Ranged' = Ranged
  BY <1>2, <1>3, <1>5 DEF Grows, Same, Slots, Ranged
<1>8. Dispatching' <=> Dispatching
  BY <1>5 DEF Dispatching
<1>9. n <= Len(Ranged) /\ (Same => n <= k)
  BY <1>1, <1>3, Numbers DEF Same, Ranged, Slots
<1>10. \A i \in 1..n : Ranged'[i] = Ranged[i] \/ (Same /\ Ranged'[i] = f /\ i = l + 1)
  BY <1>3, <1>4, <1>6, <1>7, <1>9
<1>11. ContentInv'
  <2>1. \A i \in 1..l + 1 : i \in 1..l \/ i = l + 1
    BY <1>4
  <2>2. \A i \in 1..l + 1 : Slots'[i] \in Filters \ fresh'
    BY <1>1, <1>3, <1>5, <1>6, <2>1 DEF ContentInv
  <2>3. \A i, j \in 1..l + 1 : Slots'[i] = Slots'[j] => i = j
    BY <1>1, <1>3, <1>5, <1>6, <2>1 DEF ContentInv
  <2>4. \A i \in 1..n : Ranged'[i] \in Filters
    BY <1>1, <1>3, <1>10 DEF ContentInv
  <2> QED
    BY <1>1, <1>3, <1>5, <1>6, <2>2, <2>3, <2>4 DEF ContentInv
<1>12. BeforeInv'
  BY <1>1, <1>5, <1>8 DEF BeforeInv
\* The new filter is none of those that were there.
<1>13. Dispatching => \A i \in 1..m : before[i] # f
  BY <1>1, <1>3, <1>5 DEF BeforeInv
<1>14. Dispatching => \A i \in 1..m : Listed(before[i])' <=> Listed(before[i])
  <2>1. \A i \in 1..l + 1 : i \in 1..l \/ i = l + 1
    BY <1>4
  <2>2. \A i \in 1..l : i \in 1..l + 1
    BY <1>4
  <2> QED
    BY <1>3, <1>5, <1>6, <1>13, <2>1, <2>2 DEF Listed
<1>15. OrderInv'
  <2>1. SUFFICES ASSUME Dispatching, Same'
                 PROVE  /\ \A i \in 1..m : before[i] \in removed \/ Listed(before[i])'
                        /\ \A t \in 1..l + 1, j \in 1..m : Slots'[t] = before[j] =>
                             \A s \in 1..l + 1 : s < t => \E i \in 1..m : i < j /\ Slots'[s] = before[i]
    BY <1>3, <1>5, <1>6, <1>8 DEF OrderInv
  <2>2. Same
    BY <1>7, <2>1
  <2>3. \A i \in 1..m : before[i] \in removed \/ Listed(before[i])'
    BY <1>1, <1>3, <1>13, <1>14, <2>1, <2>2 DEF OrderInv
  <2>4. ASSUME NEW t \in 1..l + 1, NEW j \in 1..m, Slots'[t] = before[j], NEW s \in 1..l + 1, s < t
        PROVE  \E i \in 1..m : i < j /\ Slots'[s] = before[i]
    <3>1. t \in 1..l /\ s \in 1..l
      BY <1>4, <1>6, <1>13, <2>1, <2>4
    <3>2. Slots[t] = before[j] /\ Slots'[s] = Slots[s]
      BY <1>6, <2>4, <3>1
    <3> QED
      BY <1>1, <1>3, <2>1, <2>2, <2>4, <3>1, <3>2 DEF OrderInv
  <2> QED
    BY <2>3, <2>4
<1>16. StillInv'
  <2>1. SUFFICES ASSUME Dispatching, removed = {}
                 PROVE  /\ \A i \in 1..n : Ranged'[i] = before[i]
                        /\ \A i \in 1..index : called[i] = before[i]
                        /\ Same' => l + 1 >= n
    BY <1>3, <1>5, <1>6, <1>8 DEF StillInv
  <2>2. /\ \A i \in 1..n : Ranged[i] = before[i]
        /\ \A i \in 1..index : called[i] = before[i]
        /\ Same => l >= n
    BY <1>1, <1>3, <2>1 DEF StillInv
  <2>3. Same' => Same
    BY <1>7
  <2> QED
    BY <1>4, <1>10, <2>2, <2>3
<1>17. FollowInv'
  <2>1. SUFFICES ASSUME Dispatching, NEW q \in 1..m, Listed(before[q])'
                 PROVE  Lagging(q)' \/ \E p \in 1..m : Follows(q, p)'
    BY <1>3, <1>5, <1>8 DEF FollowInv
  <2>2. Listed(before[q]) /\ before[q] # f
    BY <1>13, <1>14, <2>1
  <2>3. CASE Lagging(q)
    BY <1>5, <2>3 DEF Lagging, RemovedBefore
  <2>4. ASSUME NEW p \in 1..m, Follows(q, p) PROVE Follows(q, p)'
    <3>1. p \in 1..n
      BY <1>1, <1>3, <2>1 DEF BeforeInv
    <3>2. Ranged'[p] = before[q] /\ (Same' => p <= l + 1)
      BY <1>3, <1>4, <1>7, <1>10, <2>4, <3>1 DEF Follows
    <3>3. \A s \in 1..n : Ranged'[s] = before[q] => s = p
      BY <1>3, <1>10, <2>2, <2>4 DEF Follows
    <3>4. RemovedBefore(q)' <=> RemovedBefore(q)
      BY <1>5 DEF RemovedBefore
    <3> QED
      BY <1>3, <1>5, <1>6, <2>4, <3>2, <3>3, <3>4 DEF Follows
  <2> QED
    BY <1>1, <1>3, <2>1, <2>2, <2>3, <2>4 DEF FollowInv
<1> QED
  BY <1>2, <1>11, <1>12, <1>15, <1>16, <1>17 DEF IInv

\* When a filter is unregistered, those behind it move towards the front.
LEMMA UnregisterKeeps ==
  ASSUME IInv, NEW f \in Filters, Unregister(f)
  PROVE  IInv'
<1>1. TypeOK /\ ContentInv /\ BeforeInv /\ OrderInv /\ StillInv /\ FollowInv
  BY DEF IInv
<1>2. TypeOK'
  BY <1>1, UnregisterShrinks
<1>3. PICK at : Shrinks(f, at)
  BY <1>1, UnregisterShrinks
<1>4. PICK l, n, m : l = slice.length /\ n = range.length /\ m = Len(before)
  OBVIOUS
<1>5. l \in Nat /\ n \in Nat /\ m \in Nat /\ index \in Nat /\ index <= n /\ l <= Len(Slots) /\ Len(Slots) \in Nat
  BY <1>1, <1>4, Numbers
<1>6. UNCHANGED <<range, loop, index, before, called, fresh>> /\ loop \in {"read", "filter"}
  BY DEF Unregister, loopVars
<1>7. at \in 1..l /\ Slots[at] = f /\ slice'.length = l - 1
  BY <1>3, <1>4 DEF Shrinks
<1>8. \A i \in 1..Len(Slots) : Slots'[i] = IF at <= i /\ i < l THEN Slots[i + 1] ELSE Slots[i]
  BY <1>3, <1>4 DEF Shrinks
<1>9. \A i \in 1..l - 1 : /\ i \in 1..l /\ i + 1 \in 1..l
                          /\ at <= i => Slots'[i] = Slots[i + 1]
                          /\ i < at => Slots'[i] = Slots[i]
  BY <1>5, <1>7, <1>8
<1>10. /\ Same' <=> Same
       /\ ~ Same => Ranged' = Ranged
       /\ Same => Ranged = Slots /\ Ranged' = Slots' /\ n <= Len(Slots)
  BY <1>1, <1>3, <1>4, <1>6, Numbers DEF Shrinks, Same, Slots, Ranged
<1>11. Dispatching' <=> Dispatching
  BY <1>6 DEF Dispatching
<1>12. \A i, j \in 1..l : Slots[i] = Slots[j] => i = j
  BY <1>1, <1>4 DEF ContentInv
\* The filter is gone, the others are still there.
<1>13. \A i \in 1..l - 1 : Slots'[i] # f /\ \E j \in 1..l : Slots'[i] = Slots[j]
  <2> SUFFICES ASSUME NEW i \in 1..l - 1 PROVE Slots'[i] # f /\ \E j \in 1..l : Slots'[i] = Slots[j]
    OBVIOUS
  <2>1. CASE at <= i
    BY <1>5, <1>7, <1>9, <1>12, <2>1
  <2>2. CASE i < at
    BY <1>5, <1>7, <1>9, <1>12, <2>2
  <2> QED
    BY <1>5, <1>7, <2>1, <2>2
<1>14. \A j \in 1..l : j # at => \E i \in 1..l - 1 : Slots'[i] = Slots[j]
  <2> SUFFICES ASSUME NEW j \in 1..l, j # at PROVE \E i \in 1..l - 1 : Slots'[i] = Slots[j]
    OBVIOUS
  <2>1. CASE j < at
    BY <1>5, <1>7, <1>9, <2>1
  <2>2. CASE at < j
    <3>1. j - 1 \in 1..l - 1 /\ at <= j - 1 /\ j - 1 + 1 = j
      BY <1>5, <1>7, <2>2
    <3> QED
      BY <1>9, <3>1
  <2> QED
    BY <1>5, <1>7, <2>1, <2>2
<1>15. \A i \in 1..m : /\ Listed(before[i])' => Listed(before[i]) /\ before[i] # f
                       /\ Listed(before[i]) /\ before[i] # f => Listed(before[i])'
  BY <1>4, <1>6, <1>7, <1>13, <1>14 DEF Listed
<1>16. ContentInv'
  <2>1. \A i \in 1..l - 1 : Slots'[i] \in Filters \ fresh
    BY <1>1, <1>4, <1>13 DEF ContentInv
  <2>2. ASSUME NEW i \in 1..l - 1, NEW j \in 1..l - 1, Slots'[i] = Slots'[j] PROVE i = j
    <3>1. CASE at <= i /\ at <= j
      <4>1. i + 1 = j + 1
        BY <1>9, <1>12, <2>2, <3>1
      <4> QED
        BY <1>5, <4>1
    <3>2. CASE i < at /\ j < at
      BY <1>9, <1>12, <2>2, <3>2
    <3>3. CASE at <= i /\ j < at
      <4>1. i + 1 = j
        BY <1>9, <1>12, <2>2, <3>3
      <4> QED
        BY <1>5, <1>7, <3>3, <4>1
    <3>4. CASE i < at /\ at <= j
      <4>1. i = j + 1
        BY <1>9, <1>12, <2>2, <3>4
      <4> QED
        BY <1>5, <1>7, <3>4, <4>1
    <3> QED
      BY <1>5, <1>7, <3>1, <3>2, <3>3, <3>4
  <2>3. \A i \in 1..n : Ranged'[i] \in Filters
    <3>1. SUFFICES ASSUME Same, NEW i \in 1..n PROVE Slots'[i] \in Filters
      BY <1>1, <1>4, <1>10 DEF ContentInv
    <3>2. CASE at <= i /\ i < l
      <4>1. i + 1 \in 1..l /\ i \in 1..Len(Slots)
        BY <1>5, <1>7, <3>2
      <4> QED
        BY <1>1, <1>4, <1>8, <3>2, <4>1 DEF ContentInv
    <3>3. CASE ~ (at <= i /\ i < l)
      <4>1. i \in 1..Len(Slots) /\ Slots[i] \in Filters
        BY <1>1, <1>4, <1>5, <1>10, <3>1 DEF ContentInv
      <4> QED
        BY <1>8, <3>3, <4>1
    <3> QED
      BY <3>2, <3>3
  <2> QED
    BY <1>1, <1>4, <1>6, <1>7, <2>1, <2>2, <2>3 DEF ContentInv
<1>17. BeforeInv'
  BY <1>1, <1>6, <1>11 DEF BeforeInv
<1>18. Dispatching => removed' = IF Same THEN removed \union {f} ELSE removed
  BY <1>3, <1>6 DEF Shrinks, Dispatching
<1>19. OrderInv'
  <2>1. SUFFICES ASSUME Dispatching, Same
                 PROVE  /\ \A i \in 1..m : before[i] \in removed' \/ Listed(before[i])'
                        /\ \A t \in 1..l - 1, j \in 1..m : Slots'[t] = before[j] =>
                             \A s \in 1..l - 1 : s < t => \E i \in 1..m : i < j /\ Slots'[s] = before[i]
    BY <1>4, <1>6, <1>7, <1>10, <1>11 DEF OrderInv
  <2>2. \A i \in 1..m : before[i] \in removed' \/ Listed(before[i])'
    BY <1>1, <1>4, <1>15, <1>18, <2>1 DEF OrderInv
  <2>3. ASSUME NEW t \in 1..l - 1, NEW j \in 1..m, Slots'[t] = before[j], NEW s \in 1..l - 1, s < t
        PROVE  \E i \in 1..m : i < j /\ Slots'[s] = before[i]
    <3>1. PICK u \in 1..l : Slots'[t] = Slots[u] /\ u = IF at <= t THEN t + 1 ELSE t
      BY <1>5, <1>7, <1>9
    <3>2. PICK v \in 1..l : Slots'[s] = Slots[v] /\ v = IF at <= s THEN s + 1 ELSE s
      BY <1>5, <1>7, <1>9
    <3>3. v < u
      BY <1>5, <1>7, <2>3, <3>1, <3>2
    <3>4. Slots[u] = before[j]
      BY <2>3, <3>1
    <3>5. PICK i \in 1..m : i < j /\ Slots[v] = before[i]
      BY <1>1, <1>4, <2>1, <3>3, <3>4 DEF OrderInv
    <3> QED
      BY <3>2, <3>5
  <2> QED
    BY <2>2, <2>3
<1>20. StillInv'
  <2>1. Dispatching /\ removed' = {} => ~ Same /\ removed = {}
    BY <1>18
  <2> QED
    BY <1>1, <1>6, <1>10, <1>11, <2>1 DEF StillInv
<1>21. FollowInv'
  <2>1. SUFFICES ASSUME Dispatching, NEW q \in 1..m, Listed(before[q])'
                 PROVE  Lagging(q)' \/ \E p \in 1..m : Follows(q, p)'
    BY <1>4, <1>6, <1>11 DEF FollowInv
  <2>2. Listed(before[q]) /\ before[q] # f
    BY <1>15, <2>1
  <2>3. removed \subseteq removed' /\ (RemovedBefore(q) => RemovedBefore(q)')
    BY <1>6, <1>18, <2>1 DEF RemovedBefore
  <2>4. CASE Lagging(q)
    BY <1>6, <2>3, <2>4 DEF Lagging
  <2>5. ASSUME NEW p \in 1..m, Follows(q, p), ~ Same PROVE Follows(q, p)'
    BY <1>6, <1>10, <2>3, <2>5 DEF Follows
  <2>6. ASSUME NEW p \in 1..m, Follows(q, p), Same PROVE Lagging(q)' \/ \E r \in 1..m : Follows(q, r)'
    <3>1. m = n /\ p \in 1..l /\ p # at /\ Slots[p] = before[q] /\ p \in 1..n /\ q \in 1..n
      BY <1>1, <1>4, <1>5, <1>7, <1>10, <2>1, <2>2, <2>6 DEF Follows, BeforeInv
    <3>2. \A i \in 1..n : i \in 1..Len(Slots)
      BY <1>5, <1>10, <2>6
    <3>3. CASE p < at
      <4>1. p <= l - 1 /\ Ranged'[p] = before[q]
        BY <1>5, <1>7, <1>9, <1>10, <2>6, <3>1, <3>3
      <4>2. ASSUME NEW s \in 1..n, Ranged'[s] = before[q] PROVE s = p
        <5>1. CASE at <= s /\ s < l
          <6>1. s + 1 \in 1..l /\ Slots[s + 1] = Slots[p]
            BY <1>5, <1>7, <1>8, <1>10, <2>6, <3>1, <3>2, <4>2, <5>1
          <6> QED
            BY <1>5, <1>7, <1>12, <3>1, <3>3, <5>1, <6>1
        <5>2. CASE ~ (at <= s /\ s < l)
          <6>1. Ranged[s] = before[q]
            BY <1>8, <1>10, <2>6, <3>2, <4>2, <5>2
          <6> QED
            BY <1>4, <2>6, <6>1 DEF Follows
        <5> QED
          BY <5>1, <5>2
      <4> QED
        BY <1>4, <1>6, <1>7, <2>3, <2>6, <4>1, <4>2 DEF Follows
    \* The filter that is removed was one of those before it.
    <3>4. at < p => RemovedBefore(q)'
      <4>1. SUFFICES ASSUME at < p PROVE RemovedBefore(q)'
        OBVIOUS
      <4>2. PICK i \in 1..m : i < q /\ Slots[at] = before[i]
        BY <1>1, <1>4, <1>7, <2>1, <2>6, <3>1, <4>1 DEF OrderInv
      <4>3. before[i] \in removed'
        BY <1>7, <1>18, <2>1, <2>6, <4>2
      <4> QED
        BY <1>4, <1>6, <4>2, <4>3 DEF RemovedBefore
    <3>5. CASE at < p /\ p < l
      <4>1. /\ p - 1 \in 1..m /\ p - 1 + 1 = p /\ p - 1 <= q /\ p - 1 <= l - 1 /\ at <= p - 1 /\ p - 1 \in 1..l - 1
            /\ p <= index => p - 1 <= index
        BY <1>5, <1>7, <2>6, <3>1, <3>5 DEF Follows
      <4>2. Ranged'[p - 1] = before[q]
        BY <1>9, <1>10, <2>6, <3>1, <4>1
      <4>3. ASSUME NEW s \in 1..n, Ranged'[s] = before[q] PROVE s = p - 1
        <5>1. CASE at <= s /\ s < l
          <6>1. s + 1 \in 1..l /\ Slots[s + 1] = Slots[p]
            BY <1>5, <1>7, <1>8, <1>10, <2>6, <3>1, <3>2, <4>3, <5>1
          <6>2. s + 1 = p
            BY <1>12, <3>1, <6>1
          <6> QED
            BY <1>5, <3>1, <6>2
        <5>2. CASE ~ (at <= s /\ s < l)
          <6>1. Ranged[s] = before[q]
            BY <1>8, <1>10, <2>6, <3>2, <4>3, <5>2
          <6>2. s = p
            BY <1>4, <2>6, <6>1 DEF Follows
          <6> QED
            BY <1>5, <1>7, <3>5, <5>2, <6>2
        <5> QED
          BY <5>1, <5>2
      <4>4. Follows(q, p - 1)'
        BY <1>4, <1>6, <1>7, <2>6, <3>4, <3>5, <4>1, <4>2, <4>3 DEF Follows
      <4> QED
        BY <4>1, <4>4
    <3>6. CASE at < p /\ p = l
      <4>1. ASSUME NEW i \in 1..m, q < i PROVE before[i] \in removed
        <5>1. SUFFICES ASSUME NEW t \in 1..l, Slots[t] = before[i] PROVE FALSE
          BY <1>1, <1>4, <2>1, <2>6 DEF OrderInv, Listed
        <5>2. \A j, k \in 1..m : before[j] = before[k] => j = k
          BY <1>1, <1>4, <2>1 DEF BeforeInv
        <5>3. t < p
          BY <1>5, <3>1, <3>6, <4>1, <5>1, <5>2
        <5>4. PICK j \in 1..m : j < q /\ Slots[t] = before[j]
          BY <1>1, <1>4, <2>1, <2>6, <3>1, <5>3 DEF OrderInv
        <5>5. j = i
          BY <5>1, <5>2, <5>4
        <5> QED
          BY <1>5, <4>1, <5>4, <5>5
      <4> QED
        BY <1>4, <1>6, <2>3, <3>4, <3>6, <4>1 DEF Lagging
    <3> QED
      BY <1>5, <1>7, <3>1, <3>3, <3>5, <3>6
  <2> QED
    BY <1>1, <1>4, <2>1, <2>2, <2>4, <2>5, <2>6 DEF FollowInv
<1> QED
  BY <1>2, <1>16, <1>17, <1>19, <1>20, <1>21 DEF IInv

\* A message that comes finds the filters as they are.
LEMMA DispatchKeeps ==
  ASSUME IInv, Dispatch
  PROVE  IInv'
<1>1. TypeOK /\ ContentInv /\ TypeOK' /\ UNCHANGED <<arrays, slice, fresh>>
  BY LoopTyped DEF IInv, LoopStep
<1>2. /\ range' = slice /\ index' = 0 /\ loop' = "range" /\ removed' = {}
      /\ before' = Registered /\ called' = <<>>
  BY DEF Dispatch
<1>3. Slots' = Slots /\ Ranged' = Slots /\ Dispatching'
  BY <1>1, <1>2 DEF Slots, Ranged, Dispatching
<1>4. PICK l : l = slice.length
  OBVIOUS
<1>5. /\ l \in Nat /\ slice'.length = l /\ range'.length = l
      /\ Len(before') = l /\ \A i \in 1..l : before'[i] = Slots[i]
  BY <1>1, <1>2, <1>4, RegisteredListed
<1>6. 1..index' = {}
  BY <1>2
<1>7. /\ \A i \in 1..l : Slots[i] \in Filters \ fresh
      /\ \A i, j \in 1..l : Slots[i] = Slots[j] => i = j
  BY <1>1, <1>4 DEF ContentInv
<1>8. ContentInv' /\ BeforeInv'
  BY <1>1, <1>2, <1>3, <1>5, <1>6, <1>7 DEF ContentInv, BeforeInv
<1>9. OrderInv'
  <2>1. \A i \in 1..l : Listed(before[i])'
    BY <1>3, <1>5 DEF Listed
  <2>2. ASSUME NEW t \in 1..l, NEW j \in 1..l, Slots[t] = before'[j], NEW s \in 1..l, s < t
        PROVE  \E i \in 1..l : i < j /\ Slots[s] = before'[i]
    <3>1. t = j
      BY <1>5, <1>7, <2>2
    <3> QED
      BY <1>5, <2>2, <3>1
  <2>3. \A t, j \in 1..l : Slots'[t] = before'[j] =>
          \A s \in 1..l : s < t => \E i \in 1..l : i < j /\ Slots'[s] = before'[i]
    BY <1>3, <2>2
  <2> QED
    BY <1>5, <2>1, <2>3 DEF OrderInv
<1>10. StillInv'
  BY <1>3, <1>5, <1>6 DEF StillInv
<1>11. FollowInv'
  <2>1. \A q \in 1..l : Follows(q, q)'
    <3> SUFFICES ASSUME NEW q \in 1..l PROVE Follows(q, q)'
      OBVIOUS
    <3>1. ~ (q <= index')
      BY <1>2, <1>5
    <3>2. \A s \in 1..l : Slots[s] = before'[q] => s = q
      BY <1>5, <1>7
    <3>3. q <= q /\ q <= l
      BY <1>5
    <3> QED
      BY <1>3, <1>5, <1>6, <3>1, <3>2, <3>3 DEF Follows
  <2> QED
    BY <1>5, <2>1 DEF FollowInv
<1> QED
  BY <1>1, <1>8, <1>9, <1>10, <1>11 DEF IInv

\* The filter in the next slot is called.
LEMMA CallFilterKeeps ==
  ASSUME IInv, CallFilter
  PROVE  IInv'
<1>1. /\ TypeOK /\ ContentInv /\ BeforeInv /\ OrderInv /\ StillInv /\ FollowInv
      /\ TypeOK' /\ UNCHANGED <<arrays, slice, fresh>>
  BY LoopTyped DEF IInv, LoopStep
<1>2. /\ UNCHANGED <<range, before, removed>> /\ loop = "range" /\ loop' = "filter" /\ index < range.length
      /\ index' = index + 1 /\ called' = Append(called, Ranged[index + 1])
  BY DEF CallFilter, Ranged
<1>3. Slots' = Slots /\ Ranged' = Ranged /\ (Same' <=> Same) /\ Dispatching /\ Dispatching'
  BY <1>1, <1>2 DEF Slots, Ranged, Same, Dispatching
<1>4. PICK n, m : n = range.length /\ m = Len(before)
  OBVIOUS
<1>5. /\ n \in Nat /\ m \in Nat /\ index \in Nat /\ index + 1 \in 1..n /\ m = n
      /\ \A i \in 1..index + 1 : i \in 1..index \/ i = index + 1
      /\ \A i \in 1..index : i # index + 1
  BY <1>1, <1>2, <1>3, <1>4, Numbers DEF BeforeInv
<1>6. Ranged[index + 1] \in Filters
  BY <1>1, <1>4, <1>5 DEF ContentInv
<1>7. called'[index + 1] = Ranged[index + 1] /\ \A i \in 1..index : called'[i] = called[i]
  BY <1>1, <1>2, <1>6, AppendProperties DEF TypeOK, Content
<1>8. ContentInv'
  BY <1>1, <1>2, <1>3, <1>5, <1>6, <1>7 DEF ContentInv
<1>9. BeforeInv'
  BY <1>1, <1>2, <1>3 DEF BeforeInv
<1>10. OrderInv'
  <2>1. \A i \in 1..m : Listed(before[i])' <=> Listed(before[i])
    BY <1>1, <1>2, <1>3 DEF Listed
  <2> QED
    BY <1>1, <1>2, <1>3, <1>4, <2>1 DEF OrderInv
<1>11. StillInv'
  BY <1>1, <1>2, <1>3, <1>4, <1>5, <1>7 DEF StillInv
<1>12. FollowInv'
  <2>1. SUFFICES ASSUME NEW q \in 1..m, Listed(before[q])'
                 PROVE  Lagging(q)' \/ \E p \in 1..m : Follows(q, p)'
    BY <1>2, <1>4 DEF FollowInv
  <2>2. Listed(before[q]) /\ (RemovedBefore(q)' <=> RemovedBefore(q)) /\ (Lagging(q)' <=> Lagging(q))
    BY <1>1, <1>2, <1>3, <2>1 DEF Listed, RemovedBefore, Lagging
  <2>3. ASSUME NEW p \in 1..m, Follows(q, p) PROVE Follows(q, p)'
    <3>1. index + 1 = p <=> Ranged[index + 1] = before[q]
      BY <1>4, <1>5, <2>3 DEF Follows
    <3>2. \A i \in 1..index : called[i] = before[q] => p <= index
      BY <2>3 DEF Follows
    <3>3. ASSUME NEW i \in 1..index + 1, NEW j \in 1..index + 1, called'[i] = before[q], called'[j] = before[q]
          PROVE  i = j
      <4>1. CASE index + 1 = p
        BY <1>5, <1>7, <3>2, <3>3, <4>1
      <4>2. CASE index + 1 # p
        <5>1. i \in 1..index /\ j \in 1..index /\ called[i] = before[q] /\ called[j] = before[q]
          BY <1>5, <1>7, <3>1, <3>3, <4>2
        <5> QED
          BY <2>3, <5>1 DEF Follows
      <4> QED
        BY <4>1, <4>2
    <3>4. \A i \in 1..index + 1 : called'[i] = before[q] => p <= index + 1
      BY <1>4, <1>5, <1>7, <3>1, <3>2
    <3>5. p <= index + 1 => RemovedBefore(q) \/ \E i \in 1..index + 1 : called'[i] = before[q]
      <4>1. CASE p = index + 1
        BY <1>5, <1>7, <3>1, <4>1
      <4>2. CASE p <= index
        BY <1>5, <1>7, <2>3, <4>2 DEF Follows
      <4> QED
        BY <1>5, <4>1, <4>2
    <3> QED
      BY <1>1, <1>2, <1>3, <2>2, <2>3, <3>3, <3>4, <3>5 DEF Follows
  <2> QED
    BY <1>1, <1>3, <1>4, <2>1, <2>2, <2>3 DEF FollowInv
<1> QED
  BY <1>1, <1>8, <1>9, <1>10, <1>11, <1>12 DEF IInv

LEMMA OtherStepsKeep ==
  ASSUME IInv, FilterReturns \/ PassOn \/ Done \/ UNCHANGED vars
  PROVE  IInv'
<1>1. UNCHANGED <<arrays, slice, fresh, range, index, before, called, removed>>
  BY DEF FilterReturns, PassOn, Done, vars, loopVars
<1>2. TypeOK /\ ContentInv /\ BeforeInv /\ OrderInv /\ StillInv /\ FollowInv
  BY DEF IInv
<1>3. TypeOK'
  BY <1>1, <1>2, LoopTyped DEF LoopStep, vars, loopVars, TypeOK, Slots, Ranged
<1>4. (Dispatching' => Dispatching) /\ (loop' = "passed" => loop = "passed" \/ index >= range.length)
  BY DEF FilterReturns, PassOn, Done, vars, loopVars, Dispatching
<1>5. Slots' = Slots /\ Ranged' = Ranged /\ (Same' <=> Same)
  BY <1>1 DEF Slots, Ranged, Same
<1>6. ContentInv' /\ StillInv'
  BY <1>1, <1>2, <1>4, <1>5 DEF ContentInv, StillInv
<1>7. BeforeInv'
  BY <1>1, <1>2, <1>4, Numbers DEF BeforeInv
<1>8. OrderInv'
  BY <1>1, <1>2, <1>4, <1>5 DEF OrderInv, Listed
<1>9. FollowInv'
  BY <1>1, <1>2, <1>4, <1>5 DEF FollowInv, Listed, Lagging, RemovedBefore, Follows
<1> QED
  BY <1>3, <1>6, <1>7, <1>8, <1>9 DEF IInv

LEMMA InitHolds == Init => IInv
<1> SUFFICES ASSUME Init PROVE IInv
  OBVIOUS
<1>1. slice.length = 0 /\ range.length = 0 /\ index = 0 /\ ~ Dispatching
  BY DEF Init, Dispatching
<1>2. 1..0 = {}
  OBVIOUS
<1> QED
  BY <1>1, <1>2, InitTyped DEF IInv, ContentInv, BeforeInv, OrderInv, StillInv, FollowInv

\* The slots of the array the loop ranges over, and which filters were called.
THEOREM Invariant == Spec => []IInv
<1>1. IInv /\ [Next]_vars => IInv'
  BY RegisterKeeps, UnregisterKeeps, DispatchKeeps, CallFilterKeeps, OtherStepsKeep DEF Next
<1> QED
  BY <1>1, InitHolds, PTL DEF Spec

(***************************************************************************)
(* ThroughEveryFilter.                                                     *)
(***************************************************************************)
LEMMA Counted ==
  ASSUME TypeOK, NEW f, \A i, j \in 1..index : called[i] = f /\ called[j] = f => i = j
  PROVE  /\ (\E i \in 1..index : called[i] = f) => Count(f) = 1
         /\ (\A i \in 1..index : called[i] # f) => Count(f) = 0
<1> DEFINE calls == {i \in 1..Len(called) : called[i] = f}
<1>1. Len(called) = index /\ Count(f) = Cardinality(calls)
  BY DEF TypeOK, Count
<1>2. ASSUME NEW i \in 1..index, called[i] = f PROVE Count(f) = 1
  <2>1. calls = {i}
    BY <1>1, <1>2
  <2> QED
    BY <1>1, <2>1, FS_Singleton
<1>3. ASSUME \A i \in 1..index : called[i] # f PROVE Count(f) = 0
  <2>1. calls = {}
    BY <1>1, <1>3
  <2> QED
    BY <1>1, <2>1, FS_EmptySet
<1> QED
  BY <1>2, <1>3

\* A message that is passed on has been through every filter that was there, once
\* and in their order, but for what a filter does that unregisters one.
THEOREM ThroughEveryFilterHolds == Spec => []ThroughEveryFilter
<1>1. IInv => ThroughEveryFilter
  <2> SUFFICES ASSUME IInv PROVE ThroughEveryFilter
    OBVIOUS
  <2>1. TypeOK /\ ContentInv /\ BeforeInv /\ OrderInv /\ StillInv /\ FollowInv
    BY DEF IInv
  <2>2. PICK n, m : n = range.length /\ m = Len(before)
    OBVIOUS
  <2>3. /\ n \in Nat /\ m \in Nat /\ index \in Nat /\ Len(called) = index
        /\ before \in Seq(Content) /\ called \in Seq(Content)
    BY <2>1, <2>2, Numbers DEF TypeOK
  <2>4. Free \notin ToSet(called)
    <3>1. \A g \in ToSet(called) : \E i \in 1..index : g = called[i]
      BY <2>3, LenProperties DEF ToSet
    <3> QED
      BY <2>1, <3>1, FilterAssumption DEF ContentInv
  <2>5. ASSUME loop = "passed" PROVE Dispatching /\ index = n /\ m = n
    BY <2>1, <2>2, <2>5 DEF Dispatching, BeforeInv
  <2>6. ASSUME loop = "passed", removed = {} PROVE called = before
    <3>1. \A i \in 1..Len(called) : called[i] = before[i]
      BY <2>1, <2>3, <2>5, <2>6 DEF StillInv
    <3>2. Len(called) = Len(before)
      BY <2>2, <2>3, <2>5, <2>6
    <3> QED
      BY <2>3, <3>1, <3>2, SeqEqual
  <2>7. ASSUME loop = "passed", NEW f \in ToSet(before) \intersect ToSet(Registered)
        PROVE  \/ Count(f) = 1
               \/ /\ \E g \in removed \intersect ToSet(before) : Position(g) < Position(f)
                  /\ \/ Count(f) = 0
                     \/ \A i \in Position(f) + 1..Len(before) : before[i] \in removed
    <3>1. /\ \A i \in 1..m : before[i] \in ToSet(before)
          /\ \A g \in ToSet(before) : \E i \in 1..m : before[i] = g
      BY <2>2, <2>3, LenProperties DEF ToSet
    <3>2. PICK q \in 1..m : before[q] = f
      BY <2>7, <3>1
    <3>3. \A i \in 1..m : Position(before[i]) = i
      BY <2>1, <2>2, <2>5, <2>7 DEF BeforeInv, Position
    <3>4. Listed(f)
      BY <2>1, <2>7, RegisteredListed
    <3>5. RemovedBefore(q) => \E g \in removed \intersect ToSet(before) : Position(g) < Position(f)
      BY <2>2, <3>1, <3>2, <3>3 DEF RemovedBefore
    <3>6. CASE Lagging(q)
      <4>1. \A i \in Position(f) + 1..Len(before) : i \in 1..m /\ q < i
        BY <2>2, <2>3, <3>2, <3>3
      <4> QED
        BY <2>2, <3>5, <3>6, <4>1 DEF Lagging
    <3>7. ASSUME NEW p \in 1..m, Follows(q, p)
          PROVE  Count(f) = 1 \/ (RemovedBefore(q) /\ Count(f) = 0)
      <4>1. p <= index
        BY <2>3, <2>5, <2>7
      <4>2. RemovedBefore(q) \/ \E i \in 1..index : called[i] = f
        BY <3>2, <3>7, <4>1 DEF Follows
      <4>3. \A i, j \in 1..index : called[i] = f /\ called[j] = f => i = j
        BY <3>2, <3>7 DEF Follows
      <4> QED
        BY <2>1, <4>2, <4>3, Counted
    <3> QED
      BY <2>1, <2>2, <2>5, <2>7, <3>2, <3>4, <3>5, <3>6, <3>7 DEF FollowInv
  <2> QED
    BY <2>4, <2>6, <2>7 DEF ThroughEveryFilter
<1> QED
  BY <1>1, Invariant, PTL

=============================================================================
