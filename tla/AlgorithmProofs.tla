------------------------- MODULE AlgorithmProofs ----------------------------
(***************************************************************************)
(* Proofs about what one goroutine does on its own: the lookup of object   *)
(* path handlers, for any patterns and paths; the alignment that encoder   *)
(* and decoder have to agree on, for any offsets; basic values, for any    *)
(* bytes around them; and the messages on a stream, for any messages.      *)
(***************************************************************************)
EXTENDS ObjectPathTable, Framing, SequenceTheorems, WellFoundedInduction, TLAPS

(***************************************************************************)
(* handlerForPath, and the table under register and unregister.            *)
(***************************************************************************)
\* Cutting k components off a path and putting "*" in their place.
LEMMA KeyShape ==
  ASSUME NEW path \in Seq(Components), NEW k \in 1..Len(path)
  PROVE  /\ LookupKey(path, k) \in Seq(Components)
         /\ Len(LookupKey(path, k)) = Len(path) - k + 1
         /\ LookupKey(path, k)[Len(path) - k + 1] = "*"
         /\ \A i \in 1..(Len(path) - k) : LookupKey(path, k)[i] = path[i]
<1> DEFINE b == Len(path) - k
<1>1. b \in Nat /\ k # 0 /\ \A i \in 1..b : path[i] \in Components
  OBVIOUS
<1>2. PICK front : front = SubSeq(path, 1, b)
  OBVIOUS
<1>3. front \in Seq(Components) /\ Len(front) = b /\ \A i \in 1..b : front[i] = path[i]
  <2>1. \A m, l \in Int : m = 1 /\ l = b => /\ SubSeq(path, m, l) \in Seq(Components)
                                           /\ Len(SubSeq(path, m, l)) = l
                                           /\ \A i \in 1..l : SubSeq(path, m, l)[i] = path[i]
    BY <1>1, SubSeqProperties
  <2>2. b \in Int /\ 1 \in Int
    BY <1>1
  <2> HIDE DEF b
  <2> QED
    BY <1>2, <2>1, <2>2, Zenon
<1>4. PICK star \in Components : star = "*"
  BY TableAssumption
<1> DEFINE key == Append(front, star)
<1>5. /\ key \in Seq(Components) /\ Len(key) = b + 1 /\ key[b + 1] = "*"
      /\ \A i \in 1..b : key[i] = path[i]
  <2> HIDE DEF b
  <2>1. key \in Seq(Components) /\ Len(key) = b + 1
    BY <1>1, <1>3, <1>4
  <2>2. key[b + 1] = star
    BY <1>1, <1>3, <1>4
  <2>3. \A i \in 1..b : key[i] = path[i]
    BY <1>1, <1>3, <1>4
  <2> QED
    BY <1>4, <2>1, <2>2, <2>3
<1>6. LookupKey(path, k) = key
  BY <1>1, <1>2, <1>4 DEF LookupKey
<1> HIDE DEF key
<1> QED
  BY <1>5, <1>6

\* The patterns that cover a path are the keys its lookup may try.
LEMMA CoversIsKey ==
  ASSUME NEW path \in Seq(Components), path # <<>>, NEW p \in Seq(Components)
  PROVE  Covers(p, path) <=> \E k \in 0..Len(path) : p = LookupKey(path, k)
<1> DEFINE n == Len(path)
<1>0. n \in Nat \ {0}
  OBVIOUS
<1>1. \A k \in 1..n : /\ LookupKey(path, k) \in Seq(Components)
                      /\ Len(LookupKey(path, k)) = n - k + 1
                      /\ LookupKey(path, k)[n - k + 1] = "*"
                      /\ \A i \in 1..(n - k) : LookupKey(path, k)[i] = path[i]
  BY KeyShape
<1>2. ASSUME Covers(p, path) PROVE \E k \in 0..n : p = LookupKey(path, k)
  <2>1. CASE p = path
    BY <1>0, <2>1 DEF LookupKey
  <2>2. CASE p # path
    <3>1. PICK m \in 0..(n - 1) : /\ Len(p) = m + 1 /\ p[m + 1] = "*"
                                  /\ \A i \in 1..m : p[i] = path[i]
      BY <1>2, <2>2 DEF Covers
    <3>2. n - m \in 1..n
      BY <1>0, <3>1
    <3>3. p = LookupKey(path, n - m)
      <4>1. PICK key \in Seq(Components) : /\ key = LookupKey(path, n - m)
                                       /\ Len(key) = m + 1 /\ key[m + 1] = "*"
                                       /\ \A i \in 1..m : key[i] = path[i]
        BY <1>0, <1>1, <3>1, <3>2
      <4>2. \A i \in 1..(m + 1) : p[i] = key[i]
        BY <3>1, <4>1
      <4>3. p = key
        BY <3>1, <4>1, <4>2, SeqEqual
      <4> QED
        BY <4>1, <4>3
    <3> QED
      BY <3>2, <3>3
  <2> QED
    BY <2>1, <2>2
<1>3. ASSUME NEW k \in 0..n, p = LookupKey(path, k) PROVE Covers(p, path)
  <2>1. CASE k = 0
    BY <1>3, <2>1 DEF LookupKey, Covers
  <2>2. CASE k # 0
    <3>1. k \in 1..n /\ n - k \in 0..(n - 1)
      BY <1>0, <2>2
    <3> QED
      BY <1>0, <1>1, <1>3, <3>1 DEF Covers
  <2> QED
    BY <2>1, <2>2
<1> QED
  BY <1>2, <1>3

\* A set of numbers has a least one.
LEMMA LeastElement ==
  ASSUME NEW T \in SUBSET Nat, T # {}
  PROVE  \E x \in T : \A y \in T : x <= y
<1>1. PICK x \in T : \A y \in T : ~ (<<y, x>> \in OpToRel(<, Nat))
  BY NatLessThanWellFounded, WFMin
<1>2. \A y, z \in Nat : y < z => <<y, z>> \in OpToRel(<, Nat)
  BY DEF OpToRel
<1>3. \A y \in T : ~ (y < x)
  BY <1>1, <1>2, Zenon
<1> QED
  BY <1>3

\* The lookup stops at its first hit, and it hits if any of its keys is there.
LEMMA FirstHitIsLeast ==
  ASSUME NEW handlers, NEW path \in Seq(Components),
         NEW k \in 0..Len(path), LookupKey(path, k) \in handlers
  PROVE  /\ FirstHit(handlers, path) # {}
         /\ \A h \in FirstHit(handlers, path) : h <= k
<1> DEFINE T == {j \in 0..Len(path) : LookupKey(path, j) \in handlers}
<1>1. T \in SUBSET Nat /\ k \in T
  OBVIOUS
<1>2. PICK x \in T : \A y \in T : x <= y
  BY <1>1, LeastElement
<1>3. \A j \in 0..(x - 1) : j \in 0..Len(path) /\ ~ (x <= j)
  BY <1>1
<1>4. x \in FirstHit(handlers, path)
  BY <1>2, <1>3 DEF FirstHit
<1>5. ASSUME NEW h \in FirstHit(handlers, path) PROVE h <= k
  <2>1. h \in Nat /\ k \in Nat /\ k \notin 0..(h - 1)
    BY <1>5 DEF FirstHit
  <2> QED
    BY <2>1
<1> QED
  BY <1>4, <1>5

\* handlerForPath finds the most specific registered pattern that covers the
\* path, and nothing if none does, whatever is registered.
THEOREM LookupIsBest ==
  ASSUME NEW handlers \in SUBSET Seq(Components), NEW none,
         NEW path \in Seq(Components), path # <<>>
  PROVE  IsBestHandler(handlers, path, HandlerForPath(handlers, path, none), none)
<1> DEFINE hit == FirstHit(handlers, path)
           n == Len(path)
           covering == {p \in handlers : Covers(p, path)}
           h == HandlerForPath(handlers, path, none)
<1>1. \A p \in covering : \E k \in 0..n : p = LookupKey(path, k)
  BY CoversIsKey
<1>2. \A k \in 0..n : LookupKey(path, k) \in handlers => LookupKey(path, k) \in covering
  BY CoversIsKey
<1>3. CASE hit = {}
  <2>1. covering = {}
    BY <1>1, <1>3, FirstHitIsLeast
  <2>2. h = none
    BY <1>3 DEF HandlerForPath
  <2> QED
    BY <2>1, <2>2 DEF IsBestHandler
<1>4. CASE hit # {}
  <2>1. PICK k \in hit : h = LookupKey(path, k)
    <3>1. (CHOOSE k \in hit : TRUE) \in hit
      BY <1>4
    <3> QED
      BY <1>4, <3>1 DEF HandlerForPath
  <2>2. k \in 0..n /\ h \in covering
    BY <1>2, <2>1 DEF FirstHit
  <2>3. ASSUME NEW q \in covering PROVE MoreSpecific(h, q, path)
    <3>1. PICK j \in 0..n : q = LookupKey(path, j)
      BY <1>1
    <3>2. k <= j
      BY <2>1, <3>1, FirstHitIsLeast
    <3>3. CASE k = 0
      BY <2>1, <3>3 DEF LookupKey, MoreSpecific
    <3>4. CASE k # 0
      <4>1. n \in Nat /\ k \in 1..n /\ j \in 1..n
        BY <2>2, <3>2, <3>4
      <4>2. Len(h) = n - k + 1 /\ Len(q) = n - j + 1
        BY <2>1, <3>1, <4>1, KeyShape
      <4>3. q = path => h = path
        <5>1. q = path => j = 1
          BY <4>1, <4>2
        <5>2. q = path => k = 1
          BY <3>2, <4>1, <5>1
        <5> QED
          BY <2>1, <3>1, <5>1, <5>2
      <4>4. Len(h) >= Len(q)
        BY <3>2, <4>1, <4>2
      <4> QED
        BY <4>3, <4>4 DEF MoreSpecific
    <3> QED
      BY <3>3, <3>4
  <2> QED
    BY <2>2, <2>3 DEF IsBestHandler
<1> QED
  BY <1>3, <1>4

\* The table holds patterns only.
TypeOK == objectPathHandlers \subseteq Patterns

LEMMA TableType == Spec => []TypeOK
<1>1. Init => TypeOK
  BY DEF Init, TypeOK
<1>2. TypeOK /\ [Next]_objectPathHandlers => TypeOK'
  BY DEF TypeOK, Next, Register, Unregister
<1> QED
  BY <1>1, <1>2, PTL DEF Spec

\* In every state of the table, a call goes to the best handler there is.
THEOREM BestHandlerAlwaysWins == Spec => []BestHandlerWins
<1>1. TypeOK => BestHandlerWins
  <2> SUFFICES ASSUME TypeOK, NEW path \in Paths
               PROVE  IsBestHandler(objectPathHandlers, path, HandlerOf(path), None)
    BY DEF BestHandlerWins
  <2>1. /\ objectPathHandlers \in SUBSET Seq(Components)
        /\ path \in Seq(Components) /\ path # <<>>
    BY TableAssumption DEF TypeOK
  <2> QED
    BY <2>1, LookupIsBest DEF HandlerOf
<1> QED
  BY <1>1, TableType, PTL

\* There is one first hit, and the handler is the pattern it found.
LEMMA FoundFirst ==
  ASSUME NEW handlers, NEW path \in Seq(Components), NEW none, NEW k \in FirstHit(handlers, path)
  PROVE  HandlerForPath(handlers, path, none) = LookupKey(path, k)
<1>. DEFINE found == CHOOSE j \in FirstHit(handlers, path) : TRUE
<1>1. found \in FirstHit(handlers, path)
  OBVIOUS
<1>2. \A j \in FirstHit(handlers, path) : j \in 0..Len(path) /\ LookupKey(path, j) \in handlers
  BY DEF FirstHit
<1>3. found <= k /\ k <= found
  BY <1>1, <1>2, FirstHitIsLeast
<1>4. found = k
  BY <1>1, <1>2, <1>3
<1>5. HandlerForPath(handlers, path, none) = LookupKey(path, found)
  BY <1>1 DEF HandlerForPath
<1> QED
  BY <1>4, <1>5

\* A smaller table gives the same handler as long as it holds it.
LEMMA HandlerKept ==
  ASSUME NEW path \in Seq(Components), NEW none, NEW large, NEW small, small \subseteq large,
         FirstHit(large, path) # {} => HandlerForPath(large, path, none) \in small
  PROVE  HandlerForPath(small, path, none) = HandlerForPath(large, path, none)
<1>1. CASE FirstHit(large, path) = {}
  <2>1. FirstHit(small, path) = {}
    <3> SUFFICES ASSUME NEW k \in FirstHit(small, path) PROVE FALSE
      OBVIOUS
    <3>1. k \in 0..Len(path) /\ LookupKey(path, k) \in large
      BY DEF FirstHit
    <3> QED
      BY <1>1, <3>1, FirstHitIsLeast
  <2> QED
    BY <1>1, <2>1 DEF HandlerForPath
<1>2. ASSUME NEW k \in FirstHit(large, path) PROVE HandlerForPath(small, path, none) = HandlerForPath(large, path, none)
  <2>1. HandlerForPath(large, path, none) = LookupKey(path, k)
    BY FoundFirst
  <2>2. k \in FirstHit(small, path)
    BY <1>2, <2>1 DEF FirstHit
  <2> QED
    BY <2>1, <2>2, FoundFirst
<1> QED
  BY <1>1, <1>2

\* The handler is registered and covers the path.
LEMMA HandlerCovers ==
  ASSUME NEW handlers \in SUBSET Seq(Components), NEW path \in Seq(Components), path # <<>>, NEW none,
         FirstHit(handlers, path) # {}
  PROVE  /\ HandlerForPath(handlers, path, none) \in handlers
         /\ Covers(HandlerForPath(handlers, path, none), path)
<1>. PICK k \in FirstHit(handlers, path) : TRUE
  OBVIOUS
<1>1. k \in 0..Len(path) /\ LookupKey(path, k) \in handlers
  BY DEF FirstHit
<1>2. HandlerForPath(handlers, path, none) = LookupKey(path, k)
  BY FoundFirst
<1> QED
  BY <1>1, <1>2, CoversIsKey

\* RegisterObjectPath and UnregisterObjectPath redirect only the calls to paths
\* that their pattern covers, and only to or from its handler.
THEOREM ChangesStayLocal == Spec => ChangesAreLocal
<1> DEFINE Local(p, path) ==
             /\ Register(p) => HandlerOf(path)' \in {p, HandlerOf(path)}
             /\ (Register(p) \/ Unregister(p)) /\ ~ Covers(p, path) => HandlerOf(path)' = HandlerOf(path)
             /\ Unregister(p) /\ HandlerOf(path) # p => HandlerOf(path)' = HandlerOf(path)
<1>1. ASSUME TypeOK, NEW p \in Patterns, NEW path \in Paths PROVE Local(p, path)
  <2>. PICK old, new : old = objectPathHandlers /\ new = objectPathHandlers'
    OBVIOUS
  <2>0. /\ path \in Seq(Components) /\ path # <<>> /\ p \in Seq(Components)
        /\ old \in SUBSET Seq(Components) /\ None \notin old /\ p # None
    BY <1>1, TableAssumption DEF TypeOK
  <2>1. /\ HandlerOf(path) = HandlerForPath(old, path, None)
        /\ HandlerOf(path)' = HandlerForPath(new, path, None)
    BY DEF HandlerOf
  <2>2. ASSUME Register(p)
        PROVE  /\ HandlerOf(path)' \in {p, HandlerOf(path)}
               /\ ~ Covers(p, path) => HandlerOf(path)' = HandlerOf(path)
    <3>1. old \subseteq new /\ new \in SUBSET Seq(Components) /\ new \ old = {p}
      BY <2>0, <2>2 DEF Register
    <3>2. CASE FirstHit(new, path) = {}
      <4>1. HandlerForPath(old, path, None) = HandlerForPath(new, path, None)
        BY <2>0, <3>1, <3>2, HandlerKept
      <4> QED
        BY <2>1, <4>1
    <3>3. CASE FirstHit(new, path) # {}
      <4>1. HandlerForPath(new, path, None) \in new /\ Covers(HandlerForPath(new, path, None), path)
        BY <2>0, <3>1, <3>3, HandlerCovers
      <4>2. HandlerForPath(new, path, None) \in old => HandlerOf(path)' = HandlerOf(path)
        BY <2>0, <2>1, <3>1, HandlerKept
      <4> QED
        BY <2>1, <3>1, <4>1, <4>2
    <3> QED
      BY <3>2, <3>3
  <2>3. ASSUME Unregister(p), HandlerOf(path) # p PROVE HandlerOf(path)' = HandlerOf(path)
    <3>1. new \subseteq old /\ new = old \ {p}
      BY <2>3 DEF Unregister
    <3>2. CASE FirstHit(old, path) = {}
      BY <2>0, <2>1, <3>1, <3>2, HandlerKept, ZenonT(40)
    <3>3. CASE FirstHit(old, path) # {}
      <4>1. HandlerForPath(old, path, None) \in new
        BY <2>0, <2>1, <2>3, <3>1, <3>3, HandlerCovers
      <4>2. HandlerForPath(new, path, None) = HandlerForPath(old, path, None)
        BY <2>0, <3>1, <4>1, HandlerKept
      <4> QED
        BY <2>1, <4>2
    <3> QED
      BY <3>2, <3>3
  <2>4. ASSUME ~ Covers(p, path) PROVE HandlerOf(path) # p
    <3>1. CASE FirstHit(old, path) = {}
      BY <2>0, <2>1, <3>1 DEF HandlerForPath
    <3>2. CASE FirstHit(old, path) # {}
      BY <2>0, <2>1, <2>4, <3>2, HandlerCovers
    <3> QED
      BY <3>1, <3>2
  <2> QED
    BY <2>2, <2>3, <2>4
<1>2. TypeOK => [\A p \in Patterns, path \in Paths : Local(p, path)]_objectPathHandlers
  BY <1>1
<1>3. Spec => [][\A p \in Patterns, path \in Paths : Local(p, path)]_objectPathHandlers
  BY <1>2, TableType, PTL DEF Spec
<1> QED
  BY <1>3 DEF ChangesAreLocal

(***************************************************************************)
(* align.                                                                  *)
(***************************************************************************)
\* align moves to the next multiple, and not further.
THEOREM AlignUpIsLeast ==
  ASSUME NEW o \in Nat, NEW n \in Alignments
  PROVE  /\ AlignUp(o, n) \in Nat
         /\ AlignUp(o, n) % n = 0
         /\ AlignUp(o, n) - n < o /\ o <= AlignUp(o, n)
<1>1. CASE n = 1  BY <1>1 DEF AlignUp
<1>2. CASE n = 2  BY <1>2 DEF AlignUp
<1>3. CASE n = 4  BY <1>3 DEF AlignUp
<1>4. CASE n = 8  BY <1>4 DEF AlignUp
<1> QED  BY <1>1, <1>2, <1>3, <1>4 DEF Alignments

\* The content of an array that is padded in a buffer of its own is padded as it
\* would be in the message if it begins at a multiple of its widest alignment.
THEOREM PadsAlike ==
  ASSUME NEW start \in Nat, NEW o \in Nat, NEW m \in Alignments, NEW n \in Alignments,
         start % m = 0, n <= m
  PROVE  AlignUp(start + o, n) = start + AlignUp(o, n)
<1>1. start % n = 0
  <2>1. CASE m = 1  BY <2>1 DEF Alignments
  <2>2. CASE m = 2  BY <2>2 DEF Alignments
  <2>3. CASE m = 4 /\ n = 1  BY <2>3
  <2>4. CASE m = 4 /\ n = 2  BY <2>4
  <2>5. CASE m = 8 /\ n = 1  BY <2>5
  <2>6. CASE m = 8 /\ n = 2  BY <2>6
  <2>7. CASE m = 8 /\ n = 4  BY <2>7
  <2>8. CASE m = n  BY <2>8
  <2> QED  BY <2>1, <2>2, <2>3, <2>4, <2>5, <2>6, <2>7, <2>8 DEF Alignments
<1>2. CASE n = 1  BY <1>2 DEF AlignUp
<1>3. CASE n = 2  BY <1>1, <1>3 DEF AlignUp
<1>4. CASE n = 4  BY <1>1, <1>4 DEF AlignUp
<1>5. CASE n = 8  BY <1>1, <1>5 DEF AlignUp
<1> QED  BY <1>2, <1>3, <1>4, <1>5 DEF Alignments

\* Where it begins at a multiple of 4 only, a value that is aligned to 8 is put 4
\* bytes away from where the decoder looks for it, whatever comes before it.
THEOREM PadsOtherwise ==
  ASSUME NEW start \in Nat, NEW o \in Nat, start % 8 = 4
  PROVE  \/ AlignUp(start + o, 8) = start + AlignUp(o, 8) + 4
         \/ AlignUp(start + o, 8) = start + AlignUp(o, 8) - 4
BY DEF AlignUp

(***************************************************************************)
(* Bytes that are put together and taken apart.                            *)
(***************************************************************************)
\* What stands between two others is found by the length of the first.
LEMMA Between ==
  ASSUME NEW a \in Seq(Byte), NEW b \in Seq(Byte), NEW c \in Seq(Byte)
  PROVE  /\ a \o b \o c \in Seq(Byte)
         /\ Len(a \o b \o c) = Len(a) + Len(b) + Len(c)
         /\ SubSeq(a \o b \o c, Len(a) + 1, Len(a) + Len(b)) = b
<1>. PICK from \in Nat : from = Len(a)
  OBVIOUS
<1>1. /\ a \o b \in Seq(Byte) /\ Len(a \o b) = from + Len(b)
      /\ \A i \in 1..from + Len(b) : (a \o b)[i] = IF i <= from THEN a[i] ELSE b[i - from]
  BY ConcatProperties
<1>. DEFINE ab == a \o b
           all == ab \o c
<1>. HIDE DEF ab
<1>2. /\ all \in Seq(Byte) /\ Len(all) = from + Len(b) + Len(c)
      /\ \A i \in 1..from + Len(b) : all[i] = ab[i]
  <2>1. ASSUME NEW x \in Seq(Byte), Len(x) = from + Len(b)
        PROVE  /\ x \o c \in Seq(Byte) /\ Len(x \o c) = from + Len(b) + Len(c)
               /\ \A i \in 1..from + Len(b) : (x \o c)[i] = x[i]
    <3>1. /\ x \o c \in Seq(Byte) /\ Len(x \o c) = Len(x) + Len(c)
          /\ \A i \in 1..Len(x) + Len(c) : (x \o c)[i] = IF i <= Len(x) THEN x[i] ELSE c[i - Len(x)]
      BY ConcatProperties, Zenon
    <3>2. Len(b) \in Nat /\ Len(c) \in Nat /\ Len(x) \in Nat
      OBVIOUS
    <3> HIDE DEF all
    <3> QED
      BY <2>1, <3>1, <3>2
  <2>2. ab \in Seq(Byte) /\ Len(ab) = from + Len(b)
    BY <1>1 DEF ab
  <2> QED
    BY <2>1, <2>2
<1>. HIDE DEF all
<1>3. \A i \in 1..Len(b) : all[from + i] = b[i]
  BY <1>1, <1>2, SMTT(30) DEF ab
<1>4. \A i \in from + 1..from + Len(b) : all[i] \in Byte
  BY <1>1, <1>2, ElementOfSeq
<1>5. /\ SubSeq(all, from + 1, from + Len(b)) \in Seq(Byte)
      /\ Len(SubSeq(all, from + 1, from + Len(b))) = Len(b)
      /\ \A i \in 1..Len(b) : SubSeq(all, from + 1, from + Len(b))[i] = all[from + i]
  <2>. PICK m, n \in Int : m = from + 1 /\ n = from + Len(b)
    OBVIOUS
  <2>1. /\ SubSeq(all, m, n) \in Seq(Byte)
        /\ Len(SubSeq(all, m, n)) = IF m <= n THEN n - m + 1 ELSE 0
        /\ \A i \in 1..n - m + 1 : SubSeq(all, m, n)[i] = all[m + i - 1]
    BY <1>4, SubSeqProperties
  <2> QED
    BY <2>1
<1>6. SubSeq(all, from + 1, from + Len(b)) = b
  BY <1>3, <1>5, SeqEqual
<1> QED
  BY <1>2, <1>6 DEF all, ab

\* Concatenation and slices as operators of which nothing else is known.
Cat(a, b) == a \o b
Slice(s, from, to) == SubSeq(s, from + 1, to)

LEMMA Joined ==
  \A a, b \in Seq(Byte) : Cat(a, b) \in Seq(Byte) /\ Len(Cat(a, b)) = Len(a) + Len(b)
BY ConcatProperties, Zenon DEF Cat

LEMMA Regrouped ==
  \A a, b, c \in Seq(Byte) : Cat(Cat(a, b), c) = Cat(a, Cat(b, c))
BY ConcatAssociative DEF Cat

LEMMA Cut ==
  \A a, b, c \in Seq(Byte) : Slice(Cat(a, Cat(b, c)), Len(a), Len(a) + Len(b)) = b
<1>. TAKE a, b, c \in Seq(Byte)
<1>1. Slice(Cat(Cat(a, b), c), Len(a), Len(a) + Len(b)) = b
  BY Between, Zenon DEF Slice, Cat
<1> QED
  BY <1>1, Regrouped

\* align appends what is missing to the next multiple.
LEMMA AlignPads ==
  ASSUME NEW data \in Seq(Byte), NEW n \in Alignments
  PROVE  \E pad \in Seq(Byte) : /\ Align(data, n) = data \o pad
                                /\ Len(data \o pad) = AlignUp(Len(data), n)
                                /\ data \o pad \in Seq(Byte)
<1>. DEFINE k == AlignUp(Len(data), n) - Len(data)
           pad == [i \in 1..k |-> 0]
<1>1. k \in Nat /\ AlignUp(Len(data), n) \in Nat
  BY AlignUpIsLeast
<1>. HIDE DEF k
<1>2. pad \in Seq(Byte) /\ Len(pad) = k
  <2>1. pad \in [1..k -> Byte]
    BY DEF Byte
  <2> QED
    BY <1>1, <2>1
<1>3. Align(data, n) = data \o pad
  BY DEF Align, k
<1>. HIDE DEF pad
<1>4. Len(data \o pad) = Len(data) + k /\ data \o pad \in Seq(Byte)
  BY <1>2, ConcatProperties
<1>5. Len(data) + k = AlignUp(Len(data), n)
  BY <1>1 DEF k
<1> QED
  BY <1>2, <1>3, <1>4, <1>5

\* A number of 32 bits is read as it was written.
LEMMA NumberReadBack ==
  ASSUME NEW n, IsUint32(n)
  PROVE  Uint32(n) \in Seq(Byte) /\ Len(Uint32(n)) = 4 /\ Number(Uint32(n)) = n
<1>. DEFINE b == n \div 65536
           r == n % 65536
           b3 == b \div 256
           b2 == b % 256
           b1 == r \div 256
           b0 == r % 256
<1>1. /\ n \in Nat /\ n = 65536 * b + r
      /\ b \in Nat /\ b < 65536 /\ r \in Nat /\ r < 65536
  BY SMT DEF IsUint32
<1>. HIDE DEF b, r
<1>2. b = 256 * b3 + b2 /\ b3 \in 0..255 /\ b2 \in 0..255
  BY <1>1, SMT
<1>3. r = 256 * b1 + b0 /\ b1 \in 0..255 /\ b0 \in 0..255
  BY <1>1, SMT
<1>. HIDE DEF b3, b2, b1, b0
<1>4. n = 16777216 * b3 + 65536 * b2 + 256 * b1 + b0 /\ n \in Nat
  BY <1>1, <1>2, <1>3, SMT
<1>5. n % 256 = b0
  BY <1>2, <1>3, <1>4, SMT
<1>6. (n \div 256) % 256 = b1
  <2>1. n \div 256 = 256 * (256 * b3 + b2) + b1
    BY <1>2, <1>3, <1>4, SMT
  <2> QED
    BY <1>2, <1>3, <2>1, SMT
<1>7. (n \div 65536) % 256 = b2
  BY <1>1, <1>2, <1>3, SMT DEF b
<1>8. (n \div 16777216) % 256 = b3
  <2>1. n \div 16777216 = b3
    BY <1>2, <1>3, <1>4, SMT
  <2> QED
    BY <1>2, <1>3, <2>1, SMT
<1>. DEFINE bytes == <<b0, b1, b2, b3>>
<1>9. Uint32(n) = bytes
  BY <1>5, <1>6, <1>7, <1>8, SMT DEF Uint32
<1>10. bytes \in Seq(Byte) /\ Len(bytes) = 4
  BY <1>2, <1>3 DEF Byte
<1>11. Number(bytes) = b0 + 256 * b1 + 65536 * b2 + 16777216 * b3
  BY SMT DEF Number
<1>12. b0 + 256 * b1 + 65536 * b2 + 16777216 * b3 = n
  BY <1>2, <1>3, <1>4, SMT
<1> QED
  BY <1>9, <1>10, <1>11, <1>12, SMT

(***************************************************************************)
(* Basic values.                                                           *)
(***************************************************************************)
Decoders == [signature : Seq(Byte), data : Seq(Byte), dataOffset : Nat, sigOffset : Nat,
             value : Seq(Byte), failed : BOOLEAN]

\* The bytes of a Go value with that signature.
IsValueOf(code, bytes) ==
  /\ code \in FixedCodes => Len(bytes) = SizeOf(code)
  /\ code = Code.s => IsUint32(Len(bytes))
  /\ code = Code.g => Len(bytes) < 256

\* A fixed value, or a length, is aligned to its size.
LEMMA SizeIsAlignment ==
  ASSUME NEW code \in BasicCodes PROVE SizeOf(code) \in Alignments
<1>1. CASE code \in {Code.y, Code.g}  BY <1>1 DEF SizeOf, Alignments
<1>2. CASE code = Code.n  BY <1>2 DEF SizeOf, Alignments, Code
<1>3. CASE code \in {Code.u, Code.s}  BY <1>3 DEF SizeOf, Alignments, Code
<1>4. CASE code = Code.t  BY <1>4 DEF SizeOf, Alignments, Code
<1> QED  BY <1>1, <1>2, <1>3, <1>4 DEF BasicCodes, FixedCodes

\* A number that begins at the next multiple is read, wherever that is.
LEMMA ReadsFixed ==
  ASSUME NEW d \in Decoders, ~ d.failed, NEW n \in Alignments,
         NEW a \in Seq(Byte), NEW b \in Seq(Byte), NEW c \in Seq(Byte),
         d.data = Cat(a, Cat(b, c)), AlignUp(d.dataOffset, n) = Len(a), Len(b) = n
  PROVE  /\ ReadFixed(d, n) = [d EXCEPT !.value = b, !.dataOffset = Len(a) + n]
         /\ ReadFixed(d, n) \in Decoders
<1>1. Slice(d.data, Len(a), Len(a) + n) = b
  <2>1. Slice(Cat(a, Cat(b, c)), Len(a), Len(a) + Len(b)) = b
    BY Cut, Zenon
  <2> QED
    BY <2>1, Zenon
<1>2. Len(d.data) = Len(a) + (n + Len(c))
  <2>1. Cat(b, c) \in Seq(Byte) /\ Len(Cat(b, c)) = Len(b) + Len(c)
    BY Joined, Zenon
  <2>2. Len(Cat(a, Cat(b, c))) = Len(a) + Len(Cat(b, c))
    BY <2>1, Joined, Zenon
  <2> QED
    BY <2>1, <2>2, Zenon
<1>3. n \in Nat /\ Len(c) \in Nat /\ Len(a) \in Nat
  BY DEF Alignments
<1>4. ~ (Len(d.data) < Len(a) + n)
  BY <1>2, <1>3
<1>5. ReadFixed(d, n) = [d EXCEPT !.value = b, !.dataOffset = Len(a) + n]
  BY <1>1, <1>4, Zenon DEF ReadFixed, Slice
<1>6. [d EXCEPT !.value = b, !.dataOffset = Len(a) + n] \in Decoders
  <2>1. Len(a) + n \in Nat
    BY <1>3
  <2> QED
    BY <2>1 DEF Decoders
<1> QED
  BY <1>5, <1>6

\* The length of a string is read as it was written.
LEMMA LengthReadBack ==
  ASSUME NEW code \in {Code.s, Code.g}, NEW bytes \in Seq(Byte), IsValueOf(code, bytes)
  PROVE  LET length == LengthBytes(Len(bytes), SizeOf(code))
         IN  length \in Seq(Byte) /\ Len(length) = SizeOf(code) /\ Number(length) = Len(bytes)
<1>1. Len(bytes) \in Nat
  BY DEF IsValueOf
<1>2. CASE code = Code.s
  <2>1. SizeOf(code) = 4 /\ IsUint32(Len(bytes))
    BY <1>2 DEF SizeOf, Code, IsValueOf
  <2>2. LengthBytes(Len(bytes), SizeOf(code)) = Uint32(Len(bytes))
    BY <2>1, SMT DEF LengthBytes
  <2> QED
    BY <2>1, <2>2, NumberReadBack
<1>3. CASE code = Code.g
  <2>1. SizeOf(code) = 1 /\ Len(bytes) < 256
    BY <1>3 DEF SizeOf, Code, IsValueOf
  <2>2. Len(bytes) % 256 = Len(bytes) /\ Len(bytes) \in Byte
    <3>1. \A k \in Nat : k < 256 => k % 256 = k /\ k \in Byte
      BY DEF Byte
    <3> QED
      BY <1>1, <2>1, <3>1
  <2>3. LengthBytes(Len(bytes), SizeOf(code)) = <<Len(bytes)>>
    BY <2>1, <2>2 DEF LengthBytes
  <2>4. <<Len(bytes)>> \in Seq(Byte) /\ Len(<<Len(bytes)>>) = 1
    BY <2>2
  <2>5. Number(<<Len(bytes)>>) = Len(bytes)
    BY <2>4 DEF Number
  <2> QED
    BY <2>1, <2>3, <2>4, <2>5
<1> QED
  BY <1>2, <1>3

\* e is d after it read bytes, up to end.
HasRead(d, bytes, end, e) ==
  e \in Decoders /\ e = [d EXCEPT !.value = bytes, !.dataOffset = end]

\* What was appended is read, whatever is before it and behind it: the value's
\* own bytes, and the decoder stands where the encoder stood.
THEOREM BasicReadBack ==
  ASSUME NEW code \in BasicCodes, NEW bytes \in Seq(Byte), IsValueOf(code, bytes),
         NEW before \in Seq(Byte), NEW after \in Seq(Byte),
         NEW d \in Decoders, ~ d.failed, d.dataOffset = Len(before),
         d.data = PutBasic(before, code, bytes) \o after
  PROVE  /\ HasRead(d, bytes, Len(PutBasic(before, code, bytes)), ReadBasic(d, code))
         /\ PutBasic(before, code, bytes) \in Seq(Byte)
<1>. DEFINE put == PutBasic(before, code, bytes)
<1>0. PICK n \in Alignments : n = SizeOf(code)
  BY SizeIsAlignment
<1>1. PICK at \in Seq(Byte) : at = Align(before, n) /\ Len(at) = AlignUp(d.dataOffset, n)
  BY AlignPads
<1>2. d.data = Cat(put, after)
  BY DEF Cat
<1>3. CASE code \in FixedCodes
  <2>1. put = Cat(at, bytes) /\ Len(bytes) = n
    BY <1>0, <1>1, <1>3, Zenon DEF PutBasic, IsValueOf, Cat
  <2>2. put \in Seq(Byte) /\ Len(put) = Len(at) + n /\ d.data = Cat(at, Cat(bytes, after))
    <3>1. Cat(at, bytes) \in Seq(Byte) /\ Len(Cat(at, bytes)) = Len(at) + Len(bytes)
      BY Joined, Zenon
    <3>2. Cat(Cat(at, bytes), after) = Cat(at, Cat(bytes, after))
      BY Regrouped, Zenon
    <3> QED
      BY <1>2, <2>1, <3>1, <3>2, Zenon
  <2>3. /\ ReadFixed(d, n) = [d EXCEPT !.value = bytes, !.dataOffset = Len(at) + n]
        /\ ReadFixed(d, n) \in Decoders
    <3>1. AlignUp(d.dataOffset, n) = Len(at) /\ Len(bytes) = n /\ d.data = Cat(at, Cat(bytes, after))
      BY <1>1, <2>1, <2>2, Zenon
    <3> QED
      BY <3>1, ReadsFixed
  <2> QED
    BY <1>0, <1>3, <2>2, <2>3 DEF ReadBasic, HasRead
<1>4. CASE code \notin FixedCodes
  <2>1. code \in {Code.s, Code.g}
    BY <1>4 DEF BasicCodes
  <2>2. PICK length \in Seq(Byte) : /\ length = LengthBytes(Len(bytes), n)
                                    /\ Len(length) = n /\ Number(length) = Len(bytes)
    BY <1>0, <2>1, LengthReadBack
  <2>3. PICK zero \in Seq(Byte) : zero = <<0>> /\ Len(zero) = 1
    <3>1. 0 \in Byte
      BY DEF Byte
    <3>2. <<0>> \in Seq(Byte) /\ Len(<<0>>) = 1
      BY <3>1
    <3> QED
      BY <3>2
  <2>4. put = Cat(Cat(Cat(at, length), bytes), zero)
    BY <1>0, <1>1, <1>4, <2>2, <2>3, Zenon DEF PutBasic, Cat
  <2>. DEFINE from == Len(at) + n
              end == from + Len(bytes)
              l == ReadFixed(d, n)
  <2>5. /\ put \in Seq(Byte) /\ Len(put) = end + 1
        /\ Len(d.data) = end + 1 + Len(after)
        /\ d.data = Cat(at, Cat(length, Cat(bytes, Cat(zero, after))))
        /\ d.data = Cat(Cat(at, length), Cat(bytes, Cat(zero, after)))
    <3>1. Cat(at, length) \in Seq(Byte) /\ Len(Cat(at, length)) = from
      <4>1. Cat(at, length) \in Seq(Byte) /\ Len(Cat(at, length)) = Len(at) + Len(length)
        BY Joined, Zenon
      <4> QED
        BY <2>2, <4>1, Zenon
    <3>2. Cat(Cat(at, length), bytes) \in Seq(Byte) /\ Len(Cat(Cat(at, length), bytes)) = end
      BY <3>1, Joined
    <3>3. put \in Seq(Byte) /\ Len(put) = end + 1
      <4>1. /\ Cat(Cat(Cat(at, length), bytes), zero) \in Seq(Byte)
            /\ Len(Cat(Cat(Cat(at, length), bytes), zero)) = Len(Cat(Cat(at, length), bytes)) + Len(zero)
        BY <3>2, Joined, Zenon
      <4> QED
        BY <2>3, <2>4, <3>2, <4>1, Zenon
    <3>4. Len(d.data) = end + 1 + Len(after)
      BY <1>2, <3>3, Joined
    <3>5. d.data = Cat(Cat(Cat(at, length), bytes), Cat(zero, after)) /\ Cat(zero, after) \in Seq(Byte)
      BY <1>2, <2>4, <3>2, Joined, Regrouped
    <3>6. d.data = Cat(Cat(at, length), Cat(bytes, Cat(zero, after))) /\ Cat(bytes, Cat(zero, after)) \in Seq(Byte)
      BY <3>1, <3>5, Joined, Regrouped
    <3>7. d.data = Cat(at, Cat(length, Cat(bytes, Cat(zero, after))))
      BY <3>6, Regrouped
    <3> QED
      BY <3>3, <3>4, <3>6, <3>7
  <2>6. l = [d EXCEPT !.value = length, !.dataOffset = from] /\ l \in Decoders
    <3>1. Cat(bytes, Cat(zero, after)) \in Seq(Byte)
      BY Joined
    <3> QED
      <4>1. /\ AlignUp(d.dataOffset, n) = Len(at) /\ Len(length) = n
            /\ d.data = Cat(at, Cat(length, Cat(bytes, Cat(zero, after))))
        BY <1>1, <2>2, <2>5, Zenon
      <4> QED
        BY <3>1, <4>1, ReadsFixed
  <2>7. l.data = d.data /\ l.dataOffset = from /\ l.value = length /\ ~ l.failed
    BY <2>6 DEF Decoders
  <2>. HIDE DEF l
  <2>8. Slice(d.data, from, end) = bytes
    <3>1. /\ Cat(at, length) \in Seq(Byte) /\ Len(Cat(at, length)) = Len(at) + Len(length)
          /\ Cat(zero, after) \in Seq(Byte)
      BY Joined, Zenon
    <3>2. Slice(Cat(Cat(at, length), Cat(bytes, Cat(zero, after))), Len(Cat(at, length)), Len(Cat(at, length)) + Len(bytes)) = bytes
      BY <3>1, Cut, Zenon
    <3> QED
      BY <2>2, <2>5, <3>1, <3>2, Zenon
  <2>9. ~ (Len(d.data) < end + 1) /\ end + 1 \in Nat
    <3>1. Len(bytes) \in Nat /\ Len(at) \in Nat /\ Len(after) \in Nat /\ n \in Nat
      BY DEF Alignments
    <3> QED
      BY <2>5, <3>1
  <2>10. ReadString(d, n) = [l EXCEPT !.value = bytes, !.dataOffset = end + 1]
    <3>. HIDE DEF from
    <3> QED
      BY <2>2, <2>7, <2>8, <2>9 DEF ReadString, l, Slice
  <2>11. [l EXCEPT !.value = bytes, !.dataOffset = end + 1] =
           [d EXCEPT !.value = bytes, !.dataOffset = end + 1]
    BY <2>6 DEF Decoders
  <2>12. [d EXCEPT !.value = bytes, !.dataOffset = end + 1] \in Decoders
    BY <2>9 DEF Decoders
  <2> QED
    BY <1>0, <1>4, <2>5, <2>10, <2>11, <2>12 DEF ReadBasic, HasRead
<1> QED
  BY <1>3, <1>4

\* What is appended leaves alone what is there.
LEMMA PutExtends ==
  ASSUME NEW code \in BasicCodes, NEW bytes \in Seq(Byte), IsValueOf(code, bytes),
         NEW before \in Seq(Byte)
  PROVE  \E r \in Seq(Byte) : PutBasic(before, code, bytes) = Cat(before, r)
<1>0. PICK n \in Alignments : n = SizeOf(code)
  BY SizeIsAlignment
<1>1. PICK pad \in Seq(Byte) : Align(before, n) = Cat(before, pad)
  BY AlignPads DEF Cat
<1>. DEFINE at == Cat(before, pad)
<1>2. at \in Seq(Byte)
  BY Joined, Zenon
<1>3. \A r \in Seq(Byte) : Cat(at, r) = Cat(before, Cat(pad, r)) /\ Cat(pad, r) \in Seq(Byte)
  BY Joined, Regrouped, ZenonT(60)
<1>. HIDE DEF at
<1>4. CASE code \in FixedCodes
  <2>1. PutBasic(before, code, bytes) = Cat(at, bytes)
    BY <1>0, <1>1, <1>4, Zenon DEF PutBasic, Cat, at
  <2> QED
    BY <1>3, <2>1, Zenon
<1>5. CASE code \notin FixedCodes
  <2>1. PICK length \in Seq(Byte) : length = LengthBytes(Len(bytes), n)
    BY <1>0, <1>5, LengthReadBack DEF BasicCodes
  <2>2. PICK zero \in Seq(Byte) : zero = <<0>>
    <3>1. 0 \in Byte
      BY DEF Byte
    <3>2. <<0>> \in Seq(Byte)
      BY <3>1
    <3> QED
      BY <3>2, Zenon
  <2>3. PutBasic(before, code, bytes) = Cat(Cat(Cat(at, length), bytes), zero)
    BY <1>0, <1>1, <1>5, <2>1, <2>2, Zenon DEF PutBasic, Cat, at
  <2>4. Cat(Cat(Cat(at, length), bytes), zero) = Cat(at, Cat(Cat(length, bytes), zero))
    <3>1. PICK string \in Seq(Byte) : string = Cat(length, bytes)
      BY Joined, Zenon
    <3>2. Cat(Cat(at, length), bytes) = Cat(at, Cat(length, bytes))
      BY <1>2, Regrouped, ZenonT(60)
    <3>3. Cat(Cat(at, string), zero) = Cat(at, Cat(string, zero))
      BY <1>2, Regrouped, ZenonT(60)
    <3> QED
      BY <3>1, <3>2, <3>3, Zenon
  <2>5. Cat(Cat(length, bytes), zero) \in Seq(Byte)
    BY Joined, Zenon
  <2> QED
    BY <1>3, <2>3, <2>4, <2>5, ZenonT(60)
<1> QED
  BY <1>4, <1>5

\* Induction over the numbers up to n.
LEMMA UpTo ==
  ASSUME NEW n \in Nat, NEW T, 0 \in T,
         \A i \in 0..n - 1 : i \in T => i + 1 \in T
  PROVE  \A i \in 0..n : i \in T
<1>. DEFINE R == {i \in 0..n : i \notin T}
<1> SUFFICES ASSUME R # {} PROVE FALSE
  OBVIOUS
<1>1. R \in SUBSET Nat
  OBVIOUS
<1>2. PICK x \in R : \A y \in R : x <= y
  <2>. HIDE DEF R
  <2> QED
    BY <1>1, LeastElement
<1>3. x # 0 /\ x \in 0..n /\ x \notin T
  BY <1>2
<1>4. x - 1 \in 0..n - 1 /\ x - 1 \in 0..n /\ (x - 1) + 1 = x /\ ~ (x <= x - 1)
  BY <1>3
<1>5. x - 1 \in T
  BY <1>2, <1>4
<1> QED
  BY <1>3, <1>4, <1>5, Zenon

\* n values are appended one after the other: data[i] is there after i of them.
Appended(n, codes, values, data) ==
  /\ codes \in [1..n -> BasicCodes] /\ values \in [1..n -> Seq(Byte)]
  /\ data[0] \in Seq(Byte)
  /\ \A i \in 1..n : /\ IsValueOf(codes[i], values[i])
                     /\ data[i] = PutBasic(data[i - 1], codes[i], values[i])

\* What is there stays.
Growing(n, data) ==
  \A i \in 0..n : data[i] \in Seq(Byte) /\ \E r \in Seq(Byte) : data[n] = Cat(data[i], r)

\* What each step of it means.
LEMMA AppendedStep ==
  ASSUME NEW n \in Nat, NEW codes, NEW values, NEW data, Appended(n, codes, values, data)
  PROVE  \A i \in 0..n - 1 :
            /\ i + 1 \in 1..n /\ i + 1 \in 0..n /\ i \in 0..n
            /\ data[i + 1] = PutBasic(data[i], codes[i + 1], values[i + 1])
            /\ codes[i + 1] \in BasicCodes /\ values[i + 1] \in Seq(Byte)
            /\ IsValueOf(codes[i + 1], values[i + 1])
<1>. TAKE i \in 0..n - 1
<1>1. i + 1 \in 1..n /\ (i + 1) - 1 = i /\ i + 1 \in 0..n /\ i \in 0..n
  OBVIOUS
<1>2. codes[i + 1] \in BasicCodes /\ values[i + 1] \in Seq(Byte)
  <2>1. codes \in [1..n -> BasicCodes] /\ values \in [1..n -> Seq(Byte)]
    BY Zenon DEF Appended
  <2> QED
    BY <1>1, <2>1
<1>3. /\ data[i + 1] = PutBasic(data[(i + 1) - 1], codes[i + 1], values[i + 1])
      /\ IsValueOf(codes[i + 1], values[i + 1])
  BY <1>1, Zenon DEF Appended
<1> QED
  BY <1>1, <1>2, <1>3, Zenon

\* No value that is appended takes anything away from what was there before it.
LEMMA AllExtend ==
  ASSUME NEW n \in Nat, NEW codes, NEW values, NEW data, Appended(n, codes, values, data)
  PROVE  Growing(n, data)
<1>1. \A i \in 0..n - 1 :
            /\ i + 1 \in 0..n
            /\ data[i + 1] = PutBasic(data[i], codes[i + 1], values[i + 1])
            /\ codes[i + 1] \in BasicCodes /\ values[i + 1] \in Seq(Byte)
            /\ IsValueOf(codes[i + 1], values[i + 1])
  BY SMTT(30), AppendedStep
<1>0. data[0] \in Seq(Byte)
  BY Zenon DEF Appended
<1>2. ASSUME NEW i \in 0..n - 1, data[i] \in Seq(Byte)
      PROVE  \E r \in Seq(Byte) : data[i + 1] = Cat(data[i], r)
  <2>1. \E r \in Seq(Byte) : PutBasic(data[i], codes[i + 1], values[i + 1]) = Cat(data[i], r)
    BY <1>1, <1>2, PutExtends, Zenon
  <2> QED
    BY <1>1, <2>1, Zenon
<1>3. \A i \in 0..n : data[i] \in Seq(Byte)
  <2>. DEFINE T == {i \in 0..n : data[i] \in Seq(Byte)}
  <2>1. 0 \in T
    BY <1>0
  <2>2. \A i \in 0..n - 1 : i \in T => i + 1 \in T
    <3>. TAKE i \in 0..n - 1
    <3>. HAVE i \in T
    <3>1. PICK r \in Seq(Byte) : data[i] \in Seq(Byte) /\ data[i + 1] = Cat(data[i], r)
      BY <1>2, Zenon
    <3>2. Cat(data[i], r) \in Seq(Byte)
      BY <3>1, Joined, Zenon
    <3> QED
      BY <1>1, <3>1, <3>2, Zenon
  <2> HIDE DEF T
  <2>3. \A i \in 0..n : i \in T
    BY <2>1, <2>2, UpTo, Zenon
  <2> QED
    BY <2>3, Zenon DEF T
<1>4. \A i \in 0..n : \E r \in Seq(Byte) : data[n] = Cat(data[i], r)
  <2>. DEFINE T == {k \in 0..n : \E r \in Seq(Byte) : data[n] = Cat(data[n - k], r)}
  <2>1. 0 \in T
    <3>1. data[n] \in Seq(Byte) /\ 0 \in 0..n /\ n - 0 = n
      BY <1>3
    <3>2. Cat(data[n], <<>>) = data[n] /\ <<>> \in Seq(Byte)
      BY <3>1, ConcatEmptySeq DEF Cat
    <3>3. data[n] = Cat(data[n - 0], <<>>)
      BY <3>1, <3>2, Zenon
    <3> QED
      BY <3>1, <3>2, <3>3, Zenon
  <2>2. ASSUME NEW k \in 0..n - 1, k \in T PROVE k + 1 \in T
    <3>. DEFINE j == n - (k + 1)
    <3>1. k + 1 \in 0..n /\ j \in 0..n - 1 /\ j \in 0..n /\ j + 1 = n - k
      OBVIOUS
    <3>2. PICK r \in Seq(Byte) : data[n] = Cat(data[j + 1], r)
      BY <2>2, <3>1, Zenon
    <3>. HIDE DEF j
    <3>3. data[j] \in Seq(Byte)
      BY <1>3, <3>1, Zenon
    <3>4. PICK q \in Seq(Byte) : data[j + 1] = Cat(data[j], q)
      BY <1>2, <3>1, <3>3, Zenon
    <3>5. Cat(Cat(data[j], q), r) = Cat(data[j], Cat(q, r)) /\ Cat(q, r) \in Seq(Byte)
      BY <3>3, Joined, Regrouped, Zenon
    <3>6. data[n] = Cat(data[j], Cat(q, r))
      BY <3>2, <3>4, <3>5, Zenon
    <3> QED
      BY <3>1, <3>5, <3>6, Zenon DEF j
  <2> HIDE DEF T
  <2>3. \A k \in 0..n : k \in T
    BY <2>1, <2>2, UpTo, Zenon
  <2>. TAKE i \in 0..n
  <2>4. n - i \in 0..n /\ n - (n - i) = i
    OBVIOUS
  <2>5. \E r \in Seq(Byte) : data[n] = Cat(data[n - (n - i)], r)
    BY <2>3, <2>4, Zenon DEF T
  <2> QED
    BY <2>4, <2>5, Zenon
<1> QED
  BY <1>3, <1>4, Zenon DEF Growing

\* What is appended in a buffer of its own is what would be appended behind a
\* multiple of its alignment.
THEOREM PutInPlace ==
  ASSUME NEW code \in BasicCodes, NEW bytes \in Seq(Byte), IsValueOf(code, bytes),
         NEW start \in Seq(Byte), NEW content \in Seq(Byte), Len(start) % SizeOf(code) = 0
  PROVE  PutBasic(Cat(start, content), code, bytes) = Cat(start, PutBasic(content, code, bytes))
<1>0. PICK n \in Alignments : n = SizeOf(code)
  BY SizeIsAlignment
<1>11. \A x, y \in Seq(Byte) : Cat(Cat(start, x), y) = Cat(start, Cat(x, y))
  BY Regrouped, Zenon
<1>1. PICK from \in Nat, o \in Nat : from = Len(start) /\ o = Len(content)
  OBVIOUS
<1>2. AlignUp(from + o, n) = from + AlignUp(o, n)
  <2>1. from % n = 0 /\ n <= n
    BY <1>0, <1>1 DEF Alignments
  <2> QED
    BY <2>1, PadsAlike
<1>3. Len(Cat(start, content)) = from + o /\ Cat(start, content) \in Seq(Byte)
  BY <1>1, Joined
<1>4. AlignUp(from + o, n) - (from + o) = AlignUp(o, n) - o
  <2>1. AlignUp(o, n) \in Nat
    BY AlignUpIsLeast
  <2> QED
    BY <1>2, <2>1
<1>. DEFINE Pad(k) == [i \in 1..k |-> 0]
<1>. HIDE DEF Pad
<1>5. /\ Align(Cat(start, content), n) = Cat(Cat(start, content), Pad(AlignUp(o, n) - o))
      /\ Align(content, n) = Cat(content, Pad(AlignUp(o, n) - o))
  BY <1>1, <1>3, <1>4, Zenon DEF Align, Cat, Pad
<1>6. PICK pad \in Seq(Byte) : pad = Pad(AlignUp(o, n) - o)
  <2>1. AlignUp(o, n) - o \in Nat
    BY SMTT(30), AlignUpIsLeast
  <2>2. \A k \in Nat : [i \in 1..k |-> 0] \in Seq(Byte)
    <3>1. \A k \in Nat : [i \in 1..k |-> 0] \in [1..k -> Byte]
      BY DEF Byte
    <3> QED
      BY <3>1
  <2> QED
    BY <2>1, <2>2, Zenon DEF Pad
<1>7. PICK at \in Seq(Byte) : at = Align(content, n)
  BY <1>5, <1>6, Joined, Zenon
<1>8. Align(Cat(start, content), n) = Cat(start, at)
  <2>1. Cat(Cat(start, content), pad) = Cat(start, Cat(content, pad))
    BY Regrouped, ZenonT(60)
  <2> QED
    BY <1>5, <1>6, <1>7, <2>1, Zenon
<1>9. CASE code \in FixedCodes
  <2>1. Cat(Cat(start, at), bytes) = Cat(start, Cat(at, bytes))
    BY <1>11, Zenon
  <2>2. /\ PutBasic(Cat(start, content), code, bytes) = Cat(Align(Cat(start, content), n), bytes)
        /\ PutBasic(content, code, bytes) = Cat(Align(content, n), bytes)
    BY <1>0, <1>9, Zenon DEF PutBasic, Cat
  <2> QED
    BY <1>7, <1>8, <2>1, <2>2, Zenon
<1>10. CASE code \notin FixedCodes
  <2>1. PICK length \in Seq(Byte) : length = LengthBytes(Len(bytes), n)
    BY <1>0, <1>10, LengthReadBack DEF BasicCodes
  <2>2. PICK zero \in Seq(Byte) : zero = <<0>>
    <3>1. 0 \in Byte
      BY DEF Byte
    <3>2. <<0>> \in Seq(Byte)
      BY <3>1
    <3> QED
      BY <3>2, Zenon
  <2>3. \A x \in Seq(Byte) : \A y : Align(y, n) = x =>
           PutBasic(y, code, bytes) = Cat(Cat(Cat(x, length), bytes), zero)
    BY <1>0, <1>10, <2>1, <2>2, Zenon DEF PutBasic, Cat
  <2>4. PICK rest \in Seq(Byte) : rest = Cat(at, length)
    BY Joined, Zenon
  <2>5. PICK more \in Seq(Byte) : more = Cat(rest, bytes)
    BY Joined, Zenon
  <2>6. /\ Cat(Cat(start, at), length) = Cat(start, Cat(at, length))
        /\ Cat(start, at) \in Seq(Byte)
    BY <1>11, Joined, Zenon
  <2>7. Cat(Cat(start, rest), bytes) = Cat(start, Cat(rest, bytes))
    BY <1>11, Zenon
  <2>8. Cat(Cat(start, more), zero) = Cat(start, Cat(more, zero))
    BY <1>11, Zenon
  <2>9. PutBasic(Cat(start, content), code, bytes) = Cat(Cat(Cat(Cat(start, at), length), bytes), zero)
    BY <1>8, <2>3, <2>6, Zenon
  <2>10. PutBasic(content, code, bytes) = Cat(more, zero)
    BY <1>7, <2>3, <2>4, <2>5, Zenon
  <2> QED
    BY <2>4, <2>5, <2>6, <2>7, <2>8, <2>9, <2>10, Zenon
<1> QED
  BY <1>9, <1>10

\* A value takes at least a byte.
LEMMA PutGrows ==
  ASSUME NEW code \in BasicCodes, NEW bytes \in Seq(Byte), IsValueOf(code, bytes),
         NEW before \in Seq(Byte)
  PROVE  Len(before) < Len(PutBasic(before, code, bytes))
<1>0. PICK n \in Alignments : n = SizeOf(code)
  BY SizeIsAlignment
<1>1. PICK at \in Seq(Byte) : at = Align(before, n) /\ Len(before) <= Len(at)
  <2>1. AlignUp(Len(before), n) \in Nat /\ Len(before) <= AlignUp(Len(before), n)
    BY AlignUpIsLeast
  <2> QED
    BY <2>1, AlignPads
<1>2. CASE code \in FixedCodes
  <2>1. PutBasic(before, code, bytes) = Cat(at, bytes) /\ Len(bytes) = n
    BY <1>0, <1>1, <1>2, Zenon DEF PutBasic, IsValueOf, Cat
  <2>2. Len(Cat(at, bytes)) = Len(at) + Len(bytes)
    BY Joined, Zenon
  <2>3. n \in Nat /\ n > 0
    BY DEF Alignments
  <2> QED
    BY <1>1, <2>1, <2>2, <2>3
<1>3. CASE code \notin FixedCodes
  <2>1. PICK length \in Seq(Byte) : length = LengthBytes(Len(bytes), n)
    BY <1>0, <1>3, LengthReadBack DEF BasicCodes
  <2>2. PICK zero \in Seq(Byte) : zero = <<0>> /\ Len(zero) = 1
    <3>1. 0 \in Byte
      BY DEF Byte
    <3>2. <<0>> \in Seq(Byte) /\ Len(<<0>>) = 1
      BY <3>1
    <3> QED
      BY <3>2, Zenon
  <2>3. PutBasic(before, code, bytes) = Cat(Cat(Cat(at, length), bytes), zero)
    BY <1>0, <1>1, <1>3, <2>1, <2>2, Zenon DEF PutBasic, Cat
  <2>4. PICK x \in Seq(Byte) : x = Cat(at, length) /\ Len(x) = Len(at) + Len(length)
    BY Joined, Zenon
  <2>5. PICK y \in Seq(Byte) : y = Cat(x, bytes) /\ Len(y) = Len(x) + Len(bytes)
    BY Joined, Zenon
  <2>6. Len(Cat(y, zero)) = Len(y) + Len(zero)
    BY Joined, Zenon
  <2>7. PutBasic(before, code, bytes) = Cat(y, zero)
    BY <2>3, <2>4, <2>5, Zenon
  <2>8. Len(before) < Len(y) + Len(zero)
    BY <1>1, <2>2, <2>4, <2>5
  <2> QED
    BY <2>6, <2>7, <2>8, Zenon
<1> QED
  BY <1>2, <1>3

\* d has come to a value that was appended.
AtValue(d, code, bytes, before, after) ==
  /\ code \in BasicCodes /\ bytes \in Seq(Byte) /\ IsValueOf(code, bytes)
  /\ before \in Seq(Byte) /\ after \in Seq(Byte)
  /\ d \in Decoders /\ ~ d.failed /\ d.dataOffset = Len(before)
  /\ d.data = PutBasic(before, code, bytes) \o after

\* Then readByte ... readString read it.
LEMMA AtValueReadBack ==
  \A d, code, bytes, before, after : AtValue(d, code, bytes, before, after) =>
     HasRead(d, bytes, Len(PutBasic(before, code, bytes)), ReadBasic(d, code))
BY BasicReadBack, ZenonT(60) DEF AtValue

\* decodeValue reads a basic value where the last one ended.
LEMMA NextReadBack ==
  ASSUME NEW d, NEW bytes, NEW before, NEW after, NEW end \in Nat,
         HasMore(d), AtValue(d, CodeAt(d), bytes, before, after),
         end = Len(PutBasic(before, CodeAt(d), bytes))
  PROVE  HasRead(PastCode(d), bytes, end, DecodeBasic(d))
<1>0. d \in Decoders /\ ~ d.failed /\ CodeAt(d) \in BasicCodes
  BY Zenon DEF AtValue
<1>. DEFINE next == PastCode(d)
<1>1. /\ next \in Decoders /\ ~ next.failed /\ next.dataOffset = d.dataOffset
      /\ next.data = d.data
  <2>1. ASSUME NEW c \in Decoders, ~ c.failed
        PROVE  /\ PastCode(c) \in Decoders /\ ~ PastCode(c).failed
               /\ PastCode(c).dataOffset = c.dataOffset /\ PastCode(c).data = c.data
    BY <2>1 DEF Decoders, PastCode
  <2> QED
    BY <1>0, <2>1, Zenon
<1>2. DecodeBasic(d) = ReadBasic(next, CodeAt(d))
  BY <1>0, Zenon DEF DecodeBasic
<1>. HIDE DEF next
<1>3. AtValue(next, CodeAt(d), bytes, before, after)
  BY <1>1, Zenon DEF AtValue
<1>4. HasRead(next, bytes, Len(PutBasic(before, CodeAt(d), bytes)), ReadBasic(next, CodeAt(d)))
  BY <1>3, AtValueReadBack, Zenon
<1> QED
  BY <1>2, <1>4, Zenon DEF next

\* Basic arguments, as many as there are: each is read as it was appended, the
\* next one where the encoder put it, whatever comes before them.
THEOREM ArgsReadBack ==
  ASSUME NEW sg \in Seq(BasicCodes), NEW n \in Nat, n = Len(sg),
         NEW values, NEW data, Appended(n, sg, values, data),
         NEW d, d[0] = NewDecoder(sg, data[n], Len(data[0])),
         \A i \in 1..n : d[i] = DecodeBasic(d[i - 1])
  PROVE  \A i \in 1..n : /\ ~ d[i].failed /\ d[i].value = values[i]
                         /\ d[i].sigOffset = i /\ d[i].dataOffset = Len(data[i])
<1>1. \A i \in 0..n - 1 : /\ data[i + 1] = PutBasic(data[i], sg[i + 1], values[i + 1])
                          /\ d[i + 1] = DecodeBasic(d[i])
                          /\ i + 1 \in 1..n /\ i + 1 \in 0..n /\ i \in 0..n /\ i < n
                          /\ sg[i + 1] \in BasicCodes /\ values[i + 1] \in Seq(Byte)
                          /\ IsValueOf(sg[i + 1], values[i + 1])
  <2>. TAKE i \in 0..n - 1
  <2>1. (i + 1) - 1 = i /\ i < n
    OBVIOUS
  <2>2. /\ i + 1 \in 1..n /\ i + 1 \in 0..n /\ i \in 0..n
        /\ data[i + 1] = PutBasic(data[i], sg[i + 1], values[i + 1])
        /\ sg[i + 1] \in BasicCodes /\ values[i + 1] \in Seq(Byte)
        /\ IsValueOf(sg[i + 1], values[i + 1])
    BY AppendedStep
  <2>3. d[i + 1] = DecodeBasic(d[(i + 1) - 1])
    BY <2>2, Zenon
  <2> QED
    BY <2>1, <2>2, <2>3, Zenon
<1>2. Growing(n, data)
  BY AllExtend, Zenon
<1>3. \A i \in 0..n : data[i] \in Seq(Byte)
  BY <1>2, Zenon DEF Growing
<1>4. \A i \in 0..n : \E r \in Seq(Byte) : data[n] = Cat(data[i], r)
  BY <1>2, Zenon DEF Growing
<1>. DEFINE Good(i) == /\ d[i] \in Decoders /\ ~ d[i].failed
                       /\ d[i].signature = sg /\ d[i].data = data[n]
                       /\ d[i].sigOffset = i /\ d[i].dataOffset = Len(data[i])
                       /\ i # 0 => d[i].value = values[i]
<1>5. Good(0)
  <2>1. sg \in Seq(Byte)
    <3>1. BasicCodes \subseteq Byte
      BY DEF BasicCodes, FixedCodes, Code, Byte
    <3> QED
      BY <3>1
  <2>2. data[n] \in Seq(Byte)
    BY <1>3
  <2>3. PICK all \in Seq(Byte), from \in Nat : all = data[n] /\ from = Len(data[0])
    BY <2>2
  <2>4. /\ NewDecoder(sg, all, from) \in Decoders /\ ~ NewDecoder(sg, all, from).failed
        /\ NewDecoder(sg, all, from).signature = sg /\ NewDecoder(sg, all, from).data = all
        /\ NewDecoder(sg, all, from).sigOffset = 0 /\ NewDecoder(sg, all, from).dataOffset = from
    BY <2>1 DEF NewDecoder, Decoders
  <2> QED
    BY <2>3, <2>4, Zenon
<1>6. ASSUME NEW i \in 0..n - 1, Good(i) PROVE Good(i + 1)
  <2>1. PICK before \in Seq(Byte), bytes \in Seq(Byte) : before = data[i] /\ bytes = values[i + 1]
    BY <1>1, <1>3, Zenon
  <2>2. PICK put \in Seq(Byte) : put = PutBasic(before, sg[i + 1], bytes) /\ put = data[i + 1]
    BY <1>1, <1>3, <2>1, Zenon
  <2>3. PICK after \in Seq(Byte) : data[n] = Cat(put, after)
    BY <1>1, <1>4, <2>2, Zenon
  <2>4. PICK end \in Nat : end = Len(put)
    OBVIOUS
  <2>5. PICK c \in Decoders : c = d[i]
    BY <1>6, Zenon
  <2>6. HasRead(PastCode(c), bytes, end, DecodeBasic(c))
    <3>1. HasMore(c) /\ CodeAt(c) = sg[i + 1]
      BY <1>1, <1>6, <2>5, ZenonT(60) DEF HasMore, CodeAt
    <3>2. AtValue(c, CodeAt(c), bytes, before, after)
      BY <1>1, <1>6, <2>1, <2>2, <2>3, <2>5, <3>1, Zenon DEF AtValue, Cat
    <3>3. end = Len(PutBasic(before, CodeAt(c), bytes))
      BY <2>2, <2>4, <3>1, Zenon
    <3> QED
      BY <3>1, <3>2, <3>3, NextReadBack, Zenon
  <2>. HIDE DEF Good
  <2>7. ASSUME NEW e, HasRead(PastCode(c), bytes, end, e)
        PROVE  /\ e \in Decoders
               /\ e.failed = c.failed /\ e.signature = c.signature /\ e.data = c.data
               /\ e.sigOffset = c.sigOffset + 1 /\ e.dataOffset = end /\ e.value = bytes
    BY <2>7 DEF HasRead, PastCode, Decoders
  <2>8. d[i + 1] = DecodeBasic(c)
    BY <1>1, <2>5, Zenon
  <2>9. PICK e : e = DecodeBasic(c)
    BY Zenon
  <2>10. /\ e \in Decoders
         /\ e.failed = c.failed /\ e.signature = c.signature /\ e.data = c.data
         /\ e.sigOffset = c.sigOffset + 1 /\ e.dataOffset = end /\ e.value = bytes
    BY <2>6, <2>7, <2>9, Zenon
  <2>11. d[i + 1] = e /\ ~ c.failed /\ c.signature = sg /\ c.data = data[n] /\ c.sigOffset = i
    BY <1>6, <2>5, <2>8, <2>9, Zenon DEF Good
  <2>12. end = Len(data[i + 1]) /\ bytes = values[i + 1]
    BY <2>1, <2>2, <2>4, Zenon
  <2> QED
    BY <2>10, <2>11, <2>12, Zenon DEF Good
<1>7. \A i \in 0..n : Good(i)
  <2>. DEFINE T == {i \in 0..n : Good(i)}
  <2>. HIDE DEF Good
  <2>1. 0 \in T
    BY <1>5
  <2>2. \A i \in 0..n - 1 : i \in T => i + 1 \in T
    BY <1>1, <1>6, Zenon
  <2> HIDE DEF T
  <2>3. \A i \in 0..n : i \in T
    BY <2>1, <2>2, UpTo, Zenon
  <2> QED
    BY <2>3, Zenon DEF T
<1>8. \A i \in 1..n : i \in 0..n /\ i # 0
  OBVIOUS
<1> QED
  BY <1>7, <1>8, Zenon

\* Of the basic types t alone is aligned to 8.
LEMMA OnlyTIsWide ==
  ASSUME NEW code \in BasicCodes, code # Code.t
  PROVE  SizeOf(code) # 8 /\ code \notin {Code.t, Code.struct, Code.pair}
<1>1. CASE code \in {Code.y, Code.g}  BY <1>1 DEF SizeOf, Code
<1>2. CASE code = Code.n  BY <1>2 DEF SizeOf, Code
<1>3. CASE code \in {Code.u, Code.s}  BY <1>3 DEF SizeOf, Code
<1> QED  BY <1>1, <1>2, <1>3 DEF BasicCodes, FixedCodes

\* Where the content of an array begins.
LEMMA ContentBegins ==
  ASSUME NEW before \in Seq(Byte), NEW size, IsUint32(size), NEW n \in Alignments
  PROVE  \E a, pad, start \in Seq(Byte) :
           /\ start = Align(Align(before, 4) \o Uint32(size), n)
           /\ start = Cat(a, Cat(Uint32(size), pad))
           /\ Len(a) = AlignUp(Len(before), 4) /\ Len(start) = AlignUp(Len(a) + 4, n)
           /\ Len(start) % n = 0
           /\ n # 8 => Len(start) = Len(a) + 4
<1>1. 4 \in Alignments
  BY DEF Alignments
<1>2. PICK a \in Seq(Byte) : a = Align(before, 4) /\ Len(a) = AlignUp(Len(before), 4)
  BY <1>1, AlignPads
<1>3. PICK length \in Seq(Byte) : length = Uint32(size) /\ Len(length) = 4
  BY NumberReadBack
<1>4. PICK x \in Seq(Byte) : x = Cat(a, length) /\ Len(x) = Len(a) + 4
  <2>1. Cat(a, length) \in Seq(Byte) /\ Len(Cat(a, length)) = Len(a) + Len(length)
    BY Joined, Zenon
  <2> QED
    BY <1>3, <2>1, Zenon
<1>5. PICK pad \in Seq(Byte) : /\ Align(x, n) = Cat(x, pad) /\ Cat(x, pad) \in Seq(Byte)
                               /\ Len(Cat(x, pad)) = AlignUp(Len(x), n)
  BY AlignPads DEF Cat
<1>6. Cat(x, pad) = Cat(a, Cat(length, pad))
  BY <1>4, Regrouped, ZenonT(60)
<1>7. AlignUp(Len(x), n) % n = 0 /\ (n # 8 => AlignUp(Len(x), n) = Len(a) + 4)
  <2>1. AlignUp(Len(x), n) % n = 0
    BY AlignUpIsLeast
  <2>2. PICK k \in Nat : k = Len(a) /\ Len(x) = k + 4 /\ k % 4 = 0
    <3>1. Len(a) % 4 = 0
      BY <1>1, <1>2, AlignUpIsLeast
    <3> QED
      BY <1>4, <3>1
  <2>3. n = 1 \/ n = 2 \/ n = 4 \/ n = 8
    BY DEF Alignments
  <2>8. PICK q \in Nat : k = 4 * q
    BY <2>2
  <2>4. CASE n = 1  BY <2>2, <2>4 DEF AlignUp
  <2>5. CASE n = 2
    <3>1. AlignUp(k + 4, 2) = k + 4
      BY <2>8 DEF AlignUp
    <3> QED
      BY <2>1, <2>2, <2>5, <3>1
  <2>6. CASE n = 4
    <3>1. AlignUp(k + 4, 4) = k + 4
      BY <2>8 DEF AlignUp
    <3> QED
      BY <2>1, <2>2, <2>6, <3>1
  <2>7. CASE n = 8
    BY <2>1, <2>7
  <2> QED
    BY <2>3, <2>4, <2>5, <2>6, <2>7
<1>8. PICK start \in Seq(Byte) : start = Cat(x, pad)
  BY <1>5, Zenon
<1>9. start = Align(Align(before, 4) \o Uint32(size), n)
  BY <1>2, <1>3, <1>4, <1>5, <1>8, Zenon DEF Cat
<1>10. start = Cat(a, Cat(Uint32(size), pad))
  BY <1>3, <1>6, <1>8, Zenon
<1>11. /\ Len(start) = AlignUp(Len(a) + 4, n) /\ Len(start) % n = 0
       /\ n # 8 => Len(start) = Len(a) + 4
  BY <1>4, <1>5, <1>7, <1>8, Zenon
<1> QED
  BY <1>2, <1>9, <1>10, <1>11, Zenon

\* d has come to an array of basic values.
AtArray(d, code, content, before, after) ==
  /\ d \in Decoders /\ ~ d.failed /\ HasMore(d) /\ CodeAt(d) = code /\ d.dataOffset = Len(before)
  /\ d.data = WithLength(Align(before, 4), content, SizeOf(code)) \o after

\* The decoder finds its length, and where its content begins.
LEMMA ElementsFound ==
  ASSUME NEW code \in BasicCodes, NEW before \in Seq(Byte), NEW content \in Seq(Byte),
         IsUint32(Len(content)), NEW after \in Seq(Byte), NEW d,
         AtArray(d, code, content, before, after)
  PROVE  \E start \in Seq(Byte) :
           /\ WithLength(Align(before, 4), content, SizeOf(code)) = Cat(start, content)
           /\ Len(start) % SizeOf(code) = 0
           /\ HasRead(d, Uint32(Len(content)), Len(start), AtElements(d))
           /\ EndOfElements(d) = Len(Cat(start, content))
<1>. USE DEF AtArray
<1>0. PICK n \in Alignments : n = SizeOf(code)
  BY SizeIsAlignment
<1>1. PICK a, pad, start \in Seq(Byte) :
           /\ start = Align(Align(before, 4) \o Uint32(Len(content)), n)
           /\ start = Cat(a, Cat(Uint32(Len(content)), pad))
           /\ Len(a) = AlignUp(Len(before), 4) /\ Len(start) = AlignUp(Len(a) + 4, n)
           /\ Len(start) % n = 0
           /\ n # 8 => Len(start) = Len(a) + 4
  BY ContentBegins
<1>2. WithLength(Align(before, 4), content, n) = Cat(start, content)
  BY <1>1, Zenon DEF WithLength, Cat
<1>3. PICK length \in Seq(Byte) : /\ length = Uint32(Len(content)) /\ Len(length) = 4
                                  /\ Number(length) = Len(content)
  BY NumberReadBack
<1>4. PICK rest \in Seq(Byte) : d.data = Cat(a, Cat(length, rest))
  <2>1. \A x, y, z \in Seq(Byte) : Cat(Cat(x, y), z) = Cat(x, Cat(y, z))
    BY Regrouped
  <2>2. PICK c \in Seq(Byte) : c = Cat(content, after)
    BY Joined, Zenon
  <2>3. d.data = Cat(start, c)
    <3>1. WithLength(Align(before, 4), content, SizeOf(code)) = Cat(start, content)
      BY <1>0, <1>2, Zenon
    <3>2. d.data = Cat(Cat(start, content), after)
      BY <3>1, Zenon DEF Cat
    <3>3. Cat(Cat(start, content), after) = Cat(start, Cat(content, after))
      BY <2>1, SMT
    <3> QED
      BY <2>2, <3>2, <3>3, Zenon
  <2>4. PICK lp \in Seq(Byte) : lp = Cat(length, pad)
    BY Joined, Zenon
  <2>5. start = Cat(a, lp)
    BY <1>1, <1>3, <2>4, Zenon
  <2>6. d.data = Cat(a, Cat(lp, c))
    <3>1. Cat(Cat(a, lp), c) = Cat(a, Cat(lp, c))
      BY <2>1, SMT
    <3> QED
      BY <2>3, <2>5, <3>1, Zenon
  <2>7. Cat(lp, c) = Cat(length, Cat(pad, c)) /\ Cat(pad, c) \in Seq(Byte)
    <3>1. Cat(Cat(length, pad), c) = Cat(length, Cat(pad, c))
      BY <2>1, SMT
    <3>2. Cat(pad, c) \in Seq(Byte)
      BY Joined, Zenon
    <3> QED
      BY <2>4, <3>1, <3>2, Zenon
  <2> QED
    BY <2>6, <2>7, Zenon
<1>5. /\ ReadFixed(d, 4) = [d EXCEPT !.value = length, !.dataOffset = Len(a) + 4]
      /\ ReadFixed(d, 4) \in Decoders
  <2>1. PICK four \in Alignments : four = 4
    BY DEF Alignments
  <2>2. /\ AlignUp(d.dataOffset, four) = Len(a) /\ Len(length) = four
        /\ d.data = Cat(a, Cat(length, rest))
    BY <1>1, <1>3, <1>4, <2>1, Zenon
  <2>3. /\ ReadFixed(d, four) = [d EXCEPT !.value = length, !.dataOffset = Len(a) + four]
        /\ ReadFixed(d, four) \in Decoders
    BY <2>2, ReadsFixed
  <2> QED
    BY <2>1, <2>3
<1>6. (IF code \in {Code.t, Code.struct, Code.pair} THEN AlignUp(Len(a) + 4, 8) ELSE Len(a) + 4)
        = Len(start)
  <2>1. CASE code = Code.t
    <3>1. n = 8
      BY <1>0, <2>1 DEF SizeOf, Code
    <3> QED
      BY <1>1, <2>1, <3>1, Zenon
  <2>2. CASE code # Code.t
    <3>1. n # 8 /\ code \notin {Code.t, Code.struct, Code.pair}
      BY <1>0, <2>2, OnlyTIsWide, Zenon
    <3> QED
      BY <1>1, <3>1, Zenon
  <2> QED
    BY <2>1, <2>2
<1>7. PICK from \in Nat, begin \in Nat : from = Len(a) + 4 /\ begin = Len(start)
  OBVIOUS
<1>8. PICK l \in Decoders : l = ReadFixed(d, 4)
  BY <1>5, Zenon
<1>9. l.dataOffset = from
  BY <1>5, <1>7, <1>8 DEF Decoders
<1>10. AtElements(d) = [l EXCEPT !.dataOffset = begin]
  <2>1. (IF CodeAt(d) \in {Code.t, Code.struct, Code.pair} THEN AlignUp(l.dataOffset, 8)
         ELSE l.dataOffset) = begin
    BY <1>6, <1>7, <1>9, Zenon
  <2>. DEFINE next == IF CodeAt(d) \in {Code.t, Code.struct, Code.pair}
                      THEN AlignUp(l.dataOffset, 8) ELSE l.dataOffset
  <2>2. AtElements(d) = [l EXCEPT !.dataOffset = next]
    BY <1>8 DEF AtElements
  <2> HIDE DEF next
  <2>3. next = begin
    BY <2>1 DEF next
  <2> QED
    BY <2>2, <2>3
<1>11. AtElements(d) = [d EXCEPT !.value = length, !.dataOffset = begin]
  <2>1. l = [d EXCEPT !.value = length, !.dataOffset = from]
    BY <1>5, <1>7, <1>8, Zenon
  <2> QED
    BY <1>10, <2>1 DEF Decoders
<1>12. /\ AtElements(d) \in Decoders
       /\ AtElements(d).value = length /\ AtElements(d).dataOffset = begin
  BY <1>11 DEF Decoders
<1>13. EndOfElements(d) = Len(Cat(start, content))
  <2>1. Len(Cat(start, content)) = Len(start) + Len(content)
    BY Joined, Zenon
  <2> QED
    BY <1>3, <1>7, <1>12, <2>1, Zenon DEF EndOfElements
<1> QED
  BY <1>0, <1>1, <1>2, <1>3, <1>7, <1>11, <1>12, <1>13, Zenon DEF HasRead

\* An array of basic values, of any length and anywhere in a message: although its
\* content was encoded in a buffer of its own, the decoder finds where it begins and
\* reads each element as it was appended, and its loop ends behind the last one.
THEOREM ArrayReadBack ==
  ASSUME NEW code \in BasicCodes, NEW n \in Nat, NEW values, NEW content,
         Appended(n, [i \in 1..n |-> code], values, content), content[0] = <<>>,
         IsUint32(Len(content[n])),
         NEW before \in Seq(Byte), NEW after \in Seq(Byte),
         NEW d, AtArray(d, code, content[n], before, after),
         NEW e, e[0] = AtElements(d),
         \A i \in 1..n : e[i] = DecodeBasic(ToElement(e[i - 1], d.sigOffset))
  PROVE  /\ EndOfElements(d) = Len(WithLength(Align(before, 4), content[n], SizeOf(code)))
         /\ \A i \in 1..n : ~ e[i].failed /\ e[i].value = values[i]
         /\ \A i \in 0..n : /\ e[i].dataOffset <= EndOfElements(d)
                            /\ e[i].dataOffset = EndOfElements(d) <=> i = n
<1>0. d \in Decoders /\ ~ d.failed /\ d.sigOffset \in Nat
  <2>1. d \in Decoders /\ ~ d.failed
    BY Zenon DEF AtArray
  <2> QED
    BY <2>1 DEF Decoders
<1>. DEFINE codes == [i \in 1..n |-> code]
<1>13. \A i \in 1..n : codes[i] = code
  OBVIOUS
<1>14. Appended(n, codes, values, content)
  OBVIOUS
<1>. HIDE DEF codes
<1>1. Growing(n, content)
  BY <1>14, AllExtend, Zenon
<1>2. PICK all \in Seq(Byte) : all = content[n]
  <2>1. n \in 0..n
    OBVIOUS
  <2> QED
    BY <1>1, <2>1, Zenon DEF Growing
<1>3. PICK start \in Seq(Byte) :
           /\ WithLength(Align(before, 4), all, SizeOf(code)) = Cat(start, all)
           /\ Len(start) % SizeOf(code) = 0
           /\ HasRead(d, Uint32(Len(all)), Len(start), AtElements(d))
           /\ EndOfElements(d) = Len(Cat(start, all))
  <2>1. IsUint32(Len(all)) /\ AtArray(d, code, all, before, after)
    BY <1>2, Zenon
  <2> QED
    BY <2>1, ElementsFound
<1>4. \A i \in 0..n - 1 : /\ content[i + 1] = PutBasic(content[i], code, values[i + 1])
                          /\ e[i + 1] = DecodeBasic(ToElement(e[i], d.sigOffset))
                          /\ i + 1 \in 1..n /\ i + 1 \in 0..n /\ i \in 0..n
                          /\ values[i + 1] \in Seq(Byte) /\ IsValueOf(code, values[i + 1])
  <2>. TAKE i \in 0..n - 1
  <2>1. (i + 1) - 1 = i
    OBVIOUS
  <2>2. /\ i + 1 \in 1..n /\ i + 1 \in 0..n /\ i \in 0..n
        /\ content[i + 1] = PutBasic(content[i], codes[i + 1], values[i + 1])
        /\ values[i + 1] \in Seq(Byte) /\ IsValueOf(codes[i + 1], values[i + 1])
    BY <1>14, AppendedStep
  <2>3. e[i + 1] = DecodeBasic(ToElement(e[(i + 1) - 1], d.sigOffset))
    BY <2>2, Zenon
  <2> QED
    BY <1>13, <2>1, <2>2, <2>3, Zenon
<1>5. ASSUME NEW i \in 0..n - 1, NEW x \in Seq(Byte), NEW bytes \in Seq(Byte),
             x = content[i], bytes = values[i + 1]
      PROVE  PutBasic(Cat(start, x), code, bytes) = Cat(start, content[i + 1])
  <2>1. IsValueOf(code, bytes)
    BY <1>4, <1>5, Zenon
  <2>2. PutBasic(Cat(start, x), code, bytes) = Cat(start, PutBasic(x, code, bytes))
    BY <1>3, <2>1, PutInPlace
  <2> QED
    BY <1>4, <1>5, <2>2, Zenon
<1>. DEFINE Good(i) == /\ e[i] \in Decoders /\ ~ e[i].failed
                       /\ e[i].data = d.data /\ e[i].signature = d.signature
                       /\ e[i].dataOffset = Len(Cat(start, content[i]))
                       /\ i # 0 => e[i].value = values[i]
<1>6. Good(0)
  <2>1. PICK c, length, from : /\ c = AtElements(d) /\ from = Len(start)
                               /\ HasRead(d, length, from, c)
    BY <1>3, Zenon
  <2>2. /\ c \in Decoders /\ ~ c.failed /\ c.data = d.data /\ c.signature = d.signature
        /\ c.dataOffset = from
    BY <1>0, <2>1 DEF HasRead, Decoders
  <2>3. Len(Cat(start, content[0])) = Len(start)
    BY ConcatEmptySeq DEF Cat
  <2> QED
    BY <2>1, <2>2, <2>3, Zenon
<1>7. ASSUME NEW i \in 0..n - 1, Good(i) PROVE Good(i + 1)
  <2>1. PICK x \in Seq(Byte), bytes \in Seq(Byte) : x = content[i] /\ bytes = values[i + 1]
    BY <1>1, <1>4, Zenon DEF Growing
  <2>2. PICK y \in Seq(Byte), r \in Seq(Byte) : y = content[i + 1] /\ all = Cat(y, r)
    BY <1>1, <1>2, <1>4, Zenon DEF Growing
  <2>3. PICK b \in Seq(Byte), put \in Seq(Byte), rest \in Seq(Byte) :
           b = Cat(start, x) /\ put = Cat(start, y) /\ rest = Cat(r, after)
    BY Joined, SMT
  <2>4. PutBasic(b, code, bytes) = put
    BY <1>5, <2>1, <2>2, <2>3, Zenon
  <2>5. d.data = Cat(put, rest)
    <3>1. d.data = Cat(Cat(start, all), after)
      BY <1>2, <1>3, Zenon DEF AtArray, Cat
    <3>2. Cat(start, Cat(y, r)) = Cat(Cat(start, y), r)
      BY Regrouped, SMT
    <3>3. Cat(Cat(put, r), after) = Cat(put, Cat(r, after))
      BY Regrouped, SMT
    <3> QED
      BY <2>2, <2>3, <3>1, <3>2, <3>3, Zenon
  <2>6. PICK c : c = ToElement(e[i], d.sigOffset)
    BY Zenon
  <2>7. /\ c \in Decoders /\ ~ c.failed /\ c.data = d.data /\ c.signature = d.signature
        /\ c.sigOffset = d.sigOffset /\ c.dataOffset = Len(b)
    <3>1. PICK p \in Decoders : p = e[i]
      BY <1>7, Zenon
    <3>2. c = [p EXCEPT !.sigOffset = d.sigOffset]
      BY <2>6, <3>1, Zenon DEF ToElement
    <3>3. /\ c \in Decoders /\ c.failed = p.failed /\ c.data = p.data /\ c.signature = p.signature
          /\ c.sigOffset = d.sigOffset /\ c.dataOffset = p.dataOffset
      BY <1>0, <3>2 DEF Decoders
    <3> QED
      BY <1>7, <2>1, <2>3, <3>1, <3>3, Zenon
  <2>8. HasMore(c) /\ CodeAt(c) = code
    BY <2>7, Zenon DEF AtArray, HasMore, CodeAt
  <2>9. AtValue(c, CodeAt(c), bytes, b, rest)
    BY <1>4, <2>1, <2>4, <2>5, <2>7, <2>8, Zenon DEF AtValue, Cat
  <2>10. PICK end \in Nat : end = Len(put)
    OBVIOUS
  <2>11. HasRead(PastCode(c), bytes, end, DecodeBasic(c))
    BY <2>4, <2>8, <2>9, <2>10, NextReadBack, Zenon
  <2>12. ASSUME NEW p \in Decoders, NEW f, HasRead(PastCode(p), bytes, end, f)
         PROVE  /\ f \in Decoders /\ f.failed = p.failed /\ f.data = p.data
                /\ f.signature = p.signature /\ f.dataOffset = end /\ f.value = bytes
    BY <2>12 DEF HasRead, PastCode, Decoders
  <2>13. PICK f : f = DecodeBasic(c)
    BY Zenon
  <2>14. /\ f \in Decoders /\ f.failed = c.failed /\ f.data = c.data
         /\ f.signature = c.signature /\ f.dataOffset = end /\ f.value = bytes
    BY <2>7, <2>11, <2>12, <2>13, Zenon
  <2>15. e[i + 1] = f
    BY <1>4, <2>6, <2>13, Zenon
  <2> QED
    BY <2>1, <2>2, <2>3, <2>7, <2>10, <2>14, <2>15, Zenon
<1>8. \A i \in 0..n : Good(i)
  <2>. DEFINE T == {i \in 0..n : Good(i)}
  <2>. HIDE DEF Good
  <2>1. 0 \in T
    BY <1>6
  <2>2. \A i \in 0..n - 1 : i \in T => i + 1 \in T
    BY <1>4, <1>7, Zenon
  <2> HIDE DEF T
  <2>3. \A i \in 0..n : i \in T
    BY <2>1, <2>2, UpTo, Zenon
  <2> QED
    BY <2>3, Zenon DEF T
<1>9. ASSUME NEW i \in 0..n
      PROVE  /\ e[i].dataOffset <= EndOfElements(d)
             /\ e[i].dataOffset = EndOfElements(d) <=> i = n
  <2>1. PICK x \in Seq(Byte), r \in Seq(Byte) : x = content[i] /\ all = Cat(x, r)
    BY <1>1, <1>2, Zenon DEF Growing
  <2>2. /\ Len(all) = Len(x) + Len(r) /\ Len(Cat(start, all)) = Len(start) + Len(all)
        /\ Len(Cat(start, x)) = Len(start) + Len(x)
    <3>1. Len(Cat(x, r)) = Len(x) + Len(r)
      BY Joined, Zenon
    <3>2. Len(Cat(start, all)) = Len(start) + Len(all)
      BY Joined, Zenon
    <3>3. Len(Cat(start, x)) = Len(start) + Len(x)
      BY Joined, Zenon
    <3> QED
      BY <2>1, <3>1, <3>2, <3>3, Zenon
  <2>3. e[i].dataOffset = Len(start) + Len(x) /\ EndOfElements(d) = Len(start) + Len(x) + Len(r)
    <3>1. e[i].dataOffset = Len(Cat(start, x)) /\ EndOfElements(d) = Len(Cat(start, all))
      BY <1>3, <1>8, <2>1, Zenon
    <3>2. Len(start) \in Nat /\ Len(x) \in Nat /\ Len(r) \in Nat
      OBVIOUS
    <3> QED
      BY <2>2, <3>1, <3>2
  <2>4. i = n => Len(r) = 0
    <3>1. i = n => all = x
      BY <1>2, <2>1, Zenon
    <3> QED
      BY <2>2, <3>1
  <2>5. i # n => Len(x) < Len(all)
    <3>. SUFFICES ASSUME i # n PROVE Len(x) < Len(all)
      OBVIOUS
    <3>1. i \in 0..n - 1
      OBVIOUS
    <3>2. PICK bytes \in Seq(Byte) : bytes = values[i + 1] /\ IsValueOf(code, bytes)
      BY <1>4, <3>1, Zenon
    <3>3. PICK y \in Seq(Byte), q \in Seq(Byte) : y = content[i + 1] /\ all = Cat(y, q)
      BY <1>1, <1>2, <1>4, <3>1, Zenon DEF Growing
    <3>4. y = PutBasic(x, code, bytes)
      BY <1>4, <2>1, <3>1, <3>2, <3>3, Zenon
    <3>5. Len(x) < Len(y)
      BY <3>2, <3>4, PutGrows
    <3>6. Len(all) = Len(y) + Len(q)
      <4>1. Len(Cat(y, q)) = Len(y) + Len(q)
        BY Joined, Zenon
      <4> QED
        BY <3>3, <4>1, Zenon
    <3> QED
      BY <3>5, <3>6
  <2>6. PICK b, l, k \in Nat : b = Len(start) /\ l = Len(x) /\ k = Len(r)
    <3>1. Len(start) \in Nat /\ Len(x) \in Nat /\ Len(r) \in Nat
      OBVIOUS
    <3> QED
      BY <3>1, Zenon
  <2>7. PICK at, end \in Nat : at = e[i].dataOffset /\ end = EndOfElements(d) /\ at = b + l /\ end = b + l + k
    BY <2>3, <2>6
  <2>8. (i = n => k = 0) /\ (i # n => k # 0)
    BY <2>2, <2>4, <2>5, <2>6
  <2>9. at <= end /\ (at = end <=> i = n)
    BY <2>7, <2>8
  <2> QED
    BY <2>7, <2>9, Zenon
<1>10. \A i \in 1..n : i \in 0..n /\ i # 0
  OBVIOUS
<1>11. \A i \in 1..n : ~ e[i].failed /\ e[i].value = values[i]
  BY <1>8, <1>10, Zenon
<1>12. EndOfElements(d) = Len(WithLength(Align(before, 4), content[n], SizeOf(code)))
  BY <1>2, <1>3, Zenon
<1> QED
  BY <1>9, <1>11, <1>12, Zenon

(***************************************************************************)
(* Framing.                                                                *)
(***************************************************************************)
\* The first and the last of two parts.
LEMMA Ends ==
  \A a, b \in Seq(Byte) : /\ \A i \in 1..Len(a) : Cat(a, b)[i] = a[i]
                          /\ Slice(Cat(a, b), 0, Len(a)) = a
                          /\ Slice(Cat(a, b), Len(a), Len(Cat(a, b))) = b
<1>. TAKE a, b \in Seq(Byte)
<1>1. \A i \in 1..Len(a) : Cat(a, b)[i] = a[i]
  BY DEF Cat
<1>2. Cat(<<>>, Cat(a, b)) = Cat(a, b) /\ <<>> \in Seq(Byte) /\ Len(<<>>) = 0
  BY Joined, ConcatEmptySeq DEF Cat
<1>3. Slice(Cat(<<>>, Cat(a, b)), Len(<<>>), Len(<<>>) + Len(a)) = a
  BY <1>2, Cut, Zenon
<1>4. Len(<<>>) + Len(a) = Len(a)
  BY <1>2
<1>5. Slice(Cat(a, b), 0, Len(a)) = a
  BY <1>2, <1>3, <1>4, Zenon
<1>6. Cat(b, <<>>) = b
  BY ConcatEmptySeq, Zenon DEF Cat
<1>7. Slice(Cat(a, Cat(b, <<>>)), Len(a), Len(a) + Len(b)) = b
  BY <1>2, Cut, Zenon
<1>8. Len(Cat(a, b)) = Len(a) + Len(b)
  BY Joined, Zenon
<1> QED
  BY <1>1, <1>5, <1>6, <1>7, <1>8, Zenon

\* Nothing is missing to a multiple.
LEMMA AlignNothing ==
  ASSUME NEW data \in Seq(Byte), NEW n \in Alignments, AlignUp(Len(data), n) = Len(data)
  PROVE  Align(data, n) = data
<1>1. PICK pad \in Seq(Byte) : Align(data, n) = data \o pad /\ Len(data \o pad) = Len(data)
  BY AlignPads, Zenon
<1>2. Len(data \o pad) = Len(data) + Len(pad)
  BY ConcatProperties, Zenon
<1>3. Len(pad) = 0
  BY <1>1, <1>2
<1>4. pad = <<>>
  BY <1>3
<1> QED
  BY <1>1, <1>4, ConcatEmptySeq

\* Numbers in a row, each at a multiple of 4.
LEMMA PutNumber ==
  ASSUME NEW data \in Seq(Byte), NEW k \in {4, 8, 12}, Len(data) = k, NEW n, IsUint32(n)
  PROVE  /\ PutBasic(data, Code.u, Uint32(n)) = Cat(data, Uint32(n))
         /\ Cat(data, Uint32(n)) \in Seq(Byte) /\ Len(Cat(data, Uint32(n))) = k + 4
<1>1. Code.u \in FixedCodes /\ SizeOf(Code.u) = 4 /\ 4 \in Alignments
  BY DEF FixedCodes, SizeOf, Code, Alignments
<1>2. AlignUp(k, 4) = k
  BY DEF AlignUp
<1>3. Align(data, 4) = data
  BY <1>1, <1>2, AlignNothing
<1>4. Uint32(n) \in Seq(Byte) /\ Len(Uint32(n)) = 4
  BY NumberReadBack
<1>5. Cat(data, Uint32(n)) \in Seq(Byte) /\ Len(Cat(data, Uint32(n))) = Len(data) + Len(Uint32(n))
  BY <1>4, Joined, Zenon
<1>6. Len(Cat(data, Uint32(n))) = k + 4
  BY <1>4, <1>5, Zenon
<1>7. PutBasic(data, Code.u, Uint32(n)) = Cat(data, Uint32(n))
  BY <1>1, <1>3, Zenon DEF PutBasic, Cat
<1> QED
  BY <1>5, <1>6, <1>7

\* The parts of a header.
LEMMA HeaderParts ==
  ASSUME NEW m \in Messages
  PROVE  \E front, pad \in Seq(Byte) :
            LET bodyLength == Uint32(Len(m.body))
                serial == Uint32(m.serial)
                fieldsLength == Uint32(Len(EncodeFields(m.fields)))
            IN  /\ front = <<LittleEndian, m.type, 0, 1>> /\ Len(front) = 4
                /\ Header(m) = Cat(Cat(Cat(Cat(Cat(front, bodyLength), serial), fieldsLength),
                                       EncodeFields(m.fields)), pad)
                /\ Header(m) \in Seq(Byte)
                /\ Len(Header(m)) = 16 + Len(EncodeFields(m.fields)) + Padding(Len(EncodeFields(m.fields)))
<1>. DEFINE content == EncodeFields(m.fields)
           front == <<LittleEndian, m.type, 0, 1>>
           b == Uint32(Len(m.body))
           s == Uint32(m.serial)
           f == Uint32(Len(content))
<1>1. /\ m.type \in Byte /\ IsUint32(m.serial) /\ IsUint32(Len(m.body))
      /\ content \in Seq(Byte) /\ IsUint32(Len(content))
  BY FieldsAssumption DEF Contents
<1>2. front \in Seq(Byte) /\ Len(front) = 4
  BY <1>1 DEF Byte, LittleEndian
<1>. HIDE DEF content, front
<1>3. /\ PutBasic(front, Code.u, b) = Cat(front, b)
      /\ Cat(front, b) \in Seq(Byte) /\ Len(Cat(front, b)) = 8
  BY <1>1, <1>2, PutNumber
<1>. DEFINE c1 == Cat(front, b)
           c2 == Cat(c1, s)
           c3 == Cat(c2, f)
           c4 == Cat(c3, content)
<1>. HIDE DEF c1
<1>4. PutBasic(c1, Code.u, s) = c2 /\ c2 \in Seq(Byte) /\ Len(c2) = 12
  BY <1>1, <1>3, PutNumber DEF c1
<1>5. Preamble(m) = c2
  BY <1>3, <1>4, Zenon DEF Preamble, c1, front
<1>. HIDE DEF c2
<1>6. c3 \in Seq(Byte) /\ Len(c3) = 16
  BY <1>1, <1>4, PutNumber
<1>7. Align(c2, 4) = c2
  <2>1. AlignUp(12, 4) = 12 /\ 4 \in Alignments
    BY DEF AlignUp, Alignments
  <2> QED
    BY <1>4, <2>1, AlignNothing
<1>8. Align(c3, 8) = c3
  <2>1. AlignUp(16, 8) = 16 /\ 8 \in Alignments
    BY DEF AlignUp, Alignments
  <2> QED
    BY <1>6, <2>1, AlignNothing
<1>9. WithLength(Align(Preamble(m), 4), content, 8) = c4
  BY <1>5, <1>7, <1>8, Zenon DEF WithLength, Cat
<1>. HIDE DEF c3
<1>10. c4 \in Seq(Byte) /\ Len(c4) = 16 + Len(content)
  <2>1. c4 \in Seq(Byte) /\ Len(c4) = Len(c3) + Len(content)
    BY <1>1, <1>6, Joined, Zenon
  <2> QED
    BY <1>6, <2>1, Zenon
<1>. HIDE DEF c4
<1>11. PICK pad \in Seq(Byte) : /\ Align(c4, 8) = c4 \o pad /\ c4 \o pad \in Seq(Byte)
                                /\ Len(c4 \o pad) = AlignUp(Len(c4), 8)
  <2>1. 8 \in Alignments
    BY DEF Alignments
  <2> QED
    BY <1>10, <2>1, AlignPads, Zenon
<1>12. Header(m) = Cat(c4, pad) /\ Header(m) \in Seq(Byte)
  BY <1>9, <1>11, Zenon DEF Header, Cat, content
<1>13. Len(Header(m)) = 16 + Len(content) + Padding(Len(content))
  <2>1. Len(Header(m)) = AlignUp(Len(c4), 8)
    BY <1>11, <1>12, Zenon DEF Cat
  <2> QED
    BY <1>1, <1>10, <2>1 DEF AlignUp, Padding
<1> QED
  BY <1>2, <1>12, <1>13, Zenon DEF c1, c2, c3, c4, content, front

\* The number behind so many bytes.
LEMMA NumberFound ==
  ASSUME NEW a \in Seq(Byte), NEW k \in {4, 8, 12}, Len(a) = k, NEW n, IsUint32(n), NEW r \in Seq(Byte)
  PROVE  NumberAt(Cat(Cat(a, Uint32(n)), r), k) = n
<1>1. Uint32(n) \in Seq(Byte) /\ Len(Uint32(n)) = 4 /\ Number(Uint32(n)) = n
  BY NumberReadBack
<1>2. Cat(Cat(a, Uint32(n)), r) = Cat(a, Cat(Uint32(n), r))
  BY <1>1, Regrouped, Zenon
<1>3. Slice(Cat(a, Cat(Uint32(n), r)), Len(a), Len(a) + Len(Uint32(n))) = Uint32(n)
  BY <1>1, Cut, Zenon
<1>4. Slice(Cat(Cat(a, Uint32(n)), r), k, k + 4) = Uint32(n)
  BY <1>1, <1>2, <1>3, Zenon
<1> QED
  BY <1>1, <1>4, Zenon DEF NumberAt, Slice

\* What readMessage looks for at the start of a message, whatever follows.
LEMMA HeaderReadBack ==
  ASSUME NEW m \in Messages, NEW r \in Seq(Byte)
  PROVE  LET w == Cat(Header(m), r)
         IN  /\ w[1] = LittleEndian /\ w[2] = m.type
             /\ NumberAt(w, 4) = Len(m.body) /\ NumberAt(w, 8) = m.serial
             /\ NumberAt(w, 12) = Len(EncodeFields(m.fields))
<1>. DEFINE content == EncodeFields(m.fields)
           b == Uint32(Len(m.body))
           s == Uint32(m.serial)
           f == Uint32(Len(content))
<1>1. /\ IsUint32(m.serial) /\ IsUint32(Len(m.body))
      /\ content \in Seq(Byte) /\ IsUint32(Len(content))
  BY FieldsAssumption DEF Contents
<1>2. /\ b \in Seq(Byte) /\ Len(b) = 4 /\ s \in Seq(Byte) /\ Len(s) = 4
      /\ f \in Seq(Byte) /\ Len(f) = 4
  BY <1>1, NumberReadBack
<1>3. PICK front \in Seq(Byte), pad \in Seq(Byte) :
         /\ front = <<LittleEndian, m.type, 0, 1>> /\ Len(front) = 4
         /\ Header(m) = Cat(Cat(Cat(Cat(Cat(front, b), s), f), content), pad)
  BY HeaderParts
<1>. HIDE DEF content, b, s, f
<1>. DEFINE c1 == Cat(front, b)
           c2 == Cat(c1, s)
           c3 == Cat(c2, f)
           c4 == Cat(c3, content)
           r4 == Cat(pad, r)
           r3 == Cat(content, r4)
           r2 == Cat(f, r3)
           r1 == Cat(s, r2)
<1>4. c1 \in Seq(Byte) /\ Len(c1) = Len(front) + Len(b)
  BY <1>2, Joined, Zenon
<1>. HIDE DEF c1
<1>5. c2 \in Seq(Byte) /\ Len(c2) = Len(c1) + Len(s)
  BY <1>2, <1>4, Joined, Zenon
<1>. HIDE DEF c2
<1>6. c3 \in Seq(Byte)
  BY <1>2, <1>5, Joined, Zenon
<1>. HIDE DEF c3
<1>7. c4 \in Seq(Byte)
  BY <1>1, <1>6, Joined, Zenon
<1>. HIDE DEF c4
<1>8. r4 \in Seq(Byte)
  BY Joined, Zenon
<1>. HIDE DEF r4
<1>9. r3 \in Seq(Byte)
  BY <1>1, <1>8, Joined, Zenon
<1>. HIDE DEF r3
<1>10. r2 \in Seq(Byte)
  BY <1>2, <1>9, Joined, Zenon
<1>. HIDE DEF r2
<1>11. r1 \in Seq(Byte)
  BY <1>2, <1>10, Joined, Zenon
<1>. HIDE DEF r1
<1>. DEFINE w == Cat(Header(m), r)
<1>12. w = Cat(Cat(c4, pad), r)
  BY <1>3, Zenon DEF c1, c2, c3, c4
<1>13. w = Cat(c4, r4)
  BY <1>7, <1>12, Regrouped, Zenon DEF r4
<1>14. w = Cat(c3, r3)
  BY <1>1, <1>6, <1>8, <1>13, Regrouped, ZenonT(60) DEF r3, c4
<1>15. w = Cat(c2, r2)
  BY <1>2, <1>5, <1>9, <1>14, Regrouped, ZenonT(60) DEF r2, c3
<1>16. w = Cat(c1, r1)
  BY <1>2, <1>4, <1>10, <1>15, Regrouped, ZenonT(60) DEF r1, c2
<1>17. w = Cat(front, Cat(b, r1)) /\ Cat(b, r1) \in Seq(Byte)
  <2>1. Cat(b, r1) \in Seq(Byte)
    BY <1>2, <1>11, Joined, Zenon
  <2>2. Cat(Cat(front, b), r1) = Cat(front, Cat(b, r1))
    BY <1>2, <1>11, Regrouped, ZenonT(60)
  <2> QED
    BY <1>16, <2>1, <2>2, Zenon DEF c1
<1>. HIDE DEF w
<1>18. Len(c1) = 8 /\ Len(c2) = 12
  BY <1>2, <1>3, <1>4, <1>5
<1>19. NumberAt(w, 4) = Len(m.body)
  <2>1. NumberAt(Cat(Cat(front, Uint32(Len(m.body))), r1), 4) = Len(m.body)
    <3>1. Len(front) = 4 /\ IsUint32(Len(m.body)) /\ 4 \in {4, 8, 12}
      BY <1>1, <1>3
    <3> QED
      BY <1>11, <3>1, NumberFound
  <2> QED
    BY <1>16, <2>1, Zenon DEF c1, b
<1>20. NumberAt(w, 8) = m.serial
  <2>1. NumberAt(Cat(Cat(c1, Uint32(m.serial)), r2), 8) = m.serial
    BY <1>1, <1>4, <1>10, <1>18, NumberFound
  <2> QED
    BY <1>15, <2>1, Zenon DEF c2, s
<1>21. NumberAt(w, 12) = Len(content)
  <2>1. NumberAt(Cat(Cat(c2, Uint32(Len(content))), r3), 12) = Len(content)
    BY <1>1, <1>5, <1>9, <1>18, NumberFound
  <2> QED
    BY <1>14, <2>1, Zenon DEF c3, f
<1>22. w[1] = LittleEndian /\ w[2] = m.type
  <2>1. \A i \in 1..Len(front) : w[i] = front[i]
    BY <1>17, Ends, Zenon
  <2>2. w[1] = front[1] /\ w[2] = front[2]
    BY <1>3, <2>1
  <2> QED
    BY <1>3, <2>2
<1> QED
  BY <1>19, <1>20, <1>21, <1>22, Zenon DEF w, content

\* A message at the front of the stream is taken from it, and nothing else.
THEOREM FrameReadBack ==
  ASSUME NEW m \in Messages, NEW rest \in Seq(Byte), wire = WriteTo(m) \o rest, ReadMessage
  PROVE  got' = Append(got, m) /\ wire' = rest /\ UNCHANGED <<sent, reader>>
<1>. DEFINE h == Header(m)
           n == Len(EncodeFields(m.fields))
           end == 16 + n + Padding(n)
<1>1. h \in Seq(Byte) /\ Len(h) = end
  BY HeaderParts
<1>2. /\ m = [type |-> m.type, serial |-> m.serial, fields |-> m.fields, body |-> m.body]
      /\ m.body \in Seq(Byte) /\ EncodeFields(m.fields) \in Seq(Byte)
      /\ DecodeFields(h) = m.fields /\ m.fields # NoFields
  BY FieldsAssumption DEF Contents
<1>3. n \in Nat /\ Len(m.body) \in Nat /\ Padding(n) \in Nat
  BY <1>2 DEF Padding
<1>. HIDE DEF h, n
<1>. DEFINE r == Cat(m.body, rest)
<1>4. r \in Seq(Byte) /\ Len(r) = Len(m.body) + Len(rest)
  BY <1>2, Joined, Zenon
<1>5. wire = Cat(h, r)
  BY <1>1, <1>2, Regrouped, Zenon DEF WriteTo, Cat, h
<1>6. Len(wire) = end + (Len(m.body) + Len(rest))
  BY <1>1, <1>4, <1>5, Joined, Zenon
<1>7. /\ wire[1] = LittleEndian /\ wire[2] = m.type
      /\ NumberAt(wire, 4) = Len(m.body) /\ NumberAt(wire, 8) = m.serial
      /\ NumberAt(wire, 12) = n
  BY <1>4, <1>5, HeaderReadBack DEF h, n
<1>8. Slice(wire, 0, end) = h
  <2>1. Slice(Cat(h, r), 0, Len(h)) = h
    BY <1>1, <1>4, Ends, Zenon
  <2> QED
    BY <1>1, <1>5, <2>1, Zenon
<1>9. Slice(wire, end, end + Len(m.body)) = m.body
  <2>1. Slice(Cat(h, Cat(m.body, rest)), Len(h), Len(h) + Len(m.body)) = m.body
    BY <1>1, <1>2, Cut, Zenon
  <2> QED
    BY <1>1, <1>5, <2>1, Zenon
<1>10. Slice(wire, end + Len(m.body), Len(wire)) = rest
  <2>1. wire = Cat(Cat(h, m.body), rest)
    BY <1>1, <1>2, <1>5, Regrouped, Zenon
  <2>2. Cat(h, m.body) \in Seq(Byte) /\ Len(Cat(h, m.body)) = end + Len(m.body)
    BY <1>1, <1>2, Joined, Zenon
  <2>3. Slice(Cat(Cat(h, m.body), rest), Len(Cat(h, m.body)), Len(Cat(Cat(h, m.body), rest))) = rest
    BY <2>2, Ends, Zenon
  <2> QED
    BY <2>1, <2>2, <2>3, Zenon
<1>11. ~ (Len(wire) < 16) /\ ~ (Len(wire) < end + Len(m.body))
  BY <1>3, <1>6
<1>12. SubSeq(wire, 1, end) = h
  <2>1. SubSeq(wire, 0 + 1, end) = h
    BY <1>8, Zenon DEF Slice
  <2>2. 0 + 1 = 1
    OBVIOUS
  <2> QED
    BY <2>1, <2>2, Zenon
<1>. HIDE DEF end
<1>13. /\ got' = Append(got, [type |-> m.type, serial |-> m.serial, fields |-> m.fields, body |-> m.body])
       /\ wire' = rest /\ UNCHANGED <<sent, reader>>
  BY <1>2, <1>7, <1>9, <1>10, <1>11, <1>12, Zenon DEF ReadMessage, Slice, end
<1> QED
  BY <1>2, <1>13
(***************************************************************************)
(* The stream.                                                             *)
(***************************************************************************)
\* The bytes on the stream are the messages that were sent and not received, one
\* behind the other: w[k] are those of the messages behind the first k.
OnTheWire ==
  \E w \in [Len(got)..Len(sent) -> Seq(Byte)] :
     /\ wire = w[Len(got)] /\ w[Len(sent)] = <<>>
     /\ \A k \in Len(got)..Len(sent) - 1 : w[k] = WriteTo(sent[k + 1]) \o w[k + 1]

\* The inductive invariant.
FramingInv ==
  /\ sent \in Seq(Messages) /\ got \in Seq(Messages) /\ Len(got) <= Len(sent)
  /\ OnTheWire /\ ReadAsWritten

\* WriteTo writes at least a header.
LEMMA WriteToBytes ==
  ASSUME NEW m \in Messages
  PROVE  WriteTo(m) \in Seq(Byte) /\ WriteTo(m) # <<>>
<1>1. Header(m) \in Seq(Byte) /\ m.body \in Seq(Byte)
  BY HeaderParts, FieldsAssumption DEF Contents
<1>2. /\ Cat(Header(m), m.body) \in Seq(Byte)
      /\ Len(Cat(Header(m), m.body)) = Len(Header(m)) + Len(m.body)
  BY <1>1, Joined, Zenon
<1>3. Len(Header(m)) = 16 + Len(EncodeFields(m.fields)) + Padding(Len(EncodeFields(m.fields)))
  BY HeaderParts
<1>4. Len(EncodeFields(m.fields)) \in Nat /\ Len(m.body) \in Nat
  BY <1>1, FieldsAssumption DEF Contents
<1>5. Padding(Len(EncodeFields(m.fields))) \in Nat
  BY <1>4 DEF Padding
<1>6. Len(Cat(Header(m), m.body)) # 0
  BY <1>2, <1>3, <1>4, <1>5
<1> QED
  BY <1>2, <1>6 DEF WriteTo, Cat

\* Nothing is sent yet.
LEMMA FramingInitially == FramingInit => FramingInv
<1> SUFFICES ASSUME FramingInit PROVE FramingInv
  OBVIOUS
<1>1. sent = <<>> /\ got = <<>> /\ wire = <<>> /\ Len(sent) = 0 /\ Len(got) = 0 /\ reader = "reading"
  BY DEF FramingInit
<1>2. OnTheWire
  <2>. DEFINE w == [k \in 0..0 |-> <<>>]
  <2>1. w \in [Len(got)..Len(sent) -> Seq(Byte)] /\ wire = w[Len(got)] /\ w[Len(sent)] = <<>>
    BY <1>1
  <2>2. \A k \in Len(got)..Len(sent) - 1 : FALSE
    BY <1>1
  <2> QED
    BY <2>1, <2>2, Zenon DEF OnTheWire
<1>3. ReadAsWritten
  BY <1>1 DEF ReadAsWritten
<1> QED
  BY <1>1, <1>2, <1>3 DEF FramingInv

\* A message is put behind all others.
LEMMA FramingWrite == ASSUME FramingInv, NEW m \in Messages, Write(m) PROVE FramingInv'
<1>1. /\ sent' = Append(sent, m) /\ wire' = wire \o WriteTo(m) /\ got' = got /\ reader' = reader
  BY DEF Write
<1>2. /\ sent \in Seq(Messages) /\ got \in Seq(Messages) /\ Len(got) <= Len(sent) /\ ReadAsWritten
  BY DEF FramingInv
<1>3. /\ sent' \in Seq(Messages) /\ Len(sent') = Len(sent) + 1 /\ sent'[Len(sent) + 1] = m
      /\ \A i \in 1..Len(sent) : sent'[i] = sent[i]
  BY <1>1, <1>2
<1>4. SubSeq(sent', 1, Len(got)) = SubSeq(sent, 1, Len(got))
  BY <1>1, <1>2, <1>3
<1>5. PICK w \in [Len(got)..Len(sent) -> Seq(Byte)] :
         /\ wire = w[Len(got)] /\ w[Len(sent)] = <<>>
         /\ \A k \in Len(got)..Len(sent) - 1 : w[k] = WriteTo(sent[k + 1]) \o w[k + 1]
  BY DEF FramingInv, OnTheWire
<1>. PICK last, g \in Nat : last = Len(sent) /\ g = Len(got)
  BY <1>2
<1>6. WriteTo(m) \in Seq(Byte) /\ <<>> \in Seq(Byte)
  BY WriteToBytes, EmptySeq
<1>7. OnTheWire'
  <2>. DEFINE v == [k \in g..last + 1 |-> IF k = last + 1 THEN <<>> ELSE w[k] \o WriteTo(m)]
  <2>1. v \in [g..last + 1 -> Seq(Byte)]
    <3>1. \A k \in g..last : w[k] \in Seq(Byte)
      BY <1>5
    <3>2. \A k \in g..last : w[k] \o WriteTo(m) \in Seq(Byte)
      BY <1>6, <3>1, Joined, Zenon DEF Cat
    <3>3. \A k \in g..last + 1 : k = last + 1 \/ k \in g..last
      OBVIOUS
    <3> QED
      BY <1>6, <3>2, <3>3, Zenon
  <2>2. wire' = v[g] /\ v[last + 1] = <<>>
    <3>1. g \in g..last + 1 /\ g # last + 1 /\ last + 1 \in g..last + 1
      BY <1>2
    <3> QED
      BY <1>1, <1>5, <3>1, Zenon
  <2>3. ASSUME NEW k \in g..last PROVE v[k] = WriteTo(sent'[k + 1]) \o v[k + 1]
    <3>1. CASE k = last
      <4>1. v[k] = w[last] \o WriteTo(m) /\ v[k + 1] = <<>> /\ sent'[k + 1] = m
        BY <1>3, <3>1
      <4>2. <<>> \o WriteTo(m) = WriteTo(m) /\ WriteTo(m) \o <<>> = WriteTo(m)
        BY <1>6, ConcatEmptySeq
      <4> QED
        BY <1>5, <4>1, <4>2, Zenon
    <3>2. CASE k # last
      <4>1. k \in g..last - 1 /\ k + 1 \in g..last /\ k + 1 # last + 1 /\ k + 1 \in 1..last
        BY <3>2
      <4>2. k \in g..last + 1 /\ k + 1 \in g..last + 1 /\ k # last + 1
        BY <4>1
      <4>3. v[k] = w[k] \o WriteTo(m) /\ v[k + 1] = w[k + 1] \o WriteTo(m)
        BY <4>1, <4>2, Zenon
      <4>4. w[k] = WriteTo(sent[k + 1]) \o w[k + 1] /\ sent'[k + 1] = sent[k + 1]
        BY <1>3, <1>5, <4>1, Zenon
      <4>5. w[k + 1] \in Seq(Byte) /\ WriteTo(sent[k + 1]) \in Seq(Byte)
        <5>1. sent[k + 1] \in Messages
          BY <1>2, <4>1, ElementOfSeq
        <5> QED
          BY <1>5, <4>1, <5>1, WriteToBytes
      <4>6. (WriteTo(sent[k + 1]) \o w[k + 1]) \o WriteTo(m) = WriteTo(sent[k + 1]) \o (w[k + 1] \o WriteTo(m))
        BY <1>6, <4>5, Regrouped, Zenon DEF Cat
      <4> QED
        BY <4>3, <4>4, <4>6, Zenon
    <3> QED
      BY <3>1, <3>2
  <2>4. Len(got') = g /\ Len(sent') = last + 1 /\ last + 1 - 1 = last
    BY <1>1, <1>3
  <2> HIDE DEF v
  <2>5. /\ v \in [Len(got')..Len(sent') -> Seq(Byte)] /\ wire' = v[Len(got')] /\ v[Len(sent')] = <<>>
        /\ \A k \in Len(got')..Len(sent') - 1 : v[k] = WriteTo(sent'[k + 1]) \o v[k + 1]
    <3>1. Len(got')..Len(sent') = g..last + 1 /\ Len(got')..Len(sent') - 1 = g..last
      BY <2>4
    <3>2. \A k \in g..last : v[k] = WriteTo(sent'[k + 1]) \o v[k + 1]
      BY <2>3
    <3> QED
      BY <2>1, <2>2, <2>4, <3>1, <3>2, Zenon
  <2> QED
    BY <2>5, Zenon DEF OnTheWire
<1>8. ReadAsWritten'
  BY <1>1, <1>2, <1>4, Zenon DEF ReadAsWritten
<1>9. got' \in Seq(Messages) /\ Len(got') <= Len(sent')
  BY <1>1, <1>2, <1>3
<1> QED
  BY <1>3, <1>7, <1>8, <1>9 DEF FramingInv

\* The next message is taken from the front.
LEMMA FramingRead == ASSUME FramingInv, ReadMessage PROVE FramingInv'
<1>1. /\ sent \in Seq(Messages) /\ got \in Seq(Messages) /\ Len(got) <= Len(sent) /\ ReadAsWritten
      /\ wire # <<>>
  BY DEF FramingInv, ReadMessage
<1>2. PICK w \in [Len(got)..Len(sent) -> Seq(Byte)] :
         /\ wire = w[Len(got)] /\ w[Len(sent)] = <<>>
         /\ \A k \in Len(got)..Len(sent) - 1 : w[k] = WriteTo(sent[k + 1]) \o w[k + 1]
  BY DEF FramingInv, OnTheWire
<1>. PICK last, g \in Nat : last = Len(sent) /\ g = Len(got)
  BY <1>1
<1>3. g \in g..last - 1 /\ g + 1 \in g..last /\ g + 1 \in 1..last
  <2>1. g # last
    BY <1>1, <1>2
  <2> QED
    BY <1>1, <2>1
<1>. PICK m \in Messages : m = sent[g + 1]
  BY <1>1, <1>3, ElementOfSeq
<1>4. wire = WriteTo(m) \o w[g + 1] /\ w[g + 1] \in Seq(Byte)
  BY <1>2, <1>3
<1>5. got' = Append(got, m) /\ wire' = w[g + 1] /\ sent' = sent /\ reader' = reader
  BY <1>4, FrameReadBack
<1>6. got' \in Seq(Messages) /\ Len(got') = g + 1 /\ Len(got') <= Len(sent')
  BY <1>1, <1>3, <1>5
<1>7. got' = SubSeq(sent', 1, Len(got'))
  <2>1. got = SubSeq(sent, 1, g)
    BY <1>1 DEF ReadAsWritten
  <2>2. Append(got, m) = SubSeq(sent, 1, g + 1)
    BY <1>1, <1>3, <2>1
  <2> QED
    BY <1>5, <1>6, <2>2, Zenon
<1>8. OnTheWire'
  <2>. DEFINE v == [k \in g + 1..last |-> w[k]]
  <2>1. \A k \in g + 1..last : k \in g..last
    OBVIOUS
  <2>2. v \in [g + 1..last -> Seq(Byte)] /\ \A k \in g + 1..last : v[k] = w[k]
    BY <1>2, <2>1, Zenon
  <2>3. last \in g + 1..last /\ g + 1 \in g + 1..last
    BY <1>3
  <2>4. wire' = v[g + 1] /\ v[last] = <<>>
    BY <1>2, <1>5, <2>2, <2>3, Zenon
  <2>5. \A k \in g + 1..last - 1 : v[k] = WriteTo(sent[k + 1]) \o v[k + 1]
    <3>1. \A k \in g + 1..last - 1 : k \in g..last - 1 /\ k \in g + 1..last /\ k + 1 \in g + 1..last
      OBVIOUS
    <3> QED
      BY <1>2, <2>2, <3>1, Zenon
  <2>6. Len(got') = g + 1 /\ Len(sent') = last /\ sent' = sent
    BY <1>5, <1>6
  <2> HIDE DEF v
  <2> QED
    BY <2>2, <2>4, <2>5, <2>6 DEF OnTheWire
<1>9. ReadAsWritten'
  BY <1>1, <1>5, <1>7, Zenon DEF ReadAsWritten
<1> QED
  BY <1>1, <1>5, <1>6, <1>8, <1>9 DEF FramingInv

\* Any number of messages, whatever the lengths of header fields and body, come
\* out of the stream as they went into it, and readMessage finds where each one
\* begins.
THEOREM StreamReadAsWritten == FramingSpec => []ReadAsWritten
<1>1. FramingInit => FramingInv
  BY FramingInitially
<1>2. FramingInv /\ [FramingNext]_framingVars => FramingInv'
  <2> SUFFICES ASSUME FramingInv, [FramingNext]_framingVars PROVE FramingInv'
    OBVIOUS
  <2>1. ASSUME NEW m \in Messages, Write(m) PROVE FramingInv'
    BY <2>1, FramingWrite
  <2>2. CASE ReadMessage
    BY <2>2, FramingRead
  <2>3. CASE ReadShort
    <3>1. wire' = wire /\ sent' = sent /\ got' = got /\ reader' = "short"
      BY <2>3 DEF ReadShort
    <3> QED
      BY <3>1 DEF FramingInv, OnTheWire, ReadAsWritten
  <2>4. CASE UNCHANGED framingVars
    BY <2>4 DEF framingVars, FramingInv, OnTheWire, ReadAsWritten
  <2> QED
    BY <2>1, <2>2, <2>3, <2>4 DEF FramingNext
<1>3. FramingInv => ReadAsWritten
  BY DEF FramingInv
<1> QED
  BY <1>1, <1>2, <1>3, PTL DEF FramingSpec
=============================================================================
