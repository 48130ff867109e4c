----------------------- MODULE SignalWatchTableProofs -----------------------
(***************************************************************************)
(* Proofs about the index of signal watches, for any watches, rules and    *)
(* signals.                                                                *)
(***************************************************************************)
EXTENDS SignalWatchTable, FiniteSetTheorems, SequenceTheorems, WellFoundedInduction, TLAPS

\* What is left of a slice when the watch at i goes.
LEMMA MoveLastToProperties ==
  ASSUME NEW S, NEW s \in Seq(S), NEW i \in 1..Len(s)
  PROVE  /\ MoveLastTo(s, i) \in Seq(S)
         /\ Len(MoveLastTo(s, i)) = Len(s) - 1
         /\ \A j \in 1..(Len(s) - 1) :
              MoveLastTo(s, i)[j] = IF j = i THEN s[Len(s)] ELSE s[j]
<1> DEFINE t == [s EXCEPT ![i] = s[Len(s)]]
           b == Len(s) - 1
<1>1. t \in Seq(S) /\ Len(t) = Len(s)
  OBVIOUS
<1>2. \A j \in 1..Len(s) : t[j] = IF j = i THEN s[Len(s)] ELSE s[j]
  OBVIOUS
<1>3. b \in Nat /\ b <= Len(t)
  BY <1>1
<1>4. MoveLastTo(s, i) = SubSeq(t, 1, b)
  BY DEF MoveLastTo
<1> HIDE DEF t
<1>5. \A m, l \in Int : m = 1 /\ l \in Nat /\ l <= Len(t)
         => /\ SubSeq(t, m, l) \in Seq(S)
            /\ Len(SubSeq(t, m, l)) = l
            /\ \A j \in 1..l : SubSeq(t, m, l)[j] = t[j]
  BY <1>1, SubSeqProperties
<1>6. /\ SubSeq(t, 1, b) \in Seq(S) /\ Len(SubSeq(t, 1, b)) = b
      /\ \A j \in 1..b : SubSeq(t, 1, b)[j] = t[j]
  <2>1. 1 \in Int /\ b \in Int
    BY <1>3
  <2> HIDE DEF b
  <2> QED
    BY <1>3, <1>5, <2>1, Zenon
<1>7. \A j \in 1..b : j \in 1..Len(s)
  BY <1>3
<1> QED
  BY <1>2, <1>4, <1>6, <1>7

\* A set of numbers has a least one.
LEMMA LeastPosition ==
  ASSUME NEW T \in SUBSET Nat, T # {}
  PROVE  \E i \in T : \A j \in T : i <= j
<1>1. PICK i \in T : \A j \in T : ~ (<<j, i>> \in OpToRel(<, Nat))
  BY NatLessThanWellFounded, WFMin
<1>2. \A j, k \in Nat : j < k => <<j, k>> \in OpToRel(<, Nat)
  BY DEF OpToRel
<1>3. \A j \in T : ~ (j < i)
  BY <1>1, <1>2, Zenon
<1> QED
  BY <1>3

\* The position Remove picks is one of the watch.
LEMMA FirstPositionIsOne ==
  ASSUME NEW S, NEW s \in Seq(S), NEW w, PositionsOf(s, w) # {}
  PROVE  FirstPosition(s, w) \in 1..Len(s) /\ s[FirstPosition(s, w)] = w
<1>1. PositionsOf(s, w) \subseteq Nat
  BY DEF PositionsOf
<1>2. \E i \in PositionsOf(s, w) : \A j \in PositionsOf(s, w) : i <= j
  BY <1>1, LeastPosition
<1>3. FirstPosition(s, w) \in PositionsOf(s, w)
  BY <1>2 DEF FirstPosition
<1> QED
  BY <1>3 DEF PositionsOf

LEMMA KeysAreKeys == \A w \in Watches : KeyOf(RuleOf[w]) \in Keys
  BY DEF Keys

LEMMA TypeStep == TypeOK /\ IndexInv /\ [Next]_vars => TypeOK'
<1> SUFFICES ASSUME TypeOK, IndexInv, [Next]_vars PROVE TypeOK'
  OBVIOUS
<1>1. ASSUME NEW w \in Watches, AddWatch(w) PROVE TypeOK'
  BY <1>1, KeysAreKeys DEF TypeOK, IndexInv, AddWatch, Add
<1>2. ASSUME NEW w \in Watches, RemoveWatch(w) PROVE TypeOK'
  <2> DEFINE k == KeyOf(RuleOf[w])
             s == signalMatchRules[k]
  <2>1. k \in Keys /\ KeyOf(rules[w]) = k /\ s \in Seq(Watches)
    BY KeysAreKeys DEF TypeOK, IndexInv
  <2>2. signalMatchRules' \in [Keys -> Seq(Watches)]
    <3>1. CASE Found(signalMatchRules, w, rules[w])
      <4>1. PositionsOf(s, w) # {}
        BY <2>1, <3>1 DEF Found
      <4>2. MoveLastTo(s, FirstPosition(s, w)) \in Seq(Watches)
        BY <2>1, <4>1, FirstPositionIsOne, MoveLastToProperties
      <4>3. signalMatchRules' =
              [signalMatchRules EXCEPT ![k] = MoveLastTo(s, FirstPosition(s, w))]
        BY <1>2, <2>1, <3>1 DEF RemoveWatch, Remove
      <4> HIDE DEF s
      <4> QED
        BY <4>2, <4>3 DEF TypeOK
    <3>2. CASE ~ Found(signalMatchRules, w, rules[w])
      BY <1>2, <3>2 DEF RemoveWatch, Remove, TypeOK
    <3> QED
      BY <3>1, <3>2
  <2>3. foundMatch' \in BOOLEAN
    BY <1>2 DEF RemoveWatch, Found
  <2> QED
    BY <1>2, <2>2, <2>3 DEF RemoveWatch, TypeOK
<1>3. ASSUME NEW w \in Watches, NEW owner \in Owners, OwnerChanges(w, owner) PROVE TypeOK'
  BY <1>3, WatchTableAssumption DEF OwnerChanges, TypeOK, Rule
<1>4. CASE UNCHANGED vars
  BY <1>4 DEF vars, TypeOK
<1> QED
  BY <1>1, <1>2, <1>3, <1>4 DEF Next

\* Appending a new watch to the slice under its key.
LEMMA AppendUnderKey ==
  ASSUME NEW k, NEW s \in Seq(Watches), NEW present, UnderOwnKey(k, s, present),
         NEW w \in Watches, w \notin present, KeyOf(RuleOf[w]) = k
  PROVE  /\ UnderOwnKey(k, Append(s, w), present \union {w})
         /\ \A x \in present \union {w} :
              x = w \/ PositionsOf(s, x) # {} => PositionsOf(Append(s, w), x) # {}
<1>1. /\ Len(Append(s, w)) = Len(s) + 1 /\ Append(s, w)[Len(s) + 1] = w
      /\ \A i \in 1..Len(s) : Append(s, w)[i] = s[i]
  OBVIOUS
<1>2. /\ Len(s) \in Nat /\ Len(s) + 1 \in 1..(Len(s) + 1)
      /\ \A i \in 1..(Len(s) + 1) : i \in 1..Len(s) \/ i = Len(s) + 1
      /\ \A i \in 1..Len(s) : i \in 1..(Len(s) + 1)
  OBVIOUS
<1>3. UnderOwnKey(k, Append(s, w), present \union {w})
  BY <1>1, <1>2 DEF UnderOwnKey
<1>4. \A x : x = w \/ PositionsOf(s, x) # {} => PositionsOf(Append(s, w), x) # {}
  BY <1>1, <1>2 DEF PositionsOf
<1> QED
  BY <1>3, <1>4

\* Removing a watch from the slice under its key.
LEMMA RemoveUnderKey ==
  ASSUME NEW k, NEW s \in Seq(Watches), NEW present, UnderOwnKey(k, s, present),
         NEW w \in Watches, PositionsOf(s, w) # {}
  PROVE  LET t == MoveLastTo(s, FirstPosition(s, w))
         IN  /\ UnderOwnKey(k, t, present \ {w})
             /\ \A x \in present \ {w} : PositionsOf(s, x) # {} => PositionsOf(t, x) # {}
<1> DEFINE p == FirstPosition(s, w)
           t == MoveLastTo(s, p)
           n == Len(s)
<1>1. p \in 1..n /\ s[p] = w
  BY FirstPositionIsOne
<1>2. /\ t \in Seq(Watches) /\ Len(t) = n - 1
      /\ \A j \in 1..(n - 1) : t[j] = IF j = p THEN s[n] ELSE s[j]
  BY <1>1, MoveLastToProperties
<1>3. n \in Nat /\ n \in 1..n /\ \A j \in 1..(n - 1) : j \in 1..n /\ j # n
  BY <1>1
<1> HIDE DEF p, t, n
<1> DEFINE from(j) == IF j = p THEN n ELSE j
<1>4. \A j \in 1..(n - 1) : t[j] = s[from(j)] /\ from(j) \in 1..n /\ from(j) # p
  BY <1>1, <1>2, <1>3
<1>5. \A i, j \in 1..(n - 1) : from(i) = from(j) => i = j
  BY <1>3
<1>6. /\ \A i \in 1..n : s[i] \in present /\ KeyOf(RuleOf[s[i]]) = k
      /\ \A i, j \in 1..n : s[i] = s[j] => i = j
  BY DEF UnderOwnKey, n
<1>7. UnderOwnKey(k, t, present \ {w})
  <2>1. ASSUME NEW i \in 1..(n - 1)
        PROVE  t[i] \in present \ {w} /\ KeyOf(RuleOf[t[i]]) = k
    <3>1. t[i] = s[from(i)] /\ from(i) \in 1..n /\ from(i) # p
      BY <1>4
    <3> HIDE DEF from
    <3> QED
      BY <1>1, <1>6, <3>1
  <2>2. ASSUME NEW i \in 1..(n - 1), NEW j \in 1..(n - 1), t[i] = t[j] PROVE i = j
    <3>1. from(i) = from(j)
      BY <1>4, <1>6, <2>2
    <3> QED
      BY <1>5, <3>1
  <2> QED
    BY <1>2, <2>1, <2>2 DEF UnderOwnKey
<1>8. ASSUME NEW x \in present \ {w}, PositionsOf(s, x) # {} PROVE PositionsOf(t, x) # {}
  <2>1. PICK i \in 1..n : s[i] = x
    BY <1>8 DEF PositionsOf, n
  <2>2. i # p
    BY <1>1, <2>1
  <2>3. CASE i = n
    <3>1. p \in 1..(n - 1) /\ t[p] = x
      BY <1>1, <1>2, <1>3, <2>1, <2>2, <2>3
    <3> QED
      BY <1>2, <3>1 DEF PositionsOf
  <2>4. CASE i # n
    <3>1. i \in 1..(n - 1) /\ t[i] = x
      BY <1>2, <1>3, <2>1, <2>2, <2>4
    <3> QED
      BY <1>2, <3>1 DEF PositionsOf
  <2> QED
    BY <2>3, <2>4
<1> QED
  BY <1>7, <1>8 DEF t, p

LEMMA IndexStep == TypeOK /\ IndexInv /\ [Next]_vars => IndexInv'
<1> SUFFICES ASSUME TypeOK, IndexInv, [Next]_vars PROVE IndexInv'
  OBVIOUS
<1>0. /\ \A x \in Watches : KeyOf(RuleOf[x]) \in Keys /\ KeyOf(rules[x]) = KeyOf(RuleOf[x])
      /\ \A x \in registered : x \in Watches
      /\ \A k \in Keys : /\ signalMatchRules[k] \in Seq(Watches)
                         /\ UnderOwnKey(k, signalMatchRules[k], registered)
  BY KeysAreKeys DEF TypeOK, IndexInv
\* An action that changes what lies under the key of w only.
<1>a. ASSUME NEW w \in Watches, NEW t, rules' = rules, registered' \subseteq Watches,
             signalMatchRules' = [signalMatchRules EXCEPT ![KeyOf(RuleOf[w])] = t],
             registered' \ {w} = registered \ {w},
             UnderOwnKey(KeyOf(RuleOf[w]), t, registered'),
             w \in registered' => PositionsOf(t, w) # {},
             \A x \in registered' \ {w} :
                PositionsOf(signalMatchRules[KeyOf(RuleOf[w])], x) # {} => PositionsOf(t, x) # {}
      PROVE  IndexInv'
  <2> DEFINE k == KeyOf(RuleOf[w])
  <2>1. signalMatchRules'[k] = t /\ \A l \in Keys \ {k} : signalMatchRules'[l] = signalMatchRules[l]
    BY <1>0, <1>a DEF TypeOK
  <2>2. ASSUME NEW l \in Keys PROVE UnderOwnKey(l, signalMatchRules'[l], registered')
    <3>1. CASE l = k
      BY <1>a, <2>1, <3>1
    <3>2. CASE l # k
      <4>1. /\ signalMatchRules'[l] = signalMatchRules[l]
            /\ UnderOwnKey(l, signalMatchRules[l], registered)
        BY <1>0, <2>1, <3>2
      <4>2. \A x \in registered : KeyOf(RuleOf[x]) = l => x \in registered'
        BY <1>a, <3>2
      <4> QED
        BY <4>1, <4>2 DEF UnderOwnKey
    <3> QED
      BY <3>1, <3>2
  <2>3. ASSUME NEW x \in registered'
        PROVE  PositionsOf(signalMatchRules'[KeyOf(RuleOf[x])], x) # {}
    <3>1. x \in Watches /\ (x # w => x \in registered)
      BY <1>a
    <3>2. x # w => PositionsOf(signalMatchRules[KeyOf(RuleOf[x])], x) # {}
      BY <3>1 DEF IndexInv
    <3>3. KeyOf(RuleOf[x]) \in Keys
      BY <1>0, <3>1
    <3> QED
      BY <1>a, <2>1, <3>1, <3>2, <3>3
  <2> QED
    BY <1>0, <1>a, <2>2, <2>3 DEF IndexInv
<1>1. ASSUME NEW w \in Watches, AddWatch(w) PROVE IndexInv'
  <2> DEFINE k == KeyOf(RuleOf[w])
             s == signalMatchRules[k]
  <2>1. /\ signalMatchRules' = [signalMatchRules EXCEPT ![k] = Append(s, w)]
        /\ registered' = registered \union {w} /\ rules' = rules /\ w \notin registered
    BY <1>0, <1>1 DEF AddWatch, Add
  <2>2. /\ UnderOwnKey(k, Append(s, w), registered \union {w})
        /\ \A x \in registered \union {w} :
              x = w \/ PositionsOf(s, x) # {} => PositionsOf(Append(s, w), x) # {}
    BY <1>0, <2>1, AppendUnderKey
  <2> QED
    BY <1>0, <1>a, <2>1, <2>2
<1>2. ASSUME NEW w \in Watches, RemoveWatch(w) PROVE IndexInv'
  <2> DEFINE k == KeyOf(RuleOf[w])
             s == signalMatchRules[k]
             t == MoveLastTo(s, FirstPosition(s, w))
  <2>1. registered' = registered \ {w} /\ rules' = rules
    BY <1>2 DEF RemoveWatch
  <2>2. CASE PositionsOf(s, w) # {}
    <3>1. signalMatchRules' = [signalMatchRules EXCEPT ![k] = t]
      BY <1>0, <1>2, <2>2 DEF RemoveWatch, Remove, Found
    <3>2. /\ UnderOwnKey(k, t, registered \ {w})
          /\ \A x \in registered \ {w} : PositionsOf(s, x) # {} => PositionsOf(t, x) # {}
      BY <1>0, <2>2, RemoveUnderKey
    <3> QED
      BY <1>0, <1>a, <2>1, <3>1, <3>2
  <2>3. CASE PositionsOf(s, w) = {}
    <3>1. signalMatchRules' = signalMatchRules /\ w \notin registered
      BY <1>0, <1>2, <2>3 DEF RemoveWatch, Remove, Found, IndexInv
    <3>2. registered' = registered
      BY <2>1, <3>1
    <3> QED
      BY <2>1, <3>1, <3>2 DEF IndexInv
  <2> QED
    BY <2>2, <2>3
<1>3. ASSUME NEW w \in Watches, NEW owner \in Owners, OwnerChanges(w, owner) PROVE IndexInv'
  <2>1. \A x \in Watches : KeyOf(rules'[x]) = KeyOf(rules[x])
    BY <1>3 DEF OwnerChanges, TypeOK, Rule, KeyOf
  <2> QED
    BY <1>0, <1>3, <2>1 DEF OwnerChanges, IndexInv
<1>4. CASE UNCHANGED vars
  BY <1>4 DEF vars, IndexInv
<1> QED
  BY <1>1, <1>2, <1>3, <1>4 DEF Next

LEMMA InitTable == Init => TypeOK /\ IndexInv
<1> SUFFICES ASSUME Init PROVE TypeOK /\ IndexInv
  OBVIOUS
<1>1. /\ signalMatchRules \in [Keys -> Seq(Watches)] /\ rules = RuleOf
      /\ \A k \in Keys : signalMatchRules[k] = <<>>
  BY DEF Init
<1>2. TypeOK
  BY <1>1, WatchTableAssumption DEF Init, TypeOK
<1>3. \A k \in Keys : UnderOwnKey(k, signalMatchRules[k], registered)
  BY <1>1 DEF UnderOwnKey
<1> QED
  BY <1>1, <1>2, <1>3 DEF Init, IndexInv

\* The table keeps its types, and every watch lies where its rule says.
THEOREM TableCorrect == Spec => [](TypeOK /\ IndexInv)
<1>1. TypeOK /\ IndexInv /\ [Next]_vars => (TypeOK /\ IndexInv)'
  BY TypeStep, IndexStep
<1> QED
  BY <1>1, InitTable, PTL DEF Spec

THEOREM IndexCorrect == Spec => []IndexInv
  BY TableCorrect, PTL

\* No key is tried twice on a level, and an unset field or one that equals the
\* message's is tried.
LEMMA KeyList ==
  ASSUME NEW v \in STRING
  PROVE  /\ v = "" => Len(LookupKeys(v)) = 1
         /\ v # "" => Len(LookupKeys(v)) = 2
         /\ LookupKeys(v)[1] = ""
         /\ v # "" => LookupKeys(v)[2] = v
  BY DEF LookupKeys

LEMMA ShortIntervals == 1..1 = {1} /\ 1..2 = {1, 2}
  OBVIOUS

LEMMA KeysDistinct ==
  ASSUME NEW v \in STRING, NEW a \in 1..Len(LookupKeys(v)), NEW b \in 1..Len(LookupKeys(v)),
         LookupKeys(v)[a] = LookupKeys(v)[b]
  PROVE  a = b
<1>1. CASE v = ""
  <2>1. Len(LookupKeys(v)) = 1
    BY <1>1, KeyList, Zenon
  <2>2. a = 1 /\ b = 1
    BY <2>1
  <2> QED
    BY <2>2
<1>2. CASE v # ""
  <2>1. Len(LookupKeys(v)) = 2 /\ LookupKeys(v)[1] # LookupKeys(v)[2]
    BY <1>2, KeyList, Zenon
  <2>2. a \in {1, 2} /\ b \in {1, 2}
    BY <2>1
  <2> QED
    <3> DEFINE K == LookupKeys(v)
    <3>1. Len(K) = 2 /\ K[1] # K[2] /\ K[a] = K[b] /\ a \in 1..Len(K) /\ b \in 1..Len(K)
      BY <2>1, Zenon
    <3> HIDE DEF K
    <3> QED
      BY <3>1
<1> QED
  BY <1>1, <1>2, Zenon

LEMMA KeyTried ==
  ASSUME NEW v \in STRING, NEW r \in {"", v}
  PROVE  \E a \in 1..Len(LookupKeys(v)) : LookupKeys(v)[a] = r
<1>1. CASE v = ""
  BY <1>1, KeyList, ShortIntervals, Zenon
<1>2. CASE v # ""
  BY <1>2, KeyList, ShortIntervals, Zenon
<1> QED
  BY <1>1, <1>2, Zenon

\* What it is to be a hit.
LEMMA HitShape ==
  ASSUME NEW msg, NEW h
  PROVE  h \in FindMatches(signalMatchRules, rules, msg) <=>
           \E p \in 1..Len(LookupKeys(msg.path)), i \in 1..Len(LookupKeys(msg.interface)),
              m \in 1..Len(LookupKeys(msg.member)) :
                LET key == <<LookupKeys(msg.path)[p], LookupKeys(msg.interface)[i],
                             LookupKeys(msg.member)[m]>>
                IN  \E n \in Accepting(signalMatchRules, rules, msg, key) :
                      h = <<p, i, m, n, Under(signalMatchRules, key)[n]>>
<1> DEFINE P == 1..Len(LookupKeys(msg.path))
           I == 1..Len(LookupKeys(msg.interface))
           M == 1..Len(LookupKeys(msg.member))
           key(p, i, m) == <<LookupKeys(msg.path)[p], LookupKeys(msg.interface)[i],
                             LookupKeys(msg.member)[m]>>
           hits(p, i, m) == {<<p, i, m, n, Under(signalMatchRules, key(p, i, m))[n]>> :
                               n \in Accepting(signalMatchRules, rules, msg, key(p, i, m))}
           U == UNION {hits(p, i, m) : p \in P, i \in I, m \in M}
<1>1. FindMatches(signalMatchRules, rules, msg) = U
  BY DEF FindMatches
<1>2. ASSUME NEW p \in P, NEW i \in I, NEW m \in M
      PROVE  h \in hits(p, i, m) <=>
               \E n \in Accepting(signalMatchRules, rules, msg, key(p, i, m)) :
                  h = <<p, i, m, n, Under(signalMatchRules, key(p, i, m))[n]>>
  OBVIOUS
<1>3. h \in U <=> \E p \in P, i \in I, m \in M : h \in hits(p, i, m)
  <2> HIDE DEF hits, P, I, M
  <2> QED
    OBVIOUS
<1>4. \A p \in P, i \in I, m \in M : h \in hits(p, i, m) <=>
               \E n \in Accepting(signalMatchRules, rules, msg, key(p, i, m)) :
                  h = <<p, i, m, n, Under(signalMatchRules, key(p, i, m))[n]>>
  BY <1>2
<1> HIDE DEF hits, U
<1>5. h \in FindMatches(signalMatchRules, rules, msg)
        <=> \E p \in P, i \in I, m \in M : h \in hits(p, i, m)
  BY <1>1, <1>3, Zenon
<1>6. h \in FindMatches(signalMatchRules, rules, msg)
        <=> \E p \in P, i \in I, m \in M :
              \E n \in Accepting(signalMatchRules, rules, msg, key(p, i, m)) :
                  h = <<p, i, m, n, Under(signalMatchRules, key(p, i, m))[n]>>
  <2> HIDE DEF key, P, I, M
  <2> QED
    BY <1>4, <1>5, Zenon
<1> QED
  BY <1>6

\* The callback of a watch runs exactly once for a signal its rule accepts while
\* it is registered, for any rules, watches and signals.
THEOREM MatchedOnce == Spec => []EachMatchOnce
<1>1. TypeOK /\ IndexInv => EachMatchOnce
  <2> SUFFICES ASSUME TypeOK, IndexInv, NEW w \in Watches, NEW msg \in Signals
               PROVE  Cardinality(HitsOf(w, msg)) =
                        IF w \in registered /\ Match(rules[w], msg) THEN 1 ELSE 0
    BY DEF EachMatchOnce
  <2> DEFINE P == LookupKeys(msg.path)
             I == LookupKeys(msg.interface)
             M == LookupKeys(msg.member)
             key(p, i, m) == <<P[p], I[i], M[m]>>
             k == KeyOf(RuleOf[w])
             s == signalMatchRules[k]
  <2>0. msg.path \in STRING /\ msg.interface \in STRING /\ msg.member \in STRING
    BY WatchTableAssumption DEF Message
  <2>1. /\ k \in Keys /\ KeyOf(rules[w]) = k /\ s \in Seq(Watches)
        /\ UnderOwnKey(k, s, registered)
    BY KeysAreKeys DEF TypeOK, IndexInv
  \* A hit of w is a position of w under its key.
  <2>2. ASSUME NEW h \in HitsOf(w, msg)
        PROVE  \E p \in 1..Len(P), i \in 1..Len(I), m \in 1..Len(M), n \in 1..Len(s) :
                  /\ h = <<p, i, m, n, w>> /\ key(p, i, m) = k /\ s[n] = w
                  /\ Match(rules[w], msg)
    <3>1. PICK p \in 1..Len(P), i \in 1..Len(I), m \in 1..Len(M) :
            \E n \in 1..Len(Under(signalMatchRules, key(p, i, m))) :
               /\ h = <<p, i, m, n, Under(signalMatchRules, key(p, i, m))[n]>>
               /\ Match(rules[Under(signalMatchRules, key(p, i, m))[n]], msg)
      BY HitShape DEF HitsOf, Accepting
    <3>2. PICK n \in 1..Len(Under(signalMatchRules, key(p, i, m))) :
             /\ h = <<p, i, m, n, w>> /\ Match(rules[w], msg)
             /\ Under(signalMatchRules, key(p, i, m))[n] = w
      BY <3>1 DEF HitsOf
    <3>3. key(p, i, m) \in Keys /\ Under(signalMatchRules, key(p, i, m)) = signalMatchRules[key(p, i, m)]
      BY <3>2 DEF Under, TypeOK
    <3>4. key(p, i, m) = k
      BY <3>2, <3>3 DEF IndexInv, UnderOwnKey
    <3> QED
      BY <3>2, <3>3, <3>4
  <2>3. CASE w \in registered /\ Match(rules[w], msg)
    <3>1. PICK n \in 1..Len(s) : s[n] = w
      BY <2>3 DEF IndexInv, PositionsOf
    <3>2. PICK p \in 1..Len(P), i \in 1..Len(I), m \in 1..Len(M) : key(p, i, m) = k
      <4>1. /\ rules[w].path \in {"", msg.path} /\ rules[w].interface \in {"", msg.interface}
            /\ rules[w].member \in {"", msg.member}
        BY <2>3 DEF Match
      <4>2. k = <<rules[w].path, rules[w].interface, rules[w].member>>
        BY <2>1 DEF KeyOf
      <4>3. PICK p \in 1..Len(P) : P[p] = rules[w].path
        BY <2>0, <4>1, KeyTried
      <4>4. PICK i \in 1..Len(I) : I[i] = rules[w].interface
        BY <2>0, <4>1, KeyTried
      <4>5. PICK m \in 1..Len(M) : M[m] = rules[w].member
        BY <2>0, <4>1, KeyTried
      <4> HIDE DEF P, I, M, k
      <4> QED
        BY <4>2, <4>3, <4>4, <4>5
    <3>3. <<p, i, m, n, w>> \in HitsOf(w, msg)
      <4>1. Under(signalMatchRules, key(p, i, m)) = s
        BY <2>1, <3>2 DEF Under, TypeOK
      <4>2. /\ n \in Accepting(signalMatchRules, rules, msg, key(p, i, m))
            /\ Under(signalMatchRules, key(p, i, m))[n] = w
        BY <2>3, <3>1, <4>1 DEF Accepting
      <4>3. <<p, i, m, n, w>> \in FindMatches(signalMatchRules, rules, msg)
        BY <4>2, HitShape
      <4> QED
        BY <4>3 DEF HitsOf
    <3>4. ASSUME NEW h \in HitsOf(w, msg) PROVE h = <<p, i, m, n, w>>
      <4>1. PICK q \in 1..Len(P), j \in 1..Len(I), o \in 1..Len(M), l \in 1..Len(s) :
               h = <<q, j, o, l, w>> /\ key(q, j, o) = k /\ s[l] = w
        BY <2>2
      <4>2. P[q] = P[p] /\ I[j] = I[i] /\ M[o] = M[m]
        BY <3>2, <4>1
      <4>3. q = p /\ j = i /\ o = m
        <5> HIDE DEF P, I, M
        <5> QED
          BY <2>0, <4>2, KeysDistinct DEF P, I, M
      <4>4. l = n
        BY <2>1, <3>1, <4>1 DEF UnderOwnKey
      <4> QED
        BY <4>1, <4>3, <4>4
    <3>5. HitsOf(w, msg) = {<<p, i, m, n, w>>}
      BY <3>3, <3>4
    <3> QED
      BY <2>3, <3>5, FS_Singleton
  <2>4. CASE ~ (w \in registered /\ Match(rules[w], msg))
    <3>1. ASSUME NEW h \in HitsOf(w, msg) PROVE FALSE
      <4>1. PICK n \in 1..Len(s) : s[n] = w /\ Match(rules[w], msg)
        BY <2>2
      <4>2. w \in registered
        BY <2>1, <4>1 DEF UnderOwnKey
      <4> QED
        BY <2>4, <4>1, <4>2
    <3>2. HitsOf(w, msg) = {}
      BY <3>1
    <3> QED
      BY <2>4, <3>2, FS_EmptySet
  <2> QED
    BY <2>3, <2>4
<1> QED
  BY <1>1, TableCorrect, PTL

\* Remove returns whether the watch was registered.
THEOREM RemoveIsTruthful == Spec => RemoveTellsTruth
<1>1. TypeOK /\ IndexInv /\ [Next]_vars
        => [\A w \in Watches : RemoveWatch(w) => foundMatch' = (w \in registered)]_vars
  <2> SUFFICES ASSUME TypeOK, IndexInv, NEW w \in Watches, RemoveWatch(w)
               PROVE  foundMatch' = (w \in registered)
    OBVIOUS
  <2> DEFINE s == signalMatchRules[KeyOf(RuleOf[w])]
  <2>1. /\ KeyOf(rules[w]) = KeyOf(RuleOf[w]) /\ KeyOf(RuleOf[w]) \in Keys
        /\ UnderOwnKey(KeyOf(RuleOf[w]), s, registered)
    BY KeysAreKeys DEF IndexInv
  <2>2. foundMatch' = (PositionsOf(s, w) # {})
    BY <2>1 DEF RemoveWatch, Found
  <2>3. PositionsOf(s, w) # {} <=> w \in registered
    BY <2>1 DEF IndexInv, UnderOwnKey, PositionsOf
  <2> QED
    BY <2>2, <2>3
<1> QED
  BY <1>1, TableCorrect, PTL DEF Spec, RemoveTellsTruth
=============================================================================
