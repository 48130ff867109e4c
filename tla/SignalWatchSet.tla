--------------------------- MODULE SignalWatchSet ---------------------------
(***************************************************************************)
(* The index of signal watches of a Connection (signal.go) and the test of *)
(* a match rule (matchrule.go).                                            *)
(*                                                                         *)
(* The three nested maps are one function from <<path, interface, member>> *)
(* to a sequence of watches; a key that is absent holds the empty          *)
(* sequence.  An unset field of a rule or a message is "", and so is the   *)
(* first argument of a message that has no string there.                   *)
(***************************************************************************)
EXTENDS Integers, Sequences

\* TypeInvalid: a rule that does not ask for a type.
AnyType == ""

KeyOf(rule) == <<rule.path, rule.interface, rule.member>>

\* The watches under a key: none where one of the three maps has no entry.
Under(set, key) == IF key \in DOMAIN set THEN set[key] ELSE <<>>

\* signalWatchSet.Add, for a watch with the given rule.
Add(set, w, rule) == [set EXCEPT ![KeyOf(rule)] = Append(@, w)]

\* Where the loop of Remove finds the watch: the first of its positions.
PositionsOf(watches, w) == {i \in 1..Len(watches) : watches[i] = w}

FirstPosition(watches, w) ==
  CHOOSE i \in PositionsOf(watches, w) : \A j \in PositionsOf(watches, w) : i <= j

\* Mutated form: the last watch is not moved to the place that falls free.
MoveLastTo_Truncates(watches, i) == SubSeq(watches, 1, Len(watches) - 1)

\* The last watch takes the place of the one that goes, and the slice is truncated.
MoveLastTo(watches, i) ==
  SubSeq([watches EXCEPT ![i] = watches[Len(watches)]], 1, Len(watches) - 1)

\* signalWatchSet.Remove: its result, and the set it leaves.
Found(set, w, rule) == PositionsOf(set[KeyOf(rule)], w) # {}

Remove(set, w, rule) ==
  IF Found(set, w, rule)
  THEN [set EXCEPT ![KeyOf(rule)] = MoveLastTo(@, FirstPosition(@, w))]
  ELSE set

\* MatchRule.Match: what the rule leaves unset is not looked at.
Match(rule, msg) ==
  /\ rule.type \in {AnyType, msg.type}
  /\ rule.sender = "" \/ msg.sender \in {rule.sender, rule.senderNameOwner}
  /\ rule.path \in {"", msg.path}
  /\ rule.interface \in {"", msg.interface}
  /\ rule.member \in {"", msg.member}
  /\ rule.arg0 \in {"", msg.arg0}

\* Mutated form: the value is a key of its own even when it is unset.
LookupKeys_Twice(value) == <<"", value>>

\* The keys FindMatches tries on one level: the unset one, then that of the message.
LookupKeys(value) == IF value = "" THEN <<"">> ELSE <<"", value>>

\* The indices of the watches under a key whose rules accept the message; rules
\* gives the present rule of every watch.
Accepting(set, rules, msg, key) ==
  {n \in 1..Len(Under(set, key)) : Match(rules[Under(set, key)[n]], msg)}

\* signalWatchSet.FindMatches, as the set of its hits <<p, i, m, n, watch>>: the
\* n-th watch under the p-th path key, i-th interface key and m-th member key.
FindMatches(set, rules, msg) ==
  LET key(p, i, m) ==
        <<LookupKeys(msg.path)[p], LookupKeys(msg.interface)[i], LookupKeys(msg.member)[m]>>
      hits(p, i, m) == {<<p, i, m, n, Under(set, key(p, i, m))[n]>> :
                           n \in Accepting(set, rules, msg, key(p, i, m))}
  IN  UNION {hits(p, i, m) : p \in 1..Len(LookupKeys(msg.path)),
                             i \in 1..Len(LookupKeys(msg.interface)),
                             m \in 1..Len(LookupKeys(msg.member))}
=============================================================================
