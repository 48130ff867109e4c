-------------------------- MODULE SignalWatchTable --------------------------
(***************************************************************************)
(* Connection.signalMatchRules as watches come and go and the owners of    *)
(* the bus names they name as senders change, and what the dispatch of a   *)
(* signal finds in it.  Every access to it holds handlerMutex.             *)
(***************************************************************************)
EXTENDS SignalWatchSet, FiniteSets

CONSTANTS
  Watches,  \* signal watches, each with a rule of its own
  RuleOf,   \* the rule a watch was made with
  Owners,   \* the owners a bus name may have, "" if none
  Signals   \* the signals that may arrive

Message == [type : STRING, sender : STRING, path : STRING, interface : STRING,
            member : STRING, arg0 : STRING]
Rule == [type : STRING, sender : STRING, path : STRING, interface : STRING,
         member : STRING, arg0 : STRING, senderNameOwner : STRING]

ASSUME WatchTableAssumption ==
  /\ RuleOf \in [Watches -> Rule]
  /\ Owners \subseteq STRING
  /\ Signals \subseteq Message

Keys == {KeyOf(RuleOf[w]) : w \in Watches}

VARIABLES
  signalMatchRules, \* Connection.signalMatchRules
  rules,            \* the rule of each watch, with the owner of its sender
  foundMatch,       \* what Remove returned last
  registered        \* history: the watches that were added and not removed

vars == <<signalMatchRules, rules, foundMatch, registered>>

Init ==
  /\ signalMatchRules = [k \in Keys |-> <<>>]
  /\ rules = RuleOf
  /\ foundMatch = FALSE
  /\ registered = {}

\* watchSignal adds a watch it has just made: a watch is added once at a time.
AddWatch(w) ==
  /\ w \notin registered
  /\ signalMatchRules' = Add(signalMatchRules, w, rules[w])
  /\ registered' = registered \union {w}
  /\ UNCHANGED <<rules, foundMatch>>

\* cancel and the failure path of watchSignal may ask for a watch that is gone.
RemoveWatch(w) ==
  /\ foundMatch' = Found(signalMatchRules, w, rules[w])
  /\ signalMatchRules' = Remove(signalMatchRules, w, rules[w])
  /\ registered' = registered \ {w}
  /\ UNCHANGED rules

\* The callback of a name watch: the sender's name has a new owner.
OwnerChanges(w, owner) ==
  /\ rules' = [rules EXCEPT ![w].senderNameOwner = owner]
  /\ UNCHANGED <<signalMatchRules, foundMatch, registered>>

Next ==
  \E w \in Watches :
     \/ AddWatch(w) \/ RemoveWatch(w)
     \/ RuleOf[w].sender # "" /\ \E owner \in Owners : OwnerChanges(w, owner)

Spec == Init /\ [][Next]_vars

TypeOK ==
  /\ signalMatchRules \in [Keys -> Seq(Watches)]
  /\ rules \in [Watches -> Rule]
  /\ foundMatch \in BOOLEAN
  /\ registered \in SUBSET Watches

HitsOf(w, msg) == {h \in FindMatches(signalMatchRules, rules, msg) : h[5] = w}

\* The callback of a watch runs once for a signal its rule accepts while it is
\* registered, and not at all otherwise: no watch is missed because its rule
\* leaves a key unset, none is called twice because the signal does, and none is
\* lost when a neighbour in its slice is removed.
EachMatchOnce ==
  \A w \in Watches, msg \in Signals :
     Cardinality(HitsOf(w, msg)) = IF w \in registered /\ Match(rules[w], msg) THEN 1 ELSE 0

\* Remove tells whether the watch was there, which is what decides in cancel
\* whether the rule is taken back from the bus.
RemoveTellsTruth ==
  [][\A w \in Watches : RemoveWatch(w) => foundMatch' = (w \in registered)]_vars

\* What makes it so: a watch lies under its own key and nowhere else, once if
\* it is registered.
UnderOwnKey(k, watches, present) ==
  /\ \A i \in 1..Len(watches) :
        watches[i] \in present /\ KeyOf(RuleOf[watches[i]]) = k
  /\ \A i, j \in 1..Len(watches) : watches[i] = watches[j] => i = j

IndexInv ==
  /\ \A k \in Keys : UnderOwnKey(k, signalMatchRules[k], registered)
  /\ \A w \in registered : PositionsOf(signalMatchRules[KeyOf(RuleOf[w])], w) # {}
  /\ \A w \in Watches : KeyOf(rules[w]) = KeyOf(RuleOf[w])
=============================================================================
