---------------------------- MODULE NameWatches ----------------------------
(***************************************************************************)
(* Watching the owner of one bus name (names.go): goroutines that call     *)
(* WatchName, or WatchSignal for a rule whose sender is the name, and      *)
(* Cancel; the nameInfo they share; the receive loop that runs its         *)
(* callback; and the bus.  nameInfoMutex is that of the connection: a      *)
(* watch of another name would only hold it in the same way.               *)
(*                                                                         *)
(* An owner is the number of the change that brought it, and an owner in   *)
(* Ownerless is no owner at all (the empty string).  When GetNameOwner     *)
(* fails with an unexpected error, the code goes on with the empty string  *)
(* whoever the owner is: InsteadOf(o) is the empty string that it takes    *)
(* for the owner o.  Every call of                                         *)
(* AddMatch, GetNameOwner and RemoveMatch is answered in the order in      *)
(* which the bus served it (module Connection).  That a watch waits in the *)
(* table until its AddMatch is answered, and that a signal is received     *)
(* from an unbuffered channel, is the matter of module SignalWatches; here *)
(* the goroutines that receive signals are always ready to.                *)
(***************************************************************************)
EXTENDS Integers, Sequences, FiniteSets

CONSTANTS
  NameWatchers, SignalWatchers, \* executions of WatchName, and of WatchSignal
  Cancels,    \* executions of NameWatch.Cancel and SignalWatch.Cancel, numbered
  WatchOf,    \* the watch each of them cancels
  MaxChanges, \* bound: how often the name changes hands
  MaxCancels, \* bound: how many of the Cancels are called
  Ownerless,  \* the changes that leave it without an owner
  Names,      \* what the name may be at first: unique or not, and its owner
  Faults,     \* the bus may refuse to add a rule ("refuse"), to remove one ("keep") or to
              \* say who the owner is ("silence")
  Unknown,    \* the initial currentOwner
  Loop, None

Watches == NameWatchers \union SignalWatchers
Goroutines == Watches \union Cancels
OwnersOf == 0..MaxChanges

\* What the code may hold to be the owner, and the owner there was when it was said.
InsteadOf(o) == -1 - o
Views == OwnersOf \union {InsteadOf(o) : o \in OwnersOf}
OwnerAt(v) == IF v < 0 THEN InsteadOf(v) ELSE v
NoOwner(v) == v < 0 \/ v \in Ownerless

\* What a reply may say; an error in place of an owner says nothing of it.
Ok == <<"ok">>
Error == <<"error">>
OwnerIs(o) == <<"owner", o>>
NotSaid(o) == <<"error", o>>
Answers == {Ok, Error} \union {OwnerIs(o) : o \in OwnersOf} \union {NotSaid(o) : o \in OwnersOf}

ASSUME NameAssumption ==
  /\ NameWatchers \intersect SignalWatchers = {} /\ Watches \intersect Cancels = {}
  /\ Cancels \subseteq Nat /\ WatchOf \in [Cancels -> Watches]
  /\ {MaxChanges, MaxCancels} \subseteq Nat /\ Ownerless \subseteq OwnersOf
  /\ Names \subseteq [unique : BOOLEAN, owner : OwnersOf]
  /\ Faults \subseteq {"refuse", "keep", "silence"}
  /\ {Unknown, None} \intersect (Goroutines \union Views) = {} /\ None \notin Answers
  /\ Loop \notin Goroutines \union {None}

VARIABLES
  pc,            \* where each goroutine is
  nameInfoMutex, \* the goroutine that holds it
  nameInfo,      \* the entry of the name: a nameInfo is named for the watch that made it
  info,          \* lock, currentOwner and watches of each nameInfo
  infoOf,        \* the nameInfo of a nameWatch
  lock,          \* SignalWatch.lock or NameWatch.cancelLock
  closed,        \* the watches that are cancelled, with C closed
  senderOwner,   \* rule.senderNameOwner
  C,             \* the buffered channel of a NameWatch
  told,          \* history: what the application received from it
  rules,         \* the rules in signalMatchRules
  calls,         \* calls the bus has not served
  answer,        \* what the reply to a goroutine's call says
  loop,          \* the receive loop: where it is, the message it dispatches, the
                 \* nameInfos still to call back, the present one and its watches
  fromBus,       \* what the bus has sent
  busRules,      \* the rules the bus keeps
  name           \* the name: whether it is unique, and its present owner

watchVars == <<infoOf, lock, closed, senderOwner, C, told>>
infoVars  == <<nameInfoMutex, nameInfo, info>>
callVars  == <<calls, answer>>
busVars   == <<fromBus, busRules, name>>
vars == <<pc, infoVars, watchVars, rules, callVars, loop, busVars>>

\* The match rule for NameOwnerChanged of a nameInfo, and that of a SignalWatch.
OwnerRule(i) == <<"NameOwnerChanged", i>>
SignalRule(w) == <<"signal", w>>

Reading == [at |-> "read", msg |-> None, infos |-> {}, info |-> None, watches |-> {}]

Init ==
  /\ pc = [g \in Goroutines |-> "new"]
  /\ nameInfoMutex = None /\ nameInfo = None
  /\ info = [i \in Watches |-> [lock |-> None, currentOwner |-> Unknown, watches |-> {}]]
  /\ infoOf = [w \in Watches |-> None]
  /\ lock = [w \in Watches |-> None]
  /\ closed = {}
  /\ senderOwner = [w \in SignalWatchers |-> Unknown]
  /\ C = [w \in NameWatchers |-> <<>>] /\ told = [w \in NameWatchers |-> <<>>]
  /\ rules = {} /\ calls = {} /\ answer = [g \in Goroutines |-> None]
  /\ loop = Reading
  /\ fromBus = <<>> /\ busRules = {} /\ name \in Names

Goto(g, from, to) == pc[g] = from /\ pc' = [pc EXCEPT ![g] = to]
Ask(g, method, rule) ==
  /\ calls' = calls \union {[by |-> g, method |-> method, rule |-> rule]}
  /\ UNCHANGED answer
Told(g, what) == answer[g] = what /\ answer' = [answer EXCEPT ![g] = None]
WatchBy(g) == IF g \in Cancels THEN WatchOf[g] ELSE g

(***************************************************************************)
(* ensureNameWatch, and what WatchName and WatchSignal do around it.       *)
(***************************************************************************)
\* WatchSignal holds the lock of the watch it makes; both ask for nameInfoMutex.
WatchName(w) ==
  /\ Goto(w, "new", "ensure")
  /\ lock' = [lock EXCEPT ![w] = IF w \in SignalWatchers THEN w ELSE None]
  /\ UNCHANGED <<infoVars, infoOf, closed, senderOwner, C, told, rules, callVars, loop, busVars>>

\* A known name: go on to its nameInfo.
FindInfo(w) ==
  /\ nameInfoMutex = None /\ nameInfo # None
  /\ Goto(w, "ensure", "toAttach")
  /\ nameInfoMutex' = w
  /\ UNCHANGED <<nameInfo, info, watchVars, rules, callVars, loop, busVars>>

\* newNameInfo: watch NameOwnerChanged ...
NewNameInfo(w) ==
  /\ nameInfoMutex = None /\ nameInfo = None
  /\ Goto(w, "ensure", "addingOwnerRule")
  /\ nameInfoMutex' = w
  /\ rules' = rules \union {OwnerRule(w)}
  /\ Ask(w, "AddMatch", OwnerRule(w))
  /\ UNCHANGED <<nameInfo, info, watchVars, loop, busVars>>

NewNameInfoFails(w) ==
  /\ Goto(w, "addingOwnerRule", "failed")
  /\ Told(w, Error)
  /\ rules' = rules \ {OwnerRule(w)}
  /\ nameInfoMutex' = None
  /\ lock' = [lock EXCEPT ![w] = None]
  /\ UNCHANGED <<nameInfo, info, infoOf, closed, senderOwner, C, told, calls, loop, busVars>>

\* ... and ask for the owner when the bus is sure to tell of its changes.
CheckCurrentOwner(w) ==
  /\ Goto(w, "addingOwnerRule", "askingOwner")
  /\ answer[w] = Ok /\ answer' = [answer EXCEPT ![w] = None]
  /\ calls' = calls \union {[by |-> w, method |-> "GetNameOwner", rule |-> OwnerRule(w)]}
  /\ UNCHANGED <<infoVars, watchVars, rules, loop, busVars>>

\* checkCurrentOwner logs an error it does not expect and goes on with an empty string.
Found(says) == IF says[1] = "owner" THEN says[2] ELSE InsteadOf(says[2])

\* Mutated form: the answer replaces what a NameOwnerChanged has said meanwhile.
OwnerFound_Overwrites(w) ==
  /\ Goto(w, "askingOwner", "toAttach")
  /\ answer[w] # None /\ answer' = [answer EXCEPT ![w] = None]
  /\ info[w].lock = None
  /\ info' = [info EXCEPT ![w].currentOwner = Found(answer[w])]
  /\ nameInfo' = w
  /\ UNCHANGED <<nameInfoMutex, watchVars, rules, calls, loop, busVars>>

\* The answer counts unless a NameOwnerChanged came before the lock was taken.
\* The new nameInfo has no watches yet whose callbacks would run.
OwnerFound(w) ==
  /\ Goto(w, "askingOwner", "toAttach")
  /\ answer[w] # None /\ answer' = [answer EXCEPT ![w] = None]
  /\ info[w].lock = None
  /\ info' = [info EXCEPT ![w].currentOwner = IF @ = Unknown THEN Found(answer[w]) ELSE @]
  /\ nameInfo' = w
  /\ UNCHANGED <<nameInfoMutex, watchVars, rules, calls, loop, busVars>>

\* The watch joins the nameInfo and its callback is told the owner, all under
\* info.lock: a new channel has room, and a rule for a well known name takes it.
Attach(w) ==
  LET i == nameInfo  now == info[nameInfo].currentOwner
  IN  /\ Goto(w, "toAttach", IF w \in NameWatchers THEN "watching" ELSE "toAddMatch")
      /\ info[i].lock = None
      /\ ~ (w \in SignalWatchers /\ name.unique /\ NoOwner(now))
      /\ info' = [info EXCEPT ![i].watches = @ \union {w}]
      /\ infoOf' = [infoOf EXCEPT ![w] = i]
      /\ nameInfoMutex' = None
      /\ IF w \in NameWatchers
         THEN /\ C' = [C EXCEPT ![w] = IF now = Unknown THEN @ ELSE Append(@, now)]
              /\ UNCHANGED senderOwner
         ELSE /\ senderOwner' = [senderOwner EXCEPT ![w] = IF name.unique THEN @ ELSE now]
              /\ UNCHANGED C
      /\ UNCHANGED <<nameInfo, lock, closed, told, rules, callVars, loop, busVars>>

\* A unique name that has no owner, or whose owner the bus did not say: the callback
\* calls Cancel on the watch whose lock this very call of WatchSignal holds.  It waits
\* for itself, and keeps nameInfoMutex and info.lock.
AttachCancels(w) ==
  /\ Goto(w, "toAttach", "cancelling")
  /\ w \in SignalWatchers /\ name.unique /\ NoOwner(info[nameInfo].currentOwner)
  /\ info[nameInfo].lock = None
  /\ info' = [info EXCEPT ![nameInfo].lock = w, ![nameInfo].watches = @ \union {w}]
  /\ infoOf' = [infoOf EXCEPT ![w] = nameInfo]
  /\ UNCHANGED <<nameInfoMutex, nameInfo, lock, closed, senderOwner, C, told, rules,
                 callVars, loop, busVars>>

\* watchSignal for the rule of the SignalWatch itself.
AddMatch(w) ==
  /\ Goto(w, "toAddMatch", "addingMatch")
  /\ rules' = rules \union {SignalRule(w)}
  /\ Ask(w, "AddMatch", SignalRule(w))
  /\ UNCHANGED <<infoVars, watchVars, loop, busVars>>

AddMatchReturns(w) ==
  /\ Goto(w, "addingMatch", "watching")
  /\ Told(w, Ok)
  /\ lock' = [lock EXCEPT ![w] = None]
  /\ UNCHANGED <<infoVars, infoOf, closed, senderOwner, C, told, rules, calls, loop, busVars>>

\* On an error the name watch is removed before WatchSignal returns.
AddMatchFails(w) ==
  /\ Goto(w, "addingMatch", "remove")
  /\ Told(w, Error)
  /\ rules' = rules \ {SignalRule(w)}
  /\ UNCHANGED <<infoVars, watchVars, calls, loop, busVars>>

(***************************************************************************)
(* removeNameWatch, called by Cancel and by a WatchSignal that failed.     *)
(***************************************************************************)
\* Where its caller goes when it succeeds.
AfterRemove(g) ==
  IF g \in Watches THEN "failed"
  ELSE IF WatchOf[g] \in SignalWatchers THEN "toRemoveMatch" ELSE "toClose"

\* The deferred Unlock of a caller that returns.
UnlockIf(returns, g) == lock' = IF returns THEN [lock EXCEPT ![WatchBy(g)] = None] ELSE lock

RemoveNameWatch(g) ==
  /\ nameInfoMutex = None
  /\ Goto(g, "remove", "toDetach")
  /\ nameInfoMutex' = g
  /\ UNCHANGED <<nameInfo, info, watchVars, rules, callVars, loop, busVars>>

\* Removed before, by a Cancel that then failed: "already cancelled".
NotFound(g) ==
  LET i == infoOf[WatchBy(g)]
  IN  /\ Goto(g, "toDetach", "failed")
      /\ info[i].lock = None /\ WatchBy(g) \notin info[i].watches
      /\ UnlockIf(TRUE, g)
      /\ nameInfoMutex' = None
      /\ UNCHANGED <<nameInfo, info, infoOf, closed, senderOwner, C, told, rules,
                     callVars, loop, busVars>>

\* Other watches share the nameInfo: it stays.
DetachOne(g) ==
  LET i == infoOf[WatchBy(g)]
  IN  /\ Goto(g, "toDetach", AfterRemove(g))
      /\ info[i].lock = None /\ WatchBy(g) \in info[i].watches
      /\ info[i].watches # {WatchBy(g)}
      /\ info' = [info EXCEPT ![i].watches = @ \ {WatchBy(g)}]
      /\ UnlockIf(g \in Watches, g)
      /\ nameInfoMutex' = None
      /\ UNCHANGED <<nameInfo, infoOf, closed, senderOwner, C, told, rules, callVars, loop, busVars>>

\* Mutated form: the nameInfo stays in the map.
DetachLast_KeepsInfo(g) ==
  LET i == infoOf[WatchBy(g)]
  IN  /\ Goto(g, "toDetach", "removingOwnerRule")
      /\ info[i].lock = None /\ info[i].watches = {WatchBy(g)}
      /\ info' = [info EXCEPT ![i].lock = g, ![i].watches = {}]
      /\ rules' = rules \ {OwnerRule(i)}
      /\ Ask(g, "RemoveMatch", OwnerRule(i))
      /\ UNCHANGED <<nameInfoMutex, nameInfo, watchVars, loop, busVars>>

\* The last one: the nameInfo goes, and its signal watch is cancelled while both
\* nameInfoMutex and info.lock are held.
DetachLast(g) ==
  LET i == infoOf[WatchBy(g)]
  IN  /\ Goto(g, "toDetach", "removingOwnerRule")
      /\ info[i].lock = None /\ info[i].watches = {WatchBy(g)}
      /\ info' = [info EXCEPT ![i].lock = g, ![i].watches = {}]
      /\ nameInfo' = None
      /\ rules' = rules \ {OwnerRule(i)}
      /\ Ask(g, "RemoveMatch", OwnerRule(i))
      /\ UNCHANGED <<nameInfoMutex, watchVars, loop, busVars>>

\* Mutated form: nameInfoMutex is not unlocked on the way out.
Released_KeepsMutex(g) ==
  /\ info' = [info EXCEPT ![infoOf[WatchBy(g)]].lock = None]
  /\ UNCHANGED nameInfoMutex

Released(g) ==
  /\ info' = [info EXCEPT ![infoOf[WatchBy(g)]].lock = None]
  /\ nameInfoMutex' = None

OwnerRuleRemoved(g) ==
  /\ Goto(g, "removingOwnerRule", AfterRemove(g))
  /\ Told(g, Ok)
  /\ Released(g)
  /\ UnlockIf(g \in Watches, g)
  /\ UNCHANGED <<nameInfo, infoOf, closed, senderOwner, C, told, rules, calls, loop, busVars>>

OwnerRuleKept(g) ==
  /\ Goto(g, "removingOwnerRule", "failed")
  /\ Told(g, Error)
  /\ Released(g)
  /\ UnlockIf(TRUE, g)
  /\ UNCHANGED <<nameInfo, infoOf, closed, senderOwner, C, told, rules, calls, loop, busVars>>

(***************************************************************************)
(* NameWatch.Cancel and SignalWatch.Cancel.                                *)
(***************************************************************************)
\* Cancels of the same watch are alike: they are called in the order of their numbers.
CallCancel(k) ==
  /\ pc[WatchOf[k]] = "watching"
  /\ Cardinality({j \in Cancels : pc[j] # "new"}) < MaxCancels
  /\ \A j \in Cancels : WatchOf[j] = WatchOf[k] /\ j < k => pc[j] # "new"
  /\ Goto(k, "new", "locking")
  /\ UNCHANGED <<infoVars, watchVars, rules, callVars, loop, busVars>>

CancelAgain(k) ==
  /\ lock[WatchOf[k]] = None /\ WatchOf[k] \in closed
  /\ Goto(k, "locking", "returned")
  /\ UNCHANGED <<infoVars, watchVars, rules, callVars, loop, busVars>>

Cancel(k) ==
  /\ lock[WatchOf[k]] = None /\ WatchOf[k] \notin closed
  /\ Goto(k, "locking", "remove")
  /\ lock' = [lock EXCEPT ![WatchOf[k]] = k]
  /\ UNCHANGED <<infoVars, infoOf, closed, senderOwner, C, told, rules, callVars, loop, busVars>>

\* A SignalWatch has a rule of its own to take back.
RemoveMatch(k) ==
  /\ Goto(k, "toRemoveMatch", "removingMatch")
  /\ rules' = rules \ {SignalRule(WatchOf[k])}
  /\ Ask(k, "RemoveMatch", SignalRule(WatchOf[k]))
  /\ UNCHANGED <<infoVars, watchVars, loop, busVars>>

RemoveMatchReturns(k) ==
  /\ Goto(k, "removingMatch", "toClose")
  /\ Told(k, Ok)
  /\ UNCHANGED <<infoVars, watchVars, rules, calls, loop, busVars>>

RemoveMatchFails(k) ==
  /\ Goto(k, "removingMatch", "failed")
  /\ Told(k, Error)
  /\ UnlockIf(TRUE, k)
  /\ UNCHANGED <<infoVars, infoOf, closed, senderOwner, C, told, rules, calls, loop, busVars>>

CloseChannel(k) ==
  /\ Goto(k, "toClose", "returned")
  /\ closed' = closed \union {WatchOf[k]}
  /\ UnlockIf(TRUE, k)
  /\ UNCHANGED <<infoVars, infoOf, senderOwner, C, told, rules, callVars, loop, busVars>>

(***************************************************************************)
(* The receive loop.                                                       *)
(***************************************************************************)
ReadMessage ==
  /\ loop.at = "read" /\ fromBus # <<>>
  /\ loop' = [loop EXCEPT !.at = "dispatch", !.msg = Head(fromBus)]
  /\ fromBus' = Tail(fromBus)
  /\ UNCHANGED <<pc, infoVars, watchVars, rules, callVars, busRules, name>>

DispatchReply ==
  /\ loop.at = "dispatch" /\ loop.msg.type = "reply"
  /\ answer' = [answer EXCEPT ![loop.msg.to] = loop.msg.says]
  /\ loop' = Reading
  /\ UNCHANGED <<pc, infoVars, watchVars, rules, calls, busVars>>

\* A signal of the owner, matched by senderOwner, and received at once.
DispatchSignal ==
  /\ loop.at = "dispatch" /\ loop.msg.type = "signal"
  /\ loop' = Reading
  /\ UNCHANGED <<pc, infoVars, watchVars, rules, callVars, busVars>>

\* NameOwnerChanged: the nameInfos to call back are looked up under handlerMutex.
DispatchOwnerChanged ==
  /\ loop.at = "dispatch" /\ loop.msg.type = "NameOwnerChanged"
  /\ loop' = [loop EXCEPT !.at = "callbacks", !.infos = {i \in Watches : OwnerRule(i) \in rules}]
  /\ UNCHANGED <<pc, infoVars, watchVars, rules, callVars, busVars>>

\* Mutated form: the watches are told without info.lock.
HandleOwnerChange_NoLock(i) ==
  /\ loop.at = "callbacks" /\ i \in loop.infos
  /\ info' = [info EXCEPT ![i].currentOwner = loop.msg.owner]
  /\ loop' = [loop EXCEPT !.at = "telling", !.infos = @ \ {i}, !.info = i,
                          !.watches = info[i].watches]
  /\ UNCHANGED <<pc, nameInfoMutex, nameInfo, watchVars, rules, callVars, busVars>>

\* handleOwnerChange: info.lock is held while all its watches are told.
HandleOwnerChange(i) ==
  /\ loop.at = "callbacks" /\ i \in loop.infos /\ info[i].lock = None
  /\ info' = [info EXCEPT ![i].lock = Loop, ![i].currentOwner = loop.msg.owner]
  /\ loop' = [loop EXCEPT !.at = "telling", !.infos = @ \ {i}, !.info = i,
                          !.watches = info[i].watches]
  /\ UNCHANGED <<pc, nameInfoMutex, nameInfo, watchVars, rules, callVars, busVars>>

\* The callback of a NameWatch waits until C has room.
TellNameWatch(w) ==
  /\ loop.at = "telling" /\ w \in loop.watches \intersect NameWatchers
  /\ C[w] = <<>>
  /\ C' = [C EXCEPT ![w] = Append(@, loop.msg.owner)]
  /\ loop' = [loop EXCEPT !.watches = @ \ {w}]
  /\ UNCHANGED <<pc, infoVars, infoOf, lock, closed, senderOwner, told, rules, callVars, busVars>>

\* Mutated form: only the first owner is taken down.
TellSignalWatch_Forgets(w) ==
  /\ loop.at = "telling" /\ w \in loop.watches \intersect SignalWatchers
  /\ ~ (name.unique /\ loop.msg.owner \in Ownerless)
  /\ loop' = [loop EXCEPT !.watches = @ \ {w}]
  /\ UNCHANGED <<pc, infoVars, watchVars, rules, callVars, busVars>>

\* That of a SignalWatch takes down the new owner of a well known name ...
TellSignalWatch(w) ==
  /\ loop.at = "telling" /\ w \in loop.watches \intersect SignalWatchers
  /\ ~ (name.unique /\ loop.msg.owner \in Ownerless)
  /\ senderOwner' = [senderOwner EXCEPT ![w] = IF name.unique THEN @ ELSE loop.msg.owner]
  /\ loop' = [loop EXCEPT !.watches = @ \ {w}]
  /\ UNCHANGED <<pc, infoVars, infoOf, lock, closed, C, told, rules, callVars, busVars>>

\* ... and calls Cancel when a unique name is gone: the loop takes the lock of
\* the watch, which is not cancelled if its nameInfo still has it ...
CancelFromLoop(w) ==
  /\ loop.at = "telling" /\ w \in loop.watches \intersect SignalWatchers
  /\ name.unique /\ loop.msg.owner \in Ownerless
  /\ lock[w] = None /\ lock' = [lock EXCEPT ![w] = Loop]
  /\ loop' = [loop EXCEPT !.at = "remove", !.watches = @ \ {w}]
  /\ UNCHANGED <<pc, infoVars, infoOf, closed, senderOwner, C, told, rules, callVars, busVars>>

\* ... and in removeNameWatch it waits for info.lock, which it holds itself.
RemoveFromLoop ==
  /\ loop.at = "remove" /\ nameInfoMutex = None
  /\ nameInfoMutex' = Loop
  /\ loop' = [loop EXCEPT !.at = "toDetach"]
  /\ UNCHANGED <<pc, nameInfo, info, watchVars, rules, callVars, busVars>>

\* Mutated form: the deferred Unlock is missing.
AllTold_KeepsLock ==
  /\ loop.at = "telling" /\ loop.watches = {}
  /\ loop' = [loop EXCEPT !.at = "callbacks"]
  /\ UNCHANGED <<pc, infoVars, watchVars, rules, callVars, busRules, name, fromBus>>

AllTold ==
  /\ loop.at = "telling" /\ loop.watches = {}
  /\ info' = [info EXCEPT ![loop.info].lock = None]
  /\ loop' = [loop EXCEPT !.at = "callbacks"]
  /\ UNCHANGED <<pc, nameInfoMutex, nameInfo, watchVars, rules, callVars, busVars>>

CallbacksDone ==
  /\ loop.at = "callbacks" /\ loop.infos = {}
  /\ loop' = Reading
  /\ UNCHANGED <<pc, infoVars, watchVars, rules, callVars, busVars>>

(***************************************************************************)
(* The application and the bus.                                            *)
(***************************************************************************)
\* The application ranges over the channel WatchName has returned.
Receives(w) ==
  /\ pc[w] = "watching" /\ C[w] # <<>>
  /\ told' = [told EXCEPT ![w] = Append(@, Head(C[w]))]
  /\ C' = [C EXCEPT ![w] = Tail(@)]
  /\ UNCHANGED <<pc, infoVars, infoOf, lock, closed, senderOwner, rules, callVars, loop, busVars>>

Replies(g, says) == fromBus' = Append(fromBus, [type |-> "reply", to |-> g, says |-> says])

BusServes(call) ==
  /\ calls' = calls \ {call}
  /\ \/ call.method = "AddMatch" /\ Replies(call.by, Ok)
        /\ busRules' = busRules \union {call.rule}
     \/ call.method = "AddMatch" /\ "refuse" \in Faults
        /\ Replies(call.by, Error) /\ UNCHANGED busRules
     \/ call.method = "GetNameOwner" /\ Replies(call.by, OwnerIs(name.owner)) /\ UNCHANGED busRules
     \/ call.method = "GetNameOwner" /\ "silence" \in Faults
        /\ Replies(call.by, NotSaid(name.owner)) /\ UNCHANGED busRules
     \/ call.method = "RemoveMatch" /\ Replies(call.by, Ok)
        /\ busRules' = busRules \ {call.rule}
     \/ call.method = "RemoveMatch" /\ "keep" \in Faults
        /\ Replies(call.by, Error) /\ UNCHANGED busRules
  /\ UNCHANGED <<pc, infoVars, watchVars, rules, answer, loop, name>>

Asked(what) == \E rule \in busRules : rule[1] = what

OwnerChanges ==
  /\ name.owner < MaxChanges /\ ~ (name.unique /\ name.owner \in Ownerless)
  /\ name' = [name EXCEPT !.owner = @ + 1]
  /\ fromBus' = IF Asked("NameOwnerChanged")
                THEN Append(fromBus, [type |-> "NameOwnerChanged", owner |-> name'.owner]) ELSE fromBus
  /\ UNCHANGED <<pc, infoVars, watchVars, rules, callVars, loop, busRules>>

\* Bound: one signal of the owner on its way at a time.
Emit ==
  /\ name.owner \notin Ownerless /\ Asked("signal")
  /\ \A i \in 1..Len(fromBus) : fromBus[i].type # "signal"
  /\ loop.at = "dispatch" => loop.msg.type # "signal"
  /\ fromBus' = Append(fromBus, [type |-> "signal", owner |-> name.owner])
  /\ UNCHANGED <<pc, infoVars, watchVars, rules, callVars, loop, busRules, name>>

RemoveStep(g) ==
  RemoveNameWatch(g) \/ NotFound(g) \/ DetachOne(g) \/ DetachLast(g)
  \/ OwnerRuleRemoved(g) \/ OwnerRuleKept(g)

WatcherStep(w) ==
  \/ FindInfo(w) \/ NewNameInfo(w) \/ NewNameInfoFails(w) \/ CheckCurrentOwner(w)
  \/ OwnerFound(w) \/ Attach(w) \/ AttachCancels(w)
  \/ AddMatch(w) \/ AddMatchReturns(w) \/ AddMatchFails(w) \/ RemoveStep(w)

CancelStep(k) ==
  \/ CancelAgain(k) \/ Cancel(k) \/ RemoveStep(k)
  \/ RemoveMatch(k) \/ RemoveMatchReturns(k) \/ RemoveMatchFails(k) \/ CloseChannel(k)

LoopStep ==
  \/ ReadMessage \/ DispatchReply \/ DispatchSignal \/ DispatchOwnerChanged
  \/ \E w \in Watches : HandleOwnerChange(w) \/ TellNameWatch(w) \/ TellSignalWatch(w)
                        \/ CancelFromLoop(w)
  \/ RemoveFromLoop \/ AllTold \/ CallbacksDone

Next ==
  \/ \E w \in Watches : WatchName(w) \/ WatcherStep(w)
  \/ \E w \in NameWatchers : Receives(w)
  \/ \E k \in Cancels : CallCancel(k) \/ CancelStep(k)
  \/ LoopStep
  \/ \E call \in calls : BusServes(call)
  \/ OwnerChanges \/ Emit

(***************************************************************************)
(* Fairness: goroutines that can run do, the application receives from the *)
(* channels it was given, and the bus answers.  Nothing makes it watch or  *)
(* cancel, or the name change hands.                                       *)
(***************************************************************************)
Fairness ==
  /\ \A w \in Watches : WF_vars(WatcherStep(w))
  /\ \A w \in NameWatchers : WF_vars(Receives(w))
  /\ \A k \in Cancels : WF_vars(CancelStep(k))
  /\ WF_vars(LoopStep) /\ WF_vars(\E call \in calls : BusServes(call))

Spec == Init /\ [][Next]_vars /\ Fairness

(***************************************************************************)
(* Type invariant.                                                         *)
(***************************************************************************)
WatchPcs ==
  {"new", "ensure", "addingOwnerRule", "askingOwner", "toAttach", "cancelling", "toAddMatch",
   "addingMatch", "remove", "toDetach", "removingOwnerRule", "watching", "failed"}
CancelPcs ==
  {"new", "locking", "remove", "toDetach", "removingOwnerRule", "toRemoveMatch",
   "removingMatch", "toClose", "returned", "failed"}

AllRules == {OwnerRule(i) : i \in Watches} \union {SignalRule(w) : w \in SignalWatchers}

Call ==
  [by : Goroutines, method : {"AddMatch", "GetNameOwner", "RemoveMatch"}, rule : AllRules]
Inbound ==
  [type : {"reply"}, to : Goroutines, says : Answers]
    \union [type : {"NameOwnerChanged", "signal"}, owner : OwnersOf]

TypeOK ==
  /\ pc \in [Goroutines -> WatchPcs \union CancelPcs]
  /\ \A w \in Watches : pc[w] \in WatchPcs
  /\ \A k \in Cancels : pc[k] \in CancelPcs
  /\ nameInfoMutex \in Goroutines \union {Loop, None}
  /\ nameInfo \in Watches \union {None}
  /\ info \in [Watches -> [lock : Goroutines \union {Loop, None},
                           currentOwner : Views \union {Unknown}, watches : SUBSET Watches]]
  /\ infoOf \in [Watches -> Watches \union {None}]
  /\ lock \in [Watches -> Goroutines \union {Loop, None}]
  /\ closed \in SUBSET Watches
  /\ senderOwner \in [SignalWatchers -> Views \union {Unknown}]
  /\ C \in [NameWatchers -> Seq(Views)] /\ \A w \in NameWatchers : Len(C[w]) <= 1
  /\ told \in [NameWatchers -> Seq(Views)]
  /\ rules \in SUBSET AllRules /\ busRules \in SUBSET AllRules
  /\ calls \in SUBSET Call
  /\ answer \in [Goroutines -> Answers \union {None}]
  /\ loop \in [at : {"read", "dispatch", "callbacks", "telling", "remove", "toDetach"},
               msg : Inbound \union {None}, infos : SUBSET Watches,
               info : Watches \union {None}, watches : SUBSET Watches]
  /\ fromBus \in Seq(Inbound)
  /\ name \in [unique : BOOLEAN, owner : OwnersOf]

(***************************************************************************)
(* Safety.                                                                 *)
(***************************************************************************)
Cancelling(w) == \E k \in Cancels : WatchOf[k] = w /\ pc[k] \notin {"new", "locking"}

\* The callback of a NameWatch never sends on the channel that Cancel has
\* closed: info.lock lets it run only while the watch is still there.
NoSendOnClosed == loop.at = "telling" => loop.watches \intersect closed = {}

Tells(w) == told[w] \o C[w]
LastTold(w) == Tells(w)[Len(Tells(w))]

\* The change from what a watch was told last is on its way to it.
NextUnderWay(w) ==
  LET change == [type |-> "NameOwnerChanged", owner |-> OwnerAt(LastTold(w)) + 1]
  IN  \/ \E i \in 1..Len(fromBus) : fromBus[i] = change
      \/ /\ loop.msg = change
         /\ \/ loop.at = "dispatch"
            \/ loop.at \in {"callbacks", "telling"} /\ infoOf[w] \in loop.infos
            \/ loop.at \in {"telling", "remove", "toDetach"} /\ w \in loop.watches

\* A watch is told the owners of its name in their order, each once, beginning
\* with the one there is when it joins: the answer to GetNameOwner, the
\* NameOwnerChanged signals it races, and the nameInfo a later watch finds never
\* make it go back, skip or repeat one.  Only the first may be an empty string in
\* place of the owner, when GetNameOwner failed.
OwnersInOrder ==
  \A w \in NameWatchers : \A i \in 1..Len(Tells(w)) - 1 :
     Tells(w)[i + 1] = OwnerAt(Tells(w)[i]) + 1

\* Nor is the last change lost: what a watch was told last is the present owner, or
\* the next one is on its way.  A failed GetNameOwner is never asked again: what the
\* watch was told in place of the present owner then stands until the next change.
NoChangeLost ==
  \A w \in NameWatchers :
     pc[w] = "watching" /\ ~ Cancelling(w) =>
       LastTold(w) \in {name.owner, InsteadOf(name.owner)} \/ NextUnderWay(w)

\* When the loop matches a signal against the rule of a SignalWatch for a well
\* known name, the rule has the owner that emitted it: NameOwnerChanged comes
\* before the signals of the new owner, and its callbacks run before they are
\* matched.  The exception is, again, the owner that GetNameOwner did not say,
\* whose signals are not matched as long as it has the name.
SenderTracked ==
  loop.at = "dispatch" /\ loop.msg.type = "signal" /\ ~ name.unique =>
    \A w \in SignalWatchers :
       pc[w] = "watching" /\ ~ Cancelling(w) =>
         senderOwner[w] \in {loop.msg.owner, InsteadOf(loop.msg.owner)}

\* The entry in Connection.nameInfo is a nameInfo that knows the owner and hears
\* of its changes, every watch in force hangs on it, and it goes with the last
\* one.
InfoShared ==
  /\ nameInfo # None => /\ info[nameInfo].currentOwner # Unknown
                        /\ OwnerRule(nameInfo) \in rules \intersect busRules
  /\ \A i \in Watches : info[i].watches # {} => i = nameInfo
  /\ nameInfoMutex = None /\ nameInfo # None => info[nameInfo].watches # {}

(***************************************************************************)
(* Liveness.                                                               *)
(***************************************************************************)
\* The three waits nobody ends.  The loop is to call back a nameInfo whose lock a
\* goroutine keeps until the loop has dispatched the reply to its RemoveMatch;
\* or it cancels the SignalWatch of a lost unique name, under the info.lock that
\* Cancel takes again; or a WatchSignal does so, under its own watch's lock.
Crossed == loop.at = "callbacks" /\ \E i \in loop.infos : info[i].lock \in Goroutines
LoopCancels ==
  \/ loop.at \in {"remove", "toDetach"}
  \/ /\ loop.at = "telling" /\ loop.watches \intersect SignalWatchers # {}
     /\ name.unique /\ loop.msg.owner \in Ownerless
Stuck == Crossed \/ LoopCancels \/ \E w \in SignalWatchers : pc[w] = "cancelling"

\* WatchName and WatchSignal return, but for those three cases: there is always to be
\* a time when none of them is under way (each is called once).
WatchReturns ==
  []<>(Stuck \/ \A w \in Watches : pc[w] \in {"new", "watching", "failed"})

\* So does Cancel: with an error of the bus, while the name changes hands, and
\* with info.lock and nameInfoMutex held during the call to the bus.
CancelReturns ==
  []<>(Stuck \/ \A k \in Cancels : pc[k] \in {"new", "returned", "failed"})

\* However often the name changes hands, the application that watches it is told
\* of the present owner sooner or later, if not of none because GetNameOwner failed
\* and the name has not changed hands since.
OwnerArrives ==
  []<>(Stuck \/ \A w \in NameWatchers :
         pc[w] = "watching" =>
           Cancelling(w) \/
             (told[w] # <<>> /\ told[w][Len(told[w])] \in {name.owner, InsteadOf(name.owner)}))

\* "For unique names, cancel the signal watch when the name is lost."
LostNameCancels ==
  \A w \in SignalWatchers :
     name.unique /\ name.owner \in Ownerless /\ pc[w] = "watching" ~> w \in closed
=============================================================================
