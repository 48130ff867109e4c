------------------------- MODULE NameWatchesProofs -------------------------
(***************************************************************************)
(* Proofs about watching the owner of a name, for any watches and calls of *)
(* Cancel, any changes of the owner and any faults of the bus.             *)
(***************************************************************************)
EXTENDS NameWatches, SequenceTheorems, TLAPS

(***************************************************************************)
(* Type correctness.                                                       *)
(***************************************************************************)
LEMMA QueueTypes ==
  ASSUME NEW S, NEW q \in Seq(S)
  PROVE  /\ \A m \in S : Append(q, m) \in Seq(S) /\ Len(Append(q, m)) = Len(q) + 1
         /\ q # <<>> => Head(q) \in S /\ Tail(q) \in Seq(S) /\ Len(Tail(q)) = Len(q) - 1
  OBVIOUS

LEMMA EmptyTyped == ASSUME NEW S PROVE <<>> \in Seq(S) /\ Len(<<>>) = 0
  OBVIOUS

\* The constants, as the proofs use them.
LEMMA Constants ==
  /\ Watches \subseteq Goroutines /\ Cancels \subseteq Goroutines
  /\ NameWatchers \subseteq Watches /\ SignalWatchers \subseteq Watches
  /\ \A w \in Watches : w \notin Cancels /\ WatchBy(w) = w
  /\ \A k \in Cancels : k \notin Watches /\ WatchOf[k] \in Watches /\ WatchBy(k) = WatchOf[k]
  /\ None \notin Goroutines /\ None \notin Watches /\ Loop \notin Goroutines /\ Loop # None
  /\ Unknown \notin Views /\ None \notin Answers /\ Ok # None /\ Error # None
  BY NameAssumption DEF Watches, Goroutines, WatchBy, Answers

\* What the code may hold to be the owner, an owner or an empty string in place of one.
LEMMA WhoseOwner ==
  /\ OwnersOf \subseteq Int /\ OwnersOf \subseteq Views /\ Unknown \notin OwnersOf
  /\ \A o \in OwnersOf : OwnerAt(o) = o /\ InsteadOf(o) \in Views /\ OwnerAt(InsteadOf(o)) = o
  /\ \A v \in Views : OwnerAt(v) \in OwnersOf /\ v \in {OwnerAt(v), InsteadOf(OwnerAt(v))}
  BY Constants, NameAssumption DEF OwnersOf, Views, OwnerAt, InsteadOf

\* The reply to GetNameOwner, and what is made of it.
Says(o) == {OwnerIs(o), NotSaid(o)}
LEMMA WhatIsFound ==
  ASSUME NEW o \in OwnersOf, NEW says \in Says(o)
  PROVE  /\ says[2] = o /\ says \in Answers
         /\ Found(says) \in Views /\ OwnerAt(Found(says)) = o
<1>1. CASE says = OwnerIs(o)
  BY <1>1, WhoseOwner DEF Found, OwnerIs, Answers
<1>2. CASE says = NotSaid(o)
  BY <1>2, WhoseOwner DEF Found, NotSaid, Answers
<1> QED
  BY <1>1, <1>2 DEF Says

LEMMA InitTyped == Init => TypeOK
<1> SUFFICES ASSUME Init PROVE TypeOK
  OBVIOUS
<1>1. /\ pc \in [Goroutines -> WatchPcs \union CancelPcs]
      /\ \A w \in Watches : pc[w] \in WatchPcs
      /\ \A k \in Cancels : pc[k] \in CancelPcs
  BY Constants DEF Init, WatchPcs, CancelPcs
<1>2. /\ C \in [NameWatchers -> Seq(Views)] /\ \A w \in NameWatchers : Len(C[w]) <= 1
      /\ told \in [NameWatchers -> Seq(Views)] /\ fromBus \in Seq(Inbound)
  BY EmptyTyped DEF Init
<1>3. /\ nameInfoMutex = None /\ nameInfo = None /\ closed = {} /\ rules = {} /\ calls = {} /\ busRules = {}
      /\ info \in [Watches -> [lock : Goroutines \union {Loop, None},
                               currentOwner : Views \union {Unknown}, watches : SUBSET Watches]]
      /\ infoOf \in [Watches -> Watches \union {None}]
      /\ lock \in [Watches -> Goroutines \union {Loop, None}]
      /\ senderOwner \in [SignalWatchers -> Views \union {Unknown}]
      /\ answer \in [Goroutines -> Answers \union {None}]
  BY DEF Init
<1>4. loop \in [at : {"read", "dispatch", "callbacks", "telling", "remove", "toDetach"},
               msg : Inbound \union {None}, infos : SUBSET Watches,
               info : Watches \union {None}, watches : SUBSET Watches]
  BY DEF Init, Reading
<1>5. name \in [unique : BOOLEAN, owner : OwnersOf]
  BY NameAssumption DEF Init
<1> QED
  BY <1>1, <1>2, <1>3, <1>4, <1>5 DEF TypeOK

\* What a step of pc does to its type.
LEMMA GotoTyped ==
  ASSUME TypeOK, NEW g \in Goroutines, NEW from, NEW to, Goto(g, from, to),
         \/ g \in Watches /\ to \in WatchPcs
         \/ g \in Cancels /\ to \in CancelPcs
  PROVE  /\ pc' \in [Goroutines -> WatchPcs \union CancelPcs]
         /\ \A w \in Watches : pc'[w] \in WatchPcs
         /\ \A k \in Cancels : pc'[k] \in CancelPcs
         /\ pc[g] = from /\ pc'[g] = to
         /\ \A h \in Goroutines \ {g} : pc'[h] = pc[h]
  BY Constants DEF Goto, TypeOK

LEMMA AskTyped ==
  ASSUME TypeOK, NEW g \in Goroutines, NEW method \in {"AddMatch", "GetNameOwner", "RemoveMatch"},
         NEW rule \in AllRules, calls' = calls \union {[by |-> g, method |-> method, rule |-> rule]}
  PROVE  calls' \in SUBSET Call
  BY DEF TypeOK, Call

(***************************************************************************)
(* The invariant.                                                          *)
(***************************************************************************)
\* Before a watch hangs on its nameInfo; while nameInfoMutex is held; while the
\* bus is asked; after a watch was taken off its nameInfo.
NotYet == {"new", "ensure", "addingOwnerRule", "askingOwner", "toAttach"}
Holding == {"addingOwnerRule", "askingOwner", "toAttach", "cancelling", "toDetach", "removingOwnerRule"}
Waiting == {"addingOwnerRule", "askingOwner", "addingMatch", "removingOwnerRule", "removingMatch"}
Gone == {"removingOwnerRule", "toRemoveMatch", "removingMatch", "toClose"}

\* nameInfoMutex does what it is for, and a goroutine is where its kind may be.
PlaceInv ==
  /\ \A g \in Goroutines : pc[g] \in Holding => nameInfoMutex = g
  /\ \A w \in Watches : pc[w] \in {"toAddMatch", "addingMatch", "cancelling"} => w \in SignalWatchers
  /\ \A k \in Cancels : pc[k] \in {"toRemoveMatch", "removingMatch"} => WatchOf[k] \in SignalWatchers
  /\ \A k \in Cancels : pc[k] # "new" => pc[WatchOf[k]] = "watching"
  /\ \A w \in Watches : pc[w] = "toAttach" => nameInfo \in Watches
  /\ \A g \in Goroutines : pc[g] \in {"addingOwnerRule", "askingOwner", "removingOwnerRule"} => nameInfo = None

\* A watch hangs on one nameInfo, from when it joins until it is taken off.
HasInfo == \A w \in Watches : pc[w] \notin NotYet \union {"failed"} => infoOf[w] \in Watches
HangsOnOne ==
  \A i \in Watches : \A w \in info[i].watches : infoOf[w] = i /\ pc[w] \notin NotYet /\ w \notin closed
TakenOff == \A k \in Cancels : pc[k] \in Gone => \A i \in Watches : WatchOf[k] \notin info[i].watches
ClosedLast == \A w \in closed : pc[w] = "watching"
KeepsLock == \A g \in Goroutines : pc[g] = "removingOwnerRule" => info[infoOf[WatchBy(g)]].lock = g
HangInv == HasInfo /\ HangsOnOne /\ TakenOff /\ ClosedLast /\ KeepsLock

\* The loop tells watches that hang on a nameInfo whose lock it holds.
LoopInv ==
  /\ loop.at = "dispatch" => loop.msg \in Inbound
  /\ loop.at \in {"callbacks", "telling"} => loop.msg \in Inbound /\ loop.msg.type # "reply"
  /\ loop.at = "telling" => /\ loop.info \in Watches /\ info[loop.info].lock = Loop
                            /\ loop.watches \subseteq info[loop.info].watches
  /\ \A w \in NameWatchers : pc[w] \in NotYet => C[w] = <<>>

\* What the goroutine that made a nameInfo, or that takes it away, waits for.
RuleOf(g) ==
  IF pc[g] \in {"addingOwnerRule", "askingOwner"} THEN OwnerRule(g)
  ELSE IF pc[g] = "removingOwnerRule" THEN OwnerRule(infoOf[WatchBy(g)]) ELSE SignalRule(WatchBy(g))
MethodOf(g) ==
  IF pc[g] = "askingOwner" THEN "GetNameOwner"
  ELSE IF pc[g] \in {"addingOwnerRule", "addingMatch"} THEN "AddMatch" ELSE "RemoveMatch"
Fits(g, says) ==
  /\ pc[g] \in Waiting
  /\ pc[g] = "askingOwner" => \E o \in OwnersOf : says \in Says(o)
  /\ pc[g] # "askingOwner" => says \in {Ok, Error}
  /\ pc[g] = "addingOwnerRule" /\ says = Ok => OwnerRule(g) \in busRules

\* Where the call of a goroutine, or the answer to it, can be.
Called(g) == \E c \in calls : c.by = g
IsReply(q, i, g) == i \in 1..Len(q) /\ q[i].type = "reply" /\ q[i].to = g
Sent(g) == \E i : IsReply(fromBus, i, g)
Answering(g) == loop.at = "dispatch" /\ loop.msg.type = "reply" /\ loop.msg.to = g

\* It is in one place, and fits what the goroutine waits for.
OneCall ==
  /\ \A c \in calls : pc[c.by] \in Waiting /\ c.method = MethodOf(c.by) /\ c.rule = RuleOf(c.by)
  /\ \A c, d \in calls : c.by = d.by => c = d
OneReply ==
  /\ \A g \in Goroutines : \A i : IsReply(fromBus, i, g) => Fits(g, fromBus[i].says)
  /\ \A g \in Goroutines : \A i, j : IsReply(fromBus, i, g) /\ IsReply(fromBus, j, g) => i = j
OneAnswer ==
  /\ \A g \in Goroutines : Answering(g) => Fits(g, loop.msg.says)
  /\ \A g \in Goroutines : answer[g] # None => Fits(g, answer[g])
Apart ==
  \A g \in Goroutines :
     /\ Called(g) => ~ Sent(g) /\ ~ Answering(g) /\ answer[g] = None
     /\ Sent(g) => ~ Answering(g) /\ answer[g] = None
     /\ Answering(g) => answer[g] = None
CallInv == OneCall /\ OneReply /\ OneAnswer /\ Apart

\* The entry of the name is the only nameInfo with watches, knows the owner and
\* hears of changes; it is without watches only until the first one joins.
KnownInfo ==
  nameInfo # None => info[nameInfo].currentOwner # Unknown /\ OwnerRule(nameInfo) \in rules \intersect busRules
OnlyInfo == \A i \in Watches : info[i].watches # {} => i = nameInfo
NeededInfo ==
  nameInfo # None /\ info[nameInfo].watches = {} => nameInfoMutex \in Watches /\ pc[nameInfoMutex] = "toAttach"
MadeInfo ==
  \A w \in Watches : /\ pc[w] \in {"addingOwnerRule", "askingOwner"} => OwnerRule(w) \in rules
                     /\ pc[w] = "askingOwner" => OwnerRule(w) \in busRules
SharedInv == KnownInfo /\ OnlyInfo /\ NeededInfo /\ MadeInfo

\* The steps, in the groups the proofs go through.
MakeStep(w) ==
  \/ WatchName(w) \/ FindInfo(w) \/ NewNameInfo(w) \/ NewNameInfoFails(w) \/ CheckCurrentOwner(w)
  \/ OwnerFound(w)
AttachStep(w) == Attach(w) \/ AttachCancels(w)
AddStep(w) == AddMatch(w) \/ AddMatchReturns(w) \/ AddMatchFails(w)
TakeStep(k) ==
  \/ CallCancel(k) \/ CancelAgain(k) \/ Cancel(k)
  \/ RemoveMatch(k) \/ RemoveMatchReturns(k) \/ RemoveMatchFails(k) \/ CloseChannel(k)
DispatchStep == ReadMessage \/ DispatchReply \/ DispatchSignal \/ DispatchOwnerChanged
TellStep ==
  \/ \E w \in Watches : HandleOwnerChange(w) \/ TellNameWatch(w) \/ TellSignalWatch(w) \/ CancelFromLoop(w)
  \/ RemoveFromLoop \/ AllTold \/ CallbacksDone
OtherStep ==
  \/ \E w \in NameWatchers : Receives(w)
  \/ \E call \in calls : BusServes(call)
  \/ OwnerChanges \/ Emit

LEMMA Steps ==
  ASSUME [Next]_vars
  PROVE  \/ UNCHANGED vars
         \/ \E w \in Watches : MakeStep(w)
         \/ \E w \in Watches : AttachStep(w)
         \/ \E w \in Watches : AddStep(w)
         \/ \E g \in Goroutines : RemoveStep(g)
         \/ \E k \in Cancels : TakeStep(k)
         \/ DispatchStep \/ TellStep \/ OtherStep
  BY Constants DEF Next, WatcherStep, CancelStep, LoopStep, MakeStep, AttachStep, AddStep, TakeStep,
     DispatchStep, TellStep, OtherStep

LEMMA InitHolds == Init => PlaceInv /\ HangInv /\ LoopInv /\ CallInv /\ SharedInv
<1> SUFFICES ASSUME Init PROVE PlaceInv /\ HangInv /\ LoopInv /\ CallInv /\ SharedInv
  OBVIOUS
<1>1. /\ \A g \in Goroutines : pc[g] = "new" /\ answer[g] = None
      /\ \A i \in Watches : info[i].watches = {}
      /\ nameInfo = None /\ calls = {} /\ fromBus = <<>> /\ loop.at = "read"
      /\ closed = {} /\ \A w \in NameWatchers : C[w] = <<>>
  BY DEF Init, Reading
<1>2. \A i, g : ~ IsReply(fromBus, i, g)
  BY <1>1 DEF IsReply
<1>3. PlaceInv /\ HangInv /\ LoopInv
  BY <1>1, Constants DEF PlaceInv, HangInv, HasInfo, HangsOnOne, TakenOff, ClosedLast, KeepsLock, LoopInv, NotYet, Holding, Gone
<1>4. CallInv
  BY <1>1, <1>2 DEF CallInv, OneCall, OneReply, OneAnswer, Apart, Called, Sent, Answering
<1>5. SharedInv
  BY <1>1, Constants DEF SharedInv, KnownInfo, OnlyInfo, NeededInfo, MadeInfo
<1> QED
  BY <1>3, <1>4, <1>5

LEMMA StepPlaced ==
  ASSUME TypeOK, PlaceInv, [Next]_vars
  PROVE  PlaceInv'
<1>1. /\ pc \in [Goroutines -> WatchPcs \union CancelPcs]
      /\ \A w \in Watches : pc[w] \in WatchPcs
      /\ \A k \in Cancels : pc[k] \in CancelPcs
      /\ nameInfo \in Watches \union {None}
  BY DEF TypeOK
<1> USE <1>1, Constants DEF PlaceInv, Holding, WatchPcs, CancelPcs
<1>2. CASE UNCHANGED vars
  BY <1>2 DEF vars, infoVars
<1>3. ASSUME NEW w \in Watches, MakeStep(w) PROVE PlaceInv'
  BY <1>3 DEF MakeStep, WatchName, FindInfo, NewNameInfo, NewNameInfoFails, CheckCurrentOwner, OwnerFound,
     Goto, infoVars
<1>4. ASSUME NEW w \in Watches, AttachStep(w) \/ AddStep(w) PROVE PlaceInv'
  <2>1. CASE Attach(w)
    <3>1. pc[w] = "toAttach" /\ pc' = [pc EXCEPT ![w] = IF w \in NameWatchers THEN "watching" ELSE "toAddMatch"]
      BY <2>1 DEF Attach, Goto
    <3>2. nameInfo' = nameInfo /\ \A h \in Goroutines : pc'[h] \in Holding => pc[h] \in Holding /\ h # w
      BY <2>1, <3>1 DEF Attach
    <3>3. \A h \in Goroutines : pc'[h] \notin Holding
      BY <3>1, <3>2
    <3> QED
      BY <3>1, <3>2, <3>3 DEF Watches
  <2>3. CASE AttachCancels(w)
    BY <2>3 DEF AttachCancels, Goto
  <2>2. CASE AddStep(w)
    BY <2>2 DEF AddStep, AddMatch, AddMatchReturns, AddMatchFails, Goto, infoVars
  <2> QED
    BY <1>4, <2>1, <2>2, <2>3 DEF AttachStep
<1>5. ASSUME NEW g \in Goroutines, RemoveStep(g) PROVE PlaceInv'
  <2>0. g \in Watches \/ g \in Cancels
    BY DEF Goroutines
  <2>1. CASE RemoveNameWatch(g)
    BY <2>0, <2>1 DEF RemoveNameWatch, Goto
  <2>4. CASE NotFound(g)
    BY <2>0, <2>4 DEF NotFound, Goto
  <2>2. CASE DetachOne(g) \/ DetachLast(g)
    BY <2>0, <2>2 DEF DetachOne, DetachLast, AfterRemove, Goto
  <2>3. CASE OwnerRuleRemoved(g)
    BY <2>0, <2>3 DEF OwnerRuleRemoved, Released, AfterRemove, Goto
  <2>5. CASE OwnerRuleKept(g)
    BY <2>0, <2>5 DEF OwnerRuleKept, Released, Goto
  <2> QED
    BY <1>5, <2>1, <2>2, <2>3, <2>4, <2>5 DEF RemoveStep
<1>6. ASSUME NEW k \in Cancels, TakeStep(k) PROVE PlaceInv'
  <2>1. CASE CallCancel(k) \/ CancelAgain(k) \/ Cancel(k)
    BY <2>1 DEF CallCancel, CancelAgain, Cancel, Goto, infoVars
  <2>2. CASE RemoveMatch(k) \/ RemoveMatchReturns(k)
    BY <2>2 DEF RemoveMatch, RemoveMatchReturns, Goto, infoVars
  <2>3. CASE RemoveMatchFails(k)
    BY <2>3 DEF RemoveMatchFails, Goto, infoVars
  <2>4. CASE CloseChannel(k)
    BY <2>4 DEF CloseChannel, Goto, infoVars
  <2> QED
    BY <1>6, <2>1, <2>2, <2>3, <2>4 DEF TakeStep
<1>7. CASE DispatchStep
  BY <1>7 DEF DispatchStep, ReadMessage, DispatchReply, DispatchSignal, DispatchOwnerChanged, infoVars
<1>8. CASE TellStep
  <2>1. pc' = pc /\ nameInfo' = nameInfo /\ (nameInfoMutex' = nameInfoMutex \/ nameInfoMutex = None)
    BY <1>8 DEF TellStep, HandleOwnerChange, TellNameWatch, TellSignalWatch, CancelFromLoop, RemoveFromLoop,
       AllTold, CallbacksDone, infoVars
  <2> QED
    BY <2>1
<1>9. CASE OtherStep
  BY <1>9 DEF OtherStep, Receives, BusServes, OwnerChanges, Emit, infoVars
<1> QED
  BY <1>2, <1>3, <1>4, <1>5, <1>6, <1>7, <1>8, <1>9, Steps

\* A watch that is taken off has a nameInfo.
LEMMA TakenFromInfo ==
  ASSUME PlaceInv, HasInfo, NEW g \in Goroutines, pc[g] \in {"remove", "toDetach", "removingOwnerRule"}
  PROVE  WatchBy(g) \in Watches /\ infoOf[WatchBy(g)] \in Watches
<1>1. CASE g \in Watches
  BY <1>1, Constants DEF HasInfo, NotYet
<1>2. CASE g \in Cancels
  BY <1>2, Constants DEF HasInfo, PlaceInv, NotYet
<1> QED
  BY <1>1, <1>2 DEF Goroutines

\* A step that takes no watch on or off.
LEMMA StillHangs ==
  ASSUME TypeOK, PlaceInv, HangInv, NEW g \in Goroutines, NEW to \in WatchPcs \union CancelPcs,
         pc' = [pc EXCEPT ![g] = to], infoOf' = infoOf, closed' = closed,
         \A i \in Watches : info'[i].watches = info[i].watches,
         \A i \in Watches : info'[i].lock = info[i].lock \/ info[i].lock \notin Goroutines \ {g},
         to # "removingOwnerRule",
         g \in Watches => \/ pc[g] \in NotYet /\ to \in NotYet \union {"failed"}
                          \/ pc[g] \notin NotYet \union {"failed", "watching"} /\ to \notin NotYet,
         g \in Cancels => pc[g] \in Gone \/ to \notin Gone
  PROVE  HangInv'
<1>0. /\ pc \in [Goroutines -> WatchPcs \union CancelPcs] /\ closed \subseteq Watches
      /\ \A i \in Watches : info[i].watches \subseteq Watches
  BY DEF TypeOK
<1>1. /\ \A w \in Watches : w \in Goroutines /\ w \notin Cancels
      /\ \A k \in Cancels : k \in Goroutines /\ k \notin Watches
  BY Constants
<1>2. pc'[g] = to /\ \A h \in Goroutines \ {g} : pc'[h] = pc[h]
  BY <1>0
<1>3. HasInfo'
  BY <1>1, <1>2 DEF HangInv, HasInfo, NotYet
<1>4. HangsOnOne'
  <2>1. ASSUME NEW i \in Watches, NEW w \in info'[i].watches PROVE infoOf'[w] = i /\ pc'[w] \notin NotYet /\ w \notin closed'
    <3>1. w \in info[i].watches /\ w \in Watches
      BY <1>0, <2>1
    <3>2. pc[w] \notin NotYet /\ infoOf[w] = i /\ w \notin closed
      BY <3>1 DEF HangInv, HangsOnOne
    <3>3. pc'[w] \notin NotYet
      BY <3>1, <3>2, <1>1, <1>2 DEF NotYet
    <3> QED
      BY <3>2, <3>3
  <2> QED
    BY <2>1 DEF HangsOnOne
<1>5. TakenOff'
  BY <1>1, <1>2 DEF HangInv, TakenOff
<1>6. ClosedLast'
  BY <1>0, <1>1, <1>2 DEF HangInv, ClosedLast, NotYet
<1>7. KeepsLock'
  <2>1. \A h \in Goroutines : pc'[h] = "removingOwnerRule" => pc[h] = "removingOwnerRule" /\ h # g
    BY <1>2
  <2>2. \A h \in Goroutines : pc[h] = "removingOwnerRule" => infoOf[WatchBy(h)] \in Watches
    BY TakenFromInfo DEF HangInv
  <2> QED
    BY <2>1, <2>2 DEF HangInv, KeepsLock, WatchBy
<1> QED
  BY <1>3, <1>4, <1>5, <1>6, <1>7 DEF HangInv

InfoTypes == [lock : Goroutines \union {Loop, None}, currentOwner : Views \union {Unknown},
              watches : SUBSET Watches]

\* A watch joins.
LEMMA AttachHangs ==
  ASSUME TypeOK, PlaceInv, HangInv, NEW w \in Watches, AttachStep(w)
  PROVE  HangInv'
<1>1. /\ pc \in [Goroutines -> WatchPcs \union CancelPcs] /\ closed \subseteq Watches
      /\ info \in [Watches -> InfoTypes] /\ infoOf \in [Watches -> Watches \union {None}]
  BY DEF TypeOK, InfoTypes
<1>2. /\ pc[w] = "toAttach" /\ nameInfo \in Watches /\ infoOf' = [infoOf EXCEPT ![w] = nameInfo] /\ closed' = closed
      /\ pc' = [pc EXCEPT ![w] = pc'[w]] /\ pc'[w] \in {"watching", "toAddMatch", "cancelling"}
  BY <1>1, Constants DEF AttachStep, Attach, AttachCancels, Goto, PlaceInv
<1>3. info'[nameInfo].watches = info[nameInfo].watches \union {w}
      /\ \A i \in Watches \ {nameInfo} : info'[i].watches = info[i].watches
  BY <1>1, <1>2 DEF AttachStep, Attach, AttachCancels, InfoTypes
<1>4. w \in Goroutines /\ w \notin Cancels /\ \A v \in Watches : v \in Goroutines
      /\ \A k \in Cancels : k # w /\ k \in Goroutines /\ WatchOf[k] \in Watches
  BY Constants
<1>5. \A h \in Goroutines \ {w} : pc'[h] = pc[h]
  BY <1>2, <1>1
<1>6. HasInfo'
  BY <1>1, <1>2, <1>4, <1>5 DEF HangInv, HasInfo, NotYet
<1>7. \A i \in Watches : w \notin info[i].watches
  BY <1>2, <1>4 DEF HangInv, HangsOnOne, NotYet
<1>8. w \notin closed
  BY <1>2, <1>4 DEF HangInv, ClosedLast
<1>9. HangsOnOne'
  <2>1. ASSUME NEW i \in Watches, NEW v \in info'[i].watches PROVE infoOf'[v] = i /\ pc'[v] \notin NotYet /\ v \notin closed'
    <3>1. CASE v = w
      BY <1>1, <1>2, <1>3, <1>7, <1>8, <2>1, <3>1 DEF NotYet
    <3>2. CASE v # w
      <4>1. v \in info[i].watches
        BY <1>3, <2>1, <3>2
      <4>2. v \in Watches
        BY <4>1, <1>1 DEF InfoTypes
      <4> QED
        BY <1>1, <1>2, <1>4, <1>5, <4>1, <4>2, <3>2 DEF HangInv, HangsOnOne
    <3> QED
      BY <3>1, <3>2
  <2> QED
    BY <2>1 DEF HangsOnOne
<1>10. TakenOff'
  <2>1. \A k \in Cancels : pc'[k] \in Gone => pc[k] \in Gone /\ WatchOf[k] # w
    BY <1>2, <1>4, <1>5 DEF PlaceInv, Gone
  <2> QED
    BY <2>1, <1>3 DEF HangInv, TakenOff
<1>11. ClosedLast'
  BY <1>1, <1>2, <1>4, <1>5, <1>8 DEF HangInv, ClosedLast
<1>12. KeepsLock'
  <2>1. \A g \in Goroutines : pc'[g] # "removingOwnerRule"
    BY <1>2, <1>4, <1>5 DEF PlaceInv, Holding
  <2> QED
    BY <2>1 DEF KeepsLock
<1> QED
  BY <1>6, <1>9, <1>10, <1>11, <1>12 DEF HangInv

\* A watch is taken off.
LEMMA DetachHangs ==
  ASSUME TypeOK, PlaceInv, HangInv, NEW g \in Goroutines, DetachOne(g) \/ DetachLast(g)
  PROVE  HangInv'
<1> DEFINE w == WatchBy(g)
           i == infoOf[w]
<1>1. /\ pc \in [Goroutines -> WatchPcs \union CancelPcs] /\ closed \subseteq Watches
      /\ info \in [Watches -> InfoTypes] /\ infoOf \in [Watches -> Watches \union {None}]
  BY DEF TypeOK, InfoTypes
<1>2. pc[g] = "toDetach" /\ infoOf' = infoOf /\ closed' = closed /\ pc' = [pc EXCEPT ![g] = pc'[g]]
      /\ pc'[g] \in {"failed", "toRemoveMatch", "toClose", "removingOwnerRule"}
  BY <1>1 DEF DetachOne, DetachLast, AfterRemove, Goto, watchVars
<1>3. w \in Watches /\ i \in Watches
  BY <1>2, TakenFromInfo DEF HangInv
<1>4. info'[i].watches = info[i].watches \ {w} /\ info[i].lock = None
      /\ \A j \in Watches \ {i} : info'[j] = info[j]
  BY <1>1, <1>3 DEF DetachOne, DetachLast, InfoTypes
<1>5. \A h \in Goroutines \ {g} : pc'[h] = pc[h]
  BY <1>1, <1>2
<1>6. \A j \in Watches : info'[j].watches \subseteq info[j].watches /\ w \notin info'[j].watches
  BY <1>3, <1>4 DEF HangInv, HangsOnOne
<1>7. HasInfo'
  BY <1>1, <1>2, <1>5, Constants DEF HangInv, HasInfo, NotYet
<1>8. HangsOnOne'
  <2>1. ASSUME NEW j \in Watches, NEW v \in info'[j].watches PROVE infoOf'[v] = j /\ pc'[v] \notin NotYet /\ v \notin closed'
    <3>1. v \in info[j].watches /\ v \in Watches
      BY <1>1, <1>6, <2>1 DEF InfoTypes
    <3> QED
      BY <1>1, <1>2, <1>5, <3>1, Constants DEF HangInv, HangsOnOne, NotYet
  <2> QED
    BY <2>1 DEF HangsOnOne
<1>9. TakenOff'
  <2>1. ASSUME NEW k \in Cancels, pc'[k] \in Gone PROVE \A j \in Watches : WatchOf[k] \notin info'[j].watches
    <3>1. CASE k = g
      BY <1>6, <3>1, Constants
    <3>2. CASE k # g
      BY <1>5, <1>6, <2>1, <3>2, Constants DEF HangInv, TakenOff
    <3> QED
      BY <3>1, <3>2
  <2> QED
    BY <2>1 DEF TakenOff
<1>10. ClosedLast'
  <2>1. g \notin closed
    BY <1>2 DEF HangInv, ClosedLast
  <2> QED
    BY <1>1, <1>2, <1>5, <2>1, Constants DEF HangInv, ClosedLast
<1>11. KeepsLock'
  <2>1. ASSUME NEW h \in Goroutines, pc'[h] = "removingOwnerRule" PROVE info'[infoOf[WatchBy(h)]].lock = h
    <3>1. h = g
      BY <1>2, <1>5, <2>1, Constants DEF PlaceInv, Holding
    <3>2. DetachLast(g)
      BY <2>1, <3>1, <1>1 DEF DetachOne, AfterRemove, Goto
    <3> QED
      BY <1>1, <1>3, <3>1, <3>2 DEF DetachLast, InfoTypes
  <2> QED
    BY <2>1, <1>2 DEF KeepsLock, WatchBy
<1> QED
  BY <1>7, <1>8, <1>9, <1>10, <1>11 DEF HangInv

LEMMA StepHangs ==
  ASSUME TypeOK, PlaceInv, HangInv, LoopInv, [Next]_vars
  PROVE  HangInv'
<1>1. /\ pc \in [Goroutines -> WatchPcs \union CancelPcs]
      /\ \A w \in Watches : pc[w] \in WatchPcs
      /\ \A k \in Cancels : pc[k] \in CancelPcs
      /\ info \in [Watches -> InfoTypes]
  BY DEF TypeOK, InfoTypes
<1>2. ASSUME pc' = pc, infoOf' = infoOf, closed' = closed,
             \A i \in Watches : info'[i].watches = info[i].watches,
             \A i \in Watches : info'[i].lock = info[i].lock \/ info[i].lock \notin Goroutines
      PROVE HangInv'
  <2>1. \A h \in Goroutines : pc[h] = "removingOwnerRule" => infoOf[WatchBy(h)] \in Watches
    BY TakenFromInfo DEF HangInv
  <2> QED
    BY <1>2, <2>1, <1>1 DEF HangInv, HasInfo, HangsOnOne, TakenOff, ClosedLast, KeepsLock, InfoTypes, WatchBy
<1>3. CASE UNCHANGED vars
  BY <1>2, <1>3 DEF vars, infoVars, watchVars
<1>4. ASSUME NEW w \in Watches, MakeStep(w) PROVE HangInv'
  <2>1. /\ pc[w] \in NotYet /\ pc'[w] \in NotYet \union {"failed"} /\ pc' = [pc EXCEPT ![w] = pc'[w]]
        /\ infoOf' = infoOf /\ closed' = closed
    BY <1>1, <1>4, Constants DEF MakeStep, WatchName, FindInfo, NewNameInfo, NewNameInfoFails, CheckCurrentOwner,
       OwnerFound, Goto, watchVars, NotYet
  <2>2. \A i \in Watches : info'[i].watches = info[i].watches /\ info'[i].lock = info[i].lock
    BY <1>1, <1>4 DEF MakeStep, WatchName, FindInfo, NewNameInfo, NewNameInfoFails, CheckCurrentOwner, OwnerFound,
       infoVars, InfoTypes
  <2>3. pc'[w] \in WatchPcs \union CancelPcs /\ pc'[w] # "removingOwnerRule"
    BY <2>1 DEF WatchPcs, NotYet
  <2>4. w \in Goroutines /\ w \notin Cancels
    BY Constants
  <2> QED
    BY <2>1, <2>2, <2>3, <2>4, StillHangs
<1>5. ASSUME NEW w \in Watches, AddStep(w) PROVE HangInv'
  <2>1. /\ pc[w] \in {"toAddMatch", "addingMatch"} /\ pc'[w] \in {"addingMatch", "watching", "remove"}
        /\ pc' = [pc EXCEPT ![w] = pc'[w]] /\ info' = info /\ infoOf' = infoOf /\ closed' = closed
    BY <1>1, <1>5, Constants DEF AddStep, AddMatch, AddMatchReturns, AddMatchFails, Goto, infoVars, watchVars
  <2>2. w \in Goroutines /\ w \notin Cancels /\ pc'[w] \in WatchPcs \union CancelPcs
    BY <2>1, Constants DEF WatchPcs
  <2> QED
    BY <2>1, <2>2, StillHangs DEF NotYet
<1>6. ASSUME NEW g \in Goroutines, RemoveStep(g) PROVE HangInv'
  <2>1. CASE DetachOne(g) \/ DetachLast(g)
    BY <2>1, DetachHangs
  <2>2. CASE RemoveNameWatch(g) \/ NotFound(g)
    <3>1. /\ pc[g] \in {"remove", "toDetach"} /\ pc'[g] \in {"toDetach", "failed"}
          /\ pc' = [pc EXCEPT ![g] = pc'[g]] /\ info' = info /\ infoOf' = infoOf /\ closed' = closed
      BY <1>1, <2>2 DEF RemoveNameWatch, NotFound, Goto, watchVars
    <3>2. pc'[g] \in WatchPcs \union CancelPcs
      BY <3>1 DEF WatchPcs
    <3> QED
      BY <3>1, <3>2, StillHangs DEF NotYet, Gone
  <2>3. CASE OwnerRuleRemoved(g) \/ OwnerRuleKept(g)
    <3>1. /\ pc[g] = "removingOwnerRule" /\ pc'[g] \in {"failed", "toRemoveMatch", "toClose"}
          /\ g \in Watches => pc'[g] = "failed"
          /\ pc' = [pc EXCEPT ![g] = pc'[g]] /\ infoOf' = infoOf /\ closed' = closed
      BY <1>1, <2>3 DEF OwnerRuleRemoved, OwnerRuleKept, AfterRemove, Goto
    <3>2. infoOf[WatchBy(g)] \in Watches /\ info[infoOf[WatchBy(g)]].lock = g
          /\ info' = [info EXCEPT ![infoOf[WatchBy(g)]].lock = None]
      BY <2>3, <3>1, TakenFromInfo DEF HangInv, KeepsLock, OwnerRuleRemoved, OwnerRuleKept, Released
    <3>3. \A i \in Watches : info'[i].watches = info[i].watches /\ (info'[i].lock = info[i].lock \/ info[i].lock = g)
      BY <1>1, <3>2 DEF InfoTypes
    <3>4. pc'[g] \in WatchPcs \union CancelPcs
      BY <3>1 DEF WatchPcs, CancelPcs
    <3> QED
      BY <3>1, <3>3, <3>4, StillHangs DEF NotYet, Gone
  <2> QED
    BY <1>6, <2>1, <2>2, <2>3 DEF RemoveStep
<1>7. ASSUME NEW k \in Cancels, TakeStep(k) PROVE HangInv'
  <2>0. k \in Goroutines /\ k \notin Watches
    BY Constants
  <2>1. CASE CloseChannel(k)
    <3>1. pc[k] = "toClose" /\ pc' = [pc EXCEPT ![k] = "returned"] /\ info' = info /\ infoOf' = infoOf
          /\ closed' = closed \union {WatchOf[k]}
      BY <2>1 DEF CloseChannel, Goto, infoVars
    <3>2. pc[WatchOf[k]] = "watching" /\ WatchOf[k] \in Watches /\ WatchOf[k] # k
          /\ \A i \in Watches : WatchOf[k] \notin info[i].watches
      BY <3>1, Constants DEF PlaceInv, HangInv, TakenOff, Gone
    <3>3. \A h \in Goroutines \ {k} : pc'[h] = pc[h]
      BY <1>1, <3>1
    <3>4. pc'[k] = "returned"
      BY <1>1, <2>0, <3>1
    <3>5. HasInfo' /\ TakenOff'
      BY <3>1, <3>3, <3>4, Constants DEF HangInv, HasInfo, TakenOff, Gone
    <3>6. HangsOnOne'
      <4>1. \A i \in Watches : \A w \in info[i].watches : w \in Goroutines /\ w # k
        BY <1>1, <2>0, Constants DEF InfoTypes
      <4> QED
        BY <3>1, <3>2, <3>3, <4>1 DEF HangInv, HangsOnOne
    <3>7. ClosedLast'
      <4>1. \A w \in closed : w \in Watches
        BY DEF TypeOK
      <4> QED
        BY <2>0, <3>1, <3>2, <3>3, <4>1, Constants DEF HangInv, ClosedLast
    <3>8. KeepsLock'
      <4>1. \A h \in Goroutines : pc'[h] = "removingOwnerRule" => pc[h] = "removingOwnerRule"
        BY <3>3, <3>4
      <4> QED
        BY <3>1, <4>1 DEF HangInv, KeepsLock, WatchBy
    <3> QED
      BY <3>5, <3>6, <3>7, <3>8 DEF HangInv
  <2>2. CASE ~ CloseChannel(k)
    <3>1. /\ pc' = [pc EXCEPT ![k] = pc'[k]] /\ info' = info /\ infoOf' = infoOf /\ closed' = closed
          /\ pc[k] \in Gone \/ pc'[k] \notin Gone
          /\ pc'[k] \in {"locking", "returned", "remove", "removingMatch", "toClose", "failed"}
      BY <1>1, <1>7, <2>0, <2>2 DEF TakeStep, CallCancel, CancelAgain, Cancel, RemoveMatch, RemoveMatchReturns,
         RemoveMatchFails, Goto, Gone, infoVars, watchVars
    <3>2. pc'[k] \in WatchPcs \union CancelPcs
      BY <3>1 DEF CancelPcs
    <3> QED
      BY <2>0, <3>1, <3>2, StillHangs
  <2> QED
    BY <2>1, <2>2
<1>8. CASE DispatchStep
  BY <1>2, <1>8 DEF DispatchStep, ReadMessage, DispatchReply, DispatchSignal, DispatchOwnerChanged, infoVars, watchVars
<1>9. CASE TellStep
  <2>1. pc' = pc /\ infoOf' = infoOf /\ closed' = closed
    BY <1>9 DEF TellStep, HandleOwnerChange, TellNameWatch, TellSignalWatch, CancelFromLoop, RemoveFromLoop,
       AllTold, CallbacksDone, watchVars
  <2>2. \/ info' = info
        \/ \E i \in Watches : HandleOwnerChange(i)
        \/ AllTold
    BY <1>9 DEF TellStep, TellNameWatch, TellSignalWatch, CancelFromLoop, RemoveFromLoop, CallbacksDone, infoVars
  <2>3. CASE info' = info
    BY <1>2, <2>1, <2>3
  <2>4. ASSUME NEW i \in Watches, HandleOwnerChange(i) PROVE HangInv'
    <3>1. \A j \in Watches : info'[j].watches = info[j].watches /\ (info'[j].lock = info[j].lock \/ info[j].lock = None)
      BY <1>1, <2>4 DEF HandleOwnerChange, InfoTypes
    <3> QED
      BY <1>2, <2>1, <3>1, Constants
  <2>5. CASE AllTold
    <3>1. \A j \in Watches : info'[j].watches = info[j].watches /\ (info'[j].lock = info[j].lock \/ info[j].lock = Loop)
      BY <1>1, <2>5 DEF AllTold, InfoTypes, LoopInv
    <3> QED
      BY <1>2, <2>1, <3>1, Constants
  <2> QED
    BY <2>2, <2>3, <2>4, <2>5
<1>10. CASE OtherStep
  BY <1>2, <1>10 DEF OtherStep, Receives, BusServes, OwnerChanges, Emit, infoVars, watchVars
<1>11. ASSUME NEW w \in Watches, AttachStep(w) PROVE HangInv'
  BY <1>11, AttachHangs
<1> QED
  BY <1>3, <1>4, <1>5, <1>6, <1>7, <1>8, <1>9, <1>10, <1>11, Steps

\* A step of a goroutine leaves alone the nameInfo whose lock the loop holds.
LEMMA StillTells ==
  ASSUME LoopInv, loop' = loop,
         \A i \in Watches : info[i].lock = Loop =>
            info'[i].lock = Loop /\ info[i].watches \subseteq info'[i].watches,
         \A w \in NameWatchers : pc'[w] \in NotYet => pc[w] \in NotYet /\ C'[w] = C[w]
  PROVE  LoopInv'
  BY DEF LoopInv, Inbound

LEMMA StepTells ==
  ASSUME TypeOK, PlaceInv, HangInv, LoopInv, [Next]_vars
  PROVE  LoopInv'
<1>1. /\ pc \in [Goroutines -> WatchPcs \union CancelPcs]
      /\ info \in [Watches -> InfoTypes] /\ nameInfo \in Watches \union {None}
      /\ C \in [NameWatchers -> Seq(Views)]
  BY DEF TypeOK, InfoTypes
<1>2. /\ loop \in [at : {"read", "dispatch", "callbacks", "telling", "remove", "toDetach"},
                   msg : Inbound \union {None}, infos : SUBSET Watches,
                   info : Watches \union {None}, watches : SUBSET Watches]
      /\ fromBus \in Seq(Inbound)
  BY DEF TypeOK
<1>3. CASE UNCHANGED vars
  BY <1>3, StillTells DEF vars, infoVars, watchVars
<1>4. ASSUME NEW w \in Watches, MakeStep(w) PROVE LoopInv'
  <2>1. /\ loop' = loop /\ C' = C
        /\ pc[w] \in NotYet /\ pc' = [pc EXCEPT ![w] = pc'[w]]
    BY <1>1, <1>4, Constants DEF MakeStep, WatchName, FindInfo, NewNameInfo, NewNameInfoFails, CheckCurrentOwner,
       OwnerFound, Goto, watchVars, NotYet
  <2>2. \A i \in Watches : info'[i].watches = info[i].watches /\ info'[i].lock = info[i].lock
    BY <1>1, <1>4 DEF MakeStep, WatchName, FindInfo, NewNameInfo, NewNameInfoFails, CheckCurrentOwner, OwnerFound,
       infoVars, InfoTypes
  <2>3. \A v \in Watches : pc'[v] \in NotYet => pc[v] \in NotYet
    BY <1>1, <2>1, Constants
  <2> QED
    BY <2>1, <2>2, <2>3, StillTells, Constants
<1>5. ASSUME NEW w \in Watches, AttachStep(w) PROVE LoopInv'
  <2>1. /\ loop' = loop /\ pc'[w] \notin NotYet /\ \A v \in Watches \ {w} : pc'[v] = pc[v]
    BY <1>1, <1>5, Constants DEF AttachStep, Attach, AttachCancels, Goto, NotYet
  <2>2. nameInfo \in Watches /\ info[nameInfo].lock = None
    BY <1>5, Constants DEF AttachStep, Attach, AttachCancels, Goto, PlaceInv
  <2>3. \A i \in Watches : info[i].lock = Loop => info'[i] = info[i]
    BY <1>1, <1>5, <2>2, Constants DEF AttachStep, Attach, AttachCancels
  <2>4. \A v \in NameWatchers \ {w} : C'[v] = C[v]
    BY <1>1, <1>5 DEF AttachStep, Attach, AttachCancels
  <2> QED
    BY <2>1, <2>3, <2>4, StillTells, Constants
<1>6. ASSUME NEW w \in Watches, AddStep(w) PROVE LoopInv'
  <2>1. /\ loop' = loop /\ info' = info /\ C' = C /\ pc'[w] \notin NotYet /\ \A v \in Watches \ {w} : pc'[v] = pc[v]
    BY <1>1, <1>6, Constants DEF AddStep, AddMatch, AddMatchReturns, AddMatchFails, Goto, NotYet, infoVars, watchVars
  <2> QED
    BY <2>1, StillTells, Constants
<1>7. ASSUME NEW g \in Goroutines, RemoveStep(g) PROVE LoopInv'
  <2>1. /\ loop' = loop /\ C' = C /\ pc'[g] \notin NotYet /\ \A h \in Goroutines \ {g} : pc'[h] = pc[h]
    BY <1>1, <1>7 DEF RemoveStep, RemoveNameWatch, NotFound, DetachOne, DetachLast, OwnerRuleRemoved, OwnerRuleKept,
       AfterRemove, Goto, NotYet, watchVars
  <2>2. pc[g] \in {"toDetach", "removingOwnerRule"} \/ info' = info
    BY <1>7 DEF RemoveStep, RemoveNameWatch, NotFound, DetachOne, DetachLast, OwnerRuleRemoved, OwnerRuleKept, Goto
  <2>3. \A i \in Watches : info[i].lock = Loop => info'[i] = info[i]
    <3>1. CASE info' = info
      BY <3>1
    <3>2. CASE pc[g] \in {"toDetach", "removingOwnerRule"}
      <4>1. infoOf[WatchBy(g)] \in Watches
        BY <3>2, TakenFromInfo DEF HangInv
      <4>2. info[infoOf[WatchBy(g)]].lock # Loop
        BY <1>7, <3>2, Constants DEF RemoveStep, RemoveNameWatch, NotFound, DetachOne, DetachLast, OwnerRuleRemoved,
           OwnerRuleKept, Goto, HangInv, KeepsLock
      <4>3. \A i \in Watches : i # infoOf[WatchBy(g)] => info'[i] = info[i]
        BY <1>1, <1>7, <4>1 DEF RemoveStep, RemoveNameWatch, NotFound, DetachOne, DetachLast, OwnerRuleRemoved,
           OwnerRuleKept, Released
      <4> QED
        BY <4>2, <4>3
    <3> QED
      BY <2>2, <3>1, <3>2
  <2> QED
    BY <2>1, <2>3, StillTells, Constants
<1>8. ASSUME NEW k \in Cancels, TakeStep(k) PROVE LoopInv'
  <2>1. loop' = loop /\ info' = info /\ C' = C /\ \A w \in Watches : pc'[w] = pc[w]
    BY <1>1, <1>8, Constants DEF TakeStep, CallCancel, CancelAgain, Cancel, RemoveMatch, RemoveMatchReturns,
       RemoveMatchFails, CloseChannel, Goto, infoVars, watchVars
  <2> QED
    BY <2>1, StillTells, Constants
<1>9. CASE DispatchStep
  <2>1. CASE ReadMessage
    <3>1. Head(fromBus) \in Inbound /\ loop'.at = "dispatch" /\ loop'.msg = Head(fromBus) /\ C' = C /\ pc' = pc
      BY <1>2, <2>1, QueueTypes DEF ReadMessage, watchVars
    <3> QED
      BY <3>1 DEF LoopInv
  <2>2. CASE DispatchReply \/ DispatchSignal
    BY <2>2 DEF DispatchReply, DispatchSignal, Reading, LoopInv, watchVars
  <2>3. CASE DispatchOwnerChanged
    <3>1. loop'.at = "callbacks" /\ loop'.msg = loop.msg /\ loop.msg.type # "reply" /\ loop.msg \in Inbound
          /\ C' = C /\ pc' = pc
      BY <1>2, <2>3 DEF DispatchOwnerChanged, watchVars, LoopInv
    <3> QED
      BY <3>1 DEF LoopInv
  <2> QED
    BY <1>9, <2>1, <2>2, <2>3 DEF DispatchStep
<1>10. CASE TellStep
  <2>1. ASSUME NEW i \in Watches, HandleOwnerChange(i) PROVE LoopInv'
    <3>1. loop'.at = "telling" /\ loop'.msg = loop.msg /\ loop'.info = i /\ loop'.watches = info[i].watches
          /\ loop.at = "callbacks" /\ C' = C /\ pc' = pc
      BY <1>2, <2>1 DEF HandleOwnerChange, watchVars
    <3>2. info'[i].lock = Loop /\ info'[i].watches = info[i].watches
      BY <1>1, <2>1 DEF HandleOwnerChange, InfoTypes
    <3> QED
      BY <3>1, <3>2 DEF LoopInv
  <2>2. ASSUME NEW w \in Watches, TellNameWatch(w) \/ TellSignalWatch(w) PROVE LoopInv'
    <3>1. loop.at = "telling" /\ loop' = [loop EXCEPT !.watches = @ \ {w}] /\ w \in loop.watches
          /\ info' = info /\ pc' = pc /\ \A v \in NameWatchers \ {w} : C'[v] = C[v]
      BY <1>1, <2>2 DEF TellNameWatch, TellSignalWatch, infoVars
    <3>2. loop'.at = loop.at /\ loop'.msg = loop.msg /\ loop'.info = loop.info /\ loop'.watches \subseteq loop.watches
      BY <1>2, <3>1
    <3>3. pc[w] \notin NotYet
      BY <3>1 DEF LoopInv, HangInv, HangsOnOne
    <3> QED
      BY <3>1, <3>2, <3>3 DEF LoopInv, Inbound
  <2>3. ASSUME NEW w \in Watches, CancelFromLoop(w) PROVE LoopInv'
    BY <1>2, <2>3 DEF CancelFromLoop, LoopInv
  <2>4. CASE RemoveFromLoop
    BY <1>2, <2>4 DEF RemoveFromLoop, LoopInv, watchVars
  <2>5. CASE AllTold
    <3>1. loop'.at = "callbacks" /\ loop'.msg = loop.msg /\ loop.at = "telling" /\ C' = C /\ pc' = pc
      BY <1>2, <2>5 DEF AllTold, watchVars
    <3> QED
      BY <3>1 DEF LoopInv
  <2>6. CASE CallbacksDone
    BY <2>6 DEF CallbacksDone, Reading, LoopInv, watchVars
  <2> QED
    BY <1>10, <2>1, <2>2, <2>3, <2>4, <2>5, <2>6 DEF TellStep
<1>11. CASE OtherStep
  <2>1. ASSUME NEW w \in NameWatchers, Receives(w) PROVE LoopInv'
    <3>1. /\ loop' = loop /\ info' = info /\ pc' = pc /\ pc[w] \notin NotYet /\ \A v \in NameWatchers \ {w} : C'[v] = C[v]
      BY <1>1, <2>1 DEF Receives, infoVars, NotYet
    <3> QED
      BY <3>1, StillTells
  <2>2. CASE ~ \E w \in NameWatchers : Receives(w)
    <3>1. loop' = loop /\ info' = info /\ pc' = pc /\ C' = C
      BY <1>11, <2>2 DEF OtherStep, BusServes, OwnerChanges, Emit, infoVars, watchVars
    <3> QED
      BY <3>1, StillTells
  <2> QED
    BY <2>1, <2>2
<1> QED
  BY <1>3, <1>4, <1>5, <1>6, <1>7, <1>8, <1>9, <1>10, <1>11, Steps

\* Who does not wait has nothing of the kind; who has its answer has nothing else.
LEMMA NothingElse ==
  ASSUME TypeOK, CallInv, NEW g \in Goroutines, pc[g] \notin Waiting \/ answer[g] # None
  PROVE  /\ ~ Called(g) /\ ~ Sent(g) /\ ~ Answering(g)
         /\ pc[g] \notin Waiting => answer[g] = None
         /\ answer[g] # None => Fits(g, answer[g])
  BY DEF CallInv, OneCall, OneReply, OneAnswer, Apart, Called, Sent, Fits, TypeOK, Call

\* A step of a goroutine that waits for nothing, or has its answer: it may call the bus.
LEMMA MovesOn ==
  ASSUME TypeOK, CallInv, NEW g \in Goroutines, NEW to, NEW asked,
         pc' = [pc EXCEPT ![g] = to], calls' = calls \union asked,
         \/ pc[g] \notin Waiting /\ answer' = answer
         \/ answer[g] # None /\ answer' = [answer EXCEPT ![g] = None],
         asked = {} \/ (to \in Waiting /\ asked = {[by |-> g, method |-> MethodOf(g)', rule |-> RuleOf(g)']}),
         fromBus' = fromBus, loop' = loop, busRules' = busRules,
         \A h \in Goroutines \ {g} : pc[h] = "removingOwnerRule" => infoOf'[WatchBy(h)] = infoOf[WatchBy(h)]
  PROVE  CallInv'
<1>9. ~ Called(g) /\ ~ Sent(g) /\ ~ Answering(g) /\ (pc[g] \notin Waiting => answer[g] = None)
  BY NothingElse
<1>10. \A c \in asked : c.by = g /\ to \in Waiting /\ c.method = MethodOf(g)' /\ c.rule = RuleOf(g)'
  OBVIOUS
<1>11. \A c, d \in asked : c = d
  OBVIOUS
<1>0. /\ pc \in [Goroutines -> WatchPcs \union CancelPcs] /\ answer \in [Goroutines -> Answers \union {None}]
      /\ \A c \in calls : c.by \in Goroutines
  BY DEF TypeOK, Call
<1>1. pc'[g] = to /\ answer'[g] = None
      /\ \A h \in Goroutines \ {g} : pc'[h] = pc[h] /\ answer'[h] = answer[h]
  BY <1>0, <1>9
<1>2. \A h \in Goroutines \ {g} : \A says : Fits(h, says) => Fits(h, says)'
  BY <1>1 DEF Fits
<1>3. \A h \in Goroutines : (Answering(h)' <=> Answering(h)) /\ (Sent(h)' <=> Sent(h))
  BY DEF Answering, Sent
<1>4. \A h \in Goroutines \ {g} : Called(h)' <=> Called(h)
  BY <1>10 DEF Called
<1>5. OneCall'
  <2>1. \A c \in calls : c.by # g
    BY <1>9 DEF Called
  <2>2. \A h \in Goroutines \ {g} : pc[h] \in Waiting => MethodOf(h)' = MethodOf(h) /\ RuleOf(h)' = RuleOf(h)
    BY <1>1 DEF MethodOf, RuleOf, WatchBy
  <2> QED
    BY <1>0, <1>1, <1>10, <1>11, <2>1, <2>2 DEF CallInv, OneCall
<1>6. OneReply'
  BY <1>2, <1>1, <1>9 DEF CallInv, OneReply, Sent
<1>7. OneAnswer'
  BY <1>1, <1>2, <1>3, <1>9 DEF CallInv, OneAnswer
<1>8. Apart'
  BY <1>1, <1>3, <1>4, <1>9 DEF CallInv, Apart
<1> QED
  BY <1>5, <1>6, <1>7, <1>8 DEF CallInv

\* A step of the loop between messages, and of the application.
LEMMA StillCalled ==
  ASSUME CallInv, UNCHANGED <<pc, infoOf, calls, answer, fromBus, busRules>>,
         \A g \in Goroutines : Answering(g)' => Answering(g) /\ loop'.msg = loop.msg
  PROVE  CallInv'
<1>1. \A g : (Called(g)' <=> Called(g)) /\ (Sent(g)' <=> Sent(g))
  BY DEF Called, Sent
<1>2. \A g, says : Fits(g, says)' <=> Fits(g, says)
  BY DEF Fits
<1>3. \A g : MethodOf(g)' = MethodOf(g) /\ RuleOf(g)' = RuleOf(g)
  BY DEF MethodOf, RuleOf, WatchBy
<1>4. OneCall'
  BY <1>3 DEF CallInv, OneCall
<1>5. OneReply'
  BY <1>2 DEF CallInv, OneReply
<1>6. OneAnswer'
  BY <1>2 DEF CallInv, OneAnswer
<1>7. Apart'
  BY <1>1 DEF CallInv, Apart
<1> QED
  BY <1>4, <1>5, <1>6, <1>7 DEF CallInv

\* What is a reply after one more message is sent, and after one is read.
LEMMA RepliesAfterSending ==
  ASSUME NEW q \in Seq(Inbound), NEW m \in Inbound
  PROVE  /\ Len(q) \in Nat
         /\ \A i, g : IsReply(Append(q, m), i, g) <=>
              IsReply(q, i, g) \/ (i = Len(q) + 1 /\ m.type = "reply" /\ m.to = g)
         /\ \A i \in 1..Len(q) : Append(q, m)[i] = q[i]
         /\ Append(q, m)[Len(q) + 1] = m
<1>1. /\ Len(q) \in Nat /\ Len(Append(q, m)) = Len(q) + 1 /\ Append(q, m)[Len(q) + 1] = m
      /\ \A i \in 1..Len(q) : Append(q, m)[i] = q[i]
  OBVIOUS
<1> QED
  BY <1>1 DEF IsReply

LEMMA RepliesAfterReading ==
  ASSUME NEW q \in Seq(Inbound), q # <<>>
  PROVE  /\ \A i, g : IsReply(Tail(q), i, g) => IsReply(q, i + 1, g) /\ Tail(q)[i] = q[i + 1] /\ i \in Nat /\ i # 0
         /\ \A g : Head(q).type = "reply" /\ Head(q).to = g => IsReply(q, 1, g)
         /\ Head(q) = q[1]
<1>1. /\ Len(q) \in Nat /\ Len(q) # 0 /\ Len(Tail(q)) = Len(q) - 1 /\ Head(q) = q[1]
      /\ \A i \in 1..Len(Tail(q)) : Tail(q)[i] = q[i + 1]
  OBVIOUS
<1> QED
  BY <1>1 DEF IsReply

\* The loop reads the next message, and dispatches a reply.
LEMMA ReadCalled ==
  ASSUME TypeOK, CallInv, ReadMessage
  PROVE  CallInv'
<1>0. fromBus \in Seq(Inbound) /\ fromBus # <<>> /\ fromBus' = Tail(fromBus)
      /\ loop'.at = "dispatch" /\ loop'.msg = Head(fromBus) /\ loop.at = "read"
      /\ UNCHANGED <<pc, infoOf, calls, answer, busRules>>
  BY DEF TypeOK, ReadMessage, watchVars, callVars
<1>1. \A g, says : Fits(g, says)' <=> Fits(g, says)
  BY <1>0 DEF Fits
<1>2. \A g : MethodOf(g)' = MethodOf(g) /\ RuleOf(g)' = RuleOf(g) /\ (Called(g)' <=> Called(g))
  BY <1>0 DEF MethodOf, RuleOf, WatchBy, Called
<1>3. \A g : Answering(g)' => IsReply(fromBus, 1, g) /\ loop'.msg = fromBus[1]
  BY <1>0, RepliesAfterReading DEF Answering
<1>4. \A i, g : IsReply(fromBus, i, g)' => IsReply(fromBus, i + 1, g) /\ fromBus'[i] = fromBus[i + 1] /\ i \in Nat /\ i # 0
  BY <1>0, RepliesAfterReading DEF IsReply
<1>5. OneCall'
  BY <1>0, <1>2 DEF CallInv, OneCall
<1>6. OneReply'
  <2>1. \A g \in Goroutines : \A i, j : IsReply(fromBus, i, g)' /\ IsReply(fromBus, j, g)' => i + 1 = j + 1 /\ i \in Nat /\ j \in Nat
    BY <1>4 DEF CallInv, OneReply
  <2>2. \A g \in Goroutines : \A i, j : IsReply(fromBus, i, g)' /\ IsReply(fromBus, j, g)' => i = j
    BY <2>1
  <2>3. \A g \in Goroutines : \A i : IsReply(fromBus, i, g)' => Fits(g, fromBus[i].says)'
    BY <1>1, <1>4 DEF CallInv, OneReply
  <2> QED
    BY <2>2, <2>3 DEF OneReply
<1>7. OneAnswer'
  BY <1>0, <1>1, <1>3 DEF CallInv, OneAnswer, OneReply
<1>8. Apart'
  <2>1. \A g : Sent(g)' => Sent(g)
    BY <1>4 DEF Sent
  <2>2. \A g : Answering(g)' => Sent(g)
    BY <1>3 DEF Sent
  <2>3. \A g \in Goroutines : ~ (Sent(g)' /\ Answering(g)')
    <3>1. SUFFICES ASSUME NEW g \in Goroutines, Sent(g)', Answering(g)' PROVE FALSE
      OBVIOUS
    <3>2. PICK i : IsReply(fromBus, i, g)'
      BY <3>1 DEF Sent
    <3>3. IsReply(fromBus, i + 1, g) /\ i \in Nat /\ i # 0 /\ IsReply(fromBus, 1, g)
      BY <1>3, <1>4, <3>1, <3>2
    <3>4. i + 1 = 1
      BY <3>3 DEF CallInv, OneReply
    <3> QED
      BY <3>3, <3>4
  <2> QED
    BY <1>0, <1>2, <2>1, <2>2, <2>3 DEF CallInv, Apart
<1> QED
  BY <1>5, <1>6, <1>7, <1>8 DEF CallInv

LEMMA DispatchCalled ==
  ASSUME TypeOK, LoopInv, CallInv, DispatchReply
  PROVE  CallInv'
<1> DEFINE g == loop.msg.to
<1>0. /\ loop.msg \in Inbound /\ g \in Goroutines /\ Answering(g)
      /\ answer \in [Goroutines -> Answers \union {None}]
      /\ answer' = [answer EXCEPT ![g] = loop.msg.says] /\ loop'.at = "read"
      /\ UNCHANGED <<pc, infoOf, calls, fromBus, busRules>>
  BY DEF TypeOK, LoopInv, DispatchReply, Reading, watchVars, busVars, Answering, Inbound
<1>1. \A h, says : Fits(h, says)' <=> Fits(h, says)
  BY <1>0 DEF Fits
<1>2. \A h : MethodOf(h)' = MethodOf(h) /\ RuleOf(h)' = RuleOf(h) /\ (Called(h)' <=> Called(h)) /\ (Sent(h)' <=> Sent(h))
  BY <1>0 DEF MethodOf, RuleOf, WatchBy, Called, Sent
<1>3. \A h : ~ Answering(h)'
  BY <1>0 DEF Answering
<1>4. answer'[g] = loop.msg.says /\ \A h \in Goroutines \ {g} : answer'[h] = answer[h]
  BY <1>0
<1>5. OneCall' /\ OneReply'
  BY <1>0, <1>1, <1>2 DEF CallInv, OneCall, OneReply
<1>6. OneAnswer'
  BY <1>0, <1>1, <1>3, <1>4 DEF CallInv, OneAnswer
<1>7. Apart'
  BY <1>0, <1>2, <1>3, <1>4 DEF CallInv, Apart
<1> QED
  BY <1>5, <1>6, <1>7 DEF CallInv

\* A message that is no reply is sent.
LEMMA SignalCalled ==
  ASSUME TypeOK, CallInv, UNCHANGED <<pc, infoOf, calls, answer, loop, busRules>>,
         NEW m \in Inbound, m.type # "reply", fromBus' = Append(fromBus, m)
  PROVE  CallInv'
<1>0. fromBus \in Seq(Inbound)
  BY DEF TypeOK
<1>1. \A h, says : Fits(h, says)' <=> Fits(h, says)
  BY DEF Fits
<1>2. \A h : MethodOf(h)' = MethodOf(h) /\ RuleOf(h)' = RuleOf(h) /\ (Called(h)' <=> Called(h)) /\ (Answering(h)' <=> Answering(h))
  BY DEF MethodOf, RuleOf, WatchBy, Called, Answering
<1>3. \A i, h : IsReply(fromBus, i, h)' => IsReply(fromBus, i, h) /\ fromBus'[i] = fromBus[i]
  BY <1>0, RepliesAfterSending DEF IsReply
<1>4. OneCall'
  BY <1>2 DEF CallInv, OneCall
<1>5. OneReply'
  BY <1>1, <1>3 DEF CallInv, OneReply
<1>6. OneAnswer'
  BY <1>1, <1>2 DEF CallInv, OneAnswer
<1>7. \A h : Sent(h)' => Sent(h)
  BY <1>3 DEF Sent
<1>8. Apart'
  BY <1>2, <1>7 DEF CallInv, Apart
<1> QED
  BY <1>4, <1>5, <1>6, <1>8 DEF CallInv

\* The bus answers a call.
ServedWith(c, says) ==
  /\ Replies(c.by, says)
  /\ c.method = "GetNameOwner" => says \in Says(name.owner) /\ busRules' = busRules
  /\ c.method # "GetNameOwner" => says \in {Ok, Error}
  /\ c.method = "AddMatch" => busRules' \in {busRules, busRules \union {c.rule}}
  /\ c.method = "AddMatch" /\ says = Ok => c.rule \in busRules'
  /\ c.method = "RemoveMatch" => busRules' \in {busRules, busRules \ {c.rule}}

LEMMA Served ==
  ASSUME NEW c \in calls, BusServes(c)
  PROVE  \E says : ServedWith(c, says)
<1>1. CASE /\ c.method = "GetNameOwner" /\ UNCHANGED busRules
           /\ Replies(c.by, OwnerIs(name.owner)) \/ Replies(c.by, NotSaid(name.owner))
  BY <1>1 DEF ServedWith, Says
<1>2. CASE /\ Replies(c.by, Ok)
           /\ \/ c.method = "AddMatch" /\ busRules' = busRules \union {c.rule}
              \/ c.method = "RemoveMatch" /\ busRules' = busRules \ {c.rule}
  <2>1. ServedWith(c, Ok)
    BY <1>2 DEF ServedWith
  <2> QED
    BY <2>1
<1>3. CASE c.method \in {"AddMatch", "RemoveMatch"} /\ Replies(c.by, Error) /\ UNCHANGED busRules
  <2>1. ServedWith(c, Error)
    BY <1>3 DEF ServedWith, Ok, Error
  <2> QED
    BY <2>1
<1> QED
  BY <1>1, <1>2, <1>3 DEF BusServes

LEMMA ServeCalled ==
  ASSUME TypeOK, PlaceInv, CallInv, NEW c \in calls, BusServes(c)
  PROVE  CallInv'
<1> DEFINE g == c.by
<1>0. /\ fromBus \in Seq(Inbound) /\ name.owner \in OwnersOf /\ g \in Goroutines
      /\ \A d \in calls : d.by \in Goroutines
  BY DEF TypeOK, Call
<1>1. /\ calls' = calls \ {c} /\ UNCHANGED <<pc, infoOf, answer, loop>>
  BY DEF BusServes, watchVars
<1>2. /\ pc[g] \in Waiting /\ c.method = MethodOf(g) /\ c.rule = RuleOf(g) /\ ~ Sent(g) /\ ~ Answering(g) /\ answer[g] = None
  BY <1>0 DEF CallInv, OneCall, Apart, Called
<1>3. PICK says : ServedWith(c, says)
  BY <1>0, Served
<1>14. says \in Answers
  BY <1>0, <1>3, WhatIsFound DEF ServedWith, Answers, Call, TypeOK
<1> DEFINE m == [type |-> "reply", to |-> g, says |-> says]
<1>4. m \in Inbound /\ fromBus' = Append(fromBus, m)
  BY <1>0, <1>3, <1>14 DEF ServedWith, Replies, Inbound
<1>5. \A h : MethodOf(h)' = MethodOf(h) /\ RuleOf(h)' = RuleOf(h) /\ (Answering(h)' <=> Answering(h))
  BY <1>1 DEF MethodOf, RuleOf, WatchBy, Answering
<1>6. \A h \in Goroutines : (Called(h)' => Called(h)) /\ ~ Called(g)'
  BY <1>1 DEF Called, CallInv, OneCall
<1>7. \A h \in Goroutines : h # g => (Sent(h)' => Sent(h))
  BY <1>0, <1>4, RepliesAfterSending DEF Sent
<1>8. ASSUME NEW h \in Goroutines, NEW s, Fits(h, s) PROVE Fits(h, s)'
  <2>1. pc[h] = "addingOwnerRule" /\ OwnerRule(h) \in busRules => OwnerRule(h) \in busRules'
    <3>1. c.method # "RemoveMatch" => busRules \subseteq busRules'
      BY <1>2, <1>3 DEF MethodOf, ServedWith
    <3>2. c.method = "RemoveMatch" /\ pc[h] = "addingOwnerRule" => c.rule # OwnerRule(h)
      <4>1. SUFFICES ASSUME c.method = "RemoveMatch", pc[h] = "addingOwnerRule" PROVE c.rule # OwnerRule(h)
        OBVIOUS
      <4>2. pc[g] # "removingOwnerRule" /\ pc[g] \notin {"addingOwnerRule", "askingOwner"}
        BY <1>0, <1>2, <4>1 DEF PlaceInv, Holding, MethodOf
      <4> QED
        BY <1>2, <4>2 DEF RuleOf, OwnerRule, SignalRule
    <3> QED
      BY <1>3, <3>1, <3>2 DEF ServedWith
  <2> QED
    BY <1>1, <1>8, <2>1 DEF Fits
<1>9. Fits(g, says)'
  BY <1>1, <1>2, <1>3, <1>0 DEF ServedWith, Fits, MethodOf, RuleOf
<1>10. OneCall'
  BY <1>1, <1>5 DEF CallInv, OneCall
<1>11. OneReply'
  <2>1. ASSUME NEW h \in Goroutines, NEW i, IsReply(fromBus, i, h)' PROVE Fits(h, fromBus[i].says)'
    <3>1. CASE IsReply(fromBus, i, h)
      <4>1. fromBus'[i] = fromBus[i]
        BY <1>0, <1>4, <3>1, RepliesAfterSending DEF IsReply
      <4>2. Fits(h, fromBus[i].says)
        BY <3>1 DEF CallInv, OneReply
      <4> QED
        BY <4>1, <4>2, <1>8
    <3>2. CASE ~ IsReply(fromBus, i, h)
      <4>1. i = Len(fromBus) + 1 /\ h = g /\ fromBus'[i] = m
        BY <1>0, <1>4, <2>1, <3>2, RepliesAfterSending
      <4> QED
        BY <4>1, <1>9
    <3> QED
      BY <3>1, <3>2
  <2>2. ASSUME NEW h \in Goroutines, NEW i, NEW j, IsReply(fromBus, i, h)', IsReply(fromBus, j, h)' PROVE i = j
    <3>1. \A n : IsReply(fromBus, n, h)' => IsReply(fromBus, n, h) \/ (n = Len(fromBus) + 1 /\ h = g)
      BY <1>0, <1>4, RepliesAfterSending
    <3> QED
      BY <1>2, <2>2, <3>1 DEF CallInv, OneReply, Sent
  <2> QED
    BY <2>1, <2>2 DEF OneReply
<1>12. OneAnswer'
  BY <1>1, <1>5, <1>8 DEF CallInv, OneAnswer
<1>13. Apart'
  BY <1>1, <1>2, <1>5, <1>6, <1>7 DEF CallInv, Apart
<1> QED
  BY <1>10, <1>11, <1>12, <1>13 DEF CallInv

LEMMA StepCalls ==
  ASSUME TypeOK, PlaceInv, HangInv, LoopInv, CallInv, [Next]_vars
  PROVE  CallInv'
<1>1. /\ pc \in [Goroutines -> WatchPcs \union CancelPcs] /\ answer \in [Goroutines -> Answers \union {None}]
      /\ fromBus \in Seq(Inbound)
  BY DEF TypeOK
<1>2. /\ loop \in [at : {"read", "dispatch", "callbacks", "telling", "remove", "toDetach"},
                   msg : Inbound \union {None}, infos : SUBSET Watches,
                   info : Watches \union {None}, watches : SUBSET Watches]
  BY DEF TypeOK
<1> USE DEF infoVars, watchVars, callVars, busVars
<1>3. CASE UNCHANGED vars
  BY <1>3, StillCalled DEF vars, Answering
<1>4. ASSUME NEW w \in Watches, MakeStep(w) PROVE CallInv'
  <2>0. w \in Goroutines
    BY Constants
  <2>1. CASE WatchName(w) \/ FindInfo(w)
    <3>1. /\ pc' = [pc EXCEPT ![w] = pc'[w]] /\ pc[w] \notin Waiting /\ calls' = calls \union {}
          /\ UNCHANGED <<answer, fromBus, loop, busRules, infoOf>>
      BY <1>1, <2>0, <2>1 DEF WatchName, FindInfo, Goto, Waiting
    <3> QED
      BY <2>0, <3>1, MovesOn
  <2>2. CASE NewNameInfo(w)
    <3>1. /\ pc' = [pc EXCEPT ![w] = "addingOwnerRule"] /\ pc[w] \notin Waiting
          /\ calls' = calls \union {[by |-> w, method |-> "AddMatch", rule |-> OwnerRule(w)]}
          /\ UNCHANGED <<answer, fromBus, loop, busRules, infoOf>>
      BY <2>2 DEF NewNameInfo, Ask, Goto, Waiting
    <3>2. MethodOf(w)' = "AddMatch" /\ RuleOf(w)' = OwnerRule(w)
      BY <1>1, <2>0, <3>1 DEF MethodOf, RuleOf
    <3>3. "addingOwnerRule" \in Waiting
      BY DEF Waiting
    <3> QED
      BY <2>0, <3>1, <3>2, <3>3, MovesOn
  <2>3. CASE NewNameInfoFails(w) \/ OwnerFound(w)
    <3>1. /\ pc' = [pc EXCEPT ![w] = pc'[w]] /\ answer[w] # None /\ answer' = [answer EXCEPT ![w] = None]
          /\ calls' = calls \union {}
          /\ UNCHANGED <<fromBus, loop, busRules, infoOf>>
      BY <1>1, <2>0, <2>3, Constants DEF NewNameInfoFails, OwnerFound, Told, Goto
    <3> QED
      BY <2>0, <3>1, MovesOn
  <2>4. CASE CheckCurrentOwner(w)
    <3>1. /\ pc' = [pc EXCEPT ![w] = "askingOwner"] /\ answer[w] # None /\ answer' = [answer EXCEPT ![w] = None]
          /\ calls' = calls \union {[by |-> w, method |-> "GetNameOwner", rule |-> OwnerRule(w)]}
          /\ UNCHANGED <<fromBus, loop, busRules, infoOf>>
      BY <2>4, Constants DEF CheckCurrentOwner, Goto
    <3>2. MethodOf(w)' = "GetNameOwner" /\ RuleOf(w)' = OwnerRule(w)
      BY <1>1, <2>0, <3>1 DEF MethodOf, RuleOf
    <3>3. "askingOwner" \in Waiting
      BY DEF Waiting
    <3> QED
      BY <2>0, <3>1, <3>2, <3>3, MovesOn
  <2> QED
    BY <1>4, <2>1, <2>2, <2>3, <2>4 DEF MakeStep
<1>5. ASSUME NEW w \in Watches, AttachStep(w) PROVE CallInv'
  <2>1. /\ w \in Goroutines /\ pc' = [pc EXCEPT ![w] = pc'[w]] /\ pc[w] = "toAttach" /\ calls' = calls \union {}
        /\ UNCHANGED <<answer, fromBus, loop, busRules>>
    BY <1>1, <1>5, Constants DEF AttachStep, Attach, AttachCancels, Goto
  <2>2. \A h \in Goroutines : pc[h] # "removingOwnerRule"
    BY <2>1 DEF PlaceInv, Holding
  <2> QED
    BY <2>1, <2>2, MovesOn DEF Waiting
<1>6. ASSUME NEW w \in Watches, AddStep(w) PROVE CallInv'
  <2>0. w \in Goroutines /\ WatchBy(w) = w
    BY Constants
  <2>1. CASE AddMatch(w)
    <3>1. /\ pc' = [pc EXCEPT ![w] = "addingMatch"] /\ pc[w] \notin Waiting
          /\ calls' = calls \union {[by |-> w, method |-> "AddMatch", rule |-> SignalRule(w)]}
          /\ UNCHANGED <<answer, fromBus, loop, busRules, infoOf>>
      BY <2>1 DEF AddMatch, Ask, Goto, Waiting
    <3>2. MethodOf(w)' = "AddMatch" /\ RuleOf(w)' = SignalRule(w)
      BY <1>1, <2>0, <3>1 DEF MethodOf, RuleOf, WatchBy
    <3>3. "addingMatch" \in Waiting
      BY DEF Waiting
    <3> QED
      BY <2>0, <3>1, <3>2, <3>3, MovesOn
  <2>2. CASE AddMatchReturns(w) \/ AddMatchFails(w)
    <3>1. /\ pc' = [pc EXCEPT ![w] = pc'[w]] /\ answer[w] # None /\ answer' = [answer EXCEPT ![w] = None]
          /\ calls' = calls \union {}
          /\ UNCHANGED <<fromBus, loop, busRules, infoOf>>
      BY <1>1, <2>0, <2>2, Constants DEF AddMatchReturns, AddMatchFails, Told, Goto
    <3> QED
      BY <2>0, <3>1, MovesOn
  <2> QED
    BY <1>6, <2>1, <2>2 DEF AddStep
<1>7. ASSUME NEW g \in Goroutines, RemoveStep(g) PROVE CallInv'
  <2>1. CASE RemoveNameWatch(g) \/ NotFound(g) \/ DetachOne(g)
    <3>1. /\ pc' = [pc EXCEPT ![g] = pc'[g]] /\ pc[g] \notin Waiting /\ calls' = calls \union {}
          /\ UNCHANGED <<answer, fromBus, loop, busRules, infoOf>>
      BY <1>1, <2>1 DEF RemoveNameWatch, NotFound, DetachOne, Goto, Waiting
    <3> QED
      BY <3>1, MovesOn
  <2>2. CASE DetachLast(g)
    <3>1. /\ pc' = [pc EXCEPT ![g] = "removingOwnerRule"] /\ pc[g] \notin Waiting
          /\ calls' = calls \union {[by |-> g, method |-> "RemoveMatch", rule |-> OwnerRule(infoOf[WatchBy(g)])]}
          /\ UNCHANGED <<answer, fromBus, loop, busRules, infoOf>>
      BY <2>2 DEF DetachLast, Ask, Goto, Waiting
    <3>2. MethodOf(g)' = "RemoveMatch" /\ RuleOf(g)' = OwnerRule(infoOf[WatchBy(g)])
      BY <1>1, <3>1 DEF MethodOf, RuleOf, WatchBy
    <3>3. "removingOwnerRule" \in Waiting
      BY DEF Waiting
    <3> QED
      BY <3>1, <3>2, <3>3, MovesOn
  <2>3. CASE OwnerRuleRemoved(g) \/ OwnerRuleKept(g)
    <3>1. /\ pc' = [pc EXCEPT ![g] = pc'[g]] /\ answer[g] # None /\ answer' = [answer EXCEPT ![g] = None]
          /\ calls' = calls \union {}
          /\ UNCHANGED <<fromBus, loop, busRules, infoOf>>
      BY <1>1, <2>3, Constants DEF OwnerRuleRemoved, OwnerRuleKept, Told, Goto
    <3> QED
      BY <3>1, MovesOn
  <2> QED
    BY <1>7, <2>1, <2>2, <2>3 DEF RemoveStep
<1>8. ASSUME NEW k \in Cancels, TakeStep(k) PROVE CallInv'
  <2>0. k \in Goroutines /\ WatchBy(k) = WatchOf[k]
    BY Constants
  <2>1. CASE CallCancel(k) \/ CancelAgain(k) \/ Cancel(k) \/ CloseChannel(k)
    <3>1. /\ pc' = [pc EXCEPT ![k] = pc'[k]] /\ pc[k] \notin Waiting /\ calls' = calls \union {}
          /\ UNCHANGED <<answer, fromBus, loop, busRules, infoOf>>
      BY <1>1, <2>0, <2>1 DEF CallCancel, CancelAgain, Cancel, CloseChannel, Goto, Waiting
    <3> QED
      BY <2>0, <3>1, MovesOn
  <2>2. CASE RemoveMatch(k)
    <3>1. /\ pc' = [pc EXCEPT ![k] = "removingMatch"] /\ pc[k] \notin Waiting
          /\ calls' = calls \union {[by |-> k, method |-> "RemoveMatch", rule |-> SignalRule(WatchOf[k])]}
          /\ UNCHANGED <<answer, fromBus, loop, busRules, infoOf>>
      BY <2>2 DEF RemoveMatch, Ask, Goto, Waiting
    <3>2. MethodOf(k)' = "RemoveMatch" /\ RuleOf(k)' = SignalRule(WatchOf[k])
      BY <1>1, <2>0, <3>1 DEF MethodOf, RuleOf, WatchBy
    <3>3. "removingMatch" \in Waiting
      BY DEF Waiting
    <3> QED
      BY <2>0, <3>1, <3>2, <3>3, MovesOn
  <2>3. CASE RemoveMatchReturns(k) \/ RemoveMatchFails(k)
    <3>1. /\ pc' = [pc EXCEPT ![k] = pc'[k]] /\ answer[k] # None /\ answer' = [answer EXCEPT ![k] = None]
          /\ calls' = calls \union {}
          /\ UNCHANGED <<fromBus, loop, busRules, infoOf>>
      BY <1>1, <2>0, <2>3, Constants DEF RemoveMatchReturns, RemoveMatchFails, Told, Goto
    <3> QED
      BY <2>0, <3>1, MovesOn
  <2> QED
    BY <1>8, <2>1, <2>2, <2>3 DEF TakeStep
<1>9. CASE DispatchStep
  <2>1. CASE DispatchSignal \/ DispatchOwnerChanged
    <3>1. UNCHANGED <<pc, infoOf, calls, answer, fromBus, busRules>>
      BY <2>1 DEF DispatchSignal, DispatchOwnerChanged
    <3>2. loop'.at # "dispatch"
      <4>1. DispatchSignal => loop'.at = "read"
        BY DEF DispatchSignal, Reading
      <4>2. DispatchOwnerChanged => loop'.at = "callbacks"
        BY <1>2 DEF DispatchOwnerChanged
      <4> QED
        BY <2>1, <4>1, <4>2
    <3> QED
      BY <3>1, <3>2, StillCalled DEF Answering
  <2> QED
    BY <1>9, <2>1, ReadCalled, DispatchCalled DEF DispatchStep
<1>10. CASE TellStep
  <2>1. UNCHANGED <<pc, infoOf, calls, answer, fromBus, busRules>>
    BY <1>10 DEF TellStep, HandleOwnerChange, TellNameWatch, TellSignalWatch, CancelFromLoop, RemoveFromLoop,
       AllTold, CallbacksDone
  <2>2. loop'.at # "dispatch"
    <3>1. ASSUME NEW w \in Watches, HandleOwnerChange(w) PROVE loop'.at = "telling"
      BY <1>2, <3>1 DEF HandleOwnerChange
    <3>2. ASSUME NEW w \in Watches, TellNameWatch(w) \/ TellSignalWatch(w) PROVE loop'.at = "telling"
      BY <1>2, <3>2 DEF TellNameWatch, TellSignalWatch
    <3>3. ASSUME NEW w \in Watches, CancelFromLoop(w) PROVE loop'.at = "remove"
      BY <1>2, <3>3 DEF CancelFromLoop
    <3>4. RemoveFromLoop \/ AllTold \/ CallbacksDone => loop'.at \in {"toDetach", "callbacks", "read"}
      BY <1>2 DEF RemoveFromLoop, AllTold, CallbacksDone, Reading
    <3> QED
      BY <1>10, <3>1, <3>2, <3>3, <3>4 DEF TellStep
  <2> QED
    BY <2>1, <2>2, StillCalled DEF Answering
<1>11. CASE OtherStep
  <2>1. ASSUME NEW w \in NameWatchers, Receives(w) PROVE CallInv'
    BY <2>1, StillCalled DEF Receives, Answering
  <2>2. ASSUME NEW c \in calls, BusServes(c) PROVE CallInv'
    BY <2>2, ServeCalled
  <2>3. CASE OwnerChanges
    <3>1. UNCHANGED <<pc, infoOf, calls, answer, loop, busRules>> /\ name'.owner \in OwnersOf
      BY <2>3, NameAssumption DEF OwnerChanges, TypeOK, OwnersOf
    <3>2. CASE fromBus' = fromBus
      BY <3>1, <3>2, StillCalled DEF Answering
    <3>3. CASE fromBus' = Append(fromBus, [type |-> "NameOwnerChanged", owner |-> name'.owner])
      BY <3>1, <3>3, SignalCalled DEF Inbound
    <3> QED
      BY <2>3, <3>2, <3>3 DEF OwnerChanges
  <2>4. CASE Emit
    <3>1. UNCHANGED <<pc, infoOf, calls, answer, loop, busRules>> /\ name.owner \in OwnersOf
          /\ fromBus' = Append(fromBus, [type |-> "signal", owner |-> name.owner])
      BY <2>4 DEF Emit, TypeOK
    <3> QED
      BY <3>1, SignalCalled DEF Inbound
  <2> QED
    BY <1>11, <2>1, <2>2, <2>3, <2>4 DEF OtherStep
<1> QED
  BY <1>3, <1>4, <1>5, <1>6, <1>7, <1>8, <1>9, <1>10, <1>11, Steps

\* A step that changes no nameInfo but its lock and takes no rule for one away.
LEMMA StillShared ==
  ASSUME SharedInv, nameInfo \in Watches \union {None}, nameInfo' = nameInfo,
         \A i \in Watches : info'[i].watches = info[i].watches,
         \A i \in Watches : info'[i].currentOwner = info[i].currentOwner \/ info'[i].currentOwner \in Views,
         \A i \in Watches : OwnerRule(i) \in rules => OwnerRule(i) \in rules',
         \A i \in Watches : OwnerRule(i) \in busRules => OwnerRule(i) \in busRules',
         \A w \in Watches : pc'[w] \in {"addingOwnerRule", "askingOwner"} => pc'[w] = pc[w],
         nameInfo # None /\ info[nameInfo].watches = {} =>
            nameInfoMutex' = nameInfoMutex /\ pc'[nameInfoMutex] = pc[nameInfoMutex]
  PROVE  SharedInv'
<1>1. KnownInfo'
  BY Constants DEF SharedInv, KnownInfo
<1>2. OnlyInfo' /\ NeededInfo'
  BY DEF SharedInv, OnlyInfo, NeededInfo
<1>3. MadeInfo'
  BY DEF SharedInv, MadeInfo
<1> QED
  BY <1>1, <1>2, <1>3 DEF SharedInv

\* While a nameInfo is made, and while it is taken away, there is none.
LEMMA MakingIsAlone ==
  ASSUME PlaceInv, NEW g \in Goroutines, pc[g] \in Holding
  PROVE  /\ nameInfoMutex = g /\ nameInfoMutex # None
         /\ \A h \in Goroutines \ {g} : pc[h] \notin Holding
         /\ pc[g] \in {"addingOwnerRule", "askingOwner", "removingOwnerRule"} => nameInfo = None
  BY Constants DEF PlaceInv

\* The bus drops no rule that a nameInfo needs.
LEMMA BusShares ==
  ASSUME TypeOK, PlaceInv, CallInv, SharedInv, NEW c \in calls, BusServes(c)
  PROVE  SharedInv'
<1>0. /\ UNCHANGED <<pc, nameInfo, nameInfoMutex, info, rules>> /\ nameInfo \in Watches \union {None}
      /\ c.by \in Goroutines
  BY DEF BusServes, infoVars, TypeOK, Call
<1>1. PICK says : ServedWith(c, says)
  BY Served
<1>2. pc[c.by] \in Waiting /\ c.method = MethodOf(c.by) /\ c.rule = RuleOf(c.by)
  BY DEF CallInv, OneCall
<1>3. CASE pc[c.by] # "removingOwnerRule"
  <2>1. c.method = "RemoveMatch" => \A i : c.rule # OwnerRule(i)
    BY <1>2, <1>3 DEF MethodOf, RuleOf, OwnerRule, SignalRule
  <2>2. \A i \in Watches : OwnerRule(i) \in busRules => OwnerRule(i) \in busRules'
    BY <1>1, <1>2, <2>1 DEF ServedWith, MethodOf
  <2> QED
    BY <1>0, <2>2, StillShared
<1>4. CASE pc[c.by] = "removingOwnerRule"
  <2>1. nameInfo = None /\ \A w \in Watches : pc[w] \notin {"addingOwnerRule", "askingOwner"}
    BY <1>0, <1>4, MakingIsAlone, Constants DEF Holding
  <2> QED
    BY <1>0, <2>1 DEF SharedInv, KnownInfo, OnlyInfo, NeededInfo, MadeInfo
<1> QED
  BY <1>3, <1>4

\* What each step of WatchName does to the nameInfo.
LEMMA MakeShares ==
  ASSUME TypeOK, PlaceInv, CallInv, SharedInv, NEW w \in Watches, MakeStep(w)
  PROVE  SharedInv'
<1>0. /\ pc \in [Goroutines -> WatchPcs \union CancelPcs] /\ nameInfo \in Watches \union {None}
      /\ info \in [Watches -> InfoTypes]
  BY DEF TypeOK, InfoTypes
<1>1. w \in Goroutines /\ \A v \in Watches : v \in Goroutines
  BY Constants
<1> USE DEF infoVars, watchVars, callVars, busVars
<1>2. CASE WatchName(w)
  <2>1. /\ UNCHANGED <<nameInfo, nameInfoMutex, info, rules, busRules>>
        /\ pc[w] = "new" /\ pc'[w] = "ensure" /\ \A h \in Goroutines \ {w} : pc'[h] = pc[h]
    BY <1>0, <1>1, <1>2 DEF WatchName, Goto
  <2>2. nameInfo # None /\ info[nameInfo].watches = {} => nameInfoMutex \in Goroutines \ {w}
    BY <1>1, <2>1 DEF SharedInv, NeededInfo
  <2> QED
    BY <1>0, <1>1, <2>1, <2>2, StillShared
<1>3. CASE FindInfo(w)
  <2>1. /\ UNCHANGED <<nameInfo, info, rules, busRules>> /\ nameInfoMutex = None /\ nameInfoMutex' = w
        /\ pc'[w] = "toAttach" /\ \A h \in Goroutines \ {w} : pc'[h] = pc[h]
    BY <1>0, <1>1, <1>3 DEF FindInfo, Goto
  <2> QED
    BY <1>0, <1>1, <2>1 DEF SharedInv, KnownInfo, OnlyInfo, NeededInfo, MadeInfo
<1>4. CASE NewNameInfo(w)
  <2>1. /\ UNCHANGED <<nameInfo, info, busRules>> /\ nameInfo = None
        /\ rules' = rules \union {OwnerRule(w)}
        /\ pc'[w] = "addingOwnerRule" /\ \A h \in Goroutines \ {w} : pc'[h] = pc[h]
    BY <1>0, <1>1, <1>4 DEF NewNameInfo, Goto
  <2> QED
    BY <1>1, <2>1 DEF SharedInv, KnownInfo, OnlyInfo, NeededInfo, MadeInfo
<1>5. CASE NewNameInfoFails(w)
  <2>1. /\ UNCHANGED <<nameInfo, info, busRules>> /\ pc[w] = "addingOwnerRule"
        /\ rules' = rules \ {OwnerRule(w)}
        /\ pc'[w] = "failed" /\ \A h \in Goroutines \ {w} : pc'[h] = pc[h]
    BY <1>0, <1>1, <1>5 DEF NewNameInfoFails, Goto
  <2>2. nameInfo = None /\ \A v \in Watches : pc'[v] \notin {"addingOwnerRule", "askingOwner"}
    BY <1>1, <2>1, MakingIsAlone DEF Holding
  <2> QED
    BY <2>1, <2>2 DEF SharedInv, KnownInfo, OnlyInfo, NeededInfo, MadeInfo
<1>6. CASE CheckCurrentOwner(w)
  <2>1. /\ UNCHANGED <<nameInfo, info, rules, busRules>> /\ pc[w] = "addingOwnerRule" /\ answer[w] = Ok
        /\ pc'[w] = "askingOwner" /\ \A h \in Goroutines \ {w} : pc'[h] = pc[h]
    BY <1>0, <1>1, <1>6 DEF CheckCurrentOwner, Goto
  <2>2. nameInfo = None
    BY <1>1, <2>1, MakingIsAlone DEF Holding
  <2>3. OwnerRule(w) \in busRules
    BY <1>1, <2>1, Constants DEF CallInv, OneAnswer, Fits
  <2> QED
    BY <1>1, <2>1, <2>2, <2>3 DEF SharedInv, KnownInfo, OnlyInfo, NeededInfo, MadeInfo
<1>7. CASE OwnerFound(w)
  <2>1. /\ UNCHANGED <<nameInfoMutex, rules, busRules>> /\ pc[w] = "askingOwner" /\ nameInfo' = w
        /\ pc'[w] = "toAttach" /\ \A h \in Goroutines \ {w} : pc'[h] = pc[h]
    BY <1>0, <1>1, <1>7 DEF OwnerFound, Goto
  <2>2. nameInfo = None /\ nameInfoMutex = w
    BY <1>1, <2>1, MakingIsAlone DEF Holding
  <2>3. \A i \in Watches : info[i].watches = {}
    BY <2>2, Constants DEF SharedInv, OnlyInfo
  <2>4. Found(answer[w]) \in Views
    BY <1>1, <1>7, <2>1, WhatIsFound DEF OwnerFound, CallInv, OneAnswer, Fits
  <2>5. \A i \in Watches : info'[i].watches = {}
    BY <1>0, <1>7, <2>3 DEF OwnerFound, InfoTypes
  <2>6. info'[w].currentOwner # Unknown
    BY <1>0, <1>7, <2>4, Constants DEF OwnerFound, InfoTypes
  <2>7. OwnerRule(w) \in rules \intersect busRules
    BY <2>1 DEF SharedInv, MadeInfo
  <2> QED
    BY <1>1, <2>1, <2>2, <2>5, <2>6, <2>7 DEF SharedInv, KnownInfo, OnlyInfo, NeededInfo, MadeInfo
<1> QED
  BY <1>2, <1>3, <1>4, <1>5, <1>6, <1>7 DEF MakeStep

\* What removeNameWatch does to it.
LEMMA RemoveShares ==
  ASSUME TypeOK, PlaceInv, HangInv, SharedInv, NEW g \in Goroutines, RemoveStep(g)
  PROVE  SharedInv'
<1>0. /\ pc \in [Goroutines -> WatchPcs \union CancelPcs] /\ nameInfo \in Watches \union {None}
      /\ info \in [Watches -> InfoTypes]
  BY DEF TypeOK, InfoTypes
<1>1. \A v \in Watches : v \in Goroutines
  BY Constants
<1> USE DEF infoVars, watchVars, callVars, busVars
<1>2. CASE RemoveNameWatch(g)
  <2>1. /\ UNCHANGED <<nameInfo, info, rules, busRules>> /\ nameInfoMutex = None
        /\ pc'[g] = "toDetach" /\ \A h \in Goroutines \ {g} : pc'[h] = pc[h]
    BY <1>0, <1>2 DEF RemoveNameWatch, Goto
  <2>2. nameInfo # None => info[nameInfo].watches # {}
    BY <1>1, <2>1, Constants DEF SharedInv, NeededInfo
  <2> QED
    BY <1>1, <2>1, <2>2 DEF SharedInv, KnownInfo, OnlyInfo, NeededInfo, MadeInfo
<1>3. CASE NotFound(g) \/ DetachOne(g) \/ DetachLast(g)
  <2>1. pc[g] = "toDetach" /\ pc'[g] \notin {"addingOwnerRule", "askingOwner"}
        /\ \A h \in Goroutines \ {g} : pc'[h] = pc[h]
    BY <1>0, <1>3 DEF NotFound, DetachOne, DetachLast, AfterRemove, Goto
  <2>2. nameInfoMutex = g /\ \A h \in Goroutines : pc'[h] \notin {"addingOwnerRule", "askingOwner"}
    BY <2>1, MakingIsAlone DEF Holding
  <2>3. nameInfo # None => info[nameInfo].watches # {}
    BY <2>1, <2>2 DEF SharedInv, NeededInfo
  <2>4. infoOf[WatchBy(g)] \in Watches
    BY <2>1, TakenFromInfo DEF HangInv
  <2>5. MadeInfo'
    BY <1>1, <2>2 DEF MadeInfo
  <2>6. CASE NotFound(g)
    BY <2>3, <2>5, <2>6 DEF NotFound, SharedInv, KnownInfo, OnlyInfo, NeededInfo
  <2>7. CASE DetachOne(g)
    <3>1. /\ UNCHANGED <<nameInfo, rules, busRules>>
          /\ \A i \in Watches : info'[i].currentOwner = info[i].currentOwner /\ info'[i].watches \subseteq info[i].watches
      BY <1>0, <2>4, <2>7 DEF DetachOne, InfoTypes
    <3>2. nameInfo # None => info'[nameInfo].watches # {}
      BY <1>0, <2>3, <2>4, <2>7 DEF DetachOne, InfoTypes
    <3> QED
      BY <1>0, <2>5, <3>1, <3>2 DEF SharedInv, KnownInfo, OnlyInfo, NeededInfo
  <2>8. CASE DetachLast(g)
    <3>1. nameInfo' = None /\ infoOf[WatchBy(g)] = nameInfo
      BY <2>4, <2>8 DEF DetachLast, SharedInv, OnlyInfo
    <3>2. \A i \in Watches : info'[i].watches = {}
      BY <1>0, <2>4, <2>8, <3>1 DEF DetachLast, SharedInv, OnlyInfo, InfoTypes
    <3> QED
      BY <2>5, <3>1, <3>2 DEF SharedInv, KnownInfo, OnlyInfo, NeededInfo
  <2> QED
    BY <1>3, <2>6, <2>7, <2>8
<1>4. CASE OwnerRuleRemoved(g) \/ OwnerRuleKept(g)
  <2>1. /\ pc[g] = "removingOwnerRule" /\ pc'[g] \notin {"addingOwnerRule", "askingOwner"}
        /\ \A h \in Goroutines \ {g} : pc'[h] = pc[h]
        /\ UNCHANGED <<nameInfo, rules, busRules>>
    BY <1>0, <1>4 DEF OwnerRuleRemoved, OwnerRuleKept, AfterRemove, Goto
  <2>2. nameInfo = None /\ infoOf[WatchBy(g)] \in Watches
    BY <2>1, MakingIsAlone, TakenFromInfo DEF Holding, HangInv
  <2>3. \A i \in Watches : info'[i].watches = info[i].watches
    <3>1. info' = [info EXCEPT ![infoOf[WatchBy(g)]].lock = None]
      BY <1>4 DEF OwnerRuleRemoved, OwnerRuleKept, Released
    <3> QED
      BY <1>0, <2>2, <3>1 DEF InfoTypes
  <2> QED
    BY <1>1, <2>1, <2>2, <2>3 DEF SharedInv, KnownInfo, OnlyInfo, NeededInfo, MadeInfo
<1> QED
  BY <1>2, <1>3, <1>4 DEF RemoveStep

LEMMA StepShared ==
  ASSUME TypeOK, PlaceInv, HangInv, LoopInv, CallInv, SharedInv, [Next]_vars
  PROVE  SharedInv'
<1>0. /\ pc \in [Goroutines -> WatchPcs \union CancelPcs] /\ nameInfo \in Watches \union {None}
      /\ info \in [Watches -> InfoTypes]
  BY DEF TypeOK, InfoTypes
<1>1. \A v \in Watches : v \in Goroutines
  BY Constants
<1>2. nameInfo # None /\ info[nameInfo].watches = {} => nameInfoMutex \in Goroutines /\ pc[nameInfoMutex] = "toAttach"
  BY <1>1 DEF SharedInv, NeededInfo
<1> USE DEF infoVars, watchVars, callVars, busVars
<1>3. CASE UNCHANGED vars
  BY <1>0, <1>3, StillShared DEF vars
<1>4. ASSUME NEW w \in Watches, MakeStep(w) PROVE SharedInv'
  BY <1>4, MakeShares
<1>5. ASSUME NEW w \in Watches, AttachStep(w) PROVE SharedInv'
  <2>1. /\ pc[w] = "toAttach" /\ pc'[w] \in {"watching", "toAddMatch", "cancelling"}
        /\ \A h \in Goroutines \ {w} : pc'[h] = pc[h]
        /\ UNCHANGED <<nameInfo, rules, busRules>>
    BY <1>0, <1>1, <1>5 DEF AttachStep, Attach, AttachCancels, Goto
  <2>2. nameInfo \in Watches
    BY <2>1 DEF PlaceInv
  <2>3. info'[nameInfo].watches = info[nameInfo].watches \union {w}
        /\ \A i \in Watches \ {nameInfo} : info'[i].watches = info[i].watches
    BY <1>0, <1>5, <2>2 DEF AttachStep, Attach, AttachCancels, InfoTypes
  <2>4. \A i \in Watches : info'[i].currentOwner = info[i].currentOwner
    BY <1>0, <1>5, <2>2 DEF AttachStep, Attach, AttachCancels, InfoTypes
  <2> QED
    BY <1>1, <2>1, <2>2, <2>3, <2>4 DEF SharedInv, KnownInfo, OnlyInfo, NeededInfo, MadeInfo
<1>6. ASSUME NEW w \in Watches, AddStep(w) PROVE SharedInv'
  <2>1. /\ pc[w] \in {"toAddMatch", "addingMatch"} /\ pc'[w] \in {"addingMatch", "watching", "remove"}
        /\ \A h \in Goroutines \ {w} : pc'[h] = pc[h]
        /\ UNCHANGED <<nameInfo, nameInfoMutex, info, busRules>>
    BY <1>0, <1>1, <1>6 DEF AddStep, AddMatch, AddMatchReturns, AddMatchFails, Goto
  <2>2. \A i \in Watches : OwnerRule(i) \in rules => OwnerRule(i) \in rules'
    BY <1>6 DEF AddStep, AddMatch, AddMatchReturns, AddMatchFails, OwnerRule, SignalRule
  <2>3. nameInfo # None /\ info[nameInfo].watches = {} => nameInfoMutex # w
    BY <1>2, <2>1
  <2> QED
    BY <1>0, <1>1, <1>2, <2>1, <2>2, <2>3, StillShared
<1>7. ASSUME NEW g \in Goroutines, RemoveStep(g) PROVE SharedInv'
  BY <1>7, RemoveShares
<1>8. ASSUME NEW k \in Cancels, TakeStep(k) PROVE SharedInv'
  <2>1. /\ \A h \in Watches : pc'[h] = pc[h]
        /\ UNCHANGED <<nameInfo, nameInfoMutex, info, busRules>>
    BY <1>0, <1>8, Constants DEF TakeStep, CallCancel, CancelAgain, Cancel, RemoveMatch, RemoveMatchReturns,
       RemoveMatchFails, CloseChannel, Goto
  <2>2. \A i \in Watches : OwnerRule(i) \in rules => OwnerRule(i) \in rules'
    BY <1>8 DEF TakeStep, CallCancel, CancelAgain, Cancel, RemoveMatch, RemoveMatchReturns, RemoveMatchFails,
       CloseChannel, OwnerRule, SignalRule
  <2>3. nameInfo # None /\ info[nameInfo].watches = {} => nameInfoMutex \in Watches
    BY DEF SharedInv, NeededInfo
  <2> QED
    BY <1>0, <2>1, <2>2, <2>3, StillShared
<1>9. CASE DispatchStep
  <2>1. UNCHANGED <<pc, nameInfo, nameInfoMutex, info, rules, busRules>>
    BY <1>9 DEF DispatchStep, ReadMessage, DispatchReply, DispatchSignal, DispatchOwnerChanged
  <2> QED
    BY <1>0, <2>1, StillShared
<1>10. CASE TellStep
  <2>1. UNCHANGED <<pc, nameInfo, rules, busRules>>
    BY <1>10 DEF TellStep, HandleOwnerChange, TellNameWatch, TellSignalWatch, CancelFromLoop, RemoveFromLoop,
       AllTold, CallbacksDone
  <2>2. nameInfoMutex' = nameInfoMutex \/ nameInfoMutex = None
    BY <1>10 DEF TellStep, HandleOwnerChange, TellNameWatch, TellSignalWatch, CancelFromLoop, RemoveFromLoop,
       AllTold, CallbacksDone
  <2>3. \A i \in Watches : /\ info'[i].watches = info[i].watches
                           /\ info'[i].currentOwner = info[i].currentOwner \/ info'[i].currentOwner \in Views
    <3>0. SUFFICES ASSUME NEW j \in Watches
                   PROVE  /\ info'[j].watches = info[j].watches
                          /\ info'[j].currentOwner = info[j].currentOwner \/ info'[j].currentOwner \in Views
      OBVIOUS
    <3>1. \/ info' = info
          \/ \E i \in Watches : HandleOwnerChange(i)
          \/ AllTold
      BY <1>10 DEF TellStep, TellNameWatch, TellSignalWatch, CancelFromLoop, RemoveFromLoop, CallbacksDone
    <3>2. CASE \E i \in Watches : HandleOwnerChange(i)
      <4>1. PICK i \in Watches : HandleOwnerChange(i)
        BY <3>2
      <4>2. loop.msg.owner \in OwnersOf
        BY <4>1 DEF HandleOwnerChange, LoopInv, Inbound
      <4> QED
        BY <1>0, <3>0, <4>1, <4>2 DEF HandleOwnerChange, InfoTypes
    <3>3. CASE AllTold
      BY <1>0, <3>0, <3>3 DEF AllTold, InfoTypes
    <3>4. CASE info' = info
      BY <3>4
    <3> QED
      BY <3>1, <3>2, <3>3, <3>4
  <2> QED
    BY <1>0, <1>2, <2>1, <2>2, <2>3, StillShared, Constants
<1>11. CASE OtherStep
  <2>1. CASE \E c \in calls : BusServes(c)
    BY <2>1, BusShares
  <2>2. CASE ~ \E c \in calls : BusServes(c)
    <3>1. UNCHANGED <<pc, nameInfo, nameInfoMutex, info, rules, busRules>>
      BY <1>11, <2>2 DEF OtherStep, Receives, OwnerChanges, Emit
    <3> QED
      BY <1>0, <3>1, StillShared
  <2> QED
    BY <2>1, <2>2
<1> QED
  BY <1>3, <1>4, <1>5, <1>6, <1>7, <1>8, <1>9, <1>10, <1>11, Steps

(***************************************************************************)
(* Type correctness of the steps.                                          *)
(***************************************************************************)
\* What an assignment to a part of a nameInfo does to its type.
LEMMA OwnerTyped ==
  ASSUME NEW f \in [Watches -> InfoTypes], NEW i \in Watches, NEW o \in Views \union {Unknown}
  PROVE  [f EXCEPT ![i].currentOwner = o] \in [Watches -> InfoTypes]
  BY DEF InfoTypes

LEMMA LockTyped ==
  ASSUME NEW f \in [Watches -> InfoTypes], NEW i \in Watches, NEW l \in Goroutines \union {Loop, None}
  PROVE  [f EXCEPT ![i].lock = l] \in [Watches -> InfoTypes]
  BY DEF InfoTypes

LEMMA WatchesTyped ==
  ASSUME NEW f \in [Watches -> InfoTypes], NEW i \in Watches, NEW W \in SUBSET Watches
  PROVE  [f EXCEPT ![i].watches = W] \in [Watches -> InfoTypes]
  BY DEF InfoTypes

\* A nameInfo is locked and changed at once.
LEMMA LockedWatches ==
  ASSUME NEW f \in [Watches -> InfoTypes], NEW i \in Watches, NEW l \in Goroutines \union {Loop, None},
         NEW W \in SUBSET Watches
  PROVE  [f EXCEPT ![i].lock = l, ![i].watches = W] \in [Watches -> InfoTypes]
<1> DEFINE h == [f EXCEPT ![i].lock = l]
<1>1. h \in [Watches -> InfoTypes]
  BY LockTyped
<1> HIDE DEF h
<1>2. [h EXCEPT ![i].watches = W] \in [Watches -> InfoTypes]
  BY <1>1, WatchesTyped
<1> QED
  BY <1>2 DEF h

LEMMA LockedOwner ==
  ASSUME NEW f \in [Watches -> InfoTypes], NEW i \in Watches, NEW l \in Goroutines \union {Loop, None},
         NEW o \in Views \union {Unknown}
  PROVE  [f EXCEPT ![i].lock = l, ![i].currentOwner = o] \in [Watches -> InfoTypes]
<1> DEFINE h == [f EXCEPT ![i].lock = l]
<1>1. h \in [Watches -> InfoTypes]
  BY LockTyped
<1> HIDE DEF h
<1>2. [h EXCEPT ![i].currentOwner = o] \in [Watches -> InfoTypes]
  BY <1>1, OwnerTyped
<1> QED
  BY <1>2 DEF h

\* The steps of WatchName and WatchSignal.
LEMMA EnsureTyped ==
  ASSUME TypeOK, PlaceInv, CallInv, NEW w \in Watches, MakeStep(w)
  PROVE  TypeOK'
<1>0. w \in Goroutines /\ OwnerRule(w) \in AllRules
  BY Constants DEF AllRules
<1> USE <1>0 DEF WatchPcs, infoVars, watchVars, callVars, busVars
<1>1. CASE WatchName(w)
  <2>1. lock' \in [Watches -> Goroutines \union {Loop, None}]
    BY <1>1 DEF WatchName, TypeOK
  <2> QED
    BY <1>1, <2>1, GotoTyped DEF WatchName, TypeOK
<1>7. CASE FindInfo(w)
  BY <1>7, GotoTyped DEF FindInfo, TypeOK
<1>2. CASE NewNameInfo(w)
  <2>1. calls' \in SUBSET Call
    BY <1>2, AskTyped DEF NewNameInfo, Ask
  <2> QED
    BY <1>2, <2>1, GotoTyped DEF NewNameInfo, Ask, TypeOK
<1>3. CASE NewNameInfoFails(w)
  BY <1>3, GotoTyped DEF NewNameInfoFails, Told, TypeOK
<1>4. CASE CheckCurrentOwner(w)
  <2>1. calls' \in SUBSET Call
    BY <1>4, AskTyped DEF CheckCurrentOwner
  <2> QED
    BY <1>4, <2>1, GotoTyped DEF CheckCurrentOwner, TypeOK
<1>5. CASE OwnerFound(w)
  <2>1. Found(answer[w]) \in Views
    BY <1>5, WhatIsFound DEF OwnerFound, Goto, CallInv, OneAnswer, Fits
  <2>2. info' \in [Watches -> InfoTypes]
    <3>1. info \in [Watches -> InfoTypes]
      BY DEF TypeOK, InfoTypes
    <3>2. PICK o \in Views \union {Unknown} : info' = [info EXCEPT ![w].currentOwner = o]
      <4>1. CASE info[w].currentOwner = Unknown
        BY <1>5, <2>1, <4>1 DEF OwnerFound
      <4>2. CASE info[w].currentOwner # Unknown
        BY <1>5, <3>1, <4>2 DEF OwnerFound, InfoTypes
      <4> QED
        BY <4>1, <4>2
    <3> QED
      BY <3>1, <3>2, OwnerTyped
  <2> QED
    BY <1>5, <2>2, GotoTyped DEF OwnerFound, TypeOK, InfoTypes
<1> QED
  BY <1>1, <1>2, <1>3, <1>4, <1>5, <1>7 DEF MakeStep

LEMMA AttachTyped ==
  ASSUME TypeOK, PlaceInv, LoopInv, NEW w \in Watches, AttachStep(w)
  PROVE  TypeOK'
<1>0. w \in Goroutines /\ pc[w] = "toAttach"
  BY Constants DEF AttachStep, Attach, AttachCancels, Goto
<1>1. nameInfo \in Watches /\ info[nameInfo].currentOwner \in Views \union {Unknown}
  BY <1>0 DEF PlaceInv, TypeOK
<1> USE <1>0, <1>1 DEF WatchPcs, infoVars, watchVars, callVars, busVars
<1>2. info' \in [Watches -> InfoTypes]
  <2>1. info \in [Watches -> InfoTypes]
    BY DEF TypeOK, InfoTypes
  <2>2. info[nameInfo].watches \union {w} \in SUBSET Watches
    BY <2>1 DEF InfoTypes
  <2>3. \/ info' = [info EXCEPT ![nameInfo].watches = info[nameInfo].watches \union {w}]
        \/ info' = [info EXCEPT ![nameInfo].lock = w, ![nameInfo].watches = info[nameInfo].watches \union {w}]
    BY DEF AttachStep, Attach, AttachCancels
  <2>4. [info EXCEPT ![nameInfo].watches = info[nameInfo].watches \union {w}] \in [Watches -> InfoTypes]
    BY <2>1, <2>2, WatchesTyped
  <2>5. [info EXCEPT ![nameInfo].lock = w, ![nameInfo].watches = info[nameInfo].watches \union {w}]
          \in [Watches -> InfoTypes]
    BY <2>1, <2>2, LockedWatches
  <2> QED
    BY <2>3, <2>4, <2>5
<1>3. infoOf' \in [Watches -> Watches \union {None}]
  BY DEF AttachStep, Attach, AttachCancels, TypeOK
<1>4. CASE Attach(w)
  <2>1. C' \in [NameWatchers -> Seq(Views)] /\ \A v \in NameWatchers : Len(C'[v]) <= 1
    <3>1. CASE C' = C
      BY <3>1 DEF TypeOK
    <3>2. CASE w \in NameWatchers /\ C' = [C EXCEPT ![w] = Append(@, info[nameInfo].currentOwner)]
               /\ info[nameInfo].currentOwner \in Views
      <4>1. C[w] = <<>> /\ Append(C[w], info[nameInfo].currentOwner) = <<info[nameInfo].currentOwner>>
        <5>1. C[w] = <<>>
          BY <3>2 DEF LoopInv, NotYet
        <5> QED
          BY <5>1
      <4>2. <<info[nameInfo].currentOwner>> \in Seq(Views) /\ Len(<<info[nameInfo].currentOwner>>) = 1
        BY <3>2
      <4> QED
        BY <3>2, <4>1, <4>2 DEF TypeOK
    <3> QED
      BY <1>4, <3>1, <3>2 DEF Attach, TypeOK
  <2>2. senderOwner' \in [SignalWatchers -> Views \union {Unknown}]
    <3>1. senderOwner \in [SignalWatchers -> Views \union {Unknown}]
      BY DEF TypeOK
    <3>2. senderOwner' \in {senderOwner, [senderOwner EXCEPT ![w] = info[nameInfo].currentOwner],
                            [senderOwner EXCEPT ![w] = senderOwner[w]]}
      BY <1>4 DEF Attach
    <3> QED
      BY <3>1, <3>2
  <2> QED
    BY <1>2, <1>3, <1>4, <2>1, <2>2, GotoTyped DEF Attach, TypeOK, InfoTypes
<1>5. CASE AttachCancels(w)
  BY <1>2, <1>3, <1>5, GotoTyped DEF AttachCancels, TypeOK, InfoTypes
<1> QED
  BY <1>4, <1>5 DEF AttachStep

LEMMA AddTyped ==
  ASSUME TypeOK, PlaceInv, NEW w \in Watches, AddStep(w)
  PROVE  TypeOK'
<1>0. w \in Goroutines
  BY Constants
<1> USE <1>0 DEF WatchPcs, infoVars, watchVars, callVars, busVars
<1>1. CASE AddMatch(w)
  <2>1. SignalRule(w) \in AllRules
    BY <1>1 DEF AddMatch, Goto, PlaceInv, AllRules
  <2>2. calls' \in SUBSET Call
    BY <1>1, <2>1, AskTyped DEF AddMatch, Ask
  <2> QED
    BY <1>1, <2>1, <2>2, GotoTyped DEF AddMatch, Ask, TypeOK
<1>2. CASE AddMatchReturns(w)
  BY <1>2, GotoTyped DEF AddMatchReturns, Told, TypeOK
<1>3. CASE AddMatchFails(w)
  BY <1>3, GotoTyped DEF AddMatchFails, Told, TypeOK
<1> QED
  BY <1>1, <1>2, <1>3 DEF AddStep

LEMMA RemoveTyped ==
  ASSUME TypeOK, PlaceInv, HangInv, NEW g \in Goroutines, RemoveStep(g)
  PROVE  TypeOK'
<1>0. g \in Watches \/ g \in Cancels
  BY DEF Goroutines
<1>1. pc[g] \in {"remove", "toDetach", "removingOwnerRule"}
  BY DEF RemoveStep, RemoveNameWatch, NotFound, DetachOne, DetachLast, OwnerRuleRemoved, OwnerRuleKept, Goto
<1>2. WatchBy(g) \in Watches /\ infoOf[WatchBy(g)] \in Watches
  BY <1>1, TakenFromInfo DEF HangInv
<1> USE DEF WatchPcs, CancelPcs, infoVars, watchVars, callVars, busVars
<1>3. /\ pc' \in [Goroutines -> WatchPcs \union CancelPcs]
      /\ \A w \in Watches : pc'[w] \in WatchPcs
      /\ \A k \in Cancels : pc'[k] \in CancelPcs
  BY <1>0, GotoTyped DEF RemoveStep, RemoveNameWatch, NotFound, DetachOne, DetachLast, OwnerRuleRemoved,
     OwnerRuleKept, AfterRemove
<1>4. info' \in [Watches -> InfoTypes]
  <2>1. info \in [Watches -> InfoTypes]
    BY DEF TypeOK, InfoTypes
  <2>2. info[infoOf[WatchBy(g)]].watches \ {WatchBy(g)} \in SUBSET Watches /\ {} \in SUBSET Watches
    BY <1>2, <2>1 DEF InfoTypes
  <2>3. CASE DetachOne(g) \/ DetachLast(g)
    <3>1. \/ info' = [info EXCEPT ![infoOf[WatchBy(g)]].watches = info[infoOf[WatchBy(g)]].watches \ {WatchBy(g)}]
          \/ info' = [info EXCEPT ![infoOf[WatchBy(g)]].lock = g, ![infoOf[WatchBy(g)]].watches = {}]
      BY <2>3 DEF DetachOne, DetachLast
    <3>2. [info EXCEPT ![infoOf[WatchBy(g)]].watches = info[infoOf[WatchBy(g)]].watches \ {WatchBy(g)}]
            \in [Watches -> InfoTypes]
      BY <1>2, <2>1, <2>2, WatchesTyped
    <3>3. [info EXCEPT ![infoOf[WatchBy(g)]].lock = g, ![infoOf[WatchBy(g)]].watches = {}] \in [Watches -> InfoTypes]
      BY <1>2, <2>1, <2>2, LockedWatches
    <3> QED
      BY <3>1, <3>2, <3>3
  <2>4. CASE OwnerRuleRemoved(g) \/ OwnerRuleKept(g)
    <3>1. info' = [info EXCEPT ![infoOf[WatchBy(g)]].lock = None]
      BY <2>4 DEF OwnerRuleRemoved, OwnerRuleKept, Released
    <3> QED
      BY <1>2, <2>1, <3>1, LockTyped
  <2> QED
    BY <2>1, <2>3, <2>4 DEF RemoveStep, RemoveNameWatch, NotFound
<1>5. lock' \in [Watches -> Goroutines \union {Loop, None}]
  BY DEF RemoveStep, RemoveNameWatch, NotFound, DetachOne, DetachLast, OwnerRuleRemoved, OwnerRuleKept,
     UnlockIf, TypeOK
<1>6. nameInfoMutex' \in Goroutines \union {Loop, None} /\ nameInfo' \in Watches \union {None}
  BY DEF RemoveStep, RemoveNameWatch, NotFound, DetachOne, DetachLast, OwnerRuleRemoved, OwnerRuleKept,
     Released, TypeOK
<1>7. rules' \in SUBSET AllRules /\ answer' \in [Goroutines -> Answers \union {None}]
  BY DEF RemoveStep, RemoveNameWatch, NotFound, DetachOne, DetachLast, OwnerRuleRemoved, OwnerRuleKept,
     Ask, Told, TypeOK
<1>8. calls' \in SUBSET Call
  <2>1. CASE DetachLast(g)
    <3>1. OwnerRule(infoOf[WatchBy(g)]) \in AllRules
      BY <1>2 DEF AllRules
    <3> QED
      BY <2>1, <3>1, AskTyped DEF DetachLast, Ask
  <2>2. CASE ~ DetachLast(g)
    BY <2>2 DEF RemoveStep, RemoveNameWatch, NotFound, DetachOne, OwnerRuleRemoved, OwnerRuleKept, TypeOK
  <2> QED
    BY <2>1, <2>2
<1>9. UNCHANGED <<infoOf, closed, senderOwner, C, told, loop, fromBus, busRules, name>>
  BY DEF RemoveStep, RemoveNameWatch, NotFound, DetachOne, DetachLast, OwnerRuleRemoved, OwnerRuleKept
<1> QED
  BY <1>3, <1>4, <1>5, <1>6, <1>7, <1>8, <1>9 DEF TypeOK, InfoTypes

LEMMA TakeTyped ==
  ASSUME TypeOK, PlaceInv, NEW k \in Cancels, TakeStep(k)
  PROVE  TypeOK'
<1>0. k \in Goroutines /\ WatchOf[k] \in Watches /\ WatchBy(k) = WatchOf[k]
  BY Constants
<1> USE <1>0 DEF CancelPcs, infoVars, watchVars, callVars, busVars
<1>1. CASE CallCancel(k) \/ CancelAgain(k)
  BY <1>1, GotoTyped DEF CallCancel, CancelAgain, TypeOK
<1>2. CASE Cancel(k)
  BY <1>2, GotoTyped DEF Cancel, TypeOK
<1>3. CASE RemoveMatch(k)
  <2>1. SignalRule(WatchOf[k]) \in AllRules
    BY <1>3 DEF RemoveMatch, Goto, PlaceInv, AllRules
  <2>2. calls' \in SUBSET Call
    BY <1>3, <2>1, AskTyped DEF RemoveMatch, Ask
  <2> QED
    BY <1>3, <2>2, GotoTyped DEF RemoveMatch, Ask, TypeOK
<1>4. CASE RemoveMatchReturns(k)
  BY <1>4, GotoTyped DEF RemoveMatchReturns, Told, TypeOK
<1>5. CASE RemoveMatchFails(k)
  BY <1>5, GotoTyped DEF RemoveMatchFails, Told, UnlockIf, TypeOK
<1>6. CASE CloseChannel(k)
  BY <1>6, GotoTyped DEF CloseChannel, UnlockIf, TypeOK
<1> QED
  BY <1>1, <1>2, <1>3, <1>4, <1>5, <1>6 DEF TakeStep

LoopTypes ==
  [at : {"read", "dispatch", "callbacks", "telling", "remove", "toDetach"}, msg : Inbound \union {None},
   infos : SUBSET Watches, info : Watches \union {None}, watches : SUBSET Watches]

LEMMA DispatchTyped ==
  ASSUME TypeOK, LoopInv, DispatchStep
  PROVE  TypeOK'
<1>0. loop \in LoopTypes /\ fromBus \in Seq(Inbound)
  BY DEF TypeOK, LoopTypes
<1>1. /\ UNCHANGED <<pc, nameInfoMutex, nameInfo, info, infoOf, lock, closed, senderOwner, C, told, rules, calls,
                     busRules, name>>
  BY DEF DispatchStep, ReadMessage, DispatchReply, DispatchSignal, DispatchOwnerChanged, infoVars, watchVars,
     callVars, busVars
<1>2. Reading \in LoopTypes
  BY DEF Reading, LoopTypes
<1>3. CASE ReadMessage
  <2>1. Head(fromBus) \in Inbound /\ fromBus' \in Seq(Inbound) /\ answer' = answer
    BY <1>0, <1>3, QueueTypes DEF ReadMessage, callVars
  <2>2. loop' \in LoopTypes
    BY <1>0, <1>3, <2>1 DEF ReadMessage, LoopTypes
  <2> QED
    BY <1>1, <2>1, <2>2 DEF TypeOK, LoopTypes
<1>4. CASE DispatchReply
  <2>1. loop.msg.to \in Goroutines /\ loop.msg.says \in Answers
    BY <1>4 DEF DispatchReply, LoopInv, Inbound
  <2>2. answer' \in [Goroutines -> Answers \union {None}] /\ loop' = Reading /\ fromBus' = fromBus
    BY <1>4, <2>1 DEF DispatchReply, TypeOK, busVars
  <2> QED
    BY <1>1, <1>2, <2>2 DEF TypeOK, LoopTypes
<1>5. CASE DispatchSignal
  <2>1. loop' = Reading /\ fromBus' = fromBus /\ answer' = answer
    BY <1>5 DEF DispatchSignal, callVars, busVars
  <2> QED
    BY <1>1, <1>2, <2>1 DEF TypeOK, LoopTypes
<1>6. CASE DispatchOwnerChanged
  <2>1. {i \in Watches : OwnerRule(i) \in rules} \in SUBSET Watches
    OBVIOUS
  <2>2. loop' \in LoopTypes /\ fromBus' = fromBus /\ answer' = answer
    BY <1>0, <1>6, <2>1 DEF DispatchOwnerChanged, LoopTypes, callVars, busVars
  <2> QED
    BY <1>1, <2>2 DEF TypeOK, LoopTypes
<1> QED
  BY <1>3, <1>4, <1>5, <1>6 DEF DispatchStep

LEMMA TellTyped ==
  ASSUME TypeOK, LoopInv, TellStep
  PROVE  TypeOK'
<1>0. /\ loop \in LoopTypes /\ info \in [Watches -> InfoTypes] /\ lock \in [Watches -> Goroutines \union {Loop, None}]
      /\ C \in [NameWatchers -> Seq(Views)] /\ \A w \in NameWatchers : Len(C[w]) <= 1
      /\ senderOwner \in [SignalWatchers -> Views \union {Unknown}]
  BY DEF TypeOK, LoopTypes, InfoTypes
<1>1. loop.at \in {"callbacks", "telling"} => loop.msg.owner \in Views
  BY WhoseOwner DEF LoopInv, Inbound
<1>2. UNCHANGED <<pc, nameInfo, infoOf, closed, told, rules, calls, answer, fromBus, busRules, name>>
  BY DEF TellStep, HandleOwnerChange, TellNameWatch, TellSignalWatch, CancelFromLoop, RemoveFromLoop, AllTold,
     CallbacksDone, infoVars, watchVars, callVars, busVars
<1>3. ASSUME NEW i \in Watches, HandleOwnerChange(i) PROVE TypeOK'
  <2>1. info' \in [Watches -> InfoTypes]
    <3>1. info' = [info EXCEPT ![i].lock = Loop, ![i].currentOwner = loop.msg.owner] /\ loop.msg.owner \in Views
      BY <1>1, <1>3 DEF HandleOwnerChange
    <3>2. [info EXCEPT ![i].lock = Loop, ![i].currentOwner = loop.msg.owner] \in [Watches -> InfoTypes]
      BY <1>0, <3>1, LockedOwner
    <3> QED
      BY <3>1, <3>2
  <2>2. loop' \in LoopTypes
    <3>1. info[i].watches \in SUBSET Watches
      BY <1>0 DEF InfoTypes
    <3> QED
      BY <1>0, <1>3, <3>1 DEF HandleOwnerChange, LoopTypes
  <2>3. UNCHANGED <<nameInfoMutex, lock, senderOwner, C>>
    BY <1>3 DEF HandleOwnerChange, watchVars
  <2> QED
    BY <1>2, <2>1, <2>2, <2>3 DEF TypeOK, LoopTypes, InfoTypes
<1>4. ASSUME NEW w \in Watches, TellNameWatch(w) PROVE TypeOK'
  <2>1. loop' \in LoopTypes /\ UNCHANGED <<nameInfoMutex, info, lock, senderOwner>>
    BY <1>0, <1>4 DEF TellNameWatch, LoopTypes, infoVars
  <2>2. C' \in [NameWatchers -> Seq(Views)] /\ \A v \in NameWatchers : Len(C'[v]) <= 1
    <3>1. C[w] = <<>> /\ C' = [C EXCEPT ![w] = Append(C[w], loop.msg.owner)] /\ loop.msg.owner \in Views
      BY <1>1, <1>4 DEF TellNameWatch
    <3>2. Append(C[w], loop.msg.owner) \in Seq(Views) /\ Len(Append(C[w], loop.msg.owner)) = 1
      BY <3>1
    <3> DEFINE queue == Append(C[w], loop.msg.owner)
    <3> HIDE DEF queue
    <3>3. C' = [C EXCEPT ![w] = queue]
      BY <3>1 DEF queue
    <3>4. queue \in Seq(Views) /\ Len(queue) = 1
      BY <3>2 DEF queue
    <3>5. C' \in [NameWatchers -> Seq(Views)]
      BY <1>0, <3>3, <3>4
    <3>6. ASSUME NEW v \in NameWatchers PROVE Len(C'[v]) <= 1
      <4>1. CASE v = w
        <5>1. C'[v] = queue
          BY <1>0, <3>3, <4>1
        <5> QED
          BY <5>1, <3>4
      <4>2. CASE v # w
        <5>1. C'[v] = C[v]
          BY <1>0, <3>3, <4>2
        <5> QED
          BY <5>1, <1>0
      <4> QED
        BY <4>1, <4>2
    <3> QED
      BY <3>5, <3>6
  <2> QED
    BY <1>2, <2>1, <2>2 DEF TypeOK, LoopTypes
<1>5. ASSUME NEW w \in Watches, TellSignalWatch(w) PROVE TypeOK'
  <2>1. loop' \in LoopTypes /\ UNCHANGED <<nameInfoMutex, info, lock, C>>
    BY <1>0, <1>5 DEF TellSignalWatch, LoopTypes, infoVars
  <2>2. senderOwner' \in [SignalWatchers -> Views \union {Unknown}]
    <3>1. senderOwner' \in {[senderOwner EXCEPT ![w] = senderOwner[w]], [senderOwner EXCEPT ![w] = loop.msg.owner]}
          /\ loop.msg.owner \in Views
      BY <1>1, <1>5 DEF TellSignalWatch
    <3> QED
      BY <1>0, <3>1
  <2> QED
    BY <1>2, <2>1, <2>2 DEF TypeOK, LoopTypes
<1>6. ASSUME NEW w \in Watches, CancelFromLoop(w) PROVE TypeOK'
  <2>1. loop' \in LoopTypes /\ lock' \in [Watches -> Goroutines \union {Loop, None}]
        /\ UNCHANGED <<nameInfoMutex, info, senderOwner, C>>
    BY <1>0, <1>6 DEF CancelFromLoop, LoopTypes, infoVars
  <2> QED
    BY <1>2, <2>1 DEF TypeOK, LoopTypes
<1>7. CASE RemoveFromLoop
  <2>1. loop' \in LoopTypes /\ nameInfoMutex' = Loop /\ UNCHANGED <<info, lock, senderOwner, C>>
    BY <1>0, <1>7 DEF RemoveFromLoop, LoopTypes, watchVars
  <2> QED
    BY <1>2, <2>1 DEF TypeOK, LoopTypes
<1>8. CASE AllTold
  <2>1. loop' \in LoopTypes /\ UNCHANGED <<nameInfoMutex, lock, senderOwner, C>>
    BY <1>0, <1>8 DEF AllTold, LoopTypes, watchVars
  <2>2. info' \in [Watches -> InfoTypes]
    BY <1>0, <1>8, LockTyped DEF AllTold, LoopInv
  <2> QED
    BY <1>2, <2>1, <2>2 DEF TypeOK, LoopTypes, InfoTypes
<1>9. CASE CallbacksDone
  <2>1. loop' = Reading /\ Reading \in LoopTypes /\ UNCHANGED <<nameInfoMutex, info, lock, senderOwner, C>>
    BY <1>9 DEF CallbacksDone, Reading, LoopTypes, infoVars, watchVars
  <2> QED
    BY <1>2, <2>1 DEF TypeOK, LoopTypes
<1> QED
  BY <1>3, <1>4, <1>5, <1>6, <1>7, <1>8, <1>9 DEF TellStep

LEMMA OtherTyped ==
  ASSUME TypeOK, OtherStep
  PROVE  TypeOK'
<1>0. /\ fromBus \in Seq(Inbound) /\ name \in [unique : BOOLEAN, owner : OwnersOf] /\ name.owner \in OwnersOf
      /\ C \in [NameWatchers -> Seq(Views)] /\ told \in [NameWatchers -> Seq(Views)]
      /\ \A w \in NameWatchers : Len(C[w]) <= 1
  BY DEF TypeOK
<1> USE DEF infoVars, watchVars, callVars, busVars
<1>1. ASSUME NEW w \in NameWatchers, Receives(w) PROVE TypeOK'
  <2>1. /\ Head(C[w]) \in Views /\ Tail(C[w]) \in Seq(Views) /\ Len(Tail(C[w])) <= 1
        /\ Append(told[w], Head(C[w])) \in Seq(Views)
    <3>1. C[w] \in Seq(Views) /\ C[w] # <<>> /\ told[w] \in Seq(Views) /\ Len(C[w]) <= 1 /\ Len(C[w]) \in Nat
      BY <1>0, <1>1 DEF Receives
    <3>2. Head(C[w]) \in Views /\ Tail(C[w]) \in Seq(Views) /\ Len(Tail(C[w])) = Len(C[w]) - 1
      BY <3>1, QueueTypes
    <3>3. Append(told[w], Head(C[w])) \in Seq(Views)
      BY <3>1, <3>2, QueueTypes
    <3> QED
      BY <3>1, <3>2, <3>3
  <2>2. /\ C' \in [NameWatchers -> Seq(Views)] /\ \A v \in NameWatchers : Len(C'[v]) <= 1
        /\ told' \in [NameWatchers -> Seq(Views)]
    BY <1>0, <1>1, <2>1 DEF Receives
  <2> QED
    BY <1>1, <2>2 DEF Receives, TypeOK
<1>2. ASSUME NEW c \in calls, BusServes(c) PROVE TypeOK'
  <2>1. c.by \in Goroutines /\ c.rule \in AllRules
    BY DEF TypeOK, Call
  <2>2. PICK says : ServedWith(c, says)
    BY <1>2, Served
  <2>3. says \in Answers /\ busRules' \in SUBSET AllRules
    BY <1>0, <2>1, <2>2, WhatIsFound DEF ServedWith, Answers, Call, TypeOK
  <2>4. fromBus' \in Seq(Inbound)
    <3>1. [type |-> "reply", to |-> c.by, says |-> says] \in Inbound
      BY <2>1, <2>3 DEF Inbound
    <3> QED
      BY <1>0, <2>2, <3>1, QueueTypes DEF ServedWith, Replies
  <2> QED
    BY <1>2, <2>3, <2>4 DEF BusServes, TypeOK
<1>3. CASE OwnerChanges
  <2>1. name' \in [unique : BOOLEAN, owner : OwnersOf] /\ name'.owner \in OwnersOf
    <3>1. name.owner + 1 \in OwnersOf /\ name' = [name EXCEPT !.owner = name.owner + 1]
      BY <1>0, <1>3, NameAssumption DEF OwnerChanges, OwnersOf
    <3> QED
      BY <1>0, <3>1
  <2>2. [type |-> "NameOwnerChanged", owner |-> name'.owner] \in Inbound
    BY <2>1 DEF Inbound
  <2>3. fromBus' \in Seq(Inbound)
    BY <1>0, <1>3, <2>2, QueueTypes DEF OwnerChanges
  <2> QED
    BY <1>3, <2>1, <2>3 DEF OwnerChanges, TypeOK
<1>4. CASE Emit
  <2>1. [type |-> "signal", owner |-> name.owner] \in Inbound
    BY <1>0 DEF Inbound
  <2>2. fromBus' \in Seq(Inbound)
    BY <1>0, <1>4, <2>1, QueueTypes DEF Emit
  <2> QED
    BY <1>4, <2>2 DEF Emit, TypeOK
<1> QED
  BY <1>1, <1>2, <1>3, <1>4 DEF OtherStep

(***************************************************************************)
(* The theorems.                                                           *)
(***************************************************************************)
IInv == TypeOK /\ PlaceInv /\ HangInv /\ LoopInv /\ CallInv /\ SharedInv

LEMMA StepInv == ASSUME IInv, [Next]_vars PROVE IInv'
<1>1. TypeOK'
  <2>1. CASE UNCHANGED vars
    BY <2>1 DEF IInv, TypeOK, vars, infoVars, watchVars, callVars, busVars
  <2> QED
    BY <2>1, Steps, EnsureTyped, AttachTyped, AddTyped, RemoveTyped, TakeTyped, DispatchTyped, TellTyped, OtherTyped
       DEF IInv
<1>2. PlaceInv' /\ HangInv' /\ LoopInv' /\ CallInv' /\ SharedInv'
  BY StepPlaced, StepHangs, StepTells, StepCalls, StepShared DEF IInv
<1> QED
  BY <1>1, <1>2 DEF IInv

\* Every variable of the watchers, the loop and the bus keeps its type.
THEOREM TypeCorrect == Spec => []TypeOK
<1>1. Init => IInv
  BY InitTyped, InitHolds DEF IInv
<1>2. IInv /\ [Next]_vars => IInv'
  BY StepInv
<1>3. IInv => TypeOK
  BY DEF IInv
<1> QED
  BY <1>1, <1>2, <1>3, PTL DEF Spec

\* handleOwnerChange sends to no watch whose channel Cancel has closed: info.lock is
\* held while the watches are told, and removeNameWatch takes one off under it.
THEOREM NoSendOnClosedHolds == Spec => []NoSendOnClosed
<1>1. Init => IInv
  BY InitTyped, InitHolds DEF IInv
<1>2. IInv /\ [Next]_vars => IInv'
  BY StepInv
<1>3. IInv => NoSendOnClosed
  BY DEF IInv, LoopInv, HangInv, HangsOnOne, NoSendOnClosed
<1> QED
  BY <1>1, <1>2, <1>3, PTL DEF Spec

\* The entry of Connection.nameInfo is the one every watch in force hangs on, knows
\* the owner and hears of its changes, and goes with its last watch.
THEOREM InfoSharedHolds == Spec => []InfoShared
<1>1. Init => IInv
  BY InitTyped, InitHolds DEF IInv
<1>2. IInv /\ [Next]_vars => IInv'
  BY StepInv
<1>3. IInv => InfoShared
  <2>1. ASSUME SharedInv, nameInfoMutex = None, nameInfo # None PROVE info[nameInfo].watches # {}
    BY <2>1, Constants DEF SharedInv, NeededInfo
  <2> QED
    BY <2>1 DEF IInv, SharedInv, KnownInfo, OnlyInfo, InfoShared
<1> QED
  BY <1>1, <1>2, <1>3, PTL DEF Spec

(***************************************************************************)
(* What the bus sends is in the order of the owners.                       *)
(***************************************************************************)
\* A message that carries an owner, and what can come behind the owner o.
IsChange(m) == m.type = "NameOwnerChanged"
Carries(m) == m.type # "reply"
After(o, m) == IF IsChange(m) THEN o < m.owner ELSE o <= m.owner

Active(i) == nameInfo = i \/ pc[i] \in {"addingOwnerRule", "askingOwner"}
Removing(g) == pc[g] = "removingOwnerRule"
Handling(i) == loop.at \in {"callbacks", "telling"} /\ i \in loop.infos
HeldFor(i) == Handling(i) \/ (loop.at = "dispatch" /\ IsChange(loop.msg))
ChangeTo(o, q, p) == p \in 1..Len(q) /\ IsChange(q[p]) /\ q[p].owner = o

\* A rule that no watch has asked for yet.
FreshInv ==
  \A w \in Watches : pc[w] \in {"new", "ensure"} =>
     /\ OwnerRule(w) \notin rules /\ w \notin loop.infos /\ w # nameInfo
     /\ info[w].currentOwner = Unknown

\* The loop tells the watches of one nameInfo after the other.
TellsInv ==
  /\ loop.at \in {"callbacks", "telling", "remove", "toDetach"} => IsChange(loop.msg) /\ loop.msg \in Inbound
  /\ loop.at = "telling" => loop.info \notin loop.infos /\ info[loop.info].currentOwner = loop.msg.owner

\* Owners never go back in what the bus sends, and a change brings a new one.
OrderedInv ==
  /\ \A p, q \in 1..Len(fromBus) : p < q /\ Carries(fromBus[p]) /\ Carries(fromBus[q]) =>
        After(fromBus[p].owner, fromBus[q])
  /\ \A p \in 1..Len(fromBus) : Carries(fromBus[p]) => fromBus[p].owner <= name.owner
  /\ loop.at \in {"dispatch", "callbacks", "telling"} /\ Carries(loop.msg) =>
        /\ loop.msg.owner <= name.owner
        /\ \A p \in 1..Len(fromBus) : Carries(fromBus[p]) => After(loop.msg.owner, fromBus[p])

\* While it keeps a rule for it, the bus sends every change.
NextSent(o, n) == o = name.owner \/ \E p \in 1..Len(fromBus) : ChangeTo(o + 1, fromBus, p) /\ p > n
GaplessInv ==
  Asked("NameOwnerChanged") =>
     /\ \A p \in 1..Len(fromBus) : IsChange(fromBus[p]) => NextSent(fromBus[p].owner, p)
     /\ loop.at = "dispatch" /\ IsChange(loop.msg) => NextSent(loop.msg.owner, 0)
     /\ \A i \in Watches : Active(i) /\ Handling(i) => NextSent(loop.msg.owner, 0)

\* The last rule goes with a reply, and that comes behind every change.
QuietInv ==
  ~ Asked("NameOwnerChanged") =>
     /\ \A p \in 1..Len(fromBus) : IsChange(fromBus[p]) =>
           \E q \in 1..Len(fromBus) : \E g \in Goroutines : IsReply(fromBus, q, g) /\ p < q /\ Removing(g)
     /\ loop.at = "dispatch" /\ IsChange(loop.msg) => \E g \in Goroutines : Sent(g) /\ Removing(g)
     /\ \A i \in Watches : Active(i) => ~ Handling(i)

\* What is under way to a nameInfo follows the owner it knows, without a gap.
UpToDate(i, o) ==
  /\ \A p \in 1..Len(fromBus) : Carries(fromBus[p]) => After(o, fromBus[p])
  /\ loop.at = "dispatch" /\ Carries(loop.msg) => After(o, loop.msg)
  /\ Handling(i) => After(o, loop.msg)
  /\ \/ NextSent(o, 0)
     \/ HeldFor(i) /\ loop.msg.owner = o + 1
KnownInv ==
  \A i \in Watches : Active(i) /\ info[i].currentOwner # Unknown =>
     Asked("NameOwnerChanged") /\ UpToDate(i, OwnerAt(info[i].currentOwner))

\* So it does with the answer to GetNameOwner, which comes between the changes.
Between(o, n) ==
  /\ \A p \in 1..Len(fromBus) : n < p /\ Carries(fromBus[p]) => After(o, fromBus[p])
  /\ NextSent(o, n)
FoundInv ==
  \A w \in Watches : pc[w] = "askingOwner" =>
     /\ \A p : IsReply(fromBus, p, w) => Between(fromBus[p].says[2], p)
     /\ Answering(w) => Between(loop.msg.says[2], 0)
     /\ answer[w] # None /\ info[w].currentOwner = Unknown => UpToDate(w, answer[w][2])

StreamInv == FreshInv /\ TellsInv /\ OrderedInv /\ GaplessInv /\ QuietInv /\ KnownInv /\ FoundInv

(***************************************************************************)
(* What the watches are told.                                              *)
(***************************************************************************)
BeingTold(w) == loop.at \in {"telling", "remove", "toDetach"} /\ w \in loop.watches

\* A watch in force hangs on its nameInfo.
StillHung ==
  \A w \in Watches : pc[w] \notin NotYet \union {"failed", "removingOwnerRule"} /\ ~ Cancelling(w) =>
     infoOf[w] \in Watches /\ w \in info[infoOf[w]].watches
NewUntold ==
  \A w \in NameWatchers : (pc[w] \in NotYet => told[w] = <<>>) /\ (BeingTold(w) => pc[w] \notin NotYet)
ToldInv ==
  \A w \in NameWatchers :
     /\ BeingTold(w) => Tells(w) # <<>> /\ OwnerAt(LastTold(w)) + 1 = loop.msg.owner
     /\ \A i \in Watches : w \in info[i].watches /\ ~ BeingTold(w) =>
           Tells(w) # <<>> /\ LastTold(w) = info[i].currentOwner
TakenDown ==
  \A w \in SignalWatchers : \A i \in Watches :
     ~ name.unique /\ w \in info[i].watches /\ ~ BeingTold(w) => senderOwner[w] = info[i].currentOwner
WatchedInv == StillHung /\ NewUntold /\ ToldInv /\ TakenDown /\ OwnersInOrder

LEMMA OrderInit == Init => StreamInv /\ WatchedInv
<1> SUFFICES ASSUME Init PROVE StreamInv /\ WatchedInv
  OBVIOUS
<1>1. /\ \A g \in Goroutines : pc[g] = "new" /\ answer[g] = None
      /\ \A i \in Watches : info[i].watches = {} /\ info[i].currentOwner = Unknown
      /\ \A w \in NameWatchers : C[w] = <<>> /\ told[w] = <<>>
      /\ nameInfo = None /\ rules = {} /\ busRules = {} /\ fromBus = <<>>
      /\ loop.at = "read" /\ loop.infos = {} /\ loop.msg = None
  BY DEF Init, Reading
<1>2. /\ \A i \in Watches : ~ Active(i) /\ ~ Handling(i)
      /\ \A w : ~ BeingTold(w)
  BY <1>1, Constants DEF Active, Handling, BeingTold
<1>3. FreshInv /\ TellsInv
  BY <1>1, Constants DEF FreshInv, TellsInv
<1>4. Len(fromBus) = 0 /\ \A p : ~ (p \in 1..0)
  BY <1>1
<1>5. OrderedInv
  BY <1>1, <1>4 DEF OrderedInv
<1>6. GaplessInv /\ QuietInv
  BY <1>1, <1>2, <1>4 DEF GaplessInv, QuietInv, Handling
<1>7. KnownInv /\ FoundInv
  BY <1>1, <1>2, Constants DEF KnownInv, FoundInv
<1>8. StillHung /\ NewUntold /\ ToldInv /\ TakenDown
  BY <1>1, <1>2, Constants DEF StillHung, NewUntold, ToldInv, TakenDown, NotYet
<1>9. OwnersInOrder
  <2>1. \A w \in NameWatchers : Tells(w) = <<>>
    BY <1>1 DEF Tells
  <2> QED
    BY <2>1 DEF OwnersInOrder
<1> QED
  BY <1>3, <1>5, <1>6, <1>7, <1>8, <1>9 DEF StreamInv, WatchedInv

\* The owner that a nameInfo knows, or has an empty string for.
LEMMA KnownOwner ==
  ASSUME TypeOK, NEW i \in Watches, info[i].currentOwner # Unknown
  PROVE  OwnerAt(info[i].currentOwner) \in OwnersOf
BY WhoseOwner DEF TypeOK

\* What is in the queue and in the loop, as the proofs use it.
LEMMA StreamTypes ==
  ASSUME TypeOK
  PROVE  /\ fromBus \in Seq(Inbound) /\ Len(fromBus) \in Nat
         /\ \A p \in 1..Len(fromBus) : fromBus[p] \in Inbound
         /\ \A m \in Inbound : /\ Carries(m) => m.owner \in OwnersOf
                               /\ m.type = "reply" => m.to \in Goroutines /\ m.says \in Answers
                               /\ IsChange(m) => Carries(m)
         /\ name.owner \in OwnersOf /\ OwnersOf \subseteq Int /\ Unknown \notin OwnersOf
<1>1. OwnersOf \subseteq Int /\ Unknown \notin OwnersOf
  BY WhoseOwner
<1>2. fromBus \in Seq(Inbound) /\ name.owner \in OwnersOf
  BY DEF TypeOK
<1>3. Len(fromBus) \in Nat /\ \A p \in 1..Len(fromBus) : fromBus[p] \in Inbound
  BY <1>2
<1> QED
  BY <1>1, <1>2, <1>3 DEF Inbound, Carries, IsChange


\* A step of a goroutine: what the bus has sent and the loop holds stays.
LEMMA GoroutineStream ==
  ASSUME StreamInv, UNCHANGED <<fromBus, loop, busRules, name>>,
         FreshInv',
         loop.at = "telling" => info'[loop.info].currentOwner = info[loop.info].currentOwner,
         \A i \in Watches : Active(i)' => Active(i) \/ ~ Handling(i),
         \A i \in Watches : Active(i)' /\ info'[i].currentOwner # Unknown =>
            \/ Active(i) /\ info'[i].currentOwner = info[i].currentOwner
            \/ Asked("NameOwnerChanged") /\ UpToDate(i, OwnerAt(info'[i].currentOwner)),
         \A g \in Goroutines : Removing(g) => Removing(g)' \/ ~ Sent(g),
         \A w \in Watches : pc'[w] = "askingOwner" =>
            \/ /\ pc[w] = "askingOwner" /\ answer'[w] = answer[w]
               /\ info'[w].currentOwner = info[w].currentOwner
            \/ ~ Sent(w) /\ ~ Answering(w) /\ answer'[w] = None
  PROVE  StreamInv'
<1>1. /\ Asked("NameOwnerChanged")' <=> Asked("NameOwnerChanged")
      /\ \A i : Handling(i)' <=> Handling(i)
      /\ \A o, n : NextSent(o, n)' <=> NextSent(o, n)
      /\ \A o, n : Between(o, n)' <=> Between(o, n)
      /\ \A i, o : UpToDate(i, o)' <=> UpToDate(i, o)
      /\ \A g : (Sent(g)' <=> Sent(g)) /\ (Answering(g)' <=> Answering(g))
      /\ \A p, g : IsReply(fromBus, p, g)' <=> IsReply(fromBus, p, g)
  BY DEF Asked, Handling, NextSent, Between, UpToDate, HeldFor, Sent, Answering
<1>2. TellsInv'
  BY DEF StreamInv, TellsInv
<1>3. OrderedInv'
  BY DEF StreamInv, OrderedInv
<1>4. GaplessInv'
  BY <1>1 DEF StreamInv, GaplessInv
<1>5. QuietInv'
  <2>1. \A p, g : IsReply(fromBus, p, g) => Sent(g)
    BY DEF Sent
  <2> QED
    BY <1>1, <2>1 DEF StreamInv, QuietInv
<1>6. KnownInv'
  BY <1>1 DEF StreamInv, KnownInv
<1>7. FoundInv'
  <2>1. \A p, g : IsReply(fromBus, p, g) => Sent(g)
    BY DEF Sent
  <2> QED
    BY <1>1, <2>1 DEF StreamInv, FoundInv
<1> QED
  BY <1>2, <1>3, <1>4, <1>5, <1>6, <1>7 DEF StreamInv

\* The queue without its first message.
LEMMA ShiftedQueue ==
  ASSUME NEW q \in Seq(Inbound), q # <<>>
  PROVE  /\ Len(q) \in Nat /\ 1 \in 1..Len(q) /\ Len(Tail(q)) = Len(q) - 1 /\ Head(q) = q[1]
         /\ \A p \in 1..Len(Tail(q)) : p + 1 \in 1..Len(q) /\ Tail(q)[p] = q[p + 1]
         /\ \A p \in 1..Len(q) : p # 1 => p - 1 \in 1..Len(Tail(q)) /\ Tail(q)[p - 1] = q[p]
  OBVIOUS

LEMMA ReadStream ==
  ASSUME TypeOK, LoopInv, CallInv, StreamInv, ReadMessage
  PROVE  StreamInv'
<1>0. /\ fromBus \in Seq(Inbound) /\ fromBus # <<>> /\ fromBus' = Tail(fromBus)
      /\ loop.at = "read" /\ loop'.at = "dispatch" /\ loop'.msg = Head(fromBus) /\ loop'.infos = loop.infos
      /\ UNCHANGED <<pc, nameInfo, info, rules, answer, busRules, name>>
  BY DEF TypeOK, ReadMessage, infoVars, callVars
<1>1. /\ Len(fromBus) \in Nat /\ 1 \in 1..Len(fromBus) /\ loop'.msg = fromBus[1]
      /\ \A p \in 1..Len(fromBus') : p + 1 \in 1..Len(fromBus) /\ fromBus'[p] = fromBus[p + 1]
      /\ \A p \in 1..Len(fromBus) : p # 1 => p - 1 \in 1..Len(fromBus') /\ fromBus'[p - 1] = fromBus[p]
  BY <1>0, ShiftedQueue
<1>2. /\ Asked("NameOwnerChanged")' <=> Asked("NameOwnerChanged")
      /\ \A i : ~ Handling(i) /\ ~ Handling(i)' /\ (Active(i)' <=> Active(i))
      /\ \A g : ~ Answering(g) /\ (Removing(g)' <=> Removing(g))
      /\ name.owner \in Int
  BY <1>0, StreamTypes DEF Asked, Handling, Active, Answering, Removing
<1>3. \A o, n \in Nat : NextSent(o, n + 1) => NextSent(o, n)'
  <2> SUFFICES ASSUME NEW o \in Nat, NEW n \in Nat, NEW p \in 1..Len(fromBus), ChangeTo(o + 1, fromBus, p), p > n + 1
               PROVE  \E r \in 1..Len(fromBus') : ChangeTo(o + 1, fromBus', r) /\ r > n
    BY <1>0 DEF NextSent
  <2>1. p - 1 \in 1..Len(fromBus') /\ fromBus'[p - 1] = fromBus[p] /\ p - 1 > n
    BY <1>1
  <2> QED
    BY <2>1 DEF ChangeTo
<1>4. \A o \in Nat : NextSent(o, 0) => NextSent(o, 0)' \/ ChangeTo(o + 1, fromBus, 1)
  <2> SUFFICES ASSUME NEW o \in Nat, NEW p \in 1..Len(fromBus), ChangeTo(o + 1, fromBus, p), p # 1
               PROVE  NextSent(o, 0)'
    BY <1>0 DEF NextSent
  <2>1. p - 1 \in 1..Len(fromBus') /\ fromBus'[p - 1] = fromBus[p] /\ p - 1 > 0
    BY <1>1
  <2> QED
    BY <2>1 DEF ChangeTo, NextSent
<1>5. FreshInv' /\ TellsInv'
  BY <1>0 DEF StreamInv, FreshInv, TellsInv
<1>6. \A p \in 1..Len(fromBus) : Carries(fromBus[p]) => fromBus[p].owner \in Nat
  BY StreamTypes DEF OwnersOf
<1>7. OrderedInv'
  <2>1. ASSUME NEW p \in 1..Len(fromBus'), NEW q \in 1..Len(fromBus'), p < q,
               Carries(fromBus'[p]), Carries(fromBus'[q])
        PROVE  After(fromBus'[p].owner, fromBus'[q])
    <3>1. p + 1 \in 1..Len(fromBus) /\ q + 1 \in 1..Len(fromBus) /\ p + 1 < q + 1
      BY <1>1, <2>1
    <3> QED
      BY <1>1, <2>1, <3>1 DEF StreamInv, OrderedInv
  <2>2. ASSUME NEW p \in 1..Len(fromBus'), Carries(fromBus'[p])
        PROVE  /\ fromBus'[p].owner <= name'.owner
               /\ Carries(loop'.msg) => After(loop'.msg.owner, fromBus'[p])
    <3>1. p + 1 \in 1..Len(fromBus) /\ 1 < p + 1 /\ fromBus'[p] = fromBus[p + 1]
      BY <1>1, <2>2
    <3> QED
      BY <1>0, <1>1, <2>2, <3>1 DEF StreamInv, OrderedInv
  <2>3. Carries(loop'.msg) => loop'.msg.owner <= name'.owner
    BY <1>0, <1>1 DEF StreamInv, OrderedInv
  <2> QED
    BY <2>1, <2>2, <2>3 DEF OrderedInv
<1>8. GaplessInv'
  <2> SUFFICES ASSUME Asked("NameOwnerChanged")
               PROVE  /\ \A p \in 1..Len(fromBus') : IsChange(fromBus'[p]) => NextSent(fromBus[p].owner, p)'
                      /\ IsChange(loop'.msg) => NextSent(loop.msg.owner, 0)'
    BY <1>2 DEF GaplessInv
  <2>1. ASSUME NEW p \in 1..Len(fromBus'), IsChange(fromBus'[p]) PROVE NextSent(fromBus[p].owner, p)'
    <3>. PICK o : o = fromBus'[p].owner
      OBVIOUS
    <3>1. p + 1 \in 1..Len(fromBus) /\ fromBus'[p] = fromBus[p + 1]
      BY <1>1
    <3>2. o \in Nat
      BY <1>6, <2>1, <3>1 DEF IsChange, Carries
    <3>3. NextSent(o, p + 1)
      BY <2>1, <3>1 DEF StreamInv, GaplessInv
    <3>4. NextSent(o, p)'
      BY <1>3, <3>2, <3>3
    <3> QED
      BY <3>4
  <2>2. ASSUME IsChange(loop'.msg) PROVE NextSent(loop.msg.owner, 0)'
    <3>. PICK o : o = loop'.msg.owner
      OBVIOUS
    <3>1. o \in Nat /\ NextSent(o, 1)
      BY <1>1, <1>6, <2>2 DEF StreamInv, GaplessInv, IsChange, Carries
    <3>2. NextSent(o, 0)'
      BY <1>3, <3>1
    <3> QED
      BY <3>2
  <2> QED
    BY <2>1, <2>2
<1>9. QuietInv'
  <2> SUFFICES ASSUME ~ Asked("NameOwnerChanged")
               PROVE  /\ \A p \in 1..Len(fromBus') : IsChange(fromBus'[p]) =>
                            \E q \in 1..Len(fromBus') : \E g \in Goroutines :
                               IsReply(fromBus', q, g) /\ p < q /\ Removing(g)
                      /\ IsChange(loop'.msg) => \E g \in Goroutines : Sent(g)' /\ Removing(g)
    BY <1>2 DEF QuietInv
  <2>1. ASSUME NEW p \in 1..Len(fromBus), IsChange(fromBus[p])
        PROVE  \E q \in 1..Len(fromBus') : \E g \in Goroutines : IsReply(fromBus', q, g) /\ p < q + 1 /\ Removing(g)
    <3>1. PICK q \in 1..Len(fromBus), g \in Goroutines : IsReply(fromBus, q, g) /\ p < q /\ Removing(g)
      BY <2>1 DEF StreamInv, QuietInv
    <3>2. q - 1 \in 1..Len(fromBus') /\ fromBus'[q - 1] = fromBus[q] /\ p < (q - 1) + 1
      BY <1>1, <3>1
    <3> QED
      BY <3>1, <3>2 DEF IsReply
  <2>2. ASSUME NEW p \in 1..Len(fromBus'), IsChange(fromBus'[p])
        PROVE  \E q \in 1..Len(fromBus') : \E g \in Goroutines : IsReply(fromBus', q, g) /\ p < q /\ Removing(g)
    <3>1. p + 1 \in 1..Len(fromBus) /\ IsChange(fromBus[p + 1]) /\ \A q \in 1..Len(fromBus') : p + 1 < q + 1 => p < q
      BY <1>1, <2>2
    <3> QED
      BY <2>1, <3>1
  <2> QED
    BY <1>1, <2>1, <2>2 DEF Sent
<1>10. KnownInv'
  <2> SUFFICES ASSUME NEW i \in Watches, Active(i), info[i].currentOwner # Unknown
               PROVE  Asked("NameOwnerChanged")' /\ UpToDate(i, OwnerAt(info[i].currentOwner))'
    BY <1>0, <1>2 DEF KnownInv
  <2>. PICK o : o = OwnerAt(info[i].currentOwner)
    OBVIOUS
  <2>0. o \in Nat
    BY KnownOwner DEF OwnersOf
  <2>1. o \in Nat /\ Asked("NameOwnerChanged")' /\ UpToDate(i, o)
    BY <1>2, <2>0 DEF StreamInv, KnownInv
  <2>2. NextSent(o, 0)
    BY <1>0, <2>1 DEF UpToDate, HeldFor, Handling
  <2>3. NextSent(o, 0)' \/ (HeldFor(i)' /\ loop'.msg.owner = o + 1)
    BY <1>0, <1>1, <1>4, <2>1, <2>2 DEF ChangeTo, HeldFor
  <2>4. UpToDate(i, o)'
    BY <1>0, <1>1, <1>2, <2>1, <2>3 DEF UpToDate
  <2> QED
    BY <1>0, <2>1, <2>4
<1>11. FoundInv'
  <2> SUFFICES ASSUME NEW w \in Watches, pc[w] = "askingOwner"
               PROVE  /\ \A p : IsReply(fromBus', p, w) => Between(fromBus[p].says[2], p)'
                      /\ Answering(w)' => Between(loop.msg.says[2], 0)'
                      /\ answer[w] # None /\ info[w].currentOwner = Unknown => UpToDate(w, answer[w][2])'
    BY <1>0 DEF FoundInv
  <2>1. \A says : Fits(w, says) => says[2] \in Nat
    BY WhatIsFound DEF Fits, OwnersOf
  <2>2. ASSUME NEW o \in Nat, NEW n \in Nat, Between(o, n + 1) PROVE Between(o, n)'
    <3>1. \A p \in 1..Len(fromBus') : n < p /\ Carries(fromBus'[p]) => After(o, fromBus'[p])
      <4> SUFFICES ASSUME NEW p \in 1..Len(fromBus'), n < p, Carries(fromBus'[p]) PROVE After(o, fromBus'[p])
        OBVIOUS
      <4>1. p + 1 \in 1..Len(fromBus) /\ fromBus'[p] = fromBus[p + 1] /\ n + 1 < p + 1
        BY <1>1
      <4> QED
        BY <2>2, <4>1 DEF Between
    <3>2. NextSent(o, n)'
      BY <1>3, <2>2 DEF Between
    <3> QED
      BY <3>1, <3>2 DEF Between
  <2>3. ASSUME NEW p, IsReply(fromBus', p, w) PROVE Between(fromBus[p].says[2], p)'
    <3>. PICK o : o = fromBus'[p].says[2]
      OBVIOUS
    <3>1. p \in Nat /\ IsReply(fromBus, p + 1, w) /\ fromBus'[p] = fromBus[p + 1]
      BY <1>1, <2>3 DEF IsReply
    <3>2. o \in Nat /\ Between(o, p + 1)
      BY <2>1, <3>1 DEF StreamInv, FoundInv, CallInv, OneReply, Goroutines
    <3>3. Between(o, p)'
      BY <2>2, <3>1, <3>2
    <3> QED
      BY <3>3
  <2>4. ASSUME Answering(w)' PROVE Between(loop.msg.says[2], 0)'
    <3>. PICK o : o = loop'.msg.says[2]
      OBVIOUS
    <3>1. IsReply(fromBus, 1, w)
      BY <1>1, <2>4 DEF IsReply, Answering
    <3>2. o \in Nat /\ Between(o, 0 + 1)
      BY <1>1, <2>1, <3>1 DEF StreamInv, FoundInv, CallInv, OneReply, Goroutines
    <3>3. Between(o, 0)'
      BY <2>2, <3>2
    <3> QED
      BY <3>3
  <2>5. ASSUME answer[w] # None, info[w].currentOwner = Unknown PROVE UpToDate(w, answer[w][2])'
    <3>. PICK o : o = answer[w][2]
      OBVIOUS
    <3>1. o \in Nat /\ UpToDate(w, o)
      BY <2>1, <2>5 DEF StreamInv, FoundInv, CallInv, OneAnswer, Goroutines
    <3>2. NextSent(o, 0)
      BY <1>0, <3>1 DEF UpToDate, HeldFor, Handling
    <3>3. NextSent(o, 0)' \/ (HeldFor(w)' /\ loop'.msg.owner = o + 1)
      BY <1>0, <1>1, <1>4, <3>1, <3>2 DEF ChangeTo, HeldFor
    <3>4. UpToDate(w, o)'
      BY <1>0, <1>1, <1>2, <3>1, <3>3 DEF UpToDate
    <3> QED
      BY <1>0, <3>4
  <2> QED
    BY <2>3, <2>4, <2>5
<1> QED
  BY <1>5, <1>7, <1>8, <1>9, <1>10, <1>11 DEF StreamInv


\* One nameInfo is active at a time, none while one is taken away.
LEMMA ActiveOne ==
  ASSUME PlaceInv, SharedInv, NEW i \in Watches, Active(i)
  PROVE  /\ \A g \in Goroutines : ~ Removing(g)
         /\ \A j \in Watches : Active(j) => j = i
         /\ OwnerRule(i) \in rules
         /\ pc[i] # "addingOwnerRule" => OwnerRule(i) \in busRules /\ Asked("NameOwnerChanged")
<1>1. \A g \in Goroutines : pc[g] \in {"addingOwnerRule", "askingOwner", "removingOwnerRule"} =>
         nameInfo = None /\ nameInfoMutex = g
  BY DEF PlaceInv, Holding
<1>2. nameInfo = i => OwnerRule(i) \in rules /\ OwnerRule(i) \in busRules
  BY Constants DEF SharedInv, KnownInfo
<1>3. pc[i] \in {"addingOwnerRule", "askingOwner"} => OwnerRule(i) \in rules
  BY DEF SharedInv, MadeInfo
<1>4. pc[i] = "askingOwner" => OwnerRule(i) \in busRules
  BY DEF SharedInv, MadeInfo
<1>5. \A g \in Goroutines : ~ Removing(g)
  BY <1>1, Constants DEF Active, Removing
<1>6. \A j \in Watches : Active(j) => j = i
  BY <1>1, Constants DEF Active
<1>7. OwnerRule(i) \in busRules => Asked("NameOwnerChanged")
  BY DEF Asked, OwnerRule
<1> QED
  BY <1>2, <1>3, <1>4, <1>5, <1>6, <1>7 DEF Active

\* The loop is done with a message.
LEMMA IdleStream ==
  ASSUME StreamInv, loop' = Reading, UNCHANGED <<pc, nameInfo, info, rules, fromBus, busRules, name>>,
         \A i \in Watches : ~ HeldFor(i),
         \A w \in Watches : pc[w] = "askingOwner" =>
            answer'[w] = answer[w] \/ (Answering(w) /\ answer'[w] = loop.msg.says)
  PROVE  StreamInv'
<1>0. loop'.at = "read" /\ loop'.infos = {}
  BY DEF Reading
<1>1. /\ Asked("NameOwnerChanged")' <=> Asked("NameOwnerChanged")
      /\ \A i : ~ Handling(i)' /\ (Active(i)' <=> Active(i))
      /\ \A o, n : NextSent(o, n)' <=> NextSent(o, n)
      /\ \A o, n : Between(o, n)' <=> Between(o, n)
      /\ \A i \in Watches : \A o : UpToDate(i, o) \/ Between(o, 0) => UpToDate(i, o)'
      /\ \A g : ~ Answering(g)' /\ (Removing(g)' <=> Removing(g))
      /\ \A p, g : IsReply(fromBus, p, g)' <=> IsReply(fromBus, p, g)
  <2>1. \A o, n : (NextSent(o, n)' <=> NextSent(o, n)) /\ (Between(o, n)' <=> Between(o, n))
    BY DEF NextSent, Between
  <2>2. \A i : ~ Handling(i)' /\ (Active(i)' <=> Active(i))
    BY <1>0 DEF Handling, Active
  <2>3. \A i \in Watches : \A o : UpToDate(i, o) => UpToDate(i, o)'
    BY <1>0, <2>1, <2>2 DEF UpToDate
  <2>4. fromBus \in Seq(Inbound) => \A p \in 1..Len(fromBus) : 0 < p
    OBVIOUS
  <2>5. \A i \in Watches : \A o : Between(o, 0) => UpToDate(i, o)'
    BY <1>0, <2>1, <2>2 DEF UpToDate, Between
  <2> QED
    BY <1>0, <2>1, <2>2, <2>3, <2>5 DEF Asked, Answering, Removing
<1>2. FreshInv' /\ TellsInv'
  BY <1>0 DEF StreamInv, FreshInv, TellsInv
<1>3. OrderedInv' /\ GaplessInv'
  BY <1>0, <1>1 DEF StreamInv, OrderedInv, GaplessInv
<1>4. QuietInv'
  BY <1>0, <1>1 DEF StreamInv, QuietInv
<1>5. KnownInv'
  BY <1>1 DEF StreamInv, KnownInv
<1>6. FoundInv'
  BY <1>1 DEF StreamInv, FoundInv
<1> QED
  BY <1>2, <1>3, <1>4, <1>5, <1>6 DEF StreamInv

\* The loop goes on with a change: a nameInfo that is called back knows its owner then.
LEMMA HandlingStream ==
  ASSUME PlaceInv, SharedInv, StreamInv, FreshInv', TellsInv',
         UNCHANGED <<pc, nameInfo, rules, answer, fromBus, busRules, name>>,
         loop'.msg = loop.msg, Carries(loop.msg), loop'.at \in {"callbacks", "telling", "remove", "toDetach"},
         loop'.at \in {"callbacks", "telling"} => loop.at \in {"dispatch", "callbacks", "telling"},
         \A i \in Watches : Active(i) =>
            \/ (HeldFor(i)' <=> HeldFor(i)) /\ info'[i].currentOwner = info[i].currentOwner
            \/ Handling(i) /\ ~ HeldFor(i)' /\ info'[i].currentOwner = loop.msg.owner,
         loop.msg.owner \in OwnersOf,
         \A w \in Watches : ~ Answering(w)
  PROVE  StreamInv'
<1>1. /\ Asked("NameOwnerChanged")' <=> Asked("NameOwnerChanged")
      /\ \A i : (Active(i)' <=> Active(i)) /\ (Handling(i)' <=> HeldFor(i)')
      /\ \A o, n : NextSent(o, n)' <=> NextSent(o, n)
      /\ \A o, n : Between(o, n)' <=> Between(o, n)
      /\ \A g : ~ Answering(g)' /\ (Removing(g)' <=> Removing(g))
      /\ \A p, g : IsReply(fromBus, p, g)' <=> IsReply(fromBus, p, g)
  BY DEF Asked, HeldFor, Handling, Active, NextSent, Between, Answering, Removing
<1>2. \A i \in Watches : Active(i) => \A g \in Goroutines : ~ Removing(g)
  BY ActiveOne
<1>3. OrderedInv'
  BY DEF StreamInv, OrderedInv
<1>4. GaplessInv'
  BY <1>1 DEF StreamInv, GaplessInv, HeldFor
<1>5. QuietInv'
  BY <1>1, <1>2 DEF StreamInv, QuietInv, HeldFor
<1>6. \A i \in Watches : \A o : /\ Active(i) /\ (HeldFor(i)' <=> HeldFor(i)) /\ UpToDate(i, o)
                                => UpToDate(i, o)'
  BY <1>1 DEF UpToDate, HeldFor
<1>7. KnownInv'
  <2> SUFFICES ASSUME NEW i \in Watches, Active(i), info'[i].currentOwner # Unknown
               PROVE  Asked("NameOwnerChanged") /\ UpToDate(i, OwnerAt(info[i].currentOwner))'
    BY <1>1 DEF KnownInv
  <2>. PICK o : o = OwnerAt(info'[i].currentOwner)
    OBVIOUS
  <2>1. CASE (HeldFor(i)' <=> HeldFor(i)) /\ info'[i].currentOwner = info[i].currentOwner
    <3>1. Asked("NameOwnerChanged") /\ UpToDate(i, o)
      BY <2>1 DEF StreamInv, KnownInv
    <3>2. UpToDate(i, o)'
      BY <1>6, <2>1, <3>1
    <3> QED
      BY <3>1, <3>2
  <2>2. CASE Handling(i) /\ ~ HeldFor(i)' /\ info'[i].currentOwner = loop.msg.owner
    <3>0. o = loop.msg.owner
      BY <2>2, WhoseOwner
    <3>1. Asked("NameOwnerChanged") /\ NextSent(o, 0)
      BY <2>2, <3>0 DEF StreamInv, QuietInv, GaplessInv
    <3>2. \A p \in 1..Len(fromBus) : Carries(fromBus[p]) => After(o, fromBus[p])
      BY <2>2, <3>0 DEF StreamInv, OrderedInv, Handling
    <3>3. UpToDate(i, o)'
      BY <1>1, <2>2, <3>0, <3>1, <3>2 DEF UpToDate
    <3> QED
      BY <3>1, <3>3
  <2> QED
    BY <2>1, <2>2
<1>8. FoundInv'
  <2>1. \A w \in Watches : pc[w] = "askingOwner" => Active(w)
    BY DEF Active
  <2>2. \A w \in Watches : pc[w] = "askingOwner" /\ answer[w] # None /\ info'[w].currentOwner = Unknown =>
           UpToDate(w, answer[w][2])'
    BY <1>6, <2>1, WhoseOwner DEF StreamInv, FoundInv
  <2> QED
    BY <1>1, <2>2 DEF StreamInv, FoundInv
<1> QED
  BY <1>3, <1>4, <1>5, <1>7, <1>8 DEF StreamInv

LEMMA LoopStream ==
  ASSUME TypeOK, PlaceInv, HangInv, LoopInv, CallInv, SharedInv, StreamInv, DispatchStep \/ TellStep
  PROVE  StreamInv'
<1>0. /\ info \in [Watches -> InfoTypes] /\ answer \in [Goroutines -> Answers \union {None}]
      /\ loop \in [at : {"read", "dispatch", "callbacks", "telling", "remove", "toDetach"},
                   msg : Inbound \union {None}, infos : SUBSET Watches,
                   info : Watches \union {None}, watches : SUBSET Watches]
      /\ \A w \in Watches : w \in Goroutines
  BY Constants DEF TypeOK, InfoTypes
<1>1. /\ \A m \in Inbound : IsChange(m) => Carries(m) /\ m.type # "reply" /\ m.owner \in OwnersOf
      /\ \A m : IsChange(m) <=> m.type = "NameOwnerChanged"
  BY StreamTypes DEF Carries, IsChange
<1>2. CASE ReadMessage
  BY <1>2, ReadStream
<1>3. CASE DispatchReply
  <2>1. \A i : ~ HeldFor(i)
    BY <1>3 DEF DispatchReply, HeldFor, Handling, IsChange
  <2>2. \A w \in Watches : answer'[w] = answer[w] \/ (Answering(w) /\ answer'[w] = loop.msg.says)
    BY <1>0, <1>3 DEF DispatchReply, Answering
  <2> QED
    BY <1>3, <2>1, <2>2, IdleStream DEF DispatchReply, infoVars, busVars
<1>4. CASE DispatchSignal
  <2>1. \A i : ~ HeldFor(i)
    BY <1>4 DEF DispatchSignal, HeldFor, Handling, IsChange
  <2> QED
    BY <1>4, <2>1, IdleStream DEF DispatchSignal, infoVars, busVars, callVars
<1>5. CASE CallbacksDone
  <2>1. \A i : ~ HeldFor(i)
    BY <1>5 DEF CallbacksDone, HeldFor, Handling
  <2> QED
    BY <1>5, <2>1, IdleStream DEF CallbacksDone, infoVars, busVars, callVars
<1>6. CASE DispatchOwnerChanged
  <2>1. /\ loop.at = "dispatch" /\ loop.msg.type = "NameOwnerChanged" /\ loop.msg \in Inbound
        /\ loop'.at = "callbacks" /\ loop'.msg = loop.msg /\ loop'.infos = {i \in Watches : OwnerRule(i) \in rules}
        /\ UNCHANGED <<pc, nameInfo, info, rules, answer, fromBus, busRules, name>>
    BY <1>0, <1>6 DEF DispatchOwnerChanged, LoopInv, infoVars, callVars, busVars
  <2>2. FreshInv' /\ TellsInv'
    BY <1>1, <2>1 DEF StreamInv, FreshInv, TellsInv
  <2>3. \A i \in Watches : Active(i) => HeldFor(i) /\ HeldFor(i)'
    BY <1>1, <2>1, ActiveOne DEF HeldFor, Handling
  <2>4. \A w : ~ Answering(w)
    BY <2>1 DEF Answering
  <2>5. Carries(loop.msg) /\ loop.msg.owner \in OwnersOf
    BY <1>1, <2>1
  <2> QED
    BY <2>1, <2>2, <2>3, <2>4, <2>5, HandlingStream
<1>7. ASSUME NEW i \in Watches, HandleOwnerChange(i) PROVE StreamInv'
  <2>1. /\ loop.at = "callbacks" /\ i \in loop.infos /\ IsChange(loop.msg) /\ loop.msg \in Inbound
        /\ loop'.at = "telling" /\ loop'.msg = loop.msg /\ loop'.infos = loop.infos \ {i} /\ loop'.info = i
        /\ UNCHANGED <<pc, nameInfo, rules, answer, fromBus, busRules, name>>
    BY <1>0, <1>7 DEF HandleOwnerChange, StreamInv, TellsInv, callVars, busVars
  <2>2. info'[i].currentOwner = loop.msg.owner /\ \A j \in Watches \ {i} : info'[j].currentOwner = info[j].currentOwner
    BY <1>0, <1>7 DEF HandleOwnerChange, InfoTypes
  <2>3. FreshInv' /\ TellsInv'
    BY <2>1, <2>2 DEF StreamInv, FreshInv, TellsInv
  <2>4. Handling(i) /\ ~ HeldFor(i)' /\ \A j \in Watches \ {i} : (HeldFor(j)' <=> HeldFor(j))
    BY <2>1 DEF HeldFor, Handling
  <2>5. \A w : ~ Answering(w)
    BY <2>1 DEF Answering
  <2>6. Carries(loop.msg) /\ loop.msg.owner \in OwnersOf
    BY <1>1, <2>1
  <2> QED
    BY <2>1, <2>2, <2>3, <2>4, <2>5, <2>6, HandlingStream
<1>8. ASSUME TellStep, ~ CallbacksDone, ~ \E i \in Watches : HandleOwnerChange(i) PROVE StreamInv'
  <2>1. /\ loop.at \in {"telling", "remove"} /\ IsChange(loop.msg) /\ loop.msg \in Inbound
        /\ loop'.at \in {"callbacks", "telling", "remove", "toDetach"}
        /\ loop'.at \in {"callbacks", "telling"} => loop.at = "telling"
        /\ loop'.msg = loop.msg /\ loop'.infos = loop.infos /\ loop'.info = loop.info
        /\ UNCHANGED <<pc, nameInfo, rules, answer, fromBus, busRules, name>>
    BY <1>0, <1>8 DEF TellStep, TellNameWatch, TellSignalWatch, CancelFromLoop, RemoveFromLoop, AllTold,
       StreamInv, TellsInv, infoVars, callVars, busVars
  <2>2. \A j \in Watches : info'[j].currentOwner = info[j].currentOwner
    <3>1. info' = info \/ AllTold
      BY <1>8 DEF TellStep, TellNameWatch, TellSignalWatch, CancelFromLoop, RemoveFromLoop, infoVars
    <3>2. CASE AllTold
      BY <1>0, <3>2 DEF AllTold, InfoTypes, LoopInv
    <3> QED
      BY <3>1, <3>2
  <2>3. FreshInv' /\ TellsInv'
    <3>1. loop'.at = "telling" => loop.info \in Watches
      BY <2>1 DEF LoopInv
    <3> QED
      BY <2>1, <2>2, <3>1 DEF StreamInv, FreshInv, TellsInv
  <2>4. \A j \in Watches : Active(j) => (HeldFor(j)' <=> HeldFor(j))
    <3>1. CASE \E w \in Watches : CancelFromLoop(w)
      <4>1. PICK w \in Watches : CancelFromLoop(w)
        BY <3>1
      <4>2. loop.at = "telling" /\ w \in info[loop.info].watches /\ loop.info \in Watches
        BY <4>1 DEF CancelFromLoop, LoopInv
      <4>3. nameInfo = loop.info /\ loop.info \notin loop.infos
        BY <4>2 DEF SharedInv, OnlyInfo, StreamInv, TellsInv
      <4>4. \A j \in Watches : Active(j) => j = loop.info
        BY <4>2, <4>3, ActiveOne DEF Active
      <4> QED
        BY <2>1, <4>2, <4>3, <4>4 DEF HeldFor, Handling
    <3>2. CASE ~ \E w \in Watches : CancelFromLoop(w)
      <4>1. CASE \E w \in Watches : TellNameWatch(w) \/ TellSignalWatch(w)
        BY <1>0, <2>1, <4>1 DEF TellNameWatch, TellSignalWatch, HeldFor, Handling
      <4>2. CASE RemoveFromLoop
        BY <1>0, <2>1, <4>2 DEF RemoveFromLoop, HeldFor, Handling
      <4>3. CASE AllTold
        BY <1>0, <2>1, <4>3 DEF AllTold, HeldFor, Handling
      <4> QED
        BY <1>8, <3>2, <4>1, <4>2, <4>3 DEF TellStep
    <3> QED
      BY <3>1, <3>2
  <2>5. \A w : ~ Answering(w)
    BY <2>1 DEF Answering
  <2>6. Carries(loop.msg) /\ loop.msg.owner \in OwnersOf
    BY <1>1, <2>1
  <2> QED
    BY <2>1, <2>2, <2>3, <2>4, <2>5, <2>6, HandlingStream
<1> QED
  BY <1>2, <1>3, <1>4, <1>5, <1>6, <1>7, <1>8 DEF DispatchStep, TellStep


\* The queue with one more message.
LEMMA GrownQueue ==
  ASSUME NEW q \in Seq(Inbound), NEW m \in Inbound
  PROVE  /\ Len(q) \in Nat /\ Len(Append(q, m)) = Len(q) + 1
         /\ \A p \in 1..Len(q) : p \in 1..Len(Append(q, m)) /\ Append(q, m)[p] = q[p] /\ p < Len(q) + 1 /\ 0 < p
         /\ Len(q) + 1 \in 1..Len(Append(q, m)) /\ Append(q, m)[Len(q) + 1] = m
         /\ \A p \in 1..Len(Append(q, m)) : p # Len(q) + 1 => p \in 1..Len(q)
  OBVIOUS

\* The rule of a nameInfo is taken back by who removes it, and added by who makes it.
LEMMA AskedStays ==
  ASSUME TypeOK, PlaceInv, CallInv, NEW c \in calls, BusServes(c)
  PROVE  /\ Asked("NameOwnerChanged") /\ ~ Asked("NameOwnerChanged")' => Removing(c.by)
         /\ ~ Asked("NameOwnerChanged") /\ Asked("NameOwnerChanged")' =>
               c.by \in Watches /\ pc[c.by] = "addingOwnerRule"
<1>. PICK says : ServedWith(c, says)
  BY Served
<1>1. pc[c.by] \in Waiting /\ c.method = MethodOf(c.by) /\ c.rule = RuleOf(c.by) /\ c.by \in Goroutines
  BY DEF CallInv, OneCall, TypeOK, Call
<1>2. (\A i : OwnerRule(i)[1] = "NameOwnerChanged") /\ (\A w : SignalRule(w)[1] = "signal")
  BY DEF OwnerRule, SignalRule
<1>3. ASSUME Asked("NameOwnerChanged"), ~ Removing(c.by) PROVE Asked("NameOwnerChanged")'
  <2>1. c.method = "RemoveMatch" => c.rule[1] = "signal"
    BY <1>1, <1>2, <1>3 DEF MethodOf, RuleOf, Removing
  <2> QED
    BY <1>1, <1>3, <2>1 DEF ServedWith, Asked, MethodOf
<1>4. ASSUME ~ Asked("NameOwnerChanged"), Asked("NameOwnerChanged")'
      PROVE  c.by \in Watches /\ pc[c.by] = "addingOwnerRule"
  <2>1. c.method = "AddMatch" /\ c.rule[1] = "NameOwnerChanged"
    BY <1>1, <1>4 DEF ServedWith, Asked, MethodOf
  <2>2. pc[c.by] = "addingOwnerRule"
    BY <1>1, <1>2, <2>1 DEF MethodOf, RuleOf
  <2>3. c.by \notin Cancels
    BY <2>2 DEF TypeOK, CancelPcs
  <2> QED
    BY <1>1, <2>2, <2>3 DEF Goroutines
<1> QED
  BY <1>3, <1>4

LEMMA ServeStream ==
  ASSUME TypeOK, PlaceInv, CallInv, SharedInv, StreamInv, NEW c \in calls, BusServes(c)
  PROVE  StreamInv'
<1>. PICK g, says : g = c.by /\ ServedWith(c, says)
  BY Served
<1>0. /\ UNCHANGED <<pc, nameInfo, info, rules, answer, loop, name>>
      /\ g \in Goroutines /\ name.owner \in OwnersOf /\ fromBus \in Seq(Inbound)
      /\ pc[g] \in Waiting /\ c.method = MethodOf(g) /\ c.rule = RuleOf(g)
  BY DEF BusServes, infoVars, TypeOK, Call, CallInv, OneCall
<1>. PICK m : m = [type |-> "reply", to |-> g, says |-> says]
  OBVIOUS
<1>1. m \in Inbound /\ fromBus' = Append(fromBus, m) /\ ~ Carries(m) /\ ~ IsChange(m)
  <2>1. says \in Answers
    BY <1>0, WhatIsFound DEF ServedWith, Answers, Call, TypeOK
  <2> QED
    BY <1>0, <2>1 DEF ServedWith, Replies, Inbound, Carries, IsChange
<1>2. /\ Len(fromBus) \in Nat /\ Len(fromBus') = Len(fromBus) + 1
      /\ \A p \in 1..Len(fromBus) : p \in 1..Len(fromBus') /\ fromBus'[p] = fromBus[p] /\ p < Len(fromBus) + 1
      /\ Len(fromBus) + 1 \in 1..Len(fromBus') /\ fromBus'[Len(fromBus) + 1] = m
      /\ \A p \in 1..Len(fromBus') : p # Len(fromBus) + 1 => p \in 1..Len(fromBus)
  BY <1>0, <1>1, GrownQueue
<1>3. /\ \A i : (Active(i)' <=> Active(i)) /\ (Handling(i)' <=> Handling(i)) /\ (HeldFor(i)' <=> HeldFor(i))
      /\ \A h : (Removing(h)' <=> Removing(h)) /\ (Answering(h)' <=> Answering(h))
  BY <1>0 DEF Active, Handling, HeldFor, Removing, Answering
<1>4. \A p \in 1..Len(fromBus') : Carries(fromBus'[p]) \/ IsChange(fromBus'[p]) =>
          p \in 1..Len(fromBus) /\ fromBus'[p] = fromBus[p]
  BY <1>1, <1>2
<1>5. \A p, h : /\ IsReply(fromBus, p, h) => IsReply(fromBus', p, h)
                /\ IsReply(fromBus', p, h) => \/ IsReply(fromBus, p, h) /\ fromBus'[p] = fromBus[p]
                                              \/ p = Len(fromBus) + 1 /\ h = g /\ fromBus'[p] = m
  BY <1>2 DEF IsReply
<1>6. \A o, n : NextSent(o, n) => NextSent(o, n)'
  BY <1>0, <1>2 DEF NextSent, ChangeTo
<1>7. \A i, o : UpToDate(i, o) => UpToDate(i, o)'
  BY <1>0, <1>3, <1>4, <1>6 DEF UpToDate
<1>8. \A o, n : Between(o, n) => Between(o, n)'
  BY <1>0, <1>4, <1>6 DEF Between
<1>9. FreshInv' /\ TellsInv'
  BY <1>0 DEF StreamInv, FreshInv, TellsInv
<1>10. OrderedInv'
  BY <1>0, <1>4 DEF StreamInv, OrderedInv
<1>11. GaplessInv'
  <2>1. CASE Asked("NameOwnerChanged")
    <3>1. \A p \in 1..Len(fromBus') : IsChange(fromBus'[p]) => NextSent(fromBus[p].owner, p) /\ fromBus'[p] = fromBus[p]
      BY <1>4, <2>1 DEF StreamInv, GaplessInv
    <3>2. \A p \in 1..Len(fromBus') : IsChange(fromBus'[p]) => NextSent(fromBus[p].owner, p)'
      <4> SUFFICES ASSUME NEW p \in 1..Len(fromBus'), IsChange(fromBus'[p]) PROVE NextSent(fromBus[p].owner, p)'
        OBVIOUS
      <4>. PICK o : o = fromBus[p].owner
        OBVIOUS
      <4>1. NextSent(o, p)' /\ fromBus'[p] = fromBus[p]
        BY <1>6, <3>1
      <4> QED
        BY <4>1
    <3>3. NextSent(loop.msg.owner, 0) => NextSent(loop.msg.owner, 0)'
      BY <1>0, <1>6
    <3> QED
      BY <1>0, <1>3, <2>1, <3>2, <3>3 DEF StreamInv, GaplessInv
  <2>2. CASE ~ Asked("NameOwnerChanged") /\ Asked("NameOwnerChanged")'
    <3>1. Active(g) /\ g \in Watches
      BY <2>2, AskedStays DEF Active
    <3>2. \A h \in Goroutines : ~ Removing(h)
      BY <3>1, ActiveOne
    <3> QED
      BY <1>0, <1>3, <1>4, <2>2, <3>2 DEF StreamInv, QuietInv, GaplessInv
  <2> QED
    BY <2>1, <2>2 DEF GaplessInv
<1>12. QuietInv'
  <2>1. CASE ~ Asked("NameOwnerChanged")
    <3>1. \A p \in 1..Len(fromBus') : IsChange(fromBus'[p]) =>
            \E q \in 1..Len(fromBus') : \E h \in Goroutines : IsReply(fromBus', q, h) /\ p < q /\ Removing(h)
      BY <1>2, <1>4, <1>5, <2>1 DEF StreamInv, QuietInv
    <3>2. \A h : Sent(h) => Sent(h)'
      BY <1>5 DEF Sent
    <3> QED
      BY <1>0, <1>3, <2>1, <3>1, <3>2 DEF StreamInv, QuietInv
  <2>2. CASE Asked("NameOwnerChanged") /\ ~ Asked("NameOwnerChanged")'
    <3>1. Removing(g)
      BY <2>2, AskedStays
    <3>2. IsReply(fromBus', Len(fromBus) + 1, g)
      BY <1>2 DEF IsReply
    <3>3. \A p \in 1..Len(fromBus') : IsChange(fromBus'[p]) => p < Len(fromBus) + 1
      BY <1>2, <1>4
    <3>4. \A i \in Watches : ~ Active(i)
      BY <1>0, <3>1, ActiveOne
    <3> QED
      BY <1>0, <1>2, <1>3, <3>1, <3>2, <3>3, <3>4 DEF QuietInv, Sent
  <2> QED
    BY <2>1, <2>2 DEF QuietInv
<1>13. KnownInv'
  <2> SUFFICES ASSUME NEW i \in Watches, Active(i), info[i].currentOwner # Unknown
               PROVE  Asked("NameOwnerChanged")' /\ UpToDate(i, OwnerAt(info[i].currentOwner))'
    BY <1>0, <1>3 DEF KnownInv
  <2>1. Asked("NameOwnerChanged") /\ UpToDate(i, OwnerAt(info[i].currentOwner))
    BY DEF StreamInv, KnownInv
  <2>2. ~ Removing(g)
    BY <1>0, ActiveOne
  <2> QED
    BY <1>0, <1>7, <2>1, <2>2, AskedStays
<1>14. FoundInv'
  <2> SUFFICES ASSUME NEW w \in Watches, pc[w] = "askingOwner"
               PROVE  /\ \A p : IsReply(fromBus', p, w) => Between(fromBus[p].says[2], p)'
                      /\ Answering(w) => Between(loop.msg.says[2], 0)'
                      /\ answer[w] # None /\ info[w].currentOwner = Unknown => UpToDate(w, answer[w][2])'
    BY <1>0, <1>3 DEF FoundInv
  <2>1. ASSUME NEW p, IsReply(fromBus', p, w) PROVE Between(fromBus[p].says[2], p)'
    <3>1. CASE IsReply(fromBus, p, w) /\ fromBus'[p] = fromBus[p]
      <4>. PICK o : o = fromBus[p].says[2]
        OBVIOUS
      <4>1. Between(o, p)
        BY <3>1 DEF StreamInv, FoundInv
      <4>2. Between(o, p)'
        BY <1>8, <4>1
      <4> QED
        BY <3>1, <4>2
    <3>2. CASE p = Len(fromBus) + 1 /\ w = g /\ fromBus'[p] = m
      <4>1. says \in Says(name.owner)
        BY <1>0, <3>2 DEF MethodOf, ServedWith
      <4>2. fromBus'[p].says[2] = name'.owner
        BY <1>0, <3>2, <4>1, WhatIsFound
      <4>3. \A q \in 1..Len(fromBus') : ~ (p < q)
        BY <1>2, <3>2
      <4> QED
        BY <4>2, <4>3 DEF Between, NextSent
    <3> QED
      BY <1>5, <2>1, <3>1, <3>2
  <2>2. Answering(w) => Between(loop.msg.says[2], 0)'
    BY <1>0, <1>8 DEF StreamInv, FoundInv
  <2>3. answer[w] # None /\ info[w].currentOwner = Unknown => UpToDate(w, answer[w][2])'
    BY <1>0, <1>7 DEF StreamInv, FoundInv
  <2> QED
    BY <2>1, <2>2, <2>3
<1> QED
  BY <1>9, <1>10, <1>11, <1>12, <1>13, <1>14 DEF StreamInv

\* The bus passes on a change, or a signal of the present owner.
LEMMA CarryStream ==
  ASSUME TypeOK, PlaceInv, LoopInv, CallInv, SharedInv, StreamInv, NEW m \in Inbound, Carries(m), m.owner = name'.owner,
         UNCHANGED <<pc, nameInfo, info, rules, answer, loop, busRules>>,
         fromBus' = Append(fromBus, m),
         name'.owner = (IF IsChange(m) THEN name.owner + 1 ELSE name.owner),
         IsChange(m) => Asked("NameOwnerChanged")
  PROVE  StreamInv'
<1>0. /\ name.owner \in Int /\ name'.owner \in Int /\ fromBus \in Seq(Inbound) /\ m.type # "reply"
      /\ \A n \in Inbound : Carries(n) => n.owner \in Int
      /\ \A p \in 1..Len(fromBus) : fromBus[p] \in Inbound
  BY StreamTypes DEF Carries
<1>2. /\ Len(fromBus) \in Nat /\ Len(fromBus') = Len(fromBus) + 1
      /\ \A p \in 1..Len(fromBus) : p \in 1..Len(fromBus') /\ fromBus'[p] = fromBus[p] /\ p < Len(fromBus) + 1 /\ 0 < p
      /\ Len(fromBus) + 1 \in 1..Len(fromBus') /\ fromBus'[Len(fromBus) + 1] = m
      /\ \A p \in 1..Len(fromBus') : p # Len(fromBus) + 1 => p \in 1..Len(fromBus)
  BY <1>0, GrownQueue
<1>3. /\ \A i : (Active(i)' <=> Active(i)) /\ (Handling(i)' <=> Handling(i)) /\ (HeldFor(i)' <=> HeldFor(i))
      /\ \A h : (Removing(h)' <=> Removing(h)) /\ (Answering(h)' <=> Answering(h))
      /\ Asked("NameOwnerChanged")' <=> Asked("NameOwnerChanged")
  BY DEF Active, Handling, HeldFor, Removing, Answering, Asked
<1>5. \A p, h : /\ IsReply(fromBus, p, h) => IsReply(fromBus', p, h)
                /\ IsReply(fromBus', p, h) => IsReply(fromBus, p, h) /\ fromBus'[p] = fromBus[p]
  BY <1>0, <1>2 DEF IsReply
<1>6. \A n \in 0..Len(fromBus) : \A o : NextSent(o, n) => NextSent(o, n)'
  <2> SUFFICES ASSUME NEW n \in 0..Len(fromBus), NEW o, NextSent(o, n) PROVE NextSent(o, n)'
    OBVIOUS
  <2>1. CASE \E p \in 1..Len(fromBus) : ChangeTo(o + 1, fromBus, p) /\ p > n
    BY <1>2, <2>1 DEF NextSent, ChangeTo
  <2>2. CASE o = name.owner /\ IsChange(m)
    <3>1. ChangeTo(o + 1, fromBus', Len(fromBus) + 1) /\ Len(fromBus) + 1 > n
      BY <1>2, <2>2 DEF ChangeTo
    <3> QED
      BY <1>2, <3>1 DEF NextSent
  <2>3. CASE o = name.owner /\ ~ IsChange(m)
    BY <2>3 DEF NextSent
  <2> QED
    BY <2>1, <2>2, <2>3 DEF NextSent
<1>7. \A o \in Int : o <= name.owner => After(o, m)
  BY <1>0 DEF After
<1>8. \A n : \A o \in Int : NextSent(o, n) => o <= name.owner
  <2>1. \A p \in 1..Len(fromBus) : IsChange(fromBus[p]) => Carries(fromBus[p])
    BY DEF IsChange, Carries
  <2> QED
    BY <1>0, <2>1 DEF NextSent, ChangeTo, StreamInv, OrderedInv
<1>9. FreshInv' /\ TellsInv'
  BY DEF StreamInv, FreshInv, TellsInv
<1>10. OrderedInv'
  <2>1. ASSUME NEW p \in 1..Len(fromBus'), NEW q \in 1..Len(fromBus'), p < q, Carries(fromBus'[p]), Carries(fromBus'[q])
        PROVE  After(fromBus'[p].owner, fromBus'[q])
    <3>1. p \in 1..Len(fromBus) /\ fromBus'[p] = fromBus[p] /\ fromBus[p].owner \in Int /\ fromBus[p].owner <= name.owner
      <4>1. p # Len(fromBus) + 1
        BY <1>2, <2>1
      <4> QED
        BY <1>0, <1>2, <2>1, <4>1 DEF StreamInv, OrderedInv
    <3>2. CASE q = Len(fromBus) + 1
      BY <1>2, <1>7, <3>1, <3>2
    <3>3. CASE q # Len(fromBus) + 1
      BY <1>2, <2>1, <3>1, <3>3 DEF StreamInv, OrderedInv
    <3> QED
      BY <3>2, <3>3
  <2>2. ASSUME NEW p \in 1..Len(fromBus'), Carries(fromBus'[p]) PROVE fromBus'[p].owner <= name'.owner
    <3>1. CASE p = Len(fromBus) + 1
      BY <1>0, <1>2, <3>1
    <3>2. CASE p # Len(fromBus) + 1
      <4>1. fromBus'[p] = fromBus[p] /\ fromBus[p].owner <= name.owner /\ fromBus[p].owner \in Int
        BY <1>0, <1>2, <2>2, <3>2 DEF StreamInv, OrderedInv
      <4> QED
        BY <1>0, <4>1
    <3> QED
      BY <3>1, <3>2
  <2>3. ASSUME loop.at \in {"dispatch", "callbacks", "telling"}, Carries(loop.msg), loop.msg \in Inbound
        PROVE  /\ loop.msg.owner <= name'.owner
               /\ \A p \in 1..Len(fromBus') : Carries(fromBus'[p]) => After(loop.msg.owner, fromBus'[p])
    <3>1. loop.msg.owner <= name.owner /\ loop.msg.owner \in Int
      BY <1>0, <2>3 DEF StreamInv, OrderedInv
    <3>2. \A p \in 1..Len(fromBus') : Carries(fromBus'[p]) => After(loop.msg.owner, fromBus'[p])
      BY <1>2, <1>7, <2>3, <3>1 DEF StreamInv, OrderedInv
    <3> QED
      BY <1>0, <3>1, <3>2
  <2>4. loop.at \in {"dispatch", "callbacks", "telling"} => loop.msg \in Inbound
    BY DEF LoopInv, StreamInv, TellsInv
  <2> QED
    BY <2>1, <2>2, <2>3, <2>4 DEF OrderedInv
<1>11. GaplessInv'
  <2> SUFFICES ASSUME Asked("NameOwnerChanged")
               PROVE  /\ \A p \in 1..Len(fromBus') : IsChange(fromBus'[p]) => NextSent(fromBus[p].owner, p)'
                      /\ loop.at = "dispatch" /\ IsChange(loop.msg) => NextSent(loop.msg.owner, 0)'
                      /\ \A i \in Watches : Active(i) /\ Handling(i) => NextSent(loop.msg.owner, 0)'
    BY <1>3 DEF GaplessInv
  <2>1. ASSUME NEW p \in 1..Len(fromBus'), IsChange(fromBus'[p]) PROVE NextSent(fromBus[p].owner, p)'
    <3>. PICK o : o = fromBus'[p].owner
      OBVIOUS
    <3>1. CASE p = Len(fromBus) + 1
      BY <1>2, <3>1 DEF NextSent
    <3>2. CASE p # Len(fromBus) + 1
      <4>1. p \in 0..Len(fromBus) /\ NextSent(o, p)
        BY <1>2, <2>1, <3>2 DEF StreamInv, GaplessInv
      <4>2. NextSent(o, p)'
        BY <1>6, <4>1
      <4> QED
        BY <4>2
    <3> QED
      BY <3>1, <3>2
  <2>2. NextSent(loop.msg.owner, 0) => NextSent(loop.msg.owner, 0)'
    BY <1>2, <1>6
  <2> QED
    BY <2>1, <2>2 DEF StreamInv, GaplessInv
<1>12. QuietInv'
  <2> SUFFICES ASSUME ~ Asked("NameOwnerChanged"), ~ IsChange(m) PROVE QuietInv'
    BY <1>3 DEF QuietInv
  <2>1. \A p \in 1..Len(fromBus') : IsChange(fromBus'[p]) => p \in 1..Len(fromBus) /\ fromBus'[p] = fromBus[p]
    BY <1>2
  <2>2. \A h : Sent(h) => Sent(h)'
    BY <1>5 DEF Sent
  <2> QED
    BY <1>2, <1>3, <1>5, <2>1, <2>2 DEF StreamInv, QuietInv
<1>13. ASSUME NEW i \in Watches, NEW o \in Int, UpToDate(i, o) PROVE UpToDate(i, o)'
  <2>1. o <= name.owner
    <3>1. CASE NextSent(o, 0)
      BY <1>8, <3>1
    <3>2. CASE HeldFor(i) /\ loop.msg.owner = o + 1
      <4>1. loop.at \in {"dispatch", "callbacks", "telling"} /\ Carries(loop.msg)
        BY <3>2 DEF HeldFor, Handling, IsChange, Carries, StreamInv, TellsInv
      <4>2. o + 1 <= name.owner
        BY <3>2, <4>1 DEF StreamInv, OrderedInv
      <4> QED
        BY <1>0, <4>2
    <3> QED
      BY <1>13, <3>1, <3>2 DEF UpToDate
  <2>2. \A p \in 1..Len(fromBus') : Carries(fromBus'[p]) => After(o, fromBus'[p])
    BY <1>2, <1>7, <1>13, <2>1 DEF UpToDate
  <2>3. NextSent(o, 0) => NextSent(o, 0)'
    BY <1>2, <1>6
  <2> QED
    BY <1>3, <1>13, <2>2, <2>3 DEF UpToDate
<1>14. ASSUME NEW n \in 0..Len(fromBus), NEW o \in Int, Between(o, n) PROVE Between(o, n)'
  <2>1. o <= name.owner /\ NextSent(o, n)'
    BY <1>6, <1>8, <1>14 DEF Between
  <2>2. \A p \in 1..Len(fromBus') : n < p /\ Carries(fromBus'[p]) => After(o, fromBus'[p])
    BY <1>2, <1>7, <1>14, <2>1 DEF Between
  <2> QED
    BY <2>1, <2>2 DEF Between
<1>15. KnownInv'
  <2> SUFFICES ASSUME NEW i \in Watches, Active(i), info[i].currentOwner # Unknown
               PROVE  Asked("NameOwnerChanged") /\ UpToDate(i, OwnerAt(info[i].currentOwner))'
    BY <1>3 DEF KnownInv
  <2>. PICK o : o = OwnerAt(info[i].currentOwner)
    OBVIOUS
  <2>1. o \in Int /\ Asked("NameOwnerChanged") /\ UpToDate(i, o)
    BY KnownOwner, WhoseOwner DEF StreamInv, KnownInv
  <2>2. UpToDate(i, o)'
    BY <1>13, <2>1
  <2> QED
    BY <2>1, <2>2
<1>16. FoundInv'
  <2> SUFFICES ASSUME NEW w \in Watches, pc[w] = "askingOwner"
               PROVE  /\ \A p : IsReply(fromBus', p, w) => Between(fromBus[p].says[2], p)'
                      /\ Answering(w) => Between(loop.msg.says[2], 0)'
                      /\ answer[w] # None /\ info[w].currentOwner = Unknown => UpToDate(w, answer[w][2])'
    BY <1>3 DEF FoundInv
  <2>1. \A says : Fits(w, says) => says[2] \in Int
    BY WhatIsFound DEF Fits, OwnersOf
  <2>2. ASSUME NEW p, IsReply(fromBus', p, w) PROVE Between(fromBus[p].says[2], p)'
    <3>. PICK o : o = fromBus'[p].says[2]
      OBVIOUS
    <3>0. IsReply(fromBus, p, w) /\ fromBus'[p] = fromBus[p]
      BY <1>5, <2>2
    <3>1. IsReply(fromBus, p, w) /\ fromBus'[p] = fromBus[p] /\ p \in 0..Len(fromBus)
      BY <1>2, <3>0 DEF IsReply
    <3>2. o \in Int /\ Between(o, p)
      BY <2>1, <3>1 DEF StreamInv, FoundInv, CallInv, OneReply, Goroutines
    <3>3. Between(o, p)'
      BY <1>14, <3>1, <3>2
    <3> QED
      BY <3>3
  <2>3. ASSUME Answering(w) PROVE Between(loop.msg.says[2], 0)'
    <3>. PICK o : o = loop.msg.says[2]
      OBVIOUS
    <3>1. o \in Int /\ Between(o, 0)
      BY <2>1, <2>3 DEF StreamInv, FoundInv, CallInv, OneAnswer, Goroutines
    <3>2. Between(o, 0)'
      BY <1>2, <1>14, <3>1
    <3> QED
      BY <3>2
  <2>4. ASSUME answer[w] # None, info[w].currentOwner = Unknown PROVE UpToDate(w, answer[w][2])'
    <3>. PICK o : o = answer[w][2]
      OBVIOUS
    <3>1. o \in Int /\ UpToDate(w, o)
      BY <2>1, <2>4 DEF StreamInv, FoundInv, CallInv, OneAnswer, Goroutines
    <3>2. UpToDate(w, o)'
      BY <1>13, <3>1
    <3> QED
      BY <3>2
  <2> QED
    BY <2>2, <2>3, <2>4
<1> QED
  BY <1>9, <1>10, <1>11, <1>12, <1>15, <1>16 DEF StreamInv

LEMMA OtherStream ==
  ASSUME TypeOK, PlaceInv, LoopInv, CallInv, SharedInv, StreamInv, OtherStep
  PROVE  StreamInv'
<1>0. name \in [unique : BOOLEAN, owner : OwnersOf] /\ MaxChanges \in Nat
  BY NameAssumption DEF TypeOK
<1>1. CASE \E w \in NameWatchers : Receives(w)
  <2>1. UNCHANGED <<pc, nameInfo, info, rules, answer, loop, fromBus, busRules, name>>
    BY <1>1 DEF Receives, infoVars, callVars, busVars
  <2>2. \A i : (Active(i)' <=> Active(i)) /\ (Removing(i)' <=> Removing(i))
    BY <2>1 DEF Active, Removing
  <2>3. FreshInv'
    BY <2>1 DEF StreamInv, FreshInv
  <2> QED
    BY <2>1, <2>2, <2>3, GoroutineStream
<1>2. ASSUME NEW c \in calls, BusServes(c) PROVE StreamInv'
  BY <1>2, ServeStream
<1>3. CASE Emit
  <2>. PICK m : m = [type |-> "signal", owner |-> name.owner]
    OBVIOUS
  <2>1. /\ m \in Inbound /\ Carries(m) /\ ~ IsChange(m) /\ m.owner = name.owner
        /\ UNCHANGED <<pc, nameInfo, info, rules, answer, loop, busRules, name>>
        /\ fromBus' = Append(fromBus, m)
    BY <1>0, <1>3 DEF Emit, Inbound, Carries, IsChange, infoVars, callVars
  <2> QED
    BY <2>1, CarryStream
<1>4. CASE OwnerChanges /\ Asked("NameOwnerChanged")
  <2>. PICK m : m = [type |-> "NameOwnerChanged", owner |-> name'.owner]
    OBVIOUS
  <2>1. /\ name'.owner = name.owner + 1 /\ name'.owner \in OwnersOf
        /\ UNCHANGED <<pc, nameInfo, info, rules, answer, loop, busRules>>
        /\ fromBus' = Append(fromBus, m)
    BY <1>0, <1>4 DEF OwnerChanges, infoVars, callVars, OwnersOf
  <2>2. m \in Inbound /\ Carries(m) /\ IsChange(m) /\ m.owner = name'.owner
    BY <2>1 DEF Inbound, Carries, IsChange
  <2> QED
    BY <1>4, <2>1, <2>2, CarryStream
<1>5. CASE OwnerChanges /\ ~ Asked("NameOwnerChanged")
  <2>1. /\ name'.owner = name.owner + 1 /\ name.owner \in Int
        /\ UNCHANGED <<pc, nameInfo, info, rules, answer, loop, busRules, fromBus>>
    BY <1>0, <1>5 DEF OwnerChanges, infoVars, callVars, OwnersOf
  <2>2. /\ \A i : (Active(i)' <=> Active(i)) /\ (Removing(i)' <=> Removing(i)) /\ (Handling(i)' <=> Handling(i))
        /\ \A g : Sent(g)' <=> Sent(g)
        /\ ~ Asked("NameOwnerChanged")'
    BY <1>5, <2>1 DEF Active, Removing, Handling, Sent, Asked
  <2>3. FreshInv' /\ TellsInv'
    BY <2>1 DEF StreamInv, FreshInv, TellsInv
  <2>4. OrderedInv'
    <3>1. \A n \in Inbound : Carries(n) /\ n.owner <= name.owner => n.owner <= name'.owner
      <4>1. \A n \in Inbound : Carries(n) => n.owner \in Int
        BY StreamTypes
      <4> QED
        BY <2>1, <4>1
    <3>2. \A p \in 1..Len(fromBus) : fromBus[p] \in Inbound
      BY StreamTypes
    <3>3. loop.at \in {"dispatch", "callbacks", "telling"} => loop.msg \in Inbound
      BY DEF LoopInv, StreamInv, TellsInv
    <3> QED
      BY <2>1, <3>1, <3>2, <3>3 DEF StreamInv, OrderedInv
  <2>5. GaplessInv' /\ QuietInv'
    BY <1>5, <2>1, <2>2 DEF StreamInv, GaplessInv, QuietInv
  <2>6. KnownInv'
    BY <1>5, <2>1, <2>2 DEF StreamInv, KnownInv
  <2>7. FoundInv'
    <3>1. \A w \in Watches : pc[w] # "askingOwner"
      BY <1>5, ActiveOne DEF Active
    <3> QED
      BY <2>1, <3>1 DEF FoundInv
  <2> QED
    BY <2>3, <2>4, <2>5, <2>6, <2>7 DEF StreamInv
<1> QED
  BY <1>1, <1>2, <1>3, <1>4, <1>5 DEF OtherStep

\* A step of a goroutine that makes no nameInfo.
LEMMA MovingStream ==
  ASSUME TypeOK, LoopInv, CallInv, StreamInv, NEW g \in Goroutines,
         UNCHANGED <<fromBus, loop, busRules, name>>,
         \A h \in Goroutines \ {g} : pc'[h] = pc[h] /\ answer'[h] = answer[h],
         pc'[g] \notin {"new", "addingOwnerRule", "askingOwner"}, pc'[g] = "ensure" => pc[g] = "new",
         pc[g] = "removingOwnerRule" => answer[g] # None,
         \A i \in Watches : info'[i].currentOwner = info[i].currentOwner,
         nameInfo' \in {nameInfo, None},
         \A i \in Watches : OwnerRule(i) \in rules' => OwnerRule(i) \in rules
  PROVE  StreamInv'
<1>0. \A w \in Watches : w \in Goroutines /\ w # None
  BY Constants
<1>1. \A i \in Watches : Active(i)' => Active(i)
  BY <1>0 DEF Active
<1>2. FreshInv'
  BY <1>0 DEF StreamInv, FreshInv
<1>3. loop.at = "telling" => info'[loop.info].currentOwner = info[loop.info].currentOwner
  BY DEF LoopInv
<1>4. \A h \in Goroutines : Removing(h) => Removing(h)' \/ ~ Sent(h)
  BY NothingElse DEF Removing
<1> QED
  BY <1>0, <1>1, <1>2, <1>3, <1>4, GoroutineStream DEF StreamInv, KnownInv

\* The steps of the goroutine that makes one.
LEMMA MakingStream ==
  ASSUME TypeOK, PlaceInv, LoopInv, CallInv, SharedInv, StreamInv, NEW w \in Watches,
         NewNameInfo(w) \/ CheckCurrentOwner(w) \/ OwnerFound(w)
  PROVE  StreamInv'
<1>0. /\ pc \in [Goroutines -> WatchPcs \union CancelPcs] /\ answer \in [Goroutines -> Answers \union {None}]
      /\ info \in [Watches -> InfoTypes] /\ w \in Goroutines
      /\ \A v \in Watches : v \in Goroutines /\ v # None
  BY Constants DEF TypeOK, InfoTypes
<1>1. /\ UNCHANGED <<loop, fromBus, busRules, name>>
      /\ \A h \in Goroutines \ {w} : pc'[h] = pc[h] /\ answer'[h] = answer[h]
      /\ \A i \in Watches \ {w} : info'[i].currentOwner = info[i].currentOwner
  BY <1>0 DEF NewNameInfo, CheckCurrentOwner, OwnerFound, Goto, Ask, infoVars, busVars
<1>2. \A h \in Goroutines : Removing(h) => Removing(h)' \/ ~ Sent(h)
  BY <1>0, <1>1 DEF Removing, NewNameInfo, CheckCurrentOwner, OwnerFound, Goto
<1>3. CASE NewNameInfo(w)
  <2>1. /\ pc[w] = "ensure" /\ pc'[w] = "addingOwnerRule" /\ info' = info /\ nameInfo' = nameInfo /\ answer' = answer
        /\ rules' = rules \union {OwnerRule(w)}
    BY <1>0, <1>3 DEF NewNameInfo, Goto, Ask
  <2>2. FreshInv'
    BY <1>0, <1>1, <2>1 DEF StreamInv, FreshInv, OwnerRule
  <2>3. \A i \in Watches : i # w => (Active(i)' <=> Active(i))
    BY <1>0, <1>1, <2>1 DEF Active
  <2>4. ~ Handling(w) /\ info'[w].currentOwner = Unknown
    BY <2>1 DEF StreamInv, FreshInv, Handling
  <2> QED
    BY <1>0, <1>1, <1>2, <2>1, <2>2, <2>3, <2>4, GoroutineStream DEF StreamInv, KnownInv
<1>4. CASE CheckCurrentOwner(w)
  <2>1. /\ pc[w] = "addingOwnerRule" /\ pc'[w] = "askingOwner" /\ answer[w] # None /\ answer'[w] = None
        /\ UNCHANGED <<info, nameInfo, rules>>
    BY <1>0, <1>4, Constants DEF CheckCurrentOwner, Goto, infoVars
  <2>2. FreshInv'
    BY <1>0, <1>1, <2>1 DEF StreamInv, FreshInv
  <2>3. \A i \in Watches : Active(i)' <=> Active(i)
    BY <1>0, <1>1, <2>1 DEF Active
  <2>4. ~ Sent(w) /\ ~ Answering(w)
    BY <1>0, <2>1, NothingElse
  <2> QED
    BY <1>0, <1>1, <1>2, <2>1, <2>2, <2>3, <2>4, GoroutineStream DEF StreamInv, KnownInv
<1>5. CASE OwnerFound(w)
  <2>1. /\ pc[w] = "askingOwner" /\ pc'[w] = "toAttach" /\ answer[w] # None /\ nameInfo' = w /\ rules' = rules
        /\ info[w].lock = None
        /\ info'[w].currentOwner = IF info[w].currentOwner = Unknown THEN Found(answer[w]) ELSE info[w].currentOwner
    BY <1>0, <1>5 DEF OwnerFound, Goto, InfoTypes
  <2>2. FreshInv'
    BY <1>0, <1>1, <2>1 DEF StreamInv, FreshInv
  <2>3. /\ Active(w) /\ nameInfo = None
        /\ \A i \in Watches : Active(i)' => i = w
    <3>1. Active(w)
      BY <2>1 DEF Active
    <3>2. nameInfo = None /\ \A i \in Watches : Active(i) => i = w
      BY <1>0, <2>1, <3>1, ActiveOne DEF PlaceInv
    <3> QED
      BY <1>0, <1>1, <2>1, <3>1, <3>2 DEF Active
  <2>4. loop.at = "telling" => loop.info \in Watches \ {w}
    BY <2>1, Constants DEF LoopInv
  <2>6. OwnerAt(Found(answer[w])) = answer[w][2]
    BY <1>0, <2>1, WhatIsFound DEF CallInv, OneAnswer, Fits
  <2>5. Asked("NameOwnerChanged") /\ UpToDate(w, OwnerAt(info'[w].currentOwner))
    <3>1. Asked("NameOwnerChanged")
      BY <2>1, <2>3, ActiveOne
    <3>2. CASE info[w].currentOwner = Unknown
      BY <2>1, <2>6, <3>1, <3>2 DEF StreamInv, FoundInv
    <3>3. CASE info[w].currentOwner # Unknown
      BY <2>1, <2>3, <3>3 DEF StreamInv, KnownInv
    <3> QED
      BY <3>2, <3>3, <3>1
  <2> QED
    BY <1>0, <1>1, <1>2, <2>1, <2>2, <2>3, <2>4, <2>5, GoroutineStream
<1> QED
  BY <1>3, <1>4, <1>5

LEMMA StepStream ==
  ASSUME IInv, StreamInv, [Next]_vars
  PROVE  StreamInv'
<1>0. /\ pc \in [Goroutines -> WatchPcs \union CancelPcs] /\ answer \in [Goroutines -> Answers \union {None}]
      /\ info \in [Watches -> InfoTypes] /\ nameInfo \in Watches \union {None}
      /\ (\A v \in Watches : v \in Goroutines) /\ (\A k \in Cancels : k \in Goroutines)
  BY Constants DEF IInv, TypeOK, InfoTypes
<1>. /\ TypeOK /\ PlaceInv /\ HangInv /\ LoopInv /\ CallInv /\ SharedInv
  BY DEF IInv
<1>1. \A i, w : OwnerRule(i) # SignalRule(w)
  BY DEF OwnerRule, SignalRule
<1>2. CASE UNCHANGED vars
  BY <1>2 DEF vars, infoVars, watchVars, callVars, busVars, StreamInv, FreshInv, TellsInv, OrderedInv, GaplessInv,
     QuietInv, KnownInv, FoundInv, UpToDate, Between, NextSent, Asked, Active, Handling, HeldFor, Removing, Sent, Answering
<1>3. ASSUME NEW w \in Watches, WatchName(w) \/ FindInfo(w) \/ NewNameInfoFails(w) PROVE StreamInv'
  <2>1. /\ UNCHANGED <<fromBus, loop, busRules, name, info, nameInfo>> /\ rules' \subseteq rules
        /\ \A h \in Goroutines \ {w} : pc'[h] = pc[h] /\ answer'[h] = answer[h]
        /\ pc'[w] \in {"ensure", "toAttach", "failed"}
        /\ pc'[w] = "ensure" => pc[w] = "new"
        /\ pc[w] # "removingOwnerRule"
    BY <1>0, <1>3 DEF WatchName, FindInfo, NewNameInfoFails, Goto, Told, infoVars, callVars, busVars
  <2> QED
    BY <1>0, <2>1, MovingStream
<1>4. ASSUME NEW w \in Watches, AttachStep(w) \/ AddStep(w) PROVE StreamInv'
  <2>1. /\ UNCHANGED <<fromBus, loop, busRules, name, nameInfo>>
        /\ \A h \in Goroutines \ {w} : pc'[h] = pc[h] /\ answer'[h] = answer[h]
        /\ pc'[w] \in {"watching", "toAddMatch", "cancelling", "addingMatch", "remove"}
        /\ pc[w] # "removingOwnerRule"
    BY <1>0, <1>4 DEF AttachStep, Attach, AttachCancels, AddStep, AddMatch, AddMatchReturns, AddMatchFails,
       Goto, Told, Ask, infoVars, callVars, busVars
  <2>2. \A i \in Watches : OwnerRule(i) \in rules' => OwnerRule(i) \in rules
    BY <1>1, <1>4 DEF AttachStep, Attach, AttachCancels, AddStep, AddMatch, AddMatchReturns, AddMatchFails
  <2>3. \A i \in Watches : info'[i].currentOwner = info[i].currentOwner
    BY <1>0, <1>4 DEF AttachStep, Attach, AttachCancels, AddStep, AddMatch, AddMatchReturns, AddMatchFails,
       infoVars, InfoTypes
  <2> QED
    BY <1>0, <2>1, <2>2, <2>3, MovingStream
<1>5. ASSUME NEW g \in Goroutines, RemoveStep(g) PROVE StreamInv'
  <2>1. /\ UNCHANGED <<fromBus, loop, busRules, name>> /\ nameInfo' \in {nameInfo, None} /\ rules' \subseteq rules
        /\ \A h \in Goroutines \ {g} : pc'[h] = pc[h] /\ answer'[h] = answer[h]
    BY <1>0, <1>5 DEF RemoveStep, RemoveNameWatch, NotFound, DetachOne, DetachLast, OwnerRuleRemoved, OwnerRuleKept,
       Goto, Told, Ask, callVars, busVars
  <2>2. /\ pc'[g] \in {"toDetach", "failed", "toRemoveMatch", "toClose", "removingOwnerRule"}
        /\ pc[g] = "removingOwnerRule" => answer[g] # None
    BY <1>0, <1>5, Constants DEF RemoveStep, RemoveNameWatch, NotFound, DetachOne, DetachLast, OwnerRuleRemoved, OwnerRuleKept,
       AfterRemove, Goto, Told
  <2>3. \A i \in Watches : info'[i].currentOwner = info[i].currentOwner
    <3>1. CASE RemoveNameWatch(g) \/ NotFound(g)
      BY <3>1 DEF RemoveNameWatch, NotFound
    <3>2. CASE DetachOne(g)
      BY <1>0, <3>2 DEF DetachOne, InfoTypes
    <3>3. CASE DetachLast(g)
      BY <1>0, <3>3 DEF DetachLast, InfoTypes
    <3>4. CASE OwnerRuleRemoved(g) \/ OwnerRuleKept(g)
      <4>. PICK i : i = infoOf[WatchBy(g)]
        OBVIOUS
      <4>1. info' = [info EXCEPT ![i].lock = None]
        BY <3>4 DEF OwnerRuleRemoved, OwnerRuleKept, Released
      <4> QED
        BY <1>0, <4>1 DEF InfoTypes
    <3> QED
      BY <1>5, <3>1, <3>2, <3>3, <3>4 DEF RemoveStep
  <2> QED
    BY <1>0, <2>1, <2>2, <2>3, MovingStream
<1>6. ASSUME NEW k \in Cancels, TakeStep(k) PROVE StreamInv'
  <2>1. /\ UNCHANGED <<fromBus, loop, busRules, name, info, nameInfo>> /\ rules' \subseteq rules
        /\ \A h \in Goroutines \ {k} : pc'[h] = pc[h] /\ answer'[h] = answer[h]
        /\ pc'[k] \in {"locking", "returned", "remove", "removingMatch", "toClose", "failed"}
        /\ pc[k] # "removingOwnerRule"
    BY <1>0, <1>6 DEF TakeStep, CallCancel, CancelAgain, Cancel, RemoveMatch, RemoveMatchReturns, RemoveMatchFails,
       CloseChannel, Goto, Told, Ask, infoVars, callVars, busVars
  <2> QED
    BY <1>0, <2>1, MovingStream
<1> QED
  BY <1>2, <1>3, <1>4, <1>5, <1>6, MakingStream, LoopStream, OtherStream, Steps DEF MakeStep

\* Which steps touch what the watches are told, and what they do to the lists.
LEMMA ListsKept ==
  ASSUME IInv, [Next]_vars, ~ \E w \in Watches : AttachStep(w), ~ \E g \in Goroutines : RemoveStep(g)
  PROVE  /\ infoOf' = infoOf /\ \A i \in Watches : info'[i].watches = info[i].watches
         /\ \A w \in Watches : pc'[w] = pc[w] \/ MakeStep(w) \/ AddStep(w)
<1>0. /\ pc \in [Goroutines -> WatchPcs \union CancelPcs] /\ info \in [Watches -> InfoTypes]
      /\ \A w \in Watches : w \in Goroutines /\ w \notin Cancels
  BY Constants DEF IInv, TypeOK, InfoTypes
<1> USE DEF infoVars, watchVars
<1>1. CASE UNCHANGED vars
  BY <1>1 DEF vars
<1>2. ASSUME NEW w \in Watches, MakeStep(w)
      PROVE  /\ infoOf' = infoOf /\ \A i \in Watches : info'[i].watches = info[i].watches
             /\ \A v \in Watches : v # w => pc'[v] = pc[v]
  BY <1>0, <1>2 DEF MakeStep, WatchName, FindInfo, NewNameInfo, NewNameInfoFails, CheckCurrentOwner, OwnerFound, Goto, InfoTypes
<1>3. ASSUME NEW w \in Watches, AddStep(w)
      PROVE  infoOf' = infoOf /\ info' = info /\ \A v \in Watches : v # w => pc'[v] = pc[v]
  BY <1>0, <1>3 DEF AddStep, AddMatch, AddMatchReturns, AddMatchFails, Goto
<1>4. ASSUME NEW k \in Cancels, TakeStep(k)
      PROVE  infoOf' = infoOf /\ info' = info /\ \A v \in Watches : pc'[v] = pc[v]
  BY <1>0, <1>4 DEF TakeStep, CallCancel, CancelAgain, Cancel, RemoveMatch, RemoveMatchReturns,
     RemoveMatchFails, CloseChannel, Goto
<1>5. CASE DispatchStep \/ OtherStep
  BY <1>5 DEF DispatchStep, ReadMessage, DispatchReply, DispatchSignal, DispatchOwnerChanged,
     OtherStep, Receives, BusServes, OwnerChanges, Emit
<1>6. CASE TellStep
  <2>1. infoOf' = infoOf /\ pc' = pc
    BY <1>6 DEF TellStep, HandleOwnerChange, TellNameWatch, TellSignalWatch, CancelFromLoop, RemoveFromLoop,
       AllTold, CallbacksDone
  <2>2. info' = info \/ AllTold \/ \E i \in Watches : HandleOwnerChange(i)
    BY <1>6 DEF TellStep, TellNameWatch, TellSignalWatch, CancelFromLoop, RemoveFromLoop, CallbacksDone
  <2>3. CASE AllTold
    BY <1>0, <2>1, <2>3 DEF AllTold, InfoTypes
  <2>4. ASSUME NEW i \in Watches, HandleOwnerChange(i) PROVE \A j \in Watches : info'[j].watches = info[j].watches
    BY <1>0, <2>4 DEF HandleOwnerChange, InfoTypes
  <2> QED
    BY <2>1, <2>2, <2>3, <2>4
<1> QED
  BY <1>1, <1>2, <1>3, <1>4, <1>5, <1>6, Steps

LEMMA CancellingStays ==
  ASSUME TypeOK, [Next]_vars, NEW w \in Watches, Cancelling(w)
  PROVE  Cancelling(w)'
<1>0. /\ pc \in [Goroutines -> WatchPcs \union CancelPcs]
      /\ \A v \in Watches : v \in Goroutines /\ v \notin Cancels
      /\ \A j \in Cancels : j \in Goroutines /\ j \notin Watches
  BY Constants DEF TypeOK
<1>. PICK k \in Cancels : WatchOf[k] = w /\ pc[k] \notin {"new", "locking"}
  BY DEF Cancelling
<1>1. ASSUME NEW v \in Watches, MakeStep(v) \/ AttachStep(v) \/ AddStep(v) PROVE pc'[k] = pc[k]
  BY <1>0, <1>1 DEF MakeStep, WatchName, FindInfo, NewNameInfo, NewNameInfoFails, CheckCurrentOwner, OwnerFound,
     AttachStep, Attach, AttachCancels, AddStep, AddMatch, AddMatchReturns, AddMatchFails, Goto
<1>2. ASSUME NEW g \in Goroutines, RemoveStep(g) PROVE pc'[k] \notin {"new", "locking"}
  BY <1>0, <1>2 DEF RemoveStep, RemoveNameWatch, NotFound, DetachOne, DetachLast, OwnerRuleRemoved, OwnerRuleKept,
     AfterRemove, Goto
<1>3. ASSUME NEW j \in Cancels, TakeStep(j) PROVE pc'[k] \notin {"new", "locking"}
  BY <1>0, <1>3 DEF TakeStep, CallCancel, CancelAgain, Cancel, RemoveMatch, RemoveMatchReturns,
     RemoveMatchFails, CloseChannel, Goto
<1>4. UNCHANGED vars \/ DispatchStep \/ TellStep \/ OtherStep => pc' = pc
  BY DEF vars, DispatchStep, ReadMessage, DispatchReply, DispatchSignal, DispatchOwnerChanged,
     OtherStep, Receives, BusServes, OwnerChanges, Emit, TellStep, HandleOwnerChange, TellNameWatch,
     TellSignalWatch, CancelFromLoop, RemoveFromLoop, AllTold, CallbacksDone
<1>5. pc'[k] \notin {"new", "locking"}
  BY <1>1, <1>2, <1>3, <1>4, Steps
<1> QED
  BY <1>5 DEF Cancelling

\* A watch in force is on the list of its nameInfo.
LEMMA StepHung ==
  ASSUME IInv, StillHung, [Next]_vars
  PROVE  StillHung'
<1>0. /\ pc \in [Goroutines -> WatchPcs \union CancelPcs] /\ info \in [Watches -> InfoTypes]
      /\ infoOf \in [Watches -> Watches \union {None}]
      /\ \A w \in Watches : w \in Goroutines /\ w \notin Cancels
      /\ TypeOK /\ PlaceInv /\ HangInv
  BY Constants DEF IInv, TypeOK, InfoTypes
<1> SUFFICES ASSUME NEW w \in Watches, pc'[w] \notin NotYet \union {"failed", "removingOwnerRule"}, ~ Cancelling(w)'
             PROVE  infoOf'[w] \in Watches /\ w \in info'[infoOf'[w]].watches
  BY DEF StillHung
<1>1. ~ Cancelling(w)
  BY <1>0, CancellingStays
<1>2. ASSUME NEW v \in Watches, AttachStep(v) PROVE infoOf'[w] \in Watches /\ w \in info'[infoOf'[w]].watches
  <2>1. /\ nameInfo \in Watches /\ infoOf' = [infoOf EXCEPT ![v] = nameInfo]
        /\ \A u \in Watches \ {v} : pc'[u] = pc[u]
    BY <1>0, <1>2 DEF AttachStep, Attach, AttachCancels, Goto, PlaceInv
  <2>2. v \in info'[nameInfo].watches /\ \A i \in Watches : info[i].watches \subseteq info'[i].watches
    BY <1>0, <1>2, <2>1 DEF AttachStep, Attach, AttachCancels, InfoTypes
  <2> QED
    BY <1>0, <1>1, <2>1, <2>2 DEF StillHung
<1>3. ASSUME NEW g \in Goroutines, RemoveStep(g) PROVE infoOf'[w] \in Watches /\ w \in info'[infoOf'[w]].watches
  <2>1. infoOf' = infoOf /\ \A u \in Watches \ {g} : pc'[u] = pc[u]
    BY <1>0, <1>3 DEF RemoveStep, RemoveNameWatch, NotFound, DetachOne, DetachLast, OwnerRuleRemoved, OwnerRuleKept,
       Goto, watchVars
  <2>2. pc[w] \notin NotYet \union {"failed", "removingOwnerRule"}
    BY <1>0, <1>3, <2>1 DEF RemoveStep, RemoveNameWatch, NotFound, DetachOne, DetachLast, OwnerRuleRemoved, OwnerRuleKept,
       AfterRemove, Goto, NotYet
  <2>3. infoOf[w] \in Watches /\ w \in info[infoOf[w]].watches
    BY <1>1, <2>2 DEF StillHung
  <2>4. CASE DetachOne(g) \/ DetachLast(g)
    <3>1. pc[g] = "toDetach" /\ pc'[g] \in {AfterRemove(g), "removingOwnerRule"}
      BY <1>0, <2>4 DEF DetachOne, DetachLast, Goto
    <3>2. WatchBy(g) # w
      <4>1. CASE g \in Watches
        BY <1>0, <3>1, <4>1, Constants DEF AfterRemove
      <4>2. CASE g \in Cancels
        BY <1>1, <3>1, <4>2, Constants DEF Cancelling
      <4> QED
        BY <4>1, <4>2 DEF Goroutines
    <3>. PICK i, v : i \in Watches /\ i = infoOf[v] /\ v = WatchBy(g)
      BY <1>0, <3>1, TakenFromInfo DEF HangInv
    <3>3. \A j \in Watches : info[j].watches \subseteq info'[j].watches \union {v}
      BY <1>0, <2>4 DEF DetachOne, DetachLast, InfoTypes
    <3> QED
      BY <2>1, <2>3, <3>2, <3>3
  <2>5. CASE RemoveNameWatch(g) \/ NotFound(g)
    BY <2>1, <2>3, <2>5 DEF RemoveNameWatch, NotFound
  <2>6. CASE OwnerRuleRemoved(g) \/ OwnerRuleKept(g)
    <3>. PICK i : i = infoOf[WatchBy(g)]
      OBVIOUS
    <3>1. info' = [info EXCEPT ![i].lock = None]
      BY <2>6 DEF OwnerRuleRemoved, OwnerRuleKept, Released
    <3> QED
      BY <1>0, <2>1, <2>3, <3>1 DEF InfoTypes
  <2> QED
    BY <1>3, <2>4, <2>5, <2>6 DEF RemoveStep
<1>4. ASSUME ~ \E v \in Watches : AttachStep(v), ~ \E g \in Goroutines : RemoveStep(g)
      PROVE  infoOf'[w] \in Watches /\ w \in info'[infoOf'[w]].watches
  <2>1. /\ infoOf' = infoOf /\ \A i \in Watches : info'[i].watches = info[i].watches
        /\ pc'[w] = pc[w] \/ MakeStep(w) \/ AddStep(w)
    BY <1>4, ListsKept
  <2>2. pc[w] \notin NotYet \union {"failed", "removingOwnerRule"}
    BY <1>0, <2>1 DEF MakeStep, WatchName, FindInfo, NewNameInfo, NewNameInfoFails, CheckCurrentOwner, OwnerFound,
       AddStep, AddMatch, AddMatchReturns, AddMatchFails, Goto, NotYet
  <2> QED
    BY <1>1, <2>1, <2>2 DEF StillHung
<1> QED
  BY <1>2, <1>3, <1>4

\* A step that tells nobody anything, and changes the owner of no nameInfo in use.
LEMMA StillWatched ==
  ASSUME WatchedInv, StillHung', senderOwner' = senderOwner, name'.unique = name.unique,
         \A w \in NameWatchers :
            /\ Tells(w)' = Tells(w) /\ (BeingTold(w)' <=> BeingTold(w))
            /\ pc'[w] \in NotYet => pc[w] \in NotYet /\ told'[w] = told[w],
         ~ name.unique => \A w \in SignalWatchers : BeingTold(w)' <=> BeingTold(w),
         \A w \in NameWatchers : BeingTold(w) => loop'.msg = loop.msg,
         \A i \in Watches : /\ info'[i].watches \subseteq info[i].watches
                            /\ info'[i].watches # {} => info'[i].currentOwner = info[i].currentOwner
  PROVE  WatchedInv'
<1>1. \A w \in NameWatchers : LastTold(w)' = LastTold(w)
  BY DEF LastTold
<1>2. NewUntold'
  BY DEF WatchedInv, NewUntold
<1>3. ToldInv'
  <2> SUFFICES ASSUME NEW w \in NameWatchers
               PROVE  /\ BeingTold(w)' => Tells(w)' # <<>> /\ OwnerAt(LastTold(w)') + 1 = loop'.msg.owner
                      /\ \A i \in Watches : w \in info'[i].watches /\ ~ BeingTold(w)' =>
                            Tells(w)' # <<>> /\ LastTold(w)' = info'[i].currentOwner
    BY DEF ToldInv
  <2>1. BeingTold(w)' => Tells(w)' # <<>> /\ OwnerAt(LastTold(w)') + 1 = loop'.msg.owner
    BY <1>1 DEF WatchedInv, ToldInv
  <2>2. ASSUME NEW i \in Watches, w \in info'[i].watches, ~ BeingTold(w)'
        PROVE  Tells(w)' # <<>> /\ LastTold(w)' = info'[i].currentOwner
    BY <1>1, <2>2 DEF WatchedInv, ToldInv
  <2> QED
    BY <2>1, <2>2
<1>4. TakenDown'
  BY DEF WatchedInv, TakenDown
<1>5. OwnersInOrder'
  BY DEF WatchedInv, OwnersInOrder
<1> QED
  BY <1>2, <1>3, <1>4, <1>5 DEF WatchedInv

\* The steps of a goroutine that does not join a nameInfo.
LEMMA GoroutineWatched ==
  ASSUME IInv, WatchedInv, StillHung', NEW g \in Goroutines,
         \/ g \in Watches /\ (MakeStep(g) \/ AddStep(g))
         \/ RemoveStep(g)
         \/ g \in Cancels /\ TakeStep(g)
  PROVE  WatchedInv'
<1>0. /\ pc \in [Goroutines -> WatchPcs \union CancelPcs] /\ info \in [Watches -> InfoTypes]
      /\ \A w \in Watches : w \in Goroutines /\ w \notin Cancels /\ w # None
      /\ \A w \in NameWatchers : w \in Watches
      /\ TypeOK /\ PlaceInv /\ HangInv
  BY Constants DEF IInv, TypeOK, InfoTypes, Watches
<1>1. UNCHANGED <<C, told, senderOwner, loop, name>> /\ \A h \in Goroutines \ {g} : pc'[h] = pc[h]
  <2>1. CASE g \in Watches /\ (MakeStep(g) \/ AddStep(g))
    BY <1>0, <2>1 DEF MakeStep, WatchName, FindInfo, NewNameInfo, NewNameInfoFails, CheckCurrentOwner, OwnerFound,
       AddStep, AddMatch, AddMatchReturns, AddMatchFails, Goto, watchVars, busVars
  <2>2. CASE RemoveStep(g)
    BY <1>0, <2>2 DEF RemoveStep, RemoveNameWatch, NotFound, DetachOne, DetachLast, OwnerRuleRemoved, OwnerRuleKept,
       Goto, watchVars, busVars
  <2>3. CASE g \in Cancels /\ TakeStep(g)
    BY <1>0, <2>3 DEF TakeStep, CallCancel, CancelAgain, Cancel, RemoveMatch, RemoveMatchReturns,
       RemoveMatchFails, CloseChannel, Goto, watchVars, busVars
  <2> QED
    BY <2>1, <2>2, <2>3
<1>2. g \in Watches => (pc'[g] \in NotYet => pc[g] \in NotYet)
  <2>1. CASE g \in Watches /\ (MakeStep(g) \/ AddStep(g))
    BY <1>0, <2>1 DEF MakeStep, WatchName, FindInfo, NewNameInfo, NewNameInfoFails, CheckCurrentOwner, OwnerFound,
       AddStep, AddMatch, AddMatchReturns, AddMatchFails, Goto, NotYet
  <2>2. CASE g \in Watches /\ RemoveStep(g)
    BY <1>0, <2>2 DEF RemoveStep, RemoveNameWatch, NotFound, DetachOne, DetachLast, OwnerRuleRemoved, OwnerRuleKept,
       AfterRemove, Goto, NotYet
  <2> QED
    BY <1>0, <2>1, <2>2
<1>3. \A i \in Watches : /\ info'[i].watches \subseteq info[i].watches
                         /\ info'[i].watches # {} => info'[i].currentOwner = info[i].currentOwner
  <2>1. CASE g \in Watches /\ OwnerFound(g)
    <3>1. info[g].watches = {}
      BY <1>0, <2>1 DEF OwnerFound, Goto, PlaceInv, IInv, SharedInv, OnlyInfo
    <3> QED
      BY <1>0, <2>1, <3>1 DEF OwnerFound, InfoTypes
  <2>2. CASE g \in Watches /\ ~ OwnerFound(g) /\ (MakeStep(g) \/ AddStep(g))
    BY <2>2 DEF MakeStep, WatchName, FindInfo, NewNameInfo, NewNameInfoFails, CheckCurrentOwner,
       AddStep, AddMatch, AddMatchReturns, AddMatchFails, infoVars
  <2>3. CASE g \in Cancels /\ TakeStep(g)
    BY <2>3 DEF TakeStep, CallCancel, CancelAgain, Cancel, RemoveMatch, RemoveMatchReturns,
       RemoveMatchFails, CloseChannel, infoVars
  <2>4. CASE RemoveNameWatch(g) \/ NotFound(g)
    BY <2>4 DEF RemoveNameWatch, NotFound
  <2>5. CASE DetachOne(g)
    BY <1>0, <2>5 DEF DetachOne, InfoTypes
  <2>6. CASE DetachLast(g)
    BY <1>0, <2>6 DEF DetachLast, InfoTypes
  <2>7. CASE OwnerRuleRemoved(g) \/ OwnerRuleKept(g)
    <3>. PICK i : i = infoOf[WatchBy(g)]
      OBVIOUS
    <3>1. info' = [info EXCEPT ![i].lock = None]
      BY <2>7 DEF OwnerRuleRemoved, OwnerRuleKept, Released
    <3> QED
      BY <1>0, <3>1 DEF InfoTypes
  <2> QED
    BY <2>1, <2>2, <2>3, <2>4, <2>5, <2>6, <2>7 DEF RemoveStep
<1>4. \A w \in Watches : (BeingTold(w)' <=> BeingTold(w)) /\ (pc'[w] \in NotYet => pc[w] \in NotYet)
  BY <1>0, <1>1, <1>2 DEF BeingTold
<1> QED
  BY <1>0, <1>1, <1>3, <1>4, StillWatched DEF Tells, Watches

\* The loop hands on the next change: it follows what the watches were told last.
LEMMA HandleWatched ==
  ASSUME IInv, StreamInv, WatchedInv, StillHung', NEW i \in Watches, HandleOwnerChange(i)
  PROVE  WatchedInv'
<1>0. /\ TypeOK /\ info \in [Watches -> InfoTypes]
      /\ \A w \in NameWatchers \union SignalWatchers : w \in Watches
      /\ loop.at = "callbacks" /\ i \in loop.infos /\ Handling(i)
  BY DEF IInv, TypeOK, InfoTypes, Watches, HandleOwnerChange, Handling
<1>1. /\ UNCHANGED <<pc, C, told, senderOwner, name>>
      /\ loop'.at = "telling" /\ loop'.msg = loop.msg /\ loop'.watches = info[i].watches
      /\ \A j \in Watches : info'[j].watches = info[j].watches
      /\ \A j \in Watches \ {i} : info'[j].currentOwner = info[j].currentOwner
      /\ info'[i].currentOwner = loop.msg.owner
  BY <1>0 DEF HandleOwnerChange, TypeOK, InfoTypes, watchVars, busVars
<1>2. \A w : ~ BeingTold(w) /\ (BeingTold(w)' <=> w \in info[i].watches)
  BY <1>0, <1>1 DEF BeingTold
<1>3. CASE info[i].watches = {}
  BY <1>0, <1>1, <1>2, <1>3, StillWatched DEF Tells
<1>4. CASE info[i].watches # {}
  <2>1. i = nameInfo /\ info[i].currentOwner # Unknown /\ Active(i)
    BY <1>4, Constants DEF IInv, SharedInv, OnlyInfo, KnownInfo, Active
  <2>2. OwnerAt(info[i].currentOwner) + 1 = loop.msg.owner
    <3>. PICK c : c = OwnerAt(info[i].currentOwner)
      OBVIOUS
    <3>1. c \in OwnersOf /\ c \in Int
      BY <1>0, <2>1, KnownOwner, WhoseOwner
    <3>2. IsChange(loop.msg) /\ Carries(loop.msg) /\ loop.msg.owner \in Int /\ name.owner \in Int
      BY <1>0, StreamTypes DEF StreamInv, TellsInv
    <3>3. c < loop.msg.owner /\ (NextSent(c, 0) \/ loop.msg.owner = c + 1)
      BY <1>0, <2>1, <3>2 DEF StreamInv, KnownInv, UpToDate, After
    <3>4. /\ loop.msg.owner <= name.owner
          /\ \A p \in 1..Len(fromBus) : Carries(fromBus[p]) => After(loop.msg.owner, fromBus[p])
      BY <1>0, <3>2 DEF StreamInv, OrderedInv
    <3>5. ASSUME NEW p \in 1..Len(fromBus), ChangeTo(c + 1, fromBus, p) PROVE FALSE
      <4>1. Carries(fromBus[p]) /\ IsChange(fromBus[p]) /\ fromBus[p].owner = c + 1
        BY <1>0, <3>5, StreamTypes DEF ChangeTo
      <4>2. loop.msg.owner < c + 1
        BY <3>4, <4>1 DEF After
      <4> QED
        BY <3>1, <3>2, <3>3, <4>2
    <3> QED
      BY <3>1, <3>2, <3>3, <3>4, <3>5 DEF NextSent
  <2>3. \A j \in Watches : info[j].watches # {} => j = i
    BY <2>1 DEF IInv, SharedInv, OnlyInfo
  <2>4. \A w \in NameWatchers : Tells(w)' = Tells(w) /\ LastTold(w)' = LastTold(w)
    BY <1>1 DEF Tells, LastTold
  <2>5. NewUntold'
    BY <1>0, <1>1, <1>2 DEF WatchedInv, NewUntold, IInv, HangInv, HangsOnOne
  <2>6. ToldInv'
    <3> SUFFICES ASSUME NEW w \in NameWatchers
                 PROVE  /\ BeingTold(w)' => Tells(w)' # <<>> /\ OwnerAt(LastTold(w)') + 1 = loop'.msg.owner
                        /\ \A j \in Watches : w \in info'[j].watches /\ ~ BeingTold(w)' =>
                              Tells(w)' # <<>> /\ LastTold(w)' = info'[j].currentOwner
      BY DEF ToldInv
    <3>1. BeingTold(w)' => Tells(w)' # <<>> /\ OwnerAt(LastTold(w)') + 1 = loop'.msg.owner
      BY <1>1, <1>2, <2>2, <2>4 DEF WatchedInv, ToldInv
    <3>2. \A j \in Watches : w \in info'[j].watches => BeingTold(w)'
      BY <1>1, <1>2, <2>3
    <3> QED
      BY <3>1, <3>2
  <2>7. TakenDown'
    BY <1>1, <1>2, <2>3 DEF TakenDown
  <2>8. OwnersInOrder'
    BY <2>4 DEF WatchedInv, OwnersInOrder
  <2> QED
    BY <2>5, <2>6, <2>7, <2>8 DEF WatchedInv
<1> QED
  BY <1>3, <1>4

\* A watch that the loop is telling hangs on the nameInfo whose lock it holds.
LEMMA ToldHangs ==
  ASSUME HangInv, LoopInv, NEW w \in loop.watches, loop.at = "telling", NEW i \in Watches, w \in info[i].watches
  PROVE  i = loop.info
BY DEF LoopInv, HangInv, HangsOnOne

LEMMA AppendOwner ==
  ASSUME NEW s \in Seq(Views), NEW o \in Views
  PROVE  /\ s \o <<>> = s /\ s \o Append(<<>>, o) = Append(s, o)
         /\ Append(s, o) # <<>> /\ Len(Append(s, o)) = Len(s) + 1 /\ Append(s, o)[Len(s) + 1] = o
         /\ \A p \in 1..Len(s) : Append(s, o)[p] = s[p]
OBVIOUS

LEMMA NameWatchTold ==
  ASSUME IInv, StreamInv, WatchedInv, StillHung', NEW w \in NameWatchers, TellNameWatch(w)
  PROVE  WatchedInv'
<1>. PICK o, s : o = loop.msg.owner /\ s = told[w]
  OBVIOUS
<1>0. /\ TypeOK /\ HangInv /\ LoopInv /\ w \in Watches /\ w \in loop.watches /\ loop.at = "telling"
      /\ C[w] = <<>> /\ told[w] \in Seq(Views) /\ C \in [NameWatchers -> Seq(Views)]
      /\ o \in OwnersOf /\ o \in Int /\ info[loop.info].currentOwner = o /\ BeingTold(w)
      /\ \A v \in NameWatchers \union SignalWatchers : v \in Watches
  BY StreamTypes DEF IInv, TypeOK, Watches, TellNameWatch, StreamInv, TellsInv, BeingTold
<1>1. /\ UNCHANGED <<pc, told, senderOwner, name, info>>
      /\ C' = [C EXCEPT ![w] = Append(<<>>, o)]
      /\ loop'.at = "telling" /\ loop'.msg = loop.msg /\ loop'.watches = loop.watches \ {w}
  BY <1>0 DEF TellNameWatch, TypeOK, infoVars, busVars
<1>2. /\ ~ BeingTold(w)'
      /\ \A v : v # w => (BeingTold(v)' <=> BeingTold(v))
  BY <1>0, <1>1 DEF BeingTold
<1>a. /\ s \o <<>> = s /\ s \o Append(<<>>, o) = Append(s, o) /\ Len(s) \in Nat
      /\ Append(s, o) # <<>> /\ Len(Append(s, o)) = Len(s) + 1 /\ Append(s, o)[Len(s) + 1] = o
      /\ \A p \in 1..Len(s) : Append(s, o)[p] = s[p]
  <2>1. s \in Seq(Views) /\ o \in Views
    BY <1>0, WhoseOwner
  <2>2. Len(s) \in Nat
    BY <2>1
  <2> QED
    BY <2>1, <2>2, AppendOwner
<1>3. Tells(w) = s /\ Tells(w)' = Append(s, o)
  BY <1>0, <1>1, <1>a DEF Tells
<1>4. \A v \in NameWatchers : v # w => Tells(v)' = Tells(v) /\ LastTold(v)' = LastTold(v)
  BY <1>0, <1>1 DEF Tells, LastTold
<1>5. s # <<>> /\ OwnerAt(s[Len(s)]) + 1 = o /\ LastTold(w)' = o /\ Tells(w)' # <<>>
  BY <1>0, <1>3, <1>a DEF LastTold, WatchedInv, ToldInv
<1>6. NewUntold'
  BY <1>1, <1>2 DEF WatchedInv, NewUntold
<1>7. ToldInv'
  <2> SUFFICES ASSUME NEW v \in NameWatchers
               PROVE  /\ BeingTold(v)' => Tells(v)' # <<>> /\ OwnerAt(LastTold(v)') + 1 = loop'.msg.owner
                      /\ \A j \in Watches : v \in info'[j].watches /\ ~ BeingTold(v)' =>
                            Tells(v)' # <<>> /\ LastTold(v)' = info'[j].currentOwner
    BY DEF ToldInv
  <2>1. CASE v = w
    BY <1>0, <1>1, <1>2, <1>5, <2>1, ToldHangs
  <2>2. CASE v # w
    BY <1>1, <1>2, <1>4, <2>2 DEF WatchedInv, ToldInv
  <2> QED
    BY <2>1, <2>2
<1>8. TakenDown'
  BY <1>0, <1>1, <1>2, NameAssumption DEF WatchedInv, TakenDown
<1>9. OwnersInOrder'
  <2> SUFFICES ASSUME NEW v \in NameWatchers, NEW p \in 1..Len(Tells(v)') - 1
               PROVE  Tells(v)'[p + 1] = OwnerAt(Tells(v)'[p]) + 1
    BY DEF OwnersInOrder
  <2>1. CASE v = w
    <3>1. p \in 1..Len(s) /\ p \in Int /\ Len(s) \in Nat
      BY <1>0, <1>3, <1>a, <2>1
    <3>2. CASE p = Len(s)
      BY <1>3, <1>a, <1>5, <2>1, <3>1, <3>2
    <3>3. CASE p # Len(s)
      <4>1. p \in 1..Len(s) - 1 /\ p + 1 \in 1..Len(s)
        BY <3>1, <3>3
      <4>2. s[p + 1] = OwnerAt(s[p]) + 1
        BY <1>3, <4>1 DEF WatchedInv, OwnersInOrder
      <4> QED
        BY <1>3, <1>a, <2>1, <3>1, <4>1, <4>2
    <3> QED
      BY <3>2, <3>3
  <2>2. CASE v # w
    BY <1>4, <2>2 DEF WatchedInv, OwnersInOrder
  <2> QED
    BY <2>1, <2>2
<1> QED
  BY <1>6, <1>7, <1>8, <1>9 DEF WatchedInv

LEMMA SignalWatchTold ==
  ASSUME IInv, StreamInv, WatchedInv, StillHung', NEW w \in SignalWatchers, TellSignalWatch(w)
  PROVE  WatchedInv'
<1>0. /\ TypeOK /\ HangInv /\ LoopInv /\ w \in Watches /\ w \in loop.watches /\ loop.at = "telling"
      /\ senderOwner \in [SignalWatchers -> Views \union {Unknown}]
      /\ info[loop.info].currentOwner = loop.msg.owner
      /\ \A v \in NameWatchers : v \in Watches /\ v # w
  BY NameAssumption DEF IInv, TypeOK, Watches, TellSignalWatch, StreamInv, TellsInv
<1>1. /\ UNCHANGED <<pc, told, C, name, info>>
      /\ senderOwner' = [senderOwner EXCEPT ![w] = IF name.unique THEN @ ELSE loop.msg.owner]
      /\ loop'.at = "telling" /\ loop'.msg = loop.msg /\ loop'.watches = loop.watches \ {w}
  BY <1>0 DEF TellSignalWatch, TypeOK, infoVars, busVars
<1>2. \A v : v # w => (BeingTold(v)' <=> BeingTold(v))
  BY <1>0, <1>1 DEF BeingTold
<1>3. \A v \in NameWatchers : Tells(v)' = Tells(v) /\ LastTold(v)' = LastTold(v)
  BY <1>1 DEF Tells, LastTold
<1>4. NewUntold'
  BY <1>0, <1>1, <1>2 DEF WatchedInv, NewUntold
<1>5. ToldInv'
  <2> SUFFICES ASSUME NEW v \in NameWatchers
               PROVE  /\ BeingTold(v)' => Tells(v)' # <<>> /\ OwnerAt(LastTold(v)') + 1 = loop'.msg.owner
                      /\ \A j \in Watches : v \in info'[j].watches /\ ~ BeingTold(v)' =>
                            Tells(v)' # <<>> /\ LastTold(v)' = info'[j].currentOwner
    BY DEF ToldInv
  <2> QED
    BY <1>0, <1>1, <1>2, <1>3 DEF WatchedInv, ToldInv
<1>6. TakenDown'
  <2> SUFFICES ASSUME NEW v \in SignalWatchers, NEW i \in Watches, ~ name.unique, v \in info[i].watches, ~ BeingTold(v)'
               PROVE  senderOwner'[v] = info[i].currentOwner
    BY <1>1 DEF TakenDown
  <2>1. CASE v = w
    BY <1>0, <1>1, <2>1, ToldHangs
  <2>2. CASE v # w
    BY <1>0, <1>1, <1>2, <2>2 DEF WatchedInv, TakenDown
  <2> QED
    BY <2>1, <2>2
<1>7. OwnersInOrder'
  BY <1>3 DEF WatchedInv, OwnersInOrder
<1> QED
  BY <1>4, <1>5, <1>6, <1>7 DEF WatchedInv

\* The other steps of the loop.
LEMMA LoopWatched ==
  ASSUME IInv, StreamInv, WatchedInv, StillHung', DispatchStep \/ TellStep
  PROVE  WatchedInv'
<1>0. /\ info \in [Watches -> InfoTypes]
      /\ \A w \in NameWatchers : w \in Watches /\ w \notin SignalWatchers
      /\ \A w \in SignalWatchers : w \in Watches
      /\ loop.at = "telling" => loop.info \in Watches
      /\ TypeOK
  BY NameAssumption DEF IInv, TypeOK, InfoTypes, Watches, LoopInv
<1>1. CASE DispatchStep
  <2>1. UNCHANGED <<pc, C, told, senderOwner, name, info>>
    BY <1>1 DEF DispatchStep, ReadMessage, DispatchReply, DispatchSignal, DispatchOwnerChanged, infoVars, watchVars, busVars
  <2>2. \A w : ~ BeingTold(w) /\ ~ BeingTold(w)'
    <3>1. loop.at \in {"read", "dispatch"} /\ loop'.at \in {"read", "dispatch", "callbacks"}
      <4>1. CASE ReadMessage
        BY <1>0, <4>1 DEF ReadMessage, TypeOK
      <4>2. CASE DispatchReply \/ DispatchSignal
        BY <4>2 DEF DispatchReply, DispatchSignal, Reading
      <4>3. CASE DispatchOwnerChanged
        BY <1>0, <4>3 DEF DispatchOwnerChanged, TypeOK
      <4> QED
        BY <1>1, <4>1, <4>2, <4>3 DEF DispatchStep
    <3> QED
      BY <3>1 DEF BeingTold
  <2> QED
    BY <2>1, <2>2, StillWatched DEF Tells
<1>2. ASSUME NEW w \in Watches, CancelFromLoop(w) PROVE WatchedInv'
  <2>1. UNCHANGED <<pc, C, told, senderOwner, name, info>> /\ name.unique /\ w \in SignalWatchers
    BY <1>2 DEF CancelFromLoop, infoVars, busVars
  <2>2. loop'.msg = loop.msg /\ \A v : v # w => (BeingTold(v)' <=> BeingTold(v))
    BY <1>0, <1>2 DEF BeingTold, CancelFromLoop, TypeOK
  <2> QED
    BY <1>0, <2>1, <2>2, StillWatched DEF Tells
<1>3. CASE RemoveFromLoop \/ AllTold \/ CallbacksDone
  <2>1. UNCHANGED <<pc, C, told, senderOwner, name>>
    BY <1>3 DEF RemoveFromLoop, AllTold, CallbacksDone, watchVars, busVars
  <2>2. \A w : /\ BeingTold(w)' <=> BeingTold(w)
               /\ BeingTold(w) => loop'.msg = loop.msg
    <3>1. CASE RemoveFromLoop
      BY <1>0, <3>1 DEF BeingTold, RemoveFromLoop, TypeOK
    <3>2. CASE AllTold
      BY <1>0, <3>2 DEF BeingTold, AllTold, TypeOK
    <3>3. CASE CallbacksDone
      BY <3>3 DEF BeingTold, CallbacksDone, Reading
    <3> QED
      BY <1>3, <3>1, <3>2, <3>3
  <2>3. \A i \in Watches : info'[i].watches = info[i].watches /\ info'[i].currentOwner = info[i].currentOwner
    BY <1>0, <1>3 DEF RemoveFromLoop, AllTold, CallbacksDone, InfoTypes, infoVars
  <2> QED
    BY <2>1, <2>2, <2>3, StillWatched DEF Tells
<1> QED
  BY <1>1, <1>2, <1>3, HandleWatched, NameWatchTold, SignalWatchTold DEF TellStep, TellNameWatch, TellSignalWatch

LEMMA HeadMoved ==
  ASSUME NEW S, NEW s \in Seq(S), NEW t \in Seq(S), t # <<>>
  PROVE  Append(s, Head(t)) \o Tail(t) = s \o t
<1>. PICK h, u : h = Head(t) /\ u = Tail(t)
  OBVIOUS
<1>1. h \in S /\ u \in Seq(S) /\ <<h>> \in Seq(S) /\ t = <<h>> \o u
  OBVIOUS
<1>2. (s \o <<h>>) \o u = s \o (<<h>> \o u)
  BY <1>1, ConcatAssociative
<1>3. Append(s, h) = s \o <<h>>
  BY <1>1, AppendIsConcat
<1> QED
  BY <1>1, <1>2, <1>3

\* What the application receives it was told before.
LEMMA OtherWatched ==
  ASSUME IInv, WatchedInv, StillHung', OtherStep
  PROVE  WatchedInv'
<1>0. /\ pc \in [Goroutines -> WatchPcs \union CancelPcs] /\ TypeOK
      /\ C \in [NameWatchers -> Seq(Views)] /\ told \in [NameWatchers -> Seq(Views)]
      /\ name \in [unique : BOOLEAN, owner : OwnersOf]
  BY DEF IInv, TypeOK
<1>1. UNCHANGED <<pc, senderOwner, info, loop>> /\ name'.unique = name.unique
  BY <1>0 DEF OtherStep, Receives, BusServes, OwnerChanges, Emit, infoVars, watchVars, busVars
<1>2. \A w : BeingTold(w)' <=> BeingTold(w)
  BY <1>1 DEF BeingTold
<1>3. ASSUME NEW w \in NameWatchers, Receives(w) PROVE WatchedInv'
  <2>1. /\ pc[w] = "watching" /\ told' = [told EXCEPT ![w] = Append(told[w], Head(C[w]))]
        /\ C' = [C EXCEPT ![w] = Tail(C[w])] /\ C[w] # <<>>
    BY <1>0, <1>3 DEF Receives
  <2>2. Append(told[w], Head(C[w])) \o Tail(C[w]) = told[w] \o C[w]
    <3>1. told[w] \in Seq(Views) /\ C[w] \in Seq(Views)
      BY <1>0
    <3> QED
      BY <2>1, <3>1, HeadMoved
  <2>3. \A v \in NameWatchers : Tells(v)' = Tells(v)
    BY <1>0, <2>1, <2>2 DEF Tells
  <2>4. \A v \in NameWatchers : pc'[v] \in NotYet => pc[v] \in NotYet /\ told'[v] = told[v]
    BY <1>0, <1>1, <2>1 DEF NotYet
  <2> QED
    BY <1>1, <1>2, <2>3, <2>4, StillWatched
<1>4. CASE (\E call \in calls : BusServes(call)) \/ OwnerChanges \/ Emit
  <2>1. UNCHANGED <<told, C>>
    BY <1>4 DEF BusServes, OwnerChanges, Emit, watchVars
  <2> QED
    BY <1>1, <1>2, <2>1, StillWatched DEF Tells
<1> QED
  BY <1>3, <1>4 DEF OtherStep

\* A watch that joins is told the owner that its nameInfo knows.
LEMMA AttachWatched ==
  ASSUME IInv, WatchedInv, StillHung', NEW w \in Watches, AttachStep(w)
  PROVE  WatchedInv'
<1>0. /\ TypeOK /\ PlaceInv /\ HangInv /\ LoopInv /\ SharedInv
      /\ pc \in [Goroutines -> WatchPcs \union CancelPcs] /\ info \in [Watches -> InfoTypes] /\ w \in Goroutines
      /\ C \in [NameWatchers -> Seq(Views)] /\ told \in [NameWatchers -> Seq(Views)]
      /\ senderOwner \in [SignalWatchers -> Views \union {Unknown}]
      /\ \A v \in NameWatchers : v \in Watches /\ v \in Goroutines /\ v \notin SignalWatchers
      /\ \A v \in SignalWatchers : v \in Watches
  BY Constants, NameAssumption DEF IInv, TypeOK, InfoTypes
<1>1. /\ pc[w] = "toAttach" /\ pc'[w] \in {"watching", "toAddMatch", "cancelling"}
      /\ \A v \in Watches \ {w} : pc'[v] = pc[v]
      /\ UNCHANGED <<told, loop, name>> /\ nameInfo \in Watches /\ info[nameInfo].lock = None
  BY <1>0, Constants DEF AttachStep, Attach, AttachCancels, Goto, PlaceInv, busVars
<1>2. \A i \in Watches : info'[i].currentOwner = info[i].currentOwner /\ info'[i].watches \subseteq info[i].watches \union {w}
  <2>1. CASE Attach(w)
    BY <1>0, <1>1, <2>1 DEF Attach, InfoTypes
  <2>2. CASE AttachCancels(w)
    BY <1>0, <1>1, <2>2 DEF AttachCancels, InfoTypes
  <2> QED
    BY <2>1, <2>2 DEF AttachStep
<1>3. info[nameInfo].currentOwner \in Views
  BY <1>0, <1>1, Constants DEF SharedInv, KnownInfo, InfoTypes
<1>4. \A i \in Watches : info'[i].watches # {} => i = nameInfo
  BY <1>0, <1>1 DEF AttachStep, Attach, AttachCancels, InfoTypes, SharedInv, OnlyInfo
<1>5. \A v : BeingTold(v)' <=> BeingTold(v)
  BY <1>1 DEF BeingTold
<1>6. w \in NameWatchers => told[w] = <<>> /\ C[w] = <<>> /\ ~ BeingTold(w)
  BY <1>0, <1>1 DEF WatchedInv, NewUntold, LoopInv, NotYet
<1>7. \A v \in NameWatchers : v # w => Tells(v)' = Tells(v) /\ LastTold(v)' = LastTold(v)
  <2>1. \A v \in NameWatchers : v # w => C'[v] = C[v] /\ told'[v] = told[v]
    BY <1>0, <1>1 DEF AttachStep, Attach, AttachCancels
  <2> QED
    BY <2>1 DEF Tells, LastTold
<1>8. w \in NameWatchers => Tells(w)' = <<info[nameInfo].currentOwner>>
  <2> HAVE w \in NameWatchers
  <2>. PICK o : o = info[nameInfo].currentOwner
    OBVIOUS
  <2>1. o \in Views /\ o # Unknown
    BY <1>3, Constants
  <2>2. C'[w] = Append(<<>>, o) /\ told'[w] = <<>>
    BY <1>0, <1>1, <1>6, <2>1 DEF AttachStep, Attach, AttachCancels
  <2>3. <<>> \o Append(<<>>, o) = <<o>>
    BY <2>1
  <2> QED
    BY <2>2, <2>3 DEF Tells
<1>9. NewUntold'
  BY <1>0, <1>1, <1>5, <1>6 DEF WatchedInv, NewUntold, NotYet
<1>10. ToldInv'
  <2> SUFFICES ASSUME NEW v \in NameWatchers
               PROVE  /\ BeingTold(v)' => Tells(v)' # <<>> /\ OwnerAt(LastTold(v)') + 1 = loop'.msg.owner
                      /\ \A j \in Watches : v \in info'[j].watches /\ ~ BeingTold(v)' =>
                            Tells(v)' # <<>> /\ LastTold(v)' = info'[j].currentOwner
    BY DEF ToldInv
  <2>1. CASE v = w
    <3>. PICK o : o = info[nameInfo].currentOwner
      OBVIOUS
    <3>1. Tells(w)' = <<o>>
      BY <1>8, <2>1
    <3>2. <<o>> # <<>> /\ <<o>>[Len(<<o>>)] = o
      OBVIOUS
    <3>3. LastTold(w)' = o /\ Tells(w)' # <<>>
      BY <3>1, <3>2 DEF LastTold
    <3> QED
      BY <1>2, <1>4, <1>5, <1>6, <2>1, <3>3
  <2>2. CASE v # w
    BY <1>1, <1>2, <1>5, <1>7, <2>2 DEF WatchedInv, ToldInv
  <2> QED
    BY <2>1, <2>2
<1>11. TakenDown'
  <2> SUFFICES ASSUME NEW v \in SignalWatchers, NEW i \in Watches, ~ name.unique, v \in info'[i].watches, ~ BeingTold(v)
               PROVE  senderOwner'[v] = info'[i].currentOwner
    BY <1>1, <1>5 DEF TakenDown
  <2>1. CASE v = w
    BY <1>0, <1>2, <1>4, <2>1 DEF AttachStep, Attach, AttachCancels
  <2>2. CASE v # w
    <3>1. senderOwner'[v] = senderOwner[v]
      BY <1>0, <2>2 DEF AttachStep, Attach, AttachCancels
    <3> QED
      BY <1>2, <2>2, <3>1 DEF WatchedInv, TakenDown
  <2> QED
    BY <2>1, <2>2
<1>12. OwnersInOrder'
  <2> SUFFICES ASSUME NEW v \in NameWatchers, NEW p \in 1..Len(Tells(v)') - 1
               PROVE  Tells(v)'[p + 1] = OwnerAt(Tells(v)'[p]) + 1
    BY DEF OwnersInOrder
  <2>1. v # w
    <3> SUFFICES ASSUME v = w PROVE FALSE
      OBVIOUS
    <3>. PICK o : o = info[nameInfo].currentOwner
      OBVIOUS
    <3>1. Tells(v)' = <<o>> /\ Len(<<o>>) = 1
      BY <1>8
    <3>2. 1..1 - 1 = {}
      OBVIOUS
    <3> QED
      BY <3>1, <3>2
  <2> QED
    BY <1>7, <2>1 DEF WatchedInv, OwnersInOrder
<1> QED
  BY <1>9, <1>10, <1>11, <1>12 DEF WatchedInv

LEMMA StepWatched ==
  ASSUME IInv, StreamInv, WatchedInv, [Next]_vars
  PROVE  WatchedInv'
<1>1. StillHung'
  BY StepHung DEF WatchedInv
<1>2. CASE UNCHANGED vars
  <2>1. UNCHANGED <<pc, C, told, senderOwner, name, info, loop>>
    BY <1>2 DEF vars, infoVars, watchVars, busVars
  <2> QED
    BY <1>1, <2>1, StillWatched DEF Tells, BeingTold
<1> QED
  BY <1>1, <1>2, GoroutineWatched, LoopWatched, OtherWatched, AttachWatched, Steps, Constants

\* The records that a change is.
LEMMA ChangeRecord ==
  ASSUME NEW m \in Inbound, IsChange(m)
  PROVE  m = [type |-> "NameOwnerChanged", owner |-> m.owner]
BY DEF Inbound, IsChange

\* A watch in force, that the loop is not about to tell of a change, knows what
\* its nameInfo knows, and that is up to date.
LEMMA WatchInForce ==
  ASSUME IInv, StreamInv, WatchedInv, NEW w \in Watches, pc[w] = "watching", ~ Cancelling(w)
  PROVE  /\ nameInfo \in Watches /\ infoOf[w] = nameInfo /\ w \in info[nameInfo].watches
         /\ info[nameInfo].currentOwner \in Views /\ UpToDate(nameInfo, OwnerAt(info[nameInfo].currentOwner))
<1>1. infoOf[w] \in Watches /\ w \in info[infoOf[w]].watches
  BY DEF WatchedInv, StillHung, NotYet
<1>2. infoOf[w] = nameInfo /\ nameInfo # None
  BY <1>1, Constants DEF IInv, SharedInv, OnlyInfo
<1>3. info[nameInfo].currentOwner # Unknown /\ Active(nameInfo) /\ info \in [Watches -> InfoTypes]
  BY <1>2 DEF IInv, SharedInv, KnownInfo, Active, TypeOK, InfoTypes
<1>4. UpToDate(nameInfo, OwnerAt(info[nameInfo].currentOwner))
  BY <1>1, <1>2, <1>3 DEF StreamInv, KnownInv
<1> QED
  BY <1>1, <1>2, <1>3, <1>4 DEF InfoTypes

LEMMA NothingLost == ASSUME IInv, StreamInv, WatchedInv PROVE NoChangeLost
<1> SUFFICES ASSUME NEW w \in NameWatchers, pc[w] = "watching", ~ Cancelling(w),
                    LastTold(w) \notin {name.owner, InsteadOf(name.owner)}
             PROVE  NextUnderWay(w)
  BY DEF NoChangeLost
<1>. PICK o : o = OwnerAt(LastTold(w))
  OBVIOUS
<1>. DEFINE change == [type |-> "NameOwnerChanged", owner |-> o + 1]
<1>0. /\ TypeOK /\ w \in Watches
      /\ loop.at \in {"dispatch", "callbacks", "telling", "remove", "toDetach"} => loop.msg \in Inbound
      /\ loop.at \in {"callbacks", "telling", "remove", "toDetach"} => IsChange(loop.msg)
  BY DEF IInv, Watches, StreamInv, TellsInv, LoopInv
<1>1. CASE BeingTold(w)
  <2>1. IsChange(loop.msg) /\ loop.msg \in Inbound /\ loop.msg.owner = o + 1
    BY <1>0, <1>1 DEF BeingTold, WatchedInv, ToldInv
  <2>2. loop.msg = change
    BY <2>1, ChangeRecord
  <2> QED
    BY <1>1, <2>2 DEF NextUnderWay, BeingTold
<1>2. CASE ~ BeingTold(w)
  <2>1. /\ nameInfo \in Watches /\ infoOf[w] = nameInfo /\ w \in info[nameInfo].watches
        /\ UpToDate(nameInfo, OwnerAt(info[nameInfo].currentOwner))
    BY <1>0, WatchInForce
  <2>2. LastTold(w) = info[nameInfo].currentOwner
    BY <1>2, <2>1 DEF WatchedInv, ToldInv
  <2>6. o # name.owner
    <3>1. LastTold(w) \in Views
      BY <1>0, <2>2, WatchInForce
    <3> QED
      BY <3>1, WhoseOwner
  <2>3. \/ \E p \in 1..Len(fromBus) : ChangeTo(o + 1, fromBus, p)
        \/ HeldFor(nameInfo) /\ loop.msg.owner = o + 1
    BY <2>1, <2>2, <2>6 DEF UpToDate, NextSent
  <2>4. ASSUME NEW p \in 1..Len(fromBus), ChangeTo(o + 1, fromBus, p) PROVE NextUnderWay(w)
    <3>1. fromBus[p] \in Inbound /\ IsChange(fromBus[p]) /\ fromBus[p].owner = o + 1
      BY <1>0, <2>4, StreamTypes DEF ChangeTo
    <3>2. fromBus[p] = change
      BY <3>1, ChangeRecord
    <3> QED
      BY <3>2 DEF NextUnderWay
  <2>5. CASE HeldFor(nameInfo) /\ loop.msg.owner = o + 1
    <3>1. loop.msg \in Inbound /\ IsChange(loop.msg)
      BY <1>0, <2>5 DEF HeldFor, Handling
    <3>2. loop.msg = change
      BY <2>5, <3>1, ChangeRecord
    <3> QED
      BY <2>1, <2>5, <3>2 DEF NextUnderWay, HeldFor, Handling
  <2> QED
    BY <2>3, <2>4, <2>5
<1> QED
  BY <1>1, <1>2

LEMMA SenderKnown == ASSUME IInv, StreamInv, WatchedInv PROVE SenderTracked
<1> SUFFICES ASSUME loop.at = "dispatch", loop.msg.type = "signal", ~ name.unique,
                    NEW w \in SignalWatchers, pc[w] = "watching", ~ Cancelling(w)
             PROVE  senderOwner[w] \in {loop.msg.owner, InsteadOf(loop.msg.owner)}
  BY DEF SenderTracked
<1>. PICK c, o : c = OwnerAt(info[nameInfo].currentOwner) /\ o = loop.msg.owner
  OBVIOUS
<1>0. TypeOK /\ w \in Watches /\ loop.msg \in Inbound /\ ~ BeingTold(w)
  BY DEF IInv, Watches, LoopInv, BeingTold
<1>1. /\ nameInfo \in Watches /\ w \in info[nameInfo].watches /\ c \in OwnersOf /\ UpToDate(nameInfo, c)
  BY <1>0, WatchInForce, WhoseOwner
<1>9. senderOwner[w] = info[nameInfo].currentOwner
  BY <1>0, <1>1 DEF WatchedInv, TakenDown
<1>2. senderOwner[w] \in {c, InsteadOf(c)}
  BY <1>0, <1>9, WatchInForce, WhoseOwner
<1>3. Carries(loop.msg) /\ ~ IsChange(loop.msg)
  BY DEF Carries, IsChange
<1>4. c \in Int /\ o \in Int /\ name.owner \in Int
  BY <1>0, <1>1, <1>3, StreamTypes
<1>5. c <= o /\ (NextSent(c, 0) \/ HeldFor(nameInfo))
  BY <1>1, <1>3 DEF UpToDate, After
<1>6. ~ HeldFor(nameInfo)
  BY <1>3 DEF HeldFor, Handling
<1>7. /\ o <= name.owner
      /\ \A p \in 1..Len(fromBus) : Carries(fromBus[p]) => After(o, fromBus[p])
  BY <1>3 DEF StreamInv, OrderedInv
<1>8. ASSUME NEW p \in 1..Len(fromBus), ChangeTo(c + 1, fromBus, p) PROVE o < c + 1
  <2>1. Carries(fromBus[p]) /\ IsChange(fromBus[p]) /\ fromBus[p].owner = c + 1
    BY <1>0, <1>8, StreamTypes DEF ChangeTo
  <2> QED
    BY <1>7, <2>1 DEF After
<1> QED
  BY <1>2, <1>4, <1>5, <1>6, <1>7, <1>8 DEF NextSent

\* Between them the invariants are inductive: what the bus sends is ordered and
\* without a gap, and every watch keeps up with what its nameInfo was told.
THEOREM ChangesFollowed == Spec => [](StreamInv /\ WatchedInv)
<1>1. Init => IInv /\ StreamInv /\ WatchedInv
  BY InitTyped, InitHolds, OrderInit DEF IInv
<1>2. IInv /\ StreamInv /\ WatchedInv /\ [Next]_vars => (IInv /\ StreamInv /\ WatchedInv)'
  BY StepInv, StepStream, StepWatched
<1> QED
  BY <1>1, <1>2, PTL DEF Spec

\* The channel of a NameWatch gives the owners of its name in their order, each
\* once: the answer of checkCurrentOwner, the NameOwnerChanged signals it races
\* and the nameInfo that ensureNameWatch found never make it skip, repeat or go
\* back to one.
THEOREM OwnersInOrderHolds == Spec => []OwnersInOrder
<1>1. WatchedInv => OwnersInOrder
  BY DEF WatchedInv
<1> QED
  BY <1>1, ChangesFollowed, PTL

\* What a NameWatch was told last is the present owner, or the change that
\* followed it is on its way to handleOwnerChange.
THEOREM NoChangeLostHolds == Spec => []NoChangeLost
<1>1. Init => IInv
  BY InitTyped, InitHolds DEF IInv
<1>2. IInv /\ [Next]_vars => IInv'
  BY StepInv
<1>3. IInv /\ StreamInv /\ WatchedInv => NoChangeLost
  BY NothingLost
<1> QED
  BY <1>1, <1>2, <1>3, ChangesFollowed, PTL DEF Spec

\* When the loop matches a signal against the rule of a SignalWatch, the callback
\* of its nameInfo has already put down the owner that emitted it.
THEOREM SenderTrackedHolds == Spec => []SenderTracked
<1>1. Init => IInv
  BY InitTyped, InitHolds DEF IInv
<1>2. IInv /\ [Next]_vars => IInv'
  BY StepInv
<1>3. IInv /\ StreamInv /\ WatchedInv => SenderTracked
  BY SenderKnown
<1> QED
  BY <1>1, <1>2, <1>3, ChangesFollowed, PTL DEF Spec

(***************************************************************************)
(* What is stuck stays stuck.                                              *)
(***************************************************************************)
\* Only the nameInfo of the name, or the one being made, has a rule in the table.
AskedInv == \A i \in Watches : OwnerRule(i) \in rules => Active(i)

\* WatchSignal and Cancel hold the lock of their watch.
Past == {"remove", "toDetach", "removingOwnerRule", "toRemoveMatch", "removingMatch", "toClose"}
LocksInv ==
  /\ \A w \in SignalWatchers : pc[w] \notin {"new", "watching", "failed"} => lock[w] = w
  /\ \A k \in Cancels : pc[k] \in Past => lock[WatchOf[k]] = k

\* A goroutine that holds info.lock takes back its rule, or waits for itself.
HoldersInv ==
  \A i \in Watches : \A g \in Goroutines : info[i].lock = g =>
     pc[g] \in {"cancelling", "removingOwnerRule"} /\ infoOf[WatchBy(g)] = i

\* The loop calls back one nameInfo, and who holds its lock then has no answer.
AloneInv ==
  /\ loop.at = "callbacks" => \A i, j \in loop.infos : i = j
  /\ loop.at \in {"telling", "remove", "toDetach"} => loop.infos = {}
UnansweredInv ==
  loop.at = "callbacks" => \A i \in loop.infos : \A g \in Goroutines : info[i].lock = g => answer[g] = None

\* A Cancel inside the loop runs with the lock it is going to ask for.
SelfLocked ==
  loop.at \in {"remove", "toDetach"} =>
    /\ loop.info \in Watches /\ info[loop.info].lock = Loop
    /\ \E w \in SignalWatchers : lock[w] = Loop /\ infoOf[w] = loop.info /\ pc[w] \notin NotYet
StuckInv == AskedInv /\ LocksInv /\ HoldersInv /\ AloneInv /\ UnansweredInv /\ SelfLocked

LEMMA StuckInit == Init => StuckInv
<1> SUFFICES ASSUME Init PROVE StuckInv
  OBVIOUS
<1>1. /\ \A g \in Goroutines : pc[g] = "new"
      /\ \A i \in Watches : info[i].lock = None
      /\ rules = {} /\ loop.at = "read"
  BY DEF Init, Reading
<1> QED
  BY <1>1, Constants DEF StuckInv, AskedInv, LocksInv, HoldersInv, AloneInv, UnansweredInv, SelfLocked, Past

\* Rules come with newNameInfo, and go before the nameInfo leaves the map.
LEMMA StepAsked ==
  ASSUME IInv, AskedInv, [Next]_vars
  PROVE  AskedInv'
<1>0. /\ pc \in [Goroutines -> WatchPcs \union CancelPcs]
      /\ (\A v \in Watches : v \in Goroutines) /\ \A k \in Cancels : k \in Goroutines /\ k \notin Watches
      /\ PlaceInv /\ HangInv /\ SharedInv
  BY Constants DEF IInv, TypeOK
<1>1. /\ \A i, w : OwnerRule(i) # SignalRule(w)
      /\ \A i, j : OwnerRule(i) = OwnerRule(j) => i = j
  BY DEF OwnerRule, SignalRule
<1>2. ASSUME nameInfo' = nameInfo,
             \A i \in Watches : OwnerRule(i) \in rules' => OwnerRule(i) \in rules,
             \A i \in Watches : OwnerRule(i) \in rules' /\ pc[i] \in {"addingOwnerRule", "askingOwner"} =>
                pc'[i] \in {"addingOwnerRule", "askingOwner"}
      PROVE  AskedInv'
  BY <1>2 DEF AskedInv, Active
<1>3. ASSUME NEW w \in Watches, MakeStep(w) PROVE AskedInv'
  <2>1. CASE WatchName(w) \/ FindInfo(w)
    BY <1>0, <1>2, <2>1 DEF WatchName, FindInfo, Goto, infoVars
  <2>2. CASE NewNameInfo(w)
    BY <1>0, <1>1, <2>2 DEF NewNameInfo, Goto, AskedInv, Active
  <2>3. CASE NewNameInfoFails(w)
    BY <1>0, <1>2, <2>3 DEF NewNameInfoFails, Goto
  <2>4. CASE CheckCurrentOwner(w)
    BY <1>0, <1>2, <2>4 DEF CheckCurrentOwner, Goto, infoVars
  <2>5. CASE OwnerFound(w)
    <3>1. pc[w] = "askingOwner" /\ nameInfo' = w /\ rules' = rules
      BY <2>5 DEF OwnerFound, Goto
    <3>2. \A i \in Watches : Active(i) => i = w
      BY <1>0, <3>1, ActiveOne DEF Active
    <3> QED
      BY <3>1, <3>2 DEF AskedInv, Active
  <2> QED
    BY <1>3, <2>1, <2>2, <2>3, <2>4, <2>5 DEF MakeStep
<1>4. ASSUME NEW w \in Watches, AttachStep(w) \/ AddStep(w) PROVE AskedInv'
  <2>1. /\ nameInfo' = nameInfo /\ pc[w] \notin {"addingOwnerRule", "askingOwner"}
        /\ \A h \in Goroutines \ {w} : pc'[h] = pc[h]
        /\ \A i \in Watches : OwnerRule(i) \in rules' => OwnerRule(i) \in rules
    BY <1>0, <1>1, <1>4 DEF AttachStep, Attach, AttachCancels, AddStep, AddMatch, AddMatchReturns, AddMatchFails,
       Goto, infoVars
  <2> QED
    BY <1>0, <1>2, <2>1
<1>5. ASSUME NEW g \in Goroutines, RemoveStep(g) PROVE AskedInv'
  <2>0. /\ pc[g] \notin {"addingOwnerRule", "askingOwner"}
        /\ \A h \in Goroutines \ {g} : pc'[h] = pc[h]
        /\ rules' \subseteq rules
    BY <1>0, <1>5 DEF RemoveStep, RemoveNameWatch, NotFound, DetachOne, DetachLast, OwnerRuleRemoved, OwnerRuleKept, Goto
  <2>1. CASE DetachLast(g)
    <3>. PICK i : i = infoOf[WatchBy(g)]
      OBVIOUS
    <3>1. pc[g] = "toDetach" /\ info[i].watches # {} /\ rules' = rules \ {OwnerRule(i)}
      BY <2>1 DEF DetachLast, Goto
    <3>2. i \in Watches /\ i = nameInfo
      BY <1>0, <3>1, TakenFromInfo DEF HangInv, SharedInv, OnlyInfo
    <3>3. \A j \in Watches : OwnerRule(j) \in rules' => pc[j] \in {"addingOwnerRule", "askingOwner"} /\ j # g
      BY <1>0, <3>1, <3>2, <2>0 DEF AskedInv, Active
    <3> QED
      BY <1>0, <2>0, <3>3 DEF AskedInv, Active
  <2>2. CASE ~ DetachLast(g)
    <3>1. nameInfo' = nameInfo
      BY <1>5, <2>2 DEF RemoveStep, RemoveNameWatch, NotFound, DetachOne, OwnerRuleRemoved, OwnerRuleKept
    <3> QED
      BY <1>0, <1>2, <2>0, <3>1
  <2> QED
    BY <2>1, <2>2
<1>6. ASSUME NEW k \in Cancels, TakeStep(k) PROVE AskedInv'
  <2>1. nameInfo' = nameInfo /\ rules' \subseteq rules /\ \A h \in Goroutines \ {k} : pc'[h] = pc[h]
    BY <1>0, <1>6 DEF TakeStep, CallCancel, CancelAgain, Cancel, RemoveMatch, RemoveMatchReturns,
       RemoveMatchFails, CloseChannel, Goto, infoVars
  <2> QED
    BY <1>0, <1>2, <2>1
<1>7. UNCHANGED vars \/ DispatchStep \/ TellStep \/ OtherStep => UNCHANGED <<pc, nameInfo, rules>>
  BY DEF vars, infoVars, DispatchStep, ReadMessage, DispatchReply, DispatchSignal, DispatchOwnerChanged,
     OtherStep, Receives, BusServes, OwnerChanges, Emit, TellStep, HandleOwnerChange, TellNameWatch,
     TellSignalWatch, CancelFromLoop, RemoveFromLoop, AllTold, CallbacksDone
<1>8. UNCHANGED <<pc, nameInfo, rules>> => AskedInv'
  BY <1>2
<1> QED
  BY <1>3, <1>4, <1>5, <1>6, <1>7, <1>8, Steps

\* The locks of the watches: who has one keeps it until it returns.
LEMMA StepLocks ==
  ASSUME IInv, LocksInv, [Next]_vars
  PROVE  LocksInv'
<1>0. /\ pc \in [Goroutines -> WatchPcs \union CancelPcs] /\ lock \in [Watches -> Goroutines \union {Loop, None}]
      /\ \A v \in Watches : v \in Goroutines /\ v \notin Cancels /\ WatchBy(v) = v
      /\ \A k \in Cancels : k \in Goroutines /\ k \notin Watches /\ WatchOf[k] \in Watches /\ WatchBy(k) = WatchOf[k]
      /\ SignalWatchers \subseteq Watches /\ PlaceInv /\ None \notin Goroutines /\ Loop \notin Goroutines
      /\ \A w \in Watches : pc[w] \in WatchPcs
  BY Constants DEF IInv, TypeOK
<1>1. \A k \in Cancels : pc[k] # "new" => pc[WatchOf[k]] = "watching"
  BY <1>0 DEF PlaceInv
<1> USE DEF Past, LocksInv
<1>2. ASSUME NEW w \in Watches, MakeStep(w) PROVE LocksInv'
  <2>1. /\ \A v \in Watches \ {w} : lock'[v] = lock[v]
        /\ \A h \in Goroutines \ {w} : pc'[h] = pc[h]
        /\ pc[w] # "watching"
    BY <1>0, <1>2 DEF MakeStep, WatchName, FindInfo, NewNameInfo, NewNameInfoFails, CheckCurrentOwner, OwnerFound,
       Goto, watchVars
  <2>2. w \in SignalWatchers => pc'[w] = "failed" \/ lock'[w] = w
    BY <1>0, <1>2 DEF MakeStep, WatchName, FindInfo, NewNameInfo, NewNameInfoFails, CheckCurrentOwner, OwnerFound,
       Goto, watchVars
  <2> QED
    BY <1>0, <1>1, <2>1, <2>2
<1>3. ASSUME NEW w \in Watches, AttachStep(w) \/ AddStep(w) PROVE LocksInv'
  <2>1. /\ \A v \in Watches \ {w} : lock'[v] = lock[v]
        /\ \A h \in Goroutines \ {w} : pc'[h] = pc[h]
        /\ pc[w] \notin {"new", "watching", "failed"}
        /\ pc'[w] = "watching" \/ lock'[w] = lock[w]
    BY <1>0, <1>3 DEF AttachStep, Attach, AttachCancels, AddStep, AddMatch, AddMatchReturns, AddMatchFails, Goto, watchVars
  <2> QED
    BY <1>0, <1>1, <2>1
<1>4. ASSUME NEW g \in Goroutines, RemoveStep(g) PROVE LocksInv'
  <2>1. /\ \A v \in Watches \ {WatchBy(g)} : lock'[v] = lock[v]
        /\ \A h \in Goroutines \ {g} : pc'[h] = pc[h]
        /\ pc[g] \in {"remove", "toDetach", "removingOwnerRule"}
        /\ pc'[g] = "failed" \/ lock'[WatchBy(g)] = lock[WatchBy(g)]
    <3>1. CASE RemoveNameWatch(g)
      BY <1>0, <3>1 DEF RemoveNameWatch, Goto, watchVars
    <3>2. CASE NotFound(g)
      BY <1>0, <3>2 DEF NotFound, Goto, UnlockIf
    <3>3. CASE DetachOne(g)
      BY <1>0, <3>3 DEF DetachOne, Goto, UnlockIf, AfterRemove
    <3>4. CASE DetachLast(g)
      BY <1>0, <3>4 DEF DetachLast, Goto, watchVars
    <3>5. CASE OwnerRuleRemoved(g)
      BY <1>0, <3>5 DEF OwnerRuleRemoved, Goto, UnlockIf, AfterRemove
    <3>6. CASE OwnerRuleKept(g)
      BY <1>0, <3>6 DEF OwnerRuleKept, Goto, UnlockIf
    <3> QED
      BY <1>4, <3>1, <3>2, <3>3, <3>4, <3>5, <3>6 DEF RemoveStep
  <2>2. CASE g \in Watches
    BY <1>0, <1>1, <2>1, <2>2
  <2>3. CASE g \in Cancels
    BY <1>0, <1>1, <2>1, <2>3
  <2> QED
    BY <2>2, <2>3 DEF Goroutines
<1>5. ASSUME NEW k \in Cancels, TakeStep(k) PROVE LocksInv'
  <2>1. /\ \A v \in Watches \ {WatchOf[k]} : lock'[v] = lock[v]
        /\ \A h \in Goroutines \ {k} : pc'[h] = pc[h]
    BY <1>0, <1>5 DEF TakeStep, CallCancel, CancelAgain, Cancel, RemoveMatch, RemoveMatchReturns,
       RemoveMatchFails, CloseChannel, Goto, UnlockIf, watchVars
  <2>2. CASE CallCancel(k) \/ CancelAgain(k) \/ RemoveMatch(k) \/ RemoveMatchReturns(k)
    BY <1>0, <2>1, <2>2 DEF CallCancel, CancelAgain, RemoveMatch, RemoveMatchReturns, Goto, watchVars
  <2>3. CASE Cancel(k)
    BY <1>0, <1>1, <2>1, <2>3 DEF Cancel, Goto
  <2>4. CASE RemoveMatchFails(k) \/ CloseChannel(k)
    <3>1. pc[k] \in Past /\ pc'[k] \notin Past
      BY <1>0, <2>4 DEF RemoveMatchFails, CloseChannel, Goto
    <3> QED
      BY <1>0, <1>1, <2>1, <3>1
  <2> QED
    BY <1>5, <2>2, <2>3, <2>4 DEF TakeStep
<1>6. CASE TellStep
  <2>1. pc' = pc /\ \A v \in Watches : lock'[v] = lock[v] \/ lock[v] = None
    BY <1>0, <1>6 DEF TellStep, HandleOwnerChange, TellNameWatch, TellSignalWatch, CancelFromLoop, RemoveFromLoop,
       AllTold, CallbacksDone, watchVars
  <2> QED
    BY <1>0, <2>1
<1>7. UNCHANGED vars \/ DispatchStep \/ OtherStep => UNCHANGED <<pc, lock>>
  BY DEF vars, watchVars, DispatchStep, ReadMessage, DispatchReply, DispatchSignal, DispatchOwnerChanged,
     OtherStep, Receives, BusServes, OwnerChanges, Emit
<1> QED
  BY <1>2, <1>3, <1>4, <1>5, <1>6, <1>7, Steps

\* info.lock is taken for a round trip, and given back with the answer.
LEMMA StepHolders ==
  ASSUME IInv, HoldersInv, [Next]_vars
  PROVE  HoldersInv'
<1>0. /\ pc \in [Goroutines -> WatchPcs \union CancelPcs] /\ info \in [Watches -> InfoTypes]
      /\ infoOf \in [Watches -> Watches \union {None}]
      /\ \A v \in Watches : v \in Goroutines /\ v \notin Cancels /\ WatchBy(v) = v
      /\ \A k \in Cancels : k \in Goroutines /\ k \notin Watches /\ WatchOf[k] \in Watches /\ WatchBy(k) = WatchOf[k]
      /\ PlaceInv /\ HangInv /\ None \notin Goroutines /\ Loop \notin Goroutines
      /\ \A k \in Cancels : pc[k] \in CancelPcs
  BY Constants DEF IInv, TypeOK, InfoTypes
<1>1. \A g \in Goroutines : g \in Watches \/ g \in Cancels
  BY DEF Goroutines
<1>2. ASSUME NEW g \in Goroutines, infoOf' = infoOf,
             \A h \in Goroutines \ {g} : pc'[h] = pc[h],
             \A i \in Watches : info'[i].lock = info[i].lock \/ info'[i].lock \notin Goroutines,
             pc[g] \in {"cancelling", "removingOwnerRule"} => \A i \in Watches : info'[i].lock # g
      PROVE  HoldersInv'
  BY <1>0, <1>2 DEF HoldersInv, WatchBy
<1>3. ASSUME UNCHANGED <<pc, infoOf>>,
             \A i \in Watches : info'[i].lock = info[i].lock \/ info'[i].lock \notin Goroutines
      PROVE  HoldersInv'
  BY <1>3 DEF HoldersInv, WatchBy
<1>4. ASSUME NEW g \in Goroutines, pc[g] \notin {"cancelling", "removingOwnerRule"}, NEW i \in Watches
      PROVE  info[i].lock # g
  BY <1>4 DEF HoldersInv
<1>5. ASSUME NEW w \in Watches, MakeStep(w) \/ AddStep(w) PROVE HoldersInv'
  <2>1. /\ infoOf' = infoOf /\ pc[w] \notin {"cancelling", "removingOwnerRule"}
        /\ \A h \in Goroutines \ {w} : pc'[h] = pc[h]
        /\ \A i \in Watches : info'[i].lock = info[i].lock
    BY <1>0, <1>5 DEF MakeStep, WatchName, FindInfo, NewNameInfo, NewNameInfoFails, CheckCurrentOwner, OwnerFound,
       AddStep, AddMatch, AddMatchReturns, AddMatchFails, Goto, infoVars, watchVars, InfoTypes
  <2> QED
    BY <1>0, <1>2, <1>4, <2>1
<1>6. ASSUME NEW w \in Watches, AttachStep(w) PROVE HoldersInv'
  <2>1. /\ infoOf' = [infoOf EXCEPT ![w] = nameInfo] /\ pc[w] = "toAttach" /\ nameInfo \in Watches
        /\ \A h \in Goroutines \ {w} : pc'[h] = pc[h]
        /\ \A i \in Watches : info'[i].lock = info[i].lock \/ (pc'[w] = "cancelling" /\ i = nameInfo /\ info'[i].lock = w)
    BY <1>0, <1>6 DEF AttachStep, Attach, AttachCancels, Goto, PlaceInv, InfoTypes
  <2>2. \A k \in Cancels : pc[k] \in {"cancelling", "removingOwnerRule"} => WatchOf[k] # w
    BY <1>0, <2>1 DEF PlaceInv
  <2>3. ASSUME NEW i \in Watches, NEW g \in Goroutines, info'[i].lock = g
        PROVE  pc'[g] \in {"cancelling", "removingOwnerRule"} /\ infoOf'[WatchBy(g)] = i
    <3>1. CASE info[i].lock = g
      <4>1. g # w /\ pc[g] \in {"cancelling", "removingOwnerRule"} /\ infoOf[WatchBy(g)] = i
        BY <2>1, <3>1 DEF HoldersInv
      <4>2. WatchBy(g) # w
        BY <1>0, <1>1, <2>2, <4>1
      <4> QED
        BY <1>0, <2>1, <4>1, <4>2
    <3>2. CASE info[i].lock # g
      BY <1>0, <2>1, <2>3, <3>2
    <3> QED
      BY <3>1, <3>2
  <2> QED
    BY <2>3 DEF HoldersInv, WatchBy
<1>7. ASSUME NEW g \in Goroutines, RemoveStep(g) PROVE HoldersInv'
  <2>0. /\ infoOf' = infoOf /\ \A h \in Goroutines \ {g} : pc'[h] = pc[h]
        /\ pc[g] \in {"remove", "toDetach", "removingOwnerRule"}
    BY <1>0, <1>7 DEF RemoveStep, RemoveNameWatch, NotFound, DetachOne, DetachLast, OwnerRuleRemoved, OwnerRuleKept,
       Goto, watchVars
  <2>. PICK i : i = infoOf[WatchBy(g)]
    OBVIOUS
  <2>1. i \in Watches
    BY <1>0, <2>0, TakenFromInfo DEF HangInv
  <2>2. CASE RemoveNameWatch(g) \/ NotFound(g) \/ DetachOne(g)
    <3>1. pc[g] \in {"remove", "toDetach"}
      BY <2>2 DEF RemoveNameWatch, NotFound, DetachOne, Goto
    <3>2. info' = info \/ info' = [info EXCEPT ![i].watches = @ \ {WatchBy(g)}]
      BY <2>2 DEF RemoveNameWatch, NotFound, DetachOne
    <3>3. \A j \in Watches : info'[j].lock = info[j].lock
      BY <1>0, <2>1, <3>2 DEF InfoTypes
    <3> QED
      BY <1>2, <1>4, <2>0, <3>1, <3>3
  <2>3. CASE DetachLast(g)
    <3>1. /\ pc[g] = "toDetach" /\ pc'[g] = "removingOwnerRule"
          /\ info'[i].lock = g /\ \A j \in Watches \ {i} : info'[j].lock = info[j].lock
      BY <1>0, <2>1, <2>3 DEF DetachLast, Goto, InfoTypes
    <3> QED
      BY <1>0, <1>4, <2>0, <2>1, <3>1 DEF HoldersInv, WatchBy
  <2>4. CASE OwnerRuleRemoved(g) \/ OwnerRuleKept(g)
    <3>1. pc[g] = "removingOwnerRule" /\ info' = [info EXCEPT ![i].lock = None]
      BY <2>4 DEF OwnerRuleRemoved, OwnerRuleKept, Released, Goto
    <3>2. info'[i].lock = None /\ \A j \in Watches \ {i} : info'[j].lock = info[j].lock /\ info[j].lock # g
      BY <1>0, <2>1, <3>1 DEF HoldersInv, InfoTypes
    <3> QED
      BY <1>0, <1>2, <2>0, <3>2
  <2> QED
    BY <1>7, <2>2, <2>3, <2>4 DEF RemoveStep
<1>8. ASSUME NEW k \in Cancels, TakeStep(k) PROVE HoldersInv'
  <2>1. /\ infoOf' = infoOf /\ info' = info /\ pc[k] \notin {"cancelling", "removingOwnerRule"}
        /\ \A h \in Goroutines \ {k} : pc'[h] = pc[h]
    BY <1>0, <1>8 DEF TakeStep, CallCancel, CancelAgain, Cancel, RemoveMatch, RemoveMatchReturns,
       RemoveMatchFails, CloseChannel, Goto, infoVars, watchVars
  <2> QED
    BY <1>0, <1>2, <1>4, <2>1
<1>9. CASE UNCHANGED vars \/ DispatchStep \/ OtherStep
  <2>1. UNCHANGED <<pc, infoOf, info>>
    BY <1>9 DEF vars, infoVars, watchVars, DispatchStep, ReadMessage, DispatchReply, DispatchSignal,
       DispatchOwnerChanged, OtherStep, Receives, BusServes, OwnerChanges, Emit
  <2> QED
    BY <1>3, <2>1
<1>10. CASE TellStep
  <2>1. UNCHANGED <<pc, infoOf>>
    BY <1>10 DEF TellStep, HandleOwnerChange, TellNameWatch, TellSignalWatch, CancelFromLoop, RemoveFromLoop,
       AllTold, CallbacksDone, watchVars
  <2>2. info' = info \/ AllTold \/ \E i \in Watches : HandleOwnerChange(i)
    BY <1>10 DEF TellStep, TellNameWatch, TellSignalWatch, CancelFromLoop, RemoveFromLoop, CallbacksDone, infoVars
  <2>3. CASE AllTold
    BY <1>0, <1>3, <2>1, <2>3 DEF AllTold, InfoTypes
  <2>4. ASSUME NEW i \in Watches, HandleOwnerChange(i) PROVE HoldersInv'
    BY <1>0, <1>3, <2>1, <2>4 DEF HandleOwnerChange, InfoTypes
  <2> QED
    BY <1>3, <2>1, <2>2, <2>3, <2>4
<1> QED
  BY <1>5, <1>6, <1>7, <1>8, <1>9, <1>10, Steps

\* A call has no answer yet when it is made.
LEMMA NoAnswerYet ==
  ASSUME IInv, NEW g \in Goroutines, pc[g] \notin Waiting
  PROVE  answer[g] = None
  BY DEF IInv, CallInv, OneAnswer, Fits

\* What stays as it is for the loop while goroutines and the bus take their steps:
\* a lock of a goroutine without an answer, its own locks, and who waits for itself.
LoopAlone ==
  /\ loop' = loop
  /\ \A g \in Goroutines : answer'[g] \in {answer[g], None}
  /\ \A i \in Watches : info[i].lock = Loop => info'[i].lock = Loop
  /\ \A i \in Watches : \A g \in Goroutines : info'[i].lock = g => info[i].lock = g \/ answer'[g] = None
  /\ \A w \in SignalWatchers : lock[w] = Loop /\ pc[w] \notin NotYet =>
        lock'[w] = Loop /\ pc'[w] \notin NotYet /\ infoOf'[w] = infoOf[w]
  /\ \A i \in Watches : \A g \in Goroutines : info[i].lock = g /\ answer[g] = None => info'[i].lock = g
  /\ \A w \in Watches : pc[w] = "cancelling" => pc'[w] = "cancelling"

LEMMA LoopKept ==
  ASSUME IInv, StuckInv, [Next]_vars, ~ DispatchStep, ~ TellStep
  PROVE  LoopAlone
<1>0. /\ pc \in [Goroutines -> WatchPcs \union CancelPcs] /\ info \in [Watches -> InfoTypes]
      /\ infoOf \in [Watches -> Watches \union {None}] /\ lock \in [Watches -> Goroutines \union {Loop, None}]
      /\ answer \in [Goroutines -> Answers \union {None}]
      /\ \A v \in Watches : v \in Goroutines /\ v \notin Cancels /\ WatchBy(v) = v
      /\ \A k \in Cancels : k \in Goroutines /\ k \notin Watches /\ WatchOf[k] \in Watches /\ WatchBy(k) = WatchOf[k]
      /\ None \notin Goroutines /\ Loop \notin Goroutines /\ Loop # None /\ SignalWatchers \subseteq Watches
      /\ Ok # None /\ Error # None
      /\ \A k \in Cancels : pc[k] \in CancelPcs
  BY Constants DEF IInv, TypeOK, InfoTypes
<1>1. PlaceInv /\ HangInv /\ LocksInv /\ HoldersInv
  BY DEF IInv, StuckInv
<1> USE DEF NotYet
<1>2. CASE UNCHANGED vars \/ OtherStep
  <2>1. UNCHANGED <<pc, loop, answer, info, infoOf, lock>>
    BY <1>2 DEF vars, infoVars, watchVars, callVars, OtherStep, Receives, BusServes, OwnerChanges, Emit
  <2> QED
    BY <2>1 DEF LoopAlone
<1>3. ASSUME NEW w \in Watches, MakeStep(w) \/ AttachStep(w) \/ AddStep(w) PROVE
         /\ loop' = loop
         /\ \A g \in Goroutines : answer'[g] \in {answer[g], None}
         /\ \A i \in Watches : info'[i].lock = info[i].lock \/ (info[i].lock = None /\ info'[i].lock = w /\ answer'[w] = None)
         /\ \A v \in Watches \ {w} : lock'[v] = lock[v] /\ pc'[v] = pc[v] /\ infoOf'[v] = infoOf[v]
         /\ w \in SignalWatchers /\ lock[w] = Loop => pc[w] \in NotYet
         /\ pc[w] # "cancelling"
  <2>1. CASE MakeStep(w)
    BY <1>0, <1>1, <2>1 DEF MakeStep, WatchName, FindInfo, NewNameInfo, NewNameInfoFails, CheckCurrentOwner, OwnerFound,
       Goto, Ask, Told, infoVars, watchVars, callVars, InfoTypes
  <2>2. CASE Attach(w)
    BY <1>0, <1>1, <2>2 DEF Attach, Goto, callVars, InfoTypes
  <2>3. CASE AttachCancels(w)
    <3>1. pc[w] = "toAttach" /\ nameInfo \in Watches /\ answer[w] = None
      BY <1>0, <1>1, <2>3, NoAnswerYet DEF AttachCancels, Goto, PlaceInv, Waiting
    <3> QED
      BY <1>0, <1>1, <2>3, <3>1 DEF AttachCancels, Goto, callVars, InfoTypes
  <2>4. CASE AddStep(w)
    <3>1. w \in SignalWatchers /\ pc[w] \in {"toAddMatch", "addingMatch"} => lock[w] = w
      BY <1>1 DEF LocksInv
    <3> QED
      BY <1>0, <2>4, <3>1 DEF AddStep, AddMatch, AddMatchReturns, AddMatchFails, Goto, Ask, Told,
         infoVars, watchVars, callVars
  <2> QED
    BY <1>3, <2>1, <2>2, <2>3, <2>4 DEF AttachStep
<1>4. ASSUME NEW g \in Goroutines, RemoveStep(g) PROVE
         /\ loop' = loop
         /\ \A h \in Goroutines : answer'[h] \in {answer[h], None}
         /\ \A i \in Watches :
               \/ info'[i].lock = info[i].lock
               \/ info[i].lock = None /\ info'[i].lock = g /\ answer'[g] = None
               \/ info[i].lock = g /\ answer[g] # None /\ info'[i].lock = None
         /\ infoOf' = infoOf /\ \A v \in Watches \ {g} : pc'[v] = pc[v]
         /\ pc[g] # "cancelling" /\ pc'[g] \notin NotYet
         /\ \A v \in Watches \ {WatchBy(g)} : lock'[v] = lock[v]
         /\ WatchBy(g) \in SignalWatchers => lock[WatchBy(g)] = g
  <2>. PICK i : i = infoOf[WatchBy(g)]
    OBVIOUS
  <2>0. pc[g] \in {"remove", "toDetach", "removingOwnerRule"}
    BY <1>0, <1>4 DEF RemoveStep, RemoveNameWatch, NotFound, DetachOne, DetachLast, OwnerRuleRemoved, OwnerRuleKept, Goto
  <2>1. i \in Watches /\ (pc[g] = "removingOwnerRule" => info[i].lock = g)
    BY <1>1, <2>0, TakenFromInfo DEF HangInv, KeepsLock
  <2>2. WatchBy(g) \in SignalWatchers => lock[WatchBy(g)] = g
    <3>1. CASE g \in Watches
      BY <1>0, <1>1, <2>0, <3>1 DEF LocksInv
    <3>2. CASE g \in Cancels
      BY <1>0, <1>1, <2>0, <3>2 DEF LocksInv, Past
    <3> QED
      BY <3>1, <3>2 DEF Goroutines
  <2>3. /\ loop' = loop /\ infoOf' = infoOf /\ \A v \in Watches \ {g} : pc'[v] = pc[v]
        /\ pc'[g] \notin NotYet
        /\ \A v \in Watches \ {WatchBy(g)} : lock'[v] = lock[v]
        /\ \A h \in Goroutines : answer'[h] \in {answer[h], None}
    BY <1>0, <1>4 DEF RemoveStep, RemoveNameWatch, NotFound, DetachOne, DetachLast, OwnerRuleRemoved, OwnerRuleKept,
       Goto, Ask, Told, UnlockIf, AfterRemove, watchVars, callVars
  <2>4. CASE RemoveNameWatch(g) \/ NotFound(g) \/ DetachOne(g)
    <3>1. info' = info \/ info' = [info EXCEPT ![i].watches = @ \ {WatchBy(g)}]
      BY <2>4 DEF RemoveNameWatch, NotFound, DetachOne
    <3>2. \A j \in Watches : info'[j].lock = info[j].lock
      BY <1>0, <2>1, <3>1 DEF InfoTypes
    <3> QED
      BY <2>0, <2>2, <2>3, <3>2
  <2>5. CASE DetachLast(g)
    <3>1. pc[g] = "toDetach" /\ answer' = answer /\ info[i].lock = None
          /\ info'[i].lock = g /\ \A j \in Watches \ {i} : info'[j].lock = info[j].lock
      BY <1>0, <2>1, <2>5 DEF DetachLast, Goto, Ask, InfoTypes
    <3>2. answer[g] = None
      BY <3>1, NoAnswerYet DEF Waiting
    <3> QED
      BY <2>0, <2>2, <2>3, <3>1, <3>2
  <2>6. CASE OwnerRuleRemoved(g) \/ OwnerRuleKept(g)
    <3>1. pc[g] = "removingOwnerRule" /\ info' = [info EXCEPT ![i].lock = None] /\ answer[g] # None
      BY <1>0, <2>6 DEF OwnerRuleRemoved, OwnerRuleKept, Released, Goto, Told
    <3>2. info'[i].lock = None /\ \A j \in Watches \ {i} : info'[j].lock = info[j].lock
      BY <1>0, <2>1, <3>1 DEF InfoTypes
    <3> QED
      BY <2>0, <2>1, <2>2, <2>3, <3>1, <3>2
  <2> QED
    BY <1>4, <2>4, <2>5, <2>6 DEF RemoveStep
<1>5. ASSUME NEW k \in Cancels, TakeStep(k) PROVE
         /\ loop' = loop /\ info' = info /\ infoOf' = infoOf
         /\ \A g \in Goroutines : answer'[g] \in {answer[g], None}
         /\ \A v \in Watches : pc'[v] = pc[v] /\ (lock[v] = Loop => lock'[v] = Loop)
  <2>1. /\ loop' = loop /\ info' = info /\ infoOf' = infoOf
        /\ \A g \in Goroutines : answer'[g] \in {answer[g], None}
        /\ \A v \in Watches : pc'[v] = pc[v]
        /\ \A v \in Watches \ {WatchOf[k]} : lock'[v] = lock[v]
    BY <1>0, <1>5 DEF TakeStep, CallCancel, CancelAgain, Cancel, RemoveMatch, RemoveMatchReturns,
       RemoveMatchFails, CloseChannel, Goto, Ask, Told, UnlockIf, infoVars, watchVars, callVars
  <2>2. lock'[WatchOf[k]] = lock[WatchOf[k]] \/ lock[WatchOf[k]] # Loop
    BY <1>0, <1>1, <1>5 DEF TakeStep, CallCancel, CancelAgain, Cancel, RemoveMatch, RemoveMatchReturns,
       RemoveMatchFails, CloseChannel, Goto, UnlockIf, watchVars, LocksInv, Past
  <2> QED
    BY <2>1, <2>2
<1>6. ASSUME NEW w \in Watches, MakeStep(w) \/ AttachStep(w) \/ AddStep(w) PROVE LoopAlone
  BY <1>0, <1>3, <1>6 DEF LoopAlone
<1>7. ASSUME NEW g \in Goroutines, RemoveStep(g) PROVE LoopAlone
  BY <1>0, <1>4, <1>7 DEF LoopAlone
<1>8. ASSUME NEW k \in Cancels, TakeStep(k) PROVE LoopAlone
  BY <1>0, <1>5, <1>8 DEF LoopAlone
<1> QED
  BY <1>2, <1>6, <1>7, <1>8, Steps

\* The steps of the loop.
LEMMA StepTold ==
  ASSUME IInv, StuckInv, [Next]_vars
  PROVE  (AloneInv /\ UnansweredInv /\ SelfLocked)'
<1>0. /\ TypeOK /\ PlaceInv /\ HangInv /\ LoopInv /\ SharedInv
      /\ AskedInv /\ HoldersInv /\ AloneInv /\ UnansweredInv /\ SelfLocked
      /\ info \in [Watches -> InfoTypes] /\ lock \in [Watches -> Goroutines \union {Loop, None}]
      /\ SignalWatchers \subseteq Watches
  BY Constants DEF IInv, StuckInv, TypeOK, InfoTypes
<1>1. CASE ~ DispatchStep /\ ~ TellStep
  <2>1. LoopAlone
    BY <1>1, LoopKept
  <2>2. AloneInv'
    BY <1>0, <2>1 DEF LoopAlone, AloneInv
  <2>3. UnansweredInv'
    <3> SUFFICES ASSUME loop.at = "callbacks", NEW i \in loop.infos, NEW g \in Goroutines, info'[i].lock = g
                 PROVE  answer'[g] = None
      BY <2>1 DEF LoopAlone, UnansweredInv
    <3>1. i \in Watches
      BY <1>0 DEF TypeOK
    <3> QED
      BY <1>0, <2>1, <3>1 DEF LoopAlone, UnansweredInv
  <2>4. SelfLocked'
    BY <1>0, <2>1 DEF LoopAlone, SelfLocked
  <2> QED
    BY <2>2, <2>3, <2>4
<1>2. CASE ReadMessage \/ DispatchReply \/ DispatchSignal \/ CallbacksDone
  <2>1. loop'.at \in {"read", "dispatch"}
    <3>1. loop' = Reading \/ loop' = [loop EXCEPT !.at = "dispatch", !.msg = Head(fromBus)]
      BY <1>2 DEF ReadMessage, DispatchReply, DispatchSignal, CallbacksDone
    <3>. PICK m : m = Head(fromBus)
      OBVIOUS
    <3>2. loop' = Reading \/ loop' = [loop EXCEPT !.at = "dispatch", !.msg = m]
      BY <3>1
    <3>3. loop \in LoopTypes
      BY <1>0 DEF TypeOK, LoopTypes
    <3>4. CASE loop' = Reading
      BY <3>4 DEF Reading
    <3>5. CASE loop' = [loop EXCEPT !.at = "dispatch", !.msg = m]
      BY <3>3, <3>5 DEF LoopTypes
    <3> QED
      BY <3>2, <3>4, <3>5
  <2> QED
    BY <2>1 DEF AloneInv, UnansweredInv, SelfLocked
<1>3. CASE DispatchOwnerChanged
  <2>1. /\ loop'.at = "callbacks" /\ loop'.infos = {i \in Watches : OwnerRule(i) \in rules}
        /\ UNCHANGED <<pc, info, answer>>
    BY <1>0, <1>3 DEF DispatchOwnerChanged, TypeOK, infoVars, callVars
  <2>2. \A i \in loop'.infos : i \in Watches /\ Active(i)
    BY <1>0, <2>1 DEF AskedInv
  <2>3. AloneInv'
    BY <1>0, <2>1, <2>2, ActiveOne DEF AloneInv
  <2>4. ASSUME NEW i \in loop'.infos, NEW g \in Goroutines, info[i].lock = g PROVE answer[g] = None
    <3>1. pc[g] \in {"cancelling", "removingOwnerRule"} /\ ~ Removing(g)
      BY <1>0, <2>2, <2>4, ActiveOne DEF HoldersInv
    <3> QED
      BY <3>1, NoAnswerYet DEF Removing, Waiting
  <2> QED
    BY <2>1, <2>3, <2>4 DEF UnansweredInv, SelfLocked
<1>4. ASSUME NEW i \in Watches, HandleOwnerChange(i) PROVE (AloneInv /\ UnansweredInv /\ SelfLocked)'
  <2>1. loop'.at = "telling" /\ loop'.infos = loop.infos \ {i} /\ loop.at = "callbacks" /\ i \in loop.infos
    BY <1>0, <1>4 DEF HandleOwnerChange, TypeOK
  <2> QED
    BY <1>0, <2>1 DEF AloneInv, UnansweredInv, SelfLocked
<1>5. ASSUME NEW w \in Watches, TellNameWatch(w) \/ TellSignalWatch(w)
      PROVE  (AloneInv /\ UnansweredInv /\ SelfLocked)'
  <2>1. loop'.at = "telling" /\ loop'.infos = loop.infos /\ loop.at = "telling"
    BY <1>0, <1>5 DEF TellNameWatch, TellSignalWatch, TypeOK
  <2> QED
    BY <1>0, <2>1 DEF AloneInv, UnansweredInv, SelfLocked
<1>6. ASSUME NEW w \in Watches, CancelFromLoop(w) PROVE (AloneInv /\ UnansweredInv /\ SelfLocked)'
  <2>1. /\ loop.at = "telling" /\ loop'.at = "remove" /\ loop'.infos = loop.infos /\ loop'.info = loop.info
        /\ w \in loop.watches /\ w \in SignalWatchers /\ lock'[w] = Loop
        /\ UNCHANGED <<pc, info, infoOf>>
    BY <1>0, <1>6 DEF CancelFromLoop, TypeOK, infoVars
  <2>2. /\ loop.info \in Watches /\ info[loop.info].lock = Loop /\ w \in info[loop.info].watches
    BY <1>0, <2>1 DEF LoopInv
  <2>3. infoOf[w] = loop.info /\ pc[w] \notin NotYet
    BY <1>0, <2>2 DEF HangInv, HangsOnOne
  <2> QED
    BY <1>0, <2>1, <2>2, <2>3 DEF AloneInv, UnansweredInv, SelfLocked
<1>7. CASE RemoveFromLoop
  <2>1. /\ loop.at = "remove" /\ loop'.at = "toDetach" /\ loop'.infos = loop.infos /\ loop'.info = loop.info
        /\ UNCHANGED <<pc, info, infoOf, lock>>
    BY <1>0, <1>7 DEF RemoveFromLoop, TypeOK, watchVars
  <2> QED
    BY <1>0, <2>1 DEF AloneInv, UnansweredInv, SelfLocked
<1>8. CASE AllTold
  <2>1. loop.at = "telling" /\ loop'.at = "callbacks" /\ loop'.infos = loop.infos
    BY <1>0, <1>8 DEF AllTold, TypeOK
  <2> QED
    BY <1>0, <2>1 DEF AloneInv, UnansweredInv, SelfLocked
<1> QED
  BY <1>1, <1>2, <1>3, <1>4, <1>5, <1>6, <1>7, <1>8 DEF DispatchStep, TellStep

\* The loop waits for info.lock, and dispatches nothing more.
LoopWaits == Crossed \/ LoopCancels

LEMMA StuckStep ==
  ASSUME IInv, StuckInv, [Next]_vars
  PROVE  /\ LoopWaits => LoopWaits' /\ \A g \in Goroutines : answer'[g] \in {answer[g], None}
         /\ \A w \in Watches : pc[w] = "cancelling" => pc'[w] = "cancelling"
<1>0. /\ TypeOK /\ AloneInv /\ UnansweredInv /\ Loop \notin Goroutines /\ None \notin Goroutines
      /\ NameWatchers \intersect SignalWatchers = {}
  BY Constants, NameAssumption DEF IInv, StuckInv
<1> USE DEF LoopWaits
<1>1. CASE ~ DispatchStep /\ ~ TellStep
  <2>1. LoopAlone
    BY <1>1, LoopKept
  <2>2. name'.unique = name.unique
    <3>1. name' = name \/ name' = [name EXCEPT !.owner = @ + 1]
      BY <1>1, Steps DEF vars, busVars, MakeStep, WatchName, FindInfo, NewNameInfo, NewNameInfoFails, CheckCurrentOwner,
         OwnerFound, AttachStep, Attach, AttachCancels, AddStep, AddMatch, AddMatchReturns, AddMatchFails,
         RemoveStep, RemoveNameWatch, NotFound, DetachOne, DetachLast, OwnerRuleRemoved, OwnerRuleKept,
         TakeStep, CallCancel, CancelAgain, Cancel, RemoveMatch, RemoveMatchReturns, RemoveMatchFails, CloseChannel,
         OtherStep, Receives, BusServes, OwnerChanges, Emit
    <3> QED
      BY <1>0, <3>1 DEF TypeOK
  <2>3. Crossed => Crossed'
    <3> SUFFICES ASSUME loop.at = "callbacks", NEW i \in loop.infos, info[i].lock \in Goroutines
                 PROVE  Crossed'
      BY DEF Crossed
    <3>1. i \in Watches /\ answer[info[i].lock] = None
      BY <1>0 DEF TypeOK, UnansweredInv
    <3>2. info'[i].lock = info[i].lock /\ loop' = loop
      BY <2>1, <3>1 DEF LoopAlone
    <3> QED
      BY <3>2 DEF Crossed
  <2>4. LoopCancels => LoopCancels'
    BY <2>1, <2>2 DEF LoopAlone, LoopCancels
  <2> QED
    BY <2>1, <2>3, <2>4 DEF LoopAlone
<1>2. CASE DispatchStep
  <2>1. pc' = pc /\ loop.at \in {"read", "dispatch"}
    BY <1>2 DEF DispatchStep, ReadMessage, DispatchReply, DispatchSignal, DispatchOwnerChanged
  <2> QED
    BY <2>1 DEF Crossed, LoopCancels
<1>3. CASE TellStep
  <2>1. pc' = pc /\ answer' = answer /\ name' = name
    BY <1>3 DEF TellStep, HandleOwnerChange, TellNameWatch, TellSignalWatch, CancelFromLoop, RemoveFromLoop,
       AllTold, CallbacksDone, callVars, busVars
  <2>2. Crossed => FALSE
    <3> SUFFICES ASSUME loop.at = "callbacks", NEW i \in loop.infos, info[i].lock \in Goroutines PROVE FALSE
      BY DEF Crossed
    <3> QED
      BY <1>0, <1>3 DEF TellStep, HandleOwnerChange, TellNameWatch, TellSignalWatch, CancelFromLoop, RemoveFromLoop,
         AllTold, CallbacksDone, AloneInv
  <2>3. LoopCancels => LoopCancels'
    <3>1. CASE \E w \in Watches : TellNameWatch(w)
      BY <1>0, <2>1, <3>1 DEF TellNameWatch, LoopCancels, TypeOK
    <3>2. CASE \E w \in Watches : CancelFromLoop(w)
      BY <1>0, <3>2 DEF CancelFromLoop, LoopCancels, TypeOK
    <3>3. CASE RemoveFromLoop
      BY <1>0, <3>3 DEF RemoveFromLoop, LoopCancels, TypeOK
    <3>4. CASE CallbacksDone \/ AllTold \/ \E w \in Watches : HandleOwnerChange(w) \/ TellSignalWatch(w)
      BY <3>4 DEF CallbacksDone, AllTold, HandleOwnerChange, TellSignalWatch, LoopCancels
    <3> QED
      BY <1>3, <3>1, <3>2, <3>3, <3>4 DEF TellStep
  <2> QED
    BY <2>1, <2>2, <2>3
<1> QED
  BY <1>1, <1>2, <1>3

LEMMA StuckInvariant == Spec => [](IInv /\ StuckInv)
<1>1. Init => IInv /\ StuckInv
  BY InitTyped, InitHolds, StuckInit DEF IInv
<1>2. IInv /\ StuckInv /\ [Next]_vars => (IInv /\ StuckInv)'
  BY StepInv, StepAsked, StepLocks, StepHolders, StepTold DEF StuckInv
<1> QED
  BY <1>1, <1>2, PTL DEF Spec

\* A Cancel that handleOwnerChange calls, because a unique name is gone, waits for
\* an info.lock that the loop it runs in holds.
THEOREM LoopLocksItself == Spec => []SelfLocked
<1>1. StuckInv => SelfLocked
  BY DEF StuckInv
<1> QED
  BY <1>1, StuckInvariant, PTL

\* Where the loop waits for info.lock it waits for ever: whoever holds the lock
\* waits for an answer that only the loop could dispatch.
THEOREM LoopWaitsForGood ==
  Spec => [][LoopWaits => LoopWaits' /\ \A g \in Goroutines : answer'[g] \in {answer[g], None}]_vars
<1>1. IInv /\ StuckInv /\ [Next]_vars =>
        [LoopWaits => LoopWaits' /\ \A g \in Goroutines : answer'[g] \in {answer[g], None}]_vars
  BY StuckStep
<1> QED
  BY <1>1, StuckInvariant, PTL DEF Spec

\* None of the cases in which WatchReturns and CancelReturns give a call up as
\* stuck ever comes to an end.
THEOREM StuckForGood == Spec => [][Stuck => Stuck']_vars
<1>1. SignalWatchers \subseteq Watches
  BY Constants
<1>2. IInv /\ StuckInv /\ [Next]_vars => [Stuck => Stuck']_vars
  BY <1>1, StuckStep DEF Stuck, LoopWaits
<1> QED
  BY <1>2, StuckInvariant, PTL DEF Spec

=============================================================================
