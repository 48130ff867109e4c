--------------------------- MODULE BusNamesProofs ---------------------------
(***************************************************************************)
(* Proofs about owning a bus name, for any number of Releases, any flags,  *)
(* any first owner, any failures of the bus and any moves of the rival.    *)
(***************************************************************************)
EXTENDS BusNames, SequenceTheorems, TLAPS

(***************************************************************************)
(* Type correctness.                                                       *)
(***************************************************************************)
Messages == {Signal(w) : w \in Watchers} \union {Reply(r) : r \in Answers}

LEMMA QueueTypes ==
  ASSUME NEW S, NEW q \in Seq(S)
  PROVE  /\ \A m \in S : Append(q, m) \in Seq(S) /\ q \o <<m>> \in Seq(S)
         /\ \A m, n \in S : q \o <<m, n>> \in Seq(S)
         /\ q # <<>> => Head(q) \in S /\ Tail(q) \in Seq(S)
  OBVIOUS

LEMMA EmptyAndOne ==
  ASSUME NEW S
  PROVE  /\ <<>> \in Seq(S) /\ Len(<<>>) = 0
         /\ \A m \in S : <<m>> \in Seq(S) /\ Len(<<m>>) = 1
  OBVIOUS

\* What a step of pc does.
LEMMA GotoMoves ==
  ASSUME TypeOK, NEW g \in Goroutines, NEW from, NEW to \in Places, Goto(g, from, to)
  PROVE  /\ pc' \in [Goroutines -> Places]
         /\ ~ Panicked /\ pc[g] = from /\ pc'[g] = to
         /\ \A h \in Goroutines \ {g} : pc'[h] = pc[h]
  BY DEF Goto, TypeOK

LEMMA InitTyped == Init => TypeOK
<1> SUFFICES ASSUME Init PROVE TypeOK
  OBVIOUS
<1>1. flags \in SUBSET Flags /\ owner \in Parties
  BY BusNameAssumption DEF Init
<1>2. moves \in 0..MaxMoves
  BY BusNameAssumption DEF Init
<1>3. /\ pc \in [Goroutines -> Places] /\ watch \in [Watchers -> {"nil", "on", "closed"}]
      /\ lock = None /\ closedBy = None /\ held = {} /\ needsRelease = FALSE /\ rules = {}
      /\ call = None /\ answer = None /\ loop = <<>> /\ queued = FALSE /\ foreign = FALSE
  BY DEF Init, Places
<1>4. /\ buffer \in Seq({"nil", "lost", "queued", "refused"}) /\ Len(buffer) <= 1
      /\ told \in Seq({"nil", "lost", "queued", "refused"})
      /\ fromBus \in Seq({Signal(w) : w \in Watchers} \union {Reply(r) : r \in Answers})
  BY EmptyAndOne DEF Init
<1> QED
  BY <1>1, <1>2, <1>3, <1>4 DEF TypeOK

LEMMA SentTyped ==
  ASSUME TypeOK, NEW word \in {"nil", "lost", "queued", "refused"}, Send(word)
  PROVE  /\ buffer' \in Seq({"nil", "lost", "queued", "refused"}) /\ Len(buffer') <= 1
         /\ UNCHANGED <<closedBy, told, held, needsRelease, watchVars, callVars, loop, busVars, flags>>
<1>1. buffer' = <<word>>
  BY DEF Send
<1>2. <<word>> \in Seq({"nil", "lost", "queued", "refused"}) /\ Len(<<word>>) = 1
  BY EmptyAndOne
<1> QED
  BY <1>1, <1>2 DEF Send

LEMMA RequestTyped ==
  ASSUME TypeOK,
         \/ RequestBegins \/ RequestCancelled \/ WatchSignal \/ WatchSignalReturns \/ WatchSignalFails
         \/ RequestName \/ RequestReturns \/ RequestTells
  PROVE  TypeOK'
<1>0. Request \in Goroutines /\ NextWatch \in Watchers /\ Watchers \subseteq Goroutines
  BY DEF Goroutines, NextWatch, Watchers
<1> USE <1>0 DEF channelVars, watchVars, callVars, busVars, Call, Answered, Unlock, Places
<1>1. CASE RequestBegins \/ RequestCancelled
  BY <1>1 DEF RequestBegins, RequestCancelled, TypeOK, Goto
<1>2. CASE WatchSignal
  BY <1>2 DEF WatchSignal, TypeOK, Goto, Methods
<1>3. CASE WatchSignalReturns
  BY <1>3 DEF WatchSignalReturns, TypeOK
<1>4. CASE WatchSignalFails
  BY <1>4 DEF WatchSignalFails, TypeOK, Goto
<1>5. CASE RequestName
  BY <1>5 DEF RequestName, TypeOK, Goto, Methods
<1>6. CASE RequestReturns
  BY <1>6 DEF RequestReturns, TypeOK, Goto
<1>7. CASE RequestTells
  <2>1. PICK word \in {"queued", "refused"} : Send(word)
    BY <1>7 DEF RequestTells
  <2> QED
    BY <1>7, <2>1, SentTyped DEF RequestTells, TypeOK, Goto
<1> QED
  BY <1>1, <1>2, <1>3, <1>4, <1>5, <1>6, <1>7

LEMMA WatchersTyped ==
  ASSUME TypeOK, NEW w \in Watchers,
         LockForLost \/ LostTells \/ AcquiredTells \/ SendPanics(w) \/ RangeEnds(w) \/ Deliver(w)
  PROVE  TypeOK'
<1>0. Watchers \subseteq Goroutines /\ Lost \in Goroutines /\ Acquired \in Goroutines
  BY DEF Goroutines, Watchers
<1> USE <1>0 DEF channelVars, watchVars, callVars, busVars, Places
<1>1. CASE LockForLost
  BY <1>1 DEF LockForLost, TypeOK, Goto
<1>2. CASE LostTells
  BY <1>2, SentTyped DEF LostTells, TypeOK, Goto
<1>3. CASE AcquiredTells
  BY <1>3, SentTyped DEF AcquiredTells, TypeOK, Goto
<1>4. CASE SendPanics(w) \/ RangeEnds(w)
  BY <1>4 DEF SendPanics, RangeEnds, TypeOK, Goto
<1>5. CASE Deliver(w)
  BY <1>5 DEF Deliver, TypeOK, Goto
<1> QED
  BY <1>1, <1>2, <1>3, <1>4, <1>5

LEMMA ReleaseTyped ==
  ASSUME TypeOK, NEW g \in Goroutines, CallRelease(g) \/ LockForRelease(g) \/ ReleaseStep(g)
  PROVE  TypeOK'
<1>0. NextCancel \in Watchers
  BY DEF NextCancel, Watchers
<1> USE <1>0 DEF channelVars, watchVars, callVars, busVars, Call, Answered, Unlock, Places
<1>1. CASE CallRelease(g) \/ LockForRelease(g)
  BY <1>1 DEF CallRelease, LockForRelease, TypeOK, Goto
<1>2. CASE CancelWatch(g) \/ ReleaseName(g)
  BY <1>2 DEF CancelWatch, ReleaseName, TypeOK, Goto, Methods
<1>3. CASE CancelWatchAgain(g) \/ CancelReturns(g)
  BY <1>3 DEF CancelWatchAgain, CancelReturns, TypeOK, Goto
<1>4. CASE ReleaseFails(g) \/ ReleaseNameReturns(g)
  BY <1>4 DEF ReleaseFails, ReleaseNameReturns, TypeOK, Goto
<1>5. CASE CloseChannel(g)
  BY <1>5 DEF CloseChannel, TypeOK, Goto
<1> QED
  BY <1>1, <1>2, <1>3, <1>4, <1>5 DEF ReleaseStep

\* What the bus sends at once when it serves a call.
LEMMA Sent ==
  ASSUME BusServes
  PROVE  \/ \E r \in Answers : fromBus' = fromBus \o <<Reply(r)>>
         \/ \E w \in Watchers, r \in Answers : fromBus' = fromBus \o <<Signal(w), Reply(r)>>
  BY DEF BusServes, Answers, Watchers

LEMMA BusTyped ==
  ASSUME TypeOK, BusServes \/ RivalTakes \/ RivalLeaves \/ OtherLeaves
  PROVE  TypeOK'
<1>0. \A w \in Watchers : Signal(w) \in Messages
  BY DEF Messages
<1>1. fromBus \in Seq(Messages)
  BY DEF TypeOK, Messages
<1>2. Lost \in Watchers /\ Acquired \in Watchers
  BY DEF Watchers
<1>3. fromBus' \in Seq(Messages)
  <2>1. CASE BusServes
    <3>1. \A r \in Answers : Reply(r) \in Messages
      BY DEF Messages
    <3>2. CASE \E r \in Answers : fromBus' = fromBus \o <<Reply(r)>>
      <4>1. PICK r \in Answers : fromBus' = fromBus \o <<Reply(r)>>
        BY <3>2
      <4> QED
        BY <1>1, <3>1, <4>1, QueueTypes
    <3>3. CASE \E w \in Watchers, r \in Answers : fromBus' = fromBus \o <<Signal(w), Reply(r)>>
      <4>1. PICK w \in Watchers, r \in Answers : fromBus' = fromBus \o <<Signal(w), Reply(r)>>
        BY <3>3
      <4> QED
        BY <1>0, <1>1, <3>1, <4>1, QueueTypes
    <3> QED
      BY <2>1, <3>2, <3>3, Sent
  <2>2. CASE RivalTakes \/ RivalLeaves \/ OtherLeaves
    <3>1. PICK w \in Watchers : fromBus' = fromBus \/ fromBus' = Append(fromBus, Signal(w))
      BY <1>2, <2>2 DEF RivalTakes, RivalLeaves, OtherLeaves
    <3> QED
      BY <1>0, <1>1, <3>1, QueueTypes
  <2> QED
    BY <2>1, <2>2
<1>4. owner' \in Parties /\ queued' \in BOOLEAN /\ foreign' \in BOOLEAN
  BY DEF BusServes, RivalTakes, RivalLeaves, OtherLeaves, TypeOK, Parties
<1>5. moves' \in 0..MaxMoves
  BY BusNameAssumption DEF BusServes, RivalTakes, RivalLeaves, OtherLeaves, TypeOK
<1>6. call' \in Methods \union {None} /\ answer' = answer
  BY DEF BusServes, RivalTakes, RivalLeaves, OtherLeaves, TypeOK, callVars
<1>7. UNCHANGED <<pc, lock, channelVars, needsRelease, watchVars, loop, flags>>
  BY DEF BusServes, RivalTakes, RivalLeaves, OtherLeaves
<1> QED
  BY <1>3, <1>4, <1>5, <1>6, <1>7 DEF TypeOK, Messages, channelVars, watchVars

LEMMA LoopTyped ==
  ASSUME TypeOK, ReadReply \/ ReadSignal \/ Receives
  PROVE  TypeOK'
<1>1. fromBus \in Seq(Messages)
  BY DEF TypeOK, Messages
<1>2. fromBus # <<>> => Head(fromBus) \in Messages /\ Tail(fromBus) \in Seq(Messages)
  BY <1>1, QueueTypes
<1>3. CASE ReadReply
  <2>1. Head(fromBus)[2] \in Answers
    BY <1>2, <1>3 DEF ReadReply, Messages, Signal, Reply
  <2> QED
    BY <1>2, <1>3, <2>1 DEF ReadReply, TypeOK, Messages, channelVars, watchVars
<1>4. CASE ReadSignal
  <2>1. Head(fromBus)[2] \in Watchers
    BY <1>2, <1>4 DEF ReadSignal, Messages, Signal, Reply
  <2> QED
    BY <1>2, <1>4, <2>1 DEF ReadSignal, TypeOK, Messages, channelVars, watchVars, callVars
<1>5. CASE Receives
  BY <1>5 DEF Receives, TypeOK, watchVars, callVars, busVars
<1> QED
  BY <1>3, <1>4, <1>5

LEMMA StepTyped == TypeOK /\ [Next]_vars => TypeOK'
<1> SUFFICES ASSUME TypeOK, [Next]_vars PROVE TypeOK'
  OBVIOUS
<1>1. CASE UNCHANGED vars
  BY <1>1 DEF vars, TypeOK, channelVars, watchVars, callVars, busVars
<1>2. Request \in Goroutines /\ Lost \in Goroutines /\ Lost \in Watchers /\ Acquired \in Watchers
  BY DEF Goroutines, Watchers
<1>3. CASE RequestStep
  BY <1>2, <1>3, RequestTyped, ReleaseTyped DEF RequestStep
<1>4. CASE LostStep \/ AcquiredStep
  BY <1>2, <1>4, WatchersTyped, ReleaseTyped DEF LostStep, AcquiredStep
<1>5. ASSUME NEW x \in Releases, CallRelease(x) \/ LockForRelease(x) \/ ReleaseStep(x) PROVE TypeOK'
  BY <1>5, ReleaseTyped DEF Goroutines
<1>6. CASE LoopStep \/ Receives
  BY <1>6, LoopTyped, WatchersTyped DEF LoopStep
<1>7. CASE BusServes \/ RivalTakes \/ RivalLeaves \/ OtherLeaves
  BY <1>7, BusTyped
<1> QED
  BY <1>1, <1>3, <1>4, <1>5, <1>6, <1>7 DEF Next

\* Type correctness of the goroutines, the channel and the queue of the bus.
THEOREM TypeCorrect == Spec => []TypeOK
  BY InitTyped, StepTyped, PTL DEF Spec

(***************************************************************************)
(* The invariant.                                                          *)
(***************************************************************************)
\* Where each kind of goroutine can be.
PlaceInv ==
  /\ pc[Request] \notin {"locking", "ranging", "panicked", "releasing"}
  /\ pc[Acquired] \in {"new", "ranging", "telling", "returned", "panicked"}
  /\ pc[Lost] \in {"new", "ranging", "locking", "telling", "release", "cancelling", "returned", "panicked"}
  /\ \A x \in Releases : pc[x] \in {"new", "locking", "release", "cancelling", "releasing", "returned"}

\* The goroutines that hold name.lock, and those of them that wait for the bus.
Waiting == {"watching", "requesting", "cancelling", "releasing"}
Inside == Waiting \union {"watch", "selfLocked", "request", "telling", "release", "panicked"}
Holds(g) == g # Acquired /\ pc[g] \in Inside

\* name.lock does what it is for.
LockInv == \A g \in Goroutines : Holds(g) => lock = g

LEMMA InitLocked == Init => PlaceInv /\ LockInv
  BY DEF Init, PlaceInv, LockInv, Holds, Inside, Waiting, Goroutines, Watchers

LEMMA StepLocked ==
  ASSUME TypeOK, PlaceInv, LockInv, [Next]_vars
  PROVE  PlaceInv' /\ LockInv'
<1>0. /\ Request \in Goroutines /\ Lost \in Goroutines /\ Acquired \in Goroutines
      /\ Releases \subseteq Goroutines
      /\ Request # Lost /\ Request # Acquired /\ Lost # Acquired
      /\ Request \notin Releases /\ Lost \notin Releases /\ Acquired \notin Releases
      /\ None \notin Goroutines
  BY BusNameAssumption DEF Goroutines, Watchers
<1>1. pc \in [Goroutines -> Places]
  BY DEF TypeOK
<1> USE <1>0, <1>1 DEF PlaceInv, LockInv, Holds, Inside, Waiting
<1>2. CASE UNCHANGED vars
  BY <1>2 DEF vars
<1>3. CASE RequestBegins \/ RequestCancelled \/ WatchSignal \/ WatchSignalReturns \/ WatchSignalFails
  <2>1. NextWatch \in {Lost, Acquired}
    BY DEF NextWatch
  <2> QED
    BY <1>3, <2>1 DEF RequestBegins, RequestCancelled, WatchSignal, WatchSignalReturns, WatchSignalFails, Goto
<1>4. CASE RequestName \/ RequestReturns \/ RequestTells
  BY <1>4 DEF RequestName, RequestReturns, RequestTells, Goto, Unlock
<1>5. CASE LockForLost \/ LostTells \/ AcquiredTells
  BY <1>5 DEF LockForLost, LostTells, AcquiredTells, Goto
<1>6. ASSUME NEW w \in Watchers, SendPanics(w) \/ RangeEnds(w) \/ Deliver(w)
      PROVE PlaceInv' /\ LockInv'
  BY <1>6 DEF SendPanics, RangeEnds, Deliver, Goto, Watchers
<1>7. ASSUME NEW x \in Releases, CallRelease(x) \/ LockForRelease(x)
      PROVE PlaceInv' /\ LockInv'
  BY <1>7 DEF CallRelease, LockForRelease, Goto
<1>8. ASSUME NEW g \in {Request, Lost} \union Releases, ReleaseStep(g)
      PROVE PlaceInv' /\ LockInv'
  <2>1. CASE CancelWatch(g) \/ CancelWatchAgain(g) \/ CancelReturns(g)
    BY <1>8, <2>1 DEF CancelWatch, CancelWatchAgain, CancelReturns, Goto
  <2>2. CASE ReleaseName(g) \/ ReleaseNameReturns(g)
    BY <1>8, <2>2 DEF ReleaseName, ReleaseNameReturns, Goto, Drops
  <2>3. CASE ReleaseFails(g) \/ CloseChannel(g)
    BY <1>8, <2>3 DEF ReleaseFails, CloseChannel, Goto, Unlock
  <2> QED
    BY <1>8, <2>1, <2>2, <2>3 DEF ReleaseStep
<1>9. CASE ReadReply \/ ReadSignal \/ Receives \/ BusServes \/ RivalTakes \/ RivalLeaves \/ OtherLeaves
  BY <1>9 DEF ReadReply, ReadSignal, Receives, BusServes, RivalTakes, RivalLeaves, OtherLeaves
<1> QED
  BY <1>2, <1>3, <1>4, <1>5, <1>6, <1>7, <1>8, <1>9
     DEF Next, RequestStep, LostStep, AcquiredStep, LoopStep, Watchers

\* What is in a queue of messages.
Has(q, m) == \E i \in 1..Len(q) : q[i] = m
IsReply(q, i) == i \in 1..Len(q) /\ q[i][1] = "reply"

\* There is one call at a time, and one reply to it.
Pending == call # None \/ answer # None \/ \E i \in 1..Len(fromBus) : IsReply(fromBus, i)
CallInv ==
  /\ Pending => lock # None /\ pc[lock] \in Waiting
  /\ call # None => answer = None
  /\ \A i \in 1..Len(fromBus) : IsReply(fromBus, i) => call = None /\ answer = None
  /\ \A i, j \in 1..Len(fromBus) : IsReply(fromBus, i) /\ IsReply(fromBus, j) => i = j
  /\ call = "RequestName" => pc[lock] = "requesting"
  /\ call = "ReleaseName" => pc[lock] = "releasing"
  /\ call \in {"AddMatch", "RemoveMatch"} => pc[lock] \in {"watching", "cancelling"}

\* The watches are set up in turn, and there is one in force while it is cancelled.
SetUpInv ==
  /\ \A w \in Watchers : watch[w] = "nil" => pc[w] = "new"
  /\ pc[Request] \in {"new", "watch", "watching"} => watch[Acquired] = "nil"
  /\ pc[Request] = "new" => watch[Lost] = "nil"
  /\ \A g \in Goroutines : pc[g] = "cancelling" => \E w \in Watchers : watch[w] = "on"

\* What is a reply after a signal is sent, after a call is served, and after the
\* loop has read a message.
LEMMA RepliesAfterSignal ==
  ASSUME NEW q \in Seq(Messages), NEW w \in Watchers, NEW i, IsReply(Append(q, Signal(w)), i)
  PROVE  IsReply(q, i)
<1>1. i \in 1..Len(q) + 1 /\ Append(q, Signal(w))[i][1] = "reply"
  BY DEF IsReply
<1>2. i # Len(q) + 1
  BY <1>1 DEF Signal
<1> QED
  BY <1>1, <1>2 DEF IsReply

LEMMA RepliesAfterServing ==
  ASSUME NEW q \in Seq(Messages), NEW w \in Watchers, NEW r \in Answers,
         \A j \in 1..Len(q) : ~ IsReply(q, j)
  PROVE  /\ \A i : IsReply(q \o <<Reply(r)>>, i) => i = Len(q) + 1
         /\ \A i : IsReply(q \o <<Signal(w), Reply(r)>>, i) => i = Len(q) + 2
<1>1. ASSUME NEW i, IsReply(q \o <<Reply(r)>>, i) PROVE i = Len(q) + 1
  <2>1. i \in 1..Len(q) + 1 /\ (q \o <<Reply(r)>>)[i][1] = "reply"
    BY <1>1 DEF IsReply
  <2>2. i \in 1..Len(q) => (q \o <<Reply(r)>>)[i] = q[i]
    OBVIOUS
  <2> QED
    BY <2>1, <2>2 DEF IsReply
<1>2. ASSUME NEW i, IsReply(q \o <<Signal(w), Reply(r)>>, i) PROVE i = Len(q) + 2
  <2> DEFINE new == q \o <<Signal(w), Reply(r)>>
  <2>1. i \in 1..Len(q) + 2 /\ new[i][1] = "reply"
    BY <1>2 DEF IsReply
  <2>2. i \in 1..Len(q) => new[i] = q[i]
    OBVIOUS
  <2>3. new[Len(q) + 1] = Signal(w)
    OBVIOUS
  <2>4. i # Len(q) + 1
    BY <2>1, <2>3 DEF Signal
  <2> QED
    BY <2>1, <2>2, <2>4 DEF IsReply
<1> QED
  BY <1>1, <1>2

LEMMA RepliesAfterReading ==
  ASSUME NEW q \in Seq(Messages), q # <<>>
  PROVE  /\ 1 \in 1..Len(q) /\ (Head(q)[1] = "reply" <=> IsReply(q, 1))
         /\ \A i \in 1..Len(Tail(q)) : IsReply(Tail(q), i) => i + 1 \in 1..Len(q) /\ IsReply(q, i + 1)
<1>1. \A i \in 1..Len(Tail(q)) : i + 1 \in 1..Len(q) /\ Tail(q)[i] = q[i + 1]
  OBVIOUS
<1>2. 1 \in 1..Len(q) /\ Head(q) = q[1]
  OBVIOUS
<1> QED
  BY <1>1, <1>2 DEF IsReply

LEMMA InitCalls == Init => CallInv /\ SetUpInv
<1> SUFFICES ASSUME Init PROVE CallInv /\ SetUpInv
  OBVIOUS
<1>1. /\ \A g \in Goroutines : pc[g] = "new"
      /\ \A w \in Watchers : watch[w] = "nil" /\ w \in Goroutines
      /\ Request \in Goroutines /\ Acquired \in Watchers /\ Lost \in Watchers
  BY DEF Init, Goroutines, Watchers
<1>2. call = None /\ answer = None /\ fromBus = <<>> /\ None \notin Methods
  BY BusNameAssumption DEF Init
<1>3. 1..Len(fromBus) = {}
  BY <1>2
<1> QED
  BY <1>1, <1>2, <1>3 DEF CallInv, SetUpInv, Pending, Methods

LEMMA StepCalls ==
  ASSUME TypeOK, PlaceInv, LockInv, CallInv, SetUpInv, [Next]_vars
  PROVE  CallInv' /\ SetUpInv'
<1>0. /\ Request \in Goroutines /\ Lost \in Goroutines /\ Acquired \in Goroutines
      /\ Releases \subseteq Goroutines
      /\ Request # Lost /\ Request # Acquired /\ Lost # Acquired
      /\ Request \notin Releases /\ Lost \notin Releases /\ Acquired \notin Releases
      /\ None \notin Goroutines \union Methods
      /\ None \notin {"ok", "error", "owner", "queued", "refused"}
  BY BusNameAssumption DEF Goroutines, Watchers, Answers
<1>1. /\ pc \in [Goroutines -> Places] /\ watch \in [Watchers -> {"nil", "on", "closed"}]
      /\ fromBus \in Seq(Messages) /\ call \in Methods \union {None}
      /\ lock \in Goroutines \union {None}
  BY DEF TypeOK, Messages
<1>2. NextWatch \in {Lost, Acquired} /\ (NextWatch = Lost <=> watch[Lost] = "nil")
  BY <1>0 DEF NextWatch
<1> USE <1>0, <1>1 DEF PlaceInv, LockInv, Holds, Inside, Waiting, CallInv, SetUpInv, Pending, Methods, Watchers
<1>3. CASE UNCHANGED vars
  BY <1>3 DEF vars, callVars, busVars, watchVars
<1>4. CASE RequestBegins \/ RequestCancelled \/ LockForLost
  BY <1>4 DEF RequestBegins, RequestCancelled, LockForLost, Goto, callVars, busVars, watchVars
<1>5. CASE WatchSignal \/ RequestName
  BY <1>5 DEF WatchSignal, RequestName, Goto, Call, busVars, watchVars
<1>6. CASE WatchSignalReturns
  BY <1>2, <1>6 DEF WatchSignalReturns, Answered, busVars
<1>7. CASE WatchSignalFails \/ RequestReturns
  BY <1>7 DEF WatchSignalFails, RequestReturns, Goto, Answered, busVars, watchVars
<1>8. CASE RequestTells \/ LostTells \/ AcquiredTells
  BY <1>8 DEF RequestTells, LostTells, AcquiredTells, Send, Goto, callVars, busVars, watchVars
<1>9. ASSUME NEW w \in Watchers, SendPanics(w) \/ RangeEnds(w) \/ Deliver(w)
      PROVE CallInv' /\ SetUpInv'
  BY <1>9 DEF SendPanics, RangeEnds, Deliver, Goto, callVars, busVars, watchVars
<1>10. ASSUME NEW x \in Releases, CallRelease(x) \/ LockForRelease(x)
       PROVE CallInv' /\ SetUpInv'
  BY <1>10 DEF CallRelease, LockForRelease, Goto, callVars, busVars, watchVars
<1>11. ASSUME NEW g \in {Request, Lost} \union Releases, ReleaseStep(g)
       PROVE CallInv' /\ SetUpInv'
  <2>1. ToCancel # {} => NextCancel \in ToCancel
    BY DEF NextCancel, ToCancel
  <2>2. CASE CancelWatch(g) \/ ReleaseName(g)
    BY <1>11, <2>2 DEF CancelWatch, ReleaseName, ToCancel, Goto, Call, busVars, watchVars
  <2>3. CASE CancelWatchAgain(g)
    BY <1>11, <2>1, <2>3 DEF CancelWatchAgain, ToCancel, callVars, busVars
  <2>4. CASE CancelReturns(g)
    BY <1>11, <2>1, <2>4 DEF CancelReturns, ToCancel, Goto, Answered, busVars
  <2>5. CASE ReleaseFails(g) \/ ReleaseNameReturns(g)
    BY <1>11, <2>5 DEF ReleaseFails, ReleaseNameReturns, Goto, Answered, busVars, watchVars
  <2>6. CASE CloseChannel(g)
    BY <1>11, <2>6 DEF CloseChannel, Goto, callVars, busVars, watchVars
  <2> QED
    BY <1>11, <2>2, <2>3, <2>4, <2>5, <2>6 DEF ReleaseStep
<1>12. CASE ReadReply \/ ReadSignal
  <2>1. /\ fromBus # <<>> /\ fromBus' = Tail(fromBus)
        /\ UNCHANGED <<pc, lock, watchVars, call>>
    BY <1>12 DEF ReadReply, ReadSignal, callVars
  <2> QED
    BY <1>12, <2>1, RepliesAfterReading DEF ReadReply, ReadSignal, watchVars, callVars
<1>13. CASE Receives
  BY <1>13 DEF Receives, callVars, busVars, watchVars
<1>14. CASE BusServes
  <2>1. /\ call # None /\ call' = None
        /\ \A j \in 1..Len(fromBus) : ~ IsReply(fromBus, j)
        /\ UNCHANGED <<pc, lock, watchVars, answer>>
    BY <1>14 DEF BusServes
  <2>2. \A i, j \in 1..Len(fromBus') : IsReply(fromBus', i) /\ IsReply(fromBus', j) => i = j
    <3>1. CASE \E r \in Answers : fromBus' = fromBus \o <<Reply(r)>>
      <4>1. PICK r \in Answers : fromBus' = fromBus \o <<Reply(r)>>
        BY <3>1
      <4>2. Lost \in Watchers
        OBVIOUS
      <4> QED
        BY <2>1, <4>1, <4>2, RepliesAfterServing
    <3>2. CASE \E w \in Watchers, r \in Answers : fromBus' = fromBus \o <<Signal(w), Reply(r)>>
      <4>1. PICK w \in Watchers, r \in Answers : fromBus' = fromBus \o <<Signal(w), Reply(r)>>
        BY <3>2
      <4> QED
        BY <2>1, <4>1, RepliesAfterServing
    <3> QED
      BY <1>14, <3>1, <3>2, Sent
  <2> QED
    BY <2>1, <2>2 DEF watchVars
<1>15. CASE RivalTakes \/ RivalLeaves \/ OtherLeaves
  <2>1. PICK w \in Watchers : fromBus' = fromBus \/ fromBus' = Append(fromBus, Signal(w))
    BY <1>15 DEF RivalTakes, RivalLeaves, OtherLeaves
  <2>2. \A i : IsReply(fromBus', i) => IsReply(fromBus, i) /\ i \in 1..Len(fromBus)
    BY <2>1, RepliesAfterSignal DEF IsReply
  <2>3. UNCHANGED <<pc, lock, watchVars, callVars>>
    BY <1>15 DEF RivalTakes, RivalLeaves, OtherLeaves
  <2> QED
    BY <2>2, <2>3 DEF watchVars, callVars
<1> QED
  BY <1>3, <1>4, <1>5, <1>6, <1>7, <1>8, <1>9, <1>10, <1>11, <1>12, <1>13, <1>14, <1>15
     DEF Next, RequestStep, LostStep, AcquiredStep, LoopStep

(***************************************************************************)
(* PanicsOnlyIfHeld.                                                       *)
(***************************************************************************)
\* When a watch is closed, the loop has nothing for it: the reply to RemoveMatch
\* has come through the loop.
WatchInv ==
  /\ \A w \in Watchers : watch[w] = "closed" => w \notin rules /\ loop # <<w>>
  /\ \A w \in Watchers : loop = <<w>> /\ w \notin rules =>
       \/ pc[Request] = "selfLocked" /\ watch[w] = "nil"
       \/ answer = None /\ lock # None /\ pc[lock] = "cancelling"
  /\ \A g \in Goroutines : pc[g] = "cancelling" => NextCancel \notin rules

\* After C is closed there are no watches in force, and of the two goroutines only
\* one that held a signal may come to send.
ClosedInv ==
  /\ closedBy # None =>
       /\ \A w \in Watchers : watch[w] # "on"
       /\ \A g \in Goroutines : Holds(g) => g = Lost /\ pc[g] \in {"telling", "panicked"}
       /\ \A w \in Watchers : pc[w] \in {"locking", "telling", "panicked"} => w \in held
  /\ Panicked => closedBy # None

LockedInv == TypeOK /\ PlaceInv /\ LockInv /\ CallInv /\ SetUpInv

LEMMA InitClosed == Init => WatchInv /\ ClosedInv
<1> SUFFICES ASSUME Init PROVE WatchInv /\ ClosedInv
  OBVIOUS
<1>1. /\ \A g \in Goroutines : pc[g] = "new"
      /\ \A w \in Watchers : watch[w] = "nil" /\ w \in Goroutines
  BY DEF Init, Goroutines, Watchers
<1>2. loop = <<>> /\ closedBy = None
  BY DEF Init
<1> QED
  BY <1>1, <1>2 DEF WatchInv, ClosedInv, Panicked

LEMMA StepWatches ==
  ASSUME LockedInv, LockedInv', WatchInv, [Next]_vars
  PROVE  WatchInv'
<1>0. /\ Request \in Goroutines /\ Lost \in Goroutines /\ Acquired \in Goroutines
      /\ Releases \subseteq Goroutines
      /\ Request # Lost /\ Request # Acquired /\ Lost # Acquired
      /\ Request \notin Releases /\ Lost \notin Releases /\ Acquired \notin Releases
      /\ None \notin Goroutines \union Methods
      /\ None \notin {"ok", "error", "owner", "queued", "refused"}
  BY BusNameAssumption DEF Goroutines, Watchers, Answers
<1>1. /\ pc \in [Goroutines -> Places] /\ watch \in [Watchers -> {"nil", "on", "closed"}]
      /\ lock \in Goroutines \union {None} /\ rules \in SUBSET Watchers
  BY DEF TypeOK, LockedInv
<1>2. PlaceInv /\ LockInv /\ CallInv /\ SetUpInv
  BY DEF LockedInv
<1>3. NextWatch \in {Lost, Acquired} /\ (NextWatch = Lost <=> watch[Lost] = "nil")
  BY <1>0 DEF NextWatch
<1> USE <1>0, <1>1, <1>2 DEF PlaceInv, LockInv, Holds, Inside, Waiting, WatchInv, SetUpInv, Watchers, ToCancel, NextCancel
<1>4. CASE UNCHANGED vars
  BY <1>4 DEF vars, callVars, busVars, watchVars
<1>5. CASE RequestBegins \/ RequestCancelled \/ LockForLost
  BY <1>5 DEF RequestBegins, RequestCancelled, LockForLost, Goto, callVars, watchVars
<1>6. CASE WatchSignal \/ RequestName
  BY <1>3, <1>6 DEF WatchSignal, RequestName, Goto, Call, watchVars
<1>7. CASE WatchSignalReturns
  BY <1>3, <1>7 DEF WatchSignalReturns, Answered
<1>8. CASE WatchSignalFails
  BY <1>3, <1>8 DEF WatchSignalFails, Goto, Answered
<1>9. CASE RequestReturns
  BY <1>9 DEF RequestReturns, Goto, Answered, watchVars
<1>10. CASE RequestTells \/ LostTells \/ AcquiredTells
  BY <1>10 DEF RequestTells, LostTells, AcquiredTells, Send, Goto, callVars, watchVars
<1>11. ASSUME NEW w \in Watchers, SendPanics(w) \/ RangeEnds(w) \/ Deliver(w)
       PROVE WatchInv'
  BY <1>11 DEF SendPanics, RangeEnds, Deliver, Goto, callVars, watchVars
<1>12. ASSUME NEW x \in Releases, CallRelease(x) \/ LockForRelease(x)
       PROVE WatchInv'
  BY <1>12 DEF CallRelease, LockForRelease, Goto, callVars, watchVars
<1>13. ASSUME NEW g \in {Request, Lost} \union Releases, ReleaseStep(g)
       PROVE WatchInv'
  <2>1. CASE CancelWatch(g)
    BY <1>13, <2>1 DEF CancelWatch, Goto, Call, CallInv, Pending
  <2>2. CASE CancelWatchAgain(g)
    BY <1>13, <2>2 DEF CancelWatchAgain, callVars
  <2>3. CASE CancelReturns(g)
    BY <1>13, <2>3 DEF CancelReturns, Goto, Answered
  <2>4. CASE ReleaseFails(g) \/ ReleaseNameReturns(g)
    BY <1>13, <2>4 DEF ReleaseFails, ReleaseNameReturns, Goto, Answered, watchVars
  <2>5. CASE CloseChannel(g) \/ ReleaseName(g)
    BY <1>13, <2>5 DEF CloseChannel, ReleaseName, Goto, Call, callVars, watchVars
  <2> QED
    BY <1>13, <2>1, <2>2, <2>3, <2>4, <2>5 DEF ReleaseStep
<1>14. CASE ReadReply
  BY <1>14 DEF ReadReply, watchVars
<1>15. CASE ReadSignal
  BY <1>15 DEF ReadSignal, watchVars, callVars
<1>16. CASE Receives
  BY <1>16 DEF Receives, callVars, watchVars
<1>17. CASE BusServes
  BY <1>17 DEF BusServes, watchVars
<1>18. CASE RivalTakes \/ RivalLeaves \/ OtherLeaves
  BY <1>18 DEF RivalTakes, RivalLeaves, OtherLeaves, callVars, watchVars
<1> QED
  BY <1>4, <1>5, <1>6, <1>7, <1>8, <1>9, <1>10, <1>11, <1>12, <1>13, <1>14, <1>15, <1>16, <1>17, <1>18
     DEF Next, RequestStep, LostStep, AcquiredStep, LoopStep

LEMMA StepClosed ==
  ASSUME LockedInv, LockedInv', WatchInv, ClosedInv, [Next]_vars
  PROVE  ClosedInv'
<1>0. /\ Request \in Goroutines /\ Lost \in Goroutines /\ Acquired \in Goroutines
      /\ Releases \subseteq Goroutines
      /\ Request # Lost /\ Request # Acquired /\ Lost # Acquired
      /\ Request \notin Releases /\ Lost \notin Releases /\ Acquired \notin Releases
      /\ None \notin Goroutines
  BY BusNameAssumption DEF Goroutines, Watchers
<1>1. /\ pc \in [Goroutines -> Places] /\ watch \in [Watchers -> {"nil", "on", "closed"}]
      /\ lock \in Goroutines \union {None}
  BY DEF TypeOK, LockedInv
<1>2. PlaceInv /\ LockInv /\ SetUpInv
  BY DEF LockedInv
<1>3. NextWatch \in {Lost, Acquired}
  BY <1>0 DEF NextWatch
<1> USE <1>0, <1>1, <1>2 DEF PlaceInv, LockInv, Holds, Inside, Waiting, ClosedInv, Panicked, Watchers, channelVars
<1>4. CASE UNCHANGED vars
  BY <1>4 DEF vars, watchVars
<1>5. CASE RequestBegins \/ RequestCancelled \/ LockForLost
  BY <1>5 DEF RequestBegins, RequestCancelled, LockForLost, Goto, watchVars
<1>6. CASE WatchSignal \/ WatchSignalFails \/ RequestName \/ RequestReturns
  BY <1>6 DEF WatchSignal, WatchSignalFails, RequestName, RequestReturns, Goto, watchVars
<1>7. CASE WatchSignalReturns
  BY <1>3, <1>7 DEF WatchSignalReturns
<1>8. CASE RequestTells \/ LostTells \/ AcquiredTells
  BY <1>8 DEF RequestTells, LostTells, AcquiredTells, Send, Goto, watchVars
<1>9. ASSUME NEW w \in Watchers, SendPanics(w) \/ RangeEnds(w)
      PROVE ClosedInv'
  BY <1>9 DEF SendPanics, RangeEnds, Goto, watchVars
<1>10. ASSUME NEW w \in Watchers, Deliver(w)
       PROVE ClosedInv'
  <2>1. closedBy # None => watch[w] = "closed"
    BY <1>10 DEF Deliver, Goto, SetUpInv
  <2>2. closedBy = None
    BY <1>10, <2>1 DEF Deliver, WatchInv
  <2> QED
    BY <1>10, <2>2 DEF Deliver, Goto, watchVars
<1>11. ASSUME NEW x \in Releases, CallRelease(x) \/ LockForRelease(x)
       PROVE ClosedInv'
  BY <1>11 DEF CallRelease, LockForRelease, Goto, watchVars
<1>12. ASSUME NEW g \in {Request, Lost} \union Releases, ReleaseStep(g)
       PROVE ClosedInv'
  <2>1. CASE CancelWatch(g) \/ ReleaseName(g) \/ ReleaseFails(g) \/ ReleaseNameReturns(g)
    BY <1>12, <2>1 DEF CancelWatch, ReleaseName, ReleaseFails, ReleaseNameReturns, Goto, watchVars
  <2>2. CASE CancelWatchAgain(g) \/ CancelReturns(g)
    BY <1>12, <2>2 DEF CancelWatchAgain, CancelReturns, Goto
  <2>3. CASE CloseChannel(g)
    BY <1>12, <2>3 DEF CloseChannel, ToCancel, Goto, watchVars
  <2> QED
    BY <1>12, <2>1, <2>2, <2>3 DEF ReleaseStep
<1>13. CASE ReadReply \/ ReadSignal \/ Receives
  BY <1>13 DEF ReadReply, ReadSignal, Receives, watchVars
<1>14. CASE BusServes \/ RivalTakes \/ RivalLeaves \/ OtherLeaves
  BY <1>14 DEF BusServes, RivalTakes, RivalLeaves, OtherLeaves, watchVars
<1> QED
  BY <1>4, <1>5, <1>6, <1>7, <1>8, <1>9, <1>10, <1>11, <1>12, <1>13, <1>14
     DEF Next, RequestStep, LostStep, AcquiredStep, LoopStep

\* Mutual exclusion by name.lock, one call and one reply at a time, and nothing for
\* a watch in the loop once it is closed.
THEOREM Invariant == Spec => [](LockedInv /\ WatchInv /\ ClosedInv)
<1>1. Init => LockedInv /\ WatchInv /\ ClosedInv
  BY InitTyped, InitLocked, InitCalls, InitClosed DEF LockedInv
<1>2. LockedInv /\ WatchInv /\ ClosedInv /\ [Next]_vars => (LockedInv /\ WatchInv /\ ClosedInv)'
  <2> SUFFICES ASSUME LockedInv, WatchInv, ClosedInv, [Next]_vars
               PROVE  (LockedInv /\ WatchInv /\ ClosedInv)'
    OBVIOUS
  <2>1. LockedInv'
    BY StepTyped, StepLocked, StepCalls DEF LockedInv
  <2> QED
    BY <2>1, StepWatches, StepClosed
<1> QED
  BY <1>1, <1>2, PTL DEF Spec

\* A goroutine sends on the closed C only if it held a signal when C was closed.
THEOREM PanicsExplained == Spec => []PanicsOnlyIfHeld
<1>1. LockedInv /\ WatchInv /\ ClosedInv => PanicsOnlyIfHeld
  BY DEF ClosedInv, PanicsOnlyIfHeld, Panicked
<1> QED
  BY <1>1, Invariant, PTL

(***************************************************************************)
(* GivenUp.                                                                *)
(***************************************************************************)
\* Whoever owns the name or waits for it has it on record that it must be
\* released, or is being told.
Granted ==
  /\ pc[Request] = "requesting"
  /\ \E word \in {"owner", "queued"} : answer = word \/ Has(fromBus, Reply(word))
Early == pc[Request] \in {"new", "watch", "watching", "request", "requesting"}
ReleaseInv ==
  /\ owner = "us" \/ queued => needsRelease \/ Granted
  /\ needsRelease => ~ Early /\ pc[Request] \notin {"release", "cancelling"}
  /\ \A g \in Goroutines : pc[g] = "releasing" /\ (answer = "ok" \/ Has(fromBus, Reply("ok"))) =>
       owner # "us" /\ ~ queued

\* A NameLost that is on its way or was taken: without a place in the queue, and
\* without another BusName, the name is gone for good.
LossKnown ==
  Has(fromBus, Signal(Lost)) \/ loop = <<Lost>> \/ pc[Lost] \in {"locking", "telling", "release", "cancelling"}
LossInv ==
  LossKnown /\ "DoNotQueue" \in flags /\ ~ foreign =>
    /\ owner # "us" /\ ~ queued
    /\ call # "RequestName" /\ pc[Request] \notin {"new", "watch", "watching", "request"}

\* What is in the queue after the loop has read a message and the bus has sent some.
LEMMA HasAfterReading ==
  ASSUME NEW q \in Seq(Messages), q # <<>>, NEW m, Has(Tail(q), m)
  PROVE  Has(q, m)
  BY DEF Has

LEMMA HasHead ==
  ASSUME NEW q \in Seq(Messages), q # <<>>
  PROVE  Has(q, Head(q))
<1>1. 1 \in 1..Len(q) /\ Head(q) = q[1]
  OBVIOUS
<1> QED
  BY <1>1 DEF Has

LEMMA HasAfterSending ==
  ASSUME NEW q \in Seq(Messages), NEW m, NEW n \in Messages
  PROVE  /\ Has(Append(q, n), m) <=> Has(q, m) \/ m = n
         /\ Has(q \o <<n>>, m) <=> Has(q, m) \/ m = n
<1>1. /\ Len(Append(q, n)) = Len(q) + 1 /\ Append(q, n)[Len(q) + 1] = n
      /\ \A i \in 1..Len(q) : Append(q, n)[i] = q[i]
  OBVIOUS
<1>2. q \o <<n>> = Append(q, n)
  OBVIOUS
<1>3. Len(q) \in Nat
  OBVIOUS
<1>4. Has(Append(q, n), m) <=> Has(q, m) \/ m = n
  BY <1>1, <1>3 DEF Has
<1> QED
  BY <1>2, <1>4

LEMMA HasAfterTwo ==
  ASSUME NEW q \in Seq(Messages), NEW m, NEW n \in Messages, NEW o \in Messages
  PROVE  Has(q \o <<n, o>>, m) <=> Has(q, m) \/ m = n \/ m = o
<1>1. q \o <<n, o>> = Append(Append(q, n), o) /\ Append(q, n) \in Seq(Messages)
  OBVIOUS
<1>2. Has(Append(q, n), m) <=> Has(q, m) \/ m = n
  BY HasAfterSending
<1>3. Has(Append(Append(q, n), o), m) <=> Has(Append(q, n), m) \/ m = o
  BY <1>1, HasAfterSending
<1> QED
  BY <1>1, <1>2, <1>3

\* The messages differ as they should.
LEMMA MessagesDiffer ==
  /\ \A w \in Watchers, r \in Answers : Signal(w) # Reply(r)
  /\ \A w, x : Signal(w) = Signal(x) => w = x
  /\ \A r, s : Reply(r) = Reply(s) => r = s
  /\ \A w \in Watchers : Signal(w) \in Messages
  /\ \A r \in Answers : Reply(r) \in Messages
  BY DEF Signal, Reply, Messages

LEMMA HasIsReply ==
  ASSUME NEW q, NEW r, Has(q, Reply(r))
  PROVE  \E i \in 1..Len(q) : IsReply(q, i)
  BY DEF Has, Reply, IsReply

LEMMA HeadOrTail ==
  ASSUME NEW q \in Seq(Messages), q # <<>>, NEW m, Has(q, m)
  PROVE  m = Head(q) \/ Has(Tail(q), m)
<1>1. PICK i \in 1..Len(q) : q[i] = m
  BY DEF Has
<1>2. i = 1 => m = Head(q)
  BY <1>1
<1>3. i # 1 => i - 1 \in 1..Len(Tail(q)) /\ Tail(q)[i - 1] = m
  BY <1>1
<1> QED
  BY <1>2, <1>3 DEF Has

\* What a message the loop reads is.
LEMMA HeadIs ==
  ASSUME NEW q \in Seq(Messages), q # <<>>
  PROVE  /\ Head(q)[1] = "reply" => Head(q) = Reply(Head(q)[2])
         /\ Head(q)[1] = "signal" => Head(q) = Signal(Head(q)[2])
<1>1. Head(q) \in Messages
  BY QueueTypes
<1> QED
  BY <1>1 DEF Messages, Signal, Reply

GivingInv == ReleaseInv /\ LossInv /\ GivenUp

LEMMA InitGiving == Init => GivingInv
<1> SUFFICES ASSUME Init PROVE GivingInv
  OBVIOUS
<1>1. /\ \A g \in Goroutines : pc[g] = "new"
      /\ Lost \in Goroutines /\ Request \in Goroutines
  BY DEF Init, Goroutines, Watchers
<1>2. owner # "us" /\ ~ queued /\ ~ needsRelease /\ loop = <<>> /\ closedBy = None
  BY BusNameAssumption DEF Init
<1>3. \A m : ~ Has(fromBus, m)
  BY DEF Init, Has
<1>4. ~ LossKnown
  BY <1>1, <1>2, <1>3 DEF LossKnown
<1> QED
  BY <1>1, <1>2, <1>4 DEF GivingInv, ReleaseInv, LossInv, GivenUp

\* While nobody waits for the bus, there is no reply.
LEMMA NoReplyUnlessPending ==
  ASSUME CallInv, ~ (lock # None /\ pc[lock] \in Waiting) \/ call # None
  PROVE  answer = None /\ \A r : ~ Has(fromBus, Reply(r))
  BY HasIsReply DEF CallInv, Pending

\* The steps of the goroutines: the bus and its queue stay as they are.
LEMMA GoroutinesGive ==
  ASSUME LockedInv, WatchInv, ClosedInv, GivingInv, RequestStep \/ LostStep \/ AcquiredStep
           \/ \E x \in Releases : CallRelease(x) \/ LockForRelease(x) \/ ReleaseStep(x)
  PROVE  GivingInv'
<1>0. /\ Request \in Goroutines /\ Lost \in Goroutines /\ Acquired \in Goroutines
      /\ Releases \subseteq Goroutines
      /\ Request # Lost /\ Request # Acquired /\ Lost # Acquired
      /\ Request \notin Releases /\ Lost \notin Releases /\ Acquired \notin Releases
      /\ None \notin Goroutines
      /\ None \notin {"ok", "error", "owner", "queued", "refused"}
  BY BusNameAssumption DEF Goroutines, Watchers, Answers
<1>1. pc \in [Goroutines -> Places] /\ lock \in Goroutines \union {None} /\ needsRelease \in BOOLEAN
  BY DEF TypeOK, LockedInv
<1>2. PlaceInv /\ LockInv /\ CallInv
  BY DEF LockedInv
<1>3. NextWatch \in {Lost, Acquired}
  BY DEF NextWatch
<1>4. \A r : Has(fromBus, Reply(r)) => \E i \in 1..Len(fromBus) : IsReply(fromBus, i)
  BY HasIsReply
<1>5. /\ Pending => lock # None /\ pc[lock] \in Waiting
      /\ answer # None => \A r : ~ Has(fromBus, Reply(r))
      /\ answer # None \/ (\E r : Has(fromBus, Reply(r))) => Pending /\ call = None
  BY <1>2, <1>4 DEF CallInv, Pending
<1> USE <1>0, <1>1, <1>2, <1>5
    DEF PlaceInv, LockInv, Holds, Inside, Waiting, GivingInv, ReleaseInv, LossInv, GivenUp, Granted, Early,
        LossKnown, Watchers, busVars, channelVars
<1>6. CASE RequestBegins \/ RequestCancelled \/ LockForLost
  BY <1>6 DEF RequestBegins, RequestCancelled, LockForLost, Goto, callVars
<1>7. CASE WatchSignal \/ RequestName
  BY <1>7 DEF WatchSignal, RequestName, Goto, Call
<1>8. CASE WatchSignalReturns
  BY <1>3, <1>8 DEF WatchSignalReturns, Answered
<1>9. CASE WatchSignalFails
  BY <1>9 DEF WatchSignalFails, Goto, Answered
<1>10. CASE RequestReturns
  BY <1>10 DEF RequestReturns, Goto, Answered
<1>11. CASE RequestTells \/ LostTells \/ AcquiredTells
  BY <1>11 DEF RequestTells, LostTells, AcquiredTells, Send, Goto, callVars
<1>12. ASSUME NEW w \in Watchers, SendPanics(w) \/ RangeEnds(w)
       PROVE GivingInv'
  BY <1>12 DEF SendPanics, RangeEnds, Goto, callVars
<1>13. ASSUME NEW x \in Releases, CallRelease(x) \/ LockForRelease(x)
       PROVE GivingInv'
  BY <1>13 DEF CallRelease, LockForRelease, Goto, callVars
<1>14. ASSUME NEW g \in {Request, Lost} \union Releases, ReleaseStep(g)
       PROVE GivingInv'
  <2>1. CASE CancelWatch(g)
    BY <1>14, <2>1 DEF CancelWatch, Goto, Call
  <2>2. CASE CancelWatchAgain(g)
    BY <1>14, <2>2 DEF CancelWatchAgain, callVars
  <2>3. CASE CancelReturns(g) \/ ReleaseFails(g)
    BY <1>14, <2>3 DEF CancelReturns, ReleaseFails, Goto, Answered
  <2>4. CASE ReleaseName(g)
    BY <1>14, <2>4 DEF ReleaseName, Goto, Call, Drops
  <2>5. CASE ReleaseNameReturns(g)
    BY <1>14, <2>5 DEF ReleaseNameReturns, Goto, Answered
  <2>6. CASE CloseChannel(g)
    BY <1>14, <2>6 DEF CloseChannel, Goto, Drops, callVars
  <2> QED
    BY <1>14, <2>1, <2>2, <2>3, <2>4, <2>5, <2>6 DEF ReleaseStep
<1> QED
  BY <1>6, <1>7, <1>8, <1>9, <1>10, <1>11, <1>12, <1>13, <1>14
     DEF RequestStep, LostStep, AcquiredStep

\* The steps of the loop and of the application.
LEMMA LoopGives ==
  ASSUME LockedInv, WatchInv, ClosedInv, GivingInv, LoopStep \/ Receives
  PROVE  GivingInv'
<1>0. Request \in Goroutines /\ Lost \in Goroutines /\ Lost \in Watchers /\ Lost # Acquired
      /\ Request # Lost /\ Request # Acquired
  BY BusNameAssumption DEF Goroutines, Watchers
<1>1. pc \in [Goroutines -> Places] /\ fromBus \in Seq(Messages)
  BY DEF TypeOK, LockedInv, Messages
<1>2. CASE ReadReply
  <2>1. /\ fromBus # <<>> /\ fromBus' = Tail(fromBus) /\ Head(fromBus) = Reply(answer')
        /\ UNCHANGED <<pc, lock, needsRelease, call, loop, owner, queued, foreign, flags, closedBy>>
    BY <1>1, <1>2, HeadIs DEF ReadReply, channelVars
  <2>2. \A m : Has(fromBus', m) => Has(fromBus, m)
    BY <1>1, <2>1, HasAfterReading
  <2>3. \A word : answer' = word => Has(fromBus, Reply(word))
    BY <1>1, <2>1, HasHead
  <2>4. Granted => Granted'
    <3>1. SUFFICES ASSUME NEW word \in {"owner", "queued"}, Has(fromBus, Reply(word)) \/ answer = word,
                          pc[Request] = "requesting"
                   PROVE  answer' = word \/ Has(fromBus', Reply(word))
      BY <2>1 DEF Granted
    <3>2. answer = None
      <4>1. 1 \in 1..Len(fromBus) /\ IsReply(fromBus, 1)
        BY <1>1, <1>2, <2>1, RepliesAfterReading DEF ReadReply
      <4> QED
        BY <4>1 DEF CallInv, LockedInv
    <3>3. None # word
      BY BusNameAssumption DEF Answers
    <3>4. Reply(word) = Head(fromBus) \/ Has(fromBus', Reply(word))
      BY <1>1, <2>1, <3>1, <3>2, <3>3, HeadOrTail
    <3> QED
      BY <2>1, <3>4, MessagesDiffer
  <2> QED
    BY <2>1, <2>2, <2>3, <2>4 DEF GivingInv, ReleaseInv, Early, LossInv, LossKnown, GivenUp
<1>3. CASE ReadSignal
  <2>1. /\ fromBus # <<>> /\ fromBus' = Tail(fromBus)
        /\ UNCHANGED <<pc, lock, needsRelease, call, answer, owner, queued, foreign, flags, closedBy>>
    BY <1>3 DEF ReadSignal, channelVars, callVars
  <2>2. \A m : Has(fromBus', m) => Has(fromBus, m)
    BY <1>1, <2>1, HasAfterReading
  <2>3. loop' = <<Lost>> => Has(fromBus, Signal(Lost))
    <3>1. Has(fromBus, Signal(Head(fromBus)[2]))
      BY <1>1, <1>3, <2>1, HasHead, HeadIs DEF ReadSignal
    <3> QED
      BY <1>3, <3>1 DEF ReadSignal
  <2>4. Granted => Granted'
    <3>1. \A word : Has(fromBus, Reply(word)) => Reply(word) = Head(fromBus) \/ Has(fromBus', Reply(word))
      BY <1>1, <2>1, HeadOrTail
    <3>2. \A word : Reply(word) # Head(fromBus)
      BY <1>3 DEF ReadSignal, Reply
    <3> QED
      BY <2>1, <3>1, <3>2 DEF Granted
  <2> QED
    BY <2>1, <2>2, <2>3, <2>4 DEF GivingInv, ReleaseInv, Early, LossInv, LossKnown, GivenUp
<1>4. ASSUME NEW w \in Watchers, Deliver(w) PROVE GivingInv'
  BY <1>0, <1>1, <1>4 DEF Deliver, Goto, channelVars, callVars, busVars, Goroutines, Watchers,
     GivingInv, ReleaseInv, Granted, Early, LossInv, LossKnown, GivenUp
<1>5. CASE Receives
  BY <1>5 DEF Receives, callVars, busVars, GivingInv, ReleaseInv, Granted, Early, LossInv, LossKnown, GivenUp
<1> QED
  BY <1>2, <1>3, <1>4, <1>5 DEF LoopStep

\* The steps of the rival and of the other BusName.
LEMMA OthersGive ==
  ASSUME LockedInv, GivingInv, RivalTakes \/ RivalLeaves \/ OtherLeaves
  PROVE  GivingInv'
<1>0. /\ Lost \in Watchers /\ Acquired \in Watchers /\ Lost # Acquired
      /\ None \notin {"ok", "error", "owner", "queued", "refused"}
  BY BusNameAssumption DEF Watchers, Answers
<1>1. fromBus \in Seq(Messages)
  BY DEF TypeOK, LockedInv, Messages
<1>2. UNCHANGED <<pc, lock, needsRelease, call, answer, loop, flags, closedBy>>
  BY DEF RivalTakes, RivalLeaves, OtherLeaves, channelVars, callVars
<1>3. \/ fromBus' = fromBus
      \/ fromBus' = Append(fromBus, Signal(Acquired))
      \/ /\ fromBus' = Append(fromBus, Signal(Lost))
         /\ foreign' \/ (owner = "us" /\ owner' = "rival" /\ queued' = ("DoNotQueue" \notin flags))
  BY DEF RivalTakes, RivalLeaves, OtherLeaves
<1>4. \A r \in Answers : Has(fromBus', Reply(r)) <=> Has(fromBus, Reply(r))
  <2> SUFFICES ASSUME NEW r \in Answers PROVE Has(fromBus', Reply(r)) <=> Has(fromBus, Reply(r))
    OBVIOUS
  <2>1. \A w \in Watchers : Has(Append(fromBus, Signal(w)), Reply(r)) <=> Has(fromBus, Reply(r))
    BY <1>1, HasAfterSending, MessagesDiffer
  <2> QED
    BY <1>0, <1>3, <2>1
<1>5. Granted' <=> Granted
  BY <1>2, <1>4 DEF Granted, Answers
<1>6. Has(fromBus', Signal(Lost)) /\ ~ Has(fromBus, Signal(Lost)) =>
        foreign' \/ (owner = "us" /\ owner' = "rival" /\ queued' = ("DoNotQueue" \notin flags))
  <2>1. Has(Append(fromBus, Signal(Acquired)), Signal(Lost)) <=> Has(fromBus, Signal(Lost))
    BY <1>0, <1>1, HasAfterSending, MessagesDiffer
  <2> QED
    BY <1>3, <2>1
<1>7. owner = "us" \/ queued => call # "RequestName" /\ pc[Request] \notin {"new", "watch", "watching", "request"}
  <2>1. CASE needsRelease
    <3>1. ~ Early
      BY <2>1 DEF GivingInv, ReleaseInv
    <3>2. call = "RequestName" => lock \in Goroutines /\ pc[lock] = "requesting"
      BY BusNameAssumption DEF LockedInv, CallInv, Pending, TypeOK, Methods
    <3>3. \A g \in Goroutines : pc[g] = "requesting" => g = Request
      BY DEF LockedInv, PlaceInv, Goroutines, Watchers
    <3> QED
      BY <3>1, <3>2, <3>3 DEF Early
  <2>2. CASE Granted
    <3>1. call = None
      BY <1>0, <2>2, HasIsReply DEF Granted, LockedInv, CallInv
    <3>2. None # "RequestName"
      BY BusNameAssumption DEF Methods
    <3> QED
      BY <2>2, <3>1, <3>2 DEF Granted
  <2> QED
    BY <2>1, <2>2 DEF GivingInv, ReleaseInv
<1>8. ReleaseInv'
  BY <1>2, <1>4, <1>5 DEF RivalTakes, RivalLeaves, OtherLeaves, GivingInv, ReleaseInv, Early, Answers
<1>9. LossInv'
  BY <1>2, <1>6, <1>7 DEF RivalTakes, RivalLeaves, OtherLeaves, GivingInv, LossInv, LossKnown
<1>10. GivenUp'
  BY <1>2 DEF RivalTakes, RivalLeaves, OtherLeaves, GivingInv, GivenUp
<1> QED
  BY <1>8, <1>9, <1>10 DEF GivingInv

\* What serving a call does.
LEMMA ServingGives ==
  ASSUME LockedInv, ClosedInv, GivingInv, BusServes
  PROVE  GivingInv'
<1>0. /\ Lost \in Watchers /\ Acquired \in Watchers /\ Lost # Acquired
      /\ None \notin {"ok", "error", "owner", "queued", "refused"} /\ None \notin Methods
  BY BusNameAssumption DEF Watchers, Answers
<1>1. fromBus \in Seq(Messages) /\ call \in Methods \union {None}
  BY DEF TypeOK, LockedInv, Messages
<1>2. UNCHANGED <<pc, lock, needsRelease, answer, loop, flags, foreign, closedBy>> /\ call # None /\ call' = None
  BY DEF BusServes, channelVars
<1>3. answer = None /\ \A r : ~ Has(fromBus, Reply(r))
  BY <1>2, NoReplyUnlessPending DEF LockedInv
<1>4. ~ Granted
  BY <1>0, <1>3 DEF Granted
\* Who waits for the call.
<1>5. lock \in Goroutines /\ pc[lock] \in Waiting
  BY <1>2 DEF LockedInv, CallInv, Pending, TypeOK
<1>6. closedBy = None
  <2>1. lock # Acquired
    BY <1>5 DEF LockedInv, PlaceInv, Waiting
  <2> QED
    BY <1>5, <2>1 DEF ClosedInv, Holds, Inside, Waiting
<1>7. \A g \in Goroutines : pc[g] = "releasing" => pc[lock] = "releasing"
  <2>1. pc[Acquired] # "releasing"
    BY DEF LockedInv, PlaceInv
  <2> QED
    BY <2>1 DEF LockedInv, LockInv, Holds, Inside, Waiting
<1>8. call = "RequestName" => pc[lock] = "requesting" /\ lock = Request
  BY <1>5 DEF LockedInv, CallInv, PlaceInv, Goroutines, Watchers
<1>9. call \in {"AddMatch", "RemoveMatch"} => pc[lock] \in {"watching", "cancelling"}
  BY DEF LockedInv, CallInv
\* What is in the queue then.
<1>10. \A r, s \in Answers : Has(fromBus \o <<Reply(r)>>, Reply(s)) => s = r
  BY <1>1, <1>3, HasAfterSending, MessagesDiffer
<1>11. \A r \in Answers : Has(fromBus \o <<Reply(r)>>, Reply(r))
  BY <1>1, HasAfterSending, MessagesDiffer
<1>12. \A r \in Answers : Has(fromBus \o <<Reply(r)>>, Signal(Lost)) <=> Has(fromBus, Signal(Lost))
  BY <1>0, <1>1, HasAfterSending, MessagesDiffer
<1>13. \A w \in Watchers, r \in Answers : Has(fromBus \o <<Signal(w), Reply(r)>>, Reply(r))
  BY <1>1, HasAfterTwo, MessagesDiffer
<1>14. \A r \in Answers : Has(fromBus \o <<Signal(Acquired), Reply(r)>>, Signal(Lost)) => Has(fromBus, Signal(Lost))
  <2> SUFFICES ASSUME NEW r \in Answers, Has(fromBus \o <<Signal(Acquired), Reply(r)>>, Signal(Lost))
               PROVE  Has(fromBus, Signal(Lost))
    OBVIOUS
  <2>1. Has(fromBus, Signal(Lost)) \/ Signal(Lost) = Signal(Acquired) \/ Signal(Lost) = Reply(r)
    BY <1>0, <1>1, HasAfterTwo, MessagesDiffer
  <2> QED
    BY <1>0, <2>1, MessagesDiffer
<1>15. {"ok", "error", "owner", "queued", "refused"} = Answers
  BY DEF Answers
<1> HIDE DEF Reply, Signal
\* The calls.
<1>16. CASE call \in Faults /\ owner' = owner /\ queued' = queued /\ fromBus' = fromBus \o <<Reply("error")>>
  <2>1. ReleaseInv'
    BY <1>2, <1>3, <1>4, <1>10, <1>15, <1>16 DEF GivingInv, ReleaseInv, Early
  <2>2. LossInv'
    BY <1>0, <1>2, <1>12, <1>15, <1>16 DEF GivingInv, LossInv, LossKnown, Methods
  <2> QED
    BY <1>2, <1>6, <2>1, <2>2 DEF GivingInv, GivenUp
<1>17. CASE call \in {"AddMatch", "RemoveMatch"} /\ owner' = owner /\ queued' = queued /\ fromBus' = fromBus \o <<Reply("ok")>>
  <2>1. ReleaseInv'
    BY <1>2, <1>4, <1>7, <1>9, <1>17 DEF GivingInv, ReleaseInv, Early
  <2>2. LossInv'
    BY <1>0, <1>2, <1>12, <1>15, <1>17 DEF GivingInv, LossInv, LossKnown, Methods
  <2> QED
    BY <1>2, <1>6, <2>1, <2>2 DEF GivingInv, GivenUp
<1>18. CASE call = "RequestName" /\ owner' = "us" /\ queued' = FALSE /\ fromBus' = fromBus \o <<Signal(Acquired), Reply("owner")>>
  <2>1. Granted'
    BY <1>0, <1>2, <1>8, <1>13, <1>15, <1>18 DEF Granted
  <2>2. ReleaseInv'
    BY <1>2, <1>7, <1>8, <1>18, <2>1 DEF GivingInv, ReleaseInv, Early
  <2>3. LossInv'
    BY <1>2, <1>14, <1>15, <1>18 DEF GivingInv, LossInv, LossKnown
  <2> QED
    BY <1>2, <1>6, <2>2, <2>3 DEF GivingInv, GivenUp
<1>19. CASE call = "RequestName" /\ owner' = owner /\ queued' = TRUE /\ fromBus' = fromBus \o <<Reply("queued")>>
  <2>1. Granted'
    BY <1>2, <1>8, <1>11, <1>15, <1>19 DEF Granted
  <2>2. ReleaseInv'
    BY <1>2, <1>7, <1>8, <1>19, <2>1 DEF GivingInv, ReleaseInv, Early
  <2>3. LossInv'
    BY <1>2, <1>12, <1>15, <1>19 DEF GivingInv, LossInv, LossKnown
  <2> QED
    BY <1>2, <1>6, <2>2, <2>3 DEF GivingInv, GivenUp
<1>20. CASE call = "RequestName" /\ owner' = owner /\ queued' = queued /\ fromBus' = fromBus \o <<Reply("refused")>>
  <2>1. ReleaseInv'
    BY <1>2, <1>4, <1>7, <1>8, <1>20 DEF GivingInv, ReleaseInv, Early
  <2>2. LossInv'
    BY <1>2, <1>12, <1>15, <1>20 DEF GivingInv, LossInv, LossKnown
  <2> QED
    BY <1>2, <1>6, <2>1, <2>2 DEF GivingInv, GivenUp
<1>21. CASE /\ call = "ReleaseName" /\ owner' # "us" /\ queued' = FALSE
            /\ owner = "us" \/ (owner' = owner /\ fromBus' = fromBus \o <<Reply("ok")>>)
  <2>1. ReleaseInv'
    BY <1>2, <1>21 DEF GivingInv, ReleaseInv, Early
  <2>2. LossInv'
    <3>1. owner = "us" => ~ Early
      BY <1>4 DEF GivingInv, ReleaseInv
    <3> QED
      BY <1>0, <1>2, <1>12, <1>15, <1>21, <3>1 DEF GivingInv, LossInv, LossKnown, Early, Methods
  <2> QED
    BY <1>2, <1>6, <2>1, <2>2 DEF GivingInv, GivenUp
<1> QED
  <2>1. CASE call # "ReleaseName"
    <3>1. \/ call \in Faults /\ owner' = owner /\ queued' = queued /\ fromBus' = fromBus \o <<Reply("error")>>
          \/ call \in {"AddMatch", "RemoveMatch"} /\ owner' = owner /\ queued' = queued /\ fromBus' = fromBus \o <<Reply("ok")>>
          \/ call = "RequestName" /\ owner' = "us" /\ queued' = FALSE /\ fromBus' = fromBus \o <<Signal(Acquired), Reply("owner")>>
          \/ call = "RequestName" /\ owner' = owner /\ queued' = TRUE /\ fromBus' = fromBus \o <<Reply("queued")>>
          \/ call = "RequestName" /\ owner' = owner /\ queued' = queued /\ fromBus' = fromBus \o <<Reply("refused")>>
      BY <2>1, Zenon DEF BusServes
    <3> QED
      BY <1>16, <1>17, <1>18, <1>19, <1>20, <3>1, Zenon
  <2>2. CASE call = "ReleaseName"
    <3>1. \/ call \in Faults /\ owner' = owner /\ queued' = queued /\ fromBus' = fromBus \o <<Reply("error")>>
          \/ owner = "us" /\ owner' = "nobody" /\ queued' = FALSE
          \/ owner # "us" /\ owner' = owner /\ queued' = FALSE /\ fromBus' = fromBus \o <<Reply("ok")>>
      BY <2>2 DEF BusServes
    <3>2. CASE call \in Faults /\ owner' = owner /\ queued' = queued /\ fromBus' = fromBus \o <<Reply("error")>>
      BY <1>16, <3>2, Zenon
    <3>3. CASE owner = "us" /\ owner' = "nobody" /\ queued' = FALSE
      <4>1. owner' # "us"
        BY <3>3
      <4> QED
        BY <1>21, <2>2, <3>3, <4>1, Zenon
    <3>4. CASE owner # "us" /\ owner' = owner /\ queued' = FALSE /\ fromBus' = fromBus \o <<Reply("ok")>>
      <4>1. owner' # "us"
        BY <3>4
      <4> QED
        BY <1>21, <2>2, <3>4, <4>1, Zenon
    <3> QED
      BY <3>1, <3>2, <3>3, <3>4, Zenon
  <2> QED
    BY <2>1, <2>2, Zenon

\* Who owns the name or waits for it has it on record, and what a NameLost means.
THEOREM GivingInvariant == Spec => []GivingInv
<1>1. LockedInv /\ WatchInv /\ ClosedInv /\ GivingInv /\ [Next]_vars => GivingInv'
  <2> SUFFICES ASSUME LockedInv, WatchInv, ClosedInv, GivingInv, [Next]_vars PROVE GivingInv'
    OBVIOUS
  <2>1. CASE UNCHANGED vars
    BY <2>1 DEF vars, channelVars, callVars, busVars, GivingInv, ReleaseInv, Granted, Early, LossInv, LossKnown, GivenUp
  <2> QED
    BY <2>1, GoroutinesGive, LoopGives, OthersGive, ServingGives DEF Next
<1> QED
  BY <1>1, InitGiving, Invariant, PTL DEF Spec

\* Once C is closed the name is given up, but for the two cases of a NameLost.
THEOREM NameGivenUp == Spec => []GivenUp
<1>1. GivingInv => GivenUp
  BY DEF GivingInv
<1> QED
  BY <1>1, GivingInvariant, PTL

(***************************************************************************)
(* Informed.                                                               *)
(***************************************************************************)
\* What the application has been told or finds in C.
Heard == told \o buffer
ToldOfName == {<<"nil">>, <<"queued", "nil">>, <<"nil", "queued">>}
ToldOfQueue == {<<"queued">>, <<"queued", "nil">>, <<"nil", "queued">>}

\* A NameLost is on its way or was taken, and a NameAcquired is on its way.
Lossy == Has(fromBus, Signal(Lost)) \/ loop = <<Lost>> \/ pc[Lost] \notin {"new", "ranging"}
UnderWay == Has(fromBus, Signal(Acquired)) \/ loop = <<Acquired>> \/ pc[Acquired] = "telling"
OnceIn(q, m) == \A i, j \in 1..Len(q) : q[i] = m /\ q[j] = m => i = j

\* A rule in the table is that of a watch in force, or of the one being set up.
RuleInv == \A w \in rules : watch[w] = "nil" => pc[Request] = "watching" /\ w = NextWatch

\* There is nothing to tell before the watches are set up.
EarlyInv == pc[Request] \in {"new", "watch", "watching"} => ~ UnderWay /\ Heard = <<>>

\* While both watches are in force and the name was not lost, the name is owned
\* exactly if the one NameAcquired is under way or the application has heard of it.
Story == rules = Watchers /\ ~ Lossy /\ pc[Request] # "release"
Told ==
  /\ Heard \in {<<>>} \union ToldOfName \union ToldOfQueue
  /\ Heard \in ToldOfQueue => pc[Request] = "returned"
  /\ owner = "us" <=> UnderWay \/ Heard \in ToldOfName
  /\ ~ (UnderWay /\ Heard \in ToldOfName)
OneAcquired ==
  /\ OnceIn(fromBus, Signal(Acquired))
  /\ Has(fromBus, Signal(Acquired)) => loop # <<Acquired>> /\ pc[Acquired] # "telling"
  /\ loop = <<Acquired>> => pc[Acquired] # "telling"
StoryInv == Story => Told /\ OneAcquired

\* What the application hears.
Words == {"nil", "lost", "queued", "refused"}

LEMMA HeardMore ==
  ASSUME NEW t \in Seq(Words), NEW b \in Seq(Words), Len(b) <= 1
  PROVE  /\ b = <<>> => t \o b = t /\ \A word \in Words : t \o <<word>> = Append(t, word)
         /\ b # <<>> => Append(t, Head(b)) \o Tail(b) = t \o b
<1>1. t \o <<>> = t
  OBVIOUS
<1>2. \A word \in Words : t \o <<word>> = Append(t, word)
  OBVIOUS
<1>3. ASSUME b # <<>> PROVE Append(t, Head(b)) \o Tail(b) = t \o b
  <2>1. Len(b) = 1
    <3> PICK n : n = Len(b)
      OBVIOUS
    <3>1. n \in Nat /\ n # 0
      BY <1>3, EmptySeq
    <3>2. n <= 1
      OBVIOUS
    <3> QED
      BY <3>1, <3>2
  <2>2. Head(b) \in Words /\ b = <<Head(b)>> /\ Tail(b) = <<>>
    <3>. PICK one : one = <<Head(b)>>
      OBVIOUS
    <3>1. Head(b) \in Words /\ one \in Seq(Words) /\ Len(one) = 1 /\ one[1] = b[1]
      BY <1>3
    <3>2. \A i \in 1..Len(b) : b[i] = one[i]
      BY <2>1, <3>1
    <3>3. b = one
      BY <2>1, <3>1, <3>2, SeqEqual
    <3>4. Tail(b) \in Seq(Words) /\ Len(Tail(b)) = 0
      BY <1>3, <2>1
    <3> QED
      BY <3>1, <3>3, <3>4, EmptySeq
  <2>3. Append(t, Head(b)) \in Seq(Words) /\ Append(t, Head(b)) \o <<>> = Append(t, Head(b))
    BY <2>2
  <2>4. t \o <<Head(b)>> = Append(t, Head(b))
    BY <1>2, <2>2
  <2> QED
    BY <2>2, <2>3, <2>4
<1> QED
  BY <1>1, <1>2, <1>3

LEMMA TwoWords == \A a, b : Append(<<a>>, b) = <<a, b>>
<1> TAKE a, b
<1> PICK S : S = {a, b}
  OBVIOUS
<1> PICK s, t : s = Append(<<a>>, b) /\ t = <<a, b>>
  OBVIOUS
<1>1. a \in S /\ b \in S /\ <<a>> \in Seq(S) /\ <<a, b>> \in Seq(S)
  OBVIOUS
<1>2. s \in Seq(S) /\ t \in Seq(S) /\ Len(s) = 2 /\ Len(t) = 2 /\ s[1] = a /\ s[2] = b /\ t[1] = a /\ t[2] = b
  BY <1>1
<1>3. \A i \in 1..Len(s) : s[i] = t[i]
  BY <1>2
<1> QED
  BY <1>2, <1>3, SeqEqual

\* One word more, of what was heard before.
LEMMA ShortStories ==
  /\ Append(<<>>, "nil") = <<"nil">>
  /\ Append(<<>>, "queued") = <<"queued">>
  /\ Append(<<"nil">>, "queued") = <<"nil", "queued">>
  /\ Append(<<"queued">>, "nil") = <<"queued", "nil">>
  /\ <<>> \notin ToldOfName /\ <<>> \notin ToldOfQueue
  /\ <<"nil">> \in ToldOfName /\ <<"nil">> \notin ToldOfQueue
  /\ <<"queued">> \notin ToldOfName /\ <<"queued">> \in ToldOfQueue
  /\ <<"nil", "queued">> \in ToldOfName /\ <<"nil", "queued">> \in ToldOfQueue
  /\ <<"queued", "nil">> \in ToldOfName /\ <<"queued", "nil">> \in ToldOfQueue
<1>1. Append(<<>>, "nil") = <<"nil">> /\ Append(<<>>, "queued") = <<"queued">>
  OBVIOUS
<1>2. Append(<<"nil">>, "queued") = <<"nil", "queued">> /\ Append(<<"queued">>, "nil") = <<"queued", "nil">>
  BY TwoWords
<1>3. <<"nil">>[1] = "nil" /\ <<"queued">>[1] = "queued" /\ Len(<<"nil">>) = 1 /\ Len(<<"queued">>) = 1
  OBVIOUS
<1>4. Len(<<"nil", "queued">>) = 2 /\ Len(<<"queued", "nil">>) = 2 /\ Len(<<>>) = 0
  OBVIOUS
<1>5. "nil" # "queued"
  OBVIOUS
<1> QED
  BY <1>1, <1>2, <1>3, <1>4, <1>5 DEF ToldOfName, ToldOfQueue

LEMMA OnceAfterReading ==
  ASSUME NEW q \in Seq(Messages), q # <<>>, NEW m, OnceIn(q, m)
  PROVE  OnceIn(Tail(q), m) /\ (Head(q) = m => ~ Has(Tail(q), m))
<1>1. \A i \in 1..Len(Tail(q)) : i + 1 \in 1..Len(q) /\ Tail(q)[i] = q[i + 1]
  OBVIOUS
<1>2. 1 \in 1..Len(q) /\ Head(q) = q[1]
  OBVIOUS
<1>3. \A i \in 1..Len(Tail(q)) : i \in Nat /\ i # 0
  OBVIOUS
<1> QED
  BY <1>1, <1>2, <1>3 DEF OnceIn, Has

LEMMA OnceAfterSending ==
  ASSUME NEW q \in Seq(Messages), NEW m, NEW n \in Messages, OnceIn(q, m), m # n \/ ~ Has(q, m)
  PROVE  OnceIn(Append(q, n), m) /\ OnceIn(q \o <<n>>, m)
<1>1. /\ Len(Append(q, n)) = Len(q) + 1 /\ Append(q, n)[Len(q) + 1] = n
      /\ \A i \in 1..Len(q) : Append(q, n)[i] = q[i]
  OBVIOUS
<1>2. q \o <<n>> = Append(q, n)
  OBVIOUS
<1>3. Len(q) \in Nat
  OBVIOUS
<1>4. OnceIn(Append(q, n), m)
  BY <1>1, <1>3 DEF OnceIn, Has
<1> QED
  BY <1>2, <1>4

LEMMA OnceAfterTwo ==
  ASSUME NEW q \in Seq(Messages), NEW m, NEW n \in Messages, NEW o \in Messages, OnceIn(q, m),
         m # n \/ ~ Has(q, m), m # o
  PROVE  OnceIn(q \o <<n, o>>, m)
<1>1. q \o <<n, o>> = Append(Append(q, n), o) /\ Append(q, n) \in Seq(Messages)
  OBVIOUS
<1>2. OnceIn(Append(q, n), m)
  BY OnceAfterSending
<1> QED
  BY <1>1, <1>2, OnceAfterSending

HeardInv == RuleInv /\ EarlyInv /\ StoryInv

LEMMA InitHeard == Init => HeardInv
<1> SUFFICES ASSUME Init PROVE HeardInv
  OBVIOUS
<1>1. \A g \in Goroutines : pc[g] = "new"
  BY DEF Init
<1>2. Acquired \in Goroutines
  BY DEF Goroutines, Watchers
<1>3. rules = {} /\ Lost \in Watchers /\ loop = <<>>
  BY DEF Init, Watchers
<1>4. ~ UnderWay
  BY <1>1, <1>2, <1>3 DEF UnderWay, Has, Init
<1>5. Heard = <<>>
  BY EmptyAndOne, ConcatEmptySeq DEF Heard, Init
<1> QED
  BY <1>3, <1>4, <1>5 DEF HeardInv, RuleInv, EarlyInv, StoryInv, Story

LEMMA StepRules ==
  ASSUME LockedInv, WatchInv, RuleInv, [Next]_vars
  PROVE  RuleInv'
<1>0. /\ Request \in Goroutines /\ Lost \in Goroutines /\ Acquired \in Goroutines
      /\ Releases \subseteq Goroutines
      /\ Request # Lost /\ Request # Acquired /\ Lost # Acquired
      /\ Request \notin Releases /\ Lost \notin Releases /\ Acquired \notin Releases
  BY BusNameAssumption DEF Goroutines, Watchers
<1>1. /\ pc \in [Goroutines -> Places] /\ watch \in [Watchers -> {"nil", "on", "closed"}]
      /\ rules \in SUBSET Watchers
  BY DEF TypeOK, LockedInv
<1>2. PlaceInv /\ LockInv
  BY DEF LockedInv
<1> USE <1>0, <1>1, <1>2 DEF PlaceInv, LockInv, Holds, Inside, Waiting, RuleInv, NextWatch, Watchers, watchVars
<1>3. CASE UNCHANGED vars
  BY <1>3 DEF vars
<1>4. CASE RequestBegins \/ RequestCancelled \/ WatchSignal \/ WatchSignalReturns \/ WatchSignalFails
  BY <1>4 DEF RequestBegins, RequestCancelled, WatchSignal, WatchSignalReturns, WatchSignalFails, Goto
<1>5. CASE RequestName \/ RequestReturns \/ RequestTells \/ LockForLost \/ LostTells \/ AcquiredTells
  BY <1>5 DEF RequestName, RequestReturns, RequestTells, LockForLost, LostTells, AcquiredTells, Send, Goto
<1>6. ASSUME NEW w \in Watchers, SendPanics(w) \/ RangeEnds(w) \/ Deliver(w)
      PROVE RuleInv'
  BY <1>6 DEF SendPanics, RangeEnds, Deliver, Goto
<1>7. ASSUME NEW x \in Releases, CallRelease(x) \/ LockForRelease(x)
      PROVE RuleInv'
  BY <1>7 DEF CallRelease, LockForRelease, Goto
<1>8. ASSUME NEW g \in {Request, Lost} \union Releases, ReleaseStep(g)
      PROVE RuleInv'
  <2>1. pc[g] \in {"release", "cancelling", "releasing"}
    BY <1>8 DEF ReleaseStep, CancelWatch, CancelWatchAgain, CancelReturns, ReleaseName, ReleaseNameReturns,
       ReleaseFails, CloseChannel, Goto
  <2>2. pc[Request] # "watching"
    BY <1>8, <2>1
  <2>3. \A w \in rules : watch[w] # "nil"
    BY <2>2
  <2>4. rules' \subseteq rules /\ (watch' = watch \/ watch' = [watch EXCEPT ![NextCancel] = "closed"])
    BY <1>8 DEF ReleaseStep, CancelWatch, CancelWatchAgain, CancelReturns, ReleaseName, ReleaseNameReturns,
       ReleaseFails, CloseChannel
  <2> QED
    BY <2>3, <2>4
<1>9. CASE ReadReply \/ ReadSignal \/ Receives \/ BusServes \/ RivalTakes \/ RivalLeaves \/ OtherLeaves
  BY <1>9 DEF ReadReply, ReadSignal, Receives, BusServes, RivalTakes, RivalLeaves, OtherLeaves
<1> QED
  BY <1>3, <1>4, <1>5, <1>6, <1>7, <1>8, <1>9
     DEF Next, RequestStep, LostStep, AcquiredStep, LoopStep

\* A watch that has gone is no longer in the table, and none is while C is closed.
LEMMA InForce ==
  ASSUME LockedInv, WatchInv, ClosedInv, RuleInv, rules = Watchers
  PROVE  /\ closedBy = None /\ ~ Panicked
         /\ \A w \in Watchers : watch[w] # "closed"
         /\ \A g \in Goroutines : pc[g] # "cancelling"
         /\ pc[Request] = "release" => ToCancel # {}
<1>0. Request \in Goroutines /\ Request # Lost /\ Lost \in Watchers /\ Acquired \in Watchers
  BY BusNameAssumption DEF Goroutines, Watchers
<1>1. watch \in [Watchers -> {"nil", "on", "closed"}]
  BY DEF TypeOK, LockedInv
<1>2. \A w \in Watchers : watch[w] # "closed"
  BY DEF WatchInv
<1>3. \A g \in Goroutines : pc[g] # "cancelling"
  BY <1>0 DEF WatchInv, NextCancel
<1>4. closedBy = None
  BY <1>0, <1>1, <1>2 DEF ClosedInv, RuleInv, Holds, Inside, Waiting
<1>5. pc[Request] = "release" => ToCancel # {}
  BY <1>0, <1>1, <1>2 DEF RuleInv, ToCancel
<1> QED
  BY <1>2, <1>3, <1>4, <1>5 DEF ClosedInv

\* The steps of the goroutines: three of them speak.
LEMMA SpeakersHeard ==
  ASSUME LockedInv, WatchInv, ClosedInv, HeardInv, RequestTells \/ LostTells \/ AcquiredTells
  PROVE  EarlyInv' /\ StoryInv'
<1>0. /\ Request \in Goroutines /\ Lost \in Goroutines /\ Acquired \in Goroutines
      /\ Request # Lost /\ Request # Acquired /\ Lost # Acquired
  BY BusNameAssumption DEF Goroutines, Watchers
<1>1. /\ pc \in [Goroutines -> Places]
      /\ told \in Seq(Words) /\ buffer \in Seq(Words) /\ Len(buffer) <= 1
  BY DEF TypeOK, LockedInv, Words
<1>2. UNCHANGED <<rules, fromBus, loop, owner>>
  BY DEF RequestTells, LostTells, AcquiredTells, Send, watchVars, busVars
<1>3. PICK word \in Words : Send(word)
  BY DEF RequestTells, LostTells, AcquiredTells, Words
<1>4. Heard = told /\ Heard' = Append(Heard, word)
  <2>1. buffer = <<>> /\ told' = told /\ buffer' = <<word>>
    BY <1>3 DEF Send
  <2> QED
    BY <1>1, <2>1, HeardMore DEF Heard
<1>5. EarlyInv'
  <2>1. pc[Request] \notin {"new", "watch", "watching"}
    BY <1>0 DEF RequestTells, LostTells, AcquiredTells, Goto, LockedInv, LockInv, SetUpInv, Holds, Inside,
       Waiting, Watchers
  <2>2. pc'[Request] = pc[Request] \/ pc'[Request] \in {"returned", "release"}
    BY <1>0, <1>1 DEF RequestTells, LostTells, AcquiredTells, Goto
  <2> QED
    BY <2>1, <2>2 DEF EarlyInv
<1>6. SUFFICES ASSUME Story' PROVE Told' /\ OneAcquired'
  BY <1>5 DEF StoryInv
<1>7. Story /\ Told /\ OneAcquired
  <2>1. Story
    BY <1>0, <1>1, <1>2, <1>6 DEF Story, Lossy, RequestTells, LostTells, AcquiredTells, Goto
  <2> QED
    BY <2>1 DEF HeardInv, StoryInv
<1>8. CASE RequestTells
  <2>1. pc[Request] = "telling" /\ pc' = [pc EXCEPT ![Request] = "returned"] /\ buffer' = <<"queued">>
    BY <1>0, <1>1, <1>6, <1>8 DEF RequestTells, Goto, Story, Send
  <2>2. word = "queued"
    BY <1>3, <2>1 DEF Send
  <2>3. Heard \in {<<>>, <<"nil">>}
    BY <1>7, <2>1, ShortStories DEF Told, ToldOfName, ToldOfQueue
  <2>4. UnderWay' <=> UnderWay
    BY <1>0, <1>1, <1>2, <2>1 DEF UnderWay
  <2>5. Told'
    BY <1>0, <1>1, <1>2, <1>4, <1>7, <2>1, <2>2, <2>3, <2>4, ShortStories DEF Told
  <2>6. OneAcquired'
    BY <1>0, <1>1, <1>2, <1>7, <2>1 DEF OneAcquired
  <2> QED
    BY <2>5, <2>6
<1>9. CASE LostTells
  BY <1>0, <1>1, <1>6, <1>9 DEF LostTells, Goto, Story, Lossy
<1>10. CASE AcquiredTells
  <2>1. pc[Acquired] = "telling" /\ pc' = [pc EXCEPT ![Acquired] = "ranging"] /\ word = "nil"
    BY <1>3, <1>10 DEF AcquiredTells, Goto, Send
  <2>2. UnderWay /\ owner = "us" /\ Heard \notin ToldOfName
    BY <1>7, <2>1 DEF UnderWay, Told
  <2>3. Heard \in {<<>>, <<"queued">>}
    BY <1>7, <2>2, ShortStories DEF Told, ToldOfName, ToldOfQueue
  <2>4. ~ UnderWay'
    BY <1>0, <1>1, <1>2, <1>7, <2>1 DEF UnderWay, OneAcquired
  <2>5. Told'
    BY <1>0, <1>1, <1>2, <1>4, <1>7, <2>1, <2>2, <2>3, <2>4, ShortStories DEF Told
  <2>6. OneAcquired'
    BY <1>0, <1>1, <1>2, <1>7, <2>1 DEF OneAcquired
  <2> QED
    BY <2>5, <2>6
<1> QED
  BY <1>5, <1>8, <1>9, <1>10

\* The others leave the channel as it is.
QuietStep ==
  \/ RequestBegins \/ RequestCancelled \/ WatchSignal \/ WatchSignalReturns \/ WatchSignalFails
  \/ RequestName \/ RequestReturns \/ LockForLost
  \/ \E w \in Watchers : SendPanics(w) \/ RangeEnds(w)
  \/ \E x \in Releases : CallRelease(x) \/ LockForRelease(x)
  \/ \E g \in {Request, Lost} \union Releases : ReleaseStep(g)

LEMMA QuietKeeps ==
  ASSUME QuietStep
  PROVE  UNCHANGED <<fromBus, loop, owner, buffer, told>> /\ (WatchSignal \/ rules' \subseteq rules)
  BY DEF QuietStep, RequestBegins, RequestCancelled, WatchSignal, WatchSignalReturns, WatchSignalFails,
     RequestName, RequestReturns, LockForLost, SendPanics, RangeEnds, CallRelease, LockForRelease, ReleaseStep,
     CancelWatch, CancelWatchAgain, CancelReturns, ReleaseName, ReleaseNameReturns, ReleaseFails, CloseChannel,
     busVars, channelVars, watchVars

\* Where they come from and go to.
Continues ==
  /\ pc'[Acquired] = "telling" => pc[Acquired] = "telling"
  /\ pc[Acquired] = "telling" => pc'[Acquired] = "telling" \/ closedBy # None
  /\ pc'[Lost] \in {"new", "ranging"} => pc[Lost] \in {"new", "ranging"} \/ closedBy # None
  /\ pc'[Request] \in {"new", "watch", "watching"} => pc[Request] \in {"new", "watch", "watching"}
  /\ pc[Request] = "returned" => pc'[Request] = "returned"
  /\ pc[Request] = "release" => pc'[Request] = "release" \/ ToCancel = {} \/ NextCancel \notin rules'

LEMMA QuietContinues ==
  ASSUME LockedInv, QuietStep
  PROVE  Continues
<1>0. /\ Request \in Goroutines /\ Lost \in Goroutines /\ Acquired \in Goroutines
      /\ Releases \subseteq Goroutines
      /\ Request # Lost /\ Request # Acquired /\ Lost # Acquired
      /\ Request \notin Releases /\ Lost \notin Releases /\ Acquired \notin Releases
  BY BusNameAssumption DEF Goroutines, Watchers
<1>1. pc \in [Goroutines -> Places]
  BY DEF TypeOK, LockedInv
<1>2. PlaceInv /\ SetUpInv
  BY DEF LockedInv
<1> USE <1>0, <1>1, <1>2 DEF PlaceInv, Watchers, Continues
<1>3. CASE RequestBegins \/ RequestCancelled \/ WatchSignal \/ WatchSignalFails
  BY <1>3 DEF RequestBegins, RequestCancelled, WatchSignal, WatchSignalFails, Goto
<1>4. CASE WatchSignalReturns
  BY <1>4 DEF WatchSignalReturns, SetUpInv, NextWatch
<1>5. CASE RequestName \/ RequestReturns \/ LockForLost
  BY <1>5 DEF RequestName, RequestReturns, LockForLost, Goto
<1>6. ASSUME NEW w \in Watchers, SendPanics(w) \/ RangeEnds(w)
      PROVE Continues
  BY <1>6 DEF SendPanics, RangeEnds, Goto
<1>7. ASSUME NEW x \in Releases, CallRelease(x) \/ LockForRelease(x)
      PROVE Continues
  BY <1>7 DEF CallRelease, LockForRelease, Goto
<1>8. ASSUME NEW g \in {Request, Lost} \union Releases, ReleaseStep(g)
      PROVE Continues
  <2>1. CASE CancelWatch(g) \/ CancelReturns(g) \/ ReleaseFails(g)
    BY <1>8, <2>1 DEF CancelWatch, CancelReturns, ReleaseFails, Goto
  <2>2. CASE CancelWatchAgain(g) \/ ReleaseName(g) \/ ReleaseNameReturns(g)
    BY <1>8, <2>2 DEF CancelWatchAgain, ReleaseName, ReleaseNameReturns, Goto, Drops
  <2>3. CASE CloseChannel(g)
    BY <1>8, <2>3 DEF CloseChannel, Goto
  <2> QED
    BY <1>8, <2>1, <2>2, <2>3 DEF ReleaseStep
<1> QED
  BY <1>3, <1>4, <1>5, <1>6, <1>7, <1>8 DEF QuietStep

\* Before the watches are set up the name is not owned.
LEMMA NotYetOwned ==
  ASSUME ReleaseInv, EarlyInv, pc[Request] \in {"new", "watch", "watching"}
  PROVE  Told /\ OneAcquired
<1>1. owner # "us"
  BY DEF ReleaseInv, Granted, Early
<1>2. ~ UnderWay /\ Heard = <<>>
  BY DEF EarlyInv
<1>3. OnceIn(fromBus, Signal(Acquired))
  BY <1>2 DEF UnderWay, OnceIn, Has
<1> QED
  BY <1>1, <1>2, <1>3, ShortStories DEF Told, OneAcquired, UnderWay

LEMMA GoroutinesHeard ==
  ASSUME LockedInv, WatchInv, ClosedInv, GivingInv, HeardInv, QuietStep
  PROVE  EarlyInv' /\ StoryInv'
<1>0. Request # Lost /\ Request # Acquired /\ Lost # Acquired /\ Lost \in Goroutines /\ Acquired \in Goroutines
      /\ Request \in Goroutines
  BY BusNameAssumption DEF Goroutines, Watchers
<1>1. UNCHANGED <<fromBus, loop, owner, buffer, told>> /\ (WatchSignal \/ rules' \subseteq rules)
  BY QuietKeeps
<1>2. Continues
  BY QuietContinues
<1>3. Heard' = Heard
  BY <1>1 DEF Heard
<1>4. UnderWay' => UnderWay
  BY <1>1, <1>2 DEF UnderWay, Continues
<1>5. EarlyInv'
  BY <1>2, <1>3, <1>4 DEF Continues, HeardInv, EarlyInv
<1>6. SUFFICES ASSUME Story' PROVE Told' /\ OneAcquired'
  BY <1>5 DEF StoryInv
<1>7. CASE WatchSignal
  <2>1. pc[Request] \in {"new", "watch", "watching"}
    BY <1>7 DEF WatchSignal, Goto
  <2>2. Told /\ OneAcquired /\ Heard = <<>> /\ ~ UnderWay
    BY <2>1, NotYetOwned DEF GivingInv, HeardInv, EarlyInv
  <2>3. Told'
    BY <1>1, <1>3, <1>4, <2>2, ShortStories DEF Told
  <2>4. OneAcquired'
    BY <1>1, <1>4, <2>2 DEF OneAcquired, UnderWay
  <2> QED
    BY <2>3, <2>4
<1>8. CASE rules' \subseteq rules
  <2>1. rules = Watchers /\ closedBy = None /\ (pc[Request] = "release" => ToCancel # {})
    <3>1. rules = Watchers
      BY <1>6, <1>8 DEF Story, LockedInv, TypeOK
    <3> QED
      BY <3>1, InForce DEF HeardInv
  <2>2. Story
    <3>1. ~ Lossy
      BY <1>1, <1>2, <1>6, <2>1 DEF Story, Lossy, Continues
    <3>2. pc[Request] # "release"
      BY <1>2, <1>6, <2>1 DEF Continues, Story, NextCancel, Watchers
    <3> QED
      BY <2>1, <3>1, <3>2 DEF Story
  <2>3. Told /\ OneAcquired
    BY <2>2 DEF HeardInv, StoryInv
  <2>4. UnderWay' <=> UnderWay
    BY <1>1, <1>2, <2>1 DEF UnderWay, Continues
  <2>5. Told'
    BY <1>1, <1>2, <1>3, <2>3, <2>4 DEF Told, Continues
  <2>6. OneAcquired'
    BY <1>1, <1>2, <2>3 DEF OneAcquired, Continues
  <2> QED
    BY <2>5, <2>6
<1> QED
  BY <1>1, <1>7, <1>8

\* The steps of the loop and of the application.
LEMMA LoopHeard ==
  ASSUME LockedInv, HeardInv, LoopStep \/ Receives
  PROVE  EarlyInv' /\ StoryInv'
<1>0. /\ Request \in Goroutines /\ Lost \in Goroutines /\ Acquired \in Goroutines
      /\ Request # Lost /\ Request # Acquired /\ Lost # Acquired
      /\ Lost \in Watchers /\ Acquired \in Watchers
  BY BusNameAssumption DEF Goroutines, Watchers
<1>1. /\ pc \in [Goroutines -> Places] /\ fromBus \in Seq(Messages)
      /\ told \in Seq(Words) /\ buffer \in Seq(Words) /\ Len(buffer) <= 1
  BY DEF TypeOK, LockedInv, Words, Messages
<1>2. SetUpInv /\ EarlyInv /\ StoryInv
  BY DEF LockedInv, HeardInv
<1>3. UNCHANGED <<rules, owner>>
  BY DEF LoopStep, ReadReply, ReadSignal, Deliver, Receives, watchVars, busVars
<1>4. Heard' = Heard
  <2>1. CASE Receives
    BY <1>1, <2>1, HeardMore DEF Receives, Heard
  <2>2. CASE LoopStep
    BY <2>2 DEF LoopStep, ReadReply, ReadSignal, Deliver, channelVars, Heard
  <2> QED
    BY <2>1, <2>2
<1>5. CASE Receives
  <2>1. UNCHANGED <<pc, fromBus, loop>>
    BY <1>5 DEF Receives, busVars
  <2> QED
    BY <1>2, <1>3, <1>4, <2>1 DEF EarlyInv, StoryInv, Story, Lossy, UnderWay, Told, OneAcquired
<1>6. CASE ReadReply
  <2>1. fromBus # <<>> /\ fromBus' = Tail(fromBus) /\ Head(fromBus)[1] = "reply" /\ UNCHANGED <<pc, loop>>
    BY <1>6 DEF ReadReply
  <2>2. \A w : Has(fromBus', Signal(w)) <=> Has(fromBus, Signal(w))
    <3>1. \A w : Signal(w) # Head(fromBus)
      BY <2>1 DEF Signal
    <3> QED
      BY <1>1, <2>1, <3>1, HasAfterReading, HeadOrTail
  <2>3. OnceIn(fromBus, Signal(Acquired)) => OnceIn(fromBus', Signal(Acquired))
    BY <1>1, <2>1, OnceAfterReading
  <2> QED
    BY <1>2, <1>3, <1>4, <2>1, <2>2, <2>3 DEF EarlyInv, StoryInv, Story, Lossy, UnderWay, Told, OneAcquired
<1>7. CASE ReadSignal
  <2>1. PICK w : w = Head(fromBus)[2]
    OBVIOUS
  <2>2. /\ fromBus # <<>> /\ fromBus' = Tail(fromBus) /\ Head(fromBus) = Signal(w) /\ loop = <<>>
        /\ loop' = (IF w \in rules THEN <<w>> ELSE <<>>) /\ UNCHANGED pc
    BY <1>1, <1>7, <2>1, HeadIs DEF ReadSignal
  <2>3. w \in Watchers
    <3>1. Signal(w) \in Messages
      BY <1>1, <2>2, QueueTypes
    <3> QED
      BY <3>1 DEF Messages, Signal, Reply
  <2>4. /\ \A v : Has(fromBus', Signal(v)) => Has(fromBus, Signal(v))
        /\ \A v : Has(fromBus, Signal(v)) => v = w \/ Has(fromBus', Signal(v))
        /\ Has(fromBus, Signal(w))
    <3>1. Has(fromBus, Head(fromBus))
      BY <1>1, <2>2, HasHead
    <3>2. \A v : Signal(v) = Signal(w) => v = w
      BY MessagesDiffer
    <3> QED
      BY <1>1, <2>2, <3>1, <3>2, HasAfterReading, HeadOrTail
  <2>5. EarlyInv'
    <3>1. loop' = <<Acquired>> => w = Acquired
      BY <2>2
    <3> QED
      BY <1>2, <1>4, <2>2, <2>4, <3>1 DEF EarlyInv, UnderWay
  <2>6. SUFFICES ASSUME Story' PROVE Told' /\ OneAcquired'
    BY <2>5 DEF StoryInv
  <2>7. rules = Watchers /\ loop' = <<w>>
    BY <1>3, <2>2, <2>3, <2>6 DEF Story
  <2>8. w = Acquired
    BY <2>3, <2>6, <2>7 DEF Story, Lossy, Watchers
  <2>9. ~ Lossy
    BY <1>0, <2>2, <2>4, <2>6, <2>8 DEF Story, Lossy
  <2>10. Told /\ OneAcquired
    BY <1>2, <1>3, <2>2, <2>6, <2>9 DEF StoryInv, Story
  <2>11. UnderWay /\ UnderWay'
    BY <2>4, <2>7, <2>8 DEF UnderWay
  <2>12. Told'
    BY <1>3, <1>4, <2>2, <2>10, <2>11 DEF Told
  <2>13. OneAcquired'
    BY <1>1, <2>2, <2>4, <2>8, <2>10, OnceAfterReading DEF OneAcquired
  <2> QED
    BY <2>12, <2>13
<1>8. ASSUME NEW w \in Watchers, Deliver(w)
      PROVE  EarlyInv' /\ StoryInv'
  <2>1. /\ loop = <<w>> /\ loop' = <<>> /\ fromBus' = fromBus /\ pc[w] = "ranging" /\ w \in Goroutines
        /\ pc' = [pc EXCEPT ![w] = IF w = Lost THEN "locking" ELSE "telling"]
    BY <1>8 DEF Deliver, Goto, busVars, Goroutines
  <2>2. EarlyInv'
    <3>1. pc'[Acquired] = "telling" => w = Acquired \/ pc[Acquired] = "telling"
      BY <1>0, <1>1, <2>1
    <3>2. pc'[Request] = pc[Request] \/ pc'[Request] \in {"locking", "telling"}
      BY <1>0, <1>1, <2>1
    <3> QED
      BY <1>2, <1>4, <2>1, <3>1, <3>2 DEF EarlyInv, UnderWay
  <2>3. SUFFICES ASSUME Story' PROVE Told' /\ OneAcquired'
    BY <2>2 DEF StoryInv
  <2>4. w = Acquired
    BY <1>0, <1>1, <1>8, <2>1, <2>3 DEF Story, Lossy, Watchers
  <2>5. Story
    BY <1>0, <1>1, <1>3, <2>1, <2>3, <2>4 DEF Story, Lossy
  <2>6. Told /\ OneAcquired /\ UnderWay /\ UnderWay'
    BY <1>0, <1>1, <1>2, <2>1, <2>4, <2>5 DEF StoryInv, UnderWay
  <2>7. Told'
    BY <1>0, <1>1, <1>3, <1>4, <2>1, <2>4, <2>6 DEF Told
  <2>8. OneAcquired'
    BY <2>1, <2>4, <2>6 DEF OneAcquired
  <2> QED
    BY <2>7, <2>8
<1> QED
  BY <1>5, <1>6, <1>7, <1>8 DEF LoopStep

\* The steps of the bus, the rival and the other BusName: what is sent, and who owns
\* the name then.
LEMMA SendingHeard ==
  ASSUME LockedInv, HeardInv, UNCHANGED <<pc, loop, rules, told, buffer>>,
         \A m : Has(fromBus, m) => Has(fromBus', m),
         \/ Has(fromBus', Signal(Lost)) /\ (Has(fromBus', Signal(Acquired)) => Has(fromBus, Signal(Acquired)))
         \/ /\ Has(fromBus', Signal(Acquired)) <=> Has(fromBus, Signal(Acquired))
            /\ OnceIn(fromBus, Signal(Acquired)) => OnceIn(fromBus', Signal(Acquired))
            /\ owner' = "us" <=> owner = "us"
         \/ /\ ~ Has(fromBus, Signal(Acquired)) => OnceIn(fromBus', Signal(Acquired))
            /\ Has(fromBus', Signal(Acquired))
            /\ owner' = "us" /\ owner # "us" /\ pc[Request] \notin {"new", "watch", "watching"}
  PROVE  EarlyInv' /\ StoryInv'
<1>1. Heard' = Heard
  BY DEF Heard
<1>2. EarlyInv'
  BY <1>1 DEF HeardInv, EarlyInv, UnderWay
<1>3. SUFFICES ASSUME Story' PROVE Told' /\ OneAcquired'
  BY <1>2 DEF StoryInv
<1>4. Story /\ Told /\ OneAcquired
  BY <1>3 DEF Story, Lossy, HeardInv, StoryInv
<1>5. ~ Has(fromBus', Signal(Lost))
  BY <1>3 DEF Story, Lossy
<1>6. CASE /\ Has(fromBus', Signal(Acquired)) <=> Has(fromBus, Signal(Acquired))
           /\ OnceIn(fromBus, Signal(Acquired)) => OnceIn(fromBus', Signal(Acquired))
           /\ owner' = "us" <=> owner = "us"
  BY <1>1, <1>4, <1>6 DEF Told, OneAcquired, UnderWay
<1>7. CASE /\ ~ Has(fromBus, Signal(Acquired)) => OnceIn(fromBus', Signal(Acquired))
           /\ Has(fromBus', Signal(Acquired)) /\ owner' = "us" /\ owner # "us"
  <2>1. ~ UnderWay /\ Heard \notin ToldOfName
    BY <1>4, <1>7 DEF Told
  <2> QED
    BY <1>1, <1>4, <1>7, <2>1 DEF Told, OneAcquired, UnderWay
<1> QED
  BY <1>5, <1>6, <1>7

LEMMA BusHeard ==
  ASSUME LockedInv, GivingInv, HeardInv, BusServes \/ RivalTakes \/ RivalLeaves \/ OtherLeaves
  PROVE  EarlyInv' /\ StoryInv'
<1>0. /\ Lost \in Watchers /\ Acquired \in Watchers /\ Lost # Acquired
      /\ Signal(Lost) \in Messages /\ Signal(Acquired) \in Messages /\ Signal(Lost) # Signal(Acquired)
  BY BusNameAssumption, MessagesDiffer DEF Watchers
<1>1. fromBus \in Seq(Messages)
  BY DEF TypeOK, LockedInv, Messages
<1>2. UNCHANGED <<pc, loop, rules, told, buffer>>
  BY DEF BusServes, RivalTakes, RivalLeaves, OtherLeaves, channelVars, watchVars
\* A NameAcquired only follows a request.
<1>3. owner = "us" \/ queued \/ call = "RequestName" => pc[Request] \notin {"new", "watch", "watching"}
  <2>1. owner = "us" \/ queued => pc[Request] \notin {"new", "watch", "watching"}
    BY DEF GivingInv, ReleaseInv, Granted, Early
  <2>2. call = "RequestName" => pc[Request] = "requesting"
    <3>1. call = "RequestName" => lock \in Goroutines /\ pc[lock] = "requesting"
      BY BusNameAssumption DEF LockedInv, CallInv, Pending, TypeOK, Methods
    <3>2. \A g \in Goroutines : pc[g] = "requesting" => g = Request
      BY DEF LockedInv, PlaceInv, Goroutines, Watchers
    <3> QED
      BY <3>1, <3>2
  <2> QED
    BY <2>1, <2>2
\* What is in the queue then.
<1>4. \A r \in Answers : \A m :
        /\ Has(fromBus \o <<Reply(r)>>, m) <=> Has(fromBus, m) \/ m = Reply(r)
        /\ OnceIn(fromBus, m) /\ m # Reply(r) => OnceIn(fromBus \o <<Reply(r)>>, m)
  <2> SUFFICES ASSUME NEW r \in Answers, NEW m
               PROVE  /\ Has(fromBus \o <<Reply(r)>>, m) <=> Has(fromBus, m) \/ m = Reply(r)
                      /\ OnceIn(fromBus, m) /\ m # Reply(r) => OnceIn(fromBus \o <<Reply(r)>>, m)
    OBVIOUS
  <2>1. Reply(r) \in Messages
    BY MessagesDiffer
  <2> QED
    BY <1>1, <2>1, HasAfterSending, OnceAfterSending
<1>5. \A w \in Watchers, r \in Answers : \A m :
        Has(fromBus \o <<Signal(w), Reply(r)>>, m) <=> Has(fromBus, m) \/ m = Signal(w) \/ m = Reply(r)
  <2> SUFFICES ASSUME NEW w \in Watchers, NEW r \in Answers, NEW m
               PROVE  Has(fromBus \o <<Signal(w), Reply(r)>>, m) <=> Has(fromBus, m) \/ m = Signal(w) \/ m = Reply(r)
    OBVIOUS
  <2>1. Signal(w) \in Messages /\ Reply(r) \in Messages
    BY MessagesDiffer
  <2> QED
    BY <1>1, <2>1, HasAfterTwo
<1>6. \A w \in Watchers : \A m : Has(Append(fromBus, Signal(w)), m) <=> Has(fromBus, m) \/ m = Signal(w)
  <2> SUFFICES ASSUME NEW w \in Watchers, NEW m
               PROVE  Has(Append(fromBus, Signal(w)), m) <=> Has(fromBus, m) \/ m = Signal(w)
    OBVIOUS
  <2>1. Signal(w) \in Messages
    BY MessagesDiffer
  <2> QED
    BY <1>1, <2>1, HasAfterSending
<1>7. \A w \in Watchers, r \in Answers : Signal(w) # Reply(r)
  BY MessagesDiffer
<1>8. ~ Has(fromBus, Signal(Acquired)) => OnceIn(fromBus, Signal(Acquired))
  BY DEF OnceIn, Has
<1>9. {"ok", "error", "owner", "queued", "refused"} = Answers
  BY DEF Answers
\* A reply alone.
<1>10. ASSUME NEW r \in Answers, fromBus' = fromBus \o <<Reply(r)>>, owner' = owner
       PROVE  EarlyInv' /\ StoryInv'
  BY <1>0, <1>2, <1>4, <1>7, <1>10, SendingHeard
<1>11. CASE BusServes
  <2>1. CASE fromBus' = fromBus \o <<Signal(Acquired), Reply("owner")>> /\ call = "RequestName" /\ owner' = "us"
             /\ owner \in {"nobody", "rival"}
    <3>1. /\ \A m : Has(fromBus, m) => Has(fromBus', m)
          /\ Has(fromBus', Signal(Acquired))
      BY <1>0, <1>5, <1>9, <2>1
    <3>2. ~ Has(fromBus, Signal(Acquired)) => OnceIn(fromBus', Signal(Acquired))
      BY <1>0, <1>1, <1>7, <1>8, <1>9, <2>1, OnceAfterTwo, MessagesDiffer
    <3> QED
      BY <1>2, <1>3, <2>1, <3>1, <3>2, SendingHeard
  <2>2. CASE fromBus' = fromBus \o <<Signal(Lost), Reply("ok")>>
    <3>1. /\ \A m : Has(fromBus, m) => Has(fromBus', m)
          /\ Has(fromBus', Signal(Lost))
          /\ Has(fromBus', Signal(Acquired)) => Has(fromBus, Signal(Acquired))
      BY <1>0, <1>5, <1>7, <1>9, <2>2
    <3> QED
      BY <1>2, <3>1, SendingHeard
  <2>3. \/ \E r \in {"ok", "error", "owner", "queued", "refused"} : fromBus' = fromBus \o <<Reply(r)>> /\ owner' = owner
        \/ fromBus' = fromBus \o <<Signal(Acquired), Reply("owner")>> /\ call = "RequestName" /\ owner' = "us"
             /\ owner \in {"nobody", "rival"}
        \/ fromBus' = fromBus \o <<Signal(Lost), Reply("ok")>>
    BY <1>11 DEF BusServes
  <2> QED
    BY <1>9, <1>10, <2>1, <2>2, <2>3
<1>12. ASSUME fromBus' = Append(fromBus, Signal(Lost))
       PROVE  EarlyInv' /\ StoryInv'
  <2>1. /\ \A m : Has(fromBus, m) => Has(fromBus', m)
        /\ Has(fromBus', Signal(Lost))
        /\ Has(fromBus', Signal(Acquired)) => Has(fromBus, Signal(Acquired))
    BY <1>0, <1>6, <1>12
  <2> QED
    BY <1>2, <2>1, SendingHeard
<1>13. ASSUME fromBus' = fromBus, owner # "us", owner' # "us"
       PROVE  EarlyInv' /\ StoryInv'
  BY <1>2, <1>13, SendingHeard
<1>14. ASSUME fromBus' = Append(fromBus, Signal(Acquired)), owner = "rival", owner' = "us", queued
       PROVE  EarlyInv' /\ StoryInv'
  <2>1. /\ \A m : Has(fromBus, m) => Has(fromBus', m)
        /\ Has(fromBus', Signal(Acquired))
    BY <1>0, <1>6, <1>14
  <2>2. ~ Has(fromBus, Signal(Acquired)) => OnceIn(fromBus', Signal(Acquired))
    BY <1>0, <1>1, <1>8, <1>14, OnceAfterSending
  <2> QED
    BY <1>2, <1>3, <1>14, <2>1, <2>2, SendingHeard
<1>15. queued \in BOOLEAN
  BY DEF TypeOK, LockedInv
<1> QED
  BY <1>11, <1>12, <1>13, <1>14, <1>15 DEF RivalTakes, RivalLeaves, OtherLeaves

LEMMA StepHeard ==
  ASSUME LockedInv, WatchInv, ClosedInv, GivingInv, HeardInv, [Next]_vars
  PROVE  HeardInv'
<1>1. RuleInv'
  BY StepRules DEF HeardInv
<1>2. CASE UNCHANGED vars
  <2>1. UNCHANGED <<pc, fromBus, loop, told, buffer, rules, owner>>
    BY <1>2 DEF vars, channelVars, watchVars, busVars
  <2>2. EarlyInv' /\ StoryInv'
    BY <2>1 DEF HeardInv, EarlyInv, StoryInv, Story, Lossy, UnderWay, Told, OneAcquired, Heard
  <2> QED
    BY <1>1, <2>2 DEF HeardInv
<1>3. CASE RequestTells \/ LostTells \/ AcquiredTells
  BY <1>1, <1>3, SpeakersHeard DEF HeardInv
<1>4. CASE QuietStep
  BY <1>1, <1>4, GoroutinesHeard DEF HeardInv
<1>5. CASE LoopStep \/ Receives
  BY <1>1, <1>5, LoopHeard DEF HeardInv
<1>6. CASE BusServes \/ RivalTakes \/ RivalLeaves \/ OtherLeaves
  BY <1>1, <1>6, BusHeard DEF HeardInv
<1> QED
  BY <1>2, <1>3, <1>4, <1>5, <1>6 DEF Next, RequestStep, LostStep, AcquiredStep, QuietStep, Watchers

\* When nothing is under way the application knows whether it owns the name.
THEOREM InformedHolds == Spec => []Informed
<1>1. LockedInv /\ HeardInv => Informed
  <2> SUFFICES ASSUME LockedInv, HeardInv, Quiet, rules = Watchers
               PROVE  owner = "us" <=> told \in ToldOfName
    BY DEF Informed, ToldOfName
  <2>1. /\ fromBus = <<>> /\ loop = <<>> /\ buffer = <<>> /\ pc[Request] = "returned"
        /\ pc[Lost] = "ranging" /\ pc[Acquired] = "ranging"
    BY DEF Quiet, Watchers
  <2>2. \A m : ~ Has(fromBus, m)
    BY <2>1 DEF Has
  <2>3. ~ Lossy /\ ~ UnderWay
    BY <2>1, <2>2 DEF Lossy, UnderWay
  <2>4. Heard = told
    <3>1. told \in Seq(Words)
      BY DEF LockedInv, TypeOK, Words
    <3> QED
      BY <2>1, <3>1, ConcatEmptySeq DEF Heard
  <2> QED
    BY <2>1, <2>3, <2>4 DEF HeardInv, StoryInv, Story, Told
<1>2. LockedInv /\ WatchInv /\ ClosedInv /\ GivingInv /\ HeardInv /\ [Next]_vars => HeardInv'
  BY StepHeard
<1> QED
  BY <1>1, <1>2, InitHeard, Invariant, GivingInvariant, PTL DEF Spec

(***************************************************************************)
(* What is stuck stays stuck.                                              *)
(***************************************************************************)
\* request has called Release and waits for the lock it holds.
SelfLocked == pc[Request] = "selfLocked" /\ lock = Request

LEMMA StuckStep ==
  ASSUME LockedInv, LockedInv', [Next]_vars
  PROVE  /\ pc[Request] = "selfLocked" => SelfLocked'
         /\ Stuck => Stuck'
<1>0. /\ Request \in Goroutines /\ Lost \in Goroutines /\ Acquired \in Goroutines
      /\ Releases \subseteq Goroutines
      /\ Request # Lost /\ Request # Acquired /\ Lost # Acquired
      /\ Request \notin Releases /\ Lost \notin Releases /\ Acquired \notin Releases
      /\ None \notin {"ok", "error", "owner", "queued", "refused"}
  BY BusNameAssumption DEF Goroutines, Watchers, Answers
<1>1. /\ pc \in [Goroutines -> Places] /\ PlaceInv /\ LockInv' /\ SetUpInv
  BY DEF TypeOK, LockedInv
<1>2. NextWatch \in {Lost, Acquired} /\ (NextWatch = Lost => watch[Lost] = "nil")
  BY <1>0 DEF NextWatch
<1>3. ASSUME pc[Request] = "selfLocked" => pc'[Request] = "selfLocked",
             loop' = loop, pc'[Lost] = pc[Lost], answer' \in {answer, None}
      PROVE  Stuck => Stuck'
  BY <1>3 DEF Stuck
<1>4. pc[Request] = "selfLocked" => pc'[Request] = "selfLocked"
  <2> SUFFICES ASSUME pc[Request] = "selfLocked" PROVE pc'[Request] = "selfLocked"
    OBVIOUS
  <2> USE <1>0, <1>1, <1>2
  <2>1. CASE RequestStep
    BY <2>1 DEF RequestStep, RequestBegins, RequestCancelled, WatchSignal, WatchSignalReturns, WatchSignalFails,
       RequestName, RequestReturns, RequestTells, ReleaseStep, CancelWatch, CancelWatchAgain, CancelReturns,
       ReleaseFails, ReleaseName, ReleaseNameReturns, CloseChannel, Goto
  <2>2. ASSUME NEW g \in {Lost} \union Releases, ReleaseStep(g) PROVE pc'[Request] = "selfLocked"
    BY <2>2 DEF ReleaseStep, CancelWatch, CancelWatchAgain, CancelReturns,
       ReleaseFails, ReleaseName, ReleaseNameReturns, CloseChannel, Goto
  <2>3. CASE LockForLost \/ LostTells \/ AcquiredTells
    BY <2>3 DEF LockForLost, LostTells, AcquiredTells, Goto
  <2>4. ASSUME NEW w \in Watchers, SendPanics(w) \/ RangeEnds(w) \/ Deliver(w) PROVE pc'[Request] = "selfLocked"
    BY <2>4 DEF SendPanics, RangeEnds, Deliver, Goto, Watchers
  <2>5. ASSUME NEW x \in Releases, CallRelease(x) \/ LockForRelease(x) PROVE pc'[Request] = "selfLocked"
    BY <2>5 DEF CallRelease, LockForRelease, Goto
  <2>6. CASE UNCHANGED vars \/ ReadReply \/ ReadSignal \/ Receives \/ BusServes \/ RivalTakes \/ RivalLeaves \/ OtherLeaves
    BY <2>6 DEF vars, ReadReply, ReadSignal, Receives, BusServes, RivalTakes, RivalLeaves, OtherLeaves
  <2> QED
    BY <2>1, <2>2, <2>3, <2>4, <2>5, <2>6 DEF Next, LostStep, AcquiredStep, LoopStep, Watchers
<1>5. pc[Request] = "selfLocked" => SelfLocked'
  BY <1>0, <1>1, <1>4 DEF LockInv, Holds, Inside, SelfLocked
<1>6. ASSUME RequestBegins \/ RequestCancelled \/ WatchSignal \/ WatchSignalFails \/ RequestName \/ RequestReturns
              \/ RequestTells \/ AcquiredTells
      PROVE  Stuck => Stuck'
  <2>1. loop' = loop /\ pc'[Lost] = pc[Lost] /\ answer' \in {answer, None}
    BY <1>0, <1>1, <1>6 DEF RequestBegins, RequestCancelled, WatchSignal, WatchSignalFails, RequestName,
       RequestReturns, RequestTells, AcquiredTells, Send, Goto, Call, Answered, callVars
  <2> QED
    BY <1>3, <1>4, <2>1
<1>7. ASSUME WatchSignalReturns PROVE Stuck => Stuck'
  <2> SUFFICES ASSUME loop = <<Lost>>, pc[Lost] # "ranging", pc[Lost] = "new" => answer = None
               PROVE  Stuck'
    BY <1>4 DEF Stuck
  <2>1. answer = "ok" /\ loop' = loop /\ pc' = [pc EXCEPT ![Request] = IF NextWatch = Lost THEN "watch" ELSE "request",
                                                  ![NextWatch] = "ranging"]
    BY <1>7 DEF WatchSignalReturns, Answered
  <2>2. pc[Lost] # "new"
    BY <1>0, <2>1
  <2>3. NextWatch = Acquired
    BY <1>1, <1>2, <2>2 DEF SetUpInv, Watchers
  <2>4. pc'[Lost] = pc[Lost]
    BY <1>0, <1>1, <2>1, <2>3
  <2> QED
    BY <2>1, <2>2, <2>4 DEF Stuck
<1>8. ASSUME NEW g \in {Request, Lost} \union Releases, ReleaseStep(g) PROVE Stuck => Stuck'
  <2>1. /\ loop' = loop /\ answer' \in {answer, None}
        /\ pc'[Lost] = pc[Lost] \/ (pc[Lost] \notin {"new", "ranging"} /\ pc'[Lost] \notin {"new", "ranging"})
    BY <1>0, <1>1, <1>8 DEF ReleaseStep, CancelWatch, CancelWatchAgain, CancelReturns,
       ReleaseFails, ReleaseName, ReleaseNameReturns, CloseChannel, Goto, Call, Answered, callVars
  <2> QED
    BY <1>4, <2>1 DEF Stuck
<1>9. ASSUME LockForLost \/ LostTells
      PROVE  Stuck => Stuck'
  <2>1. loop' = loop /\ pc[Lost] # "new" /\ pc'[Lost] \notin {"new", "ranging"}
    BY <1>0, <1>1, <1>9 DEF LockForLost, LostTells, Send, Goto
  <2> QED
    BY <1>4, <2>1 DEF Stuck
<1>10. ASSUME NEW w \in Watchers, SendPanics(w) \/ RangeEnds(w) PROVE Stuck => Stuck'
  <2>1. /\ loop' = loop /\ answer' = answer
        /\ pc'[Lost] = pc[Lost] \/ pc'[Lost] \in {"panicked", "returned"}
    BY <1>0, <1>1, <1>10 DEF SendPanics, RangeEnds, Goto, Watchers, callVars
  <2> QED
    BY <1>4, <2>1 DEF Stuck
<1>11. ASSUME NEW w \in Watchers, Deliver(w) PROVE Stuck => Stuck'
  BY <1>0, <1>4, <1>11 DEF Deliver, Goto, Stuck
<1>12. ASSUME NEW x \in Releases, CallRelease(x) \/ LockForRelease(x) PROVE Stuck => Stuck'
  <2>1. loop' = loop /\ pc'[Lost] = pc[Lost] /\ answer' = answer
    BY <1>0, <1>1, <1>12 DEF CallRelease, LockForRelease, Goto, callVars
  <2> QED
    BY <1>3, <1>4, <2>1
<1>13. ASSUME UNCHANGED vars \/ Receives \/ BusServes \/ RivalTakes \/ RivalLeaves \/ OtherLeaves
      PROVE  Stuck => Stuck'
  <2>1. loop' = loop /\ pc' = pc /\ answer' \in {answer, None}
    BY <1>13 DEF vars, Receives, BusServes, RivalTakes, RivalLeaves, OtherLeaves, callVars
  <2> QED
    BY <2>1 DEF Stuck
<1>14. ASSUME ReadReply \/ ReadSignal
      PROVE  Stuck => Stuck'
  <2>1. loop = <<>> /\ pc' = pc
    BY <1>14 DEF ReadReply, ReadSignal
  <2> QED
    BY <2>1 DEF Stuck
<1>15. Stuck => Stuck'
  BY <1>6, <1>7, <1>8, <1>9, <1>10, <1>11, <1>12, <1>13, <1>14
     DEF Next, RequestStep, LostStep, AcquiredStep, LoopStep, Watchers
<1> QED
  BY <1>5, <1>15

LEMMA LockedInvariant == Spec => []LockedInv
<1>1. LockedInv /\ WatchInv /\ ClosedInv => LockedInv
  OBVIOUS
<1> QED
  BY <1>1, Invariant, PTL

\* A request whose second watch fails keeps name.lock for good, so that no Release
\* that comes later gets it.
THEOREM SelfLockedForGood == Spec => [][pc[Request] = "selfLocked" => SelfLocked']_vars
<1>1. LockedInv /\ LockedInv' /\ [Next]_vars => [pc[Request] = "selfLocked" => SelfLocked']_vars
  BY StuckStep
<1> QED
  BY <1>1, LockedInvariant, PTL DEF Spec

\* Neither of the cases in which ReleaseReturns gives a Release up ever comes to an
\* end.
THEOREM StuckForGood == Spec => [][Stuck => Stuck']_vars
<1>1. LockedInv /\ LockedInv' /\ [Next]_vars => [Stuck => Stuck']_vars
  BY StuckStep
<1> QED
  BY <1>1, LockedInvariant, PTL DEF Spec

=============================================================================
