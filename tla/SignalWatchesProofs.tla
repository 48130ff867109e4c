------------------------ MODULE SignalWatchesProofs ------------------------
(***************************************************************************)
(* Proofs about watching signals, for any watches, calls of Cancel, rules  *)
(* and signals.                                                            *)
(***************************************************************************)
EXTENDS SignalWatches, SequenceTheorems, TLAPS

\* Appending to and taking the head off a queue.
LEMMA QueueTypes ==
  ASSUME NEW S, NEW q \in Seq(S)
  PROVE  /\ \A m \in S : Append(q, m) \in Seq(S)
         /\ q # <<>> => Head(q) \in S /\ Tail(q) \in Seq(S)
  OBVIOUS

LEMMA InitTyped == Init => TypeOK
<1> SUFFICES ASSUME Init PROVE TypeOK
  OBVIOUS
<1>1. pc \in [Goroutines -> WatchPcs \union CancelPcs] /\ \A g \in Goroutines : pc[g] = "new"
  BY DEF Init, WatchPcs
<1>2. /\ \A w \in Watches : pc[w] \in WatchPcs
      /\ \A k \in Cancels : pc[k] \in CancelPcs
  BY <1>1 DEF Goroutines, WatchPcs, CancelPcs
<1> QED
  BY <1>1, <1>2 DEF Init, TypeOK

\* What a step of pc does to its type.
LEMMA GotoTyped ==
  ASSUME TypeOK, NEW g \in Goroutines, NEW from, NEW to, Goto(g, from, to),
         \/ g \in Watches /\ to \in WatchPcs
         \/ g \in Cancels /\ to \in CancelPcs
  PROVE  /\ pc' \in [Goroutines -> WatchPcs \union CancelPcs]
         /\ \A w \in Watches : pc'[w] \in WatchPcs
         /\ \A k \in Cancels : pc'[k] \in CancelPcs
         /\ pc[g] = from /\ pc'[g] = to
         /\ \A h \in Goroutines \ {g} : pc'[h] = pc[h]
  BY SignalAssumption DEF Goto, TypeOK, Goroutines

LEMMA WatcherTyped ==
  ASSUME TypeOK, NEW w \in Watches,
         WatchSignal(w) \/ AddMatch(w) \/ AddMatchReturns(w) \/ AddMatchFails(w)
  PROVE  TypeOK'
<1>0. w \in Goroutines
  BY DEF Goroutines
<1>1. CASE WatchSignal(w)
  BY <1>0, <1>1, GotoTyped DEF WatchSignal, TypeOK, loopVars, busVars, WatchPcs
<1>2. CASE AddMatch(w)
  <2>1. [method |-> "AddMatch", by |-> w] \in Call
    BY DEF Call
  <2>2. toBus' \in Seq(Call)
    BY <1>2, <2>1 DEF AddMatch, Ask, TypeOK
  <2> QED
    BY <1>0, <1>2, <2>2, GotoTyped DEF AddMatch, Ask, TypeOK, loopVars, busVars, WatchPcs
<1>3. CASE AddMatchReturns(w)
  BY <1>0, <1>3, GotoTyped DEF AddMatchReturns, Told, TypeOK, loopVars, busVars, WatchPcs
<1>4. CASE AddMatchFails(w)
  <2>1. answer' \in [Goroutines -> {"ok", "error", None}]
    BY <1>4 DEF AddMatchFails, Told, AskFails, TypeOK
  <2> QED
    BY <1>0, <1>4, <2>1, GotoTyped DEF AddMatchFails, TypeOK, loopVars, busVars, WatchPcs
<1> QED
  BY <1>1, <1>2, <1>3, <1>4

LEMMA CancelTyped ==
  ASSUME TypeOK, NEW k \in Cancels, CallCancel(k) \/ CancelStep(k) \/ ReceivesOne(k)
  PROVE  TypeOK'
<1>0. k \in Goroutines /\ WatchOf[k] \in Watches
  BY SignalAssumption DEF Goroutines
<1>1. CASE CallCancel(k)
  BY <1>0, <1>1, GotoTyped DEF CallCancel, TypeOK, loopVars, busVars, CancelPcs
<1>2. CASE CancelAgain(k)
  BY <1>0, <1>2, GotoTyped DEF CancelAgain, TypeOK, loopVars, busVars, CancelPcs
<1>3. CASE TakeOut(k)
  BY <1>0, <1>3, GotoTyped DEF TakeOut, TypeOK, loopVars, busVars, CancelPcs
<1>4. CASE RemoveMatch(k)
  <2>1. [method |-> "RemoveMatch", by |-> k] \in Call
    BY DEF Call
  <2>2. toBus' \in Seq(Call)
    BY <1>4, <2>1 DEF RemoveMatch, Ask, TypeOK
  <2> QED
    BY <1>0, <1>4, <2>2, GotoTyped DEF RemoveMatch, Ask, TypeOK, loopVars, busVars, CancelPcs
<1>5. CASE RemoveMatchReturns(k)
  BY <1>0, <1>5, GotoTyped DEF RemoveMatchReturns, Told, TypeOK, loopVars, busVars, CancelPcs
<1>6. CASE RemoveMatchFails(k)
  <2>1. answer' \in [Goroutines -> {"ok", "error", None}]
    BY <1>6 DEF RemoveMatchFails, Told, AskFails, TypeOK
  <2> QED
    BY <1>0, <1>6, <2>1, GotoTyped DEF RemoveMatchFails, TypeOK, loopVars, busVars, CancelPcs
<1>7. CASE CloseChannel(k)
  BY <1>0, <1>7, GotoTyped DEF CloseChannel, TypeOK, loopVars, busVars, CancelPcs
<1>8. CASE ReceivesOne(k)
  <2>1. received' \in [Watches -> SUBSET Signals]
    BY <1>0, <1>8 DEF ReceivesOne, TypeOK, Inbound
  <2> QED
    BY <1>0, <1>8, <2>1, GotoTyped DEF ReceivesOne, TypeOK, busVars, CancelPcs
<1> QED
  BY <1>1, <1>2, <1>3, <1>4, <1>5, <1>6, <1>7, <1>8 DEF CancelStep

LEMMA LoopTyped ==
  ASSUME TypeOK, LoopStep \/ \E w \in Watches : PumpReceives(w)
  PROVE  TypeOK'
<1>1. CASE ReadMessage
  <2>1. fromBus # <<>> /\ Head(fromBus) \in Inbound /\ Tail(fromBus) \in Seq(Inbound)
    BY <1>1, QueueTypes DEF ReadMessage, TypeOK
  <2> QED
    BY <1>1, <2>1 DEF ReadMessage, TypeOK, watchVars, busVars
<1>2. CASE DispatchReply
  <2>1. loopMsg.to \in Goroutines /\ loopMsg.says \in {"ok", "error"}
    BY <1>2 DEF DispatchReply, TypeOK, Inbound
  <2> QED
    BY <1>2, <2>1 DEF DispatchReply, TypeOK, watchVars, busVars
<1>3. CASE DispatchSignal
  <2>1. loopMsg.signal \in Signals
    BY <1>3 DEF DispatchSignal, TypeOK, Inbound
  <2> QED
    BY <1>3, <2>1, SignalAssumption DEF DispatchSignal, TypeOK, watchVars, busVars
<1>4. CASE NextCallback
  BY <1>4 DEF NextCallback, TypeOK, watchVars, busVars
<1>5. CASE ReadFails
  BY <1>5 DEF ReadFails, TypeOK, watchVars, busVars
<1>6. ASSUME NEW w \in Watches, PumpReceives(w) PROVE TypeOK'
  <2>1. received' \in [Watches -> SUBSET Signals]
    BY <1>6 DEF PumpReceives, TypeOK, Inbound
  <2> QED
    BY <1>6, <2>1 DEF PumpReceives, TypeOK, watchVars, busVars
<1> QED
  BY <1>1, <1>2, <1>3, <1>4, <1>5, <1>6 DEF LoopStep

LEMMA BusTyped ==
  ASSUME TypeOK, Close \/ BusServes \/ \E s \in Signals : Emit(s)
  PROVE  TypeOK'
<1>1. CASE Close
  BY <1>1 DEF Close, TypeOK, watchVars, loopVars, busVars
<1>2. CASE BusServes
  <2>1. toBus # <<>> /\ Head(toBus) \in Call /\ toBus' \in Seq(Call)
    BY <1>2, QueueTypes DEF BusServes, TypeOK
  <2>2. Head(toBus).by \in Goroutines /\ (Head(toBus).method = "AddMatch" => Head(toBus).by \in Watches)
    BY <2>1 DEF Call, Goroutines
  <2>3. \A says \in {"ok", "error"} : [type |-> "reply", to |-> Head(toBus).by, says |-> says] \in Inbound
    BY <2>2 DEF Inbound
  <2>4. fromBus' \in Seq(Inbound)
    <3>1. PICK says \in {"ok", "error"} :
            fromBus' = Append(fromBus, [type |-> "reply", to |-> Head(toBus).by, says |-> says])
      BY <1>2 DEF BusServes, Replies
    <3>2. PICK m \in Inbound : fromBus' = Append(fromBus, m)
      BY <2>3, <3>1
    <3> QED
      BY <3>2 DEF TypeOK
  <2>5. busRules' \in SUBSET Watches
    BY <1>2, <2>2 DEF BusServes, TypeOK
  <2> QED
    BY <1>2, <2>1, <2>4, <2>5 DEF BusServes, TypeOK, watchVars, loopVars
<1>3. ASSUME NEW s \in Signals, Emit(s) PROVE TypeOK'
  <2>1. [type |-> "signal", signal |-> s] \in Inbound
    BY DEF Inbound
  <2>2. fromBus' \in Seq(Inbound)
    BY <1>3, <2>1, QueueTypes DEF Emit, TypeOK
  <2>3. due' \in [Watches -> SUBSET Signals]
    BY <1>3 DEF Emit, TypeOK
  <2> QED
    BY <1>3, <2>2, <2>3 DEF Emit, TypeOK, watchVars, loopVars
<1> QED
  BY <1>1, <1>2, <1>3

LEMMA StepTyped == TypeOK /\ [Next]_vars => TypeOK'
<1> SUFFICES ASSUME TypeOK, [Next]_vars PROVE TypeOK'
  OBVIOUS
<1>1. CASE UNCHANGED vars
  BY <1>1 DEF vars, TypeOK, watchVars, loopVars, busVars
<1> QED
  BY <1>1, WatcherTyped, CancelTyped, LoopTyped, BusTyped DEF Next, WatcherStep

\* Type correctness, for any instance and any faults.
THEOREM TypeCorrect == SafeSpec => []TypeOK
  BY InitTyped, StepTyped, PTL DEF SafeSpec

(***************************************************************************)
(* NoSendOnClosed.                                                         *)
(***************************************************************************)
\* What is in a queue after an append, and after its head is taken.
LEMMA AppendElements ==
  ASSUME NEW S, NEW q \in Seq(S), NEW m
  PROVE  \A i \in 1..Len(Append(q, m)) :
            \/ i \in 1..Len(q) /\ Append(q, m)[i] = q[i]
            \/ Append(q, m)[i] = m
  OBVIOUS

LEMMA TailElements ==
  ASSUME NEW S, NEW q \in Seq(S), q # <<>>
  PROVE  /\ \A i \in 1..Len(Tail(q)) : i + 1 \in 1..Len(q) /\ Tail(q)[i] = q[i + 1]
         /\ 1 \in 1..Len(q) /\ Head(q) = q[1]
  OBVIOUS

LEMMA InitClosed == Init => ClosedInv
<1> SUFFICES ASSUME Init PROVE ClosedInv
  OBVIOUS
<1>1. \A g \in Goroutines : pc[g] = "new" /\ answer[g] = None
  BY DEF Init
<1>2. \A k \in Cancels : k \in Goroutines /\ ~ Begun(k) /\ pc[k] = "new" /\ answer[k] = None
  BY <1>1 DEF Begun, Goroutines
<1>3. \A w \in Watches : pc[w] = "new"
  BY <1>1 DEF Goroutines
<1> QED
  BY <1>2, <1>3 DEF Init, ClosedInv, TakenOutInv, RoundTripInv, QuietInv, Quiet, Still

\* Steps that only move the goroutine of a call of WatchSignal.
LEMMA WatcherClosed ==
  ASSUME TypeOK, ClosedInv, NEW w \in Watches,
         WatchSignal(w) \/ AddMatch(w) \/ AddMatchReturns(w) \/ AddMatchFails(w)
  PROVE  ClosedInv'
<1>0. w \in Goroutines /\ \A k \in Cancels : k # w /\ k \in Goroutines /\ WatchOf[k] \in Watches
  BY SignalAssumption DEF Goroutines
<1>1. /\ pc[w] \in {"new", "toAddMatch", "addingMatch"}
      /\ \A g \in Goroutines \ {w} : pc'[g] = pc[g]
      /\ pc'[w] \in {"toAddMatch", "addingMatch", "watching", "failed"}
      /\ signalMatchRules' \in {signalMatchRules \union {w}, signalMatchRules, signalMatchRules \ {w}}
      /\ pc'[w] \in {"toAddMatch", "addingMatch", "watching"} => w \in signalMatchRules'
      /\ lock' = lock /\ closed' = closed /\ UNCHANGED loopVars /\ conn' = conn
      /\ fromBus' = fromBus
      /\ \A k \in Cancels : answer'[k] = answer[k]
  <2>1. /\ \A g \in Goroutines \ {w} : pc'[g] = pc[g]
        /\ pc[w] \in {"new", "toAddMatch", "addingMatch"}
        /\ pc'[w] \in {"toAddMatch", "addingMatch", "watching", "failed"}
    BY <1>0 DEF WatchSignal, AddMatch, Ask, AddMatchReturns, AddMatchFails, Goto, TypeOK
  <2>2. /\ signalMatchRules' \in {signalMatchRules \union {w}, signalMatchRules, signalMatchRules \ {w}}
        /\ pc'[w] \in {"toAddMatch", "addingMatch", "watching"} => w \in signalMatchRules'
    BY <1>0 DEF WatchSignal, AddMatch, Ask, AddMatchReturns, AddMatchFails, Goto, TypeOK,
                ClosedInv, TakenOutInv
  <2>3. \A k \in Cancels : answer'[k] = answer[k]
    BY <1>0 DEF WatchSignal, AddMatch, Ask, AddMatchReturns, AddMatchFails, Told, AskFails, TypeOK
  <2> QED
    BY <2>1, <2>2, <2>3 DEF WatchSignal, AddMatch, Ask, AddMatchReturns, AddMatchFails
<1>2. \A k \in Cancels : /\ pc'[k] = pc[k] /\ (Begun(k)' <=> Begun(k))
                         /\ pc[k] # "new" => WatchOf[k] # w
  BY <1>0, <1>1 DEF Begun, ClosedInv, TakenOutInv
<1>3. \A x \in Watches : /\ Quiet(x)' <=> Quiet(x)
                         /\ x # w => pc'[x] = pc[x] /\ (x \in signalMatchRules' <=> x \in signalMatchRules)
  <2>1. \A x \in Watches : CancelFailed(x)' <=> CancelFailed(x)
    BY <1>2 DEF CancelFailed
  <2> QED
    BY <1>1, <2>1 DEF Quiet, Still, Excused, loopVars, Goroutines
<1>4. TakenOutInv'
  <2>1. \A x \in Watches : pc'[x] \in {"toAddMatch", "addingMatch"} => x \in signalMatchRules'
    BY <1>1, <1>3 DEF ClosedInv, TakenOutInv
  <2>2. ASSUME NEW k \in Cancels
        PROVE  /\ pc'[k] # "new" => pc'[WatchOf[k]] = "watching"
               /\ Begun(k)' => WatchOf[k] \notin signalMatchRules'
    <3>1. Begun(k) => pc[k] # "new"
      BY DEF Begun
    <3> QED
      BY <1>0, <1>2, <1>3, <3>1 DEF ClosedInv, TakenOutInv
  <2> QED
    BY <2>1, <2>2 DEF TakenOutInv
<1>5. RoundTripInv'
  <2>1. (\A i \in 1..Len(toBus) : toBus[i].by \in Cancels => Begun(toBus[i].by))'
    <3>1. toBus' = toBus \/ toBus' = Append(toBus, [method |-> "AddMatch", by |-> w])
      BY DEF WatchSignal, AddMatch, Ask, AddMatchReturns, AddMatchFails
    <3>2. \A i \in 1..Len(toBus') : \/ i \in 1..Len(toBus) /\ toBus'[i] = toBus[i]
                                    \/ toBus'[i] = [method |-> "AddMatch", by |-> w]
      <4>1. toBus \in Seq(Call)
        BY DEF TypeOK
      <4>2. CASE toBus' = toBus
        BY <4>1, <4>2
      <4>3. CASE toBus' = Append(toBus, [method |-> "AddMatch", by |-> w])
        BY <4>1, <4>3, AppendElements
      <4> QED
        BY <3>1, <4>2, <4>3
    <3>3. \A i \in 1..Len(toBus) : toBus[i].by \in Cancels => pc[toBus[i].by] \notin {"new", "received", "locking"}
      BY DEF ClosedInv, RoundTripInv, Begun
    <3>4. ASSUME NEW i \in 1..Len(toBus'), toBus'[i].by \in Cancels
          PROVE  pc'[toBus'[i].by] \notin {"new", "received", "locking"}
      BY <1>0, <1>2, <3>2, <3>3, <3>4
    <3> QED
      BY <3>4 DEF Begun
  <2> QED
    BY <1>1, <1>2, <2>1 DEF ClosedInv, RoundTripInv, loopVars
<1>6. QuietInv'
  <2>1. \A x \in Watches : pc'[x] = "watching" /\ lock'[x] = None => x \in signalMatchRules' \/ Quiet(x)'
    BY <1>1, <1>3 DEF ClosedInv, QuietInv
  <2>2. \A x \in closed' : pc'[x] = "watching" /\ x \notin signalMatchRules' /\ Quiet(x)'
    BY <1>1, <1>3 DEF ClosedInv, QuietInv, TypeOK
  <2>3. \A k \in Cancels : answer'[k] # None \/ pc'[k] = "toClose" => Quiet(WatchOf[k])'
    BY <1>0, <1>1, <1>2, <1>3 DEF ClosedInv, QuietInv
  <2> QED
    BY <1>1, <2>1, <2>2, <2>3 DEF ClosedInv, QuietInv, loopVars
<1> QED
  BY <1>1, <1>4, <1>5, <1>6 DEF ClosedInv
\* Steps that keep whatever RoundTripInv says of calls, replies and answers.
LEMMA RoundTripKept ==
  ASSUME RoundTripInv,
         \A k \in Cancels : Begun(k) => Begun(k)',
         \A i \in 1..Len(toBus') :
            \/ \E j \in 1..Len(toBus) : toBus'[i] = toBus[j]
            \/ \A k \in Cancels : toBus'[i].by = k => Begun(k)',
         \A i \in 1..Len(fromBus') :
            \/ \E j \in 1..Len(fromBus) : fromBus'[i] = fromBus[j]
            \/ \A k \in Cancels : fromBus'[i].type = "reply" /\ fromBus'[i].to = k => Begun(k)',
         loopPc' = "dispatch" => \/ loopPc = "dispatch" /\ loopMsg' = loopMsg
                                \/ \E j \in 1..Len(fromBus) : loopMsg' = fromBus[j],
         \A k \in Cancels : answer'[k] # None => Begun(k)'
  PROVE  RoundTripInv'
<1>1. ASSUME NEW i \in 1..Len(toBus'), NEW k \in Cancels, toBus'[i].by = k
      PROVE  Begun(k)'
  BY <1>1 DEF RoundTripInv
<1>2. ASSUME NEW i \in 1..Len(fromBus'), NEW k \in Cancels, fromBus'[i].type = "reply",
             fromBus'[i].to = k
      PROVE  Begun(k)'
  BY <1>2 DEF RoundTripInv
<1>3. ASSUME loopPc' = "dispatch", NEW k \in Cancels, loopMsg'.type = "reply", loopMsg'.to = k
      PROVE  Begun(k)'
  BY <1>3 DEF RoundTripInv
<1> QED
  BY <1>1, <1>2, <1>3 DEF RoundTripInv
\* Cancel: what its steps change, for the proof that they keep the invariant.
LEMMA CancelEffects ==
  ASSUME TypeOK, ClosedInv, NEW k \in Cancels, CallCancel(k) \/ CancelStep(k) \/ ReceivesOne(k)
  PROVE  /\ \A g \in Goroutines \ {k} : pc'[g] = pc[g]
         /\ pc[WatchOf[k]] = "watching"
         /\ Begun(k) => Begun(k)'
         /\ pc'[k] # "new"
         /\ signalMatchRules' \in {signalMatchRules, signalMatchRules \ {WatchOf[k]}}
         /\ Begun(k)' => WatchOf[k] \notin signalMatchRules'
<1>1. k \in Goroutines /\ WatchOf[k] \in Watches /\ (pc[k] # "new" => pc[WatchOf[k]] = "watching")
  BY SignalAssumption DEF Goroutines, ClosedInv, TakenOutInv
<1>2. WatchOf[k] \in closed => WatchOf[k] \notin signalMatchRules
  BY DEF ClosedInv, QuietInv
<1>3. Begun(k) => WatchOf[k] \notin signalMatchRules
  BY DEF ClosedInv, TakenOutInv
<1>4. CASE CallCancel(k)
  BY <1>1, <1>4 DEF CallCancel, Goto, Begun, TypeOK
<1>5. CASE ReceivesOne(k)
  BY <1>1, <1>5 DEF ReceivesOne, Goto, Begun, TypeOK
<1>6. CASE CancelAgain(k)
  BY <1>1, <1>2, <1>6 DEF CancelAgain, Goto, Begun, TypeOK
<1>7. CASE TakeOut(k)
  BY <1>1, <1>7 DEF TakeOut, Goto, Begun, TypeOK
<1>8. CASE RemoveMatch(k) \/ RemoveMatchReturns(k) \/ RemoveMatchFails(k) \/ CloseChannel(k)
  BY <1>1, <1>3, <1>8 DEF RemoveMatch, Ask, RemoveMatchReturns, RemoveMatchFails, CloseChannel,
                          Goto, Begun, TypeOK
<1> QED
  BY <1>4, <1>5, <1>6, <1>7, <1>8 DEF CancelStep

LEMMA CancelRoundTrip ==
  ASSUME TypeOK, ClosedInv, NEW k \in Cancels, CallCancel(k) \/ CancelStep(k) \/ ReceivesOne(k)
  PROVE  RoundTripInv'
<1>1. k \in Goroutines /\ \A j \in Cancels : Begun(j) => Begun(j)'
  BY CancelEffects DEF Begun, Goroutines
<1>2. \A i \in 1..Len(toBus') : \/ \E j \in 1..Len(toBus) : toBus'[i] = toBus[j]
                                \/ \A j \in Cancels : toBus'[i].by = j => Begun(j)'
  <2>1. CASE RemoveMatch(k)
    <3>1. toBus \in Seq(Call) /\ toBus' = Append(toBus, [method |-> "RemoveMatch", by |-> k])
      BY <2>1 DEF RemoveMatch, Ask, TypeOK
    <3>2. Begun(k)'
      BY <1>1, <2>1 DEF RemoveMatch, Ask, Goto, Begun, TypeOK
    <3>3. \A i \in 1..Len(toBus') : \/ i \in 1..Len(toBus) /\ toBus'[i] = toBus[i]
                                    \/ toBus'[i] = [method |-> "RemoveMatch", by |-> k]
      BY <3>1, AppendElements
    <3> QED
      BY <3>2, <3>3
  <2>2. CASE ~ RemoveMatch(k)
    <3>1. toBus' = toBus
      BY <2>2 DEF CancelStep, CallCancel, CancelAgain, TakeOut, RemoveMatchReturns,
                  RemoveMatchFails, CloseChannel, ReceivesOne
    <3> QED
      BY <3>1
  <2> QED
    BY <2>1, <2>2
<1>3. fromBus' = fromBus /\ (loopPc' = "dispatch" => loopPc = "dispatch" /\ loopMsg' = loopMsg)
  BY DEF CancelStep, CallCancel, CancelAgain, TakeOut, RemoveMatch, Ask, RemoveMatchReturns,
         RemoveMatchFails, CloseChannel, ReceivesOne, loopVars
<1>4. \A j \in Cancels : answer'[j] # None => answer[j] # None
  BY <1>1 DEF CancelStep, CallCancel, CancelAgain, TakeOut, RemoveMatch, Ask, RemoveMatchReturns,
              RemoveMatchFails, CloseChannel, ReceivesOne, Told, AskFails, TypeOK, Goroutines
<1>5. \A j \in Cancels : answer'[j] # None => Begun(j)'
  BY <1>1, <1>4 DEF ClosedInv, RoundTripInv
<1>6. RoundTripInv
  BY DEF ClosedInv
<1> QED
  BY <1>1, <1>2, <1>3, <1>5, <1>6, RoundTripKept

LEMMA CancelClosed ==
  ASSUME TypeOK, ClosedInv, NEW k \in Cancels, CallCancel(k) \/ CancelStep(k) \/ ReceivesOne(k)
  PROVE  ClosedInv'
<1> DEFINE w == WatchOf[k]
<1>1. /\ k \in Goroutines /\ w \in Watches /\ k # None
      /\ \A j \in Cancels : j \in Goroutines /\ WatchOf[j] \in Watches
      /\ \A x \in Watches : x \in Goroutines /\ x # k
      /\ "ok" # None /\ "error" # None
  BY SignalAssumption DEF Goroutines
<1>2. \A x \in Watches : pc'[x] = pc[x]
  BY <1>1, CancelEffects
<1>3. TakenOutInv'
  <2>1. \A x \in Watches : pc'[x] \in {"toAddMatch", "addingMatch"} => x \in signalMatchRules'
    BY <1>2, CancelEffects DEF ClosedInv, TakenOutInv
  <2>2. ASSUME NEW j \in Cancels
        PROVE  /\ pc'[j] # "new" => pc'[WatchOf[j]] = "watching"
               /\ Begun(j)' => WatchOf[j] \notin signalMatchRules'
    <3>1. CASE j = k
      BY <1>1, <1>2, <3>1, CancelEffects
    <3>2. CASE j # k
      BY <1>1, <1>2, <3>2, CancelEffects DEF Begun, ClosedInv, TakenOutInv
    <3> QED
      BY <3>1, <3>2
  <2> QED
    BY <2>1, <2>2 DEF TakenOutInv
<1>4. /\ \A x \in Watches : Quiet(x) => Quiet(x)'
      /\ loopPc' \in {"read", "dispatch", "stopped"} => loopPc' = loopPc
      /\ matches' = matches /\ conn' = conn
  <2>1. /\ \A x \in Watches : Still(x) => Still(x)'
        /\ loopPc' \in {"read", "dispatch", "stopped"} => loopPc' = loopPc
        /\ matches' = matches /\ conn' = conn
    BY DEF CancelStep, CallCancel, CancelAgain, TakeOut, RemoveMatch, Ask, RemoveMatchReturns,
           RemoveMatchFails, CloseChannel, ReceivesOne, loopVars, Still
  <2>2. pc[k] # "failed"
    BY DEF CancelStep, CallCancel, CancelAgain, TakeOut, RemoveMatch, Ask, RemoveMatchReturns,
           RemoveMatchFails, CloseChannel, ReceivesOne, Goto
  <2>3. \A j \in Cancels : pc[j] = "failed" => pc'[j] = "failed"
    BY <1>1, <2>2, CancelEffects
  <2>4. \A x \in Watches : CancelFailed(x) => CancelFailed(x)'
    BY <2>3 DEF CancelFailed
  <2> QED
    BY <2>1, <2>4 DEF Quiet, Excused
<1>5. ASSUME NEW j \in Cancels, answer'[j] # None \/ pc'[j] = "toClose"
      PROVE  Quiet(WatchOf[j])'
  <2>1. answer'[j] # None => answer[j] # None
    BY <1>1 DEF CancelStep, CallCancel, CancelAgain, TakeOut, RemoveMatch, Ask, RemoveMatchReturns,
                RemoveMatchFails, CloseChannel, ReceivesOne, Told, AskFails, TypeOK, Goroutines
  <2>2. j # k => pc'[j] = pc[j]
    BY <1>1, CancelEffects
  <2>3. CASE answer[j] # None \/ pc[j] = "toClose"
    BY <1>1, <1>4, <2>3 DEF ClosedInv, QuietInv
  <2>4. CASE j = k /\ pc'[k] = "toClose" /\ answer[k] = None /\ pc[k] # "toClose"
    <3>1. TakeOut(k) /\ w \notin signalMatchRules
      BY <1>1, <2>4 DEF CancelStep, CallCancel, CancelAgain, TakeOut, RemoveMatch, Ask,
                        RemoveMatchReturns, RemoveMatchFails, CloseChannel, ReceivesOne, Told,
                        Goto, TypeOK
    <3> QED
      BY <1>1, <1>4, <2>4, <3>1, CancelEffects DEF TakeOut, ClosedInv, QuietInv
  <2> QED
    BY <1>5, <2>1, <2>2, <2>3, <2>4
<1>6. ASSUME NEW x \in Watches, pc'[x] = "watching", lock'[x] = None
      PROVE  x \in signalMatchRules' \/ Quiet(x)'
  <2>1. CASE lock[x] = None /\ ~ TakeOut(k)
    <3>1. signalMatchRules' = signalMatchRules
      BY <2>1 DEF CancelStep, CallCancel, CancelAgain, RemoveMatch, Ask, RemoveMatchReturns,
                  RemoveMatchFails, CloseChannel, ReceivesOne
    <3> QED
      BY <1>2, <1>4, <1>6, <2>1, <3>1 DEF ClosedInv, QuietInv
  <2>2. CASE TakeOut(k)
    <3>1. x # w /\ lock[x] = None /\ (x \in signalMatchRules' <=> x \in signalMatchRules)
      BY <1>1, <1>6, <2>2 DEF TakeOut, TypeOK
    <3> QED
      BY <1>2, <1>4, <1>6, <3>1 DEF ClosedInv, QuietInv
  <2>3. CASE lock[x] # None /\ ~ TakeOut(k)
    <3>1. x = w /\ (RemoveMatchFails(k) \/ CloseChannel(k))
      BY <1>1, <1>6, <2>3 DEF CancelStep, CallCancel, CancelAgain, RemoveMatch, Ask,
           RemoveMatchReturns, RemoveMatchFails, CloseChannel, ReceivesOne, TypeOK
    <3>2. CASE Quiet(w)
      BY <1>1, <1>4, <3>1, <3>2
    <3>3. CASE ~ Quiet(w)
      <4>1. RemoveMatchFails(k) /\ conn # "up" /\ pc'[k] = "failed"
        BY <1>1, <3>1, <3>3 DEF RemoveMatchFails, CloseChannel, Goto, Told, AskFails, TypeOK,
                                ClosedInv, QuietInv
      <4> QED
        BY <1>4, <3>1, <4>1 DEF Quiet, Excused, CancelFailed
    <3> QED
      BY <3>2, <3>3
  <2> QED
    BY <2>1, <2>2, <2>3
<1>7. ASSUME NEW x \in closed'
      PROVE  pc'[x] = "watching" /\ x \notin signalMatchRules' /\ Quiet(x)'
  <2>1. CASE x \in closed
    <3>1. x \in Watches
      BY <2>1 DEF TypeOK
    <3> QED
      BY <1>2, <1>4, <2>1, <3>1, CancelEffects DEF ClosedInv, QuietInv
  <2>2. CASE x \notin closed
    <3>1. x = w /\ CloseChannel(k) /\ pc[k] = "toClose" /\ pc'[k] = "returned"
      BY <1>1, <1>7, <2>2 DEF CancelStep, CallCancel, CancelAgain, TakeOut, RemoveMatch, Ask,
           RemoveMatchReturns, RemoveMatchFails, CloseChannel, ReceivesOne, Goto, TypeOK
    <3>2. Begun(k)'
      BY <3>1 DEF Begun
    <3>3. Quiet(w)
      BY <1>1, <3>1 DEF ClosedInv, QuietInv
    <3> QED
      BY <1>1, <1>2, <1>4, <3>1, <3>2, <3>3, CancelEffects
  <2> QED
    BY <2>1, <2>2
<1>8. QuietInv'
  BY <1>4, <1>5, <1>6, <1>7 DEF ClosedInv, QuietInv
<1> QED
  BY <1>3, <1>4, <1>8, CancelRoundTrip DEF ClosedInv
LEMMA LoopClosed ==
  ASSUME TypeOK, ClosedInv, LoopStep \/ \E w \in Watches : PumpReceives(w)
  PROVE  ClosedInv'
<1>1. /\ UNCHANGED watchVars /\ conn' = conn /\ toBus' = toBus
      /\ \A k \in Cancels : k \in Goroutines /\ WatchOf[k] \in Watches
  BY SignalAssumption DEF Goroutines, LoopStep, ReadMessage, DispatchReply, DispatchSignal,
       NextCallback, ReadFails, PumpReceives, ClosedInv
<1>2. \A k \in Cancels : pc'[k] = pc[k] /\ (Begun(k)' <=> Begun(k))
  BY <1>1 DEF watchVars, Begun
<1>3. TakenOutInv' /\ \A x \in Watches : Excused(x)' <=> Excused(x)
  BY <1>1, <1>2 DEF watchVars, ClosedInv, TakenOutInv, Excused, CancelFailed
<1>4. RoundTripInv'
  <2>1. /\ \A i \in 1..Len(fromBus') : \E j \in 1..Len(fromBus) : fromBus'[i] = fromBus[j]
        /\ loopPc' = "dispatch" => \E j \in 1..Len(fromBus) : loopMsg' = fromBus[j]
    <3>1. CASE ReadMessage
      <4>1. fromBus \in Seq(Inbound) /\ fromBus # <<>> /\ fromBus' = Tail(fromBus)
            /\ loopMsg' = Head(fromBus)
        BY <3>1 DEF ReadMessage, TypeOK
      <4> QED
        BY <4>1, TailElements
    <3>2. CASE ~ ReadMessage
      BY <3>2 DEF LoopStep, DispatchReply, DispatchSignal, NextCallback, ReadFails, PumpReceives
    <3> QED
      BY <3>1, <3>2
  <2>2. ASSUME NEW k \in Cancels, answer'[k] # None PROVE Begun(k)
    <3>1. CASE answer[k] # None
      BY <3>1 DEF ClosedInv, RoundTripInv
    <3>2. CASE answer[k] = None
      <4>1. DispatchReply /\ loopMsg.to = k
        BY <1>1, <2>2, <3>2 DEF LoopStep, ReadMessage, DispatchReply, DispatchSignal, NextCallback,
             ReadFails, PumpReceives, TypeOK
      <4> QED
        BY <4>1 DEF DispatchReply, ClosedInv, RoundTripInv
    <3> QED
      BY <3>1, <3>2
  <2>3. RoundTripInv /\ \A i \in 1..Len(toBus') : toBus'[i] = toBus[i] /\ i \in 1..Len(toBus)
    BY <1>1 DEF ClosedInv
  <2> QED
    BY <1>2, <2>1, <2>2, <2>3, RoundTripKept
<1>5. CASE ReadMessage \/ NextCallback \/ ReadFails \/ \E w \in Watches : PumpReceives(w)
  <2>1. /\ \A x \in Watches : Quiet(x) => Quiet(x)'
        /\ loopPc' \in {"read", "dispatch", "stopped"} => matches' = {}
        /\ answer' = answer
    BY <1>3, <1>5 DEF ReadMessage, NextCallback, PumpReceives, ReadFails, Quiet, Still, ClosedInv, QuietInv
  <2>2. \A x \in closed : x \in Watches
    BY DEF TypeOK
  <2>3. QuietInv'
    BY <1>1, <1>2, <2>1, <2>2 DEF ClosedInv, QuietInv, watchVars
  <2> QED
    BY <1>1, <1>3, <1>4, <2>3 DEF ClosedInv
<1>6. CASE DispatchReply
  <2>1. matches' = {} /\ \A x \in Watches : Quiet(x)'
    BY <1>6 DEF DispatchReply, Quiet, Still, ClosedInv, QuietInv
  <2>2. \A x \in closed : x \in Watches
    BY DEF TypeOK
  <2>3. QuietInv'
    BY <1>1, <1>2, <2>1, <2>2 DEF ClosedInv, QuietInv, watchVars
  <2> QED
    BY <1>1, <1>3, <1>4, <2>3 DEF ClosedInv
<1>7. CASE DispatchSignal
  <2>1. /\ \A x \in Watches : x \notin signalMatchRules => Quiet(x)'
        /\ loopPc' = "callbacks" /\ answer' = answer
    BY <1>7 DEF DispatchSignal, Quiet, Still
  <2>2. \A k \in Cancels : answer[k] # None \/ pc[k] = "toClose" => WatchOf[k] \notin signalMatchRules
    BY DEF ClosedInv, RoundTripInv, TakenOutInv, Begun
  <2>3. \A x \in closed : x \in Watches /\ x \notin signalMatchRules
    BY DEF TypeOK, ClosedInv, QuietInv
  <2>4. QuietInv'
    BY <1>1, <1>2, <2>1, <2>2, <2>3 DEF ClosedInv, QuietInv, watchVars
  <2> QED
    BY <1>1, <1>3, <1>4, <2>4 DEF ClosedInv
<1> QED
  BY <1>5, <1>6, <1>7 DEF LoopStep

LEMMA BusClosed ==
  ASSUME TypeOK, ClosedInv, BusServes \/ \E s \in Signals : Emit(s)
  PROVE  ClosedInv'
<1>1. UNCHANGED <<watchVars, answer, loopVars, conn>>
  BY DEF BusServes, Emit
<1>2. \A k \in Cancels : pc'[k] = pc[k] /\ (Begun(k)' <=> Begun(k))
  BY <1>1 DEF watchVars, Begun
<1>3. TakenOutInv'
  BY <1>1, <1>2 DEF watchVars, ClosedInv, TakenOutInv
<1>4. QuietInv'
  BY <1>1, <1>2 DEF watchVars, loopVars, ClosedInv, QuietInv, Quiet, Still, Excused, CancelFailed
<1>5. \A i \in 1..Len(toBus') : \E j \in 1..Len(toBus) : toBus'[i] = toBus[j]
  <2>1. toBus \in Seq(Call)
    BY DEF TypeOK
  <2>2. CASE BusServes
    <3>1. toBus # <<>> /\ toBus' = Tail(toBus)
      BY <2>2 DEF BusServes
    <3> QED
      BY <2>1, <3>1, TailElements
  <2>3. CASE \E s \in Signals : Emit(s)
    <3>1. toBus' = toBus
      BY <2>3 DEF Emit
    <3> QED
      BY <3>1
  <2> QED
    BY <2>2, <2>3
<1>6. \A i \in 1..Len(fromBus') :
        \/ \E j \in 1..Len(fromBus) : fromBus'[i] = fromBus[j]
        \/ \A k \in Cancels : fromBus'[i].type = "reply" /\ fromBus'[i].to = k => Begun(k)
  <2>1. fromBus \in Seq(Inbound) /\ \A i \in 1..Len(fromBus) : fromBus[i] = fromBus[i]
    BY DEF TypeOK
  <2>2. CASE BusServes
    <3>1. PICK says \in {"ok", "error"} :
            fromBus' = Append(fromBus, [type |-> "reply", to |-> Head(toBus).by, says |-> says])
      BY <2>2 DEF BusServes, Replies
    <3>2. toBus \in Seq(Call) /\ toBus # <<>>
      BY <2>2 DEF BusServes, TypeOK
    <3>3. \A k \in Cancels : Head(toBus).by = k => Begun(k)
      BY <3>2, TailElements DEF ClosedInv, RoundTripInv
    <3>4. \A i \in 1..Len(fromBus') :
             \/ i \in 1..Len(fromBus) /\ fromBus'[i] = fromBus[i]
             \/ fromBus'[i] = [type |-> "reply", to |-> Head(toBus).by, says |-> says]
      BY <2>1, <3>1, AppendElements
    <3> QED
      BY <3>3, <3>4
  <2>3. ASSUME NEW s \in Signals, Emit(s)
        PROVE  \A i \in 1..Len(fromBus') :
                 \/ \E j \in 1..Len(fromBus) : fromBus'[i] = fromBus[j]
                 \/ fromBus'[i].type = "signal"
    <3>1. CASE fromBus' = fromBus
      BY <3>1
    <3>2. CASE fromBus' = Append(fromBus, [type |-> "signal", signal |-> s])
      <4>1. \A i \in 1..Len(fromBus') :
               \/ i \in 1..Len(fromBus) /\ fromBus'[i] = fromBus[i]
               \/ fromBus'[i] = [type |-> "signal", signal |-> s]
        BY <2>1, <3>2, AppendElements
      <4> QED
        BY <4>1
    <3> QED
      BY <2>3, <3>1, <3>2 DEF Emit
  <2>4. "signal" # "reply"
    OBVIOUS
  <2> QED
    BY <2>2, <2>3, <2>4
<1>7. RoundTripInv'
  <2>1. RoundTripInv /\ \A k \in Cancels : answer'[k] # None => Begun(k)
    BY <1>1 DEF ClosedInv, RoundTripInv
  <2> QED
    BY <1>1, <1>2, <1>5, <1>6, <2>1, RoundTripKept DEF loopVars
<1> QED
  BY <1>1, <1>3, <1>4, <1>7 DEF ClosedInv

LEMMA StepClosed ==
  ASSUME TypeOK, ClosedInv, [Next]_vars
  PROVE  ClosedInv'
<1>1. CASE UNCHANGED vars
  BY <1>1 DEF vars, watchVars, loopVars, busVars, ClosedInv, TakenOutInv, RoundTripInv, QuietInv,
              Quiet, Still, Excused, CancelFailed, Begun
<1>2. CASE Close
  <2>1. UNCHANGED <<watchVars, answer, loopVars, toBus, fromBus>> /\ conn = "up"
    BY <1>2 DEF Close
  <2> QED
    BY <2>1 DEF watchVars, loopVars, ClosedInv, TakenOutInv, RoundTripInv, QuietInv, Quiet, Still,
                Excused, Begun
<1> QED
  BY <1>1, <1>2, WatcherClosed, CancelClosed, LoopClosed, BusClosed DEF Next, WatcherStep

\* The round trip of RemoveMatch: who is about to close C knows that the loop is
\* done with the watch, unless an earlier Cancel of it failed on a dead connection.
THEOREM RoundTripQuiets == SafeSpec => []ClosedInv
<1>1. TypeOK /\ ClosedInv /\ [Next]_vars => ClosedInv'
  BY StepClosed
<1> QED
  BY <1>1, InitClosed, TypeCorrect, PTL DEF SafeSpec

\* No callback sends on the channel Cancel has closed, whatever the number of
\* watches and of racing Cancels, whether or not the bus agrees to remove a rule,
\* and even when the application closes the connection, but for the repeated
\* Cancel that NoSendOnClosed names.
THEOREM NeverSendsOnClosed == SafeSpec => []NoSendOnClosed
<1>1. TypeOK /\ ClosedInv => NoSendOnClosed
  BY DEF TypeOK, ClosedInv, QuietInv, Quiet, Still, NoSendOnClosed
<1> QED
  BY <1>1, RoundTripQuiets, TypeCorrect, PTL

(***************************************************************************)
(* RulesAgree.                                                             *)
(***************************************************************************)
\* Where the call of a goroutine, or the reply to it, can be.
Waiting == {"addingMatch", "removingMatch"}
IsCall(q, i, g) == i \in 1..Len(q) /\ q[i].by = g
IsReply(q, i, g) == i \in 1..Len(q) /\ q[i].type = "reply" /\ q[i].to = g
Called(g) == \E i : IsCall(toBus, i, g)
Sent(g) == \E i : IsReply(fromBus, i, g)
Answering(g) == loopPc = "dispatch" /\ loopMsg.type = "reply" /\ loopMsg.to = g

\* A reply says what has become of the rule: AddMatch added it if it says so and
\* only then, RemoveMatch removed it if it says so.
Fits(g, says) ==
  /\ pc[g] \in Waiting
  /\ g \in Watches => (says = "ok" <=> g \in busRules)
  /\ g \in Cancels /\ says = "ok" => WatchOf[g] \notin busRules

\* A goroutine that waits has one call, in one place.
OneCall ==
  /\ \A g \in Goroutines : Called(g) => pc[g] \in Waiting /\ g \notin busRules
  /\ \A g \in Goroutines : \A i, j : IsCall(toBus, i, g) /\ IsCall(toBus, j, g) => i = j
OneReply ==
  /\ \A g \in Goroutines : \A i : IsReply(fromBus, i, g) => Fits(g, fromBus[i].says)
  /\ \A g \in Goroutines : \A i, j : IsReply(fromBus, i, g) /\ IsReply(fromBus, j, g) => i = j
OneAnswer ==
  /\ \A g \in Goroutines : Answering(g) => Fits(g, loopMsg.says)
  /\ \A g \in Goroutines : answer[g] # None => Fits(g, answer[g])
Apart ==
  \A g \in Goroutines :
     /\ Called(g) => ~ Sent(g) /\ ~ Answering(g) /\ answer[g] = None
     /\ Sent(g) => ~ Answering(g) /\ answer[g] = None
     /\ Answering(g) => answer[g] = None
CallInv == OneCall /\ OneReply /\ OneAnswer /\ Apart

\* A rule at the bus has its watch in the table, or who answers for it.
TakingBack(w) == \E k \in Cancels : WatchOf[k] = w /\ pc[k] \in {"toRemoveMatch", "removingMatch"}
LockInv ==
  \A k \in Cancels : pc[k] \in {"toRemoveMatch", "removingMatch", "toClose"} => lock[WatchOf[k]] = k
OwnedRules ==
  /\ \A w \in busRules : w \in signalMatchRules \/ CancelFailed(w) \/ TakingBack(w)
  /\ \A w \in Watches : pc[w] \in {"new", "toAddMatch"} => w \notin busRules
InForce ==
  \A w \in Watches : pc[w] = "watching" /\ ~ Cancelling(w) => w \in busRules \intersect signalMatchRules
Withdrawn ==
  /\ \A w \in Watches : pc[w] = "failed" => w \notin signalMatchRules /\ w \notin busRules
  /\ \A k \in Cancels : pc[k] = "toClose" /\ WatchOf[k] \in busRules => CancelFailed(WatchOf[k])
  /\ \A w \in closed : w \in busRules => CancelFailed(w)
RuleInv == LockInv /\ OwnedRules /\ InForce /\ Withdrawn

LEMMA InitRuled == Init => CallInv /\ RuleInv
<1> SUFFICES ASSUME Init PROVE CallInv /\ RuleInv
  OBVIOUS
<1>1. /\ \A g \in Goroutines : pc[g] = "new" /\ answer[g] = None
      /\ toBus = <<>> /\ fromBus = <<>> /\ loopPc = "read" /\ busRules = {} /\ closed = {}
  BY DEF Init
<1>2. \A g : ~ Called(g) /\ ~ Sent(g) /\ ~ Answering(g)
  BY <1>1 DEF Called, Sent, IsCall, IsReply, Answering
<1>3. CallInv
  BY <1>1, <1>2 DEF CallInv, OneCall, OneReply, OneAnswer, Apart, Called, Sent
<1>4. (\A w \in Watches : w \in Goroutines) /\ (\A k \in Cancels : k \in Goroutines)
  BY DEF Goroutines
<1>5. RuleInv
  BY <1>1, <1>4 DEF RuleInv, LockInv, OwnedRules, InForce, Withdrawn
<1> QED
  BY <1>3, <1>5

\* Who does not wait has nothing of the kind; who has its answer has nothing else.
LEMMA NothingElse ==
  ASSUME CallInv, NEW g \in Goroutines, pc[g] \notin Waiting \/ answer[g] # None
  PROVE  /\ ~ Called(g) /\ ~ Sent(g) /\ ~ Answering(g)
         /\ pc[g] \notin Waiting => answer[g] = None
         /\ answer[g] # None => Fits(g, answer[g])
  BY DEF CallInv, OneCall, OneReply, OneAnswer, Apart, Sent, Fits

\* Steps that leave calls, replies and rules alone.
LEMMA StillCalled ==
  ASSUME CallInv, UNCHANGED <<toBus, fromBus, busRules, answer>>,
         \A g \in Goroutines : pc[g] \in Waiting => pc'[g] = pc[g],
         loopPc' = "dispatch" => loopPc = "dispatch" /\ loopMsg' = loopMsg
  PROVE  CallInv'
<1>1. \A g : (Called(g)' <=> Called(g)) /\ (Sent(g)' <=> Sent(g))
  BY DEF Called, Sent
<1>2. \A g \in Goroutines : \A says : Fits(g, says) => Fits(g, says)'
  BY DEF Fits
<1>3. \A g : Answering(g)' => Answering(g) /\ loopMsg' = loopMsg
  BY DEF Answering
<1>4. OneCall'
  BY <1>1 DEF CallInv, OneCall
<1>5. OneReply'
  BY <1>2 DEF CallInv, OneReply
<1>6. OneAnswer'
  BY <1>2, <1>3 DEF CallInv, OneAnswer
<1>7. Apart'
  BY <1>1, <1>3 DEF CallInv, Apart
<1> QED
  BY <1>4, <1>5, <1>6, <1>7 DEF CallInv

\* What is a call after one more is sent, and after one is taken.
LEMMA CallsAfterSending ==
  ASSUME NEW q \in Seq(Call), NEW c \in Call
  PROVE  \A i, g : IsCall(Append(q, c), i, g) <=> IsCall(q, i, g) \/ (i = Len(q) + 1 /\ c.by = g)
<1>1. /\ Len(q) \in Nat /\ Len(Append(q, c)) = Len(q) + 1 /\ Append(q, c)[Len(q) + 1] = c
      /\ \A i \in 1..Len(q) : Append(q, c)[i] = q[i]
  OBVIOUS
<1> QED
  BY <1>1 DEF IsCall

LEMMA CallsAfterTaking ==
  ASSUME NEW q \in Seq(Call), q # <<>>
  PROVE  /\ \A i, g : IsCall(Tail(q), i, g) => IsCall(q, i + 1, g) /\ i \in Nat /\ i # 0
         /\ Head(q) \in Call /\ IsCall(q, 1, Head(q).by)
<1>1. /\ Len(q) \in Nat /\ Len(q) # 0 /\ Len(Tail(q)) = Len(q) - 1 /\ Head(q) = q[1] /\ Head(q) \in Call
      /\ \A i \in 1..Len(Tail(q)) : Tail(q)[i] = q[i + 1]
  OBVIOUS
<1> QED
  BY <1>1 DEF IsCall

\* And what is a reply.
LEMMA RepliesAfterSending ==
  ASSUME NEW q \in Seq(Inbound), NEW m \in Inbound
  PROVE  /\ Len(q) \in Nat
         /\ \A i, g : IsReply(Append(q, m), i, g) <=>
              IsReply(q, i, g) \/ (i = Len(q) + 1 /\ m.type = "reply" /\ m.to = g)
         /\ \A i \in 1..Len(q) : Append(q, m)[i] = q[i]
         /\ Append(q, m)[Len(q) + 1] = m
<1>1. /\ Len(q) \in Nat /\ Len(Append(q, m)) = Len(q) + 1 /\ Append(q, m)[Len(q) + 1] = m
      /\ \A i \in 1..Len(q) : Append(q, m)[i] = q[i]
  OBVIOUS
<1> QED
  BY <1>1 DEF IsReply

LEMMA RepliesAfterReading ==
  ASSUME NEW q \in Seq(Inbound), q # <<>>
  PROVE  /\ \A i, g : IsReply(Tail(q), i, g) => IsReply(q, i + 1, g) /\ Tail(q)[i] = q[i + 1] /\ i \in Nat /\ i # 0
         /\ \A g : Head(q).type = "reply" /\ Head(q).to = g => IsReply(q, 1, g)
         /\ Head(q) = q[1]
<1>1. /\ Len(q) \in Nat /\ Len(q) # 0 /\ Len(Tail(q)) = Len(q) - 1 /\ Head(q) = q[1]
      /\ \A i \in 1..Len(Tail(q)) : Tail(q)[i] = q[i + 1]
  OBVIOUS
<1> QED
  BY <1>1 DEF IsReply

\* A goroutine calls the bus.
LEMMA AskCalled ==
  ASSUME TypeOK, CallInv, NEW c \in Call, NEW from, from \notin Waiting, NEW to \in Waiting,
         Ask(c.by, c.method, from, to), c.by \notin busRules
  PROVE  CallInv'
<1> DEFINE g == c.by
<1>0. /\ g \in Goroutines /\ toBus \in Seq(Call) /\ pc[g] = from /\ pc' = [pc EXCEPT ![g] = to]
      /\ pc \in [Goroutines -> WatchPcs \union CancelPcs]
      /\ c = [method |-> c.method, by |-> g]
      /\ UNCHANGED <<answer, loopPc, loopMsg, fromBus, busRules>>
  BY DEF TypeOK, Ask, Goto, Call, Goroutines, loopVars, busVars
<1>1. toBus' = Append(toBus, c)
  BY <1>0 DEF Ask
<1>2. pc'[g] = to /\ \A h \in Goroutines \ {g} : pc'[h] = pc[h]
  BY <1>0
<1>3. ~ Called(g) /\ ~ Sent(g) /\ ~ Answering(g) /\ answer[g] = None
  BY <1>0, NothingElse
<1>4. \A h : (Answering(h)' <=> Answering(h)) /\ (Sent(h)' <=> Sent(h))
  BY <1>0 DEF Answering, Sent
<1>5. \A i, h : IsCall(toBus, i, h)' <=> IsCall(toBus, i, h) \/ (i = Len(toBus) + 1 /\ h = g)
  BY <1>0, <1>1, CallsAfterSending DEF IsCall
<1>6. \A h : h # g => (Called(h)' <=> Called(h))
  BY <1>5 DEF Called
<1>7. \A h \in Goroutines \ {g} : \A says : Fits(h, says) => Fits(h, says)'
  BY <1>0, <1>2 DEF Fits
<1>8. OneCall'
  <2>1. \A h \in Goroutines : Called(h)' => pc'[h] \in Waiting /\ h \notin busRules'
    BY <1>0, <1>2, <1>6 DEF CallInv, OneCall
  <2>2. \A h \in Goroutines : \A i, j : IsCall(toBus, i, h)' /\ IsCall(toBus, j, h)' => i = j
    BY <1>3, <1>5 DEF CallInv, OneCall, Called
  <2> QED
    BY <2>1, <2>2 DEF OneCall
<1>9. OneReply'
  BY <1>0, <1>3, <1>7 DEF CallInv, OneReply, Sent
<1>10. OneAnswer'
  BY <1>0, <1>3, <1>4, <1>7 DEF CallInv, OneAnswer
<1>11. Apart'
  BY <1>0, <1>3, <1>4, <1>6 DEF CallInv, Apart
<1> QED
  BY <1>8, <1>9, <1>10, <1>11 DEF CallInv

\* A goroutine takes its answer and goes on.
LEMMA TakenCalled ==
  ASSUME TypeOK, CallInv, NEW g \in Goroutines, NEW to, NEW what, what # None,
         Told(g, what), pc' = [pc EXCEPT ![g] = to],
         UNCHANGED <<loopPc, loopMsg, toBus, fromBus, busRules>>
  PROVE  CallInv'
<1>0. /\ answer[g] # None /\ answer' = [answer EXCEPT ![g] = None]
      /\ pc \in [Goroutines -> WatchPcs \union CancelPcs] /\ answer \in [Goroutines -> {"ok", "error", None}]
  BY DEF TypeOK, Told
<1>1. ~ Called(g) /\ ~ Sent(g) /\ ~ Answering(g)
  BY <1>0, NothingElse
<1>2. answer'[g] = None /\ \A h \in Goroutines \ {g} : pc'[h] = pc[h] /\ answer'[h] = answer[h]
  BY <1>0
<1>3. \A h : (Called(h)' <=> Called(h)) /\ (Sent(h)' <=> Sent(h)) /\ (Answering(h)' <=> Answering(h))
  BY DEF Called, Sent, Answering
<1>4. \A h \in Goroutines \ {g} : \A says : Fits(h, says) => Fits(h, says)'
  BY <1>2 DEF Fits
<1>5. OneCall'
  BY <1>1, <1>2, <1>3 DEF CallInv, OneCall
<1>6. OneReply'
  BY <1>1, <1>4 DEF CallInv, OneReply, Sent
<1>7. OneAnswer'
  BY <1>1, <1>2, <1>3, <1>4 DEF CallInv, OneAnswer
<1>8. Apart'
  BY <1>1, <1>2, <1>3 DEF CallInv, Apart
<1> QED
  BY <1>5, <1>6, <1>7, <1>8 DEF CallInv

\* The loop reads the next message.
LEMMA ReadCalled ==
  ASSUME TypeOK, CallInv, ReadMessage
  PROVE  CallInv'
<1>0. /\ fromBus \in Seq(Inbound) /\ fromBus # <<>> /\ fromBus' = Tail(fromBus)
      /\ loopPc' = "dispatch" /\ loopMsg' = Head(fromBus) /\ loopPc = "read"
      /\ UNCHANGED <<pc, toBus, answer, busRules>>
  BY DEF TypeOK, ReadMessage, watchVars, busVars
<1>1. \A g, says : Fits(g, says)' <=> Fits(g, says)
  BY <1>0 DEF Fits
<1>2. \A g : Called(g)' <=> Called(g)
  BY <1>0 DEF Called
<1>3. \A g : Answering(g)' => IsReply(fromBus, 1, g) /\ loopMsg' = fromBus[1]
  BY <1>0, RepliesAfterReading DEF Answering
<1>4. \A i, g : IsReply(fromBus, i, g)' => IsReply(fromBus, i + 1, g) /\ fromBus'[i] = fromBus[i + 1] /\ i \in Nat /\ i # 0
  BY <1>0, RepliesAfterReading DEF IsReply
<1>5. OneCall'
  BY <1>0, <1>2 DEF CallInv, OneCall
<1>6. OneReply'
  <2>1. \A g \in Goroutines : \A i, j : IsReply(fromBus, i, g)' /\ IsReply(fromBus, j, g)' => i + 1 = j + 1 /\ i \in Nat /\ j \in Nat
    BY <1>4 DEF CallInv, OneReply
  <2>2. \A g \in Goroutines : \A i, j : IsReply(fromBus, i, g)' /\ IsReply(fromBus, j, g)' => i = j
    BY <2>1
  <2>3. \A g \in Goroutines : \A i : IsReply(fromBus, i, g)' => Fits(g, fromBus[i].says)'
    BY <1>1, <1>4 DEF CallInv, OneReply
  <2> QED
    BY <2>2, <2>3 DEF OneReply
<1>7. OneAnswer'
  BY <1>0, <1>1, <1>3 DEF CallInv, OneAnswer, OneReply
<1>8. Apart'
  <2>1. \A g : Sent(g)' => Sent(g)
    BY <1>4 DEF Sent
  <2>2. \A g : Answering(g)' => Sent(g)
    BY <1>3 DEF Sent
  <2>3. \A g \in Goroutines : ~ (Sent(g)' /\ Answering(g)')
    <3>1. SUFFICES ASSUME NEW g \in Goroutines, Sent(g)', Answering(g)' PROVE FALSE
      OBVIOUS
    <3>2. PICK i : IsReply(fromBus, i, g)'
      BY <3>1 DEF Sent
    <3>3. IsReply(fromBus, i + 1, g) /\ i \in Nat /\ i # 0 /\ IsReply(fromBus, 1, g)
      BY <1>3, <1>4, <3>1, <3>2
    <3>4. i + 1 = 1
      BY <3>3 DEF CallInv, OneReply
    <3> QED
      BY <3>3, <3>4
  <2> QED
    BY <1>0, <1>2, <2>1, <2>2, <2>3 DEF CallInv, Apart
<1> QED
  BY <1>5, <1>6, <1>7, <1>8 DEF CallInv

LEMMA DispatchCalled ==
  ASSUME TypeOK, CallInv, DispatchReply
  PROVE  CallInv'
<1> DEFINE g == loopMsg.to
<1>0. /\ loopMsg \in Inbound /\ g \in Goroutines /\ Answering(g)
      /\ answer \in [Goroutines -> {"ok", "error", None}]
      /\ answer' = [answer EXCEPT ![g] = loopMsg.says] /\ loopPc' = "read"
      /\ UNCHANGED <<pc, toBus, fromBus, busRules>>
  BY DEF TypeOK, DispatchReply, watchVars, busVars, Answering, Inbound
<1>1. \A h, says : Fits(h, says)' <=> Fits(h, says)
  BY <1>0 DEF Fits
<1>2. \A h : (Called(h)' <=> Called(h)) /\ (Sent(h)' <=> Sent(h))
  BY <1>0 DEF Called, Sent
<1>3. \A h : ~ Answering(h)'
  BY <1>0 DEF Answering
<1>4. answer'[g] = loopMsg.says /\ \A h \in Goroutines \ {g} : answer'[h] = answer[h]
  BY <1>0
<1>5. OneCall' /\ OneReply'
  BY <1>0, <1>1, <1>2 DEF CallInv, OneCall, OneReply
<1>6. OneAnswer'
  BY <1>0, <1>1, <1>3, <1>4 DEF CallInv, OneAnswer
<1>7. Apart'
  BY <1>0, <1>2, <1>3, <1>4 DEF CallInv, Apart
<1> QED
  BY <1>5, <1>6, <1>7 DEF CallInv

\* A signal is sent.
LEMMA EmitCalled ==
  ASSUME TypeOK, CallInv, NEW s \in Signals, Emit(s)
  PROVE  CallInv'
<1> DEFINE m == [type |-> "signal", signal |-> s]
<1>0. /\ fromBus \in Seq(Inbound) /\ m \in Inbound /\ m.type # "reply"
      /\ UNCHANGED <<pc, toBus, answer, loopPc, loopMsg, busRules>>
  BY DEF TypeOK, Emit, Inbound, watchVars, loopVars
<1>1. \A h, says : Fits(h, says)' <=> Fits(h, says)
  BY <1>0 DEF Fits
<1>2. \A h : (Called(h)' <=> Called(h)) /\ (Answering(h)' <=> Answering(h))
  BY <1>0 DEF Called, Answering
<1>3. \A i, h : IsReply(fromBus, i, h)' => IsReply(fromBus, i, h) /\ fromBus'[i] = fromBus[i]
  <2>1. CASE fromBus' = fromBus
    BY <2>1
  <2>2. CASE fromBus' = Append(fromBus, m)
    BY <1>0, <2>2, RepliesAfterSending DEF IsReply
  <2> QED
    BY <2>1, <2>2 DEF Emit
<1>4. OneCall'
  BY <1>0, <1>2 DEF CallInv, OneCall
<1>5. OneReply'
  BY <1>1, <1>3 DEF CallInv, OneReply
<1>6. OneAnswer'
  BY <1>0, <1>1, <1>2 DEF CallInv, OneAnswer
<1>7. \A h : Sent(h)' => Sent(h)
  BY <1>3 DEF Sent
<1>8. Apart'
  BY <1>0, <1>2, <1>7 DEF CallInv, Apart
<1> QED
  BY <1>4, <1>5, <1>6, <1>8 DEF CallInv

\* The bus serves the first call.
LEMMA ServeCalled ==
  ASSUME TypeOK, ClosedInv, CallInv, BusServes
  PROVE  CallInv'
<1>. PICK c, g : c = Head(toBus) /\ g = c.by
  OBVIOUS
<1>0. /\ toBus \in Seq(Call) /\ toBus # <<>> /\ toBus' = Tail(toBus) /\ fromBus \in Seq(Inbound)
      /\ UNCHANGED <<pc, answer, loopPc, loopMsg>>
  BY DEF TypeOK, BusServes, watchVars, loopVars
<1>1. /\ c \in Call /\ IsCall(toBus, 1, g) /\ Called(g) /\ g \in Goroutines
      /\ \A i, h : IsCall(toBus, i, h)' => IsCall(toBus, i + 1, h) /\ i \in Nat /\ i # 0
  BY <1>0, CallsAfterTaking DEF IsCall, Called, Call, Goroutines
<1>2. /\ g \in Watches => c.method = "AddMatch" /\ g \notin Cancels
      /\ g \in Cancels => c.method = "RemoveMatch" /\ g \notin Watches /\ WatchOf[g] \in Watches
      /\ g \in Watches \union Cancels
  BY <1>1, SignalAssumption DEF Call
<1>3. /\ pc[g] \in Waiting /\ g \notin busRules
      /\ ~ Sent(g) /\ ~ Answering(g) /\ answer[g] = None
  BY <1>1 DEF CallInv, OneCall, Apart
<1>4. PICK says \in {"ok", "error"} :
        /\ fromBus' = Append(fromBus, [type |-> "reply", to |-> g, says |-> says])
        /\ says = "error" => busRules' = busRules
        /\ says = "ok" /\ g \in Watches => busRules' = busRules \union {g}
        /\ says = "ok" /\ g \in Cancels => busRules' = busRules \ {WatchOf[g]}
  BY <1>2 DEF BusServes, Replies
<1> DEFINE m == [type |-> "reply", to |-> g, says |-> says]
<1>5. m \in Inbound /\ fromBus' = Append(fromBus, m)
  BY <1>1, <1>4 DEF Inbound
<1>6. \A h : Answering(h)' <=> Answering(h)
  BY <1>0 DEF Answering
<1>7. \A h \in Goroutines : (Called(h)' => Called(h)) /\ ~ Called(g)'
  <2>1. \A h : Called(h)' => Called(h)
    BY <1>1 DEF Called, IsCall
  <2>2. ASSUME NEW i, IsCall(toBus, i, g)' PROVE FALSE
    <3>1. IsCall(toBus, i + 1, g) /\ i \in Nat /\ i # 0
      BY <1>1, <2>2
    <3>2. i + 1 = 1
      BY <1>1, <3>1 DEF CallInv, OneCall
    <3> QED
      BY <3>1, <3>2
  <2>3. ~ Called(g)'
    BY <2>2 DEF Called
  <2> QED
    BY <2>1, <2>3
<1>8. \A h : h # g => (Sent(h)' => Sent(h))
  BY <1>0, <1>5, RepliesAfterSending DEF Sent, IsReply
<1>9. \A k \in Cancels : pc[k] \in Waiting => WatchOf[k] \in Watches /\ pc[WatchOf[k]] \notin Waiting
  BY SignalAssumption DEF ClosedInv, TakenOutInv, Waiting
<1>10. ASSUME NEW h \in Goroutines, h # g, NEW what, Fits(h, what) PROVE Fits(h, what)'
  <2>1. CASE g \in Watches
    <3>1. h \in Cancels => WatchOf[h] # g
      BY <1>3, <1>9, <1>10 DEF Fits
    <3> QED
      BY <1>0, <1>2, <1>4, <1>10, <2>1, <3>1 DEF Fits
  <2>2. CASE g \in Cancels
    <3>1. h \in Watches => WatchOf[g] # h
      BY <1>3, <1>9, <1>10, <2>2 DEF Fits
    <3> QED
      BY <1>0, <1>2, <1>4, <1>10, <2>2, <3>1 DEF Fits
  <2> QED
    BY <1>2, <2>1, <2>2
<1>11. Fits(g, says)'
  BY <1>0, <1>2, <1>3, <1>4 DEF Fits
<1>12. OneCall'
  <2>1. \A h \in Goroutines : Called(h)' => pc'[h] \in Waiting /\ h \notin busRules'
    <3>1. \A h \in Goroutines : Called(h)' => h # g /\ pc[h] \in Waiting /\ h \notin busRules
      BY <1>7 DEF CallInv, OneCall
    <3>2. busRules' \subseteq busRules \union {g}
      BY <1>2, <1>4
    <3> QED
      BY <1>0, <3>1, <3>2
  <2>2. ASSUME NEW h \in Goroutines, NEW i, NEW j, IsCall(toBus, i, h)', IsCall(toBus, j, h)' PROVE i = j
    <3>1. i \in Nat /\ j \in Nat /\ i + 1 = j + 1
      BY <1>1, <2>2 DEF CallInv, OneCall
    <3> QED
      BY <3>1
  <2>3. \A h \in Goroutines : \A i, j : IsCall(toBus, i, h)' /\ IsCall(toBus, j, h)' => i = j
    BY <2>2
  <2> QED
    BY <2>1, <2>3 DEF OneCall
<1>13. \A i, h : IsReply(fromBus, i, h)' =>
          \/ IsReply(fromBus, i, h) /\ fromBus'[i] = fromBus[i]
          \/ i = Len(fromBus) + 1 /\ h = g /\ fromBus'[i] = m
  BY <1>0, <1>5, RepliesAfterSending DEF IsReply
<1>14. OneReply'
  <2>1. ASSUME NEW h \in Goroutines, NEW i, IsReply(fromBus, i, h)' PROVE Fits(h, fromBus[i].says)'
    <3>1. CASE h = g
      <4>1. fromBus'[i] = m
        BY <1>3, <1>13, <2>1, <3>1 DEF Sent
      <4> QED
        BY <1>11, <3>1, <4>1
    <3>2. CASE h # g
      <4>1. fromBus'[i] = fromBus[i] /\ Fits(h, fromBus[i].says)
        BY <1>13, <2>1, <3>2 DEF CallInv, OneReply
      <4> QED
        BY <1>10, <3>2, <4>1
    <3> QED
      BY <3>1, <3>2
  <2>2. \A h \in Goroutines : \A i, j : IsReply(fromBus, i, h)' /\ IsReply(fromBus, j, h)' => i = j
    BY <1>3, <1>13 DEF CallInv, OneReply, Sent
  <2> QED
    BY <2>1, <2>2 DEF OneReply
<1>15. OneAnswer'
  BY <1>0, <1>3, <1>6, <1>10 DEF CallInv, OneAnswer
<1>16. Apart'
  BY <1>0, <1>3, <1>6, <1>7, <1>8 DEF CallInv, Apart
<1> QED
  BY <1>12, <1>14, <1>15, <1>16 DEF CallInv

LEMMA StepCalls ==
  ASSUME TypeOK, ClosedInv, CallInv, RuleInv, [Next]_vars
  PROVE  CallInv'
<1>0. /\ pc \in [Goroutines -> WatchPcs \union CancelPcs]
      /\ \A w \in Watches : w \in Goroutines
      /\ \A k \in Cancels : k \in Goroutines /\ k \notin busRules
      /\ "ok" # None /\ "error" # None
  BY SignalAssumption DEF TypeOK, Goroutines
<1> USE DEF watchVars, loopVars, busVars
<1>1. CASE UNCHANGED vars
  BY <1>1, StillCalled DEF vars
<1>2. CASE Close
  BY <1>2, StillCalled DEF Close
<1>3. ASSUME NEW w \in Watches, WatchSignal(w) \/ WatcherStep(w) \/ PumpReceives(w) PROVE CallInv'
  <2>1. CASE WatchSignal(w) \/ PumpReceives(w)
    BY <1>0, <2>1, StillCalled DEF WatchSignal, PumpReceives, Goto, Waiting
  <2>2. CASE AddMatch(w)
    <3>1. w \notin busRules
      BY <2>2 DEF RuleInv, OwnedRules, AddMatch, Ask, Goto
    <3> DEFINE c == [method |-> "AddMatch", by |-> w]
    <3>2. c \in Call /\ Ask(c.by, c.method, "toAddMatch", "addingMatch")
          /\ "toAddMatch" \notin Waiting /\ "addingMatch" \in Waiting
      BY <2>2 DEF AddMatch, Call, Waiting
    <3> QED
      BY <3>1, <3>2, AskCalled
  <2>3. CASE AddMatchReturns(w)
    BY <1>0, <2>3, TakenCalled DEF AddMatchReturns, Goto
  <2>4. CASE AddMatchFails(w) /\ AskFails(w) /\ Goto(w, "toAddMatch", "failed")
    BY <1>0, <2>4, StillCalled DEF AddMatchFails, AskFails, Goto, Waiting
  <2>5. CASE AddMatchFails(w) /\ Told(w, "error") /\ Goto(w, "addingMatch", "failed")
    BY <1>0, <2>5, TakenCalled DEF AddMatchFails, Goto
  <2> QED
    BY <1>3, <2>1, <2>2, <2>3, <2>4, <2>5 DEF WatcherStep, AddMatchFails
<1>4. ASSUME NEW k \in Cancels, CallCancel(k) \/ CancelStep(k) \/ ReceivesOne(k) PROVE CallInv'
  <2>1. CASE CallCancel(k) \/ CancelAgain(k) \/ TakeOut(k) \/ CloseChannel(k) \/ ReceivesOne(k)
    <3>1. \A g \in Goroutines : pc[g] \in Waiting => pc'[g] = pc[g]
      BY <1>0, <2>1 DEF CallCancel, CancelAgain, TakeOut, CloseChannel, ReceivesOne, Goto, Waiting
    <3>2. UNCHANGED <<toBus, fromBus, busRules, answer>> /\ (loopPc' = "dispatch" => loopPc = "dispatch" /\ loopMsg' = loopMsg)
      BY <2>1 DEF CallCancel, CancelAgain, TakeOut, CloseChannel, ReceivesOne
    <3> QED
      BY <3>1, <3>2, StillCalled
  <2>2. CASE RemoveMatch(k)
    <3> DEFINE c == [method |-> "RemoveMatch", by |-> k]
    <3>1. c \in Call /\ Ask(c.by, c.method, "toRemoveMatch", "removingMatch")
          /\ "toRemoveMatch" \notin Waiting /\ "removingMatch" \in Waiting /\ c.by \notin busRules
      BY <1>0, <2>2 DEF RemoveMatch, Call, Waiting
    <3> QED
      BY <3>1, AskCalled
  <2>3. CASE RemoveMatchReturns(k)
    BY <1>0, <2>3, TakenCalled DEF RemoveMatchReturns, Goto
  <2>4. CASE RemoveMatchFails(k) /\ AskFails(k) /\ Goto(k, "toRemoveMatch", "failed")
    BY <1>0, <2>4, StillCalled DEF RemoveMatchFails, AskFails, Goto, Waiting
  <2>5. CASE RemoveMatchFails(k) /\ Told(k, "error") /\ Goto(k, "removingMatch", "failed")
    BY <1>0, <2>5, TakenCalled DEF RemoveMatchFails, Goto
  <2> QED
    BY <1>4, <2>1, <2>2, <2>3, <2>4, <2>5 DEF CancelStep, RemoveMatchFails
<1>5. CASE DispatchSignal \/ NextCallback \/ ReadFails
  BY <1>5, StillCalled DEF DispatchSignal, NextCallback, ReadFails
<1> QED
  BY <1>1, <1>2, <1>3, <1>4, <1>5, ReadCalled, DispatchCalled, ServeCalled, EmitCalled DEF Next, LoopStep

\* The rules when a step of WatchSignal is taken,
LEMMA WatcherRules ==
  ASSUME TypeOK, ClosedInv, CallInv, RuleInv, NEW w \in Watches,
         WatchSignal(w) \/ WatcherStep(w)
  PROVE  RuleInv'
<1>0. /\ pc \in [Goroutines -> WatchPcs \union CancelPcs]
      /\ w \in Goroutines /\ w \notin Cancels /\ "ok" # None /\ "error" # None
      /\ UNCHANGED <<lock, closed, busRules>>
  BY SignalAssumption DEF TypeOK, Goroutines, WatchSignal, WatcherStep, AddMatch, Ask, AddMatchReturns, AddMatchFails, busVars
<1>1. /\ \A g \in Goroutines \ {w} : pc'[g] = pc[g]
      /\ \A k \in Cancels : k \in Goroutines /\ pc'[k] = pc[k]
      /\ \A v \in Watches : v \in Goroutines /\ (v # w => pc'[v] = pc[v])
  BY <1>0 DEF WatchSignal, WatcherStep, AddMatch, Ask, AddMatchReturns, AddMatchFails, Goto, Goroutines
<1>2. \A v : /\ Cancelling(v)' <=> Cancelling(v)
             /\ CancelFailed(v)' <=> CancelFailed(v)
             /\ TakingBack(v)' <=> TakingBack(v)
  BY <1>1 DEF Cancelling, CancelFailed, TakingBack
<1>3. LockInv'
  BY <1>0, <1>1 DEF RuleInv, LockInv
<1>4. CASE WatchSignal(w)
  <2>1. pc'[w] = "toAddMatch" /\ pc[w] = "new" /\ signalMatchRules' = signalMatchRules \union {w}
    BY <1>0, <1>4 DEF WatchSignal, Goto
  <2> QED
    BY <1>0, <1>1, <1>2, <1>3, <2>1 DEF RuleInv, OwnedRules, InForce, Withdrawn
<1>5. CASE AddMatch(w)
  <2>1. pc'[w] = "addingMatch" /\ pc[w] = "toAddMatch" /\ signalMatchRules' = signalMatchRules
    BY <1>0, <1>5 DEF AddMatch, Ask, Goto
  <2> QED
    BY <1>0, <1>1, <1>2, <1>3, <2>1 DEF RuleInv, OwnedRules, InForce, Withdrawn
<1>6. CASE AddMatchReturns(w)
  <2>1. pc'[w] = "watching" /\ pc[w] = "addingMatch" /\ signalMatchRules' = signalMatchRules
    BY <1>0, <1>6 DEF AddMatchReturns, Goto
  <2>2. w \in busRules
    BY <1>0, <1>6, NothingElse DEF AddMatchReturns, Told, Fits
  <2>3. w \in signalMatchRules
    BY <2>1 DEF ClosedInv, TakenOutInv
  <2> QED
    BY <1>0, <1>1, <1>2, <1>3, <2>1, <2>2, <2>3 DEF RuleInv, OwnedRules, InForce, Withdrawn
<1>7. CASE AddMatchFails(w)
  <2>1. /\ pc'[w] = "failed" /\ pc[w] \in {"toAddMatch", "addingMatch"}
        /\ signalMatchRules' = signalMatchRules \ {w}
    BY <1>0, <1>7 DEF AddMatchFails, Goto
  <2>2. w \notin busRules
    <3>1. CASE pc[w] = "toAddMatch"
      BY <3>1 DEF RuleInv, OwnedRules
    <3>2. CASE Told(w, "error")
      BY <1>0, <3>2, NothingElse DEF Told, Fits
    <3> QED
      BY <1>7, <3>1, <3>2 DEF AddMatchFails, Goto
  <2> QED
    BY <1>0, <1>1, <1>2, <1>3, <2>1, <2>2 DEF RuleInv, OwnedRules, InForce, Withdrawn
<1> QED
  BY <1>4, <1>5, <1>6, <1>7 DEF WatcherStep

\* of Cancel,
LEMMA CancelRules ==
  ASSUME TypeOK, ClosedInv, CallInv, RuleInv, NEW k \in Cancels,
         CallCancel(k) \/ CancelStep(k) \/ ReceivesOne(k)
  PROVE  RuleInv'
<1>. PICK w \in Watches : w = WatchOf[k]
  BY SignalAssumption
<1>0. /\ pc \in [Goroutines -> WatchPcs \union CancelPcs]
      /\ k \in Goroutines /\ k \notin Watches /\ k # None /\ "ok" # None
      /\ lock \in [Watches -> Cancels \union {None}]
      /\ \A j \in Cancels : j # None /\ WatchOf[j] \in Watches
      /\ busRules' = busRules /\ busRules \subseteq Watches
  BY SignalAssumption
     DEF TypeOK, Goroutines, CallCancel, CancelStep, CancelAgain, TakeOut, RemoveMatch, Ask,
         RemoveMatchReturns, RemoveMatchFails, CloseChannel, ReceivesOne, busVars
<1>1. /\ \A j \in Cancels : j # k => pc'[j] = pc[j]
      /\ \A v \in Watches : pc'[v] = pc[v]
  BY <1>0 DEF CallCancel, CancelStep, CancelAgain, TakeOut, RemoveMatch, Ask,
         RemoveMatchReturns, RemoveMatchFails, CloseChannel, ReceivesOne, Goto, Goroutines
<1>2. pc[k] # "failed"
  BY DEF CallCancel, CancelStep, CancelAgain, TakeOut, RemoveMatch, Ask,
         RemoveMatchReturns, RemoveMatchFails, CloseChannel, ReceivesOne, Goto
<1>3. \A v \in Watches : /\ CancelFailed(v) => CancelFailed(v)'
                         /\ v # w => (Cancelling(v)' <=> Cancelling(v)) /\ (TakingBack(v)' <=> TakingBack(v))
  BY <1>1, <1>2 DEF Cancelling, CancelFailed, TakingBack
<1>4. CASE CallCancel(k) \/ CancelAgain(k) \/ ReceivesOne(k)
  <2>1. /\ pc[k] \in {"new", "received", "locking"} /\ pc'[k] \in {"received", "locking", "returned"}
        /\ pc[k] = "locking" => pc'[k] # "received"
        /\ UNCHANGED <<signalMatchRules, lock, closed>>
    BY <1>0, <1>4 DEF CallCancel, CancelAgain, ReceivesOne, Goto
  <2>2. (Cancelling(w) => Cancelling(w)') /\ (TakingBack(w) => TakingBack(w)')
    BY <1>1, <2>1 DEF Cancelling, TakingBack
  <2> QED
    BY <1>0, <1>1, <1>3, <2>1, <2>2 DEF RuleInv, LockInv, OwnedRules, InForce, Withdrawn
<1>5. CASE TakeOut(k)
  <2>1. /\ pc[k] = "locking" /\ lock[w] = None
        /\ pc'[k] = IF w \in signalMatchRules THEN "toRemoveMatch" ELSE "toClose"
        /\ lock' = [lock EXCEPT ![w] = k]
        /\ signalMatchRules' = signalMatchRules \ {w} /\ closed' = closed
    BY <1>0, <1>5 DEF TakeOut, Goto
  <2>2. Cancelling(w)'
    BY <2>1 DEF Cancelling
  <2>3. ~ TakingBack(w)
    BY <1>0, <2>1 DEF RuleInv, LockInv, TakingBack
  <2>4. w \in busRules => w \in signalMatchRules \/ CancelFailed(w)
    BY <2>3 DEF RuleInv, OwnedRules
  <2>5. w \in signalMatchRules => TakingBack(w)'
    BY <2>1 DEF TakingBack
  <2>6. LockInv'
    BY <1>0, <1>1, <2>1 DEF RuleInv, LockInv
  <2>7. OwnedRules'
    BY <1>0, <1>1, <1>3, <2>1, <2>4, <2>5 DEF RuleInv, OwnedRules
  <2>8. InForce'
    BY <1>0, <1>1, <1>3, <2>1, <2>2 DEF RuleInv, InForce
  <2>9. Withdrawn'
    BY <1>0, <1>1, <1>3, <2>1, <2>4 DEF RuleInv, Withdrawn
  <2> QED
    BY <2>6, <2>7, <2>8, <2>9 DEF RuleInv
<1>6. CASE RemoveMatch(k)
  <2>1. /\ pc[k] = "toRemoveMatch" /\ pc'[k] = "removingMatch"
        /\ UNCHANGED <<signalMatchRules, lock, closed>>
    BY <1>0, <1>6 DEF RemoveMatch, Ask, Goto
  <2>2. Cancelling(w)' /\ TakingBack(w)'
    BY <2>1 DEF Cancelling, TakingBack
  <2> QED
    BY <1>0, <1>1, <1>3, <2>1, <2>2 DEF RuleInv, LockInv, OwnedRules, InForce, Withdrawn
<1>7. CASE RemoveMatchReturns(k)
  <2>1. /\ pc[k] = "removingMatch" /\ pc'[k] = "toClose"
        /\ UNCHANGED <<signalMatchRules, lock, closed>>
    BY <1>0, <1>7 DEF RemoveMatchReturns, Goto
  <2>2. w \notin busRules
    BY <1>0, <1>7, NothingElse DEF RemoveMatchReturns, Told, Fits
  <2>3. Cancelling(w)'
    BY <2>1 DEF Cancelling
  <2> QED
    BY <1>0, <1>1, <1>3, <2>1, <2>2, <2>3 DEF RuleInv, LockInv, OwnedRules, InForce, Withdrawn
<1>8. CASE RemoveMatchFails(k)
  <2>1. /\ pc[k] \in {"toRemoveMatch", "removingMatch"} /\ pc'[k] = "failed"
        /\ lock' = [lock EXCEPT ![w] = None] /\ UNCHANGED <<signalMatchRules, closed>>
    BY <1>0, <1>8 DEF RemoveMatchFails, Goto
  <2>2. Cancelling(w)' /\ CancelFailed(w)'
    BY <2>1 DEF Cancelling, CancelFailed
  <2>3. LockInv'
    BY <1>0, <1>1, <2>1 DEF RuleInv, LockInv
  <2> QED
    BY <1>0, <1>1, <1>3, <2>1, <2>2, <2>3 DEF RuleInv, OwnedRules, InForce, Withdrawn
<1>9. CASE CloseChannel(k)
  <2>1. /\ pc[k] = "toClose" /\ pc'[k] = "returned" /\ lock' = [lock EXCEPT ![w] = None]
        /\ closed' = closed \union {w} /\ signalMatchRules' = signalMatchRules
    BY <1>0, <1>9 DEF CloseChannel, Goto
  <2>2. Cancelling(w)' /\ (TakingBack(w) => TakingBack(w)')
    BY <1>1, <2>1 DEF Cancelling, TakingBack
  <2>3. w \in busRules => CancelFailed(w)
    BY <2>1 DEF RuleInv, Withdrawn
  <2>4. LockInv'
    BY <1>0, <1>1, <2>1 DEF RuleInv, LockInv
  <2> QED
    BY <1>0, <1>1, <1>3, <2>1, <2>2, <2>3, <2>4 DEF RuleInv, OwnedRules, InForce, Withdrawn
<1> QED
  BY <1>4, <1>5, <1>6, <1>7, <1>8, <1>9 DEF CancelStep

\* and when the bus serves a call.
LEMMA ServeRules ==
  ASSUME TypeOK, ClosedInv, CallInv, RuleInv, BusServes
  PROVE  RuleInv'
<1>. PICK c, g : c = Head(toBus) /\ g = c.by
  OBVIOUS
<1>0. /\ toBus \in Seq(Call) /\ toBus # <<>>
      /\ UNCHANGED <<pc, lock, closed, signalMatchRules>>
  BY DEF TypeOK, BusServes, watchVars
<1>1. c \in Call /\ Called(g) /\ g \in Goroutines
  BY <1>0, CallsAfterTaking DEF Called, Call, Goroutines
<1>2. /\ pc[g] \in Waiting
      /\ \/ g \in Watches /\ c.method = "AddMatch"
         \/ g \in Cancels /\ c.method = "RemoveMatch"
  BY <1>1 DEF CallInv, OneCall, Call
<1>3. \/ busRules' = busRules
      \/ g \in Watches /\ busRules' = busRules \union {g}
      \/ g \in Cancels /\ busRules' = busRules \ {WatchOf[g]}
  BY <1>2 DEF BusServes
<1>4. CASE busRules' = busRules
  BY <1>0, <1>4 DEF RuleInv, LockInv, OwnedRules, InForce, Withdrawn, Cancelling, CancelFailed, TakingBack
<1>5. ASSUME g \in Watches, busRules' = busRules \union {g} PROVE RuleInv'
  <2>1. pc[g] = "addingMatch"
    BY <1>2, <1>5 DEF TypeOK, WatchPcs, Waiting
  <2>2. g \in signalMatchRules /\ g \notin closed /\ \A k \in Cancels : pc[k] = "toClose" => WatchOf[k] # g
    BY <1>5, <2>1 DEF ClosedInv, TakenOutInv, QuietInv
  <2> QED
    BY <1>0, <1>5, <2>1, <2>2
       DEF RuleInv, LockInv, OwnedRules, InForce, Withdrawn, Cancelling, CancelFailed, TakingBack
<1>6. ASSUME g \in Cancels, busRules' = busRules \ {WatchOf[g]} PROVE RuleInv'
  <2>1. Cancelling(WatchOf[g])
    BY <1>2, <1>6 DEF Cancelling, Waiting
  <2> QED
    BY <1>0, <1>6, <2>1
       DEF RuleInv, LockInv, OwnedRules, InForce, Withdrawn, Cancelling, CancelFailed, TakingBack
<1> QED
  BY <1>3, <1>4, <1>5, <1>6

LEMMA StepRules ==
  ASSUME TypeOK, ClosedInv, CallInv, RuleInv, [Next]_vars
  PROVE  RuleInv'
<1>1. CASE UNCHANGED <<pc, signalMatchRules, lock, closed, busRules>>
  BY <1>1 DEF RuleInv, LockInv, OwnedRules, InForce, Withdrawn, Cancelling, CancelFailed, TakingBack
<1>2. ASSUME \/ UNCHANGED vars \/ LoopStep \/ Close
             \/ \E s \in Signals : Emit(s)
             \/ \E w \in Watches : PumpReceives(w)
      PROVE  UNCHANGED <<pc, signalMatchRules, lock, closed, busRules>>
  BY <1>2 DEF vars, LoopStep, ReadMessage, DispatchReply, DispatchSignal, NextCallback, ReadFails,
              Close, Emit, PumpReceives, watchVars, busVars
<1> QED
  BY <1>1, <1>2, WatcherRules, CancelRules, ServeRules DEF Next

\* The calls under way and the rules at the bus, in every state.
THEOREM RulesOwned == SafeSpec => [](CallInv /\ RuleInv)
<1>1. TypeOK /\ ClosedInv /\ (CallInv /\ RuleInv) /\ [Next]_vars => (CallInv /\ RuleInv)'
  BY StepCalls, StepRules
<1> QED
  BY <1>1, InitRuled, RoundTripQuiets, TypeCorrect, PTL DEF SafeSpec

\* The bus's rules and the connection's table agree, but for what a Cancel is
\* about to take back and a rule the bus has refused to remove.
THEOREM RulesAgreed == SafeSpec => []RulesAgree
<1>1. TypeOK /\ ClosedInv /\ CallInv /\ RuleInv => RulesAgree
  BY DEF TypeOK, ClosedInv, QuietInv, RuleInv, OwnedRules, InForce, Withdrawn, RulesAgree, TakingBack
<1> QED
  BY <1>1, RulesOwned, RoundTripQuiets, TypeCorrect, PTL

(***************************************************************************)
(* NoSignalLost.                                                           *)
(***************************************************************************)
\* A signal is due to a watch whose rule accepts it, once WatchSignal returned.
DueInv == \A w \in Watches : \A s \in due[w] : w \in MatchedBy[s] /\ pc[w] = "watching"

\* Neither WatchSignal's return nor the beginning of a Cancel is undone.
LEMMA NoWayBack ==
  ASSUME TypeOK, [Next]_vars
  PROVE  /\ \A w \in Watches : pc[w] = "watching" => pc'[w] = "watching"
         /\ \A w \in Watches : Cancelling(w) => Cancelling(w)'
<1>0. /\ pc \in [Goroutines -> WatchPcs \union CancelPcs] /\ Watches \intersect Cancels = {}
      /\ \A w \in Watches : w \in Goroutines
      /\ \A k \in Cancels : k \in Goroutines
  BY SignalAssumption DEF TypeOK, Goroutines
<1> SUFFICES /\ \A w \in Watches : pc[w] = "watching" => pc'[w] = "watching"
             /\ \A k \in Cancels : pc[k] \notin {"new", "received"} => pc'[k] \notin {"new", "received"}
  BY DEF Cancelling
<1>1. CASE pc' = pc
  BY <1>1
<1>2. ASSUME NEW w \in Watches, WatchSignal(w) \/ WatcherStep(w)
      PROVE  pc[w] # "watching" /\ \A g \in Goroutines : g # w => pc'[g] = pc[g]
  BY <1>0, <1>2 DEF WatchSignal, WatcherStep, AddMatch, Ask, AddMatchReturns, AddMatchFails, Goto
<1>3. ASSUME NEW k \in Cancels, CallCancel(k) \/ CancelStep(k) \/ ReceivesOne(k)
      PROVE  /\ \A g \in Goroutines : g # k => pc'[g] = pc[g]
             /\ pc[k] \notin {"new", "received"} => pc'[k] \notin {"new", "received"}
  BY <1>0, <1>3 DEF CallCancel, CancelStep, CancelAgain, TakeOut, RemoveMatch, Ask,
         RemoveMatchReturns, RemoveMatchFails, CloseChannel, ReceivesOne, Goto
<1>4. ASSUME \/ UNCHANGED vars \/ LoopStep \/ Close \/ BusServes
             \/ \E s \in Signals : Emit(s)
             \/ \E w \in Watches : PumpReceives(w)
      PROVE  pc' = pc
  BY <1>4 DEF vars, LoopStep, ReadMessage, DispatchReply, DispatchSignal, NextCallback, ReadFails,
              Close, BusServes, Emit, PumpReceives, watchVars
<1>5. CASE \E w \in Watches : WatchSignal(w) \/ WatcherStep(w)
  BY <1>0, <1>2, <1>5
<1>6. CASE \E k \in Cancels : CallCancel(k) \/ CancelStep(k) \/ ReceivesOne(k)
  BY <1>0, <1>3, <1>6
<1> QED
  BY <1>1, <1>4, <1>5, <1>6 DEF Next

\* What becomes due to a watch is being emitted.
LEMMA DueWhenEmitted ==
  ASSUME TypeOK, DueInv, [Next]_vars
  PROVE  /\ \A w \in Watches : \A s \in due'[w] \ due[w] :
              Emit(s) /\ w \in MatchedBy[s] /\ pc[w] = "watching" /\ ~ Cancelling(w)
         /\ DueInv'
<1>1. due' = due \/ \E s \in Signals : Emit(s)
  BY DEF Next, vars, WatchSignal, WatcherStep, AddMatch, AddMatchReturns, AddMatchFails, CallCancel,
         CancelStep, CancelAgain, TakeOut, RemoveMatch, Ask, RemoveMatchReturns, RemoveMatchFails,
         CloseChannel, ReceivesOne, LoopStep, ReadMessage, DispatchReply, DispatchSignal,
         NextCallback, ReadFails, Close, BusServes, PumpReceives, busVars
<1>2. ASSUME NEW t \in Signals, Emit(t), NEW w \in Watches, NEW s \in due'[w] \ due[w]
      PROVE  s = t /\ w \in MatchedBy[t] /\ pc[w] = "watching" /\ ~ Cancelling(w)
  BY <1>2 DEF Emit
<1>3. \A w \in Watches : \A s \in due'[w] \ due[w] :
         Emit(s) /\ w \in MatchedBy[s] /\ pc[w] = "watching" /\ ~ Cancelling(w)
  BY <1>1, <1>2
<1>4. DueInv'
  BY <1>3, NoWayBack DEF DueInv
<1> QED
  BY <1>3, <1>4

\* A signal that is in the loop for a watch stays there until it is received.
LEMMA StaysInLoop ==
  ASSUME TypeOK, ClosedInv, RuleInv, DueInv, [Next]_vars,
         NEW w \in Watches, NEW s \in due[w], ~ Cancelling(w), InLoop(w, s)
  PROVE  s \in received'[w] \/ InLoop(w, s)'
<1> DEFINE m == [type |-> "signal", signal |-> s]
<1>0. /\ w \in MatchedBy[s] /\ w \in signalMatchRules /\ m.type = "signal" /\ m.signal = s
      /\ fromBus \in Seq(Inbound) /\ received \in [Watches -> SUBSET Signals] /\ "signal" # "reply"
  BY DEF DueInv, RuleInv, InForce, TypeOK
<1>1. ASSUME UNCHANGED loopVars,
             fromBus' = fromBus \/ \E r \in Inbound : fromBus' = Append(fromBus, r)
      PROVE  InLoop(w, s)'
  <2>1. \A i \in 1..Len(fromBus) : i \in 1..Len(fromBus') /\ fromBus'[i] = fromBus[i]
    BY <1>0, <1>1
  <2> QED
    BY <1>1, <2>1 DEF InLoop, loopVars
<1>2. ASSUME \/ UNCHANGED vars \/ Close
             \/ \E v \in Watches : WatchSignal(v) \/ WatcherStep(v)
             \/ \E k \in Cancels : CallCancel(k) \/ CancelStep(k)
      PROVE  UNCHANGED loopVars /\ fromBus' = fromBus
  BY <1>2 DEF vars, WatchSignal, WatcherStep, AddMatch, AddMatchReturns, AddMatchFails, CallCancel,
         CancelStep, CancelAgain, TakeOut, RemoveMatch, Ask, RemoveMatchReturns, RemoveMatchFails,
         CloseChannel, Close
<1>3. ASSUME BusServes \/ \E t \in Signals : Emit(t)
      PROVE  UNCHANGED loopVars /\ (fromBus' = fromBus \/ \E r \in Inbound : fromBus' = Append(fromBus, r))
  <2>1. CASE BusServes
    <3>1. toBus \in Seq(Call) /\ toBus # <<>>
      BY <2>1 DEF BusServes, TypeOK
    <3>2. Head(toBus).by \in Goroutines
      BY <3>1, CallsAfterTaking DEF Call, Goroutines
    <3>3. \A says \in {"ok", "error"} : [type |-> "reply", to |-> Head(toBus).by, says |-> says] \in Inbound
      BY <3>2 DEF Inbound
    <3> QED
      BY <2>1, <3>3 DEF BusServes, Replies
  <2>2. CASE \E t \in Signals : Emit(t)
    BY <2>2 DEF Emit, Inbound
  <2> QED
    BY <1>3, <2>1, <2>2
<1>4. CASE ReadMessage
  <2>1. /\ loopPc = "read" /\ loopPc' = "dispatch" /\ fromBus # <<>>
        /\ loopMsg' = Head(fromBus) /\ fromBus' = Tail(fromBus)
    BY <1>4 DEF ReadMessage
  <2>2. PICK i \in 1..Len(fromBus) : fromBus[i] = m
    BY <2>1 DEF InLoop
  <2>3. CASE i = 1
    BY <1>0, <2>1, <2>2, <2>3 DEF InLoop
  <2>4. CASE i # 1
    <3>1. i - 1 \in 1..Len(fromBus') /\ fromBus'[i - 1] = fromBus[i]
      BY <1>0, <2>1, <2>2, <2>4
    <3> QED
      BY <2>2, <3>1 DEF InLoop
  <2> QED
    BY <2>3, <2>4
<1>5. ASSUME fromBus' = fromBus, \E i \in 1..Len(fromBus) : fromBus[i] = m PROVE InLoop(w, s)'
  BY <1>5 DEF InLoop
<1>6. CASE DispatchReply \/ ReadFails
  <2>1. fromBus' = fromBus /\ \E i \in 1..Len(fromBus) : fromBus[i] = m
    BY <1>0, <1>6 DEF DispatchReply, ReadFails, InLoop
  <2> QED
    BY <1>5, <2>1
<1>7. CASE DispatchSignal
  <2>1. /\ loopPc = "dispatch" /\ loopPc' = "callbacks" /\ fromBus' = fromBus /\ loopMsg' = loopMsg
        /\ matches' = MatchedBy[loopMsg.signal] \intersect signalMatchRules
    BY <1>7 DEF DispatchSignal
  <2>2. CASE loopMsg = m
    BY <1>0, <2>1, <2>2 DEF InLoop
  <2> QED
    BY <1>5, <2>1, <2>2 DEF InLoop
<1>8. CASE NextCallback
  <2>1. /\ loopPc = "callbacks" /\ fromBus' = fromBus /\ loopMsg' = loopMsg
        /\ w \in matches => loopPc' = "send" /\ (w \in matches' \/ loopWatch' = w)
    BY <1>8 DEF NextCallback
  <2>2. CASE w \in matches /\ loopMsg.signal = s
    BY <2>1, <2>2 DEF InLoop
  <2> QED
    BY <1>5, <2>1, <2>2 DEF InLoop
<1>9. ASSUME NEW v \in Watches,
             loopPc = "send", loopWatch = v, loopPc' = "callbacks",
             UNCHANGED <<loopMsg, matches, fromBus>>,
             received' = [received EXCEPT ![v] = @ \union {loopMsg.signal}]
      PROVE  s \in received'[w] \/ InLoop(w, s)'
  <2>1. CASE w \in matches /\ loopMsg.signal = s
    BY <1>9, <2>1 DEF InLoop
  <2>2. CASE w = v /\ loopMsg.signal = s
    BY <1>0, <1>9, <2>2
  <2> QED
    BY <1>5, <1>9, <2>1, <2>2 DEF InLoop
<1>10. CASE \E v \in Watches : PumpReceives(v)
  BY <1>9, <1>10 DEF PumpReceives
<1>11. CASE \E k \in Cancels : ReceivesOne(k)
  <2>1. \A k \in Cancels : WatchOf[k] \in Watches
    BY SignalAssumption
  <2> QED
    BY <1>9, <1>11, <2>1 DEF ReceivesOne
<1> QED
  BY <1>1, <1>2, <1>3, <1>4, <1>6, <1>7, <1>8, <1>10, <1>11 DEF Next, LoopStep

\* What has been received stays received.
LEMMA StaysReceived ==
  ASSUME TypeOK, [Next]_vars
  PROVE  \A w \in Watches : received[w] \subseteq received'[w]
<1>0. received \in [Watches -> SUBSET Signals] /\ \A k \in Cancels : WatchOf[k] \in Watches
  BY SignalAssumption DEF TypeOK
<1>1. CASE received' = received
  BY <1>1
<1>2. CASE \E v \in Watches : received' = [received EXCEPT ![v] = @ \union {loopMsg.signal}]
  BY <1>0, <1>2
<1>3. \/ received' = received
      \/ \E v \in Watches : PumpReceives(v)
      \/ \E k \in Cancels : ReceivesOne(k)
  BY DEF Next, vars, WatchSignal, WatcherStep, AddMatch, AddMatchReturns, AddMatchFails, CallCancel,
         CancelStep, CancelAgain, TakeOut, RemoveMatch, Ask, RemoveMatchReturns, RemoveMatchFails,
         CloseChannel, LoopStep, ReadMessage, DispatchReply, DispatchSignal,
         NextCallback, ReadFails, Close, BusServes, Emit, busVars
<1> QED
  BY <1>0, <1>1, <1>2, <1>3 DEF PumpReceives, ReceivesOne

LEMMA StepLost ==
  ASSUME TypeOK, ClosedInv, RuleInv, DueInv, NoSignalLost, [Next]_vars
  PROVE  NoSignalLost'
<1> SUFFICES ASSUME NEW w \in Watches, NEW s \in due'[w], ~ Cancelling(w)'
             PROVE  s \in received'[w] \/ InLoop(w, s)'
  BY DEF NoSignalLost
<1>1. ~ Cancelling(w)
  BY NoWayBack
<1>2. CASE s \in due[w]
  BY <1>1, <1>2, StaysInLoop, StaysReceived DEF NoSignalLost
<1>3. CASE s \notin due[w]
  <2>1. Emit(s) /\ w \in MatchedBy[s] /\ pc[w] = "watching"
    BY <1>3, DueWhenEmitted
  <2>2. w \in busRules
    BY <1>1, <2>1 DEF RuleInv, InForce
  <2>3. fromBus' = Append(fromBus, [type |-> "signal", signal |-> s]) /\ fromBus \in Seq(Inbound)
    BY <2>1, <2>2 DEF Emit, TypeOK
  <2>4. Len(fromBus') \in 1..Len(fromBus') /\ fromBus'[Len(fromBus')] = [type |-> "signal", signal |-> s]
    BY <2>3
  <2> QED
    BY <2>4 DEF InLoop
<1> QED
  BY <1>2, <1>3

\* A signal emitted while a watch stands is received or still under way to it:
\* the table and the bus's rules contain every watch that WatchSignal returned,
\* and the loop runs the callbacks of everything it found.
THEOREM SignalsKept == SafeSpec => []NoSignalLost
<1>1. Init => DueInv /\ NoSignalLost
  BY DEF Init, DueInv, NoSignalLost
<1>2. TypeOK /\ ClosedInv /\ RuleInv /\ (DueInv /\ NoSignalLost) /\ [Next]_vars => (DueInv /\ NoSignalLost)'
  BY StepLost, DueWhenEmitted
<1> QED
  BY <1>1, <1>2, RulesOwned, RoundTripQuiets, TypeCorrect, PTL DEF SafeSpec

(***************************************************************************)
(* What is stuck stays stuck.                                              *)
(***************************************************************************)
LEMMA WatcherStuck ==
  ASSUME TypeOK, NEW w \in Watches, WatchSignal(w) \/ WatcherStep(w), LoopStuck
  PROVE  LoopStuck'
<1>0. w \in Goroutines /\ loopWatch \in Watches /\ loopWatch \in Goroutines
      /\ Cancels \subseteq Goroutines /\ w \notin Cancels
      /\ pc \in [Goroutines -> WatchPcs \union CancelPcs]
      /\ answer \in [Goroutines -> {"ok", "error", None}]
      /\ None \notin {"ok", "error"}
  BY SignalAssumption DEF Goroutines, LoopStuck, TypeOK
<1>1. /\ loopPc' = loopPc /\ loopWatch' = loopWatch
      /\ \A g \in Goroutines \ {w} : pc'[g] = pc[g] /\ answer'[g] = answer[g]
  BY <1>0 DEF WatchSignal, WatcherStep, AddMatch, AddMatchReturns, AddMatchFails, Ask,
       Goto, AskFails, Told, loopVars
<1>2. CASE loopWatch \notin Pumped /\ \A k \in Cancels : WatchOf[k] = loopWatch => pc[k] # "new"
  BY <1>0, <1>1, <1>2 DEF LoopStuck
<1>3. CASE loopWatch # w
  BY <1>0, <1>1, <1>3 DEF LoopStuck
<1>4. CASE loopWatch = w /\ pc[w] \in {"toAddMatch", "addingMatch"} /\ answer[w] = None
  <2>1. \/ pc'[w] = "addingMatch" /\ answer'[w] = None
        \/ pc'[w] = "failed"
    BY <1>0, <1>4 DEF WatchSignal, WatcherStep, AddMatch, AddMatchReturns, AddMatchFails,
         Ask, Goto, AskFails, Told
  <2> QED
    BY <1>1, <1>4, <2>1 DEF LoopStuck
<1>5. CASE loopWatch = w /\ pc[w] = "failed"
  BY <1>5 DEF WatchSignal, WatcherStep, AddMatch, AddMatchReturns, AddMatchFails, Ask, Goto
<1> QED
  BY <1>2, <1>3, <1>4, <1>5 DEF LoopStuck

LEMMA CancelStuck ==
  ASSUME TypeOK, NEW k \in Cancels, CallCancel(k) \/ CancelStep(k), LoopStuck
  PROVE  LoopStuck'
<1>0. k \in Goroutines /\ loopWatch \in Watches /\ loopWatch \in Goroutines
      /\ Cancels \subseteq Goroutines /\ loopWatch # k
      /\ pc \in [Goroutines -> WatchPcs \union CancelPcs]
      /\ answer \in [Goroutines -> {"ok", "error", None}]
  BY SignalAssumption DEF Goroutines, LoopStuck, TypeOK
<1>1. /\ loopPc' = loopPc /\ loopWatch' = loopWatch /\ pc'[k] # "new"
      /\ \A g \in Goroutines \ {k} : pc'[g] = pc[g] /\ answer'[g] = answer[g]
  BY <1>0 DEF CallCancel, CancelStep, CancelAgain, TakeOut, RemoveMatch, RemoveMatchReturns,
       RemoveMatchFails, CloseChannel, Ask, Goto, AskFails, Told, loopVars
<1> QED
  BY <1>0, <1>1 DEF LoopStuck

LEMMA StepStuck == TypeOK /\ [Next]_vars => [LoopStuck => LoopStuck']_vars
<1> SUFFICES ASSUME TypeOK, Next, LoopStuck PROVE LoopStuck'
  BY DEF vars
<1>1. ASSUME NEW w \in Watches, PumpReceives(w) PROVE FALSE
  BY <1>1, SignalAssumption DEF PumpReceives, LoopStuck
<1>2. ASSUME NEW k \in Cancels, ReceivesOne(k) PROVE FALSE
  BY <1>2, SignalAssumption DEF ReceivesOne, LoopStuck, Goto
<1>3. CASE LoopStep
  BY <1>3 DEF LoopStep, ReadMessage, DispatchReply, DispatchSignal, NextCallback, ReadFails,
       LoopStuck
<1>4. CASE Close \/ BusServes \/ \E s \in Signals : Emit(s)
  BY <1>4 DEF Close, BusServes, Emit, LoopStuck, watchVars, loopVars
<1> QED
  BY <1>1, <1>2, <1>3, <1>4, WatcherStuck, CancelStuck DEF Next

\* Once the loop holds a signal for a watch nobody can receive from it never goes on:
\* the one call that could end the wait gets its answer from the loop alone.
THEOREM LoopStuckForGood == SafeSpec => [][LoopStuck => LoopStuck']_vars
  BY StepStuck, TypeCorrect, PTL DEF SafeSpec

=============================================================================
