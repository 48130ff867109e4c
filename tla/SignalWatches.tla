--------------------------- MODULE SignalWatches ---------------------------
(***************************************************************************)
(* Watching signals (signal.go): goroutines that call WatchSignal and      *)
(* SignalWatch.Cancel, the receive loop that runs the callbacks, and the   *)
(* match rules kept by the message bus.                                    *)
(*                                                                         *)
(* The rules here name no sender but the bus, so a SignalWatch has no name *)
(* watch; then only Cancel calls cancel, and the lock and the flag of the  *)
(* inner signalWatch add nothing to those of the SignalWatch.              *)
(*                                                                         *)
(* The table of watches is a set, and a signal is matched by the watches   *)
(* it is for: module SignalWatchTable shows that FindMatches and Remove    *)
(* behave so.  AddMatch and RemoveMatch are calls over the connection:     *)
(* module Connection shows that a call gets its own answer, in the order   *)
(* in which the bus sent it.                                               *)
(***************************************************************************)
EXTENDS Integers, Sequences, FiniteSets

CONSTANTS
  Watches,    \* executions of WatchSignal, and the watches they return
  Cancels,    \* executions of SignalWatch.Cancel
  WatchOf,    \* the watch each of them cancels
  Pumped,     \* watches with a goroutine that ranges over C; of any other the
              \* goroutine that cancels it first receives one signal from C
  Signals,    \* signals other clients emit, each once
  MatchedBy,  \* the watches whose rules accept a signal
  Faults,     \* the bus may refuse to add a rule ("refuse") or to remove one
              \* ("keep"), the application may close the connection ("close")
  None

ASSUME SignalAssumption ==
  /\ Watches \intersect Cancels = {}
  /\ WatchOf \in [Cancels -> Watches] /\ Pumped \subseteq Watches
  /\ MatchedBy \in [Signals -> SUBSET Watches]
  /\ Faults \subseteq {"refuse", "keep", "close"}
  /\ None \notin Watches \union Cancels \union Signals \union {"ok", "error"}

\* A goroutine is named for the call it executes.
Goroutines == Watches \union Cancels

VARIABLES
  pc,               \* where each goroutine is
  signalMatchRules, \* Connection.signalMatchRules, as a set
  lock,             \* SignalWatch.lock: the call of Cancel that holds it
  closed,           \* the watches whose channel C is closed
  answer,           \* what the reply to a goroutine's call says
  loopPc,           \* where the receive loop is
  loopMsg,          \* the message it dispatches
  matches,          \* what FindMatches returned, less the callbacks done
  loopWatch,        \* the watch whose callback is running
  conn,             \* "up" or "closed"
  toBus, fromBus,   \* calls to the bus and what the bus sends, in order
  busRules,         \* the watches whose rules the bus keeps
  emitted,          \* the signals that have been emitted
  due,              \* history: the signals emitted while a watch was watching
  received          \* the signals received from a watch's channel

watchVars == <<pc, signalMatchRules, lock, closed>>
loopVars  == <<loopPc, loopMsg, matches, loopWatch>>
busVars   == <<busRules, emitted, due>>
vars == <<watchVars, answer, loopVars, conn, toBus, fromBus, busVars, received>>

Init ==
  /\ pc = [g \in Goroutines |-> "new"]
  /\ signalMatchRules = {}
  /\ lock = [w \in Watches |-> None]
  /\ closed = {}
  /\ answer = [g \in Goroutines |-> None]
  /\ loopPc = "read" /\ loopMsg = None /\ matches = {} /\ loopWatch = None
  /\ conn = "up"
  /\ toBus = <<>> /\ fromBus = <<>>
  /\ busRules = {} /\ emitted = {}
  /\ due = [w \in Watches |-> {}]
  /\ received = [w \in Watches |-> {}]

Goto(g, from, to) == pc[g] = from /\ pc' = [pc EXCEPT ![g] = to]

(***************************************************************************)
(* Calls to the bus.                                                       *)
(***************************************************************************)
\* The call is written ...
Ask(g, method, from, to) ==
  /\ conn = "up"
  /\ Goto(g, from, to)
  /\ toBus' = Append(toBus, [method |-> method, by |-> g])
  /\ UNCHANGED <<signalMatchRules, lock, closed, answer, loopVars, conn, fromBus,
                 busVars, received>>

\* ... and returns an error at once if it cannot be.
AskFails(g) == conn # "up" /\ UNCHANGED answer
Told(g, what) == answer[g] = what /\ answer' = [answer EXCEPT ![g] = None]

(***************************************************************************)
(* WatchSignal.                                                            *)
(***************************************************************************)
\* watchSignal puts the watch in the table before it asks the bus for signals.
WatchSignal(w) ==
  /\ Goto(w, "new", "toAddMatch")
  /\ signalMatchRules' = signalMatchRules \union {w}
  /\ UNCHANGED <<lock, closed, answer, loopVars, conn, toBus, fromBus, busVars, received>>

AddMatch(w) == Ask(w, "AddMatch", "toAddMatch", "addingMatch")

AddMatchReturns(w) ==
  /\ Goto(w, "addingMatch", "watching")
  /\ Told(w, "ok")
  /\ UNCHANGED <<signalMatchRules, lock, closed, loopVars, conn, toBus, fromBus,
                 busVars, received>>

\* Mutated form: the watch stays in the table.
AddMatchFails_KeepsWatch(w) ==
  /\ \/ Goto(w, "toAddMatch", "failed") /\ AskFails(w)
     \/ Goto(w, "addingMatch", "failed") /\ Told(w, "error")
  /\ UNCHANGED <<signalMatchRules, lock, closed, loopVars, conn, toBus, fromBus,
                 busVars, received>>

\* An error from AddMatch: the watch is taken out again and not returned.
AddMatchFails(w) ==
  /\ \/ Goto(w, "toAddMatch", "failed") /\ AskFails(w)
     \/ Goto(w, "addingMatch", "failed") /\ Told(w, "error")
  /\ signalMatchRules' = signalMatchRules \ {w}
  /\ UNCHANGED <<lock, closed, loopVars, conn, toBus, fromBus, busVars, received>>

(***************************************************************************)
(* SignalWatch.Cancel, called on a watch that WatchSignal has returned.    *)
(***************************************************************************)
CallCancel(k) ==
  /\ pc[WatchOf[k]] = "watching"
  /\ Goto(k, IF WatchOf[k] \in Pumped THEN "new" ELSE "received", "locking")
  /\ UNCHANGED <<signalMatchRules, lock, closed, answer, loopVars, conn, toBus, fromBus,
                 busVars, received>>

\* A watch that is cancelled already: nothing to do.
CancelAgain(k) ==
  /\ lock[WatchOf[k]] = None /\ WatchOf[k] \in closed
  /\ Goto(k, "locking", "returned")
  /\ UNCHANGED <<signalMatchRules, lock, closed, answer, loopVars, conn, toBus, fromBus,
                 busVars, received>>

\* Mutated form: the bus is not asked to drop the rule.
TakeOut_KeepsRule(k) ==
  LET w == WatchOf[k]
  IN  /\ lock[w] = None /\ w \notin closed
      /\ Goto(k, "locking", "toClose")
      /\ lock' = [lock EXCEPT ![w] = k]
      /\ signalMatchRules' = signalMatchRules \ {w}
      /\ UNCHANGED <<closed, answer, loopVars, conn, toBus, fromBus, busVars, received>>

\* Take the watch out of the table; if it was there, so is its rule at the bus.
TakeOut(k) ==
  LET w == WatchOf[k]
  IN  /\ lock[w] = None /\ w \notin closed
      /\ Goto(k, "locking", IF w \in signalMatchRules THEN "toRemoveMatch" ELSE "toClose")
      /\ lock' = [lock EXCEPT ![w] = k]
      /\ signalMatchRules' = signalMatchRules \ {w}
      /\ UNCHANGED <<closed, answer, loopVars, conn, toBus, fromBus, busVars, received>>

RemoveMatch(k) == Ask(k, "RemoveMatch", "toRemoveMatch", "removingMatch")

RemoveMatchReturns(k) ==
  /\ Goto(k, "removingMatch", "toClose")
  /\ Told(k, "ok")
  /\ UNCHANGED <<signalMatchRules, lock, closed, loopVars, conn, toBus, fromBus,
                 busVars, received>>

\* An error from RemoveMatch: the watch stays as it is, to be cancelled again.
RemoveMatchFails(k) ==
  /\ \/ Goto(k, "toRemoveMatch", "failed") /\ AskFails(k)
     \/ Goto(k, "removingMatch", "failed") /\ Told(k, "error")
  /\ lock' = [lock EXCEPT ![WatchOf[k]] = None]
  /\ UNCHANGED <<signalMatchRules, closed, loopVars, conn, toBus, fromBus, busVars, received>>

\* Mutated form: the deferred Unlock is missing.
CloseChannel_KeepsLock(k) ==
  /\ Goto(k, "toClose", "returned")
  /\ closed' = closed \union {WatchOf[k]}
  /\ UNCHANGED <<signalMatchRules, lock, answer, loopVars, conn, toBus, fromBus,
                 busVars, received>>

CloseChannel(k) ==
  /\ Goto(k, "toClose", "returned")
  /\ closed' = closed \union {WatchOf[k]}
  /\ lock' = [lock EXCEPT ![WatchOf[k]] = None]
  /\ UNCHANGED <<signalMatchRules, answer, loopVars, conn, toBus, fromBus, busVars, received>>

(***************************************************************************)
(* The receive loop.                                                       *)
(***************************************************************************)
ReadMessage ==
  /\ loopPc = "read" /\ conn = "up" /\ fromBus # <<>>
  /\ loopPc' = "dispatch"
  /\ loopMsg' = Head(fromBus) /\ fromBus' = Tail(fromBus)
  /\ UNCHANGED <<watchVars, answer, matches, loopWatch, conn, toBus, busVars, received>>

\* A reply goes to the buffered channel of the goroutine that waits for it.
DispatchReply ==
  /\ loopPc = "dispatch" /\ loopMsg.type = "reply"
  /\ loopPc' = "read"
  /\ answer' = [answer EXCEPT ![loopMsg.to] = loopMsg.says]
  /\ UNCHANGED <<watchVars, loopMsg, matches, loopWatch, conn, toBus, fromBus, busVars, received>>

\* Mutated form: a signal that nobody watches is an error.
DispatchSignal_UnmatchedIsError ==
  /\ loopPc = "dispatch" /\ loopMsg.type = "signal"
  /\ matches' = MatchedBy[loopMsg.signal] \intersect signalMatchRules
  /\ loopPc' = IF matches' = {} THEN "stopped" ELSE "callbacks"
  /\ UNCHANGED <<watchVars, answer, loopMsg, loopWatch, conn, toBus, fromBus, busVars, received>>

\* The matches of a signal are looked up under handlerMutex ...
DispatchSignal ==
  /\ loopPc = "dispatch" /\ loopMsg.type = "signal"
  /\ matches' = MatchedBy[loopMsg.signal] \intersect signalMatchRules
  /\ loopPc' = "callbacks"
  /\ UNCHANGED <<watchVars, answer, loopMsg, loopWatch, conn, toBus, fromBus, busVars, received>>

\* Mutated form: the loop ends when the first callback has returned.
NextCallback_FirstOnly ==
  /\ loopPc = "callbacks"
  /\ IF matches = {}
     THEN loopPc' = "read" /\ UNCHANGED <<matches, loopWatch>>
     ELSE /\ loopWatch' \in matches /\ matches' = {}
          /\ loopPc' = "send"
  /\ UNCHANGED <<watchVars, answer, loopMsg, conn, toBus, fromBus, busVars, received>>

\* ... and their callbacks run one after the other, without it: each of them
\* sends on an unbuffered channel and waits for a receiver.
NextCallback ==
  /\ loopPc = "callbacks"
  /\ IF matches = {}
     THEN loopPc' = "read" /\ UNCHANGED <<matches, loopWatch>>
     ELSE /\ loopWatch' \in matches /\ matches' = matches \ {loopWatch'}
          /\ loopPc' = "send"
  /\ UNCHANGED <<watchVars, answer, loopMsg, conn, toBus, fromBus, busVars, received>>

\* The application has the channel once WatchSignal has returned.
PumpReceives(w) ==
  /\ loopPc = "send" /\ loopWatch = w /\ w \notin closed
  /\ w \in Pumped /\ pc[w] = "watching"
  /\ received' = [received EXCEPT ![w] = @ \union {loopMsg.signal}]
  /\ loopPc' = "callbacks"
  /\ UNCHANGED <<watchVars, answer, loopMsg, matches, loopWatch, conn, toBus, fromBus, busVars>>

\* One receive before Cancel, by the goroutine that will call it.
ReceivesOne(k) ==
  LET w == WatchOf[k]
  IN  /\ loopPc = "send" /\ loopWatch = w /\ w \notin closed
      /\ w \notin Pumped /\ pc[w] = "watching"
      /\ Goto(k, "new", "received")
      /\ received' = [received EXCEPT ![w] = @ \union {loopMsg.signal}]
      /\ loopPc' = "callbacks"
      /\ UNCHANGED <<signalMatchRules, lock, closed, answer, loopMsg, matches, loopWatch,
                     conn, toBus, fromBus, busVars>>

\* readMessage fails once the connection is closed.
ReadFails ==
  /\ loopPc = "read" /\ conn # "up"
  /\ loopPc' = "stopped"
  /\ UNCHANGED <<watchVars, answer, loopMsg, matches, loopWatch, conn, toBus, fromBus,
                 busVars, received>>

Close ==
  /\ conn = "up" /\ "close" \in Faults
  /\ conn' = "closed"
  /\ UNCHANGED <<watchVars, answer, loopVars, toBus, fromBus, busVars, received>>

(***************************************************************************)
(* The bus.                                                                *)
(***************************************************************************)
Replies(g, says) == fromBus' = Append(fromBus, [type |-> "reply", to |-> g, says |-> says])

BusServes ==
  LET call == Head(toBus)
  IN  /\ conn = "up" /\ toBus # <<>>
      /\ toBus' = Tail(toBus)
      /\ \/ call.method = "AddMatch" /\ Replies(call.by, "ok")
            /\ busRules' = busRules \union {call.by}
         \/ call.method = "AddMatch" /\ "refuse" \in Faults
            /\ Replies(call.by, "error") /\ UNCHANGED busRules
         \/ call.method = "RemoveMatch" /\ Replies(call.by, "ok")
            /\ busRules' = busRules \ {WatchOf[call.by]}
         \/ call.method = "RemoveMatch" /\ "keep" \in Faults
            /\ Replies(call.by, "error") /\ UNCHANGED busRules
      /\ UNCHANGED <<watchVars, answer, loopVars, conn, emitted, due, received>>

Cancelling(w) == \E k \in Cancels : WatchOf[k] = w /\ pc[k] \notin {"new", "received"}

\* Another client emits a signal; the bus passes it on, once, if a rule asks for it.
Emit(s) ==
  /\ conn = "up" /\ s \notin emitted
  /\ emitted' = emitted \union {s}
  /\ fromBus' = IF busRules \intersect MatchedBy[s] # {}
                THEN Append(fromBus, [type |-> "signal", signal |-> s]) ELSE fromBus
  /\ due' = [w \in Watches |->
               IF w \in MatchedBy[s] /\ pc[w] = "watching" /\ ~ Cancelling(w)
               THEN due[w] \union {s} ELSE due[w]]
  /\ UNCHANGED <<watchVars, answer, loopVars, conn, toBus, busRules, received>>

WatcherStep(w) == AddMatch(w) \/ AddMatchReturns(w) \/ AddMatchFails(w)

CancelStep(k) ==
  \/ CancelAgain(k) \/ TakeOut(k) \/ RemoveMatch(k)
  \/ RemoveMatchReturns(k) \/ RemoveMatchFails(k) \/ CloseChannel(k)

LoopStep == ReadMessage \/ DispatchReply \/ DispatchSignal \/ NextCallback \/ ReadFails

Next ==
  \/ \E w \in Watches : WatchSignal(w) \/ WatcherStep(w) \/ PumpReceives(w)
  \/ \E k \in Cancels : CallCancel(k) \/ CancelStep(k) \/ ReceivesOne(k)
  \/ LoopStep \/ Close
  \/ BusServes \/ \E s \in Signals : Emit(s)

(***************************************************************************)
(* Fairness: goroutines that can run do, the receiver of a channel takes   *)
(* what is sent to it, who has received the one signal it wanted goes on   *)
(* to cancel, and the bus answers.  Nothing makes the application watch,   *)
(* or cancel a watch it pumps, or a client emit.                           *)
(***************************************************************************)
Fairness ==
  /\ \A w \in Watches : WF_vars(WatcherStep(w)) /\ WF_vars(PumpReceives(w))
  /\ \A k \in Cancels : /\ WF_vars(CancelStep(k)) /\ WF_vars(ReceivesOne(k))
                        /\ WatchOf[k] \notin Pumped => WF_vars(CallCancel(k))
  /\ WF_vars(LoopStep) /\ WF_vars(BusServes)

SafeSpec == Init /\ [][Next]_vars
Spec == SafeSpec /\ Fairness

(***************************************************************************)
(* Type invariant.                                                         *)
(***************************************************************************)
WatchPcs  == {"new", "toAddMatch", "addingMatch", "watching", "failed"}
CancelPcs == {"new", "received", "locking", "toRemoveMatch", "removingMatch", "toClose",
              "returned", "failed"}
Call      == [method : {"AddMatch"}, by : Watches] \union [method : {"RemoveMatch"}, by : Cancels]
Inbound   == [type : {"reply"}, to : Goroutines, says : {"ok", "error"}]
                \union [type : {"signal"}, signal : Signals]

TypeOK ==
  /\ pc \in [Goroutines -> WatchPcs \union CancelPcs]
  /\ \A w \in Watches : pc[w] \in WatchPcs
  /\ \A k \in Cancels : pc[k] \in CancelPcs
  /\ signalMatchRules \in SUBSET Watches
  /\ lock \in [Watches -> Cancels \union {None}]
  /\ closed \in SUBSET Watches
  /\ answer \in [Goroutines -> {"ok", "error", None}]
  /\ loopPc \in {"read", "dispatch", "callbacks", "send", "stopped"}
  /\ loopMsg \in Inbound \union {None}
  /\ loopPc \in {"dispatch", "callbacks", "send"} => loopMsg \in Inbound
  /\ loopPc \in {"callbacks", "send"} => loopMsg.type = "signal"
  /\ matches \in SUBSET Watches
  /\ loopWatch \in Watches \union {None}
  /\ loopPc = "send" => loopWatch \in Watches
  /\ conn \in {"up", "closed"}
  /\ toBus \in Seq(Call) /\ fromBus \in Seq(Inbound)
  /\ busRules \in SUBSET Watches /\ emitted \in SUBSET Signals
  /\ due \in [Watches -> SUBSET Signals]
  /\ received \in [Watches -> SUBSET Signals]

(***************************************************************************)
(* Safety.                                                                 *)
(***************************************************************************)
CancelFailed(w) == \E k \in Cancels : WatchOf[k] = w /\ pc[k] = "failed"
Excused(w) == conn # "up" /\ CancelFailed(w)

\* The callback of a watch never sends on its closed channel, which would panic
\* in the receive loop: by the time Cancel closes C, the round trip of
\* RemoveMatch has pushed every callback that was looked up before out of the
\* loop.  The one exception is a Cancel that could not write RemoveMatch to a
\* dead connection, and is called again: the watch is out of the table, so the
\* second call closes C without a round trip.
NoSendOnClosed ==
  loopPc = "send" /\ loopWatch \in closed => Excused(loopWatch)

InLoop(w, s) ==
  \/ \E i \in 1..Len(fromBus) : fromBus[i] = [type |-> "signal", signal |-> s]
  \/ loopPc = "dispatch" /\ loopMsg = [type |-> "signal", signal |-> s]
  \/ /\ loopPc \in {"callbacks", "send"} /\ loopMsg.signal = s
     /\ w \in matches \/ (loopPc = "send" /\ loopWatch = w)

\* A signal emitted after WatchSignal has returned is received, or is still on
\* its way to the watch, unless the watch is being cancelled: the table, the
\* bus's rules and the callbacks leave no gap it could fall into.
NoSignalLost ==
  \A w \in Watches : \A s \in due[w] : s \in received[w] \/ InLoop(w, s) \/ Cancelling(w)

\* The bus keeps a rule only while its watch is in the table or a Cancel is
\* about to take the rule back, and every watch that was returned and is not
\* being cancelled has its rule at the bus.  Only a rule the bus refused to remove
\* outlives its watch.
RulesAgree ==
  conn = "up" =>
    \A w \in Watches :
      /\ w \in busRules => \/ w \in signalMatchRules \/ CancelFailed(w)
                           \/ \E k \in Cancels : /\ WatchOf[k] = w
                                                 /\ pc[k] \in {"toRemoveMatch", "removingMatch"}
      /\ pc[w] = "watching" /\ ~ Cancelling(w) => w \in busRules \intersect signalMatchRules
      /\ pc[w] = "failed" \/ w \in closed =>
           w \notin signalMatchRules /\ (w \in busRules => CancelFailed(w))

(***************************************************************************)
(* Liveness, exactly: the one way for the receive loop to hang is to hold  *)
(* a signal for a watch whose channel nobody can receive from, because     *)
(* WatchSignal has not returned it (its reply is behind the signal), has   *)
(* failed, or because the only receiver has gone on to cancel.             *)
(***************************************************************************)
LoopStuck ==
  /\ loopPc = "send"
  /\ \/ pc[loopWatch] \in {"toAddMatch", "addingMatch"} /\ answer[loopWatch] = None
     \/ pc[loopWatch] = "failed"
     \/ loopWatch \notin Pumped
        /\ \A k \in Cancels : WatchOf[k] = loopWatch => pc[k] # "new"

Served == conn = "up" /\ ~ LoopStuck

\* WatchSignal returns: its AddMatch gets its reply.
WatchReturns ==
  \A w \in Watches : pc[w] # "new" ~> pc[w] \in {"watching", "failed"} \/ ~ Served

\* Cancel returns, as the tests expect of it.
CancelReturns ==
  \A k \in Cancels : pc[k] = "locking" ~> pc[k] \in {"returned", "failed"} \/ ~ Served

\* A signal a watch is due reaches the application.
SignalsReceived ==
  \A w \in Watches, s \in Signals :
    s \in due[w] ~> s \in received[w] \/ Cancelling(w) \/ ~ Served

(***************************************************************************)
(* The inductive invariant behind NoSendOnClosed.                          *)
(***************************************************************************)
\* No callback of the watch is pending in the receive loop, or a Cancel could
\* not make its round trip.
Still(w) == w \notin matches /\ ~ (loopPc = "send" /\ loopWatch = w)
Quiet(w) == Still(w) \/ Excused(w)

Begun(k) == pc[k] \notin {"new", "received", "locking"}

\* Who has begun to cancel has taken the watch out for good.
TakenOutInv ==
  /\ \A w \in Watches : pc[w] \in {"toAddMatch", "addingMatch"} => w \in signalMatchRules
  /\ \A k \in Cancels :
        /\ pc[k] # "new" => pc[WatchOf[k]] = "watching"
        /\ Begun(k) => WatchOf[k] \notin signalMatchRules

\* Only who has begun to cancel has a call of RemoveMatch or its reply under way.
RoundTripInv ==
  /\ \A i \in 1..Len(toBus) : toBus[i].by \in Cancels => Begun(toBus[i].by)
  /\ \A i \in 1..Len(fromBus) :
        fromBus[i].type = "reply" /\ fromBus[i].to \in Cancels => Begun(fromBus[i].to)
  /\ loopPc = "dispatch" /\ loopMsg.type = "reply" /\ loopMsg.to \in Cancels => Begun(loopMsg.to)
  /\ \A k \in Cancels : answer[k] # None => Begun(k)

\* When the reply has come through the loop, the loop is done with the watch.
QuietInv ==
  /\ loopPc \in {"read", "dispatch", "stopped"} => matches = {}
  /\ \A k \in Cancels : answer[k] # None \/ pc[k] = "toClose" => Quiet(WatchOf[k])
  /\ \A w \in Watches :
        pc[w] = "watching" /\ lock[w] = None => w \in signalMatchRules \/ Quiet(w)
  /\ \A w \in closed : pc[w] = "watching" /\ w \notin signalMatchRules /\ Quiet(w)

ClosedInv == TakenOutInv /\ RoundTripInv /\ QuietInv
=============================================================================
