----------------------------- MODULE Connection -----------------------------
(***************************************************************************)
(* One Connection of dbus.go: goroutines that send messages and wait for   *)
(* replies, the receive loop, the handlers of incoming method calls, and   *)
(* the message bus at the other end of the socket.                         *)
(*                                                                         *)
(* Every outgoing message has one goroutine that sends it, so a message    *)
(* and the program counter of its sender share a name: a call c is one     *)
(* execution of SendWithReply, a cast one execution of Send by the         *)
(* application, and a request r, once it is being answered, also names the *)
(* reply the connection sends to it.                                       *)
(*                                                                         *)
(* A critical section that neither blocks nor calls out (handlerMutex) is  *)
(* one step.  writeLock is held across two socket writes, so taking it,    *)
(* each write and the release are visible.  Signals are dispatched in      *)
(* module SignalWatches.                                                   *)
(***************************************************************************)
EXTENDS Integers, Sequences, FiniteSets, ObjectPaths

CONSTANTS
  Calls,        \* executions of SendWithReply
  Casts,        \* executions of Send with a method call whose reply nobody awaits
  Requests,     \* method calls other clients address to this connection
  PathOf,       \* the object path of each request
  PeerRequests, \* the requests of interface org.freedesktop.DBus.Peer
  Nested,       \* the call (or None) a handler makes before it answers a request
  Swallowed,    \* calls and casts whose replies, and requests which, a message
                \* filter maps to nil
  Bodiless,     \* the outgoing messages without arguments
  Repeated,     \* calls and casts whose replies a peer may send again
  Patterns,     \* the object path patterns the application may register
  SerialSpace,  \* number of values of a serial: 2^32 in the code
  Faults,       \* what may go wrong: the socket is closed ("close") or lost
                \* ("loss"), or what arrives is not a message ("malformed")
  None

Outgoing == Calls \union Casts \union Requests
Answerable == Calls \union Casts
NestedCalls == {Nested[r] : r \in Requests} \ {None}
Serials == 0..(SerialSpace - 1)

ASSUME ConnectionAssumption ==
  /\ Calls \intersect Casts = {} /\ Answerable \intersect Requests = {}
  /\ None \notin Outgoing /\ None \notin Patterns
  /\ PathOf \in [Requests -> Seq(STRING)] /\ Patterns \subseteq Seq(STRING)
  /\ PeerRequests \subseteq Requests
  /\ Nested \in [Requests -> Calls \union {None}]
  /\ Swallowed \subseteq Outgoing /\ Bodiless \subseteq Outgoing /\ Repeated \subseteq Answerable
  /\ SerialSpace \in Nat /\ SerialSpace > 1
  /\ Faults \subseteq {"close", "loss", "malformed"}

VARIABLES
  lastSerial,          \* Connection.lastSerial
  serial,              \* Message.serial of every outgoing message
  reused,              \* history: a serial was given out while it was in use
  phase,               \* where the goroutine that sends a message is
  methodCallReplies,   \* Connection.methodCallReplies: the waiter of a serial
  replyChan,           \* the buffered channel SendWithReply makes
  reply,               \* what SendWithReply returned
  writeLock,           \* the message whose sender holds Connection.writeLock
  objectPathHandlers,  \* the patterns in Connection.objectPathHandlers
  loopPc, loopMsg,     \* the receive loop and the message it dispatches
  loopChan,            \* the channel the receive loop is about to send to
  serving,             \* the request each handler goroutine is working on
  conn,                \* the socket: "up", "closed" by Close, "lost" by the peer
  outWire, inWire,     \* bytes written and not read by the bus, and back
  atBus, answered,     \* method calls the bus has read, and those answered
  requested            \* requests other clients have made

messageVars == <<lastSerial, serial, reused, phase>>
callVars    == <<methodCallReplies, replyChan, reply>>
loopVars    == <<loopPc, loopMsg, loopChan>>
busVars     == <<atBus, answered, requested>>
vars == <<messageVars, callVars, writeLock, objectPathHandlers, loopVars,
          serving, conn, outWire, inWire, busVars>>

Phases == {"new", "toRegister", "toWrite", "writing", "halfWritten", "written",
           "sent", "toUnregister", "returned", "failed"}

Frame   == [msg : Outgoing, part : {"header", "body"}]
Piece(m, part) == [msg |-> m, part |-> part]
\* What arrives is the reply to message id, or the incoming method call id.
Inbound == [type : {"reply"}, replySerial : Serials, id : Answerable]
             \union [type : {"call"}, replySerial : {0}, id : Requests]

Init ==
  /\ lastSerial = 0
  /\ serial = [m \in Outgoing |-> 0]
  /\ reused = FALSE
  /\ phase = [m \in Outgoing |-> "new"]
  /\ methodCallReplies = [s \in Serials |-> None]
  /\ replyChan = [c \in Calls |-> <<>>]
  /\ reply = [c \in Calls |-> None]
  /\ writeLock = None
  /\ objectPathHandlers = {}
  /\ loopPc = "read" /\ loopMsg = None /\ loopChan = None
  /\ serving = [p \in Patterns |-> None]
  /\ conn = "up"
  /\ outWire = <<>> /\ inWire = <<>>
  /\ atBus = {} /\ answered = {} /\ requested = {}

(***************************************************************************)
(* Sending a message.                                                      *)
(***************************************************************************)
Goto(m, from, to) == phase[m] = from /\ phase' = [phase EXCEPT ![m] = to]

Finished(m) == phase[m] \in {"sent", "returned", "failed"}

\* A handler goroutine sends its reply after the call it makes, if any.
MayStart(m) ==
  \/ m \in Casts \union (Calls \ NestedCalls)
  \/ \E p \in Patterns : serving[p] \in Requests /\ m = Nested[serving[p]]
  \/ \E p \in Patterns :
       /\ serving[p] = m
       /\ Nested[m] # None => phase[Nested[m]] \in {"returned", "failed"}
  \/ loopPc = "reply" /\ loopMsg.id = m

OnItsWay(m) ==
  \/ \E i \in 1..Len(inWire) : inWire[i].type = "reply" /\ inWire[i].id = m
  \/ loopPc = "dispatch" /\ loopMsg.type = "reply" /\ loopMsg.id = m

\* A serial is in use as long as somebody waits for a reply that carries it, or
\* such a reply may still come.
InUse(m) ==
  /\ m \in Answerable /\ phase[m] # "new"
  /\ \/ m \in Calls /\ phase[m] \notin {"returned", "failed"}
     \/ OnItsWay(m)
     \/ phase[m] # "failed" /\ (m \notin answered \/ m \in Repeated)

\* nextSerial and setSerial: the counter is a uint32 and wraps around, and nobody
\* looks whether the serial is in use.
NextSerial(m) ==
  LET s == (lastSerial + 1) % SerialSpace
  IN  /\ MayStart(m)
      /\ Goto(m, "new", IF m \in Calls THEN "toRegister" ELSE "toWrite")
      /\ lastSerial' = s
      /\ serial' = [serial EXCEPT ![m] = s]
      /\ reused' = (reused \/ \E n \in Outgoing : InUse(n) /\ serial[n] = s)
      /\ UNCHANGED <<callVars, writeLock, objectPathHandlers, loopVars, serving,
                     conn, outWire, inWire, busVars>>

\* Mutated form: the entry is made under the connection's latest serial.
RegisterReply_LatestSerial(c) ==
  /\ Goto(c, "toRegister", "toWrite")
  /\ methodCallReplies' = [methodCallReplies EXCEPT ![lastSerial] = c]
  /\ UNCHANGED <<lastSerial, serial, reused, replyChan, reply, writeLock, objectPathHandlers,
                 loopVars, serving, conn, outWire, inWire, busVars>>

\* SendWithReply enters its channel in the table before it writes the call.
RegisterReply(c) ==
  /\ Goto(c, "toRegister", "toWrite")
  /\ methodCallReplies' = [methodCallReplies EXCEPT ![serial[c]] = c]
  /\ UNCHANGED <<lastSerial, serial, reused, replyChan, reply, writeLock, objectPathHandlers,
                 loopVars, serving, conn, outWire, inWire, busVars>>

\* Mutated form: writeLock is not taken.
LockWrite_NoLock(m) ==
  /\ Goto(m, "toWrite", "writing")
  /\ UNCHANGED <<lastSerial, serial, reused, callVars, writeLock, objectPathHandlers, loopVars,
                 serving, conn, outWire, inWire, busVars>>

\* atomicWriteMessage takes writeLock ...
LockWrite(m) ==
  /\ writeLock = None
  /\ Goto(m, "toWrite", "writing")
  /\ writeLock' = m
  /\ UNCHANGED <<lastSerial, serial, reused, callVars, objectPathHandlers, loopVars,
                 serving, conn, outWire, inWire, busVars>>

\* ... WriteTo writes the header and its padding, which is all there is of a message
\* without arguments: its empty body is on the wire as soon as they are ...
WriteHeader(m) ==
  /\ conn = "up"
  /\ Goto(m, "writing", "halfWritten")
  /\ outWire' = IF m \in Bodiless
                THEN Append(Append(outWire, Piece(m, "header")), Piece(m, "body"))
                ELSE Append(outWire, Piece(m, "header"))
  /\ UNCHANGED <<lastSerial, serial, reused, callVars, writeLock, objectPathHandlers,
                 loopVars, serving, conn, inWire, busVars>>

\* ... and then the body, if only no bytes ...
WriteBody(m) ==
  /\ conn = "up"
  /\ Goto(m, "halfWritten", "written")
  /\ outWire' = IF m \in Bodiless THEN outWire ELSE Append(outWire, Piece(m, "body"))
  /\ UNCHANGED <<lastSerial, serial, reused, callVars, writeLock, objectPathHandlers,
                 loopVars, serving, conn, inWire, busVars>>

\* Mutated form: the deferred Unlock is missing.
UnlockWrite_NotDeferred(m) ==
  /\ Goto(m, "written", "sent")
  /\ UNCHANGED <<lastSerial, serial, reused, callVars, writeLock, objectPathHandlers,
                 loopVars, serving, conn, outWire, inWire, busVars>>

\* ... and the deferred Unlock runs; the reply may have come by then.
UnlockWrite(m) ==
  /\ Goto(m, "written", "sent")
  /\ writeLock' = None
  /\ UNCHANGED <<lastSerial, serial, reused, callVars, objectPathHandlers, loopVars,
                 serving, conn, outWire, inWire, busVars>>

\* Mutated form: an error is returned for a message that was written whole.
WriteFails_AfterWrite(m) ==
  /\ conn # "up"
  /\ phase[m] \in {"writing", "halfWritten", "written"}
  /\ phase' = [phase EXCEPT ![m] = IF m \in Calls THEN "toUnregister" ELSE "failed"]
  /\ writeLock' = None
  /\ UNCHANGED <<lastSerial, serial, reused, callVars, objectPathHandlers, loopVars,
                 serving, conn, outWire, inWire, busVars>>

\* Either write fails because the socket is gone, and so does Send: the second one
\* also when it has nothing to write, and the bus may have answered by then.
WriteFails(m) ==
  /\ conn # "up"
  /\ phase[m] \in {"writing", "halfWritten"}
  /\ phase' = [phase EXCEPT ![m] = IF m \in Calls THEN "toUnregister" ELSE "failed"]
  /\ writeLock' = None
  /\ UNCHANGED <<lastSerial, serial, reused, callVars, objectPathHandlers, loopVars,
                 serving, conn, outWire, inWire, busVars>>

\* Mutated form: the entry stays in the table.
UnregisterReply_KeepsEntry(c) ==
  /\ Goto(c, "toUnregister", "failed")
  /\ UNCHANGED <<lastSerial, serial, reused, callVars, writeLock, objectPathHandlers,
                 loopVars, serving, conn, outWire, inWire, busVars>>

\* SendWithReply takes its entry back before it returns the write error.
UnregisterReply(c) ==
  /\ Goto(c, "toUnregister", "failed")
  /\ methodCallReplies' = [methodCallReplies EXCEPT ![serial[c]] = None]
  /\ UNCHANGED <<lastSerial, serial, reused, replyChan, reply, writeLock, objectPathHandlers,
                 loopVars, serving, conn, outWire, inWire, busVars>>

\* SendWithReply receives from replyChan, with nothing else to wake it up.
ReceiveReply(c) ==
  /\ replyChan[c] # <<>>
  /\ Goto(c, "sent", "returned")
  /\ reply' = [reply EXCEPT ![c] = Head(replyChan[c])]
  /\ replyChan' = [replyChan EXCEPT ![c] = Tail(@)]
  /\ UNCHANGED <<lastSerial, serial, reused, methodCallReplies, writeLock, objectPathHandlers,
                 loopVars, serving, conn, outWire, inWire, busVars>>

(***************************************************************************)
(* The receive loop.                                                       *)
(***************************************************************************)
LoopGoto(from, to) == loopPc = from /\ loopPc' = to

\* readMessage returns the next message ...
ReadMessage ==
  /\ conn # "closed" /\ inWire # <<>>
  /\ LoopGoto("read", "dispatch")
  /\ loopMsg' = Head(inWire)
  /\ inWire' = Tail(inWire)
  /\ UNCHANGED <<messageVars, callVars, writeLock, objectPathHandlers, loopChan,
                 serving, conn, outWire, busVars>>

\* What arrives is not the whole of a header, or no message (module MessageStream).
Malformed == "malformed" \in Faults /\ conn # "closed" /\ inWire # <<>>

\* Mutated form: the loop goes on reading unless the application closed it.
ReadFails_OnlyWhenClosed ==
  /\ conn = "closed" \/ Malformed
  /\ LoopGoto("read", "stopped")
  /\ UNCHANGED <<messageVars, callVars, writeLock, objectPathHandlers, loopMsg, loopChan,
                 serving, conn, outWire, inWire, busVars>>

\* ... or an error, which ends the loop: no waiter is told.
ReadFails ==
  /\ conn # "up" \/ Malformed
  /\ LoopGoto("read", "stopped")
  /\ UNCHANGED <<messageVars, callVars, writeLock, objectPathHandlers, loopMsg, loopChan,
                 serving, conn, outWire, inWire, busVars>>

\* dispatchMessage drops a message for which a filter returns nil.
DispatchSwallowed ==
  /\ loopPc = "dispatch" /\ loopMsg.id \in Swallowed
  /\ LoopGoto("dispatch", "read")
  /\ UNCHANGED <<messageVars, callVars, writeLock, objectPathHandlers, loopMsg, loopChan,
                 serving, conn, outWire, inWire, busVars>>

Dispatching(type) ==
  loopPc = "dispatch" /\ loopMsg.id \notin Swallowed /\ loopMsg.type = type

\* A reply: take the waiter of its serial out of the table; drop the reply if
\* there is none.
DispatchReply ==
  LET waiter == methodCallReplies[loopMsg.replySerial]
  IN  /\ Dispatching("reply")
      /\ methodCallReplies' = [methodCallReplies EXCEPT ![loopMsg.replySerial] = None]
      /\ IF waiter = None
         THEN LoopGoto("dispatch", "read") /\ UNCHANGED loopChan
         ELSE LoopGoto("dispatch", "deliver") /\ loopChan' = waiter
      /\ UNCHANGED <<messageVars, replyChan, reply, writeLock, objectPathHandlers, loopMsg,
                     serving, conn, outWire, inWire, busVars>>

\* Mutated form: a send that gives up on a caller that is not receiving yet.
DeliverReply_OnlyIfWaiting ==
  /\ LoopGoto("deliver", "read")
  /\ replyChan' = IF phase[loopChan] = "sent"
                  THEN [replyChan EXCEPT ![loopChan] = Append(@, loopMsg.id)]
                  ELSE replyChan
  /\ UNCHANGED <<messageVars, methodCallReplies, reply, writeLock, objectPathHandlers,
                 loopMsg, loopChan, serving, conn, outWire, inWire, busVars>>

\* replyChan <- msg, on a channel with room for one message.
DeliverReply ==
  /\ LoopGoto("deliver", "read")
  /\ replyChan[loopChan] = <<>>
  /\ replyChan' = [replyChan EXCEPT ![loopChan] = Append(@, loopMsg.id)]
  /\ UNCHANGED <<messageVars, methodCallReplies, reply, writeLock, objectPathHandlers,
                 loopMsg, loopChan, serving, conn, outWire, inWire, busVars>>

HandlerOf(r) == HandlerForPath(objectPathHandlers, PathOf[r], None)

\* Mutated form: a path without a handler is ignored.
DispatchToPeer_Silent ==
  /\ Dispatching("call")
  /\ loopMsg.id \in PeerRequests \/ HandlerOf(loopMsg.id) = None
  /\ LoopGoto("dispatch", IF loopMsg.id \in PeerRequests THEN "reply" ELSE "read")
  /\ UNCHANGED <<messageVars, callVars, writeLock, objectPathHandlers, loopMsg, loopChan,
                 serving, conn, outWire, inWire, busVars>>

\* A Peer method, or a path without a handler: the loop itself sends the reply.
DispatchToPeer ==
  /\ Dispatching("call")
  /\ loopMsg.id \in PeerRequests \/ HandlerOf(loopMsg.id) = None
  /\ LoopGoto("dispatch", "reply")
  /\ UNCHANGED <<messageVars, callVars, writeLock, objectPathHandlers, loopMsg, loopChan,
                 serving, conn, outWire, inWire, busVars>>

\* The loop's own Send has returned; an error ends the loop.
LoopReplied ==
  /\ loopPc = "reply" /\ Finished(loopMsg.id)
  /\ LoopGoto("reply", IF phase[loopMsg.id] = "sent" THEN "read" ELSE "stopped")
  /\ UNCHANGED <<messageVars, callVars, writeLock, objectPathHandlers, loopMsg, loopChan,
                 serving, conn, outWire, inWire, busVars>>

\* A path with a handler: its channel is looked up under handlerMutex and
\* used after the mutex is released.
DispatchToHandler ==
  /\ Dispatching("call")
  /\ loopMsg.id \notin PeerRequests /\ HandlerOf(loopMsg.id) # None
  /\ LoopGoto("dispatch", "handOff")
  /\ loopChan' = HandlerOf(loopMsg.id)
  /\ UNCHANGED <<messageVars, callVars, writeLock, objectPathHandlers, loopMsg,
                 serving, conn, outWire, inWire, busVars>>

\* handler <- msg blocks the loop until the handler goroutine receives.
HandOff ==
  /\ LoopGoto("handOff", "read")
  /\ serving[loopChan] = None
  /\ serving' = [serving EXCEPT ![loopChan] = loopMsg.id]
  /\ UNCHANGED <<messageVars, callVars, writeLock, objectPathHandlers, loopMsg, loopChan,
                 conn, outWire, inWire, busVars>>

ReceiveLoop ==
  \/ ReadMessage \/ ReadFails \/ DispatchSwallowed \/ DispatchReply \/ DeliverReply
  \/ DispatchToPeer \/ LoopReplied \/ DispatchToHandler \/ HandOff

(***************************************************************************)
(* The application.                                                        *)
(***************************************************************************)
RegisterObjectPath(p) ==
  /\ p \notin objectPathHandlers
  /\ objectPathHandlers' = objectPathHandlers \union {p}
  /\ UNCHANGED <<messageVars, callVars, writeLock, loopVars, serving, conn,
                 outWire, inWire, busVars>>

UnregisterObjectPath(p) ==
  /\ p \in objectPathHandlers
  /\ objectPathHandlers' = objectPathHandlers \ {p}
  /\ UNCHANGED <<messageVars, callVars, writeLock, loopVars, serving, conn,
                 outWire, inWire, busVars>>

\* A handler goroutine goes back to its channel once it has sent its reply.
HandlerDone(p) ==
  /\ serving[p] # None /\ Finished(serving[p])
  /\ serving' = [serving EXCEPT ![p] = None]
  /\ UNCHANGED <<messageVars, callVars, writeLock, objectPathHandlers, loopVars, conn,
                 outWire, inWire, busVars>>

Close ==
  /\ conn # "closed" /\ "close" \in Faults
  /\ conn' = "closed"
  /\ UNCHANGED <<messageVars, callVars, writeLock, objectPathHandlers, loopVars, serving,
                 outWire, inWire, busVars>>

(***************************************************************************)
(* The message bus and the clients behind it.  The bus reads the stream in *)
(* frames, forwards every method call, and passes on one answer to each,   *)
(* in any order among calls.                                               *)
(***************************************************************************)
PeerHangsUp ==
  /\ conn = "up" /\ "loss" \in Faults
  /\ conn' = "lost"
  /\ UNCHANGED <<messageVars, callVars, writeLock, objectPathHandlers, loopVars, serving,
                 outWire, inWire, busVars>>

BusReads ==
  /\ conn = "up" /\ Len(outWire) >= 2
  /\ outWire' = SubSeq(outWire, 3, Len(outWire))
  /\ atBus' = atBus \union ({outWire[1].msg} \intersect Answerable)
  /\ UNCHANGED <<messageVars, callVars, writeLock, objectPathHandlers, loopVars, serving,
                 conn, inWire, answered, requested>>

BusAnswers(m) ==
  /\ conn = "up" /\ m \in atBus \ answered
  /\ answered' = answered \union {m}
  /\ inWire' = Append(inWire, [type |-> "reply", replySerial |-> serial[m], id |-> m])
  /\ UNCHANGED <<messageVars, callVars, writeLock, objectPathHandlers, loopVars, serving,
                 conn, outWire, atBus, requested>>

\* A peer that repeats itself, with at most one repeated reply ahead of others.
BusRepeats(m) ==
  /\ conn = "up" /\ m \in Repeated
  /\ m \in answered /\ inWire = <<>>
  /\ inWire' = <<[type |-> "reply", replySerial |-> serial[m], id |-> m]>>
  /\ UNCHANGED <<messageVars, callVars, writeLock, objectPathHandlers, loopVars, serving,
                 conn, outWire, busVars>>

BusRequests(r) ==
  /\ conn = "up" /\ r \notin requested
  /\ requested' = requested \union {r}
  /\ inWire' = Append(inWire, [type |-> "call", replySerial |-> 0, id |-> r])
  /\ UNCHANGED <<messageVars, callVars, writeLock, objectPathHandlers, loopVars, serving,
                 conn, outWire, atBus, answered>>

\* What a goroutine that has started a message does, up to the end of Send or
\* SendWithReply.
SenderStep(m) ==
  \/ m \in Calls /\ (RegisterReply(m) \/ UnregisterReply(m) \/ ReceiveReply(m))
  \/ LockWrite(m) \/ WriteHeader(m) \/ WriteBody(m) \/ UnlockWrite(m) \/ WriteFails(m)

\* What the application, the bus and the network do.
EnvironmentStep ==
  \/ \E p \in Patterns : RegisterObjectPath(p) \/ UnregisterObjectPath(p) \/ HandlerDone(p)
  \/ Close \/ PeerHangsUp \/ BusReads
  \/ \E m \in Answerable : BusAnswers(m) \/ BusRepeats(m)
  \/ \E r \in Requests : BusRequests(r)

Next ==
  \/ \E m \in Outgoing : NextSerial(m) \/ SenderStep(m)
  \/ ReceiveLoop
  \/ EnvironmentStep

(***************************************************************************)
(* Fairness: a goroutine that can run does run, and so does the bus; every *)
(* method call is answered, by its destination or by the bus on its        *)
(* behalf.  Nothing makes the application begin a call, register a path or *)
(* close the connection, or a client make a request.                       *)
(***************************************************************************)
Fairness ==
  /\ \A m \in Outgoing : WF_vars(SenderStep(m))
  /\ \A m \in Requests \union NestedCalls : WF_vars(NextSerial(m))
  /\ \A p \in Patterns : WF_vars(HandlerDone(p))
  /\ WF_vars(ReceiveLoop)
  /\ WF_vars(BusReads)
  /\ \A m \in Answerable : WF_vars(BusAnswers(m))

SafeSpec == Init /\ [][Next]_vars
Spec == SafeSpec /\ Fairness

(***************************************************************************)
(* Type invariant.                                                         *)
(***************************************************************************)
LoopPcs == {"read", "dispatch", "deliver", "reply", "handOff", "stopped"}

TypeOK ==
  /\ lastSerial \in Serials
  /\ serial \in [Outgoing -> Serials] /\ reused \in BOOLEAN
  /\ phase \in [Outgoing -> Phases]
  /\ \A m \in Outgoing \ Calls :
        phase[m] \notin {"toRegister", "toUnregister", "returned"}
  /\ methodCallReplies \in [Serials -> Calls \union {None}]
  /\ replyChan \in [Calls -> Seq(Answerable)]
  /\ reply \in [Calls -> Answerable \union {None}]
  /\ writeLock \in Outgoing \union {None}
  /\ objectPathHandlers \in SUBSET Patterns
  /\ loopPc \in LoopPcs
  /\ loopMsg \in Inbound \union {None}
  /\ loopChan \in Calls \union Patterns \union {None}
  /\ loopPc \in {"dispatch", "deliver", "reply", "handOff"} => loopMsg \in Inbound
  /\ loopPc = "deliver" => loopChan \in Calls /\ loopMsg.type = "reply"
  /\ loopPc = "handOff" => loopChan \in Patterns
  /\ loopPc \in {"reply", "handOff"} => loopMsg.type = "call"
  /\ serving \in [Patterns -> Requests \union {None}]
  /\ conn \in {"up", "closed", "lost"}
  /\ outWire \in Seq(Frame) /\ inWire \in Seq(Inbound)
  /\ atBus \in SUBSET Answerable /\ answered \in SUBSET Answerable
  /\ requested \in SUBSET Requests

(***************************************************************************)
(* Safety.                                                                 *)
(***************************************************************************)
\* A call returns the reply to that very call: the message another goroutine
\* waits for never ends up in its channel, whatever the order of replies and
\* however often serials wrap around, until one is given out that is in use.
OwnReply == reused \/ \A c \in Calls : reply[c] \in {None, c}

\* What is on the wire is a sequence of whole messages, the last possibly
\* half written: writeLock keeps two senders from interleaving their writes.
WholeFrames ==
  \A i \in 1..Len(outWire) :
     /\ outWire[i].part = (IF i % 2 = 1 THEN "header" ELSE "body")
     /\ i % 2 = 0 => outWire[i].msg = outWire[i - 1].msg

\* The table holds no entry of a call that has returned, with a reply or with
\* an error: what SendWithReply and the receive loop add, they also remove.
NoLeakedWaiter ==
  \A s \in Serials : methodCallReplies[s] # None =>
     phase[methodCallReplies[s]] \notin {"returned", "failed"}

Delivered(c) ==
  \/ loopPc = "deliver" /\ loopChan = c
  \/ replyChan[c] # <<>>
  \/ phase[c] = "returned"

\* No reply is dropped: the reply to a call either is on its way and the call is
\* still in the table under its serial, or it has reached the call's channel.  The
\* entry must be made before the call is written, and the channel must have room,
\* because the reply may come before the write returns.  Only a call without
\* arguments may be given up although it was answered: it can be answered before
\* the write of its empty body, which may then fail.
AnswerNotLost ==
  reused \/ \A c \in (answered \intersect Calls) \ Swallowed :
     \/ OnItsWay(c) /\ methodCallReplies[serial[c]] = c
     \/ Delivered(c)
     \/ c \in Bodiless /\ phase[c] = "failed"

\* The receive loop never blocks on a reply channel: one message of buffer is
\* enough because an entry is used once.
ReplyChanNeverFull == loopPc = "deliver" => replyChan[loopChan] = <<>>

(***************************************************************************)
(* Liveness.                                                               *)
(***************************************************************************)
\* A call that was written and whose reply has not come.
Waits(c) == phase[c] = "sent" /\ replyChan[c] = <<>>

\* The loop waits for a handler that waits for a reply, which only the loop can
\* dispatch: nobody ends this.
Jammed ==
  /\ loopPc = "handOff" /\ serving[loopChan] # None /\ phase[serving[loopChan]] = "new"
  /\ LET c == Nested[serving[loopChan]] IN c # None /\ Waits(c)

\* Nor the wait for a reply when the loop is in that state or has stopped.
Stranded(c) == Waits(c) /\ (loopPc = "stopped" \/ Jammed)

\* "On success, the reply message will be returned ... On failure (both
\* network failures and D-Bus level errors), an error will be returned": a
\* call that was begun comes to an end.
CallsReturn ==
  \A c \in Calls \ Swallowed : phase[c] # "new" ~> phase[c] \in {"returned", "failed"} \/ reused

\* It does, with whatever handlers and faults, unless it waits for a loop that has
\* stopped or is jammed.
CallsReturnUnlessStranded ==
  \A c \in Calls \ Swallowed :
     phase[c] # "new" ~> phase[c] \in {"returned", "failed"} \/ reused \/ Stranded(c)

Unread(r) == \E i \in 1..Len(inWire) : inWire[i].type = "call" /\ inWire[i].id = r

\* The loop does not come to r any more, or r's handler waits for it.
Neglected(r) ==
  \/ Unread(r) /\ (loopPc = "stopped" \/ Jammed)
  \/ Jammed /\ loopMsg.id = r
  \/ Nested[r] # None /\ Stranded(Nested[r])

\* Every incoming method call that no filter takes is answered by its handler
\* or, where there is none, by the connection: also by a handler that was
\* unregistered after it was looked up, or has other calls before it.
RequestsAnswered ==
  \A r \in Requests \ Swallowed :
     r \in requested ~> phase[r] \in {"sent", "failed"} \/ reused \/ Neglected(r)

\* The receive loop ends once the connection does, whatever it and the handlers are
\* doing, unless it is jammed.
LoopStops == conn # "up" ~> loopPc = "stopped" \/ Jammed

(***************************************************************************)
(* The connection implements CallService.                                  *)
(***************************************************************************)
CallStatus ==
  [c \in Calls |-> CASE phase[c] = "new" -> "idle"
                     [] phase[c] \in {"returned", "failed"} -> phase[c]
                     [] OTHER -> "open"]

Service == INSTANCE CallService
             WITH status <- CallStatus, answered <- answered \intersect Calls, up <- conn = "up",
                  Early <- Bodiless

ImplementsCallService == Service!SSpec

(***************************************************************************)
(* The inductive invariant: what always holds ...                          *)
(***************************************************************************)
Started == {m \in Outgoing : phase[m] # "new"}

InFlight == {"toWrite", "writing", "halfWritten", "written", "sent"}
Written  == {"written", "sent", "returned"}

\* The bus may have m.
MayBeWhole(m) ==
  phase[m] \in Written \/ (m \in Bodiless /\ phase[m] \in {"halfWritten", "toUnregister", "failed"})

\* Holding writeLock is being between its acquisition and its release.
LockInv ==
  \A m \in Outgoing :
     phase[m] \in {"writing", "halfWritten", "written"} <=> writeLock = m

\* A stream that ends in a header ends in the header of the message whose
\* sender is about to write the body.
TailInv ==
  conn = "up" =>
    /\ Len(outWire) % 2 = 1 => \E m \in Outgoing \ Bodiless : phase[m] = "halfWritten"
    /\ \A m \in Outgoing \ Bodiless : phase[m] = "halfWritten" =>
          Len(outWire) % 2 = 1 /\ outWire[Len(outWire)].msg = m

\* The bus knows of nothing that was not written whole.
BusInv ==
  /\ \A i \in 1..Len(outWire) : outWire[i].part = "body" => MayBeWhole(outWire[i].msg)
  /\ \A m \in atBus \union answered : MayBeWhole(m)

\* A reply that arrives carries the serial of a message that was written.
GenuineReply(msg) ==
  msg.type = "reply" => msg.id \in answered /\ msg.replySerial = serial[msg.id]

InboundInv ==
  /\ \A i \in 1..Len(inWire) : GenuineReply(inWire[i])
  /\ loopPc \in {"dispatch", "deliver"} => GenuineReply(loopMsg)

\* An entry is the one of a call under way, which nothing has reached yet.
EntryInv ==
  \A s \in Serials : \A c \in Calls : methodCallReplies[s] = c =>
     /\ serial[c] = s
     /\ phase[c] \in InFlight \union {"toUnregister"}
     /\ replyChan[c] = <<>>
     /\ ~ (loopPc = "deliver" /\ loopChan = c)

\* A message is delivered to a call that had its entry, and once.
RoomInv ==
  /\ loopPc = "deliver" => /\ replyChan[loopChan] = <<>>
                           /\ phase[loopChan] \notin {"new", "toRegister", "returned"}
  /\ \A c \in Calls : phase[c] \in {"new", "toRegister"} => replyChan[c] = <<>>

\* A message is given up only on a connection that is down.
DownInv == \A m \in Outgoing : phase[m] \in {"toUnregister", "failed"} => conn # "up"

AlwaysInv ==
  /\ LockInv /\ WholeFrames /\ TailInv /\ BusInv /\ InboundInv
  /\ EntryInv /\ RoomInv /\ DownInv

(***************************************************************************)
(* ... and what holds until a serial is given out that is in use.          *)
(***************************************************************************)
\* The serials in use are distinct.
SerialInv == \A m, n \in Outgoing : InUse(m) /\ InUse(n) /\ serial[m] = serial[n] => m = n

\* A call that was begun and not answered has its entry.
WaiterInv ==
  \A c \in Calls \ answered : phase[c] \in InFlight => methodCallReplies[serial[c]] = c

\* A message takes one way only: to the call it answers, once it was answered.
DeliveryInv ==
  /\ loopPc = "deliver" => /\ loopMsg.id = loopChan
                           /\ MayBeWhole(loopChan) /\ phase[loopChan] # "returned"
  /\ \A c \in Calls :
        /\ replyChan[c] \in {<<>>, <<c>>}
        /\ replyChan[c] # <<>> => MayBeWhole(c) /\ phase[c] # "returned"
        /\ replyChan[c] # <<>> \/ phase[c] = "returned" => c \in answered

FreshInv == SerialInv /\ WaiterInv /\ DeliveryInv /\ OwnReply /\ AnswerNotLost

IInv == AlwaysInv /\ (reused \/ FreshInv)

(***************************************************************************)
(* While the application sends fewer messages than there are serials, none *)
(* is given out twice.                                                     *)
(***************************************************************************)
NoWrap == IsFiniteSet(Outgoing) /\ Cardinality(Outgoing) < SerialSpace

CountInv ==
  /\ lastSerial = Cardinality(Started)
  /\ \A m \in Outgoing : serial[m] <= lastSerial
  /\ ~ reused
=============================================================================
