-------------------------- MODULE ConnectionProofs --------------------------
(***************************************************************************)
(* Proofs about module Connection, for any set of messages, any pattern    *)
(* table and any schedule of goroutines, bus and faults.                   *)
(***************************************************************************)
EXTENDS Connection, FiniteSetTheorems, SequenceTheorems, TLAPS

(***************************************************************************)
(* The lookup of the receive loop returns a registered handler or none:    *)
(* the facts about handlerForPath the type invariant rests on.             *)
(***************************************************************************)
LEMMA HandlerIsRegistered ==
  ASSUME NEW handlers, NEW path, NEW none
  PROVE  HandlerForPath(handlers, path, none) \in handlers \union {none}
<1> DEFINE hit == FirstHit(handlers, path)
<1>1. CASE hit = {}
  BY <1>1 DEF HandlerForPath
<1>2. CASE hit # {}
  <2>1. (CHOOSE k \in hit : TRUE) \in hit
    BY <1>2
  <2>2. \A k \in hit : LookupKey(path, k) \in handlers
    BY DEF FirstHit
  <2> QED
    BY <1>2, <2>1, <2>2 DEF HandlerForPath
<1> QED
  BY <1>1, <1>2

LEMMA HandlerOfType ==
  ASSUME TypeOK, NEW r \in Requests
  PROVE  HandlerOf(r) \in Patterns \union {None}
BY HandlerIsRegistered DEF TypeOK, HandlerOf

-----------------------------------------------------------------------------
(***************************************************************************)
(* Type correctness.                                                       *)
(***************************************************************************)
\* The initial state has the types of the declarations.
LEMMA InitType == Init => TypeOK
<1> SUFFICES ASSUME Init PROVE TypeOK
  OBVIOUS
<1>1. lastSerial \in Serials /\ serial \in [Outgoing -> Serials]
  BY ConnectionAssumption DEF Init, Serials
<1>2. reused \in BOOLEAN
  BY DEF Init
<1>3. /\ phase \in [Outgoing -> Phases]
      /\ \A m \in Outgoing : phase[m] = "new"
  BY DEF Init, Phases
<1>4. /\ methodCallReplies \in [Serials -> Calls \union {None}]
      /\ replyChan \in [Calls -> Seq(Answerable)]
      /\ reply \in [Calls -> Answerable \union {None}]
  BY DEF Init
<1> QED
  BY <1>1, <1>2, <1>3, <1>4 DEF Init, TypeOK, LoopPcs

\* What a sender does keeps every variable in its type.
LEMMA SenderType ==
  ASSUME TypeOK, NEW m \in Outgoing, NextSerial(m) \/ SenderStep(m)
  PROVE  TypeOK'
<1> USE ConnectionAssumption DEF Outgoing, Answerable
<1>1. CASE NextSerial(m)
  BY <1>1 DEF TypeOK, NextSerial, Goto, Serials, Phases, callVars, loopVars, busVars
<1>2. CASE m \in Calls /\ RegisterReply(m)
  BY <1>2 DEF TypeOK, RegisterReply, Goto, Phases, loopVars, busVars
<1>3. CASE m \in Calls /\ UnregisterReply(m)
  BY <1>3 DEF TypeOK, UnregisterReply, Goto, Phases, loopVars, busVars
<1>4. CASE m \in Calls /\ ReceiveReply(m)
  BY <1>4 DEF TypeOK, ReceiveReply, Goto, Phases, loopVars, busVars
<1>5. CASE LockWrite(m)
  BY <1>5 DEF TypeOK, LockWrite, Goto, Phases, callVars, loopVars, busVars
<1>6. CASE WriteHeader(m)
  <2>1. Piece(m, "header") \in Frame /\ Piece(m, "body") \in Frame
    BY DEF Piece, Frame
  <2>2. outWire' \in Seq(Frame)
    BY <1>6, <2>1 DEF TypeOK, WriteHeader
  <2> QED
    BY <1>6, <2>2 DEF TypeOK, WriteHeader, Goto, Phases, callVars, loopVars, busVars
<1>7. CASE WriteBody(m)
  <2>1. Piece(m, "body") \in Frame
    BY DEF Piece, Frame
  <2>2. outWire' \in Seq(Frame)
    BY <1>7, <2>1 DEF TypeOK, WriteBody
  <2> QED
    BY <1>7, <2>2 DEF TypeOK, WriteBody, Goto, Phases, callVars, loopVars, busVars
<1>8. CASE UnlockWrite(m)
  BY <1>8 DEF TypeOK, UnlockWrite, Goto, Phases, callVars, loopVars, busVars
<1>9. CASE WriteFails(m)
  BY <1>9 DEF TypeOK, WriteFails, Phases, callVars, loopVars, busVars
<1> QED
  BY <1>1, <1>2, <1>3, <1>4, <1>5, <1>6, <1>7, <1>8, <1>9 DEF SenderStep

\* So does every step of the receive loop.
LEMMA LoopType ==
  ASSUME TypeOK, ReceiveLoop
  PROVE  TypeOK'
<1> USE ConnectionAssumption DEF LoopGoto, LoopPcs, messageVars, busVars
<1>1. CASE ReadMessage
  BY <1>1 DEF TypeOK, ReadMessage, callVars
<1>2. CASE ReadFails
  BY <1>2 DEF TypeOK, ReadFails, callVars
<1>3. CASE DispatchSwallowed
  BY <1>3 DEF TypeOK, DispatchSwallowed, callVars
<1>4. CASE DispatchReply
  BY <1>4 DEF TypeOK, DispatchReply, Dispatching, Inbound
<1>5. CASE DeliverReply
  BY <1>5 DEF TypeOK, DeliverReply, Inbound
<1>6. CASE DispatchToPeer
  BY <1>6 DEF TypeOK, DispatchToPeer, Dispatching, callVars
<1>7. CASE LoopReplied
  BY <1>7 DEF TypeOK, LoopReplied, callVars
<1>8. CASE DispatchToHandler
  <2>1. loopMsg.id \in Requests
    BY <1>8 DEF TypeOK, DispatchToHandler, Dispatching, Inbound
  <2>2. HandlerOf(loopMsg.id) \in Patterns
    BY <1>8, <2>1, HandlerOfType DEF DispatchToHandler
  <2> QED
    BY <1>8, <2>2 DEF TypeOK, DispatchToHandler, Dispatching, callVars
<1>9. CASE HandOff
  BY <1>9 DEF TypeOK, HandOff, Inbound, callVars
<1> QED
  BY <1>1, <1>2, <1>3, <1>4, <1>5, <1>6, <1>7, <1>8, <1>9 DEF ReceiveLoop

\* So does every step of the application, of the bus and of the network.
LEMMA EnvironmentType ==
  ASSUME TypeOK, EnvironmentStep
  PROVE  TypeOK'
<1> USE ConnectionAssumption DEF messageVars, callVars, loopVars
<1>1. ASSUME NEW p \in Patterns,
             RegisterObjectPath(p) \/ UnregisterObjectPath(p) \/ HandlerDone(p)
      PROVE  TypeOK'
  BY <1>1 DEF TypeOK, RegisterObjectPath, UnregisterObjectPath, HandlerDone, busVars
<1>2. CASE Close
  BY <1>2 DEF TypeOK, Close, busVars
<1>3. CASE PeerHangsUp
  BY <1>3 DEF TypeOK, PeerHangsUp, busVars
<1>4. CASE BusReads
  <2>1. SubSeq(outWire, 3, Len(outWire)) \in Seq(Frame)
    BY <1>4, SubSeqProperties DEF TypeOK, BusReads
  <2> QED
    BY <1>4, <2>1 DEF TypeOK, BusReads
<1>5. ASSUME NEW m \in Answerable, BusAnswers(m) \/ BusRepeats(m)
      PROVE  TypeOK'
  <2>1. [type |-> "reply", replySerial |-> serial[m], id |-> m] \in Inbound
    BY DEF TypeOK, Inbound, Outgoing, Answerable
  <2>2. CASE BusAnswers(m)
    BY <2>1, <2>2 DEF TypeOK, BusAnswers
  <2>3. CASE BusRepeats(m)
    BY <2>1, <2>3 DEF TypeOK, BusRepeats, busVars
  <2> QED
    BY <1>5, <2>2, <2>3
<1>6. ASSUME NEW r \in Requests, BusRequests(r)
      PROVE  TypeOK'
  BY <1>6 DEF TypeOK, BusRequests, Inbound
<1> QED
  BY <1>1, <1>2, <1>3, <1>4, <1>5, <1>6 DEF EnvironmentStep

\* Every variable keeps its type, whatever the instance.
THEOREM TypeCorrect == SafeSpec => []TypeOK
<1>1. TypeOK /\ [Next]_vars => TypeOK'
  <2>1. CASE Next
    BY <2>1, SenderType, LoopType, EnvironmentType DEF Next
  <2>2. CASE UNCHANGED vars
    BY <2>2 DEF TypeOK, vars, messageVars, callVars, loopVars, busVars
  <2> QED
    BY <2>1, <2>2
<1> QED
  BY InitType, <1>1, PTL DEF SafeSpec

-----------------------------------------------------------------------------
(***************************************************************************)
(* What each group of steps leaves alone.                                  *)
(***************************************************************************)
LEMMA StartFrame ==
  ASSUME TypeOK, NEW m \in Outgoing, NextSerial(m)
  PROVE  /\ phase[m] = "new" /\ phase'[m] \in {"toRegister", "toWrite"}
         /\ m \in Calls => phase'[m] = "toRegister"
         /\ \A n \in Outgoing \ {m} : phase'[n] = phase[n] /\ serial'[n] = serial[n]
         /\ UNCHANGED <<callVars, writeLock, loopVars, conn, outWire, inWire, busVars>>
BY DEF TypeOK, NextSerial, Goto

LEMMA SenderFrame ==
  ASSUME TypeOK, NEW m \in Outgoing, SenderStep(m)
  PROVE  /\ phase[m] # "new" /\ phase'[m] # "new"
         /\ \A n \in Outgoing \ {m} : phase'[n] = phase[n]
         /\ UNCHANGED <<lastSerial, serial, reused, loopVars, conn, inWire, busVars>>
BY DEF TypeOK, SenderStep, Goto, RegisterReply, UnregisterReply, ReceiveReply,
       LockWrite, WriteHeader, WriteBody, UnlockWrite, WriteFails

LEMMA LoopFrame ==
  ASSUME ReceiveLoop
  PROVE  UNCHANGED <<messageVars, reply, writeLock, conn, outWire, busVars>>
BY DEF ReceiveLoop, ReadMessage, ReadFails, DispatchSwallowed, DispatchReply, DeliverReply,
       DispatchToPeer, LoopReplied, DispatchToHandler, HandOff, callVars

LEMMA EnvironmentFrame ==
  ASSUME EnvironmentStep
  PROVE  /\ UNCHANGED <<messageVars, callVars, writeLock, loopVars>>
         /\ conn' = "up" => conn = "up"
BY DEF EnvironmentStep, RegisterObjectPath, UnregisterObjectPath, HandlerDone, Close,
       PeerHangsUp, BusReads, BusAnswers, BusRepeats, BusRequests

-----------------------------------------------------------------------------
(***************************************************************************)
(* The inductive invariant, part by part.                                  *)
(***************************************************************************)
LEMMA InitInvariant == Init => IInv
<1> SUFFICES ASSUME Init PROVE IInv
  OBVIOUS
<1>1. LockInv /\ TailInv /\ BusInv /\ WholeFrames
  BY ConnectionAssumption DEF Init, LockInv, TailInv, BusInv, WholeFrames
<1>2. InboundInv /\ EntryInv /\ RoomInv /\ DownInv
  BY ConnectionAssumption
  DEF Init, InboundInv, EntryInv, RoomInv, DownInv, Outgoing, Answerable
<1>3. SerialInv /\ WaiterInv /\ DeliveryInv
  BY ConnectionAssumption
  DEF Init, SerialInv, InUse, WaiterInv, DeliveryInv, InFlight, Outgoing, Answerable
<1>4. OwnReply /\ AnswerNotLost
  BY DEF Init, OwnReply, AnswerNotLost
<1> QED
  BY <1>1, <1>2, <1>3, <1>4 DEF IInv, AlwaysInv, FreshInv

\* Only the sender that took writeLock is between its two writes.
LEMMA LockPreserved ==
  ASSUME TypeOK, LockInv, [Next]_vars
  PROVE  LockInv'
<1>1. ASSUME NEW m \in Outgoing, NextSerial(m)
      PROVE  LockInv'
  BY <1>1, StartFrame DEF LockInv
<1>2. ASSUME NEW m \in Outgoing, SenderStep(m)
      PROVE  LockInv'
  <2> USE ConnectionAssumption DEF LockInv, TypeOK, Goto, Outgoing, Answerable
  <2>1. CASE m \in Calls /\ (RegisterReply(m) \/ UnregisterReply(m) \/ ReceiveReply(m))
    BY <2>1 DEF RegisterReply, UnregisterReply, ReceiveReply
  <2>2. CASE LockWrite(m)
    BY <2>2 DEF LockWrite
  <2>3. CASE WriteHeader(m) \/ WriteBody(m)
    BY <2>3 DEF WriteHeader, WriteBody
  <2>4. CASE UnlockWrite(m)
    BY <2>4 DEF UnlockWrite
  <2>5. CASE WriteFails(m)
    BY <2>5 DEF WriteFails
  <2> QED
    BY <1>2, <2>1, <2>2, <2>3, <2>4, <2>5 DEF SenderStep
<1>3. CASE ReceiveLoop \/ EnvironmentStep \/ UNCHANGED vars
  BY <1>3, LoopFrame, EnvironmentFrame DEF LockInv, vars, messageVars
<1> QED
  BY <1>1, <1>2, <1>3 DEF Next

\* What is left of a sequence without its first two elements.
LEMMA SubSeqLen ==
  ASSUME NEW S, NEW seq, NEW a \in Int, NEW b \in Int, NEW k \in Int,
         a <= b + 1, k = b - a + 1, \A i \in a..b : seq[i] \in S
  PROVE  Len(SubSeq(seq, a, b)) = k
BY SubSeqProperties

LEMMA DropTwo ==
  ASSUME NEW S, NEW seq \in Seq(S), Len(seq) >= 2
  PROVE  /\ Len(SubSeq(seq, 3, Len(seq))) = Len(seq) - 2
         /\ \A i \in 1..(Len(seq) - 2) : SubSeq(seq, 3, Len(seq))[i] = seq[i + 2]
<1>1. Len(SubSeq(seq, 3, Len(seq))) = Len(seq) - 2
  <2>1. /\ 3 \in Int /\ Len(seq) \in Int /\ Len(seq) - 2 \in Int
        /\ 3 <= Len(seq) + 1 /\ Len(seq) - 2 = Len(seq) - 3 + 1
        /\ \A i \in 3..Len(seq) : seq[i] \in S
    OBVIOUS
  <2> QED
    BY <2>1, SubSeqLen, Zenon
<1>2. \A i \in 1..(Len(seq) - 2) : SubSeq(seq, 3, Len(seq))[i] = seq[i + 2]
  OBVIOUS
<1> QED
  BY <1>1, <1>2

\* One more piece of the right kind keeps the messages whole.
LEMMA OneMore ==
  ASSUME WholeFrames, outWire \in Seq(Frame), NEW n \in Nat, n = Len(outWire),
         Len(outWire') = n + 1, \A i \in 1..n : outWire'[i] = outWire[i],
         outWire'[n + 1].part = (IF (n + 1) % 2 = 1 THEN "header" ELSE "body"),
         (n + 1) % 2 = 0 => outWire'[n + 1].msg = outWire[n].msg
  PROVE  WholeFrames'
<1> SUFFICES ASSUME NEW i \in 1..(n + 1)
             PROVE  /\ outWire'[i].part = (IF i % 2 = 1 THEN "header" ELSE "body")
                    /\ i % 2 = 0 => outWire'[i].msg = outWire'[i - 1].msg
  BY DEF WholeFrames
<1>1. CASE i = n + 1
  <2>1. i % 2 = 0 => i - 1 = n /\ n \in 1..n
    BY <1>1
  <2> QED
    BY <1>1, <2>1
<1>2. CASE i \in 1..n
  <2>1. i % 2 = 0 => i - 1 \in 1..n
    BY <1>2
  <2> QED
    BY <1>2, <2>1 DEF WholeFrames
<1> QED
  BY <1>1, <1>2

\* What is written stays a sequence of whole messages with at most one half
\* message at its end, the one of the sender that holds the lock.
LEMMA FramesPreserved ==
  ASSUME TypeOK, LockInv, WholeFrames, TailInv, [Next]_vars
  PROVE  WholeFrames' /\ TailInv'
<1> DEFINE n == Len(outWire)
<1>0. n \in Nat /\ outWire \in Seq(Frame)
  BY DEF TypeOK
<1>1. ASSUME NEW m \in Outgoing, NextSerial(m)
      PROVE  WholeFrames' /\ TailInv'
  BY <1>1, StartFrame DEF WholeFrames, TailInv
<1>2. ASSUME NEW m \in Outgoing, SenderStep(m)
      PROVE  WholeFrames' /\ TailInv'
  <2>0. \A k \in Outgoing : phase[k] \in {"writing", "halfWritten", "written"} => writeLock = k
    BY DEF LockInv
  <2>1. CASE WriteHeader(m) /\ m \notin Bodiless
    <3>1. n % 2 = 0
      BY <2>1, <2>0, <1>0 DEF WriteHeader, Goto, TailInv
    <3>2. /\ outWire' = Append(outWire, Piece(m, "header"))
          /\ Len(outWire') = n + 1
          /\ \A i \in 1..n : outWire'[i] = outWire[i]
          /\ outWire'[n + 1].part = "header" /\ outWire'[n + 1].msg = m
      BY <2>1, <1>0 DEF WriteHeader, Piece
    <3>3. (n + 1) % 2 = 1 /\ (n + 1) % 2 # 0
      BY <3>1, <1>0
    <3>4. WholeFrames'
      <4>1. outWire'[n + 1].part = (IF (n + 1) % 2 = 1 THEN "header" ELSE "body")
        BY <3>2, <3>3
      <4>2. (n + 1) % 2 = 0 => outWire'[n + 1].msg = outWire[n].msg
        BY <3>3
      <4> HIDE DEF n
      <4> QED
        BY <1>0, <3>2, <4>1, <4>2, OneMore DEF n
    <3>5. phase'[m] = "halfWritten" /\ \A k \in Outgoing \ {m} : phase'[k] # "halfWritten"
      BY <2>0, <2>1 DEF WriteHeader, Goto, TypeOK
    <3> QED
      BY <2>1, <3>2, <3>3, <3>4, <3>5 DEF TailInv
  <2>2. CASE WriteHeader(m) /\ m \in Bodiless
    <3>1. n % 2 = 0
      BY <2>2, <2>0, <1>0 DEF WriteHeader, Goto, TailInv
    <3> DEFINE first  == Append(outWire, Piece(m, "header"))
               second == Append(first, Piece(m, "body"))
    <3>2. /\ first \in Seq(Frame) /\ Len(first) = n + 1
          /\ \A i \in 1..n : first[i] = outWire[i]
          /\ first[n + 1].part = "header" /\ first[n + 1].msg = m
      BY <2>2, <1>0 DEF Piece, Frame
    <3>3. outWire' = second
      BY <2>2 DEF WriteHeader
    <3>4. /\ Len(second) = n + 2
          /\ \A i \in 1..n : second[i] = outWire[i]
          /\ second[n + 1] = first[n + 1]
          /\ second[n + 2].part = "body" /\ second[n + 2].msg = m
      BY <3>2, <1>0 DEF Piece
    <3>5. (n + 1) % 2 = 1 /\ (n + 2) % 2 = 0
      BY <3>1, <1>0
    <3>6. WholeFrames'
      <4> SUFFICES ASSUME NEW i \in 1..(n + 2)
                   PROVE  /\ second[i].part = (IF i % 2 = 1 THEN "header" ELSE "body")
                          /\ i % 2 = 0 => second[i].msg = second[i - 1].msg
        BY <3>3, <3>4 DEF WholeFrames
      <4>1. CASE i \in 1..n
        <5>1. i % 2 = 0 => i - 1 \in 1..n
          BY <1>0, <4>1
        <5> QED
          BY <3>4, <4>1, <5>1 DEF WholeFrames
      <4>2. CASE i = n + 1
        BY <3>2, <3>4, <3>5, <4>2
      <4>3. CASE i = n + 2
        <5>1. i - 1 = n + 1 /\ i % 2 = 0 /\ 0 # 1
          BY <1>0, <3>5, <4>3
        <5> QED
          BY <3>2, <3>4, <4>3, <5>1
      <4> QED
        BY <4>1, <4>2, <4>3, <1>0
    <3>7. \A k \in Outgoing \ {m} : phase'[k] # "halfWritten"
      BY <2>0, <2>2 DEF WriteHeader, Goto, TypeOK
    <3> QED
      BY <2>2, <3>3, <3>4, <3>5, <3>6, <3>7 DEF TailInv
  <2>3. CASE WriteBody(m) /\ m \notin Bodiless
    <3>1. n % 2 = 1 /\ outWire[n].msg = m
      BY <2>3 DEF WriteBody, Goto, TailInv
    <3>2. /\ Len(outWire') = n + 1
          /\ \A i \in 1..n : outWire'[i] = outWire[i]
          /\ outWire'[n + 1].part = "body" /\ outWire'[n + 1].msg = m
      BY <2>3, <1>0 DEF WriteBody, Piece
    <3>3. (n + 1) % 2 = 0 /\ n >= 1 /\ (n + 1) - 1 = n
      BY <3>1, <1>0
    <3>4. WholeFrames'
      <4>1. outWire'[n + 1].part = (IF (n + 1) % 2 = 1 THEN "header" ELSE "body")
        BY <3>2, <3>3
      <4>2. outWire'[n + 1].msg = outWire[n].msg
        BY <3>1, <3>2
      <4> HIDE DEF n
      <4> QED
        BY <1>0, <3>2, <4>1, <4>2, OneMore DEF n
    <3>5. \A k \in Outgoing : phase'[k] # "halfWritten"
      BY <2>0, <2>3 DEF WriteBody, Goto, TypeOK
    <3> QED
      BY <3>2, <3>3, <3>4, <3>5 DEF TailInv
  <2>4. CASE WriteBody(m) /\ m \in Bodiless
    <3>1. /\ UNCHANGED <<outWire, conn>>
          /\ \A k \in Outgoing \ Bodiless : phase'[k] = phase[k]
      BY <2>4 DEF WriteBody, Goto, TypeOK
    <3> QED
      BY <3>1 DEF WholeFrames, TailInv
  <2>5. CASE WriteFails(m)
    BY <2>5 DEF WriteFails, WholeFrames, TailInv
  <2>6. CASE m \in Calls /\ (RegisterReply(m) \/ UnregisterReply(m) \/ ReceiveReply(m))
    BY <2>6 DEF RegisterReply, UnregisterReply, ReceiveReply, Goto, WholeFrames, TailInv, TypeOK
  <2>7. CASE LockWrite(m) \/ UnlockWrite(m)
    BY <2>7 DEF LockWrite, UnlockWrite, Goto, WholeFrames, TailInv, TypeOK
  <2> QED
    BY <1>2, <2>1, <2>2, <2>3, <2>4, <2>5, <2>6, <2>7 DEF SenderStep
<1>3. CASE ReceiveLoop
  BY <1>3, LoopFrame DEF WholeFrames, TailInv, messageVars
<1>4. CASE EnvironmentStep
  <2>1. CASE BusReads
    <3> DEFINE new == SubSeq(outWire, 3, n)
    <3>1. outWire' = new /\ n >= 2
      BY <2>1 DEF BusReads
    <3>2. /\ Len(new) = n - 2
          /\ \A i \in 1..(n - 2) : new[i] = outWire[i + 2]
      BY <1>0, <3>1, DropTwo
    <3>3. \A i \in 1..(n - 2) : i + 2 \in 1..n /\ i + 1 \in 1..n /\ (i + 2) % 2 = i % 2
      BY <1>0, <3>1
    <3>4. \A i \in 1..(n - 2) : i % 2 = 0 => i - 1 \in 1..(n - 2)
      BY <1>0, <3>1
    <3>5. WholeFrames'
      <4> SUFFICES ASSUME NEW i \in 1..(n - 2)
                   PROVE  /\ new[i].part = (IF i % 2 = 1 THEN "header" ELSE "body")
                          /\ i % 2 = 0 => new[i].msg = new[i - 1].msg
        BY <3>1, <3>2 DEF WholeFrames
      <4>1. new[i] = outWire[i + 2] /\ (i + 2) % 2 = i % 2 /\ i + 2 \in 1..n
        BY <3>2, <3>3
      <4>2. i % 2 = 0 => new[i - 1] = outWire[(i + 2) - 1]
        BY <3>2, <3>4, <1>0
      <4> QED
        BY <4>1, <4>2 DEF WholeFrames
    <3>6. (n - 2) % 2 = n % 2 /\ (n % 2 = 1 => new[n - 2] = outWire[n])
      BY <1>0, <3>1, <3>2
    <3>7. UNCHANGED <<phase, conn>>
      BY <2>1 DEF BusReads, messageVars
    <3> QED
      BY <3>1, <3>2, <3>5, <3>6, <3>7 DEF TailInv
  <2>2. CASE UNCHANGED outWire
    BY <1>4, <2>2, EnvironmentFrame DEF WholeFrames, TailInv, messageVars
  <2> QED
    BY <1>4, <2>1, <2>2 DEF EnvironmentStep, RegisterObjectPath, UnregisterObjectPath,
       HandlerDone, Close, PeerHangsUp, BusAnswers, BusRepeats, BusRequests
<1>5. CASE UNCHANGED vars
  BY <1>5 DEF WholeFrames, TailInv, vars, messageVars
<1> QED
  BY <1>1, <1>2, <1>3, <1>4, <1>5 DEF Next

\* A message the bus may have stays so, with its serial.
LEMMA WholeStable ==
  ASSUME TypeOK, [Next]_vars, NEW m \in Outgoing, MayBeWhole(m)
  PROVE  MayBeWhole(m)' /\ serial'[m] = serial[m]
<1>1. ASSUME NEW k \in Outgoing, NextSerial(k)
      PROVE  MayBeWhole(m)' /\ serial'[m] = serial[m]
  BY <1>1, StartFrame DEF MayBeWhole, Written
<1>2. ASSUME NEW k \in Outgoing, SenderStep(k)
      PROVE  MayBeWhole(m)' /\ serial'[m] = serial[m]
  BY <1>2 DEF TypeOK, MayBeWhole, Written, SenderStep, Goto, RegisterReply, UnregisterReply,
              ReceiveReply, LockWrite, WriteHeader, WriteBody, UnlockWrite, WriteFails
<1>3. CASE ReceiveLoop \/ EnvironmentStep \/ UNCHANGED vars
  BY <1>3, LoopFrame, EnvironmentFrame DEF MayBeWhole, vars, messageVars
<1> QED
  BY <1>1, <1>2, <1>3 DEF Next

\* The bus does not forget what it has answered.
LEMMA AnsweredGrows ==
  ASSUME TypeOK, [Next]_vars
  PROVE  answered \subseteq answered'
<1>1. ASSUME NEW m \in Outgoing, NextSerial(m) \/ SenderStep(m)
      PROVE  answered' = answered
  BY <1>1, StartFrame, SenderFrame DEF busVars
<1>2. CASE EnvironmentStep
  BY <1>2 DEF EnvironmentStep, RegisterObjectPath, UnregisterObjectPath, HandlerDone, Close,
              PeerHangsUp, BusReads, BusAnswers, BusRepeats, BusRequests, busVars
<1> QED
  BY <1>1, <1>2, LoopFrame DEF Next, vars, busVars

\* The bus reads whole messages, and answers what it has read.
LEMMA BusPreserved ==
  ASSUME TypeOK, WholeFrames, TailInv, BusInv, [Next]_vars
  PROVE  BusInv'
<1> DEFINE n == Len(outWire)
<1>0. /\ n \in Nat /\ outWire \in Seq(Frame)
      /\ \A i \in 1..n : outWire[i].msg \in Outgoing
      /\ atBus \subseteq Outgoing /\ answered \subseteq Outgoing
  <2>1. outWire \in Seq(Frame) /\ n \in Nat
    BY DEF TypeOK
  <2>2. \A i \in 1..n : outWire[i] \in Frame
    BY <2>1
  <2> QED
    BY <2>1, <2>2 DEF TypeOK, Frame, Outgoing, Answerable
<1>s. \A m \in Outgoing : MayBeWhole(m) => MayBeWhole(m)'
  BY WholeStable
<1>1. CASE UNCHANGED <<outWire, atBus, answered>>
  BY <1>0, <1>s, <1>1 DEF BusInv
<1>2. ASSUME NEW m \in Outgoing, WriteHeader(m)
      PROVE  BusInv'
  <2>1. UNCHANGED <<atBus, answered>>
    BY <1>2 DEF WriteHeader, busVars
  <2>2. CASE m \notin Bodiless
    <3>1. /\ Len(outWire') = n + 1 /\ outWire'[n + 1].part = "header"
          /\ \A i \in 1..n : outWire'[i] = outWire[i]
      BY <1>0, <1>2, <2>2 DEF WriteHeader, Piece
    <3> QED
      BY <1>0, <1>s, <2>1, <3>1 DEF BusInv
  <2>3. CASE m \in Bodiless
    <3> DEFINE first == Append(outWire, Piece(m, "header"))
    <3>1. /\ first \in Seq(Frame) /\ Len(first) = n + 1
          /\ \A i \in 1..n : first[i] = outWire[i]
          /\ first[n + 1].part = "header"
      BY <1>0 DEF Piece, Frame
    <3>2. outWire' = Append(first, Piece(m, "body"))
      BY <1>2, <2>3 DEF WriteHeader
    <3>3. /\ Len(outWire') = n + 2 /\ outWire'[n + 2].msg = m
          /\ \A i \in 1..n : outWire'[i] = outWire[i]
          /\ outWire'[n + 1].part = "header"
      BY <1>0, <3>1, <3>2 DEF Piece
    <3>4. MayBeWhole(m)'
      BY <1>2, <2>3 DEF WriteHeader, Goto, TypeOK, MayBeWhole
    <3>5. \A i \in 1..(n + 2) : i \in 1..n \/ i = n + 1 \/ i = n + 2
      BY <1>0
    <3>6. (\A i \in 1..Len(outWire) : outWire[i].part = "body" => MayBeWhole(outWire[i].msg))'
      BY <1>0, <1>s, <3>3, <3>4, <3>5 DEF BusInv
    <3> QED
      BY <1>0, <1>s, <2>1, <3>6 DEF BusInv
  <2> QED
    BY <2>2, <2>3
<1>3. ASSUME NEW m \in Outgoing, WriteBody(m)
      PROVE  BusInv'
  <2>1. MayBeWhole(m)' /\ UNCHANGED <<atBus, answered>>
    BY <1>3 DEF WriteBody, busVars, Goto, TypeOK, MayBeWhole, Written
  <2>2. CASE m \notin Bodiless
    <3>1. /\ Len(outWire') = n + 1 /\ outWire'[n + 1].msg = m
          /\ \A i \in 1..n : outWire'[i] = outWire[i]
      BY <1>0, <1>3, <2>2 DEF WriteBody, Piece
    <3> QED
      BY <1>0, <1>s, <2>1, <3>1 DEF BusInv
  <2>3. CASE m \in Bodiless
    BY <1>1, <1>3, <2>1, <2>3 DEF WriteBody
  <2> QED
    BY <2>2, <2>3
<1>4. CASE BusReads
  <2>1. /\ Len(outWire') = n - 2 /\ n >= 2
        /\ \A i \in 1..(n - 2) : outWire'[i] = outWire[i + 2]
    BY <1>0, <1>4, DropTwo DEF BusReads
  <2>2. MayBeWhole(outWire[1].msg)
    BY <1>0, <2>1 DEF WholeFrames, BusInv
  <2>3. \A m \in atBus' \union answered' : m \in Outgoing /\ MayBeWhole(m)
    BY <1>0, <1>4, <2>1, <2>2 DEF BusReads, BusInv
  <2>4. \A i \in 1..(n - 2) : i + 2 \in 1..n
    BY <1>0, <2>1
  <2> QED
    BY <1>0, <1>s, <2>1, <2>3, <2>4 DEF BusInv
<1>5. ASSUME NEW m \in Answerable, BusAnswers(m)
      PROVE  BusInv'
  <2>1. answered' = answered \union {m} /\ m \in atBus /\ UNCHANGED <<outWire, atBus>>
    BY <1>5 DEF BusAnswers
  <2> QED
    BY <1>0, <1>s, <2>1 DEF BusInv
<1>6. ASSUME NEW m \in Outgoing, NextSerial(m) \/ SenderStep(m), ~ WriteHeader(m), ~ WriteBody(m)
      PROVE  UNCHANGED <<outWire, atBus, answered>>
  BY <1>6 DEF SenderStep, NextSerial, RegisterReply, UnregisterReply, ReceiveReply, LockWrite,
              UnlockWrite, WriteFails, busVars
<1>7. CASE ReceiveLoop \/ UNCHANGED vars
  BY <1>1, <1>7, LoopFrame DEF busVars, vars
<1>8. CASE EnvironmentStep
  BY <1>1, <1>4, <1>5, <1>8
  DEF EnvironmentStep, RegisterObjectPath, UnregisterObjectPath, HandlerDone, Close, PeerHangsUp,
      BusRepeats, BusRequests, busVars
<1> QED
  BY <1>1, <1>2, <1>3, <1>6, <1>7, <1>8 DEF Next

\* Replies that are under way are genuine.
LEMMA InboundPreserved ==
  ASSUME TypeOK, BusInv, InboundInv, [Next]_vars
  PROVE  InboundInv'
<1>0. /\ inWire \in Seq(Inbound) /\ answered \subseteq Outgoing
      /\ loopPc \in {"dispatch", "deliver"} => loopMsg \in Inbound
  BY DEF TypeOK, Outgoing, Answerable
<1>1. answered \subseteq answered'
  BY AnsweredGrows
<1>2. \A m \in answered : m \in answered' /\ serial'[m] = serial[m]
  BY <1>0, <1>1, WholeStable DEF BusInv
<1>3. \A msg : GenuineReply(msg) => GenuineReply(msg)'
  BY <1>2 DEF GenuineReply
<1>4. CASE UNCHANGED <<inWire, loopPc, loopMsg>>
  BY <1>3, <1>4 DEF InboundInv
<1>5. ASSUME NEW m \in Outgoing, NextSerial(m) \/ SenderStep(m)
      PROVE  UNCHANGED <<inWire, loopPc, loopMsg>>
  BY <1>5, StartFrame, SenderFrame DEF loopVars
<1>6. CASE ReadMessage
  <2>1. inWire # <<>> /\ inWire' = Tail(inWire) /\ loopMsg' = Head(inWire)
    BY <1>6 DEF ReadMessage
  <2>2. /\ loopMsg' = inWire[1] /\ Len(inWire') = Len(inWire) - 1
        /\ \A i \in 1..Len(inWire') : inWire'[i] = inWire[i + 1] /\ i + 1 \in 1..Len(inWire)
    BY <1>0, <2>1
  <2> QED
    BY <1>0, <1>3, <2>1, <2>2 DEF InboundInv
<1>7. CASE ReceiveLoop /\ ~ ReadMessage
  <2>1. UNCHANGED <<inWire, loopMsg>>
    BY <1>7 DEF ReceiveLoop, ReadFails, DispatchSwallowed, DispatchReply, DeliverReply,
                DispatchToPeer, LoopReplied, DispatchToHandler, HandOff
  <2>2. loopPc' \in {"dispatch", "deliver"} => loopPc = "dispatch"
    BY <1>7 DEF ReceiveLoop, LoopGoto, ReadFails, DispatchSwallowed, DispatchReply, DeliverReply,
                DispatchToPeer, LoopReplied, DispatchToHandler, HandOff
  <2> QED
    BY <1>3, <2>1, <2>2 DEF InboundInv
<1>8. ASSUME NEW m \in Answerable, BusAnswers(m) \/ BusRepeats(m)
      PROVE  InboundInv'
  <2>1. PICK msg : /\ msg = [type |-> "reply", replySerial |-> serial[m], id |-> m]
                   /\ inWire' \in {Append(inWire, msg), <<msg>>}
    BY <1>8 DEF BusAnswers, BusRepeats
  <2>2. GenuineReply(msg)'
    BY <1>8, <2>1 DEF GenuineReply, BusAnswers, BusRepeats, messageVars, busVars
  <2>3. \A i \in 1..Len(inWire') : inWire'[i] = msg \/ (i \in 1..Len(inWire) /\ inWire'[i] = inWire[i])
    BY <1>0, <2>1
  <2>4. UNCHANGED loopVars
    BY <1>8, EnvironmentFrame DEF EnvironmentStep
  <2> QED
    BY <1>3, <2>2, <2>3, <2>4 DEF InboundInv, loopVars
<1>9. ASSUME NEW r \in Requests, BusRequests(r)
      PROVE  InboundInv'
  <2> DEFINE msg == [type |-> "call", replySerial |-> 0, id |-> r]
  <2>1. inWire' = Append(inWire, msg) /\ UNCHANGED loopVars
    BY <1>9 DEF BusRequests
  <2>2. GenuineReply(msg)'
    BY DEF GenuineReply
  <2>3. \A i \in 1..Len(inWire') : inWire'[i] = msg \/ (i \in 1..Len(inWire) /\ inWire'[i] = inWire[i])
    BY <1>0, <2>1
  <2> QED
    BY <1>3, <2>1, <2>2, <2>3 DEF InboundInv, loopVars
<1>10. CASE EnvironmentStep
  BY <1>4, <1>8, <1>9, <1>10
  DEF EnvironmentStep, RegisterObjectPath, UnregisterObjectPath, HandlerDone, Close, PeerHangsUp,
      BusReads, loopVars
<1> QED
  BY <1>4, <1>5, <1>6, <1>7, <1>10 DEF Next, vars, loopVars

(***************************************************************************)
(* Serials in use.                                                         *)
(***************************************************************************)
\* A call that was begun and has not come to its end needs its serial, and so
\* does a message with an answer on its way.
LEMMA UnderWayInUse ==
  ASSUME NEW c \in Calls, phase[c] \in InFlight \union {"toRegister", "toUnregister"}
  PROVE  InUse(c)
BY DEF InUse, InFlight, Answerable

LEMMA AnsweredInUse ==
  ASSUME BusInv, NEW m \in Answerable, m \in answered, OnItsWay(m)
  PROVE  InUse(m)
BY DEF InUse, BusInv, MayBeWhole, Written

\* Only messages with an answer to come, or peers that repeat one, put a reply on
\* its way.
LEMMA OnItsWayFrom ==
  ASSUME TypeOK, BusInv, [Next]_vars, NEW m \in Outgoing, OnItsWay(m)'
  PROVE  OnItsWay(m) \/ BusAnswers(m) \/ (m \in Repeated /\ BusRepeats(m))
<1> USE ConnectionAssumption DEF Outgoing, Answerable
<1>0. inWire \in Seq(Inbound)
  BY DEF TypeOK
<1>1. CASE UNCHANGED <<inWire, loopPc, loopMsg>>
  BY <1>1 DEF OnItsWay
<1>2. ASSUME NEW k \in Outgoing, NextSerial(k) \/ SenderStep(k)
      PROVE  UNCHANGED <<inWire, loopPc, loopMsg>>
  BY <1>2, StartFrame, SenderFrame DEF loopVars
<1>3. CASE ReadMessage
  <2>1. inWire # <<>> /\ inWire' = Tail(inWire) /\ loopMsg' = Head(inWire)
    BY <1>3 DEF ReadMessage
  <2>2. /\ loopMsg' = inWire[1] /\ 1 \in 1..Len(inWire)
        /\ \A i \in 1..Len(inWire') : inWire'[i] = inWire[i + 1] /\ i + 1 \in 1..Len(inWire)
    BY <1>0, <2>1
  <2> QED
    BY <2>2 DEF OnItsWay
<1>4. CASE ReceiveLoop /\ ~ ReadMessage
  <2>1. UNCHANGED inWire /\ loopPc' # "dispatch"
    BY <1>4 DEF ReceiveLoop, LoopGoto, ReadFails, DispatchSwallowed, DispatchReply, DeliverReply,
                DispatchToPeer, LoopReplied, DispatchToHandler, HandOff
  <2> QED
    BY <2>1 DEF OnItsWay
<1>5. ASSUME NEW k \in Answerable, BusAnswers(k) \/ BusRepeats(k)
      PROVE  OnItsWay(m) \/ BusAnswers(m) \/ (m \in Repeated /\ BusRepeats(m))
  <2>1. PICK msg : /\ msg = [type |-> "reply", replySerial |-> serial[k], id |-> k]
                   /\ inWire' \in {Append(inWire, msg), <<msg>>}
    BY <1>5 DEF BusAnswers, BusRepeats
  <2>2. \A i \in 1..Len(inWire') : inWire'[i] = msg \/ (i \in 1..Len(inWire) /\ inWire'[i] = inWire[i])
    BY <1>0, <2>1
  <2>3. UNCHANGED <<loopPc, loopMsg>>
    BY <1>5, EnvironmentFrame DEF EnvironmentStep, loopVars
  <2>4. OnItsWay(m) \/ m = k
    BY <2>1, <2>2, <2>3 DEF OnItsWay
  <2> QED
    BY <1>5, <2>4 DEF BusRepeats
<1>6. ASSUME NEW r \in Requests, BusRequests(r)
      PROVE  OnItsWay(m)
  <2> DEFINE msg == [type |-> "call", replySerial |-> 0, id |-> r]
  <2>1. inWire' = Append(inWire, msg) /\ UNCHANGED <<loopPc, loopMsg>>
    BY <1>6 DEF BusRequests, loopVars
  <2>2. \A i \in 1..Len(inWire') : inWire'[i] = msg \/ (i \in 1..Len(inWire) /\ inWire'[i] = inWire[i])
    BY <1>0, <2>1
  <2>3. msg.type # "reply"
    OBVIOUS
  <2> QED
    BY <2>1, <2>2, <2>3 DEF OnItsWay
<1>7. CASE EnvironmentStep
  BY <1>1, <1>5, <1>6, <1>7
  DEF EnvironmentStep, RegisterObjectPath, UnregisterObjectPath, HandlerDone, Close, PeerHangsUp,
      BusReads, loopVars
<1> QED
  BY <1>1, <1>2, <1>3, <1>4, <1>7 DEF Next, vars, loopVars

\* A serial comes into use when it is given out, and at no other time.
LEMMA InUseFrom ==
  ASSUME TypeOK, BusInv, DownInv, [Next]_vars, NEW m \in Outgoing, InUse(m)'
  PROVE  (InUse(m) /\ serial'[m] = serial[m]) \/ NextSerial(m)
<1> USE ConnectionAssumption DEF Outgoing, Answerable
<1>1. answered \subseteq answered'
  BY AnsweredGrows
<1>2. NextSerial(m) \/ /\ phase[m] # "new" /\ serial'[m] = serial[m]
                       /\ phase[m] = "failed" => phase'[m] = "failed"
                       /\ phase[m] = "returned" => phase'[m] = "returned"
  <2>1. ASSUME NEW k \in Outgoing, NextSerial(k), k # m
        PROVE  phase'[m] = phase[m] /\ serial'[m] = serial[m]
    BY <2>1, StartFrame
  <2>2. ASSUME NEW k \in Outgoing, SenderStep(k)
        PROVE  /\ phase[m] # "new" /\ serial'[m] = serial[m]
               /\ phase[m] = "failed" => phase'[m] = "failed"
               /\ phase[m] = "returned" => phase'[m] = "returned"
    BY <2>2 DEF InUse, TypeOK, SenderStep, Goto, RegisterReply, UnregisterReply, ReceiveReply,
                LockWrite, WriteHeader, WriteBody, UnlockWrite, WriteFails
  <2>3. CASE ReceiveLoop \/ EnvironmentStep \/ UNCHANGED vars
    <3>1. UNCHANGED messageVars
      BY <2>3, LoopFrame, EnvironmentFrame DEF vars
    <3> QED
      BY <3>1 DEF InUse, messageVars
  <2> QED
    BY <2>1, <2>2, <2>3 DEF Next, InUse
<1>3. OnItsWay(m)' => OnItsWay(m) \/ BusAnswers(m) \/ (m \in Repeated /\ BusRepeats(m))
  BY OnItsWayFrom
<1>4. BusAnswers(m) => m \notin answered /\ phase[m] # "failed"
  BY DEF BusAnswers, DownInv
<1>5. BusRepeats(m) => phase[m] # "failed"
  BY DEF BusRepeats, DownInv
<1> QED
  BY <1>1, <1>2, <1>3, <1>4, <1>5 DEF InUse

\* A serial that was given out while it was in use stays known as such.
LEMMA ReusedStays ==
  ASSUME TypeOK, [Next]_vars
  PROVE  /\ reused => reused'
         /\ (\A m \in Outgoing : ~ NextSerial(m)) => reused' = reused
<1>1. ASSUME NEW m \in Outgoing, NextSerial(m)
      PROVE  reused => reused'
  BY <1>1 DEF NextSerial
<1>2. ASSUME NEW m \in Outgoing, SenderStep(m)
      PROVE  reused' = reused
  BY <1>2, SenderFrame
<1>3. CASE ReceiveLoop \/ EnvironmentStep \/ UNCHANGED vars
  BY <1>3, LoopFrame, EnvironmentFrame DEF vars, messageVars
<1> QED
  BY <1>1, <1>2, <1>3 DEF Next

\* Unless one is reused, the serials in use stay distinct.
LEMMA SerialPreserved ==
  ASSUME ~ reused', TypeOK, BusInv, DownInv, SerialInv, [Next]_vars
  PROVE  SerialInv'
<1>1. SUFFICES ASSUME NEW m \in Outgoing, NEW n \in Outgoing, InUse(m)', InUse(n)',
                      serial'[m] = serial'[n]
               PROVE  m = n
  BY DEF SerialInv
<1>2. ASSUME NEW k \in Outgoing, NextSerial(k), NEW l \in Outgoing, l # k, InUse(l)
      PROVE  serial'[l] # serial'[k]
  BY <1>2, StartFrame DEF NextSerial, TypeOK
<1>3. ASSUME NEW k \in Outgoing, NextSerial(k), NEW l \in Outgoing, NextSerial(l)
      PROVE  k = l
  BY <1>3, StartFrame
<1> QED
  BY <1>1, <1>2, <1>3, InUseFrom DEF SerialInv

-----------------------------------------------------------------------------
\* The waiter the receive loop finds under the serial of a reply is a call under way ...
LEMMA WaiterIsWaiting ==
  ASSUME TypeOK, EntryInv, DispatchReply,
         NEW c \in Calls, methodCallReplies[loopMsg.replySerial] = c
  PROVE  /\ loopMsg.replySerial \in Serials /\ serial[c] = loopMsg.replySerial
         /\ phase[c] \in InFlight \union {"toUnregister"} /\ replyChan[c] = <<>>
<1>1. loopMsg.replySerial \in Serials
  BY ConnectionAssumption DEF DispatchReply, Dispatching, TypeOK, Inbound, Serials
<1> QED
  BY <1>1 DEF EntryInv

\* ... and, while the serials in use are distinct, the call the reply answers.
LEMMA WaiterIsOwn ==
  ASSUME TypeOK, SerialInv, BusInv, InboundInv, EntryInv, DispatchReply,
         NEW c \in Calls, methodCallReplies[loopMsg.replySerial] = c
  PROVE  c = loopMsg.id /\ MayBeWhole(c) /\ phase[c] # "returned"
<1>1. loopPc = "dispatch" /\ loopMsg.type = "reply"
  BY DEF DispatchReply, Dispatching
<1>2. loopMsg.id \in answered /\ loopMsg.replySerial = serial[loopMsg.id]
  BY <1>1 DEF InboundInv, GenuineReply
<1>3. loopMsg.id \in Answerable /\ MayBeWhole(loopMsg.id)
  BY <1>2 DEF BusInv, TypeOK
<1>4. InUse(c) /\ InUse(loopMsg.id)
  BY <1>1, <1>2, <1>3, WaiterIsWaiting, UnderWayInUse, AnsweredInUse DEF OnItsWay
<1>5. c = loopMsg.id
  BY <1>2, <1>3, <1>4, WaiterIsWaiting DEF SerialInv, Outgoing, Answerable
<1> QED
  BY <1>3, <1>5, WaiterIsWaiting DEF InFlight

\* An entry belongs to a call under way that no reply has reached.
LEMMA EntryPreserved ==
  ASSUME TypeOK, EntryInv, RoomInv, [Next]_vars
  PROVE  EntryInv'
<1> USE ConnectionAssumption DEF Outgoing, Answerable
<1>1. ASSUME NEW m \in Outgoing, NextSerial(m)
      PROVE  EntryInv'
  BY <1>1, StartFrame DEF EntryInv, callVars, loopVars, InFlight
<1>2. ASSUME NEW m \in Outgoing, SenderStep(m)
      PROVE  EntryInv'
  <2>1. UNCHANGED loopVars /\ UNCHANGED serial
    BY <1>2, SenderFrame
  <2>2. CASE m \in Calls /\ RegisterReply(m)
    BY <2>1, <2>2 DEF RegisterReply, Goto, EntryInv, RoomInv, TypeOK, InFlight, loopVars
  <2>3. CASE m \in Calls /\ UnregisterReply(m)
    BY <2>1, <2>3 DEF UnregisterReply, Goto, EntryInv, TypeOK, loopVars
  <2>4. CASE m \in Calls /\ ReceiveReply(m)
    BY <2>1, <2>4 DEF ReceiveReply, Goto, EntryInv, TypeOK, loopVars
  <2>5. CASE LockWrite(m) \/ WriteHeader(m) \/ WriteBody(m) \/ UnlockWrite(m) \/ WriteFails(m)
    <3>1. UNCHANGED callVars
      BY <2>5 DEF LockWrite, WriteHeader, WriteBody, UnlockWrite, WriteFails
    <3>2. m \in Calls => phase'[m] \in InFlight \union {"toUnregister"}
      BY <2>5 DEF LockWrite, WriteHeader, WriteBody, UnlockWrite, WriteFails, Goto, TypeOK, InFlight
    <3> QED
      BY <1>2, <2>1, <3>1, <3>2, SenderFrame DEF EntryInv, callVars, loopVars
  <2> QED
    BY <1>2, <2>2, <2>3, <2>4, <2>5 DEF SenderStep
<1>3. CASE DispatchReply
  <2>1. CASE methodCallReplies[loopMsg.replySerial] = None
    BY <1>3, <2>1 DEF DispatchReply, LoopGoto, EntryInv, TypeOK, messageVars
  <2>2. CASE methodCallReplies[loopMsg.replySerial] # None
    <3>1. loopMsg.replySerial \in Serials
      BY <1>3 DEF DispatchReply, Dispatching, TypeOK, Inbound, Serials
    <3>2. PICK w \in Calls : methodCallReplies[loopMsg.replySerial] = w
      BY <2>2, <3>1 DEF TypeOK
    <3>3. serial[w] = loopMsg.replySerial
      BY <1>3, <3>2, WaiterIsWaiting
    <3> QED
      BY <1>3, <2>2, <3>1, <3>2, <3>3 DEF DispatchReply, LoopGoto, EntryInv, TypeOK, messageVars
  <2> QED
    BY <2>1, <2>2
<1>4. CASE DeliverReply
  BY <1>4 DEF DeliverReply, LoopGoto, EntryInv, TypeOK, messageVars
<1>5. CASE ReceiveLoop /\ ~ DispatchReply /\ ~ DeliverReply
  BY <1>5 DEF ReceiveLoop, LoopGoto, ReadMessage, ReadFails, DispatchSwallowed, DispatchToPeer,
              LoopReplied, DispatchToHandler, HandOff, EntryInv, messageVars, callVars
<1>6. CASE EnvironmentStep \/ UNCHANGED vars
  BY <1>6, EnvironmentFrame DEF EntryInv, vars, messageVars, callVars, loopVars
<1> QED
  BY <1>1, <1>2, <1>3, <1>4, <1>5, <1>6 DEF Next

\* A call gets one message at most: the receive loop sends to a channel only after
\* it took the channel's entry, and an entry is made once.
LEMMA RoomPreserved ==
  ASSUME TypeOK, EntryInv, RoomInv, [Next]_vars
  PROVE  RoomInv'
<1> USE ConnectionAssumption DEF Outgoing, Answerable
<1>0. loopPc = "deliver" => loopChan \in Calls
  BY DEF TypeOK
<1>1. ASSUME NEW m \in Outgoing, NextSerial(m)
      PROVE  RoomInv'
  BY <1>0, <1>1, StartFrame DEF RoomInv, callVars, loopVars
<1>2. ASSUME NEW m \in Outgoing, SenderStep(m)
      PROVE  RoomInv'
  <2>1. UNCHANGED loopVars
    BY <1>2, SenderFrame
  <2>2. CASE m \in Calls /\ ReceiveReply(m)
    BY <1>0, <2>1, <2>2 DEF ReceiveReply, Goto, RoomInv, TypeOK, loopVars
  <2>3. CASE ~ (m \in Calls /\ ReceiveReply(m))
    <3>1. UNCHANGED replyChan
      BY <1>2, <2>3 DEF SenderStep, RegisterReply, UnregisterReply, LockWrite, WriteHeader,
                        WriteBody, UnlockWrite, WriteFails, callVars
    <3>2. phase'[m] \notin {"new", "toRegister", "returned"}
      BY <1>2, <2>3 DEF SenderStep, RegisterReply, UnregisterReply, LockWrite, WriteHeader,
                        WriteBody, UnlockWrite, WriteFails, Goto, TypeOK
    <3> QED
      BY <1>0, <1>2, <2>1, <3>1, <3>2, SenderFrame DEF RoomInv, loopVars
  <2> QED
    BY <2>2, <2>3
<1>3. CASE DispatchReply
  <2>1. UNCHANGED <<phase, replyChan>>
    BY <1>3 DEF DispatchReply, messageVars
  <2>2. CASE loopPc' = "deliver"
    <3>1. loopChan' = methodCallReplies[loopMsg.replySerial] /\ loopChan' # None
      BY <1>3, <2>2 DEF DispatchReply, LoopGoto
    <3>2. loopMsg.replySerial \in Serials
      BY <1>3 DEF DispatchReply, Dispatching, TypeOK, Inbound, Serials
    <3>3. loopChan' \in Calls
      BY <3>1, <3>2 DEF TypeOK
    <3> QED
      BY <1>3, <2>1, <3>1, <3>3, WaiterIsWaiting DEF RoomInv, InFlight
  <2> QED
    BY <2>1, <2>2 DEF RoomInv
<1>4. CASE DeliverReply
  BY <1>0, <1>4 DEF DeliverReply, LoopGoto, RoomInv, TypeOK, messageVars
<1>5. CASE ReceiveLoop /\ ~ DispatchReply /\ ~ DeliverReply
  BY <1>5 DEF ReceiveLoop, LoopGoto, ReadMessage, ReadFails, DispatchSwallowed, DispatchToPeer,
              LoopReplied, DispatchToHandler, HandOff, RoomInv, messageVars, callVars
<1>6. CASE EnvironmentStep \/ UNCHANGED vars
  BY <1>6, EnvironmentFrame DEF RoomInv, vars, messageVars, callVars, loopVars
<1> QED
  BY <1>1, <1>2, <1>3, <1>4, <1>5, <1>6 DEF Next

\* A message is given up only when a write fails, and a write only when the connection is down.
LEMMA DownPreserved ==
  ASSUME TypeOK, DownInv, [Next]_vars
  PROVE  DownInv'
<1> USE ConnectionAssumption DEF Outgoing, Answerable
<1>1. ASSUME NEW m \in Outgoing, NextSerial(m)
      PROVE  DownInv'
  BY <1>1, StartFrame DEF DownInv
<1>2. ASSUME NEW m \in Outgoing, SenderStep(m)
      PROVE  DownInv'
  <2>1. phase'[m] \in {"toUnregister", "failed"} => conn # "up"
    BY <1>2 DEF DownInv, SenderStep, RegisterReply, UnregisterReply, ReceiveReply, LockWrite, WriteHeader,
                WriteBody, UnlockWrite, WriteFails, Goto, TypeOK
  <2> QED
    BY <1>2, <2>1, SenderFrame DEF DownInv
<1>3. CASE ReceiveLoop \/ EnvironmentStep \/ UNCHANGED vars
  BY <1>3, LoopFrame, EnvironmentFrame DEF DownInv, vars, messageVars
<1> QED
  BY <1>1, <1>2, <1>3 DEF Next

\* A call keeps its entry until its own reply is dispatched.
LEMMA WaiterPreserved ==
  ASSUME TypeOK, SerialInv, BusInv, InboundInv, EntryInv, WaiterInv, [Next]_vars
  PROVE  WaiterInv'
<1> USE ConnectionAssumption DEF Outgoing, Answerable
<1>0. \A c, d \in Calls :
         /\ {phase[c], phase[d]} \subseteq InFlight \union {"toRegister", "toUnregister"}
         /\ serial[c] = serial[d]
         => c = d
  BY UnderWayInUse DEF SerialInv
<1>1. ASSUME NEW m \in Outgoing, NextSerial(m)
      PROVE  WaiterInv'
  BY <1>1, StartFrame DEF WaiterInv, callVars, busVars, InFlight
<1>2. ASSUME NEW m \in Outgoing, SenderStep(m)
      PROVE  WaiterInv'
  <2>1. UNCHANGED <<answered, serial>>
    BY <1>2, SenderFrame DEF busVars
  <2>2. CASE m \in Calls /\ RegisterReply(m)
    BY <1>0, <2>1, <2>2 DEF RegisterReply, Goto, WaiterInv, TypeOK, InFlight
  <2>3. CASE m \in Calls /\ UnregisterReply(m)
    BY <1>0, <2>1, <2>3 DEF UnregisterReply, Goto, WaiterInv, TypeOK, InFlight
  <2>4. CASE m \in Calls /\ ReceiveReply(m)
    BY <2>1, <2>4 DEF ReceiveReply, Goto, WaiterInv, TypeOK, InFlight
  <2>5. CASE LockWrite(m) \/ WriteHeader(m) \/ WriteBody(m) \/ UnlockWrite(m) \/ WriteFails(m)
    <3>1. UNCHANGED callVars
      BY <2>5 DEF LockWrite, WriteHeader, WriteBody, UnlockWrite, WriteFails
    <3>2. phase'[m] \in InFlight => phase[m] \in InFlight
      BY <2>5 DEF LockWrite, WriteHeader, WriteBody, UnlockWrite, WriteFails, Goto, TypeOK, InFlight
    <3> QED
      BY <1>2, <2>1, <3>1, <3>2, SenderFrame DEF WaiterInv, callVars
  <2> QED
    BY <1>2, <2>2, <2>3, <2>4, <2>5 DEF SenderStep
<1>3. CASE DispatchReply
  <2>1. /\ loopMsg.id \in answered /\ loopMsg.replySerial = serial[loopMsg.id]
        /\ loopPc = "dispatch" /\ loopMsg.type = "reply"
    BY <1>3 DEF DispatchReply, Dispatching, InboundInv, GenuineReply
  <2>2. loopMsg.id \in Answerable /\ InUse(loopMsg.id) /\ loopMsg.replySerial \in Serials
    BY <2>1, AnsweredInUse DEF TypeOK, OnItsWay
  <2>3. \A c \in Calls \ answered : phase[c] \in InFlight => serial[c] # loopMsg.replySerial
    BY <2>1, <2>2, UnderWayInUse DEF SerialInv
  <2>4. \A c \in Calls : serial[c] \in Serials
    BY DEF TypeOK
  <2> QED
    BY <1>3, <2>2, <2>3, <2>4 DEF DispatchReply, WaiterInv, TypeOK, messageVars, busVars
<1>4. CASE ReceiveLoop /\ ~ DispatchReply
  BY <1>4 DEF ReceiveLoop, ReadMessage, ReadFails, DispatchSwallowed, DeliverReply, DispatchToPeer,
              LoopReplied, DispatchToHandler, HandOff, WaiterInv, messageVars, callVars, busVars
<1>5. CASE EnvironmentStep
  <2>1. answered \subseteq answered'
    BY <1>5 DEF EnvironmentStep, RegisterObjectPath, UnregisterObjectPath, HandlerDone, Close,
                PeerHangsUp, BusReads, BusAnswers, BusRepeats, BusRequests, busVars
  <2> QED
    BY <1>5, <2>1, EnvironmentFrame DEF WaiterInv, messageVars, callVars
<1>6. CASE UNCHANGED vars
  BY <1>6 DEF WaiterInv, vars, messageVars, callVars, busVars
<1> QED
  BY <1>1, <1>2, <1>3, <1>4, <1>5, <1>6 DEF Next

\* A reply reaches the channel of the call it answers, and from there the call.
LEMMA DeliveryPreserved ==
  ASSUME ~ reused, TypeOK, SerialInv, BusInv, InboundInv, EntryInv, RoomInv, DeliveryInv, OwnReply,
         [Next]_vars
  PROVE  DeliveryInv' /\ OwnReply'
<1> USE ConnectionAssumption DEF Outgoing, Answerable
<1>0. answered \subseteq answered' /\ (loopPc = "deliver" => loopChan \in Calls)
  BY AnsweredGrows DEF TypeOK
<1>s. \A c \in Calls : MayBeWhole(c) => MayBeWhole(c)'
  BY WholeStable
<1>1. ASSUME NEW m \in Outgoing, NextSerial(m)
      PROVE  DeliveryInv' /\ OwnReply'
  <2>1. /\ UNCHANGED <<replyChan, reply, loopPc, loopMsg, loopChan>>
        /\ \A c \in Calls : IF phase[c] = "new" THEN phase'[c] # "returned"
                                                ELSE phase'[c] = phase[c]
    BY <1>1, StartFrame DEF callVars, loopVars
  <2> QED
    BY <1>0, <1>s, <2>1 DEF DeliveryInv, OwnReply
<1>2. ASSUME NEW m \in Outgoing, SenderStep(m)
      PROVE  DeliveryInv' /\ OwnReply'
  <2>1. UNCHANGED loopVars
    BY <1>2, SenderFrame
  <2>2. CASE m \in Calls /\ ReceiveReply(m)
    <3>1. replyChan[m] = <<m>> /\ m \in answered
      BY <2>2 DEF ReceiveReply, DeliveryInv
    <3>2. reply' = [reply EXCEPT ![m] = m] /\ replyChan' = [replyChan EXCEPT ![m] = <<>>]
      BY <2>2, <3>1 DEF ReceiveReply
    <3>3. phase' = [phase EXCEPT ![m] = "returned"]
      BY <2>2 DEF ReceiveReply, Goto
    <3>4. OwnReply'
      BY <3>2 DEF OwnReply, TypeOK
    <3>5. ~ (loopPc = "deliver" /\ loopChan = m)
      BY <2>2 DEF ReceiveReply, RoomInv
    <3> QED
      BY <1>0, <1>s, <2>1, <3>1, <3>2, <3>3, <3>4, <3>5 DEF DeliveryInv, TypeOK, loopVars
  <2>3. CASE ~ (m \in Calls /\ ReceiveReply(m))
    <3>1. UNCHANGED <<replyChan, reply>>
      BY <1>2, <2>3 DEF SenderStep, RegisterReply, UnregisterReply, LockWrite, WriteHeader,
                        WriteBody, UnlockWrite, WriteFails, callVars
    <3>2. phase'[m] # "returned"
      BY <1>2, <2>3 DEF SenderStep, RegisterReply, UnregisterReply, LockWrite, WriteHeader,
                        WriteBody, UnlockWrite, WriteFails, Goto, TypeOK
    <3>3. DeliveryInv' /\ OwnReply'
      <4>1. \A c \in Calls : /\ MayBeWhole(c) => MayBeWhole(c)'
                             /\ phase'[c] = "returned" => phase[c] = "returned"
        BY <1>2, <3>2, SenderFrame, WholeStable
      <4>2. UNCHANGED <<loopPc, loopMsg, loopChan>>
        BY <2>1 DEF loopVars
      <4> QED
        BY <1>0, <3>1, <4>1, <4>2 DEF DeliveryInv, OwnReply
    <3> QED
      BY <3>3
  <2> QED
    BY <2>2, <2>3
<1>3. CASE DispatchReply
  <2>1. UNCHANGED <<phase, replyChan, reply, loopMsg>>
    BY <1>3 DEF DispatchReply, messageVars
  <2>2. CASE loopPc' = "deliver"
    <3>1. loopChan' = methodCallReplies[loopMsg.replySerial] /\ loopChan' # None
      BY <1>3, <2>2 DEF DispatchReply, LoopGoto
    <3>2. loopMsg.replySerial \in Serials
      BY <1>3 DEF DispatchReply, Dispatching, TypeOK, Inbound, Serials
    <3>3. loopChan' \in Calls
      BY <3>1, <3>2 DEF TypeOK
    <3> QED
      BY <1>0, <1>s, <1>3, <2>1, <3>1, <3>3, WaiterIsOwn DEF DeliveryInv, OwnReply
  <2> QED
    BY <1>0, <1>s, <2>1, <2>2 DEF DeliveryInv, OwnReply
<1>4. CASE DeliverReply
  <2>1. /\ loopChan \in Calls /\ loopChan = loopMsg.id /\ loopMsg.id \in answered
        /\ MayBeWhole(loopChan) /\ phase[loopChan] # "returned"
    BY <1>0, <1>4 DEF DeliverReply, LoopGoto, InboundInv, GenuineReply, DeliveryInv, TypeOK
  <2>2. replyChan' = [replyChan EXCEPT ![loopChan] = <<loopChan>>]
    BY <1>4, <2>1 DEF DeliverReply
  <2> QED
    BY <1>0, <1>s, <1>4, <2>1, <2>2
    DEF DeliverReply, LoopGoto, DeliveryInv, OwnReply, TypeOK, messageVars
<1>5. CASE ReceiveLoop /\ ~ DispatchReply /\ ~ DeliverReply
  BY <1>0, <1>s, <1>5
  DEF ReceiveLoop, LoopGoto, ReadMessage, ReadFails, DispatchSwallowed, DispatchToPeer,
      LoopReplied, DispatchToHandler, HandOff, DeliveryInv, OwnReply, messageVars, callVars
<1>6. CASE EnvironmentStep \/ UNCHANGED vars
  BY <1>0, <1>s, <1>6, EnvironmentFrame DEF DeliveryInv, OwnReply, vars, messageVars, callVars, loopVars
<1> QED
  BY <1>1, <1>2, <1>3, <1>4, <1>5, <1>6 DEF Next

\* A reply stays on its way, with its call in the table, until it is delivered.
LEMMA AnswerPreserved ==
  ASSUME ~ reused, TypeOK, SerialInv, BusInv, DownInv, InboundInv, EntryInv, WaiterInv,
         AnswerNotLost, [Next]_vars
  PROVE  AnswerNotLost'
<1> SUFFICES ASSUME NEW c \in Calls \ Swallowed, c \in answered'
             PROVE  \/ (OnItsWay(c) /\ methodCallReplies[serial[c]] = c)' \/ Delivered(c)'
                    \/ c \in Bodiless /\ phase'[c] = "failed"
  BY DEF AnswerNotLost
<1> USE ConnectionAssumption DEF Outgoing, Answerable
<1>0. inWire \in Seq(Inbound) /\ c \in Outgoing
  BY DEF TypeOK
<1>1. \* A call that was delivered to stays so.
      Delivered(c) => Delivered(c)'
  <2> SUFFICES ASSUME Delivered(c) PROVE Delivered(c)'
    OBVIOUS
  <2>1. ASSUME NEW m \in Outgoing, NextSerial(m)
        PROVE  Delivered(c)'
    BY <2>1, StartFrame DEF Delivered, callVars, loopVars
  <2>2. ASSUME NEW m \in Outgoing, SenderStep(m)
        PROVE  Delivered(c)'
    <3>1. CASE m \in Calls /\ ReceiveReply(m)
      BY <2>2, <3>1, SenderFrame DEF Delivered, ReceiveReply, Goto, TypeOK, loopVars
    <3>2. CASE ~ (m \in Calls /\ ReceiveReply(m))
      <4>1. UNCHANGED replyChan
        BY <2>2, <3>2 DEF SenderStep, RegisterReply, UnregisterReply, LockWrite, WriteHeader,
                          WriteBody, UnlockWrite, WriteFails, callVars
      <4>2. phase[c] = "returned" => phase'[c] = "returned"
        BY <2>2, <3>2 DEF SenderStep, RegisterReply, UnregisterReply, LockWrite, WriteHeader,
                          WriteBody, UnlockWrite, WriteFails, Goto, TypeOK
      <4> QED
        BY <2>2, <4>1, <4>2, SenderFrame DEF Delivered, loopVars
    <3> QED
      BY <3>1, <3>2
  <2>3. CASE DeliverReply
    <3>1. Append(<<>>, loopMsg.id) # <<>>
      OBVIOUS
    <3> QED
      BY <2>3, <3>1 DEF DeliverReply, LoopGoto, Delivered, TypeOK, messageVars
  <2>4. CASE ReceiveLoop /\ ~ DeliverReply
    BY <2>4 DEF ReceiveLoop, LoopGoto, ReadMessage, ReadFails, DispatchSwallowed, DispatchReply,
                DispatchToPeer, LoopReplied, DispatchToHandler, HandOff, Dispatching, Delivered,
                messageVars, callVars
  <2>5. CASE EnvironmentStep \/ UNCHANGED vars
    BY <2>5, EnvironmentFrame DEF Delivered, vars, messageVars, callVars, loopVars
  <2> QED
    BY <2>1, <2>2, <2>3, <2>4, <2>5 DEF Next
<1>2. \* A call that was given up stays so.
      phase[c] = "failed" => phase'[c] = "failed"
  <2>1. ASSUME NEW m \in Outgoing, NextSerial(m) \/ SenderStep(m), phase[c] = "failed"
        PROVE  phase'[c] = "failed"
    BY <1>0, <2>1 DEF NextSerial, SenderStep, RegisterReply, UnregisterReply, ReceiveReply,
       LockWrite, WriteHeader, WriteBody, UnlockWrite, WriteFails, Goto, TypeOK
  <2> QED
    BY <2>1, LoopFrame, EnvironmentFrame DEF Next, messageVars, vars
<1>3. CASE c \in answered /\ ~ Delivered(c) /\ ~ (c \in Bodiless /\ phase[c] = "failed")
  <2> DEFINE Goal == OnItsWay(c)' /\ methodCallReplies'[serial'[c]] = c
  <2>1. /\ OnItsWay(c) /\ methodCallReplies[serial[c]] = c /\ MayBeWhole(c)
        /\ InUse(c)
    BY <1>3, AnsweredInUse DEF AnswerNotLost, BusInv
  <2>2. ASSUME NEW m \in Outgoing, NextSerial(m)
        PROVE  Goal
    BY <2>1, <2>2, StartFrame DEF OnItsWay, MayBeWhole, Written, callVars, loopVars
  <2>3. CASE UnregisterReply(c)
    BY <1>0, <2>1, <2>3 DEF UnregisterReply, Goto, MayBeWhole, Written, TypeOK
  <2>4. ASSUME NEW m \in Outgoing, SenderStep(m), ~ UnregisterReply(c)
        PROVE  Goal
    <3>1. UNCHANGED <<inWire, loopVars, serial>>
      BY <2>4, SenderFrame
    <3>2. methodCallReplies'[serial[c]] = c
      <4>1. CASE m \in Calls /\ (RegisterReply(m) \/ UnregisterReply(m))
        <5>1. phase[m] \in {"toRegister", "toUnregister"} /\ m # c
          BY <2>1, <2>4, <4>1 DEF RegisterReply, UnregisterReply, Goto, MayBeWhole, Written
        <5>2. serial[m] # serial[c]
          BY <1>0, <2>1, <4>1, <5>1, UnderWayInUse DEF SerialInv
        <5> QED
          BY <2>1, <4>1, <5>2 DEF RegisterReply, UnregisterReply, TypeOK
      <4>2. CASE ~ (m \in Calls /\ (RegisterReply(m) \/ UnregisterReply(m)))
        BY <2>1, <2>4, <4>2 DEF SenderStep, ReceiveReply, LockWrite, WriteHeader, WriteBody,
                                UnlockWrite, WriteFails, callVars
      <4> QED
        BY <4>1, <4>2
    <3> QED
      BY <2>1, <3>1, <3>2 DEF OnItsWay, loopVars
  <2>5. CASE ReadMessage
    <3>1. loopPc' = "dispatch" /\ loopMsg' = inWire[1] /\ inWire # <<>> /\ loopPc = "read"
      BY <1>0, <2>5 DEF ReadMessage, LoopGoto
    <3>2. \A i \in 2..Len(inWire) : i - 1 \in 1..Len(inWire') /\ inWire'[i - 1] = inWire[i]
      BY <1>0, <2>5, <3>1 DEF ReadMessage
    <3>3. OnItsWay(c)'
      <4>1. PICK i \in 1..Len(inWire) : inWire[i].type = "reply" /\ inWire[i].id = c
        BY <2>1, <3>1 DEF OnItsWay
      <4>2. CASE i = 1
        BY <3>1, <4>1, <4>2 DEF OnItsWay
      <4>3. CASE i # 1
        <5>1. i \in 2..Len(inWire)
          BY <1>0, <4>3
        <5> QED
          BY <3>2, <4>1, <5>1 DEF OnItsWay
      <4> QED
        BY <4>2, <4>3
    <3> QED
      BY <2>1, <2>5, <3>3 DEF ReadMessage, messageVars, callVars
  <2>6. CASE DispatchReply
    <3>1. loopMsg.id \in answered /\ loopMsg.replySerial = serial[loopMsg.id]
      BY <2>6 DEF DispatchReply, Dispatching, InboundInv, GenuineReply
    <3>2. loopMsg.id \in Outgoing /\ InUse(loopMsg.id)
      BY <2>6, <3>1, AnsweredInUse DEF DispatchReply, Dispatching, OnItsWay, TypeOK
    <3>3. CASE loopMsg.id = c
      BY <2>1, <2>6, <3>1, <3>3 DEF DispatchReply, LoopGoto, Delivered
    <3>4. CASE loopMsg.id # c
      <4>1. serial[c] # loopMsg.replySerial
        BY <2>1, <3>1, <3>2, <3>4 DEF SerialInv
      <4> QED
        BY <2>1, <2>6, <3>4, <4>1 DEF DispatchReply, OnItsWay, TypeOK, messageVars
    <3> QED
      BY <3>3, <3>4
  <2>7. CASE ReceiveLoop /\ ~ ReadMessage /\ ~ DispatchReply
    <3>1. UNCHANGED <<inWire, serial, methodCallReplies>>
      BY <2>7 DEF ReceiveLoop, ReadFails, DispatchSwallowed, DeliverReply, DispatchToPeer,
                  LoopReplied, DispatchToHandler, HandOff, messageVars, callVars
    <3>2. ~ (loopPc = "dispatch" /\ loopMsg.type = "reply" /\ loopMsg.id = c)
      BY <2>7 DEF ReceiveLoop, LoopGoto, ReadFails, DispatchSwallowed, DeliverReply, DispatchToPeer,
                  LoopReplied, DispatchToHandler, HandOff, Dispatching
    <3> QED
      BY <2>1, <3>1, <3>2 DEF OnItsWay
  <2>8. CASE EnvironmentStep
    <3>1. \A i \in 1..Len(inWire) : i \in 1..Len(inWire') /\ inWire'[i] = inWire[i]
      <4>1. ASSUME NEW m \in Answerable, BusAnswers(m) \/ BusRepeats(m)
            PROVE  \A i \in 1..Len(inWire) : i \in 1..Len(inWire') /\ inWire'[i] = inWire[i]
        <5>1. CASE BusAnswers(m)
          BY <1>0, <5>1 DEF BusAnswers
        <5>2. CASE BusRepeats(m)
          BY <5>2 DEF BusRepeats
        <5> QED
          BY <4>1, <5>1, <5>2
      <4>2. ASSUME NEW r \in Requests, BusRequests(r)
            PROVE  \A i \in 1..Len(inWire) : i \in 1..Len(inWire') /\ inWire'[i] = inWire[i]
        BY <1>0, <4>2 DEF BusRequests
      <4>3. CASE UNCHANGED inWire
        BY <4>3
      <4> QED
        BY <2>8, <4>1, <4>2, <4>3
        DEF EnvironmentStep, RegisterObjectPath, UnregisterObjectPath, HandlerDone, Close,
            PeerHangsUp, BusReads
    <3> QED
      BY <2>1, <2>8, <3>1, EnvironmentFrame DEF OnItsWay, messageVars, callVars, loopVars
  <2>9. CASE UNCHANGED vars
    BY <2>1, <2>9 DEF OnItsWay, vars, messageVars, callVars, loopVars
  <2> QED
    BY <2>2, <2>3, <2>4, <2>5, <2>6, <2>7, <2>8, <2>9 DEF Next
<1>4. CASE c \notin answered
  <2>1. BusAnswers(c)
    <3>1. ASSUME NEW m \in Outgoing, NextSerial(m) \/ SenderStep(m)
          PROVE  UNCHANGED answered
      BY <3>1, StartFrame, SenderFrame DEF busVars
    <3> QED
      BY <1>4, <3>1, LoopFrame
      DEF Next, EnvironmentStep, RegisterObjectPath, UnregisterObjectPath, HandlerDone, Close,
          PeerHangsUp, BusReads, BusAnswers, BusRepeats, BusRequests, busVars, vars
  <2>2. MayBeWhole(c) /\ phase[c] \notin {"toUnregister", "failed"}
    BY <2>1 DEF BusAnswers, BusInv, DownInv
  <2>3. CASE phase[c] = "returned"
    BY <2>1, <2>3 DEF BusAnswers, Delivered, messageVars
  <2>4. CASE phase[c] \in {"halfWritten", "written", "sent"}
    <3>1. methodCallReplies[serial[c]] = c
      BY <1>4, <2>4 DEF WaiterInv, InFlight
    <3>2. /\ Len(inWire') \in 1..Len(inWire') /\ inWire'[Len(inWire')].type = "reply"
          /\ inWire'[Len(inWire')].id = c
      BY <1>0, <2>1 DEF BusAnswers
    <3> QED
      BY <2>1, <3>1, <3>2 DEF BusAnswers, OnItsWay, messageVars, callVars
  <2> QED
    BY <2>2, <2>3, <2>4 DEF MayBeWhole, Written
<1> QED
  BY <1>1, <1>2, <1>3, <1>4

-----------------------------------------------------------------------------
(***************************************************************************)
(* The theorems.                                                           *)
(***************************************************************************)
\* IInv is an invariant, however often the serials wrap around.
THEOREM Invariant == SafeSpec => [](TypeOK /\ IInv)
<1>1. TypeOK /\ AlwaysInv /\ [Next]_vars => AlwaysInv'
  BY LockPreserved, FramesPreserved, BusPreserved, InboundPreserved, EntryPreserved,
     RoomPreserved, DownPreserved
  DEF AlwaysInv
<1>2. TypeOK /\ AlwaysInv /\ ~ reused' /\ ~ reused /\ FreshInv /\ [Next]_vars => FreshInv'
  BY SerialPreserved, WaiterPreserved, DeliveryPreserved, AnswerPreserved
  DEF AlwaysInv, FreshInv
<1>3. TypeOK /\ IInv /\ [Next]_vars => IInv'
  BY <1>1, <1>2, ReusedStays DEF IInv
<1> QED
  BY <1>3, InitInvariant, TypeCorrect, PTL DEF SafeSpec

\* Whatever the order of replies, a call returns the reply to that very call, as
\* long as no serial is given out that is in use.
THEOREM OwnReplyCorrect == SafeSpec => []OwnReply
<1>1. IInv => OwnReply
  BY DEF IInv, FreshInv, OwnReply
<1> QED
  BY <1>1, Invariant, PTL

\* No reply to a call is dropped on its way from the socket to the caller, as long
\* as no serial is given out that is in use.
THEOREM NoAnswerLost == SafeSpec => []AnswerNotLost
<1>1. IInv => AnswerNotLost
  BY DEF IInv, FreshInv, AnswerNotLost
<1> QED
  BY <1>1, Invariant, PTL

\* Two senders never interleave the two writes of their messages.
THEOREM FramesWhole == SafeSpec => []WholeFrames
<1>1. IInv => WholeFrames
  BY DEF IInv, AlwaysInv
<1> QED
  BY <1>1, Invariant, PTL

\* methodCallReplies holds no entry of a call that has returned, whatever serials
\* are reused.
THEOREM NoWaiterLeaks == SafeSpec => []NoLeakedWaiter
<1>1. TypeOK /\ IInv => NoLeakedWaiter
  <2> SUFFICES ASSUME TypeOK, EntryInv, NEW s \in Serials, methodCallReplies[s] # None
               PROVE  phase[methodCallReplies[s]] \notin {"returned", "failed"}
    BY DEF IInv, AlwaysInv, NoLeakedWaiter
  <2>1. methodCallReplies[s] \in Calls
    BY DEF TypeOK
  <2> QED
    BY <2>1 DEF EntryInv, InFlight
<1> QED
  BY <1>1, Invariant, PTL

\* The receive loop never waits for a caller to make room in its channel, whatever
\* serials are reused.
THEOREM ReplyChanHasRoom == SafeSpec => []ReplyChanNeverFull
<1>1. IInv => ReplyChanNeverFull
  BY DEF IInv, AlwaysInv, RoomInv, ReplyChanNeverFull
<1> QED
  BY <1>1, Invariant, PTL

-----------------------------------------------------------------------------
(***************************************************************************)
(* Serials do not repeat before the counter wraps around.                  *)
(***************************************************************************)
\* The counter counts the messages begun, of which there are fewer than serials.
LEMMA CountPreserved ==
  ASSUME NoWrap, TypeOK, CountInv, [Next]_vars
  PROVE  CountInv'
<1>1. ASSUME NEW m \in Outgoing, NextSerial(m)
      PROVE  CountInv'
  <2>1. phase[m] = "new" /\ phase'[m] # "new" /\ m \notin Started
    BY <1>1, StartFrame DEF Started
  <2>2. Started' = Started \union {m}
    BY <1>1, StartFrame DEF Started
  <2>3. IsFiniteSet(Started) /\ IsFiniteSet(Started')
    BY FS_Subset DEF NoWrap, Started
  <2>4. Cardinality(Started') = Cardinality(Started) + 1
    BY <2>1, <2>2, <2>3, FS_AddElement
  <2>5. Cardinality(Started') <= Cardinality(Outgoing)
    BY FS_Subset DEF NoWrap, Started
  <2>6. Cardinality(Started) \in Nat /\ Cardinality(Outgoing) \in Nat
    BY <2>3, FS_CardinalityType DEF NoWrap
  <2>7. lastSerial + 1 < SerialSpace
    BY <2>4, <2>5, <2>6, ConnectionAssumption DEF NoWrap, CountInv
  <2>8. lastSerial \in Nat /\ (lastSerial + 1) % SerialSpace = lastSerial + 1
    <3>1. lastSerial \in Nat /\ SerialSpace \in Nat
      BY ConnectionAssumption DEF TypeOK, Serials
    <3> QED
      BY <2>7, <3>1
  <2>9. lastSerial' = lastSerial + 1 /\ serial'[m] = lastSerial + 1
    BY <1>1, <2>8 DEF NextSerial, TypeOK
  <2>10. \A n \in Outgoing : serial[n] \in Nat /\ serial[n] < lastSerial + 1
    BY DEF CountInv, TypeOK, Serials
  <2>11. ~ reused'
    <3>1. \A n \in Outgoing : serial[n] # lastSerial + 1
      BY <2>8, <2>10
    <3> QED
      BY <1>1, <2>8, <3>1 DEF NextSerial, CountInv
  <2>12. \A n \in Outgoing : serial'[n] <= lastSerial'
    BY <1>1, <2>8, <2>9, <2>10, StartFrame
  <2> QED
    BY <2>4, <2>9, <2>11, <2>12 DEF CountInv
<1>2. ASSUME NEW m \in Outgoing, SenderStep(m)
      PROVE  CountInv'
  <2>1. Started' = Started
    BY <1>2, SenderFrame DEF Started
  <2> QED
    BY <1>2, <2>1, SenderFrame DEF CountInv
<1>3. CASE ReceiveLoop \/ EnvironmentStep \/ UNCHANGED vars
  <2>1. UNCHANGED messageVars
    BY <1>3, LoopFrame, EnvironmentFrame DEF vars
  <2> QED
    BY <2>1 DEF CountInv, Started, messageVars
<1> QED
  BY <1>1, <1>2, <1>3 DEF Next

\* A connection that sends fewer messages than there are serials never gives one out
\* that is in use, so that all of the above holds of it without a proviso.
THEOREM NoSerialReused == ASSUME NoWrap PROVE SafeSpec => [](~ reused)
<1>1. Init => CountInv
  <2> SUFFICES ASSUME Init PROVE CountInv
    OBVIOUS
  <2>1. Started = {}
    BY DEF Init, Started
  <2> QED
    BY <2>1, FS_EmptySet DEF Init, CountInv
<1>2. TypeOK /\ CountInv /\ [Next]_vars => CountInv'
  BY CountPreserved
<1>3. CountInv => ~ reused
  BY DEF CountInv
<1> QED
  BY <1>1, <1>2, <1>3, TypeCorrect, PTL DEF SafeSpec

-----------------------------------------------------------------------------
(***************************************************************************)
(* The connection implements CallService.                                  *)
(***************************************************************************)
LEMMA StatusChange ==
  ASSUME TypeOK, NEW c \in Calls, NEW old, NEW new,
         \A d \in Calls \ {c} : phase'[d] = phase[d], CallStatus[c] = old, CallStatus'[c] = new
  PROVE  CallStatus[c] = old /\ CallStatus' = [CallStatus EXCEPT ![c] = new]
BY DEF CallStatus

\* A step that changes neither the answers to calls, nor whether the
\* connection is up, nor the status of a call, is a step CallService does not see.
LEMMA Unseen ==
  ASSUME TypeOK, TypeOK', UNCHANGED <<answered, conn>>,
         \A c \in Calls : \/ phase'[c] = phase[c]
                          \/ /\ phase[c] \in InFlight \union {"toRegister"}
                             /\ phase'[c] \in InFlight \union {"toUnregister"}
  PROVE  UNCHANGED <<CallStatus, answered \intersect Calls, conn = "up">>
<1>1. \A c \in Calls : CallStatus'[c] = CallStatus[c]
  BY DEF CallStatus, InFlight
<1> QED
  BY <1>1 DEF CallStatus

LEMMA ServiceStep ==
  ASSUME TypeOK, TypeOK', IInv, [Next]_vars
  PROVE  [Service!SNext]_(Service!svars)
<1> USE ConnectionAssumption
    DEF Outgoing, Answerable, Service!SNext, Service!Promised, Service!svars
<1>0. CASE reused
  BY <1>0, ReusedStays DEF TypeOK
<1> SUFFICES ASSUME ~ reused
             PROVE  Service!Promised \/ UNCHANGED Service!svars
  BY <1>0
<1>1. ASSUME NEW m \in Outgoing, NextSerial(m)
      PROVE  Service!Promised
  <2>0. reused' \in BOOLEAN
    BY DEF TypeOK
  <2>1. CASE m \in Calls
    <3>1. CallStatus[m] = "idle" /\ CallStatus'[m] = "open"
      BY <1>1, <2>1, StartFrame DEF CallStatus
    <3>2. CallStatus' = [CallStatus EXCEPT ![m] = "open"]
      BY <1>1, <2>1, <3>1, StartFrame, StatusChange
    <3> QED
      BY <1>1, <2>0, <2>1, <3>1, <3>2, StartFrame
      DEF Service!Begin, Service!Become, Service!Name, busVars
  <2>2. CASE m \notin Calls
    BY <1>1, <2>0, <2>2, StartFrame, Unseen DEF Service!Misname, Service!Name, busVars
  <2> QED
    BY <2>1, <2>2
<1>2. ASSUME NEW m \in Outgoing, SenderStep(m)
      PROVE  Service!Promised \/ UNCHANGED Service!svars
  <2>0. UNCHANGED <<conn, answered, reused>> /\ \A n \in Outgoing \ {m} : phase'[n] = phase[n]
    BY <1>2, SenderFrame DEF busVars
  <2>1. CASE m \in Calls /\ UnregisterReply(m)
    <3>1. CallStatus[m] = "open" /\ CallStatus'[m] = "failed"
      BY <2>1 DEF UnregisterReply, Goto, CallStatus, TypeOK
    <3>2. CallStatus' = [CallStatus EXCEPT ![m] = "failed"]
      BY <2>0, <2>1, <3>1, StatusChange
    <3>3. conn # "up" /\ (m \notin answered \/ m \in Bodiless)
      BY <2>1 DEF UnregisterReply, Goto, IInv, AlwaysInv, DownInv, BusInv, MayBeWhole, Written
    <3> QED
      BY <2>0, <2>1, <3>1, <3>2, <3>3 DEF Service!Fail, Service!Become
  <2>2. CASE m \in Calls /\ ReceiveReply(m)
    <3>1. CallStatus[m] = "open" /\ CallStatus'[m] = "returned"
      BY <2>2 DEF ReceiveReply, Goto, CallStatus, TypeOK
    <3>2. CallStatus' = [CallStatus EXCEPT ![m] = "returned"]
      BY <2>0, <2>2, <3>1, StatusChange
    <3>3. m \in answered
      BY <2>2 DEF ReceiveReply, IInv, FreshInv, DeliveryInv
    <3> QED
      BY <2>0, <2>2, <3>1, <3>2, <3>3 DEF Service!Return, Service!Become
  <2>3. CASE ~ (m \in Calls /\ (UnregisterReply(m) \/ ReceiveReply(m)))
    <3>1. m \in Calls => /\ phase[m] \in InFlight \union {"toRegister"}
                         /\ phase'[m] \in InFlight \union {"toUnregister"}
      BY <1>2, <2>3 DEF SenderStep, RegisterReply, LockWrite, WriteHeader, WriteBody, UnlockWrite,
                        WriteFails, Goto, TypeOK, InFlight
    <3> QED
      BY <2>0, <3>1, Unseen
  <2> QED
    BY <2>1, <2>2, <2>3
<1>3. CASE ReceiveLoop \/ UNCHANGED vars
  BY <1>3, LoopFrame, Unseen DEF messageVars, busVars, vars
<1>4. CASE EnvironmentStep
  <2>1. UNCHANGED <<phase, reused>> /\ UNCHANGED CallStatus
    BY <1>4, EnvironmentFrame DEF messageVars, CallStatus
  <2>2. CASE Close \/ PeerHangsUp
    BY <2>1, <2>2 DEF Close, PeerHangsUp, busVars, Service!GoDown
  <2>3. ASSUME NEW m \in Answerable, BusAnswers(m)
        PROVE  Service!Promised \/ UNCHANGED Service!svars
    <3>1. CASE m \in Calls
      <4>1. /\ phase[m] \in {"halfWritten", "written", "sent"}
            /\ m \notin answered /\ conn = "up"
        BY <2>3, <3>1
        DEF BusAnswers, IInv, AlwaysInv, FreshInv, BusInv, DownInv, DeliveryInv, MayBeWhole, Written
      <4>2. CallStatus[m] = "open"
        BY <3>1, <4>1 DEF CallStatus
      <4> QED
        BY <2>1, <2>3, <3>1, <4>1, <4>2 DEF BusAnswers, Service!Answer
    <3>2. CASE m \notin Calls
      BY <2>1, <2>3, <3>2 DEF BusAnswers
    <3> QED
      BY <3>1, <3>2
  <2>4. CASE UNCHANGED <<answered, conn>>
    BY <2>1, <2>4
  <2> QED
    BY <1>4, <2>2, <2>3, <2>4
    DEF EnvironmentStep, RegisterObjectPath, UnregisterObjectPath, HandlerDone, BusReads,
        BusRepeats, BusRequests, busVars
<1> QED
  BY <1>1, <1>2, <1>3, <1>4 DEF Next

\* Under the mapping that shows of a call only whether it is open, returned or
\* failed, every behaviour of the connection is one of CallService: a call
\* returns only after it was answered, and fails only on a connection that is
\* down and, if it has arguments, without an answer.
THEOREM Refinement == SafeSpec => ImplementsCallService
<1>1. Init => Service!SInit
  BY ConnectionAssumption DEF Init, Service!SInit, CallStatus, Outgoing, Answerable
<1> QED
  BY <1>1, ServiceStep, Invariant, TypeCorrect, PTL DEF SafeSpec, ImplementsCallService, Service!SSpec

(***************************************************************************)
(* A call the receive loop leaves behind.                                  *)
(***************************************************************************)
\* Nothing but the loop sends on the channel of a call, and SendWithReply waits for
\* nothing else.
LEMMA WaitsStays ==
  ASSUME TypeOK, [Next]_vars, loopPc \in {"stopped", "handOff"}, NEW c \in Calls, Waits(c)
  PROVE  Waits(c)'
<1>0. c \in Outgoing
  BY DEF Outgoing
<1>1. ASSUME NEW m \in Outgoing, NextSerial(m)
      PROVE  Waits(c)'
  BY <1>0, <1>1, StartFrame DEF Waits, callVars
<1>2. ASSUME NEW m \in Outgoing, SenderStep(m)
      PROVE  Waits(c)'
  <2>1. CASE m \in Calls /\ ReceiveReply(m)
    BY <1>0, <2>1 DEF Waits, ReceiveReply, Goto, TypeOK
  <2>2. CASE ~ (m \in Calls /\ ReceiveReply(m))
    BY <1>0, <1>2, <2>2
    DEF Waits, TypeOK, SenderStep, RegisterReply, LockWrite, WriteHeader, WriteBody,
        UnlockWrite, WriteFails, UnregisterReply, Goto, callVars
  <2> QED
    BY <2>1, <2>2
<1>3. CASE ReceiveLoop
  BY <1>3
  DEF Waits, ReceiveLoop, ReadMessage, ReadFails, DispatchSwallowed, DispatchReply, DeliverReply,
      DispatchToPeer, LoopReplied, DispatchToHandler, HandOff, Dispatching, LoopGoto,
      messageVars, callVars
<1>4. CASE EnvironmentStep \/ UNCHANGED vars
  BY <1>4, EnvironmentFrame DEF Waits, vars, messageVars, callVars
<1> QED
  BY <1>1, <1>2, <1>3, <1>4 DEF Next

\* A loop that has stopped does not start again.
LEMMA StoppedStays ==
  ASSUME TypeOK, [Next]_vars, loopPc = "stopped"
  PROVE  loopPc' = "stopped"
<1>1. ASSUME NEW m \in Outgoing, NextSerial(m) \/ SenderStep(m)
      PROVE  loopPc' = loopPc
  BY <1>1, StartFrame, SenderFrame DEF loopVars
<1>2. ~ ReceiveLoop
  BY DEF ReceiveLoop, ReadMessage, ReadFails, DispatchSwallowed, DispatchReply, DeliverReply,
         DispatchToPeer, LoopReplied, DispatchToHandler, HandOff, Dispatching, LoopGoto
<1> QED
  BY <1>1, <1>2, EnvironmentFrame DEF Next, vars, loopVars

\* Nor does one go on that waits for a handler whose call it would have to return.
LEMMA JammedStays ==
  ASSUME TypeOK, [Next]_vars, Jammed
  PROVE  Jammed'
<1>0. PICK r \in Requests, c \in Calls :
         /\ loopPc = "handOff" /\ loopChan \in Patterns /\ r = serving[loopChan]
         /\ c = Nested[r] /\ phase[r] = "new" /\ Waits(c) /\ r \in Outgoing /\ r # None
  BY ConnectionAssumption DEF Jammed, TypeOK, Outgoing
<1>1. Waits(c)'
  BY <1>0, WaitsStays
<1>2. ~ ReceiveLoop
  BY <1>0 DEF ReceiveLoop, ReadMessage, ReadFails, DispatchSwallowed, DispatchReply, DeliverReply,
              DispatchToPeer, LoopReplied, DispatchToHandler, HandOff, Dispatching, LoopGoto
<1>3. ~ MayStart(r)
  BY <1>0, ConnectionAssumption DEF MayStart, Waits, Outgoing, Answerable
<1>4. phase'[r] = "new"
  <2>1. ASSUME NEW m \in Outgoing, NextSerial(m)
        PROVE  phase'[r] = "new"
    <3>1. m # r
      BY <1>3, <2>1 DEF NextSerial
    <3> QED
      BY <1>0, <2>1, <3>1, StartFrame
  <2>2. ASSUME NEW m \in Outgoing, SenderStep(m)
        PROVE  phase'[r] = "new"
    BY <1>0, <2>2, SenderFrame
  <2> QED
    BY <1>0, <1>2, <2>1, <2>2, EnvironmentFrame DEF Next, vars, messageVars
<1>5. UNCHANGED loopVars
  BY <1>2, StartFrame, SenderFrame, EnvironmentFrame DEF Next, vars
<1>6. serving'[loopChan] = r
  <2>1. ASSUME NEW p \in Patterns, HandlerDone(p)
        PROVE  serving'[loopChan] = r
    <3>1. p # loopChan
      BY <1>0, <2>1 DEF HandlerDone, Finished
    <3> QED
      BY <1>0, <2>1, <3>1 DEF HandlerDone, TypeOK
  <2>2. ASSUME NEW m \in Outgoing, NextSerial(m) \/ SenderStep(m)
        PROVE  UNCHANGED serving
    BY <2>2 DEF NextSerial, SenderStep, RegisterReply, LockWrite, WriteHeader, WriteBody,
                UnlockWrite, WriteFails, UnregisterReply, ReceiveReply
  <2> QED
    BY <1>0, <1>2, <2>1, <2>2
    DEF Next, EnvironmentStep, RegisterObjectPath, UnregisterObjectPath, Close, PeerHangsUp,
        BusReads, BusAnswers, BusRepeats, BusRequests, vars
<1> QED
  BY <1>0, <1>1, <1>4, <1>5, <1>6 DEF Jammed, loopVars

\* A call whose loop has stopped, or waits for a handler that waits for a reply itself,
\* never returns, neither with a reply nor with an error.
THEOREM StrandedForGood ==
  SafeSpec => [][\A c \in Calls : Stranded(c) => Stranded(c)']_vars
<1>1. TypeOK /\ [Next]_vars => [\A c \in Calls : Stranded(c) => Stranded(c)']_vars
  <2> SUFFICES ASSUME TypeOK, [Next]_vars, NEW c \in Calls, Stranded(c) PROVE Stranded(c)'
    OBVIOUS
  <2>1. loopPc \in {"stopped", "handOff"} /\ Waits(c)
    BY DEF Stranded, Jammed
  <2>2. Waits(c)'
    BY <2>1, WaitsStays
  <2> QED
    BY <2>2, StoppedStays, JammedStays DEF Stranded
<1> QED
  BY <1>1, TypeCorrect, PTL DEF SafeSpec

=============================================================================
