-------------------------- MODULE ConnectingProofs --------------------------
(***************************************************************************)
(* Proofs about Connect and its conversation with the server, for any list *)
(* of authenticators and any number of challenges.                         *)
(***************************************************************************)
EXTENDS Connecting, SequenceTheorems, TLAPS

(***************************************************************************)
(* The inductive invariant.                                                *)
(***************************************************************************)
\* Connect writes up to three lines before it waits, and the server reads them in
\* its own time: what is under way when Connect is at p.
Writing(p) ==
  \/ /\ p = "dial" /\ toServer = <<>>
     /\ server = IF transport = "nonce-tcp" THEN "nonce" ELSE "nul"
  \/ /\ server = "nonce"
     /\ <<p, toServer>> \in {<<"nonce", <<>>>>, <<"nul", <<"nonce">>>>, <<"auth", <<"nonce", "nul">>>>,
                             <<"reply", <<"nonce", "nul", "AUTH">>>>}
  \/ /\ server = "nul"
     /\ <<p, toServer>> \in {<<"nul", <<>>>>, <<"auth", <<"nul">>>>, <<"reply", <<"nul", "AUTH">>>>}
  \/ /\ server = "auth"
     /\ <<p, toServer>> \in {<<"auth", <<>>>>, <<"reply", <<"AUTH">>>>}
  \/ /\ server = "data"
     /\ <<p, toServer>> \in {<<"reply", <<"DATA">>>>, <<"reply", <<"CANCEL">>>>, <<"panicked", <<>>>>}
  \/ /\ server = "begin"
     /\ <<p, toServer>> \in {<<"begin", <<>>>>, <<"hello", <<"BEGIN">>>>, <<"waiting", <<"BEGIN", "Hello">>>>}
  \/ /\ server = "messages"
     /\ <<p, toServer>> \in {<<"hello", <<>>>>, <<"waiting", <<"Hello">>>>, <<"connected", <<>>>>}

\* Or the server has read them all and answered, and then Connect waits.
Answered(p) ==
  /\ toServer = <<>>
  /\ \/ p = "reply" /\ <<server, toClient>> \in
           {<<"begin", <<"OK">>>>, <<"auth", <<"REJECTED">>>>, <<"data", <<"DATA">>>>, <<"data", <<"bare DATA">>>>}
           \union ({"auth", "data"} \X {<<"ERROR">>, <<"unknown">>})
     \/ p = "waiting" /\ <<server, toClient>> \in {"messages"} \X {<<"name">>, <<"error reply">>}

Stands(p) == (Writing(p) /\ toClient = <<>>) \/ Answered(p)

\* The server goes on after Connect has failed, from where it did; after a challenge
\* that made it panic there is nothing to go on with.
Places == {"dial", "nonce", "nul", "auth", "reply", "begin", "hello", "waiting", "connected", "panicked"}
TalkInv == ~ HungUp => \E p \in Places : (pc = p \/ pc = "failed") /\ Stands(p)

Lines == {"OK", "REJECTED", "DATA", "bare DATA", "ERROR", "unknown", "name", "error reply"}

\* There is never more than one line to read, and one who waits for it.
Awaited ==
  toClient # <<>> => pc \in {"reply", "waiting", "failed"} /\ \E line \in Lines : toClient = <<line>>

\* The receive loop reads after authenticate has read, and a Connect that fails
\* has closed its socket.
ReadersInv ==
  /\ receiving # "none" => pc \in {"waiting", "connected", "failed"}
  /\ pc = "dial" => socket = "none"
  /\ pc = "failed" => socket # "open"

IInv == TalkInv /\ Awaited /\ ReadersInv

LEMMA ShortQueues ==
  ASSUME NEW a, NEW b, NEW c
  PROVE  /\ Append(<<>>, a) = <<a>> /\ Append(<<a>>, b) = <<a, b>> /\ Append(<<a, b>>, c) = <<a, b, c>>
         /\ Head(<<a>>) = a /\ Head(<<a, b>>) = a /\ Head(<<a, b, c>>) = a
         /\ Tail(<<a>>) = <<>> /\ Tail(<<a, b>>) = <<b>> /\ Tail(<<a, b, c>>) = <<b, c>>
         /\ <<a>> # <<>> /\ <<a, b>> # <<>> /\ <<a, b, c>> # <<>>
<1>. PICK S : S = {a, b, c}
  OBVIOUS
<1>1. <<>> \in Seq(S) /\ <<a>> \in Seq(S) /\ <<a, b>> \in Seq(S) /\ <<a, b, c>> \in Seq(S)
  OBVIOUS
<1>2. a \in S /\ b \in S /\ c \in S
  OBVIOUS
<1>3. Append(<<>>, a) = <<a>> /\ Append(<<a>>, b) = <<a, b>> /\ Append(<<a, b>>, c) = <<a, b, c>>
  <2>1. Append(<<>>, a) = <<a>>
    BY <1>1, <1>2
  <2>2. Append(<<a>>, b) = <<a, b>>
    <3>. PICK s, t : s = Append(<<a>>, b) /\ t = <<a, b>>
      OBVIOUS
    <3>1. s \in Seq(S) /\ t \in Seq(S) /\ Len(s) = 2 /\ Len(t) = 2 /\ s[1] = a /\ s[2] = b /\ t[1] = a /\ t[2] = b
      BY <1>1, <1>2
    <3>2. \A i \in 1..Len(s) : s[i] = t[i]
      BY <3>1
    <3> QED
      BY <3>1, <3>2, SeqEqual
  <2>3. Append(<<a, b>>, c) = <<a, b, c>>
    <3>. PICK s, t : s = Append(<<a, b>>, c) /\ t = <<a, b, c>>
      OBVIOUS
    <3>1. s \in Seq(S) /\ t \in Seq(S) /\ Len(s) = 3 /\ Len(t) = 3
      BY <1>1, <1>2
    <3>2. s[1] = a /\ s[2] = b /\ s[3] = c /\ t[1] = a /\ t[2] = b /\ t[3] = c
      BY <1>1, <1>2
    <3>3. \A i \in 1..Len(s) : s[i] = t[i]
      BY <3>1, <3>2
    <3> QED
      BY <3>1, <3>3, SeqEqual
  <2> QED
    BY <2>1, <2>2, <2>3
<1>4. Tail(<<a>>) = <<>> /\ Tail(<<a, b>>) = <<b>> /\ Tail(<<a, b, c>>) = <<b, c>>
  BY <1>1, <1>2
<1>5. Head(<<a>>) = a /\ Head(<<a, b>>) = a /\ Head(<<a, b, c>>) = a
  BY <1>1, <1>2
<1> QED
  BY <1>3, <1>4, <1>5

LEMMA InitHolds == Init => IInv
<1> SUFFICES ASSUME Init PROVE IInv
  OBVIOUS
<1>1. Writing("dial") /\ toClient = <<>> /\ pc = "dial" /\ "dial" \in Places
  BY DEF Init, Writing, Places
<1>2. TalkInv
  BY <1>1 DEF TalkInv, Stands
<1>3. Awaited
  BY <1>1 DEF Awaited
<1>4. ReadersInv
  BY DEF Init, ReadersInv
<1> QED
  BY <1>2, <1>3, <1>4 DEF IInv

\* While Connect runs, it stands where it is.
LEMMA StandsHere ==
  ASSUME TalkInv, ~ HungUp, pc # "failed"
  PROVE  pc \in Places /\ Stands(pc)
BY DEF TalkInv

\* What Connect writes extends what is under way.
LEMMA ClientTalks ==
  ASSUME TalkInv, Awaited, ClientStep
  PROVE  TalkInv'
<1> SUFFICES ASSUME ~ HungUp PROVE \E p \in Places : (pc' = p \/ pc' = "failed") /\ Stands(p)'
  BY DEF TalkInv, HungUp, ClientStep, DialFails, Dial, WriteNonce, WriteNul, SendAuth, NoMechanismLeft, ReadOK, ReadRejected,
     ReadData, ReadDataPanics, ReadFails, Begin, WriteFails, Hello, HelloFails, HelloReturns, HelloRefused, Write, Fail, ReadLine, ReceiveReply
<1>1. CASE DialFails \/ NoMechanismLeft \/ ReadFails
  <2>1. pc # "failed" /\ UNCHANGED <<toServer, toClient, server, transport>> /\ pc' = "failed"
    BY <1>1 DEF DialFails, NoMechanismLeft, ReadFails, Fail, Goto
  <2> QED
    BY <2>1, StandsHere DEF Stands, Writing, Answered
<1>2. CASE Dial
  <2>1. pc = "dial" /\ UNCHANGED <<toServer, toClient, server, transport>> /\ pc' = IF transport = "nonce-tcp" THEN "nonce" ELSE "nul"
    BY <1>2 DEF Dial, Goto
  <2> QED
    BY <2>1, StandsHere DEF Stands, Writing, Answered, Places
<1>3. CASE WriteNonce \/ WriteNul \/ SendAuth \/ Begin \/ Hello
  <2>. PICK q : q = pc'
    OBVIOUS
  <2>1. /\ UNCHANGED <<toClient, server, transport>>
        /\ \/ pc = "nonce" /\ q = "nul" /\ toServer' = Append(toServer, "nonce")
           \/ pc = "nul" /\ q = "auth" /\ toServer' = Append(toServer, "nul")
           \/ pc = "auth" /\ q = "reply" /\ toServer' = Append(toServer, "AUTH")
           \/ pc = "begin" /\ q = "hello" /\ toServer' = Append(toServer, "BEGIN")
           \/ pc = "hello" /\ q = "waiting" /\ toServer' = Append(toServer, "Hello")
    BY <1>3 DEF WriteNonce, WriteNul, SendAuth, Begin, Hello, Write, Goto
  <2>2. Writing(pc) /\ toClient = <<>>
    BY <2>1, StandsHere DEF Stands, Answered
  <2>3. Writing(q)'
    <3>1. CASE pc = "nonce"
      <4>1. server = "nonce" /\ toServer = <<>>
        BY <2>2, <3>1 DEF Writing
      <4>2. server' = "nonce" /\ toServer' = <<"nonce">> /\ q = "nul"
        BY <2>1, <3>1, <4>1, ShortQueues
      <4> QED
        BY <4>2 DEF Writing
    <3>2. CASE pc = "nul"
      <4>1. (server = "nonce" /\ toServer = <<"nonce">>) \/ (server = "nul" /\ toServer = <<>>)
        BY <2>2, <3>2 DEF Writing
      <4>2. (server' = "nonce" /\ toServer' = <<"nonce", "nul">>) \/ (server' = "nul" /\ toServer' = <<"nul">>)
        BY <2>1, <3>2, <4>1, ShortQueues
      <4> QED
        BY <2>1, <3>2, <4>2 DEF Writing
    <3>3. CASE pc = "auth"
      BY <2>1, <2>2, <3>3, ShortQueues DEF Writing
    <3>4. CASE pc = "begin"
      <4>1. server = "begin" /\ toServer = <<>>
        BY <2>2, <3>4 DEF Writing
      <4>2. server' = "begin" /\ toServer' = <<"BEGIN">> /\ q = "hello"
        BY <2>1, <3>4, <4>1, ShortQueues
      <4> QED
        BY <4>2 DEF Writing
    <3>5. CASE pc = "hello"
      <4>1. (server = "begin" /\ toServer = <<"BEGIN">>) \/ (server = "messages" /\ toServer = <<>>)
        BY <2>2, <3>5 DEF Writing
      <4>2. (server' = "begin" /\ toServer' = <<"BEGIN", "Hello">>) \/ (server' = "messages" /\ toServer' = <<"Hello">>)
        BY <2>1, <3>5, <4>1, ShortQueues
      <4> QED
        BY <2>1, <3>5, <4>2 DEF Writing
    <3> QED
      BY <2>1, <3>1, <3>2, <3>3, <3>4, <3>5
  <2> QED
    BY <2>1, <2>2, <2>3 DEF Stands, Places
<1>5. CASE ReadOK \/ ReadRejected \/ ReadData \/ ReadDataPanics \/ HelloReturns \/ HelloRefused
  <2>1. /\ UNCHANGED <<server, transport>> /\ toClient # <<>> /\ toClient' = Tail(toClient)
        /\ \/ pc = "reply" /\ Head(toClient) = "OK" /\ pc' = "begin" /\ toServer' = toServer
           \/ pc = "reply" /\ Head(toClient) = "REJECTED" /\ pc' = "auth" /\ toServer' = toServer
           \/ /\ pc = "reply" /\ Head(toClient) = "DATA" /\ pc' = pc
              /\ toServer' \in {Append(toServer, "CANCEL"), Append(toServer, "DATA")}
           \/ pc = "reply" /\ Head(toClient) \in {"DATA", "bare DATA"} /\ pc' = "panicked" /\ toServer' = toServer
           \/ pc = "waiting" /\ Head(toClient) = "name" /\ pc' = "connected" /\ toServer' = toServer
           \/ pc = "waiting" /\ Head(toClient) = "error reply" /\ pc' = "failed" /\ toServer' = toServer
    BY <1>5 DEF ReadOK, ReadRejected, ReadData, ReadDataPanics, HelloReturns, HelloRefused, ReadLine, ReceiveReply
  <2>2. Answered(pc)
    BY <2>1, StandsHere DEF Stands
  <2>3. toClient = <<Head(toClient)>> /\ Tail(toClient) = <<>>
    <3>. PICK line \in Lines : toClient = <<line>>
      BY <2>1 DEF Awaited
    <3> QED
      BY ShortQueues
  <2>4. toServer = <<>> /\ toClient' = <<>>
    BY <2>1, <2>2, <2>3 DEF Answered
  <2>5. \/ pc = "reply" /\ Head(toClient) = "OK" /\ server = "begin"
        \/ pc = "reply" /\ Head(toClient) = "REJECTED" /\ server = "auth"
        \/ pc = "reply" /\ Head(toClient) \in {"DATA", "bare DATA"} /\ server = "data"
        \/ pc = "waiting" /\ server = "messages"
    BY <2>1, <2>2, ShortQueues DEF Answered
  <2>6. \E p \in Places : (pc' = p \/ pc' = "failed") /\ Writing(p)'
    <3>1. CASE pc = "reply" /\ Head(toClient) = "OK"
      BY <2>1, <2>4, <2>5, <3>1 DEF Writing, Places
    <3>2. CASE pc = "reply" /\ Head(toClient) = "REJECTED"
      BY <2>1, <2>4, <2>5, <3>2 DEF Writing, Places
    <3>3. CASE pc = "reply" /\ Head(toClient) \in {"DATA", "bare DATA"}
      BY <2>1, <2>4, <2>5, <3>3, ShortQueues DEF Writing, Places
    <3>4. CASE pc = "waiting"
      BY <2>1, <2>4, <2>5, <3>4 DEF Writing, Places
    <3> QED
      BY <2>1, <3>1, <3>2, <3>3, <3>4
  <2> QED
    BY <2>4, <2>6 DEF Stands
<1>6. ~ (WriteFails \/ HelloFails)
  BY DEF WriteFails, HelloFails
<1> QED
  BY <1>1, <1>2, <1>3, <1>5, <1>6 DEF ClientStep

\* The server reads what Connect has written, and answers when it has read it all.
LEMMA ServerTalks ==
  ASSUME TalkInv, ServerStep
  PROVE  TalkInv' /\ toClient = <<>> /\ pc \in Places \union {"failed"}
         /\ (toClient' # <<>> => pc \in {"reply", "waiting", "failed"} /\ \E line \in Lines : toClient' = <<line>>)
<1>1. ~ HungUp /\ UNCHANGED clientVars /\ toServer # <<>> /\ toServer' = Tail(toServer)
  BY DEF ServerStep, ServerSilent, ServerAnswers, ServerCancels, ServerGreets, ServerReads, HungUp
<1>. PICK p \in Places : (pc = p \/ pc = "failed") /\ Stands(p)
  BY <1>1 DEF TalkInv
<1>2. Writing(p) /\ toClient = <<>>
  BY <1>1 DEF Stands, Answered
<1>3. UNCHANGED <<pc, transport>>
  BY <1>1 DEF clientVars
<1>a. /\ Tail(<<"nonce">>) = <<>> /\ Tail(<<"nonce", "nul">>) = <<"nul">>
      /\ Tail(<<"nonce", "nul", "AUTH">>) = <<"nul", "AUTH">>
      /\ Tail(<<"nul">>) = <<>> /\ Tail(<<"nul", "AUTH">>) = <<"AUTH">>
      /\ Tail(<<"BEGIN">>) = <<>> /\ Tail(<<"BEGIN", "Hello">>) = <<"Hello">>
  BY ShortQueues
<1>4. CASE ServerSilent
  <2>1. \/ server = "nonce" /\ server' = "nul" /\ Head(toServer) = "nonce"
        \/ server = "nul" /\ server' = "auth" /\ Head(toServer) = "nul"
        \/ server = "begin" /\ server' = "messages" /\ Head(toServer) = "BEGIN"
    BY <1>4 DEF ServerSilent, ServerReads
  <2>2. toClient' = <<>>
    BY <1>2, <1>4 DEF ServerSilent
  <2>3. Writing(p)'
    <3>1. CASE server = "nonce"
      <4>1. \/ p = "nul" /\ toServer = <<"nonce">>
            \/ p = "auth" /\ toServer = <<"nonce", "nul">>
            \/ p = "reply" /\ toServer = <<"nonce", "nul", "AUTH">>
        BY <1>1, <1>2, <3>1 DEF Writing
      <4>2. \/ p = "nul" /\ toServer' = <<>>
            \/ p = "auth" /\ toServer' = <<"nul">>
            \/ p = "reply" /\ toServer' = <<"nul", "AUTH">>
        BY <1>1, <1>a, <4>1
      <4> QED
        BY <2>1, <3>1, <4>2 DEF Writing
    <3>2. CASE server = "nul"
      <4>1. \/ p = "auth" /\ toServer = <<"nul">>
            \/ p = "reply" /\ toServer = <<"nul", "AUTH">>
        BY <1>1, <1>2, <3>2 DEF Writing
      <4>2. \/ p = "auth" /\ toServer' = <<>>
            \/ p = "reply" /\ toServer' = <<"AUTH">>
        BY <1>1, <1>a, <4>1
      <4> QED
        BY <2>1, <3>2, <4>2 DEF Writing
    <3>3. CASE server = "begin"
      <4>1. \/ p = "hello" /\ toServer = <<"BEGIN">>
            \/ p = "waiting" /\ toServer = <<"BEGIN", "Hello">>
        BY <1>1, <1>2, <3>3 DEF Writing
      <4>2. \/ p = "hello" /\ toServer' = <<>>
            \/ p = "waiting" /\ toServer' = <<"Hello">>
        BY <1>1, <1>a, <4>1
      <4> QED
        BY <2>1, <3>3, <4>2 DEF Writing
    <3> QED
      BY <2>1, <3>1, <3>2, <3>3
  <2>4. Stands(p)'
    BY <2>2, <2>3 DEF Stands
  <2> QED
    BY <1>2, <1>3, <2>2, <2>4 DEF TalkInv
<1>5. CASE ServerAnswers \/ ServerCancels \/ ServerGreets
  <2>1. \E line \in Lines : toClient' = Append(toClient, line) /\
           \/ Head(toServer) \in {"AUTH", "DATA"} /\ <<server', line>> \in {<<"begin", "OK">>, <<"auth", "REJECTED">>, <<"data", "DATA">>, <<"data", "bare DATA">>}
           \/ Head(toServer) \in {"AUTH", "DATA"} /\ server' = server /\ line \in {"ERROR", "unknown"}
           \/ Head(toServer) = "CANCEL" /\ server' = "auth" /\ line = "REJECTED"
           \/ server = "messages" /\ server' = "messages" /\ line \in {"name", "error reply"}
    BY <1>5 DEF ServerAnswers, ServerCancels, ServerGreets, ServerReads, Says, Lines
  <2>2. \/ p = "reply" /\ server \in {"auth", "data"} /\ \E l : toServer = <<l>>
        \/ p = "waiting" /\ server = "messages" /\ toServer = <<"Hello">>
    <3>1. \/ server = "auth" /\ Head(toServer) = "AUTH"
          \/ server = "data" /\ Head(toServer) \in {"AUTH", "DATA", "CANCEL"}
          \/ server = "auth" /\ Head(toServer) = "DATA"
          \/ server = "messages"
      BY <1>5 DEF ServerAnswers, ServerCancels, ServerGreets, ServerReads
    <3> QED
      BY <1>1, <1>2, <3>1 DEF Writing
  <2>3. toServer' = <<>>
    BY <1>1, <2>2, ShortQueues
  <2>. PICK line \in Lines : toClient' = Append(toClient, line) /\
           \/ Head(toServer) \in {"AUTH", "DATA"} /\ <<server', line>> \in {<<"begin", "OK">>, <<"auth", "REJECTED">>, <<"data", "DATA">>, <<"data", "bare DATA">>}
           \/ Head(toServer) \in {"AUTH", "DATA"} /\ server' = server /\ line \in {"ERROR", "unknown"}
           \/ Head(toServer) = "CANCEL" /\ server' = "auth" /\ line = "REJECTED"
           \/ server = "messages" /\ server' = "messages" /\ line \in {"name", "error reply"}
    BY <2>1
  <2>4. toClient' = <<line>>
    BY <1>2, ShortQueues
  <2>5. Answered(p)'
    <3>1. CASE p = "reply"
      BY <2>2, <2>3, <2>4, <3>1 DEF Answered
    <3>2. CASE p = "waiting"
      <4>1. Head(toServer) = "Hello"
        BY <2>2, <3>2, ShortQueues
      <4> QED
        BY <2>3, <2>4, <3>2, <4>1 DEF Answered
    <3> QED
      BY <2>2, <3>1, <3>2
  <2>6. pc \in {"reply", "waiting", "failed"}
    BY <2>2
  <2> QED
    BY <1>2, <1>3, <2>4, <2>5, <2>6 DEF TalkInv, Stands
<1> QED
  BY <1>4, <1>5 DEF ServerStep

LEMMA StepInv == ASSUME IInv, [Next]_vars PROVE IInv'
<1>. TalkInv /\ Awaited /\ ReadersInv
  BY DEF IInv
<1>1. CASE ClientStep
  <2>1. TalkInv'
    BY <1>1, ClientTalks
  <2>2. Awaited'
    <3>1. CASE toClient = <<>>
      <4>1. toClient' = toClient
        BY <1>1, <3>1 DEF ClientStep, DialFails, Dial, WriteNonce, WriteNul, SendAuth, NoMechanismLeft, ReadOK, ReadRejected,
           ReadData, ReadDataPanics, ReadFails, Begin, WriteFails, Hello, HelloFails, HelloReturns, HelloRefused, Write, Fail, ReadLine, ReceiveReply
      <4> QED
        BY <3>1, <4>1 DEF Awaited
    <3>2. CASE toClient # <<>>
      <4>1. Tail(toClient) = <<>>
        BY <3>2, ShortQueues DEF Awaited
      <4>2. toClient' = Tail(toClient) \/ (toClient' = toClient /\ pc' \in {pc, "failed"})
        BY <1>1, <3>2 DEF Awaited, ClientStep, DialFails, Dial, WriteNonce, WriteNul, SendAuth, NoMechanismLeft, ReadOK,
           ReadRejected, ReadData, ReadDataPanics, ReadFails, Begin, WriteFails, Hello, HelloFails, HelloReturns, HelloRefused, Write, Fail,
           ReadLine, ReceiveReply, Goto
      <4> QED
        BY <3>2, <4>1, <4>2 DEF Awaited
    <3> QED
      BY <3>1, <3>2
  <2>3. ReadersInv'
    BY <1>1 DEF ReadersInv, ClientStep, DialFails, Dial, WriteNonce, WriteNul, SendAuth, NoMechanismLeft, ReadOK, ReadRejected,
       ReadData, ReadDataPanics, ReadFails, Begin, WriteFails, Hello, HelloFails, HelloReturns, HelloRefused, Write, Fail, ReadLine, ReceiveReply, Goto
  <2> QED
    BY <2>1, <2>2, <2>3 DEF IInv
<1>2. CASE ServerStep
  <2>1. UNCHANGED clientVars
    BY <1>2 DEF ServerStep, ServerSilent, ServerAnswers, ServerCancels, ServerGreets, ServerReads
  <2>2. Awaited'
    BY <1>2, <2>1, ServerTalks DEF Awaited, clientVars
  <2>3. ReadersInv'
    BY <2>1 DEF ReadersInv, clientVars
  <2> QED
    BY <1>2, <2>2, <2>3, ServerTalks DEF IInv
<1>3. CASE ReceiveLoopEnds \/ ReceiveLoopFails
  <2>1. UNCHANGED <<pc, transport, socket, toServer, toClient, server>> /\ receiving # "none"
    BY <1>3 DEF ReceiveLoopEnds, ReceiveLoopFails
  <2>2. TalkInv' /\ Awaited'
    BY <2>1 DEF TalkInv, HungUp, Stands, Writing, Answered, Awaited
  <2> QED
    BY <2>1, <2>2 DEF IInv, ReadersInv
<1>4. CASE HangUp
  BY <1>4 DEF HangUp, clientVars, IInv, TalkInv, HungUp, Awaited, ReadersInv
<1>5. CASE UNCHANGED vars
  BY <1>5 DEF vars, clientVars, IInv, TalkInv, HungUp, Stands, Writing, Answered, Awaited, ReadersInv
<1> QED
  BY <1>1, <1>2, <1>3, <1>4, <1>5 DEF Next

(***************************************************************************)
(* What follows.                                                           *)
(***************************************************************************)
\* The server always waits for the line it is to read next: authenticate sends
\* CANCEL when it gives a mechanism up, and BEGIN only after OK.  And nothing is
\* left for the receive loop in the buffer that authenticate drops.
THEOREM InStepHolds == Spec => []InStep
<1>1. IInv => InStep
  <2> SUFFICES ASSUME IInv PROVE InStep
    OBVIOUS
  <2>1. ASSUME toServer # <<>>, ~ HungUp PROVE Head(toServer) \in Legal[server]
    <3>. PICK p \in Places : Stands(p)
      BY <2>1 DEF IInv, TalkInv
    <3>1. Writing(p)
      BY <2>1 DEF Stands, Answered
    <3>2. \/ server = "nonce" /\ Head(toServer) = "nonce"
          \/ server = "nul" /\ Head(toServer) = "nul"
          \/ server = "auth" /\ Head(toServer) = "AUTH"
          \/ server = "data" /\ Head(toServer) \in {"DATA", "CANCEL"}
          \/ server = "begin" /\ Head(toServer) = "BEGIN"
          \/ server = "messages" /\ Head(toServer) = "Hello"
      BY <2>1, <3>1, ShortQueues DEF Writing
    <3> QED
      BY <3>2 DEF Legal
  <2>2. pc \in {"begin", "hello"} => toClient = <<>>
    BY DEF IInv, Awaited
  <2> QED
    BY <2>1, <2>2 DEF InStep
<1> QED
  BY <1>1, InitHolds, StepInv, PTL DEF Spec

\* Connect starts the receive loop when the conversation is over, so that the two
\* never read from the socket together, and closes the socket when it fails.
THEOREM ReadersApart == Spec => []ReadersInv
<1>1. IInv => ReadersInv
  BY DEF IInv
<1> QED
  BY <1>1, InitHolds, StepInv, PTL DEF Spec

=============================================================================
