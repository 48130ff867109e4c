----------------------------- MODULE Connecting -----------------------------
(***************************************************************************)
(* Connect (dbus.go): Dial of a transport (transport.go), the conversation *)
(* of authenticate with the server (auth.go), the start of the receive     *)
(* loop, and Hello.                                                        *)
(*                                                                         *)
(* A line of the conversation is its command: what a mechanism computes is *)
(* whether ProcessData succeeds, fails or panics.  The server is that of   *)
(* the D-Bus specification: it answers each line it gets in the state it   *)
(* is in.  It may reject, report an error, say something unknown, leave    *)
(* out the argument of DATA or hang up at any time.                        *)
(***************************************************************************)
EXTENDS Integers, Sequences

CONSTANTS
  Transports,   \* "unix", "tcp" or "nonce-tcp"
  Mechanisms,   \* the authenticators, in the order in which they are tried
  Processes,    \* those whose ProcessData may succeed
  MaxChallenges \* bound: how often the server sends DATA for one mechanism

ASSUME ConnectingAssumption ==
  /\ Transports \subseteq {"unix", "tcp", "nonce-tcp"}
  /\ Mechanisms # <<>> /\ MaxChallenges \in Nat

VARIABLES
  transport,
  pc,        \* where Connect is
  mechanism, \* which authenticator it has come to
  socket,    \* bus.conn: "none", "open" or "closed"
  receiving, \* the receive loop: "none", "running" or "ended"
  toServer,  \* what was written and the server has not read
  toClient,  \* what the server has written and nobody has read
  server,    \* the state of the server
  challenges

clientVars == <<transport, pc, mechanism, socket, receiving>>
vars == <<clientVars, toServer, toClient, server, challenges>>

Init ==
  /\ transport \in Transports
  /\ pc = "dial" /\ mechanism = 1 /\ socket = "none" /\ receiving = "none"
  /\ toServer = <<>> /\ toClient = <<>> /\ challenges = 0
  /\ server = IF transport = "nonce-tcp" THEN "nonce" ELSE "nul"

Goto(from, to) == pc = from /\ pc' = to
HungUp == server = "gone"

(***************************************************************************)
(* Connect and Dial.                                                       *)
(***************************************************************************)
\* No such transport, no nonce file, or nobody listens.
DialFails ==
  /\ Goto("dial", "failed")
  /\ UNCHANGED <<transport, mechanism, socket, receiving, toServer, toClient, server, challenges>>

Dial ==
  /\ Goto("dial", IF transport = "nonce-tcp" THEN "nonce" ELSE "nul")
  /\ socket' = "open"
  /\ UNCHANGED <<transport, mechanism, receiving, toServer, toClient, server, challenges>>

\* A write, which fails if the server has hung up.
Write(line) ==
  /\ toServer' = Append(toServer, line)
  /\ UNCHANGED <<transport, receiving, toClient, server, challenges>>

\* Mutated form: the socket is left open when authenticate fails.
Fail_LeavesSocket ==
  /\ pc' = "failed"
  /\ UNCHANGED <<transport, mechanism, socket, receiving, toServer, toClient, server, challenges>>

\* Connect and the Dial of nonce-tcp close the socket before they return an error.
Fail ==
  /\ pc' = "failed" /\ socket' = "closed"
  /\ UNCHANGED <<transport, mechanism, receiving, toServer, toClient, server, challenges>>

WriteNonce == Goto("nonce", "nul") /\ Write("nonce") /\ UNCHANGED <<mechanism, socket>>

(***************************************************************************)
(* authenticate.                                                           *)
(***************************************************************************)
WriteNul == Goto("nul", "auth") /\ Write("nul") /\ UNCHANGED <<mechanism, socket>>

SendAuth ==
  /\ mechanism <= Len(Mechanisms)
  /\ Goto("auth", "reply") /\ Write("AUTH")
  /\ UNCHANGED <<mechanism, socket>>

NoMechanismLeft == pc = "auth" /\ mechanism > Len(Mechanisms) /\ Fail

ReadLine(command) ==
  /\ pc = "reply" /\ toClient # <<>> /\ Head(toClient) = command
  /\ toClient' = Tail(toClient)
  /\ UNCHANGED <<transport, receiving, server, challenges>>

ReadOK == ReadLine("OK") /\ pc' = "begin" /\ UNCHANGED <<mechanism, socket, toServer>>

ReadRejected ==
  /\ ReadLine("REJECTED")
  /\ pc' = "auth" /\ mechanism' = mechanism + 1
  /\ UNCHANGED <<socket, toServer>>

\* Mutated form: the next mechanism is tried without a CANCEL.
ReadData_NoCancel ==
  /\ ReadLine("DATA")
  /\ UNCHANGED socket
  /\ \/ Mechanisms[mechanism] \in Processes /\ toServer' = Append(toServer, "DATA")
        /\ UNCHANGED <<pc, mechanism>>
     \/ pc' = "auth" /\ mechanism' = mechanism + 1 /\ UNCHANGED toServer

\* ProcessData succeeds, and its result is sent, or the mechanism is given up.
ReadData ==
  /\ ReadLine("DATA")
  /\ toServer' \in {Append(toServer, "CANCEL")} \union
                     (IF Mechanisms[mechanism] \in Processes THEN {Append(toServer, "DATA")} ELSE {})
  /\ UNCHANGED <<pc, mechanism, socket>>

\* Nobody looks whether DATA has an argument, or whether the words are there that
\* ProcessData takes from the challenge and from the keyring: Connect panics, and
\* nothing closes the socket.
ReadDataPanics ==
  /\ \/ ReadLine("bare DATA")
     \/ ReadLine("DATA") /\ Mechanisms[mechanism] \in Processes
  /\ pc' = "panicked"
  /\ UNCHANGED <<mechanism, socket, toServer>>

\* ERROR, something unknown, or the end of the stream.
ReadFails ==
  /\ pc = "reply"
  /\ \/ toClient # <<>> /\ Head(toClient) \in {"ERROR", "unknown"}
     \/ toClient = <<>> /\ HungUp
  /\ Fail

Begin == Goto("begin", "hello") /\ Write("BEGIN") /\ UNCHANGED <<mechanism, socket>>

WriteFails ==
  /\ pc \in {"nonce", "nul", "auth", "begin"} /\ HungUp
  /\ Fail

(***************************************************************************)
(* Hello, the first call, for whose reply the receive loop is needed.      *)
(***************************************************************************)
Hello ==
  /\ Goto("hello", "waiting")
  /\ receiving' = "running"
  /\ toServer' = Append(toServer, "Hello")
  /\ UNCHANGED <<transport, mechanism, socket, toClient, server, challenges>>

\* The loop has been started when the call cannot be written.
HelloFails ==
  /\ HungUp /\ Goto("hello", "failed")
  /\ receiving' = "running" /\ socket' = "closed"
  /\ UNCHANGED <<transport, mechanism, toServer, toClient, server, challenges>>

ReceiveReply(says) ==
  /\ receiving = "running" /\ socket = "open" /\ pc = "waiting"
  /\ toClient # <<>> /\ Head(toClient) = says
  /\ toClient' = Tail(toClient)
  /\ UNCHANGED <<transport, mechanism, receiving, toServer, server, challenges>>

HelloReturns == ReceiveReply("name") /\ pc' = "connected" /\ UNCHANGED socket
HelloRefused == ReceiveReply("error reply") /\ pc' = "failed" /\ socket' = "closed"

\* The server has hung up, or the socket was closed ...
ReceiveLoopEnds ==
  /\ receiving = "running" /\ receiving' = "ended"
  /\ socket = "closed" \/ (toClient = <<>> /\ HungUp)
  /\ UNCHANGED <<transport, pc, mechanism, socket, toServer, toClient, server, challenges>>

\* ... or a message came in pieces (module MessageStream).
ReceiveLoopFails ==
  /\ receiving = "running" /\ receiving' = "ended" /\ toClient # <<>>
  /\ UNCHANGED <<transport, pc, mechanism, socket, toServer, toClient, server, challenges>>

(***************************************************************************)
(* The server.                                                             *)
(***************************************************************************)
\* What it waits for in each state, and what it may say then.
Legal ==
  [nonce |-> {"nonce"}, nul |-> {"nul"}, auth |-> {"AUTH"}, data |-> {"DATA", "CANCEL"},
   begin |-> {"BEGIN"}, messages |-> {"Hello"}, gone |-> {}]

ServerReads(states, lines) ==
  /\ server \in states /\ toServer # <<>> /\ Head(toServer) \in lines
  /\ toServer' = Tail(toServer)
  /\ UNCHANGED clientVars

Says(line, state) == toClient' = Append(toClient, line) /\ server' = state

ServerSilent ==
  /\ \/ ServerReads({"nonce"}, {"nonce"}) /\ server' = "nul"
     \/ ServerReads({"nul"}, {"nul"}) /\ server' = "auth"
     \/ ServerReads({"begin"}, {"BEGIN"}) /\ server' = "messages"
  /\ UNCHANGED <<toClient, challenges>>

ServerAnswers ==
  /\ ServerReads({"auth", "data"}, {"AUTH", "DATA"})
  /\ \/ Says("OK", "begin") /\ UNCHANGED challenges
     \/ Says("REJECTED", "auth") /\ challenges' = 0
     \/ /\ challenges < MaxChallenges /\ challenges' = challenges + 1
        /\ \E line \in {"DATA", "bare DATA"} : Says(line, "data")
     \/ (\E line \in {"ERROR", "unknown"} : Says(line, server)) /\ UNCHANGED challenges

ServerCancels ==
  ServerReads({"data"}, {"CANCEL"}) /\ Says("REJECTED", "auth") /\ challenges' = 0

ServerGreets ==
  /\ ServerReads({"messages"}, {"Hello"})
  /\ \E line \in {"name", "error reply"} : Says(line, server)
  /\ UNCHANGED challenges

HangUp ==
  /\ ~ HungUp /\ socket = "open" /\ pc # "connected"
  /\ server' = "gone"
  /\ UNCHANGED <<clientVars, toServer, toClient, challenges>>

ClientStep ==
  \/ DialFails \/ Dial \/ WriteNonce \/ WriteNul
  \/ SendAuth \/ NoMechanismLeft \/ ReadOK \/ ReadRejected \/ ReadData \/ ReadDataPanics
  \/ ReadFails \/ Begin \/ WriteFails \/ Hello \/ HelloFails \/ HelloReturns \/ HelloRefused

ServerStep == ServerSilent \/ ServerAnswers \/ ServerCancels \/ ServerGreets

Next == ClientStep \/ ReceiveLoopEnds \/ ReceiveLoopFails \/ ServerStep \/ HangUp

\* Connect and the loop run on, and the server answers while it has not hung up.
Fairness == WF_vars(ClientStep) /\ WF_vars(ReceiveLoopEnds) /\ WF_vars(ServerStep)

Spec == Init /\ [][Next]_vars /\ Fairness

(***************************************************************************)
(* Properties.                                                             *)
(***************************************************************************)
\* The line the server is to read next is one it waits for in its state: no AUTH
\* while a mechanism is under way, BEGIN only after OK, and nothing but messages
\* after it.  And the buffer from which authenticate reads its lines, which is lost
\* when it returns, holds nothing the receive loop should read.
InStep ==
  /\ toServer # <<>> /\ ~ HungUp => Head(toServer) \in Legal[server]
  /\ pc \in {"begin", "hello"} => toClient = <<>>

\* Connect ends with a name, or with an error, no open socket and no receive loop,
\* unless the loop ended before the reply to Hello, for which it waits for good, or
\* the server's challenge made it panic in the middle of the conversation.
ConnectsOrCleansUp ==
  (pc = "dial") ~>
    \/ pc = "connected" /\ socket = "open"
    \/ pc = "failed" /\ socket # "open" /\ receiving # "running"
    \/ pc = "waiting" /\ receiving = "ended"
    \/ pc = "panicked" /\ server \in {"data", "gone"} /\ receiving = "none"
=============================================================================
