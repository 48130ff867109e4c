------------------------------ MODULE BusNames ------------------------------
(***************************************************************************)
(* Owning a bus name (names.go): the goroutine RequestName starts, the two *)
(* it starts in turn to receive NameLost and NameAcquired, executions of   *)
(* Release, the receive loop, the application that receives from C, and    *)
(* the bus with a rival for the name.                                      *)
(*                                                                         *)
(* Every call to the bus is made with name.lock held, so there is one at a *)
(* time.  WatchSignal and SignalWatch.Cancel are those of module           *)
(* SignalWatches: here they are the change of the table, the call and what *)
(* is done when it returns.  The connection stays up.                      *)
(***************************************************************************)
EXTENDS Integers, Sequences

CONSTANTS
  Request, Lost, Acquired, \* the goroutines of request and of the two watches
  Releases,   \* executions of Release
  FlagChoices,\* the NameFlags of the request
  Owners,     \* who may own the name at first
  Faults,     \* the bus may answer "AddMatch", "RemoveMatch", "RequestName" or
              \* "ReleaseName" with an error
  MaxMoves,   \* bound: how often the rival takes the name or gives it up
  None

Watchers == {Lost, Acquired}
Goroutines == {Request} \union Watchers \union Releases
Flags == {"AllowReplacement", "ReplaceExisting", "DoNotQueue"}

\* "us" owns the name by this BusName, "other" by another one of this connection.
Parties == {"nobody", "us", "other", "rival"}
Methods == {"AddMatch", "RemoveMatch", "RequestName", "ReleaseName"}
Answers == {"ok", "error", "owner", "queued", "refused"}

ASSUME BusNameAssumption ==
  /\ Request # Lost /\ Request # Acquired /\ Lost # Acquired
  /\ {Request, Lost, Acquired} \intersect Releases = {} /\ None \notin Goroutines \union Methods \union Answers
  /\ FlagChoices \subseteq SUBSET Flags /\ Owners \subseteq Parties \ {"us"}
  /\ Faults \subseteq Methods /\ MaxMoves \in Nat

VARIABLES
  pc,           \* where each goroutine is
  lock,         \* name.lock
  buffer,       \* what is in the channel C, with room for one
  closedBy,     \* the goroutine that closed C and set cancelled, or None
  told,         \* history: what the application received from C
  needsRelease,
  watch,        \* lostWatch and acquiredWatch, by the goroutine that receives: "nil", "on" or "closed"
  rules,        \* those of them that are in signalMatchRules
  call, answer, \* the call the holder of name.lock waits for, and its reply
  loop,         \* the receive loop: <<>>, or the watch it delivers a signal to
  fromBus,      \* what the bus has sent
  flags,
  owner, queued,\* the bus: who owns the name, and whether this connection waits for it
  moves,        \* bound: how often the rival has acted
  foreign,      \* history: whether NameLost was sent for the other BusName
  held          \* history: the watchers that had a signal in hand when C was closed

channelVars == <<buffer, closedBy, told, held>>
watchVars == <<watch, rules>>
callVars == <<call, answer>>
busVars == <<fromBus, owner, queued, moves, foreign>>
vars == <<pc, lock, channelVars, needsRelease, watchVars, callVars, loop, busVars, flags>>

Init ==
  /\ pc = [g \in Goroutines |-> "new"] /\ lock = None
  /\ buffer = <<>> /\ closedBy = None /\ told = <<>> /\ held = {}
  /\ needsRelease = FALSE
  /\ watch = [w \in Watchers |-> "nil"] /\ rules = {}
  /\ call = None /\ answer = None /\ loop = <<>> /\ fromBus = <<>>
  /\ flags \in FlagChoices /\ owner \in Owners /\ queued = FALSE /\ moves = 0 /\ foreign = FALSE

\* A panic ends the program: nothing of it runs any more.
Panicked == \E w \in Watchers : pc[w] = "panicked"
Goto(g, from, to) == ~ Panicked /\ pc[g] = from /\ pc' = [pc EXCEPT ![g] = to]
Call(method) == call' = method /\ UNCHANGED answer
Answered(what) == answer = what /\ answer' = None /\ UNCHANGED call
Unlock == lock' = None

(***************************************************************************)
(* request.                                                                *)
(***************************************************************************)
\* The watch that request sets up next.
NextWatch == IF watch[Lost] = "nil" THEN Lost ELSE Acquired

RequestBegins ==
  /\ lock = None /\ closedBy = None
  /\ Goto(Request, "new", "watch")
  /\ lock' = Request
  /\ UNCHANGED <<channelVars, needsRelease, watchVars, callVars, loop, busVars, flags>>

\* Released before the goroutine got to run.
RequestCancelled ==
  /\ lock = None /\ closedBy # None
  /\ Goto(Request, "new", "returned")
  /\ UNCHANGED <<lock, channelVars, needsRelease, watchVars, callVars, loop, busVars, flags>>

WatchSignal ==
  /\ Goto(Request, "watch", "watching")
  /\ rules' = rules \union {NextWatch}
  /\ Call("AddMatch")
  /\ UNCHANGED <<lock, channelVars, needsRelease, watch, loop, busVars, flags>>

\* Its goroutine starts to range over the signals.
WatchSignalReturns ==
  /\ ~ Panicked /\ pc[Request] = "watching"
  /\ pc' = [pc EXCEPT ![Request] = IF NextWatch = Lost THEN "watch" ELSE "request",
                      ![NextWatch] = "ranging"]
  /\ Answered("ok")
  /\ watch' = [watch EXCEPT ![NextWatch] = "on"]
  /\ UNCHANGED <<lock, channelVars, needsRelease, rules, loop, busVars, flags>>

\* request calls Release, which waits for the lock that request itself holds.
WatchSignalFails ==
  /\ Goto(Request, "watching", "selfLocked")
  /\ Answered("error")
  /\ rules' = rules \ {NextWatch}
  /\ UNCHANGED <<lock, channelVars, needsRelease, watch, loop, busVars, flags>>

RequestName ==
  /\ Goto(Request, "request", "requesting")
  /\ Call("RequestName")
  /\ UNCHANGED <<lock, channelVars, needsRelease, watchVars, loop, busVars, flags>>

\* Mutated form: the owner need not release the name.
RequestReturns_OwnerKeeps ==
  /\ \/ Answered("owner") /\ Goto(Request, "requesting", "returned") /\ Unlock /\ UNCHANGED needsRelease
     \/ Answered("queued") /\ Goto(Request, "requesting", "telling") /\ needsRelease' = TRUE
        /\ UNCHANGED lock
     \/ Answered("refused") /\ Goto(Request, "requesting", "telling") /\ UNCHANGED <<needsRelease, lock>>
     \/ Answered("error") /\ Goto(Request, "requesting", "returned") /\ Unlock /\ UNCHANGED needsRelease
  /\ UNCHANGED <<channelVars, watchVars, loop, busVars, flags>>

\* The four results, and an error: that one leaves the watches, and C silent.
RequestReturns ==
  /\ \/ Answered("owner") /\ Goto(Request, "requesting", "returned") /\ needsRelease' = TRUE /\ Unlock
     \/ Answered("queued") /\ Goto(Request, "requesting", "telling") /\ needsRelease' = TRUE
        /\ UNCHANGED lock
     \/ Answered("refused") /\ Goto(Request, "requesting", "telling") /\ UNCHANGED <<needsRelease, lock>>
     \/ Answered("error") /\ Goto(Request, "requesting", "returned") /\ Unlock /\ UNCHANGED needsRelease
  /\ UNCHANGED <<channelVars, watchVars, loop, busVars, flags>>

Send(word) ==
  /\ closedBy = None /\ buffer = <<>>
  /\ buffer' = <<word>>
  /\ UNCHANGED <<closedBy, told, held, needsRelease, watchVars, callVars, loop, busVars, flags>>

\* ErrNameInQueue is the last that request says; after ErrNameExists and
\* ErrNameAlreadyOwned the BusName is released.
RequestTells ==
  IF needsRelease
  THEN Goto(Request, "telling", "returned") /\ Send("queued") /\ Unlock
  ELSE Goto(Request, "telling", "release") /\ Send("refused") /\ UNCHANGED lock

(***************************************************************************)
(* The goroutines that receive NameLost and NameAcquired.                  *)
(***************************************************************************)
LockForLost ==
  /\ lock = None /\ lock' = Lost
  /\ Goto(Lost, "locking", "telling")
  /\ UNCHANGED <<channelVars, needsRelease, watchVars, callVars, loop, busVars, flags>>

\* One loss ends it, with release(false).
LostTells == Goto(Lost, "telling", "release") /\ Send("lost") /\ UNCHANGED lock

\* Mutated form: what finds no room is dropped.
AcquiredTells_Drops ==
  \/ Goto(Acquired, "telling", "ranging") /\ Send("nil") /\ UNCHANGED lock
  \/ /\ closedBy = None /\ buffer # <<>>
     /\ Goto(Acquired, "telling", "ranging")
     /\ UNCHANGED <<lock, channelVars, needsRelease, watchVars, callVars, loop, busVars, flags>>

AcquiredTells == Goto(Acquired, "telling", "ranging") /\ Send("nil") /\ UNCHANGED lock

\* A send on a closed channel: the program ends.
SendPanics(w) ==
  /\ closedBy # None
  /\ Goto(w, "telling", "panicked")
  /\ UNCHANGED <<lock, channelVars, needsRelease, watchVars, callVars, loop, busVars, flags>>

RangeEnds(w) ==
  /\ watch[w] = "closed"
  /\ Goto(w, "ranging", "returned")
  /\ UNCHANGED <<lock, channelVars, needsRelease, watchVars, callVars, loop, busVars, flags>>

(***************************************************************************)
(* Release, and release as the three others call it: name.lock is held.    *)
(***************************************************************************)
CallRelease(x) ==
  /\ Goto(x, "new", "locking")
  /\ UNCHANGED <<lock, channelVars, needsRelease, watchVars, callVars, loop, busVars, flags>>

LockForRelease(x) ==
  /\ lock = None
  /\ IF closedBy = None
     THEN Goto(x, "locking", "release") /\ lock' = x
     ELSE Goto(x, "locking", "returned") /\ UNCHANGED lock
  /\ UNCHANGED <<channelVars, needsRelease, watchVars, callVars, loop, busVars, flags>>

\* Only Release itself asks the bus to release the name.
Drops(g) == g \in Releases /\ needsRelease
ToCancel == {w \in Watchers : watch[w] = "on"}
\* acquiredWatch is cancelled before lostWatch.
NextCancel == IF Acquired \in ToCancel THEN Acquired ELSE Lost

CancelWatch(g) ==
  /\ ToCancel # {} /\ NextCancel \in rules
  /\ Goto(g, "release", "cancelling")
  /\ rules' = rules \ {NextCancel}
  /\ Call("RemoveMatch")
  /\ UNCHANGED <<lock, channelVars, needsRelease, watch, loop, busVars, flags>>

\* A Cancel that failed before has taken the rule out of the table.
CancelWatchAgain(g) ==
  /\ ToCancel # {} /\ NextCancel \notin rules
  /\ ~ Panicked /\ pc[g] = "release"
  /\ watch' = [watch EXCEPT ![NextCancel] = "closed"]
  /\ UNCHANGED <<pc, lock, channelVars, needsRelease, rules, callVars, loop, busVars, flags>>

CancelReturns(g) ==
  /\ Goto(g, "cancelling", "release")
  /\ Answered("ok")
  /\ watch' = [watch EXCEPT ![NextCancel] = "closed"]
  /\ UNCHANGED <<lock, channelVars, needsRelease, rules, loop, busVars, flags>>

\* Mutated form: the lock is not unlocked on the way out.
ReleaseFails_KeepsLock(g) ==
  /\ \/ Goto(g, "cancelling", "returned")
     \/ Goto(g, "releasing", "returned")
  /\ Answered("error")
  /\ UNCHANGED <<lock, channelVars, needsRelease, watchVars, loop, busVars, flags>>

ReleaseFails(g) ==
  /\ \/ Goto(g, "cancelling", "returned")
     \/ Goto(g, "releasing", "returned")
  /\ Answered("error")
  /\ Unlock
  /\ UNCHANGED <<channelVars, needsRelease, watchVars, loop, busVars, flags>>

ReleaseName(g) ==
  /\ ToCancel = {} /\ Drops(g)
  /\ Goto(g, "release", "releasing")
  /\ Call("ReleaseName")
  /\ UNCHANGED <<lock, channelVars, needsRelease, watchVars, loop, busVars, flags>>

ReleaseNameReturns(g) ==
  /\ Goto(g, "releasing", "release")
  /\ Answered("ok")
  /\ needsRelease' = FALSE
  /\ UNCHANGED <<lock, channelVars, watchVars, loop, busVars, flags>>

\* Mutated form: C is closed while the watches are in force.
CloseChannel_First(g) ==
  /\ Goto(g, "release", "returned") /\ Unlock
  /\ closedBy' = g
  /\ held' = {w \in Watchers \ {g} : pc[w] \in {"locking", "telling"}}
  /\ UNCHANGED <<buffer, told, needsRelease, watchVars, callVars, loop, busVars, flags>>

CloseChannel(g) ==
  /\ ToCancel = {} /\ ~ Drops(g)
  /\ Goto(g, "release", "returned") /\ Unlock
  /\ closedBy' = g
  /\ held' = {w \in Watchers \ {g} : pc[w] \in {"locking", "telling"}}
  /\ UNCHANGED <<buffer, told, needsRelease, watchVars, callVars, loop, busVars, flags>>

(***************************************************************************)
(* The receive loop and the application.                                   *)
(***************************************************************************)
ReadReply ==
  /\ ~ Panicked /\ loop = <<>> /\ fromBus # <<>> /\ Head(fromBus)[1] = "reply"
  /\ answer' = Head(fromBus)[2]
  /\ fromBus' = Tail(fromBus)
  /\ UNCHANGED <<pc, lock, channelVars, needsRelease, watchVars, call, loop, owner, queued, moves, foreign, flags>>

\* A signal nobody watches is dropped.
ReadSignal ==
  /\ ~ Panicked /\ loop = <<>> /\ fromBus # <<>> /\ Head(fromBus)[1] = "signal"
  /\ loop' = IF Head(fromBus)[2] \in rules THEN <<Head(fromBus)[2]>> ELSE <<>>
  /\ fromBus' = Tail(fromBus)
  /\ UNCHANGED <<pc, lock, channelVars, needsRelease, watchVars, callVars, owner, queued, moves, foreign, flags>>

\* SignalWatch.C is unbuffered: the loop waits until the goroutine takes it.
Deliver(w) ==
  /\ loop = <<w>> /\ loop' = <<>>
  /\ Goto(w, "ranging", IF w = Lost THEN "locking" ELSE "telling")
  /\ UNCHANGED <<lock, channelVars, needsRelease, watchVars, callVars, busVars, flags>>

Receives ==
  /\ ~ Panicked /\ buffer # <<>>
  /\ told' = Append(told, Head(buffer)) /\ buffer' = Tail(buffer)
  /\ UNCHANGED <<pc, lock, closedBy, held, needsRelease, watchVars, callVars, loop, busVars, flags>>

(***************************************************************************)
(* The bus: NameLost and NameAcquired go to the connection they are about, *)
(* before the reply to the call that caused them.                          *)
(***************************************************************************)
Signal(w) == <<"signal", w>>
Reply(what) == <<"reply", what>>

BusServes ==
  LET Grants(who, waits, sent) == owner' = who /\ queued' = waits /\ fromBus' = fromBus \o sent
  IN  /\ call # None /\ call' = None
      /\ \/ call \in Faults /\ Grants(owner, queued, <<Reply("error")>>)
         \/ call \in {"AddMatch", "RemoveMatch"} /\ Grants(owner, queued, <<Reply("ok")>>)
         \/ /\ call = "RequestName"
            /\ owner = "nobody" \/ (owner = "rival" /\ "ReplaceExisting" \in flags)
            /\ Grants("us", FALSE, <<Signal(Acquired), Reply("owner")>>)
         \/ /\ call = "RequestName" /\ owner = "rival" /\ "DoNotQueue" \notin flags
            /\ Grants(owner, TRUE, <<Reply("queued")>>)
         \/ /\ call = "RequestName" /\ owner \in {"rival", "other"}
            /\ owner = "rival" => "DoNotQueue" \in flags
            /\ Grants(owner, queued, <<Reply("refused")>>)
         \/ /\ call = "ReleaseName" /\ owner = "us"
            /\ Grants("nobody", FALSE, <<Signal(Lost), Reply("ok")>>)
         \/ call = "ReleaseName" /\ owner # "us" /\ Grants(owner, FALSE, <<Reply("ok")>>)
  /\ UNCHANGED <<pc, lock, channelVars, needsRelease, watchVars, answer, loop, moves, foreign, flags>>

\* One that is replaced waits in the queue unless it asked not to.
RivalTakes ==
  /\ moves < MaxMoves /\ moves' = moves + 1
  /\ \/ owner = "nobody" /\ UNCHANGED <<fromBus, queued>>
     \/ /\ owner = "us" /\ "AllowReplacement" \in flags
        /\ fromBus' = Append(fromBus, Signal(Lost))
        /\ queued' = ("DoNotQueue" \notin flags)
  /\ owner' = "rival"
  /\ UNCHANGED <<pc, lock, channelVars, needsRelease, watchVars, callVars, loop, foreign, flags>>

RivalLeaves ==
  /\ moves < MaxMoves /\ moves' = moves + 1
  /\ owner = "rival" /\ queued' = FALSE
  /\ owner' = IF queued THEN "us" ELSE "nobody"
  /\ fromBus' = IF queued THEN Append(fromBus, Signal(Acquired)) ELSE fromBus
  /\ UNCHANGED <<pc, lock, channelVars, needsRelease, watchVars, callVars, loop, foreign, flags>>

\* Another BusName of this connection releases it.
OtherLeaves ==
  /\ owner = "other" /\ owner' = "nobody" /\ foreign' = TRUE
  /\ fromBus' = Append(fromBus, Signal(Lost))
  /\ UNCHANGED <<pc, lock, channelVars, needsRelease, watchVars, callVars, loop, queued, moves, flags>>

ReleaseStep(g) ==
  CancelWatch(g) \/ CancelWatchAgain(g) \/ CancelReturns(g) \/ ReleaseFails(g)
  \/ ReleaseName(g) \/ ReleaseNameReturns(g) \/ CloseChannel(g)

RequestStep ==
  \/ RequestBegins \/ RequestCancelled \/ WatchSignal \/ WatchSignalReturns \/ WatchSignalFails
  \/ RequestName \/ RequestReturns \/ RequestTells \/ ReleaseStep(Request)

LostStep == LockForLost \/ LostTells \/ SendPanics(Lost) \/ RangeEnds(Lost) \/ ReleaseStep(Lost)
AcquiredStep == AcquiredTells \/ SendPanics(Acquired) \/ RangeEnds(Acquired)
LoopStep == ReadReply \/ ReadSignal \/ \E w \in Watchers : Deliver(w)

Next ==
  \/ RequestStep \/ LostStep \/ AcquiredStep
  \/ \E x \in Releases : CallRelease(x) \/ LockForRelease(x) \/ ReleaseStep(x)
  \/ LoopStep \/ Receives \/ BusServes
  \/ RivalTakes \/ RivalLeaves \/ OtherLeaves

(***************************************************************************)
(* Fairness: goroutines that can run do, the loop reads, the application   *)
(* receives from C and the bus answers.  Nobody has to release the name,   *)
(* and nothing makes the rival act.                                        *)
(***************************************************************************)
Fairness ==
  /\ WF_vars(RequestStep) /\ WF_vars(LostStep) /\ WF_vars(AcquiredStep)
  /\ \A x \in Releases : WF_vars(LockForRelease(x) \/ ReleaseStep(x))
  /\ WF_vars(LoopStep) /\ WF_vars(Receives) /\ WF_vars(BusServes)

Spec == Init /\ [][Next]_vars /\ Fairness

(***************************************************************************)
(* Properties.                                                             *)
(***************************************************************************)
\* Where a goroutine can be.
Places ==
  {"new", "watch", "watching", "selfLocked", "request", "requesting", "telling", "release",
   "cancelling", "releasing", "ranging", "locking", "returned", "panicked"}

TypeOK ==
  /\ pc \in [Goroutines -> Places]
  /\ lock \in Goroutines \union {None}
  /\ buffer \in Seq({"nil", "lost", "queued", "refused"}) /\ Len(buffer) <= 1
  /\ told \in Seq({"nil", "lost", "queued", "refused"})
  /\ closedBy \in Goroutines \union {None} /\ held \in SUBSET Watchers
  /\ needsRelease \in BOOLEAN
  /\ watch \in [Watchers -> {"nil", "on", "closed"}] /\ rules \in SUBSET Watchers
  /\ call \in Methods \union {None}
  /\ answer \in Answers \union {None}
  /\ fromBus \in Seq({Signal(w) : w \in Watchers} \union {Reply(r) : r \in Answers})
  /\ loop \in {<<>>} \union {<<w>> : w \in Watchers}
  /\ flags \in SUBSET Flags /\ owner \in Parties /\ queued \in BOOLEAN /\ moves \in 0..MaxMoves
  /\ foreign \in BOOLEAN

\* Nobody sends on the C that is closed, but for a goroutine that had a NameLost
\* or NameAcquired in hand when it was: release waits for neither.
PanicsOnlyIfHeld == \A w \in Watchers : pc[w] = "panicked" => w \in held

\* Once C is closed, the bus neither has this connection as the owner of the name
\* nor in the queue for it.  The two exceptions are those of a NameLost, after
\* which nothing is released: the bus has put the owner that was replaced into
\* the queue, or the NameLost was that of another BusName of the connection.
GivenUp ==
  closedBy # None /\ (owner = "us" \/ queued) =>
    closedBy = Lost /\ ("DoNotQueue" \notin flags \/ foreign)

\* When nothing is under way and both watches are in force, the application has
\* been told nil last exactly if the name is owned, with one exception: a place
\* in the queue that turned into the name at once may be told after the name.
Quiet ==
  /\ fromBus = <<>> /\ loop = <<>> /\ buffer = <<>>
  /\ pc[Request] = "returned" /\ \A w \in Watchers : pc[w] = "ranging"
Informed ==
  Quiet /\ rules = Watchers =>
    (owner = "us" <=> told \in {<<"nil">>, <<"queued", "nil">>, <<"nil", "queued">>})

\* What nobody ends: request waits for its own lock, or the loop for a goroutine
\* to receive that has taken the one NameLost it takes, or that is started only
\* when the loop has dispatched the reply behind.
Stuck ==
  \/ pc[Request] = "selfLocked"
  \/ loop = <<Lost>> /\ pc[Lost] # "ranging" /\ (pc[Lost] = "new" => answer = None)

\* Release returns, whatever request, the loss of the name and other Releases do
\* at the time, but for those cases and the panic.
ReleaseReturns == \A x \in Releases : pc[x] = "locking" ~> pc[x] = "returned" \/ Stuck \/ Panicked
=============================================================================
