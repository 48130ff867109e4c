# A verification of go-dbus

go-dbus is a D-Bus client library in Go. This directory holds TLA+ modules
translated from its source, model-checking configurations for TLC, and proofs
checked by TLAPS. `PROJECT.json` lists the runs, the theorems, the source lines
of every definition, the hazards and the disagreements between code and
documentation. Line numbers below are those of the Go files in `src/`.

## 1. The system

A process has one `Connection` to the message bus. Many goroutines of the
application send messages over it; one goroutine, the *receive loop*, reads
everything that comes back and dispatches it, and runs application callbacks and
channel sends itself. Nearly everything that is hard about this code comes from
that one loop: whatever makes it wait makes everybody wait, and it can wait for
somebody who waits for it.

| component | state | operations | hard behaviours | what makes it correct |
|---|---|---|---|---|
| Connection (`dbus.go`, the two writes in `message.go`) | `lastSerial`, `methodCallReplies`, `writeLock`, `connOpen`, the socket | `Send`, `SendWithReply`, `receiveLoop`, `dispatchMessage`, `Close` | concurrent callers, replies in any order and before the write returns, loss of the socket at any step, an answer before the call's last (empty) write, something that is no message, repeated replies | a caller gets its own reply, once; none is dropped; the byte stream is a sequence of whole messages; no entry outlives its call |
| Object path handlers (`dbus.go` 181-199, 323-339) | `objectPathHandlers` | `RegisterObjectPath`, `UnregisterObjectPath`, `handlerForPath` | glob lookup; a handler found and then waited for | the most specific pattern that covers the path wins; each request is answered |
| Signal watch table (`signal.go` 1-110, `matchrule.go` 43-68) | three nested maps of slices of watches | `Add`, `Remove`, `FindMatches`, `Match` | swap-and-truncate removal, keys left unset, an owner that changes under the rule | each matching watch is called exactly once |
| Signal watches (`signal.go` 112-220) | watch lock and flag, channel `C`, rules at the bus | `WatchSignal`, `Cancel`, the callback | the callback blocks the loop; `Cancel` closes the channel the loop sends to | no send on a closed channel; no signal of a live watch lost; both calls return |
| Name watches (`names.go` 9-161) | `nameInfo` map, `nameInfoMutex`, `info.lock`, owner, watches, `C` | `ensureNameWatch`, `newNameInfo`, `handleOwnerChange`, `removeNameWatch`, `WatchName`, `Cancel` | reply to `GetNameOwner`, or its error, against `NameOwnerChanged`; locks held across calls of the bus; callbacks under a lock | owners in order, none lost; the cached owner is the sender's; one shared `nameInfo` |
| Bus names (`names.go` 163-332) | `name.lock`, `cancelled`, `needsRelease`, `C`, two watches | `RequestName`, `request`, `Release`, two goroutines | three goroutines report on one channel and any of them may close it | the application hears of every acquisition and loss, in order; `Release` returns |
| Message filters (`dbus.go` 204-209, 307-321) | `messageFilters` and the array behind it | register, unregister, the loop over them | an unlocked slice shifted in place under a `range` | each registered filter sees each message once, in order |
| Message stream and constructors (`message.go`) | header fields, position in the byte stream | `NewMethodCallMessage` and the like, `AppendArgs`, `WriteTo`, `readMessage` | short reads, padding computed from a negative remainder | what is written is read, field by field, and the next message is found behind it |
| Encoder, decoder, signatures (`encoder.go`, `decoder.go`, `types.go`) | offset in the data, offset in the signature | `Append`, `Decode`, `NextType`, `SignatureOf` | alignment of nested values | what is encoded decodes to the same value at the same offset |
| Connecting (`dbus.go` 100-146, `auth.go`, the `Dial`s of `transport.go`) | the socket, the mechanism tried, the bytes under way | `Connect`, `Dial`, `authenticate`, `ProcessData`, Hello | rejection and cancellation in the middle of a mechanism; an error or a panic at any step; a server that hangs up | client and server stay in step; a failed `Connect` leaves nothing open |
| Address parsing, bus daemon proxy, introspection, match rule strings | none | parsing, wrappers, XML | none | |

How they interact: `SendWithReply` puts a one-slot channel into
`methodCallReplies` and waits for it; the loop takes it out and sends to it.
`WatchSignal` adds to the table, then calls `AddMatch` through `SendWithReply`;
the loop looks watches up and runs their callbacks, which send to unbuffered
channels. A watch whose rule names a sender other than the bus also joins a
`nameInfo`, whose own signal watch follows `NameOwnerChanged`; its callbacks run
in the loop with `info.lock` held. `BusName` uses two `SignalWatch`es and two
goroutines. Locks: `writeLock` (two socket writes), `handlerMutex` (both tables
and the waiters; never held while blocking), `connOpenLock`, one lock per watch
(held across calls of the bus), `nameInfoMutex` and `info.lock` (likewise).

## 2. Modules

| module | models | how state and actions correspond |
|---|---|---|
| `CallService` | what `SendWithReply` promises (abstract) | each call is idle, open, returned or failed; an error only on a dead connection, for a call not answered unless it is one of those that can be answered early; nothing once two messages under way have the same name |
| `ObjectPaths` | `handlerForPath` as an operator | a path is a sequence of components; iteration k of the loop is `LookupKey(path, k)` |
| `ObjectPathTable` | the table under register and unregister | one action each; the panics are guards, the application avoids them |
| `Connection` | `Send`, `SendWithReply`, `receiveLoop`, dispatch of replies and calls, handlers, `Close`, and the bus | one phase per blocking point of a sender; `WriteHeader`, `WriteBody` are the two `Write`s, any of which may fail and leave a half message, or, of a message without arguments (`Bodiless`), a whole one, since its second `Write` has nothing to write; the loop has one state per blocking point and ends when the connection does or when what it reads is no message (`Malformed`); a critical section under `handlerMutex` is one step; serials wrap around, and the history variable `reused` tells whether one was given out while it was in use |
| `Connecting` | `Connect` with the three `Dial`s, `authenticate`, the start of the loop and Hello, against a server | one step per write and per line read; a line is its command, a mechanism is whether `ProcessData` succeeds, fails or panics; the server is a state machine that answers each line in its state, says nonsense, leaves out the argument of `DATA` or hangs up |
| `MessageFilters` | `RegisterMessageFilter`, `UnregisterMessageFilter`, the loop over the filters | arrays are explicit: `append` fills a free slot or moves to a new array, removal shifts the slots in place, and the loop ranges over the array and length it began with |
| `SignalWatchSet` | `Add`, `Remove`, `FindMatches`, `Match` as operators | the nested maps are one function from (path, interface, member) to a sequence |
| `SignalWatchTable` | the index as watches come, go and change owner | `Add`, `Remove`, and the assignment of `senderNameOwner` |
| `SignalWatches` | `WatchSignal`, `Cancel`, callback, loop, bus | one program counter per execution of a call; the table is a set (justified by `SignalWatchTable`) |
| `NameWatches` | `names.go` 9-161 and the parts of `WatchSignal` and `Cancel` that use it | both mutexes, the owner, the watches of each `nameInfo`; a `GetNameOwner` that is answered, or fails for a reason other than that there is no owner; one program counter per call; the loop with its callbacks under `info.lock` |
| `BusNames` | `names.go` 163-332: `request`, the goroutines of the two watches, `Release`, the bus's owner and queue | one program counter per goroutine; `name.lock` is held over every call, so there is one call at a time; `C` with room for one; a rival that takes the name and gives it up; another `BusName` of the same connection that may own the name at first |
| `Alignment` | `align` of encoder and decoder | `AlignUp` |
| `Wire` | one basic value: the encoder's alternatives for them and the decoder's `read` functions | operators on sequences of bytes, none of them recursive; a decoder is a record with the fields of the Go struct |
| `Codec` | `AppendArgs`, `Args`, `AllArgs` with `encoder.go`, `decoder.go` and the signatures of `types.go` | a message is its signature and its body, byte by byte; one action, `AppendArgs`; extends `Wire`: encoder and decoder are recursive operators with one alternative per `case` |
| `Framing` | `WriteTo`, `readMessage` | the stream is a sequence of bytes; a short `Read` is an action; how header fields are encoded is a parameter |
| `MessageStream` | the constructors, and messages on their way | extends `Codec` and `Framing`: header fields are encoded and decoded by `Codec`, `Send` is `Framing`'s `Write` of the message that was made |
| `MC*` | finite instances | sets of model values and functions over them |
| `*Proofs` | theorems | extend the module they are about and `TLAPS` |

The split into layers is deliberate: `SignalWatches` and `NameWatches` treat a
call of the bus as "asked, served in order, answered to the asker", which is what
`Connection` is shown to provide (`OwnReply`, `AnswerNotLost`); `SignalWatches`
treats the table as a set, which is what `SignalWatchTable` shows
(`EachMatchOnce`, `RemoveTellsTruth`); `BusNames` uses `WatchSignal` and `Cancel`
with the round trip `SignalWatches` shows them to make; the frames of
`Connection` are the messages of `Framing`, and the message in pieces that
ends the loop in `Connecting` is its short read.

Abstractions worth knowing:

* A message is named for the goroutine that sends it, and a reply for the call
  it answers; contents are modelled from `Wire` to `MessageStream` only.
* A serial is in use (`InUse`) while a call waits for a reply with it, while the bus
  has not answered its message or the answer is on its way, and for good if a peer
  may repeat the reply (`Repeated`).
* A handler is a goroutine that receives from its channel and answers every
  request, after at most one call of its own (`Nested`).
* In `Connection` a write after the peer is gone fails. One the kernel still takes is a
  write before the loss: its bytes are read by nobody either way.
* In `Connection` a message filter is a set of messages that are taken; how the
  list of filters changes under the loop is `MessageFilters`.
* `NameWatches` has one name. `nameInfoMutex` is shared with other names, whose
  watches would only hold it in the same way. An owner is the number of the
  change that brought it, so "in order" and "none lost" can be stated. Putting
  `watchSignal`'s entry into the table and asking for `AddMatch` is one step, as
  the gap between them is the subject of `SignalWatches`; so is the receiver
  of a `SignalWatch`, who here is always ready. When `GetNameOwner` fails
  (`"silence"`), `checkCurrentOwner` goes on with an empty string for the owner
  (`names.go` 55-66); `InsteadOf(o)` is that string while the owner is `o`.
* In `BusNames` a panic (a send on a closed channel) ends the program: nothing
  steps after it.
* `MessageFilters` lets a filter change the list while it runs, and the
  application when nothing is dispatched. A goroutine that changes it *beside*
  the loop is a data race (`messageFilters` is unlocked, although it stands first
  among what `handlerMutex` "covers", `dbus.go:46`).
* `Add`'s mutations of nested maps and slices (swap with the last, truncate) are
  kept as operations on sequences, because the order of callbacks depends on
  them; creation and deletion of empty inner maps are not.

## 3. Runs

| run | instance | shows |
|---|---|---|
| `connection_safety` | 2 calls, one of them without arguments, 1 cast whose reply a filter takes, 1 request that the loop answers itself, 2 serials, `Close`, loss of the socket, input that is no message, a peer that repeats the reply to one of the calls | `OwnReply`, `WholeFrames`, `NoLeakedWaiter`, `AnswerNotLost`; that `Connection` implements `CallService` |
| `connection_handlers` | 2 requests for `/foo/bar`, which both patterns, `/foo/bar` and `/foo/*`, cover, each registered and removed at will; a handler that makes a call before it answers the first request, so that the second finds it busy; loss of the socket, input that is no message; 3 serials | `CallsReturnUnlessStranded`, `RequestsAnswered`, `LoopStops`: with the deadlock of handler and loop as their stated exception |
| `connection_lost` (violation) | 1 call, loss of the socket | the call never returns |
| `connect` | 3 transports, 2 mechanisms, 2 challenges with and without an argument, a server that rejects, challenges, errs, refuses Hello or hangs up | `InStep`: the next line is one the server waits for, and nothing is left in the buffer `authenticate` drops; `ConnectsOrCleansUp` |
| `message_filters` | 5 interchangeable filters (symmetry), 5 arrays | `ThroughEveryFilter`: each filter that was there sees the message once and in order, unless a filter unregisters one, and what exactly may happen then |
| `object_path_table` | 5 components, 8 patterns, 8 paths | `BestHandlerWins` in every table; `ChangesAreLocal`: a change of one pattern redirects only the paths it covers |
| `signal_watch_table` | 5 watches sharing keys, with unset fields and a named sender, owners that change | `IndexInv`, `EachMatchOnce`, `RemoveTellsTruth` |
| `signal_watches` | 2 watches with overlapping rules, one with a goroutine that ranges over `C`, one cancelled by two goroutines that may receive a signal first, 2 signals, refusals both ways, `Close` | `NoSendOnClosed`, `NoSignalLost`, `RulesAgree`; and liveness: `WatchReturns`, `CancelReturns`, `SignalsReceived` |
| `name_watches` | 1 `NameWatch`, 1 `SignalWatch`, any 2 of 3 `Cancel`s, a name that is well known, unique and owned, or unique and gone, 2 changes of owner, refusals both ways, a `GetNameOwner` that fails | `NoSendOnClosed`, `OwnersInOrder`, `NoChangeLost`, `SenderTracked`, `InfoShared`; and liveness: `WatchReturns`, `CancelReturns`, `OwnerArrives` |
| `name_watches_lost` (violation) | a `SignalWatch` of a unique name that goes | the promised cancellation deadlocks the loop |
| `bus_names` | 3 sets of flags, a name nobody, a rival or another `BusName` owns, 2 `Release`s, a bus that may fail any of its 4 calls, 2 moves of the rival | `PanicsOnlyIfHeld`, `GivenUp`, `Informed`, `ReleaseReturns` |
| `codec` | up to 2 of 36 arguments: basic values of each width, empty and non-empty arrays, maps, structs, variants, each in each other, and values without a signature; and streams of up to 2 of 16 kinds of message, with names of every length modulo 8 | `SignatureWalks`; `EncodedInPlace`, `ArgsRoundTrip`, `BlankRoundTrip`: what is read is what was written, *exactly* outside the cases named below; `AllArgsAgrees`: `AllArgs` returns what `Args` does, and panics exactly where that returns an error; `ReadAsWritten` |

Every property of a passing run has a mutant: a plausible bug in a modelled
definition (`..._<What>` next to the definition) that makes TLC find the property
violated under the same configuration.

Why the bounds suffice. Two calls are the least that can swap replies, interleave
writes or leak a waiter while another is served, and one of them can be answered before it is
written; a request the loop answers makes the loop a writer. There are fewer serials than
messages, so that the counter wraps around within the run, with and without a serial in use
being given out again. Two requests are the least of which one finds the handler busy with
the other, and with two patterns over one path they have one handler or two. Two watches are the least that can share a rule or a signal, and
two `Cancel`s of one watch the least that race on its lock; a third lets either
watch be the one that is cancelled. Two changes of owner let one be in
the channel and one in the loop's hands while a goroutine asks for the owner. Two
moves of the rival take a name away and give it back, and two `Release`s race with
each other and with the release after a `NameLost`. Five filters in arrays of
1, 2, 4 and 8 slots reach every mix of a full array, a free slot and a hole. Two
arguments are enough for `Codec`, because the first may end at any offset
modulo 8, and two messages for the stream, because a mistake shows in the next.
Where the proofs below apply, the bounds do not matter at all.

`CHECK_DEADLOCK FALSE` is set wherever the application may simply do nothing
more (all calls returned, connection closed). What must not stop is stated as
liveness. `object_path_table` has no such end and is checked for deadlock.

### Exceptions, stated exactly

Where the code does not keep a promise in general, the property says in which
states it does not, and TLC checks that there are no others. The excepted states
are named definitions:

* `Connection`. `reused`: `nextSerial` counts to 2^32 and begins again, and does not
  look whether a serial is in use. From the step on that gives one out that is, a call may
  take another's entry in `methodCallReplies` and its reply. `OwnReply`,
  `AnswerNotLost`, `CallsReturnUnlessStranded`, `RequestsAnswered` and `CallService` promise nothing
  from then on; the stream, the table and the one-slot channels stay sound. Serial 0,
  which D-Bus forbids, is given out once in a round; what the bus makes of it is not
  modelled. `Bodiless`: a message without arguments is whole once its header is
  written (`message.go:365`). The bus may answer it, and then the connection may be
  gone when `WriteTo` comes to write the empty body (`message.go:372`): `SendWithReply`
  returns an error for a call that was answered, and the reply is dropped.
  `AnswerNotLost` excepts just these calls, and `CallService` calls them `Early`.
  `Jammed`: the loop waits in `handler <- msg` for a handler that waits for the reply to
  a call of its own, which only the loop can dispatch (`dbus.go:232`). `Stranded`: a
  call whose reply the loop will not dispatch because it is jammed or has stopped.
  `Neglected`: a request behind either of them.
* `SignalWatches`. `Excused`: a `Cancel` that could not write `RemoveMatch` to a
  dead connection leaves the watch out of the table but not cancelled; a second
  `Cancel` finds nothing to remove and closes `C` with no round trip through the
  loop, which may be inside the callback. `LoopStuck`: the loop holds a signal for
  a watch nobody can receive from, because `WatchSignal` has not returned it (its
  reply is behind the signal), has failed, or because the only receiver has gone
  on to cancel.
* `NameWatches`. `Crossed`: `removeNameWatch` calls `RemoveMatch` with `info.lock`
  held, and the loop, with a `NameOwnerChanged` it has looked up, waits for that
  lock and never dispatches the reply. `LoopCancels`: the loop itself cancels the
  watch of a lost unique name, under the lock `Cancel` takes again. `"cancelling"`:
  `WatchSignal` for a unique name that is already gone, or whose owner the bus did
  not say, cancels the very watch whose lock it holds. `InsteadOf`: after a
  `GetNameOwner` that failed for a reason other than that there is no owner, the empty
  string is recorded and told to the watches although the name has an owner, and
  nothing corrects it before the name changes hands. `OwnersInOrder`, `NoChangeLost`,
  `SenderTracked` and `OwnerArrives` allow the empty string in place of that one owner,
  and of no other.
* `BusNames`. `Stuck`: `request` calls `Release` with `name.lock` held after a
  second watch failed, or the loop delivers a `NameLost` to a goroutine that has
  taken the only one it takes, or that is started only when the loop has dispatched
  the reply behind the signal. `PanicsOnlyIfHeld`: a
  goroutine that had a signal in hand when `C` was closed sends on it.
  `GivenUp`: after a `NameLost` nothing is released, so a place in the queue stays.
* `Connecting`. `Connect` waits for good for the reply to Hello if the loop ended
  first: the same gap as `connection_lost`. `"panicked"`: on a `DATA` without an argument
  `authenticate` takes `reply[1]` of one word (`auth.go:165`), and on a challenge with too
  few words, or a keyring without the cookie, `ProcessData` does the like (`auth.go:83-90`):
  `Connect` neither returns nor closes the socket. `ConnectsOrCleansUp` says that it can
  happen in the answer to a challenge only, before the loop is started.
* `MessageFilters`. A filter that unregisters another, or itself, can make the
  loop miss one behind it or call the last one again.
* `Codec`. Nested arrays, and structs in blank interfaces (section 4). Where `Args`
  returns an error, `AllArgs` panics (`message.go:216-218`).

### Fairness

Weak fairness, per goroutine, of steps it is able to take: the Go scheduler runs
every runnable goroutine, and the receive loop is one. Where goroutines compete
for a lock or a channel weak fairness of each is enough in these instances, as
each of them competes a bounded number of times. The bus serves calls
(`WF(BusServes)`, `WF(BusAnswers)`), and the server of `Connecting` answers while
it has not hung up: it is a process at the other end that reads
and answers. The consumer of a channel receives where the module says there is
one: `Pumped` watches, `NameWatch.C` and `BusName.C` are there to be ranged over.
Nothing obliges the application to
watch, cancel, register, release, close or send, nor the bus to refuse, nor a name
to change hands, nor a server to accept. `Fairness` in each module lists exactly
these.

## 4. Disagreements between code and documentation

1. `dbus.go:303`: a call in flight when the connection is lost never returns,
   although a network failure is documented to return an error
   (`connection_lost`).
2. `signal.go:175`: a watch for a unique name is to be cancelled when the name is
   lost; the loop does that with `info.lock` held and deadlocks
   (`name_watches_lost`).

Met while modelling, and stated as the exact limits of what passing runs check:

* The deadlocks and the two sends on closed channels listed under "Exceptions".
* `names.go:275`: `ErrNameInQueue` is sent by `request` and `nil` by another
  goroutine, so the application may hear of the name before it hears of the place
  in the queue, and take the name for lost (`Informed`).
* `dbus.go:205`: `msg :=` declares a new variable, so what a filter returns in
  place of the message is dropped; only whether it is nil counts.
* `encoder.go:144-152`: the content of an array is padded as if it began at a
  multiple of 8, but content of arrays and variants is copied to any multiple of
  4. `[][]int64{{1}}` as the first argument of a message is not read back.
  `EncodedInPlace` says that nothing else is affected, `ArgsRoundTrip` that
  whatever is encoded elsewhere is never read correctly.
* `decoder.go:442-453`: a struct that goes to a blank interface leaves the
  signature before its `)`. `AllArgs` panics on every message with a struct among
  its arguments, a struct within a struct ends the outer one, and a variant that
  holds such a struct loses fields. `BlankRoundTrip` says exactly when.
* `message.go:246,277`: a header that arrives in two pieces ends the receive loop.
* `message.go:209`: `AllArgs` is documented to be equivalent to `Args` with blank
  interfaces, but panics where `Args` returns an error.
* `names.go:58`: an unexpected error of `GetNameOwner` is logged and then treated as an
  answer, that there is no owner.

## 5. Proofs

All proofs hold for every value of the constants that satisfies the named
assumptions (`ConnectionAssumption`, `TableAssumption`, `WatchTableAssumption`,
`SignalAssumption`, `NameAssumption`, `BusNameAssumption`, `FilterAssumption`,
`ConnectingAssumption`: disjointness of names and types of parameters only;
`FieldsAssumption`, the one that says more, is explained below).

* `ConnectionProofs`, without any bound on the number of messages. None of
  `OwnReply`, `AnswerNotLost`, ... is inductive: whether a reply reaches the
  right caller depends on the serials in use being distinct, on entries pointing at calls
  under way, and on every reply in flight carrying the serial of a message that
  was written. `IInv` has two halves. `AlwaysInv` holds however often serials
  wrap around: `LockInv`, `TailInv` (the stream), `BusInv`, `InboundInv` (the bus and
  what comes from it), `EntryInv`, `RoomInv` (an entry is that of a call nothing has
  reached, and what is delivered once took an entry), `DownInv`. `FreshInv` holds until
  `reused`: `SerialInv` (the serials in use are distinct), `WaiterInv`, `DeliveryInv`, and
  the two properties themselves. What makes `SerialInv` inductive is `InUseFrom`: a
  serial comes into use only when it is given out. A call can do without its serial
  once it has returned only if no reply is still to come, which is why `InUse` counts
  answers under way. One lemma per conjunct shows that each action preserves it, and
  `Invariant` gathers them. `OwnReplyCorrect` and `NoAnswerLost` follow from
  `FreshInv`, `FramesWhole`, `NoWaiterLeaks` and `ReplyChanHasRoom` from `AlwaysInv`
  alone. `NoSerialReused` says when the proviso is void: with `NoWrap`, finitely many
  messages and fewer than serials, `reused` stays false (`CountInv`: the counter
  counts the messages begun). `StrandedForGood` says that a call that waits for a loop that has stopped or is
  jammed waits for good, which is the disagreement of run `connection_lost` and the
  exception of run `connection_handlers`: of all steps the loop's alone fills the channel
  such a call waits on, and the loop, if jammed, needs the handler that waits. `Refinement` shows that initial states are those
  of `CallService` and that each step is one of its steps or a stutter; the
  critical case is `UnregisterReply`, where the call fails: `DownInv` and `BusInv` say
  that the connection is down, and that the bus may have the message only if it has no
  arguments (`MayBeWhole`). For these the theorems say less, as the code does; for all
  others a failed write still means that nobody has answered or will.
* `AlgorithmProofs`. Handlers: the loop's k-th key covers the
  path, keys grow less specific with k, and every covering pattern is the key of
  some iteration; so the first hit is the most specific covering pattern, for any
  table and path (`LookupIsBest`, `BestHandlerAlwaysWins`). `ChangesStayLocal`: a
  step changes one pattern, so the first hit of a path it does not cover stays the
  same key in the table before and after. Alignment: `AlignUpIsLeast` is what
  `align` does. `PadsAlike` is why an array may be encoded in a buffer of its own:
  padding commutes with copying to a multiple of the widest alignment.
  `PadsOtherwise` is why nested arrays are not read back: from a multiple of 4
  every value aligned to 8 is 4 bytes away from where it is looked for, so no
  amount of padding in between repairs it. Basic values: `BasicReadBack` says that
  the decoder, standing where the encoder stood, reads a value of any length from
  among any bytes and ends where the encoder did; `ArgsReadBack` is the same for any number
  of them, by induction over the natural numbers (a least argument that is not read
  would follow one that is). `ArrayReadBack` is what the decoder's loop over an array relies
  on: the array's content is encoded in a buffer of its own and then copied, which
  by `PadsAlike` puts every basic element where it would be if it were encoded in place
  (`PutInPlace`), so each is read as it was appended. An element takes at least a
  byte, so the offset reaches the end of the array with the last one, not before.
  That the elements are of one basic type matters: `PadsOtherwise` is the other
  case. Framing: `HeaderReadBack` finds the three lengths and the
  end of the padding in what `WriteTo` makes, `FrameReadBack` says that
  `readMessage` takes the first message off the stream and nothing else.
  `StreamReadAsWritten` is `ReadAsWritten` for any number of messages of any length. It
  is not inductive: the next message is read correctly only if the stream begins
  with it. `OnTheWire` says that the bytes on the stream are those of the messages
  not read yet, one behind the other. `FieldsAssumption` stands for the
  encoding of the header fields, which is recursive: what was encoded is decoded again, in
  less than 2^32 bytes. TLC evaluates it, for every message that run `codec`
  can send.
* `SignalWatchTableProofs`. `IndexInv` (a registered watch lies under the key of
  its rule, at one position, and nowhere else) is inductive by itself; that
  `Remove` deletes one position by swapping is a lemma on sequences.
  `MatchedOnce` combines it with the eight keys `FindMatches` looks at being
  distinct for the watches found.
* `SignalWatchesProofs`. `TypeCorrect`, and `RoundTripQuiets`: the inductive
  invariant `ClosedInv` with the argument the code relies on. Who cancels first
  takes the watch out of the table, so that no later signal finds it, and then
  makes a round trip to the bus; the reply comes through the same loop and
  therefore after every callback that was looked up before. `NeverSendsOnClosed`
  follows, for any number of watches, Cancels and faults; the one exception,
  `Excused`, is part of the invariant. `RulesAgreed` needs the calls themselves:
  `CallInv` says that a goroutine has one call, in one place (asked, sent, in the
  loop's hands or answered), and `RuleInv` that a rule at the bus belongs to a watch
  in the table, to one whose `RemoveMatch` is under way, or to one whose
  `RemoveMatch` could not be written. `SignalsKept` adds that a signal due to a
  watch is due to one that matches it and is watching: such a watch stays in the
  table (`InForce`), so the loop that takes the signal out of the queue finds it.
  `LoopStuckForGood`: the answer `WatchSignal` waits for must come through the loop
  that waits; a watch that failed has no receiver, and whoever went on to cancel does
  not receive again.
* `NameWatchesProofs`. `NoSendOnClosed` depends on two locks and on where a watch
  hangs: `PlaceInv` says that `nameInfoMutex` excludes; `HangInv` that a watch
  hangs on one `nameInfo`, is taken off it before its `C` is closed, and that
  whoever removes the last one keeps `info.lock`; `LoopInv` that what the loop is
  about to tell hangs on the `nameInfo` whose lock it holds. `NoSendOnClosedHolds`
  follows. For `InfoSharedHolds` one must also know what an answer means:
  `CallInv` says that a goroutine has one call, in one place (asked, sent, in the
  loop's hands or delivered), and that a granted rule is at the bus while its
  answer is under way; `SharedInv` then says that the entry in the map knows its
  owner and hears of changes, that no other `nameInfo` has watches, and that it is
  without watches only while its maker is about to join. The heart of the argument
  is `info.lock`: dropping the guard on it in `HandleOwnerChange`
  makes the proof fail.

  `OwnersInOrderHolds`, `NoChangeLostHolds` and `SenderTrackedHolds` are about the
  queue. `StreamInv` describes it: changes stand in the order the bus made them
  (`OrderedInv`); while somebody asks for them each is followed by the next, up to
  the owner the bus has now (`GaplessInv`); and the owner a `nameInfo` knows, or
  holds an empty string in place of, is behind by exactly the changes in the queue and the
  one the loop holds for it (`KnownInv`). The point of difficulty is the reply to `GetNameOwner`, which may
  pass changes on its way: `FoundInv` says, wherever the reply is, that those behind
  it are newer than its answer and without a gap, while those before it are not
  applied, because the goroutine that asked holds `info.lock`. `WatchedInv` carries
  this to the watches: one that nobody cancels still hangs on its `nameInfo`, and
  the one being told was last told of the owner just before.

  `StuckForGood` says that `Crossed`, `LoopCancels` and `"cancelling"` never end, and
  `LoopWaitsForGood` that the loop dispatches no answer from then on. The loop
  calls back one `nameInfo` (`AskedInv`, `AloneInv`); whoever holds its lock is in
  `RemoveMatch` (`HoldersInv`) and has no answer (`UnansweredInv`); the answer could
  only come through the loop. `LoopLocksItself` is the other case: where the loop runs
  `Cancel`, the `info.lock` it asks for is its own.
* `BusNamesProofs`. `LockedInv` says that `name.lock` excludes, that a pending call
  is that of its holder and has one reply, and in which order the watches are set
  up. `WatchInv` repeats the round trip of `Cancel` for the two watches, and
  `ClosedInv` says that once `C` is closed no watch is in force and only who held a
  signal may come to send; `PanicsExplained` follows. For `NameGivenUp`,
  `ReleaseInv` says that whoever owns the name or waits for it has `needsRelease`
  set, or is being told, and that an answered `ReleaseName` has cleared both;
  `LossInv` that a `NameLost` under way, with `DoNotQueue` and no other `BusName`,
  means the name is gone for good (`GivingInvariant`). `InformedHolds` follows what
  the application is told. While both watches are in force, no `NameLost` is under
  way and nothing is being released, `StoryInv` says that either the name is not
  ours and no acquisition is on its way, or it is ours and either exactly one
  `NameAcquired` is on its way or the application has heard `nil`, never both.
  `RuleInv` (a rule without its watch is the one being set up) and `EarlyInv`
  (nothing is heard before the name is requested) are what makes it hold at the
  start. The order in which `queued` and `nil` are heard is left open, as the code
  leaves it (section 4). `StuckForGood`: a `request` that waits for the lock it holds
  keeps it (`SelfLockedForGood`, by `LockInv`), and a goroutine that gave up ranging
  over `NameLost`, or that is not started yet, does not range while the loop waits.
* `ConnectingProofs`. `TalkInv`: until somebody hangs up, client and server stand in
  one of the pairs of states listed in `Stands`, and one line at most is under way,
  the answer to the last one. `InStepHolds` follows, and `ReadersApart`: the receive
  loop reads only once `authenticate` no longer does, and a failed `Connect` has no
  open socket.
* `MessageFiltersProofs`, for any number of filters and arrays and for filters that
  change the list while they run. `OrderInv`: as long as the list has not moved to
  another array, the survivors are in front, in their old order. `StillInv`: until
  a filter is removed, the array under the `range` is as it was, and the filters
  called are its first ones. `FollowInv`: a filter that
  is still registered lies in one slot, at or before its old one, and is called when
  the loop passes that slot, unless another was removed before it; the exception,
  `Lagging`, is the last one, which a shift leaves in several slots.
  `ThroughEveryFilterHolds` follows.

Only model-checked: all liveness properties (`CallsReturnUnlessStranded`, `RequestsAnswered`,
`LoopStops`, `WatchReturns`, `CancelReturns`, `SignalsReceived`, `OwnerArrives`,
`ReleaseReturns`, `ConnectsOrCleansUp`), everything a violation run shows, and the
invariants of `Codec` (`SignatureWalks`, `EncodedInPlace`, `ArgsRoundTrip`,
`BlankRoundTrip`, `AllArgsAgrees`), whose operators
are recursive and would need induction over data; the steps they take over basic
values and arrays of them are proved (`ArgsReadBack`, `ArrayReadBack`). `ReadAsWritten` is proved of
`Framing` under `FieldsAssumption`; that `MessageStream` satisfies it, with its constructors
and `Codec`, is checked. Liveness under fairness and
induction over data are beyond the prover. That the states by
which they give a run up (`Stuck`, `LoopStuck`) are permanent is proved. Every other
property of a passing run is a theorem, and the invariants of the proofs were checked by TLC on the
instances of the runs before they were proved.

## 6. Not modelled

* In `Codec`: big-endian order, which permutes bytes within a width; types that share the
  code path of another (b, q, i, x, d, o); decoding into variables of another type
  than the sender's.
* In `MessageStream`: the panics of a reply to a message that is no method call or
  was never sent, and `AsError`.
* In `Connecting`: what a mechanism computes (hashes, cookies, their files), and
  the parsing of addresses.
* In `MessageFilters` and elsewhere: memory-model effects. Accesses under locks are
  atomic; a `messageFilters` changed beside the loop is a race whose outcomes a
  build does not bound.
* `MatchRule.String`, `proxy.go`, `introspect.go`, `ObjectProxy`: conversions and
  wrappers without a state that a step could leave wrong.
* Panics of API misuse (registering a path twice, `SendWithReply` of a signal,
  cancelling the nil watch a failed `WatchName` returns): guards.
* A lost connection in `NameWatches` and `BusNames`: every call under way then
  waits for good, which `connection_lost` shows once.

## 7. What could come next

1. A second name in `NameWatches`, to let two `nameInfo`s share `nameInfoMutex`.
2. Refinement theorems between the layers: that a `NameWatch` implements "owners,
   each once, in order", and that `SignalWatches` sees of `Connection` what it
   assumes (asked, served in order, answered to the asker).

## 8. Running

    tlc -config ConnectionSafety.cfg MCConnection.tla    # any run of PROJECT.json
    tlapm ConnectionProofs.tla                           # any *Proofs module

The longest run is `name_watches`, about a minute and a half; the
longest proof `NameWatchesProofs`, about seven minutes. `codec` and the assumption on
header fields take half a minute.
