# PaXoS PSI in TLA+

This directory is a verification project for the PaXoS private set intersection
program: TLA+ modules translated from its source, TLC configurations that check
them on small instances, and TLAPS proofs for all values of the constants.

- [1 The system](#1-the-system)
- [2 Modules](#2-modules)
- [3 Model checking](#3-model-checking)
- [4 Where the code and what is said of it disagree](#4-where-the-code-and-what-is-said-of-it-disagree)
- [5 Proofs](#5-proofs)
- [6 What is not modelled](#6-what-is-not-modelled)
- [7 Plan](#7-plan)

Run everything from this directory, e.g.
`tlc -workers 2 -config Psi.cfg MCPsiProtocol` or
`tlapm PrtyMOtProofs.tla`.

## 1 The system

Two processes, party 0 (the Receiver) and party 1 (the Sender), compute the
intersection of their key sets. The Receiver encodes its keys in an *oblivious
dictionary*, a vector of field elements from which the value of every key can be
read off by adding a few entries. The two then run an *OT extension* with one OT
per entry, so that for a key of the Receiver both ends arrive at the same row of
bits. The Sender sends what it gets for its own keys, and the Receiver counts
the matches.

```
 frontend/ProtocolParty.cpp     Receiver::run                Sender::run
   frontend/ObliviousDictionary   createDictionary
   libPSI/PRTY2                   PrtyMOtReceiver            PrtyMOtSender
   libOTe Network                 Channel  -- corrections -->  Channel
   libscapi (external)            plain channel <-- outputs -- plain channel
```

### Components

**Oblivious dictionary** (`frontend/ObliviousDictionary.cpp`).
State: two bucket tables of the keys (`first`, `second`), the vector of peeled
keys with its counter, the `variables`, and `sign`, which marks the buckets of
the linear system. Operations: `init`, `fillTables`, `peeling`,
`generateExternalToolValues` (which calls the solver), `unpeeling`,
`checkOutput`. Sequential, but with loops whose correctness is global: one pass
over two tables with chains that only turn back to buckets already passed must
find the whole 2-core of the graph; the matrix must have exactly as many rows as
it is created with; unpeeling tells "no value yet" from "value 0" by a second
array that is not reset between calls. Correct if the pass leaves the 2-core,
every array index stays inside its array, and every key decodes to its value.

**OT extension** (`libPSI/PRTY2/PrtyMOtReceiver.cpp`, `PrtyMOtSender.cpp`,
interface `libOTe/NChooseOne/NcoOtExt.h`).
State of the receiver: the matrices `mT0`, `mT1`, `mW`, an index of what was
sent, flags of encoded rows; of the sender: `mT`, the choice bits,
`mCorrectionVals` and an index of what came. Operations: `configure`,
`setBaseOts`, `init`, `otCorrection`/`zeroEncode`/`encode`, `sendCorrection`,
`recvCorrection`, `check`. The ends share no index: each counts the rows for
itself. `sendCorrection` queues a pointer into `mT1` that is read later, by
another thread. Correct if the two ends compute the same encoding for the
receiver's word and (but for what the choice bits hide) for no other, if a
queued row is not changed under the send operation, and if no index leaves the
matrices.

**PSI parties** (`frontend/ProtocolParty.cpp`, `frontend/main.cpp`).
State: keys and values (from the same fixed seed), positions of every key, the
Receiver's set of outputs `xorsSet`, the Sender's array of outputs, the
iteration. Each iteration opens a new session and channel on the same port under
the same name, runs the OTs in messages of `stepSize` rows, closes the channel,
and exchanges the outputs over the plain channel. Hard: the two processes only
wait for each other through the channels, so one can run ahead by most of an
iteration; a connection must not join two different iterations; `xorsSet` is
never emptied; everything must eventually end. Correct if every key the
dictionary encodes is counted.

**Channel, send and receive queues, sessions, acceptor, IOService**
(`libOTe/cryptoTools/cryptoTools/Network`). A channel runs send and receive
operations one at a time on two strands of an `io_service`, whose threads run
the completion handlers; the user's thread enqueues and may block in `close()`.
The Sender's `Acceptor` accepts sockets, reads a connection string and gives the
socket to the waiting channel; the Receiver's channel connects and tries again
on a timer. Hard: shutdown racing with operations, retries racing with
cancellation. State of a channel: for each strand a status, a queue of
operations, whether the socket is available, the promise that its queue is empty;
the open promise and its count; the socket. Operations: `asyncConnectToServer`,
`startSocket`, `send`/`asyncSend`/`recv`/`asyncRecv`, the completions, `close`,
`cancel`. State of a queue (`SpscQueue`): a list of ring buffers, written by the
user's thread and read by a strand. State of an acceptor: the sockets in their
handshake, the groups of the sessions that subscribed, with the channels and
sockets that wait in each, two maps that find a group by name or by the peer's
session ID, and whether it listens or was stopped. Operations: `subscribe`,
`unsubscribe`, `start`, `stop`, `stopListening`, `asyncGetSocket`,
`asyncSetSocket`, `cancelPendingChannel`. Correct if the queue is a FIFO queue,
operations complete one at a time and in order, if `close()` returns after all of
them and always returns, if no promise is left without an answer, and if a socket
reaches the channel of its own name and session, whichever of the two comes first.

**Linear code** (`libOTe/Tools/LinearCode.cpp`), **generator matrices**
(`libPSI/Tools`), **solver** (`frontend/gf2e_mat_solve.cpp`), **hashers**
(`frontend/Hasher.h`), **cryptography** (`cryptoTools/Crypto`): functions
without protocol state. The models use them through what their callers rely on.

**libscapi** (external, not in the repository): the plain channel of the
parties, a reliable FIFO in either direction.

### Interactions

| from | to | how |
|---|---|---|
| Receiver | dictionary | `createDictionary` in every iteration, then reads `variables` |
| parties | OT ends | `configure`, `setBaseOts`, `init`, then per row and per message |
| OT ends | channel | `asyncSend` of a span of the matrix (not copied), blocking `recv` |
| channel | socket | strands and completion handlers on IOService threads |
| channel (Receiver) | acceptor (Sender) | TCP connect, repeated until it succeeds, then the connection string |
| session | acceptor (Sender) | `subscribe`, `unsubscribe`, `asyncGetSocket`, posted to the acceptor's strand |
| acceptor | channel (Sender) | `startSocket` |
| Sender | Receiver | size and outputs over the plain channel |

### Hazards

PROJECT.json lists, at its line, every place where this code can go wrong in a
way that a test would hardly reach, with the properties that watch it. Those
without a property say what is missing.

## 2 Modules

| module | models | source |
|---|---|---|
| `ObliviousDictionary` | the encoder, all calls of a run | `ObliviousDictionary.cpp`, `.h` |
| `ObliviousDictionaryProofs` | proofs | |
| `PrtyMOt` | both OT ends and the messages between them | `PrtyMOtReceiver.cpp`, `PrtyMOtSender.cpp`, `Channel.cpp`, `LinearCode.cpp` |
| `PrtyMOtProofs` | proofs | |
| `LinearityProofs` | proofs about the linear code and `check()` | |
| `PsiProtocol` | both processes; EXTENDS `PrtyMOt` | `ProtocolParty.cpp`, `main.cpp`, and what they use of the network |
| `PsiIdeal` | the promise that `PsiProtocol` implements | |
| `PsiProofs` | proofs | |
| `ValueMask` | the masking of the values | constructor of `ProtocolParty` |
| `SpscQueue` | the queue between user and strand | `IoBuffer.h` |
| `SpscFifo` | the FIFO queue that `SpscQueue` implements | |
| `SpscQueueProofs` | proofs | |
| `Channel` | one channel with its user, its strands and its socket | `Channel.cpp`, `Channel.h`, `IoBuffer.cpp` |
| `Conduit` | the promise that either direction of `Channel` implements | |
| `ChannelProofs` | proofs | |
| `Acceptor` | sessions, the acceptor of their port, the sockets that connect | `IOService.cpp`, `.h`, `Session.cpp`, what `Channel.cpp` asks of them |
| `Rendezvous` | the promise that `Acceptor` implements | |
| `AcceptorProofs` | proofs | |
| `MC...` | values of the constants for TLC | |

### ObliviousDictionary

A key is an edge between bucket `h1[k]` of `first` and bucket `h2[k]` of
`second`; all hash functions are allowed. An element of GF(2^e) is the set of
powers with coefficient 1, so addition, the only operation the code needs, is
symmetric difference. `phase` is the statement of `createDictionary` that is
next. One action is one round of a loop:

| code | action |
|---|---|
| `init()` | `init` (`sign` is not reset, as in the code) |
| `fillTables()` | `fillTables` |
| first loop of `peeling()` | `PeelFirst`, `SkipFirst`, `EndFirst` |
| second loop, with its inner `while` | `StartChain`, `SkipSecond`, `PeelOne`, `PeelTwo`, `EndPeeling` |
| `generateExternalToolValues()` and `solve_api` | `generateExternalToolValues`: any solution, or the exception |
| `unpeeling()` | `UnpeelStep`, `EndUnpeeling` |

The random value that `unpeeling` draws when both buckets are unset is any field
element, 0 included. `zeroHit` is an auxiliary variable that remembers that an
unset-looking bucket was in use; see section 4.

### PrtyMOt

A row is the set of columns that hold a 1, a word the set of its bits; XOR is
symmetric difference and AND intersection. A column, like a bit of a word, is a pair of
a block of 128 bits and a place in it, because a few lines depend on blocks. The code is any linear map, given by
the codeword of every bit; an encoding stands for its own hash (the hash is
taken to be injective). The seeds may expand to any rows. `outbound` is the
receiver's send queue: its first `onWire` entries have been carried out and hold
rows, the rest hold, like the code, only *which* rows to read from `mT1`, and
`asyncPerformSend` reads them when their turn comes.

`check()` blocks twice in the middle, so it is two actions at each end:
`receiverCheck`/`receiverAnswer` and `senderCheck`/`senderVerify`. Its sums are those
that the code computes, for codes of any width. The sender adds `zeroAndQ[0]` for a
challenge bit 0 and clears only its first four blocks (`PrtyMOtSender.cpp:643`): in the
columns of further blocks (`UnclearedColumns`) `SenderSums` adds any value. The receiver
goes through `mW` and the sums of the words one block at a time, which is a row at a time
only for words of one block (`PrtyMOtReceiver.cpp:724`, with a TODO): `WordSums` does the
same. The codes for 65 to 90 bits have four blocks and words of one (`NarrowCode`), those
for 132 to 238 bits have five to seven and words of two.

The assertions and throws of debug builds are guards under `NDEBUG \/ ...`, also the
one that takes a row whose first block is zero for one without base OTs (`Initialized`).
`OtNext` is the use of the objects the interface describes: every index is
encoded once, sent after it was encoded and corrected after its correction has
come; the order of rows, the size of messages and all interleavings are free.

### PsiProtocol

`pc[p]` names the function party p runs next. A blocking call is an action whose
guard is that it can return. The OT operations are conjoined into the actions
that call them. The channel of the OTs is reduced to its two ends
(`closed`/`connecting`/`open` and `closed`/`listening`/`open`), the listening
port and its backlog; `Connect`, `Accept` and `Transmit` are steps of the
IOService threads. The dictionary is composed through what it promises: its
variables are any values, and the properties speak of the keys that decode.
`Output` is the 64 bits that are exchanged: the code encrypts a row block by
block with a fixed key (ECB) and takes the first 64 bits, a function of the
first block of the row.

### PsiIdeal

One iteration chooses some keys to be encoded, then reports a number between
theirs and all. `PsiProtocol` implements it under the mapping at its end.

### ValueMask

`fieldSizeBytes`, `zeroBits` and the shift of the last byte of every value, for
bytes of `ByteSize` bits.

### SpscQueue and SpscFifo

`mQueues` is the list of ring buffers with the code's indices, which grow for
ever and are taken modulo the capacity; storage without an object holds `Raw`, so
that construction over a live object and a missing destructor can be seen. An
operation holds the mutex of the queue and is one step, but `front()` returns a
reference that outlives the lock: `reference` keeps which slot of which ring
buffer it is. As in the handlers, `front` follows an `isEmpty` that returned
false, and `pop_front` follows `front`. `SpscFifo` is a sequence with the same
operations; `Referenced` maps the reference to the item behind it.

### Channel and Conduit

A handler of a strand is one action: the strand serialises them, and they alone
touch its state. `strand[d].handlers` is what has been posted and not yet run.

| code | actions |
|---|---|
| `asyncConnectToServer`, its callback and timer | `ConnectOutcome`, `ConnectCallback`, `RetryTimer` |
| `startSocket` (from the acceptor) | `startSocket`, `HandleOpen` |
| the client's connection string | `HandleConnectionString`, `HandleConnectionStringSent` |
| `sendEnque`, `recvEnque` | `UserCalls` (the status test), `UserPush`, `UserPost`, `HandleEnqueue` |
| `asyncPerformSend`, `asyncPerformRecv` | operator `asyncPerform`, then `IOResult`, `IODispatch`, `HandleComplete` or `HandleError` |
| a message of another size, and the second read into a buffer of the user, which may fail | `BadSize`, `UserReschedules` |
| `close()` | `CloseStart`, `ClosePost`, `HandleClose`, `CloseReturn` |
| `cancel()` | `CancelStart`, `cancelPendingChannel`, `CancelPost`, `HandleCancelOperations`, `HandleCancel`, `CancelReturn` |

Three places need finer steps than a handler. The promise of an operation is set
by the completion before the strand hears of it (`IOResult`, `IODispatch`). The
user pushes outside the strand, and posts afterwards. And a completion that finds
the queue empty during a close sets a promise and then assigns a new one to it;
`replacing` is the time between. The operations are numbers, in the order of the
calls; `wire` records which went over the connection. `terminated` says why the
process ended, where the code throws and nothing catches it.

`Conduit` is what a user of the channel relies on in one direction, without strands,
queues or handlers: operations are called, carried in the order of their calls and
answered once; one fails, or the process ends, only after the connection broke or
somebody cancelled; without that, `close()` returns when everything was carried.
`Channel` implements it twice, for its sends and for its receives. `answer` is the
array of promises, `carried` is `wire`, `healthy` is that nobody cancelled and the peer
is not down, and `phase` says whether the process ended or `close()` returned. An
operation that got a message of another size may still be carried, as the code leaves
it in the queue and the user may give it another buffer.

### Acceptor and Rendezvous

The acceptor touches its state on one strand, so that a handler is an action;
`strand` is the queue of handlers. Users and the callbacks of sockets run beside
it and post to it.

| code | actions |
|---|---|
| `Session::start`, `SessionBase::stop`, the exception of a refused subscription | `SessionStart`, `SessionStop`, `SessionDiscard` |
| `Session::addChannel` in server mode, `ChannelBase::cancel` | `AddChannel`, `Cancel`, `CancelReturn` |
| `IOService::stop`, `Acceptor::stop` | `ServiceStop`, `Stop`, `ServiceReturn` |
| `Acceptor::start`: the strand's part, the accept, the header, the string | `Start`; `AcceptCallback`, `AcceptAborted`; `ReceiveHeader`; `ReceiveString`, `ReceiveFails` |
| a socket that is dropped | `EraseSocket`, `DropSocket` |
| `subscribe`, `unsubscribe`, `cancelPendingChannel` | `Subscribe`, `Unsubscribe`, `CancelPending` |
| `asyncGetSocket` | `GetSocketPaired`, `GetSocket` |
| `asyncSetSocket`, `getSocketGroup` | `NameSocket`: `SetSocketPaired`, `SetSocketMatched` or `SetSocketWaits` |
| `SessionGroup::add`, `merge` | operators `Matches`, `Without`, `Give`, `Claim` |
| `stopListening` and the removal of a group, at the end of most handlers | `Tidy`, `TidyMapped` |

`stage` follows a connection from the client's `connect` to the channel or to
where it is given up. A session stands for its `SessionGroup`; a client stands for
its session ID. `setting` says what may happen in a behaviour, so that one run
covers several kinds of use; nothing changes it.

The model allows more than the code in a few places: of several groups that
match, the code takes the first of a list and the model any; a connection string
of which only a part was received is dropped or names nobody. The two handlers
after an aborted accept are posted together. A thread that waits in `cancel()`
does nothing else with its session. Nor does one whose `addChannel` was refused because
the acceptor is stopped: `asyncGetSocket` throws, and the destructor of the new channel
calls `close()`, which waits for a socket that nobody will give it (`"refused"`).

`Rendezvous` has channels that wait, sockets that are offered, and their pairs. It
says what users rely on: the two ends of a pair have the same names, no socket is
given twice, the channels of a session are all connected to one client, and a
client is connected to another session only when its session is over.

## 3 Model checking

| run | properties | instance | states |
|---|---|---|---|
| `dictionary_peeling` | `PeelingFindsCore`, `RowsFillMatrix`, `PeeledOnce`, `FreeBucketLeft` | 5 keys, 3 + 3 buckets, no field | 20 448 |
| `dictionary_encode` | `TypeOK`, `SignMarksCore`, `SolvedKeysDecode`, `UnpeelingSetsOnce`, `Terminates` | 3 keys, 2 + 2 buckets, 1 DH variable, 1-bit field, 2 calls | 128 016 |
| `dictionary_zero` | `CheckOutput` (violated) | 2 keys, 2 + 2 buckets, 1-bit field | 839 |
| `ot_encode` | `OtTypeOK`, `EncodingsAgree`, `CheckHoldsBeforeCorrection` | 2 OTs, 1 extra row, 1 column | 133 904 |
| `ot_check` | `LinearRelationHolds` (violated) | 1 OT, 1 extra row, 1 column | 5 851 |
| `psi` | `TypeOK`, `EncodedKeysMatch`, `XorsSetFresh`, `SessionsPair`, `SendBuffersStable`, `ImplementsIdeal`, `Finishes` | 2 keys, 3 OTs in messages of 2 and 1, 2 columns, 2 iterations | 530 880 |
| `mask_elements` | `EveryElementDrawn` (violated) | 1 value of 2 bytes of 3 bits, fields of 4, 5, 6 bits | 242 |
| `spsc_queue` | `TypeOK`, `FrontExists`, `PushesIntoRawStorage`, `ImplementsFifo` | 7 pushes of 2 items, first ring buffer of 1 slot | 30 458 |
| `channel_close` | `NoStall`, `CloseDrains`, `PromisesKept`, `CloseReturns`, `CallsReturn` | client and server, 2 sends, 2 receives, the sends blocking or not, the connection may break | 621 821 |
| `channel_cancel` | `TypeOK`, `OneAtATime`, `CancelSettles`, `ImplementsConduit` | the same with other sizes and `cancel()` by the user | 2 785 324 |
| `channel_cancel_send` | `SettledOnce` (violated) | server, 1 operation either way, `cancel()` by another thread | 1 522 |
| `acceptor` | `TypeOK`, `GroupsMapped`, `NoMissedMatch`, `Listens`, `StopIsLast`, `KeepsPromise`, `HandshakesEnd`, `StopReturns` | 2 sessions with 3 channels, 2 connections, the 5 settings of `MCAcceptor` | 182 832 |

Why the bounds are enough:

- *dictionary_peeling*: five keys on six buckets give graphs with cycles, with
  trees hanging off cycles, with several components, and chains that turn back
  and chains that do not; with fewer, mistakes in the order of peeling go
  unnoticed. All hash functions are tried, up to a permutation of the keys
  (nothing distinguishes keys, so the symmetry is sound; no liveness is checked
  with it). The field is trivial, as peeling does not look at values.
- *dictionary_encode*: three keys on four buckets give a cycle, a key hanging off
  it, and paths. With one bit a value is 0 or not, which is all that `unpeeling`
  tests; the second call sees the `sign` of the first.
- *ot_encode*: columns are independent in everything but the code, which the
  proofs treat in general; two OTs and an extra row give messages of one and of
  two rows in any interleaving with the sender. TLC's role here is to confirm
  the strengthened invariant and `CheckHoldsBeforeCorrection`. The column is in block 0.
  Put in block 4, or with words of two blocks, it makes the relation of `check()` fail
  between honest ends although no row was corrected.
- *psi*: three rows in messages of two make a full and a partial message; the
  second iteration meets the state that the first left. The rows the seeds expand
  to are fixed; all are tried in `ot_encode`. Two columns, one of which is output,
  show that only the first block is compared.
- *mask_elements*: three residues of the field size modulo the byte, 0 included.
- *spsc_queue*: ring buffers of 1, 4 and 16 slots; the second wraps around, and
  two and three of them exist at a time.
- *channel*: two operations in a direction are one being performed and one behind
  it, so that a completion starts the next one, finds none, or meets one being
  pushed. Either may be queued before, during and after the connection is made.
  `send()` and `recv()` block in both large runs, and the connection may break in both;
  `channel_close` is about channels nobody cancels.
- *acceptor*: two sessions of one name compete for the connections of one client
  or of two; the first session has two channels, so that a group keeps waiting
  after its first pair. A connection can come before, between and after the
  channels that match it. The settings add, one at a time as they hardly interact:
  stopping a session, cancelling a channel that waits or was just given a socket,
  a connection that breaks while the service stops, a session that is started
  while the service stops or while the port is taken. The proofs of section 5 have
  no such bounds.

Deadlock is checked in the dictionary, PSI and queue runs: the dictionary and the
parties stutter explicitly only when they are done, the consumer of a queue can
always ask again. `ot_*` and `mask_elements` stop when their caller is done, `acceptor`
when its users are. A channel
may rest with a `recv()` that nobody answers after the connection broke or after
a message of another size; `CallsReturn` and `CloseReturns` say when it may not.

**Fairness.** `createDictionary` is one thread: weak fairness of its steps. In
`PsiProtocol` the Receiver, the Sender and the network each get weak fairness:
the operating system schedules both processes and the IOService threads, a
blocked read returns once there is something to read, and
`asyncConnectToServer` tries again until it succeeds. Nothing is assumed of the
order, and no strong fairness is needed. Neither party is assumed to be
started first. In `Channel` the `io_service` has threads that run what is posted
(weak fairness of either strand, of its completions, of the connection attempts),
a peer eventually starts and answers, and a thread goes on in a call it has begun.
That the user calls anything, that a connection breaks and that a message has
another size are possibilities, not obligations. In `Acceptor` the `io_service` runs
the strand and the callbacks of every socket, a client tries to connect until it
succeeds, and a peer that connected sends its connection string: the acceptor has no
timeout, and a silent peer would keep `stop()` waiting.

## 4 Where the code and what is said of it disagree

- **`CheckOutput`** (`dictionary_zero`). `unpeeling()` takes
  `variables[i] == 0 && sign[i] == 0` to mean that bucket i has no value
  (`ObliviousDictionary.cpp:420-441`), but never sets `sign`. A bucket rightly
  given the value 0 is overwritten by a later key, and the earlier key no longer
  decodes; `checkOutput()` calls that "invalid value". With random field elements
  it takes a draw of probability 2^-fieldSize. `SolvedKeysDecode` says that
  nothing else can go wrong: unless a bucket in use holds 0, all solved keys decode.
- **`LinearRelationHolds`** (`ot_check`). `PrtyMOtSender::check` adds `u & choice`
  to rows of `mT` to which `otCorrection` has already added it, so that for two
  honest ends the relation it tests fails when it is called where `NcoOtExt.h`
  says: "after all correction values have been received". The `throw` is
  commented out and the PSI parties do not call `check`.
  `CheckHoldsBeforeCorrection` shows that it holds if no row was corrected, for a
  `NarrowCode`. For the others, the ones called malicious in `configure`, it does not:
  the two sums do not contain what the relation is about (section 2).
- **`EveryElementDrawn`** (`mask_elements`). For a field size that is a multiple
  of 8 the number of padding bits comes out as 8 instead of 0, and the whole last
  byte of every value is cleared.
- **`SettledOnce`** (`channel_cancel_send`). When a blocking `send()` is aborted its
  completion sets an exception in its promise, and the error path then cancels the
  same operation, which sets it again: `future_error` in a thread of the
  `io_service`. `cancel()` is documented as "aborts all current operations
  (connect, send, receive)". The same happens to a receive whose message had another
  size: its promise holds `BadReceiveBufferSize`, the user asks for a second read into
  a larger buffer, that read fails, and the completion handle gets the error
  (`IoBuffer.cpp:65-74`). `OnlyMisfitsSettleTwice` says that there is no third way.

`StopReturnsAfterSessions` in `Acceptor` is another such statement. `IOService::stop()`
"blocks until all Channels and Sessions are stopped" (`IOService.h:68`). But
`Acceptor::stop` sets `mListening` to false, so that when the last session is stopped
later, `stopListening()` returns at its first test and never sets
`mStoppedPromise` (`IOService.cpp:239`): a thread in `IOService::stop()` that came
before the last session's `stop()` waits for ever. TLC finds this with the
property in place of `StopReturns`; what does hold is `StopReturns`, that it
returns if nobody was subscribed when the acceptor stopped.

More behaviours of the acceptor end the process; the model has them as values of
`terminated`, and PROJECT.json lists them among the hazards:

- `cancel()` of a channel after its session was stopped, and the destructor of a
  session whose subscription was refused, follow an iterator to a group that is not
  there (`"group"`);
- an accept that completes while `stop()` closes its socket sets an option of a
  closed socket, which throws in a thread of the `io_service` (`"option"`);
- `subscribe()` sets its promise twice when the port cannot be bound (`"bind"`).

The model of the channel has five more behaviours that no run is spent on, and
that PROJECT.json lists among the hazards:

- `close()` cancels the queued receives if `activeRecvSizeError()` says so, but
  nothing sets the flag it reads. After a message of another size the receive stays
  first in the queue, and `close()` never returns unless the user gives the message
  another buffer (`CloseReturns` fails with `OtherSizes = TRUE`).
- A completion may still replace its promise when `close()`, which that promise
  woke, has returned.
- The retry timer of a client does not look at a cancellation and connects again.
- An operation that one thread queues after another thread's `cancel()`, or an error of
  the connection, has emptied the queue is neither performed nor cancelled.
- `close()` with an empty send queue does not wait for the handler of the connection
  string that is being sent.

No property of the project covers these five: each would state what the code does not
do, and nothing in the repository says that it should.

## 5 Proofs

The theorems hold for every value of the constants, under the named
assumptions `DictionaryAssumption` (finitely many keys, positive table size and
number of calls), `OtAssumption` (finitely many bits and columns, in blocks, positive number
of OTs, security parameter and row block), `PsiAssumption` (finitely many keys, one
OT per entry of the dictionary, positive message size and number of iterations),
`CapacityAssumption` (a positive capacity of the first ring buffer),
`ModesAssumption` and its neighbours in `Channel` (what the constants are),
`AcceptorAssumption` and `NamesAssumption` (what the constants are; either end names
the channels of a session differently, as the code demands). TLC checks the inductive
invariants on the instances above before they are proved.

### ObliviousDictionaryProofs

`PeelingFindsCore` is about the end of the pass; the invariant has to say what
the pass has achieved so far (module `ObliviousDictionary`, last section):

- `TablesAgree`, `Partition`: both tables hold the same keys, and every key is
  either there or once in the vector;
- `PeelingOrder`: a peeled key was alone in one of its buckets among the keys
  peeled later or left. Unpeeling goes through the vector backwards and so always
  finds a free bucket (`FreeBucketLeft`);
- `CoreStays`: a set in which every used bucket is used twice loses no key;
- `FirstScanned`, `SecondScanned`: there is no singleton of `first` below
  `position`, and after the first loop none at all, as a chain removes the
  singletons it makes before it goes on; and none of `second` below `position`
  but for the key a chain has in hand;
- `SignMarksCore`, `FreeBucketsZero`, `SolvedKeysDecode`: marks are inside the
  2-core, which is the same in every call as the keys are, so that old marks do no
  harm; buckets no solved key uses are 0; solved keys decode.

What is left at the end has no singleton in either table, hence is the largest
such set: the 2-core. The theorems `TypeCorrect`, `PeelingCorrect`,
`MatrixCorrect`, `VectorCorrect`, `UnpeelingPossible`, `SignCorrect`,
`DecodingCorrect` and `UnpeelingWritesOnce` follow.

`EncodingBounded` is the safety part of `Terminates`: `Work` is a natural number that
every step lowers. A call of `createDictionary` has at most
3 `tableRealSize` + 2 `hashSize` + 7 steps. The chains of the second pass are the
interesting part, as they move between buckets in no order: a bucket of `second` pays
for two steps, the start and the end of its chain, and every round in between peels
a key. That some guard holds as long as the calls are not finished, the other
half of `Terminates`, is left to TLC.

### PrtyMOtProofs

`EncodingsAgree` relates a row of the sender to one the receiver made long
before. The invariant follows the correction u_i = T0 + T1 + C(w) on its way:

- `ReceiverRows`: `mT1[i]` is u_i once row i is encoded, T1 before;
- `Progress`: rows below the receiver's index are encoded; those of `check()` lie
  above all OTs and are used last;
- `Stream`: the messages in the channel continue one another, row by row, from
  the sender's index to the receiver's;
- `WireRows`: a message carried out holds u_i for each of its rows, which needs
  that rows did not change while it waited;
- `SenderRows`: so do the stored corrections, and a corrected row of `mT` is
  T0 + (C(w) & choice).

`OtTypeCorrect`, `EncodingCorrect` and `SendBuffersSafe` follow.

### LinearityProofs

The code is linear over sums of two words; that it is over sums of any number of
rows would be an induction, which the prover cannot do over data. The argument is by
a smallest counterexample instead: a nonempty family of finite sets has a minimal
member (`Smallest`), and a minimal set of rows for which `EncodeOver` fails has a row
that can be taken away. `CorrectedSum` then says that a sum of rows, each corrected
for its word, is corrected for the sum of the words. For `check()` the invariant
`CheckInv` ties what is compared in the end to one challenge: the sender's sums, the
challenge on its way and the answer on its way are all of the same choice of rows,
and the receiver's rows do not change once they are encoded. `CheckCorrect` follows. It
is about a `NarrowCode`, where `SenderSums` and `WordSums` are the sums of the selected
rows and words; what the invariant says of the messages holds for every code.

### PsiProofs

The rows of one iteration obey the argument of `PrtyMOtProofs`; what is new is that
there are many iterations and that nothing but the two channels keeps the parties
together. `PsiInv` consists of

- `ControlInv`: where the two parties can be. The Receiver never gets an iteration
  ahead; the Sender by at most one, and then the Receiver has sent all its corrections
  and is on its way to the comparison;
- `MailInv`: what is in the plain channel, as a function of the places of the two.
  So every read gets the message it is meant for;
- `ReceiverInv`, `SenderInv`, `MessagesInv`: the matrices of either end and the
  messages in between belong to the running iteration, and nothing is left over from
  an earlier one. `close()` of the Receiver is what gives this: it returns when all
  messages are carried out;
- `NetInv`: the listening port is that of the Sender's iteration, and a connection
  that is being made was not served in another one;
- `OutputInv`: the two sets of outputs. `SenderXorIsOut` says that the outputs of the
  Sender for a key are those of the Receiver when the key decodes, because choice
  bits multiply a codeword that cancels.

`PsiTypes`, `SessionsMatch`, `OutputsFresh`, `EncodedMatch` and `QueuedRowsStable`
follow, for all numbers of keys, OTs, columns, message sizes and iterations.
`ProtocolImplementsIdeal` is the refinement `Spec => Ideal!Spec`: `createDictionary`
is `Prepare`, `ReceiveXors` is `Report`, everything else is a stutter.

Two theorems say of `Finishes` what is a safety property of it. `DeadlockFree`: in every
reachable state the Receiver, the Sender or the network has an action whose guard
holds, or both parties are done (`ReceiverReady`, `SenderReady` and `NetworkReady` are
these guards). The invariant `MeetInv` adds to `PsiInv` where the connection is while
either party waits for it, and the sizes of the messages under way. The hard cases are
the accept of a session whose peer has already left `runOOS`, and a
`recvCorrection()` that asks for a size nobody sent. `RunBounded`: every step lowers
the natural number `Work`, counted over the iterations both parties have left, where
a message counts once more until it is carried out. So no run is longer than the
`Work` of its first state, and where it stops both parties are done. What remains of
`Finishes` is that a step that is possible is taken, which is what fairness says;
the guards were compared with `ENABLED` by TLC, as the prover does not reason about it.

### SpscQueueProofs

`QueueIsFifo` is the refinement `Spec => Fifo!Spec`. The invariant ties every slot
of every ring buffer to the history of pushes:

- `RingHolds`: index j of a ring buffer holds item `start + j + 1` of `pushed` in
  slot j modulo the capacity, and the other slots are raw. That a push finds a raw
  slot and a pop leaves the others alone rests on `SlotsDiffer`: indices less than
  a capacity apart have different slots;
- `Chained`: the ring buffers continue one another without a gap up to the last
  item pushed, only the first was popped from, and if there are several none is
  empty, so that `isEmpty` may look at the last and `front` at the first;
- `ConsumerInv`: an answer of "items" stays right until the consumer removes one,
  and a reference is the front slot, which no push moves.

`QueueTypeCorrect`, `FrontCorrect` and `StorageCorrect` follow from the same
invariant.

### ChannelProofs

`OneAtATime`, `NoStall`, `InOrder` (`WireOrder`) and `PromisesKept` are proved for any number of
operations. A strand has at most one *turn*: the handler that is to give the socket
its next operation. The invariant `Inv` says of each strand (`Good`)

- `QueueInv`: the queue holds the last operations that were called, in order;
- `TurnInv`: at most one posted handler has the turn, and then the socket is neither
  available nor has an operation;
- `FlightInv`: what the socket performs is the first of the queue, or the connection
  string, and is due;
- `DueInv`: what is due next when a handler has the turn, and when none has it. This
  is the link between the wire, which only the socket knows, and the queue;
- `WireInv`: the wire holds the first operations without a gap, and a promise has
  an answer only for what left the queue, a value only for what went over the wire;

and of the two together (`OpenInv`) that nothing but a cancellation happens before
the connection is made, and that each is started once. `NoStall` is itself a
conjunct: a strand stays idle with work only while somebody is about to tell it.

`CloseHasDrained` proves `CloseDrains` with a second invariant, `DrainInv`, about the
time when nobody cancels and the connection holds: no error can be under way
(`Unharmed`: what left the queue went over the wire), a strand stops only when it
hears of `close()`, which happens once and after all that was queued (`ClosesOnce`),
and its promise is set only when it is stopped and its queue is empty. As both
strands were started by then (`mOpenCount` is 2), the handler of a client's connection
string is the only one that can be left. `CancelHasSettled` proves `CancelSettles` under
the assumption `Cancellers \subseteq {"user"}`; the property itself is about channels
whose peer has not gone. `SettleInv` says that a channel under cancellation is stopped
and its user is not queueing; before that, `DrainInv` shows that no strand was stopped,
so that an operation is never queued on a strand that has given up. Without either
restriction it fails, in the code as in the model: `Channel.h:576` tests the status
before it queues, and when another thread or an error empties the queue in between,
nobody answers the operation.

`ConduitImplemented` is the refinement `Spec => ImplementsConduit`, without any assumption
on who cancels or whether the connection breaks. Every step is, in either direction,
one of `Conduit`'s `Call`, `Carry`, `Misfit`, `Break`, `Fail`, `Close` or a stutter.
The step of a successful transfer is a `Carry` only if its operation was not answered
with an exception before, and an error must not answer what was carried; so the
refinement needs `ConduitInv`: an operation that failed has left its queue, or its
strand performs nothing any more; one with a message of another size was carried
since or is the one in flight; nothing fails before the connection is made. `Close` in a
healthy channel is `CloseHasDrained`. `EndsWhenDisturbed` follows from the refinement
alone: the process ends by an exception only after the connection broke or somebody
cancelled.

`OnlyMisfitsSettleTwice` bounds the disagreement of section 4: if nobody sends blocking
(`BlockingSends = FALSE`), `SettledOnce` holds, whoever cancels and whatever breaks, unless
a receive got a message of another size. A send without a promise cannot be settled, and
any other receive that failed is out of the queue before the error path goes through it
(`AsyncInv`).

### AcceptorProofs

`KeepsItsPromise` is the refinement `Spec => Promise!Spec`; `GroupsAreMapped`,
`NoMatchIsMissed`, `ListensWhileWanted`, `StopsLast` and `Types` are invariants. They hold for any
number of sessions, channels, clients and connections, any assignment of one to
another and any setting. None is inductive, because a handler trusts what another
one left behind much earlier; the invariant says what each may trust:

- `StrandInv`: what was posted once is on the strand once, and no channel asks
  for a socket after its session was unsubscribed. So a session's group is there
  when `asyncGetSocket` follows the pointer to it;
- `SessionInv`: what a session's user is doing, what is posted for it and what its
  group looks like fit together. A group outlives its session only while channels
  wait in it;
- `ChannelInv`: a channel that waits is on the strand or in its session's group,
  never in both, and nothing else is. This is what keeps a match from being missed
  or made twice;
- `SocketInv`: a named socket is in one place, a socket given to a channel is
  nowhere else, and all sockets of a session's group are of the client that is
  mapped to it;
- `PairInv`: whoever was given a socket is still mapped to the socket's client, or
  its session is stopped and its group gone. With `MapsAgree` it gives the
  exclusion that `Rendezvous` promises.

`Claim` does the work of `merge` for both orders of arrival, and so one lemma about
it (`ClaimStep`) serves both. In the refinement a step is a meeting (`SomeMeet`), a
channel that asks, a socket that is offered, or nothing (`NobodyMeets`).

`StopsLast` proves `StopIsLast` with a second invariant, `StopInv`. From `Acceptor::stop`
on nobody begins an accept, the sockets that are pending only become fewer, and so do
the groups (`HandlerKeepsStop` says it of every handler at once). So
`mPendingSocketsEmptyProm` is set by whoever erases the last socket, and only by it:
`emptyProm` is 1 exactly while the acceptor is stopped and nothing is pending. That no
handler is left to begin an accept by then is `Followed`: the callback of an accept
posts the next accept before it asks for the string, so the handler that erases its
socket comes later on the strand.

### ValueMask

`PaddingIsClear`: the padding of every value that was masked is clear, for all sizes
of bytes, values and fields. It needs that values do not share their last byte.

### Only model-checked

Termination and the like (`Terminates`, `Finishes`, `CloseReturns`, `CallsReturn`,
`HandshakesEnd`, `StopReturns`): liveness and `ENABLED` are out of the prover's reach.
For `Finishes` only the step from `DeadlockFree` and `RunBounded` to the conclusion
is, for `Terminates` also that some action is always possible.
Every safety property that a passing run checks is proved, `CancelSettles` under the
assumptions above.

## 6 What is not modelled

- The expansion of the seeds, the bit matrix transposition and the bit slicing in
  the loops of `check()`; `split()`, which gives a second OT object its own seeds.
- The solver: any solution of the system is allowed, and an inconsistent system
  ends the program, as LinBox's exception does.
- The strength of the cryptography. That two different rows do not collide in
  their output is not claimed: `PsiIdeal` bounds the count from below only.
- The parties are honest, and both have the same set of keys, which is what
  `ProtocolParty` does: both draw them from the same fixed seed.
- Failures of processes, and in `PsiProtocol` those of connections: the program
  keeps nothing on disk and does not handle them; a broken connection ends it.
  `Channel` has what a single channel does about one.
- The network as one piece: `Channel` has of the acceptor only what it does to a
  channel (`startSocket`, `cancelPendingChannel`), and `PsiProtocol` only that it
  pairs a connection with the session that listens; `Acceptor` gives both what they
  assume. Also several ports, the threads of `IOService`, automatic names of
  channels, the counting of `Session` objects, and several threads in one session.
- Buffer types other than the fixed ones, callbacks of the user, and statistics of
  a channel.
- `checkVariables()` (never called), timing, command line and output.
- The other OT protocols and containers of libOTe and xxHash: third-party code
  that the program does not call or only computes with.

## 7 Plan

Done, in the order of importance: the dictionary with its proofs, the OT ends with
theirs, the parties, what they promise and the proof that they keep it, the queue,
the channel and the acceptor with their proofs, the promise of a channel with its
refinement, and the bounds on the runs of the dictionary and of the parties.

1. What is a safety property of `CloseReturns` and `CallsReturn`: in a state of the channel
   in which no handler, transfer or call can go on, everybody who waits may wait.
2. The same for `HandshakesEnd` and `StopReturns` of the acceptor.
3. `split()` of the OT ends.
