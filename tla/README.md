# Verification of the ASIO client-server framework

The framework is a header-only C++ library (`src/include/*.h`) for
length-prefixed messages over TCP between one server and many clients, built on
Boost.Asio. This directory holds a TLA+ model of its core, the TLC
configurations that check the model on small instances, and TLAPS proofs of its
safety properties for every instance.

## 1. The system

| Component | State it keeps | Operations | Called by |
|---|---|---|---|
| `Connection` (connection.h) | socket, `closed_`, header and body buffers, heartbeat timer numbers | `start`, `send`, `close`, and the handlers of reads, writes, timers and posted lambdas | Server, Client, the io_context |
| `OutboxQueue` (outbox_queue.h) | `queue`, `isWriting`, `closed` | `pushAndClaim`, `popAndNext`, `close` | Connection's handlers |
| `TimeoutManager` (timeout_manager.h) | `timerMap_`, `currentId_` | `startAndGetTimer`, `cancelTimer`, `resetTimer`, the wait handlers | Connection |
| `MessageQueue` (message_queue.h) | `queue`, `closed`, mutex, condition variable | `push` (I/O thread), `pop` (users' threads), `close` (any) | Connection, Server, Client |
| `ConnectionMap` (connection_map.h) | `conMap_` | `addAndGetConnection`, `getConnection`, `remove`, `closeAll`, `clear` | Server |
| `Server` (server.h) | acceptor, I/O thread, map, `currentId_` | accept loop, `start`, `stop`, `send`, `receive`, `setTimeout` | the user |
| `Client` (client.h) | socket, I/O thread, `clientCon_`, `isClosed_` | `start`, `stop`, `send`, `receive`, destructor | the user |
| Protocol (protocol.h) | the global timeouts | `getMessageFrame`, `parseHeader`, byte order, `setTimeout` | Connection, Server, the user |
| `Logger` (logger.h) | ring buffer, file, strand | `push`, `unsafeFlushNow`, rotation | all |

How they interact. A Server or a Client owns one `io_context`, run by one
thread. Every handler runs on that thread from its first line to its last. The
users' threads call `send`, `close` and `stop`, which post lambdas to the
io_context, and `receive`, which blocks in `MessageQueue::pop`. A Connection
reads header, body, header, ... for as long as it lives; a `send` puts a frame
in the outbox and starts a write if none runs, and the completion of a write
starts the next. Five timers guard it: read, body and send timers call
`socket_.cancel()`, the heartbeat watch calls `close()`, the heartbeat send
timer calls `send`. The close handler calls the owner's callback, which removes
the connection from the Server's map or closes the Client's message queue.

What is hard here:

* completions, expirations and posted lambdas meet in any order, and each
  branch must leave the outbox, the timers and the loops consistent;
* Asio does not take back a timer handler that is queued, so a handler may run
  after its timer has been cancelled and replaced;
* `socket_.cancel()` hits whatever is pending, not the operation whose timer
  expired, and misses an operation that is between two transfers;
* `stop()` joins the I/O thread, so every handler, timer and operation must
  come to an end after `close()`;
* the accept loop, the map and `stop()` run on different threads;
* each end has durations of its own, which may change while timers run, and
  whether an idle connection lives depends on both of them.

Correctness, component by component:

| Component | What makes it correct |
|---|---|
| Connection, write side | one write at a time, frames on the wire in the order of the sends, nothing after a failed write, queued frames reach the wire or the connection closes |
| Connection, read side | messages delivered in order, once, no heartbeats; a silent peer does not hold the loop |
| Connection, closing | callback once, no half-alive connection, everything released after `close()` |
| Connection, heartbeats | an idle connection that sends them stays up, a silent peer is dropped |
| TimeoutManager | no timer outlives its purpose; a queued handler never takes away the watch of a newer timer |
| MessageQueue | first in, first out; no lost wakeup; `close` frees every waiter and loses no queued message |
| Server, ConnectionMap | every connection is closed by `stop`, `stop` returns, ids are unique |
| Client | `stop` is safe to call twice and from two threads, every started thread is joined |
| Protocol | `parseHeader` inverts the header `getMessageFrame` writes, at every boundary |
| Logger | entries kept in order, none lost while the file is open, all written by `stop()` |

`PROJECT.json` lists the hazards with their lines and the properties that
cover them.

## 2. The model

| Module | Models | Remarks |
|---|---|---|
| `OutboxQueue` | outbox_queue.h | each method holds `qLock` throughout, so it is a function of the state |
| `TimeoutManager` | timeout_manager.h and what Asio does with expired timers | an entry is named by its purpose; `fired` holds the queued handlers |
| `Connection` | connection.h | extends the two above; one action per handler, call or completion |
| `Channel` | what a connection promises its owner | abstract; `Connection` implements it |
| `Heartbeat` | the two ends of an idle connection in discrete time, the durations, `setTimeout` | |
| `Mailbox` | what `receive()` promises | abstract; `MessageQueue` implements it |
| `MessageQueue` | message_queue.h | one action per critical section, notifications apart |
| `Protocol` | protocol.h: frames, headers, byte order | operators on bytes, no state |
| `Inbox` | the way from the peer's `send()` to `receive()` | composes `Protocol`, the read loop and `MessageQueue` |
| `Server` | server.h and connection_map.h | accept loop, map, `start`, `stop`; its constants are numbers, so TLC runs it directly |
| `Client` | client.h | `start`, `stop` from several threads, lost connection |
| `Logger` | logger.h | functions of the logger's state |
| `ClientLog` | a client and its logger | composes `Client` and `Logger` |
| `MCConnection`, `MCHeartbeat`, `MCInbox`, `MCClient` | instances for TLC | |
| `ConnectionProofs`, `ChannelProofs`, `HeartbeatProofs`, `MessageQueueProofs`, `ProtocolProofs`, `InboxProofs`, `ServerProofs`, `ClientProofs` | theorems | checked by TLAPS |

### The connection

State. `posted` is the part of the io_context's queue filled by `send()` and
`close()`, in order. `outbox` is `outboxQueue_`. `rdOp`/`rdRes` and
`wrRes`/`wrFrame` describe the outstanding `async_read` and `async_write`:
pending in the kernel, between two transfers, or completed with a result and
waiting for the I/O thread. `tm` is `timerMap_` with the queued wait handlers.
`wire`, `received`, `delivered`, `logged` and `callbacks` record what the
outside sees.

Actions. `SendCall`, `CloseCall` and `CloseMessageQueue` are the users'
threads. `HeaderArrives`, `BodyArrives`, `ReadFails`, `WriteCompletes`,
`WriteFails`, `PartRead`, `PartWritten` and `Expire` are the kernel and the
clock. The others run on the I/O thread: `Start` is `start()`, `RunSend` and
`RunClose` the posted lambdas, `HeaderRead`, `BodyRead` and `ReadFailed` the
read handlers, `FrameWritten` and `WriteFailed` the write handler, `OpTimeout`,
`HeartbeatTimeout` and `HeartbeatSend` the timer callbacks, `ReadOn` and
`WriteOn` Asio's own handlers between two transfers.

Abstractions.

* A frame is the number of its `send()` call; a received frame is its position
  and what `parseHeader` makes of it: data, heartbeat without or with a body,
  rejected.
* Posted lambdas run first in, first out, as Asio's queue does. Completions and
  expired timers run in any order relative to them and to each other. Asio's
  scheduler is more regular, so the model has every behaviour of the code and
  some that a given version of Asio would not show; its two counterexamples
  below were traced by hand to orders that Asio produces.
* A wait that is cancelled before it expires runs its handler with an error
  that both handlers of timeout_manager.h ignore; these are left out.
* Log entries are reduced to the set of timeouts that have been logged.
* `Timeouts` is the set of purposes whose duration is not zero. How long they
  are, and a change of them at run time, is left to `Heartbeat`.
* `Chunked` is the set of operations that need more than one transfer.
* Settings of the socket, endpoints and allocation failures are left out. The
  bytes of a frame are in `Inbox`.

`Channel` is the view of the owner: frames asked for and sent, frames heard and
handed over, and a phase that goes from open over closing and closed to
released. The refinement mapping reads the phase off the connection (`Phase`): a
posted close handler makes it closing, and a closed connection without
operations, timers and queued handlers is released. `Server` and `Client` keep
no more of a connection than this phase.

### The heartbeats

Both ends of one connection, each with its durations (`dur`), the ticks left on
its three timers, and the ages of the heartbeats it has sent (`flight`). A tick
does not pass over work that is due, so handlers run in the tick they are
queued in; what is due in the same tick runs in any order, a timer before or
after the header that would have renewed it. An expired wait has its handler
`queued` (`Expires`), and from then on no header takes it back: `Receive` starts the
watch and the read timer anew, as the code does, and the queued handler still
closes the connection (`WatchTimeout`, `ReadTimeout`). A frame takes `Delay` ticks at
most, and one end may start `Delay` ticks after the other, as an accept does.
`SetTimeout` changes the durations of one end at any moment: a timer that runs
goes on, the next start or reset takes the new value. `Reset` has no test for
zero, as `resetTimer` has none. The network may be cut without a word to either
end. What a connection does with its timers beyond this is in `Connection`.

### The frames

`Protocol` computes with bytes of `Base` values, four to a header: `Digits` and
`Value` are a number in memory, most significant byte first, `ByteSwap` is
`std::byteswap`, `Flag` the top bit. The code has `Base` 256; TLC's integers end
at 2^31, so its instance takes 4, and the theorems hold for every even base. The
two shifts of `parseHeader` are a multiplication modulo the word and a division,
so that what falls off the word does fall off.

`Inbox` puts the frames of the peer into one stream of bytes, with the peer's
byte order, and lets the read loop cut it again with its own. `PeerGarbles` ends
the stream with a header that no `getMessageFrame` builds. A read may fail and
the connection may close at any moment; a completion that is queued by then
still runs. The queue behind it is `MessageQueue` whole, its lock, waits and
notifications.

### The message queue

`queue` and `closed` are the fields of that name. `user` says where each of the
users' threads is: outside, about to take `qLock` in `pop()`, blocked in
`qCv.wait`, or past the locked part of `close()`; `io` says the same of the I/O
thread, which pushes and, in a client, closes. What happens under the lock is
one action (`Push`, `Close`, `PopMessage`, `PopNothing`, `Wait`); `NotifyOne`
and `NotifyAll` follow it without the lock, so that any other step may come in
between. `notify_one` picks any waiter, and a waiter may wake by itself.
`Push(FALSE)` is a push that could not get its memory. `Inbox` drives the
actions of the I/O thread; the users' threads are unchanged.

### The server

`owner` is the thread that calls `start()` and `stop()`, stopped at each step
of `stop()` that another thread can tell from the next; `io` is the I/O thread.
`accept` is the outstanding `async_accept`, `arrived` and `accepted` count the
clients, `conMap` is the map as a set of pairs of id and connection, `taken` is
the map that `closeAll()` has swapped out. The accept handler is two actions
(`Accepted`, `Rearm`) because `stop()` may close the acceptor or take the map
between `handleConnection()` and the next `async_accept`. Two concurrent uses
of one acceptor are not allowed by Asio; the model has the two orders in which
they can take effect.

Two things the model does and no property calls wrong, because no document does: an
accept error other than an abort ends the accept loop (`critical`), and a `start()`
after a `stop()` finds the acceptor closed. `ListensOn` and `ClientsServed` say that
nothing else ends the loop.

A connection is what the server sees of it: open, closing (its close handler is
posted), closed, released. `Connection` justifies the steps: `NoZombie` that an
open connection is whole or about to close, `CallbackOnce` that the callback
runs once, `CloseCompletes` that a posted close leads to the release.

### The client

`user` says where each thread is in `stop()`; `isClosed`, `workGuard`,
`mqClosed` and `stopped` are the flags, `con` the connection as in the server,
`io` the thread. `start()` is one action and never overlaps a `stop()`; it may
come after one (`startedLate`). As `clientCon_` is never reset, `start()`
succeeds at most once.

`ClientLog` adds the logger. An entry is the number of its `log()` call; it is
on the strand (`posted`), in the ring (`buffer`) or in a file (`written`). The
calls are those of client.h and of the connection: a `start()` that fails, a
`send()` of a body that is refused, the report of why a connection closes, by
one loop or by both. Posting an entry gives the I/O thread work, so `run()`
returns only when the strand is empty; `owed` is what had been logged by then.
A server logs in the same way.

## 3. The runs

| Run | Instance | Shows |
|---|---|---|
| `conn_frames` | 2 sends, 2 frames of any kind; read, send and heartbeat timeout; bodies and writes in parts | types; one writer; wire order; nothing after a failed write; delivery order; no half-alive connection; callback once; watch and timers last and end as they should; `Connection` implements `Channel` |
| `conn_close` | 2 heartbeats out, 1 heartbeat with a body in; read, body and send timeout and heartbeat rate; transfers whole; fairness to the I/O thread, to timers as each property says | no leaked timer, every operation watched; the read and body timers alone end every read; the send timer alone sees to it that what is queued is sent or the connection closes; a closed connection waits for nobody, runs out of handlers and releases everything |
| `body_timeout_off` | read timer only | violation, see below |
| `transfers_in_parts` | 1 send, 1 message in; body and send timer, bodies and writes in parts, fairness | violation, see below |
| `inbox` | 3 frames, 3 threads, bytes of 4 values, bodies of 0 or 1 byte, a little-endian client of a big-endian peer, fairness | messages pushed and received as sent; only garbage refused; no lost wakeup; `MessageQueue` implements `Mailbox` and serves as one |
| `server` | 3 clients, 2 starts, fairness | no stray connection; nothing left after `stop()`; the accept loop goes on and clients are served; nothing but an accept that came too late keeps `stop()` from returning |
| `server_late_accept` | 1 client, 1 start, fairness | violation, see below |
| `client` | 3 threads, 5 log entries, a ring of 2, fairness | one thread carries out `stop()`, its join waits for nobody, it ends and leaves nothing behind; a lost connection frees the receivers; the log is complete and in the file |
| `client_two_stops` | 3 threads | violation, see below |
| `heartbeat` | both ends send and watch; rate 1 or 2, read timeout 5 or 6, watch 5 or 7, delay 1, all changing | idle connections stay up; silent peers are dropped |
| `idle_dropped` | only the client sends, only the server watches | violation, see below |
| `zero_closes` | the same with a watch of 0 or 5 | violation, see below |

Bounds. `MaxSends`, `MaxBeats` and `MaxFrames` bound the calls of `send()`, the
expirations of the heartbeat send timer and the frames that arrive. Two sends
give an outbox with a frame being written and one that waits, in either order of
their posting and the first one's completion; two frames let the handler of one
read timer stay queued while the next read timer is started. `conn_frames` has
every kind of frame but a heartbeat with a body, which differs from a message
only in that it is not pushed; `conn_close` has that one. The heartbeat watch is
on in `conn_frames` and off in `conn_close`: where it is on it closes every
connection whose peer is silent, and `ReadEnds` would hold whatever the timeouts of
the reads do.

Three receivers and three messages let one thread take the message another was
woken for while a third waits. Three frames let a message follow a heartbeat and
be followed by one. With bodies of one byte the garbage of a length one too many
is in reach, with four values to a byte a length takes its own digit and the
flag the top one. Three clients let one be in the map, one be taken out by
`closeAll()` and one be accepted late; a second start meets the closed acceptor.
Five log entries fill a ring of two, flush it, and fill it again.
`MaxSilence` is above every timeout of its instance, and a `MaxFlight` of 2
is what a rate of 1 and a delay of 1 put on the way at most. The theorems hold
without these bounds being small.

Deadlock is checked for the inbox, the server, the client and the heartbeats,
where a thread can always call something or time can pass, and not for the
connection: a closed connection whose handlers have run has nothing left to do,
which is what `CloseCompletes` asks for.

Fairness. `IOSpec` is weakly fair to the I/O thread (`Start`, posted lambdas,
read handlers, write handlers, each queued timer handler), since its handlers
never block. It assumes nothing of users, peer or network (a peer may stay silent
or stop reading for ever) and nothing of the clock. Each property names the timers it
relies on (`ClockRuns`): `CloseCompletes` none, `ReadEnds` those of the reads,
`QueuedSentOrClosed` that of the send alone. If all of them ran, the read timer would
sooner or later close every connection of the instance, whatever the send timer
does; a read timer that never expires stands for a peer that goes on sending but
no longer reads. `FairSpec`, fair to every timer, is what `transfers_in_parts` is
violated under.

`ReadEnds` and `QueuedSentOrClosed` are about operations of one transfer
(`Chunked` is empty in `conn_close`). Of operations in parts they are false, and
`transfers_in_parts` is the run that shows it.

The queue is fair to a thread inside `push`, `pop` or `close`, not to callers
and not to spurious wakeups. The server and the client are fair to the I/O
thread and to a `stop()` that has been called, and the kernel hands over a
client that waits while an accept is pending; nobody has to connect, to leave
or to call `start()` or `stop()`. The handlers of the logger belong to the I/O
thread of the client; nobody has to log. `Heartbeat` needs no fairness: a tick
that does not pass over due work bounds the time itself, and both of its
properties are invariants.

What disagrees with the documentation:

* `BodyTimeoutOff`. The read timer expires as a header completes; its handler
  is queued behind the header's. The header's handler cancels the timer, which
  comes too late, and starts the body read; the queued handler then cancels
  that read, and it is logged as "Reading body timed out" and the connection
  closed, although the body timeout is off.
* `TransfersEnd`. The handlers of the body timer and of the send timer run while
  the handlers between two transfers of a body and of a message are queued.
  `socket_.cancel()` finds nothing to cancel, the timers erase themselves, and read
  and write go on without a timeout. If the peer neither sends nor reads from then
  on the connection stays as it is for ever. The documentation gives the read
  `READ_BODY_TIMEOUT_MS` and the send `SEND_TIMEOUT_MS` at most; the property asks
  only that not both of them stay outstanding, which either sentence implies, and
  for finitely many parts (`FinitelyManyParts`).
* `StopReturns` of the server. An accept completes; `stop()` closes the
  acceptor, which does not take back the queued handler, and `closeAll()`
  empties the map; then the handler adds its connection and starts it. Nobody
  closes it, and `join` waits as long as the peer stays. `StopReturnsUnlessLate`
  shows that this is the only way for `stop()` to hang.
* `StopJoins` of the client. The second of two concurrent `stop()` calls
  returns although the I/O thread runs.
* `IdleKeptAlive`. By default the client sends heartbeats and the server sends
  none. The client then hears nothing, and its own read timeout closes the
  connection that its heartbeats were to keep alive. `IdleStaysUp` says when it
  is not so: both ends send, and every timeout exceeds the rate by more than two
  delays.
* `ZeroTurnsOff`. `setTimeout(SERVER_HEARTBEAT_TIMEOUT_MS, 0)` while a connection
  is up: the next header resets the watch to zero milliseconds, which does not
  turn it off but makes it expire at once. The property leaves out the handler that
  was queued before the header came (`Renewed`): it closes the connection with any
  timeout, and no document promises otherwise. A `HEARTBEAT_RATE` set to 0 in the
  same way sends heartbeats without pause; the run is about the watch only.

## 4. The proofs

`ConnectionProofs` proves the safety properties of the runs for every set of
timeouts, frame kinds and chunked operations and every bound, from
`TimeoutsAssumption` and `ConnectionAssumption` (the constants have their
types).

* `TypeOK` is not inductive: `PopAndNext` keeps the type of the outbox only if
  it holds a frame. `TypeOK /\ OutboxWriter` is, and gives `TypeCorrect` and
  `OneWriter`.
* `FailedWriteIsLast` follows from the same pair: after a failure the outbox
  keeps its frame, so `isWriting` stays set and no send can claim the writer.
* `CallbackAtMostOnce` and `NoHalfOpenConnection`: `ClosePostedStep` says that
  a posted close handler stays posted until one runs, and `ReadLoopEnds` and
  `WriteLoopEnds` that a loop ends only with a posted close handler.
* `NoTimerLeaks` and `EveryOperationWatched` rest on `LoopState`: an operation
  is outstanding exactly while its loop says so, nothing happens before
  `start()`, a timer of an operation is never reset. `WatchKept` is the heart:
  a handler that is queued for an old timer never ends the watch of a new one.
* `HeartbeatsLast` rests on `BeatState`: until the close handler runs, the entry
  of the heartbeat send timer exists and no handler that would erase it is
  queued.
* `WireOrder` needs to know where every frame is: `WireState` and `PostedState`
  say that the wire, the outbox and `posted` hold the numbers 1 to `sends` in
  this order and without a gap, for as long as the connection is open.
* `DeliveryOrder` adds to the property that the frame in hand has not been
  delivered, and that between two frames everything received has been.

`ChannelProofs`: `ImplementsChannel` maps every step of `Connection` to a step of
`Channel` or a stutter. It uses the invariants above and `ShutState`, that a
closed connection has been started and has nothing in the kernel, and that
nothing is read after a header that made no sense. A released channel stays
released because what is idle and closed has no handler left (`IdleStays`).

`ChannelProofs` also proves what the end of a connection rests on, but for the
scheduling. `NobodyWaitedFor`: a closed connection that is not released has a
handler the I/O thread can run; it follows from `TimerInv` (no timer outlives its
loop) and `ShutState`. `CloseRunsOut`: every step that is no call of a user lowers
`Remaining`, the results still to be handled, the armed timers, the expired timers
and the posted tasks, compared in this order. The order matters: a handler that
runs after `close()` may start a read that fails at once (a result handled for one
that needs less), arm that read's timer or post another `close()`. From the two,
`CloseCompletes` follows for an I/O thread that never stays idle while it has a
handler: the last step, from a measure that falls to `~>`, is the liveness the
prover cannot make.

`HeartbeatProofs`, for all durations and delays: `IdleConnectionLasts` rests on
`Covered`: every timer that an end waits with outlives the next frame of its
peer, be it on its way, the next beat of the peer, or the first one after its
start (`Outlives`). Rates and timeouts with `rate + 2 * Delay < timeout` make it
so; the second delay is the way of the frame, the first the late start.
`SilenceIsNoticed` rests on `SilenceInv`: the silence so far and what is left of
a timer add up to one of its durations at most.

`ProtocolProofs`, for every even base and every maximal length below the flag:
`RoundTrip` says that `parseHeader` gets back what `getMessageFrame` put into the
header, whichever byte orders the two machines have, and `OnlyFramesAccepted`
that it accepts no other header.

`InboxProofs`, for every instance: `QueueInside` carries the theorems about
`MessageQueue` over. `MessagesKept` and `GarbageOnly` rest on `FramesFollow`: the
stream is the frames of the messages, one after the other from the positions
`at` on (`Framed`), and the read loop stands at the beginning of a frame or after
a header that it has understood (`ReadTo`). The step needs `RoundTrip` for the
header that is read, and that garbage is no header of a frame.

`MessageQueueProofs`, for any finite set of threads:

* `NoWakeupLost` is inductive with the type invariant. A step changes the number
  of threads on their way to the lock by one and the queue by one at most;
  `AtCounts` turns both into facts about cardinalities.
* `ImplementsMailbox` maps a thread that is in `pop()`, blocked or not, to a user
  that asks. Notifications and wakeups change nothing of the mailbox.
* `TakenInOrder`: the numbers of the pushes grow along what has been taken, on
  along what is queued, and end before the next push (`QueueOrder`).

`InboxProofs` joins this with `EachPushedSent`, that every number pushed is that
of a message in the stream and holds its body, to `OnlySentReceived`: what comes
out of `receive()` is what went into the peer's `send()`. It says this of the
threads' side of the queue, where `MessagesKept` ends at the push.

`ServerProofs`, for any number of clients and starts:

* `NoConnectionStrays` needs `Numbered`: ids are handed out once and grow, so a
  new entry replaces none and a callback removes its own.
* `StopLeavesNothing` needs `Stopping`: the steps of `stop()` come in order, and
  the thread returns only when no accept and no connection is left.
* `AlwaysListening` and `OnlyLateHoldsJoin` need `Accepting`: the handler that
  takes a connection is followed by the one that issues the next accept, and a
  closed acceptor has no accept in the kernel. They are what `ClientsServed` and
  `StopReturnsUnlessLate` rest on, but for the scheduling.

`ClientProofs`, for any set of threads: `ClientInv` says what the thread inside
`stop()` has done so far (`StopProgress`), that the guard and the io_context go
only with a `stop()` (`OnlyStopUnguards`), and that thread and connection come
and go together (`ThreadHasConnection`); with `OneStopper` it gives
`StopLeavesNothing`. `NothingHoldsJoin` and `LossNeverMissed` are what `StopReturns`
and `LossFreesReceivers` rest on, but for the scheduling: the first follows from
`StopProgress`, the second is part of `ClientInv`. `ClientInside` carries this over to `ClientLog`. `LogKept` and
`FlushedAtStop` rest on `LogInv`: file, ring and strand together are the log, and
what is owed is in file and ring (`OwedHandled`), so that the flush in `stop()`
writes it; no handler of the logger runs afterwards, since the thread is gone.

Where the code does not keep what the documentation says, three theorems give
the condition under which it does, and so the cause of the violation:

* `StopJoinsOneCaller` (`ClientProofs`): any call of `stop()` joins the thread if
  no two threads call it.
* `NoTimerNoTimeout` (`ConnectionProofs`): with the read, body and send timeouts
  off no body read is reported as timed out. `OnlyCloseAborts` is the invariant:
  then only the close handler aborts a read, and after it nothing is reported.
  The instance of `body_timeout_off` has the read timer on and nothing else.
* `OnlyZeroDropsAtOnce` (`HeartbeatProofs`): if the heartbeat timeout is never 0,
  an end that has just been heard from is dropped as silent only by a handler that
  was queued before the header renewed the watch. It rests on `WatchCounts`: the
  silence so far and what is left of a watch make up one of its durations at least.
  `NoEarlyExpiry` is the general fact: however often a watch is renewed and its
  duration changed, it expires only after a silence as long as one of the
  durations. That a handler queued before the header does drop an end just heard
  from is what the code does with any short timeout (hazard connection.h:67).

`IdleConnectionLasts` does the same for `idle_dropped`, and `OnlyLateHoldsJoin` for
`server_late_accept`.

Assumptions. Each module with constants names what it assumes of them, mostly
their types. `MaxMessageSize` is below the flag; the garbage of `Inbox` is no
header of a frame; every duration is below `MaxSilence`. TLC evaluates them for
every instance.

Only model-checked: the liveness properties (`ReadEnds`, `QueuedSentOrClosed`,
`CloseCompletes`, `MailboxServes`, `ClientsServed`, the properties about `stop()`
returning, `LossFreesReceivers`), since liveness under fairness is beyond the
prover; their halves without fairness are proved as said above. Every invariant
and every action property of the passing runs is proved, and so is the safety of
both refinements. That the six violations occur is shown by the runs alone.

## 5. Not modelled

* Generated documentation: the pages under docs/html and the JavaScript that
  Doxygen puts beside them to fold, search and navigate. It is third-party code,
  part of no program of this repository, and has no state in common with the
  library; its sentences are quoted where the code does something else.
* The example and the benchmark as programs. They call the library in ways that
  the models allow; what main.cpp sets and says is the instance of
  `idle_dropped`.
* Files: rotation, `setMaxLogFileSize`, file names, directories. Two loggers may
  choose one name, but between whom and when is up to the file system.
* Text: the format and level of log entries. The public `flush()` of the logger,
  which nothing calls, and the flush of its destructor.
* Socket options, endpoints, allocation failures outside `push()`.
* What a callback of the user's does. A callback that calls `stop()` would join
  the thread it runs on; no document says that it may.
* The lifetime of objects: that no thread is inside `receive()` or `send()` when
  a client or server is destroyed is the user's duty.
* The data race on the durations in `Server::setTimeout`, as far as it is more
  than a change between two steps.
