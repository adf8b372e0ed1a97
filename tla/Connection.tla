------------------------------ MODULE Connection ------------------------------
(***************************************************************************)
(* include/connection.h: one TCP connection, as Server and Client both use *)
(* it: the read loop, the write loop, the heartbeats, the timeouts and     *)
(* close().                                                                *)
(*                                                                         *)
(* Threads.  Every handler (a completed read or write, an expired timer, a *)
(* posted lambda) runs on the one thread that runs the io_context, from    *)
(* its first line to its last, so a handler is one action.  send() and     *)
(* close() are called from any thread and only post.  Posted lambdas run   *)
(* in the order they were posted; completions of the kernel and of the     *)
(* clock are dispatched in any order relative to them and to each other    *)
(* (Boost.Asio promises none).                                             *)
(*                                                                         *)
(* Data.  The n-th frame send() builds is the number n, whether a user or  *)
(* a heartbeat asked for it.  The n-th frame of the peer is known by n and *)
(* by what parseHeader makes of its header.                                *)
(***************************************************************************)
EXTENDS Naturals, Sequences, FiniteSets, OutboxQueue, TimeoutManager

CONSTANTS
    Chunked,     \* operations the kernel may carry out in several parts
    FrameKinds,  \* what the peer may put on the wire, a subset of AllFrameKinds
    MaxSends,    \* bound: calls of send() the users make
    MaxBeats,    \* bound: expirations of the heartbeat send timer
    MaxFrames    \* bound: frames that arrive from the peer

\* "data": a message with a body.  "beat": a heartbeat without a body, what
\* send("", true) builds.  "fullBeat": a heartbeat with a body, which the
\* protocol allows.  "bad": a header that parseHeader rejects.
AllFrameKinds == {"data", "beat", "fullBeat", "bad"}

ASSUME ConnectionAssumption ==
    /\ Chunked \subseteq {"header", "body", "send"}
    /\ FrameKinds \subseteq AllFrameKinds
    /\ MaxSends \in Nat
    /\ MaxBeats \in Nat
    /\ MaxFrames \in Nat

VARIABLES
    started,    \* start() has run
    closed,     \* closed_
    stopCalled, \* the owner has called close()
    posted,     \* handlers posted by send() and close() that have not run
    sends,      \* calls of send() that posted a frame
    beats,      \* expirations of the heartbeat send timer (bounded)
    outbox,     \* outboxQueue_
    wrRes,      \* the outstanding async_write
    wrFrame,    \* the frame it writes, body in doSend
    wire,       \* the frames the kernel took completely, in order
    rdOp,       \* which async_read is outstanding
    rdRes,      \* and what became of it
    received,   \* the frames whose header arrived
    delivered,  \* the frames pushed to messageQueue_, by number
    mqClosed,   \* messageQueue_ has been closed
    tm,         \* timeoutManager_
    logged,     \* the timeouts that have been logged
    callbacks   \* calls of callback_

sendVars == <<sends, beats>>
writeVars == <<outbox, wrRes, wrFrame, wire>>
readVars == <<rdOp, rdRes, received, delivered, mqClosed>>
closeVars == <<started, closed, callbacks>>
vars == <<closeVars, stopCalled, posted, sendVars, writeVars, readVars, tm, logged>>

\* An outstanding operation is pending in the kernel or its handler is queued
\* with a result.  "aborted" is operation_aborted, what socket_.cancel() and
\* socket_.close() give; "error" stands for every other failure.  async_read
\* and async_write are loops over smaller transfers (64 KB at most): "part" is
\* the time between two of them, when Asio's own handler is queued to issue
\* the next and the kernel holds nothing of the operation.
Results == {"none", "pending", "part", "ok", "aborted", "eof", "error"}
ReadOps == {"none", "header", "body"}
LogKinds == {"header", "body", "send", "hbTimeout"}

SendTask(n) == [task |-> "send", frame |-> n]
CloseTask == [task |-> "close", frame |-> 0]
Task == [task: {"send"}, frame: Nat] \cup {CloseTask}

\* The socket is open from construction until the close handler.
SocketOpen == ~closed

\* socket_.cancel() and socket_.close() abort what is still pending; a
\* completion that is already queued, of the whole operation or of a part,
\* keeps its result.
Aborted(res) == IF res = "pending" THEN "aborted" ELSE res

\* heartBeatTimeoutTimerID_ holds a number from start() until close().
WatchesHeartbeat == "hbTimeout" \in Timeouts /\ ~closed

Frame(n) == received[n]
CurrentFrame == Frame(Len(received))

Init ==
    /\ started = FALSE
    /\ closed = FALSE
    /\ stopCalled = FALSE
    /\ posted = << >>
    /\ sends = 0
    /\ beats = 0
    /\ outbox = EmptyOutbox
    /\ wrRes = "none"
    /\ wrFrame = 0
    /\ wire = << >>
    /\ rdOp = "none"
    /\ rdRes = "none"
    /\ received = << >>
    /\ delivered = << >>
    /\ mqClosed = FALSE
    /\ tm = NoTimers
    /\ logged = {}
    /\ callbacks = 0

-----------------------------------------------------------------------------
(* The users' threads.                                                     *)

\* send(): frames that getMessageFrame refuses are logged and go no further;
\* every other frame is posted.
SendCall ==
    /\ sends < MaxSends
    /\ sends' = sends + 1
    /\ posted' = Append(posted, SendTask(sends'))
    /\ UNCHANGED <<closeVars, stopCalled, beats, writeVars, readVars, tm, logged>>

\* The owner's close(), by Client::stop or ConnectionMap::closeAll: one call,
\* isClosed_ and the swap of the map see to that.
CloseCall ==
    /\ ~stopCalled
    /\ stopCalled' = TRUE
    /\ posted' = Append(posted, CloseTask)
    /\ UNCHANGED <<closeVars, sendVars, writeVars, readVars, tm, logged>>

\* messageQueue_.close(), by stop() or by the client's callback.
CloseMessageQueue ==
    /\ ~mqClosed
    /\ mqClosed' = TRUE
    /\ UNCHANGED <<closeVars, stopCalled, posted, sendVars, writeVars, rdOp, rdRes,
                   received, delivered, tm, logged>>

-----------------------------------------------------------------------------
(* The kernel and the clock (external).                                    *)

HeaderArrives(kind) ==
    /\ rdOp = "header" /\ rdRes = "pending"
    /\ Len(received) < MaxFrames
    /\ received' = Append(received, kind)
    /\ rdRes' = "ok"
    /\ UNCHANGED <<closeVars, stopCalled, posted, sendVars, writeVars, rdOp, delivered,
                   mqClosed, tm, logged>>

BodyArrives ==
    /\ rdOp = "body" /\ rdRes = "pending"
    /\ rdRes' = "ok"
    /\ UNCHANGED <<closeVars, stopCalled, posted, sendVars, writeVars, rdOp, received,
                   delivered, mqClosed, tm, logged>>

\* The peer closes (eof) or the connection breaks (error) under a read.
ReadFails(res) ==
    /\ rdRes = "pending"
    /\ rdRes' = res
    /\ UNCHANGED <<closeVars, stopCalled, posted, sendVars, writeVars, rdOp, received,
                   delivered, mqClosed, tm, logged>>

WriteCompletes ==
    /\ wrRes = "pending"
    /\ wrRes' = "ok"
    /\ wire' = Append(wire, wrFrame)
    /\ UNCHANGED <<closeVars, stopCalled, posted, sendVars, outbox, wrFrame, readVars, tm,
                   logged>>

WriteFails ==
    /\ wrRes = "pending"
    /\ wrRes' = "error"
    /\ UNCHANGED <<closeVars, stopCalled, posted, sendVars, outbox, wrFrame, wire,
                   readVars, tm, logged>>

\* Some of the bytes of the operation have been transferred, more are to come.
PartRead ==
    /\ rdOp \in Chunked /\ rdRes = "pending"
    /\ rdRes' = "part"
    /\ UNCHANGED <<closeVars, stopCalled, posted, sendVars, writeVars, rdOp, received,
                   delivered, mqClosed, tm, logged>>

PartWritten ==
    /\ "send" \in Chunked /\ wrRes = "pending"
    /\ wrRes' = "part"
    /\ UNCHANGED <<closeVars, stopCalled, posted, sendVars, outbox, wrFrame, wire,
                   readVars, tm, logged>>

Expire(k) ==
    /\ IsWaiting(tm, k)
    /\ k = "hbSend" => beats < MaxBeats
    /\ beats' = IF k = "hbSend" THEN beats + 1 ELSE beats
    /\ tm' = ExpireTimer(tm, k)
    /\ UNCHANGED <<closeVars, stopCalled, posted, sends, writeVars, readVars, logged>>

-----------------------------------------------------------------------------
(* The I/O thread.                                                         *)

\* What close() itself does: post the close handler.
PostClose == posted' = Append(posted, CloseTask)

\* A transfer that is started on a closed socket fails at once.  The faulty
\* TransferAnyway takes the socket to be open.
TransferAnyway == "pending"
Transfer == IF SocketOpen THEN "pending" ELSE "error"

\* doRead(): arm the read timer on timers t and start reading a header.  The
\* faulty ReadUntimed arms no timer.
ReadUntimed(t) ==
    /\ tm' = t
    /\ rdOp' = "header"
    /\ rdRes' = Transfer
DoRead(t) ==
    /\ tm' = StartTimer(t, "read")
    /\ rdOp' = "header"
    /\ rdRes' = Transfer

\* Asio's own handler between two transfers (external) issues the next one.
ReadOn ==
    /\ rdRes = "part"
    /\ rdRes' = Transfer
    /\ UNCHANGED <<closeVars, stopCalled, posted, sendVars, writeVars, rdOp, received,
                   delivered, mqClosed, tm, logged>>

WriteOn ==
    /\ wrRes = "part"
    /\ wrRes' = Transfer
    /\ UNCHANGED <<closeVars, stopCalled, posted, sendVars, outbox, wrFrame, wire,
                   readVars, tm, logged>>

\* doSend(frame): arm the send timer on timers t and start the write.  The faulty
\* SendUntimed arms no timer.
SendUntimed(t, frame) ==
    /\ tm' = t
    /\ wrFrame' = frame
    /\ wrRes' = Transfer
DoSend(t, frame) ==
    /\ tm' = StartTimer(t, "send")
    /\ wrFrame' = frame
    /\ wrRes' = Transfer

\* start().  doHeartBeatLoop re-arms the heartbeat send timer at once.
Start ==
    /\ ~started
    /\ started' = TRUE
    /\ DoRead(ResetTimer(StartTimer(StartTimer(tm, "hbTimeout"), "hbSend"),
                         "hbSend"))
    /\ UNCHANGED <<closed, callbacks, stopCalled, posted, sendVars, writeVars, received,
                   delivered, mqClosed, logged>>

NextTaskIs(task) ==
    /\ started
    /\ posted # << >>
    /\ Head(posted).task = task

\* The lambda posted by send().
RunSend ==
    /\ NextTaskIs("send")
    /\ posted' = Tail(posted)
    /\ LET frame == Head(posted).frame
       IN  IF closed THEN UNCHANGED <<writeVars, tm>>
           ELSE /\ outbox' = PushAndClaim(outbox, frame)
                /\ IF Claims(outbox) THEN DoSend(tm, frame)
                   ELSE UNCHANGED <<wrRes, wrFrame, tm>>
                /\ UNCHANGED wire
    /\ UNCHANGED <<closeVars, stopCalled, sendVars, readVars, logged>>

\* The lambda posted by close(); only the first one does anything.  The faulty
\* NeverDone drops the test of closed_.
NeverDone == FALSE
CloseIsDone == closed
RunClose ==
    /\ NextTaskIs("close")
    /\ posted' = Tail(posted)
    /\ IF CloseIsDone
       THEN UNCHANGED <<closed, callbacks, outbox, wrRes, rdRes, tm>>
       ELSE /\ closed' = TRUE
            /\ tm' = CancelTimer(CancelTimer(tm, "hbTimeout"), "hbSend")
            /\ outbox' = CloseOutbox(outbox)
            /\ wrRes' = Aborted(wrRes)
            /\ rdRes' = Aborted(rdRes)
            /\ callbacks' = callbacks + 1
    /\ UNCHANGED <<started, stopCalled, sendVars, wrFrame, wire, rdOp, received, delivered,
                   mqClosed, logged>>

\* The handler of the header read, success: the read timer goes, the heartbeat
\* watch is renewed, the header is parsed and the body read begins.  Reading no
\* bytes from an open socket completes at once.
HeaderRead ==
    /\ rdOp = "header" /\ rdRes = "ok"
    /\ LET t == CancelTimer(tm, "read")
           renewed == IF WatchesHeartbeat THEN ResetTimer(t, "hbTimeout") ELSE t
       IN  IF CurrentFrame = "bad"
           THEN /\ tm' = renewed
                /\ rdOp' = "none" /\ rdRes' = "none"
                /\ PostClose
           ELSE /\ tm' = StartTimer(renewed, "body")
                /\ rdOp' = "body"
                /\ rdRes' = IF SocketOpen /\ CurrentFrame = "beat" THEN "ok"
                            ELSE Transfer
                /\ UNCHANGED posted
    /\ UNCHANGED <<closeVars, stopCalled, sendVars, writeVars, received, delivered,
                   mqClosed, logged>>

\* A message that is no heartbeat goes to messageQueue_, which refuses it once
\* it is closed.  The faulty PushesAll forgets to look at isHeartBeat.
PushesAll == ~mqClosed
Pushes == CurrentFrame = "data" /\ ~mqClosed

\* The handler of the body read, success: the message is handed over and the
\* next read begins.
BodyRead ==
    /\ rdOp = "body" /\ rdRes = "ok"
    /\ DoRead(CancelTimer(tm, "body"))
    /\ delivered' = IF Pushes THEN Append(delivered, Len(received)) ELSE delivered
    /\ UNCHANGED <<closeVars, stopCalled, posted, sendVars, writeVars, received, mqClosed,
                   logged>>

Failed(res) == res \in {"aborted", "eof", "error"}

\* The error branches: silent when closed_, else log and close().  Of the
\* faulty variants one logs the error code in place of the operation, the
\* other closes only after a timeout.
ReportResult(res, what) ==
    IF closed THEN UNCHANGED <<posted, logged>>
    ELSE /\ PostClose
         /\ logged' = IF res = "aborted" THEN logged \cup {res} ELSE logged
ReportWithoutClose(res, what) ==
    IF closed \/ res # "aborted" THEN UNCHANGED <<posted, logged>>
    ELSE /\ PostClose
         /\ logged' = logged \cup {what}
ReportFailure(res, what) ==
    IF closed THEN UNCHANGED <<posted, logged>>
    ELSE /\ PostClose
         /\ logged' = IF res = "aborted" THEN logged \cup {what} ELSE logged

ReadFailed ==
    /\ rdOp # "none" /\ Failed(rdRes)
    /\ tm' = CancelTimer(tm, IF rdOp = "header" THEN "read" ELSE "body")
    /\ ReportFailure(rdRes, rdOp)
    /\ rdOp' = "none" /\ rdRes' = "none"
    /\ UNCHANGED <<closeVars, stopCalled, sendVars, writeVars, received, delivered,
                   mqClosed>>

\* The handler of the write, success: the next frame of the outbox, if any.
FrameWritten ==
    /\ wrRes = "ok"
    /\ outbox' = PopAndNext(outbox)
    /\ IF HasFront(outbox') THEN DoSend(CancelTimer(tm, "send"), Head(outbox'.queue))
       ELSE /\ tm' = CancelTimer(tm, "send")
            /\ wrRes' = "none"
            /\ UNCHANGED wrFrame
    /\ UNCHANGED <<closeVars, stopCalled, posted, sendVars, wire, readVars, logged>>

\* The handler of the write, failure: the frame stays in the outbox and the
\* write role is never given up.  The faulty PopAfterFailure treats it as done.
PopAfterFailure(ob) == PopAndNext(ob)
AfterFailedWrite(ob) == ob

WriteFailed ==
    /\ Failed(wrRes)
    /\ tm' = CancelTimer(tm, "send")
    /\ ReportFailure(wrRes, "send")
    /\ wrRes' = "none"
    /\ outbox' = AfterFailedWrite(outbox)
    /\ UNCHANGED <<closeVars, stopCalled, sendVars, wrFrame, wire, readVars>>

\* The callback of the read, body and send timers cancels everything that is
\* pending on the socket, not only the operation the timer was started for.
OpTimeout(e) ==
    /\ e \in tm.fired /\ e.timer \in OpTimers
    /\ rdRes' = Aborted(rdRes)
    /\ wrRes' = Aborted(wrRes)
    /\ tm' = FinishExpiry(tm, e)
    /\ UNCHANGED <<closeVars, stopCalled, posted, sendVars, outbox, wrFrame, wire, rdOp,
                   received, delivered, mqClosed, logged>>

\* The heartbeat watch has expired.  The faulty OnlyLogs forgets close().
OnlyLogs(e) ==
    /\ e \in tm.fired /\ e.timer = "hbTimeout"
    /\ logged' = logged \cup {"hbTimeout"}
    /\ tm' = FinishExpiry(tm, e)
    /\ UNCHANGED <<closeVars, stopCalled, posted, sendVars, writeVars, readVars>>
HeartbeatTimeout(e) ==
    /\ e \in tm.fired /\ e.timer = "hbTimeout"
    /\ logged' = logged \cup {"hbTimeout"}
    /\ PostClose
    /\ tm' = FinishExpiry(tm, e)
    /\ UNCHANGED <<closeVars, stopCalled, sendVars, writeVars, readVars>>

\* The heartbeat loop stops when the connection is closed, else it sends a
\* heartbeat and re-arms its timer.
HeartbeatSend(e) ==
    /\ e \in tm.fired /\ e.timer = "hbSend"
    /\ IF closed
       THEN /\ tm' = FinishExpiry(tm, e)
            /\ UNCHANGED <<sends, posted>>
       ELSE /\ sends' = sends + 1
            /\ posted' = Append(posted, SendTask(sends'))
            /\ tm' = ResetTimer(FinishExpiry(tm, e), "hbSend")
    /\ UNCHANGED <<closeVars, stopCalled, beats, writeVars, readVars, logged>>

-----------------------------------------------------------------------------
User == SendCall \/ CloseCall \/ CloseMessageQueue

Kernel ==
    \/ \E kind \in FrameKinds : HeaderArrives(kind)
    \/ BodyArrives
    \/ \E res \in {"eof", "error"} : ReadFails(res)
    \/ WriteCompletes
    \/ WriteFails
    \/ PartRead
    \/ PartWritten

Clock == \E k \in TimerKinds : Expire(k)

RunTask == RunSend \/ RunClose
RunRead == ReadOn \/ HeaderRead \/ BodyRead \/ ReadFailed
RunWrite == WriteOn \/ FrameWritten \/ WriteFailed
RunExpiry(e) == OpTimeout(e) \/ HeartbeatTimeout(e) \/ HeartbeatSend(e)

IOThread ==
    Start \/ RunTask \/ RunRead \/ RunWrite \/ \E e \in tm.fired : RunExpiry(e)

Next == User \/ Kernel \/ Clock \/ IOThread

Spec == Init /\ [][Next]_vars

\* The I/O thread runs every queued handler sooner or later, since no handler
\* blocks.  Nothing is assumed of the users or of the network.
IOFairness ==
    /\ WF_vars(Start) /\ WF_vars(RunTask) /\ WF_vars(RunRead) /\ WF_vars(RunWrite)
    /\ \A e \in Expiry : WF_vars(RunExpiry(e))

IOSpec == Spec /\ IOFairness

\* A timer of one of the kinds expires if it is left alone.
ClockRuns(kinds) == \A k \in kinds : WF_vars(Expire(k))

FairSpec == IOSpec /\ ClockRuns(TimerKinds)

-----------------------------------------------------------------------------
(* Properties.                                                             *)

\* Every variable has its type.
TypeOK ==
    /\ started \in BOOLEAN /\ closed \in BOOLEAN /\ stopCalled \in BOOLEAN
    /\ posted \in Seq(Task)
    /\ sends \in Nat /\ beats \in Nat
    /\ outbox \in OutboxState(Nat)
    /\ wrRes \in Results /\ wrFrame \in Nat
    /\ wire \in Seq(Nat)
    /\ rdOp \in ReadOps /\ rdRes \in Results
    /\ received \in Seq(FrameKinds)
    /\ delivered \in Seq(Nat)
    /\ mqClosed \in BOOLEAN
    /\ tm \in TimerState
    /\ logged \in SUBSET LogKinds
    /\ callbacks \in Nat

ClosePosted == \E i \in DOMAIN posted : posted[i] = CloseTask

\* The outbox has a writer exactly while it holds frames, and the frame being
\* written is the one at its front: popAndNext never pops an empty queue and
\* always pops the frame whose write just ended, whatever order sends, write
\* completions, timeouts and close run in.
OutboxWriter ==
    /\ outbox.isWriting <=> HasFront(outbox)
    /\ wrRes # "none" => HasFront(outbox) /\ wrFrame = Head(outbox.queue)

\* The peer gets the frames in the order of the send() calls, each once and
\* none left out, however many threads send and however the connection ends.
WireInOrder == \A i \in DOMAIN wire : wire[i] = i

\* A write that failed may have put part of a frame on the wire.  No frame
\* follows it: the peer would read the rest of the first frame out of it.
WriterDead ==
    \/ Failed(wrRes)
    \/ outbox.isWriting /\ wrRes = "none"
NothingAfterFailedWrite == [][WriterDead => WriterDead' /\ wire' = wire]_vars

\* receive() gets the messages of the peer in the order they arrived, each
\* once, none left out while the queue is open, and never a heartbeat.
DeliveredInOrder ==
    /\ \A i \in DOMAIN delivered :
          /\ delivered[i] \in 1..Len(received)
          /\ Frame(delivered[i]) = "data"
          /\ \A j \in 1..(i - 1) : delivered[j] < delivered[i]
    /\ ~mqClosed =>
          \A n \in 1..(Len(received) - 1) :
             Frame(n) = "data" => \E i \in DOMAIN delivered : delivered[i] = n

\* timerMap_ keeps no timer whose operation is over: such a timer would keep
\* io_context::run, and so stop(), from returning until it expires.
TimersOwned ==
    /\ tm.map["read"] # "absent" => rdOp = "header"
    /\ tm.map["body"] # "absent" => rdOp = "body"
    /\ tm.map["send"] # "absent" => wrRes # "none"
    /\ \A k \in HeartbeatTimers : tm.map[k] # "absent" => started /\ ~closed

\* An operation the kernel may never finish, if it takes one transfer, is
\* watched by its own timer, or the callback that will abort it is queued, in
\* whatever order reads, writes and the handlers of earlier timers end.
Watches(t, k) ==
    k \in Timeouts => IsWaiting(t, k) \/ [timer |-> k, via |-> "start"] \in t.fired
InKernel(op) ==
    op \notin Chunked /\ IF op = "send" THEN wrRes = "pending"
                         ELSE rdOp = op /\ rdRes = "pending"
PendingIsWatched ==
    /\ InKernel("header") => Watches(tm, "read")
    /\ InKernel("body") => Watches(tm, "body")
    /\ InKernel("send") => Watches(tm, "send")

\* The heartbeat loop and the watch for the peer's heartbeats last as long as
\* the connection: each has a timer that runs or a handler that is queued, or
\* the close that ends them is posted.  Handlers queued before resetTimer do
\* not end them.
Queued(k) == \E e \in tm.fired : e.timer = k
HeartbeatsGoOn ==
    started /\ ~closed =>
        /\ "hbSend" \in Timeouts => IsWaiting(tm, "hbSend") \/ Queued("hbSend")
        /\ "hbTimeout" \in Timeouts =>
              IsWaiting(tm, "hbTimeout") \/ Queued("hbTimeout") \/ ClosePosted

\* A connection whose read loop or write loop has ended is closed or about to
\* be: none is left half alive in the connection map.
NoZombie ==
    (started /\ rdOp = "none") \/ (outbox.isWriting /\ wrRes = "none")
        => closed \/ ClosePosted

\* The disconnect callback runs once per connection, however many of the read
\* loop, the write loop, the heartbeat watch and the owner call close().
CallbackOnce == callbacks = IF closed THEN 1 ELSE 0

\* Once close() has been called everything the connection has in the io_context
\* goes away, so that the join in stop() returns ("Must close so the io_context
\* runs out of work and join returns", server.h:99).
Released ==
    /\ closed /\ posted = << >>
    /\ rdOp = "none" /\ wrRes = "none" /\ tm = NoTimers
CloseCompletes == ClosePosted ~> Released

\* A closed connection waits for nobody, neither for the peer nor for the clock:
\* as long as it holds anything, the I/O thread has a handler of it to run.
HandlerQueued ==
    \/ posted # << >> \/ tm.fired # {}
    \/ rdRes \notin {"none", "pending"} \/ wrRes \notin {"none", "pending"}
ClosedWaitsForNobody ==
    closed => rdRes # "pending" /\ wrRes # "pending" /\ (HandlerQueued \/ Released)

\* And it runs out of handlers: whatever happens to a closed connection but new
\* calls of its users leaves fewer results to handle, or else fewer armed timers,
\* or else fewer expired ones, or else fewer posted tasks, though a handler may
\* start an operation, arm a timer or post a close() again.
Armed == {k \in TimerKinds : IsWaiting(tm, k)}
StepsLeft(res) ==
    IF res = "none" THEN 0 ELSE IF res \in {"ok", "part"} THEN 2 ELSE 1
Remaining ==
    <<StepsLeft(rdRes) + StepsLeft(wrRes), Cardinality(Armed), Cardinality(tm.fired),
      Len(posted)>>
Below(r, s) == \E i \in 1..4 : r[i] < s[i] /\ \A j \in 1..(i - 1) : r[j] = s[j]
ClosedWindsDown == [][closed /\ ~User => Below(Remaining', Remaining)]_vars

\* To its owner the connection is a channel: Channel says what that means.
Idle == rdOp = "none" /\ wrRes = "none" /\ tm = NoTimers
Phase ==
    IF closed THEN IF Idle THEN "released" ELSE "closed"
    ELSE IF ClosePosted THEN "closing" ELSE "open"
Ch == INSTANCE Channel
          WITH Kinds <- FrameKinds, phase <- Phase, asked <- sends, sent <- wire,
               broken <- WriterDead, heard <- received, handed <- delivered,
               deaf <- mqClosed, told <- callbacks

\* Every interleaving of sends, reads, writes, timers and closes does what the
\* channel allows: nothing is heard or goes out after the close, nothing goes
\* out after a failed write, a message is handed over before the next frame is
\* heard, and a connection that holds nothing never holds anything again.
IsChannel == Ch!Spec

\* A peer that goes silent in front of a frame or inside one does not hold the
\* read loop for ever, if a read takes one transfer.  The read and body timers see
\* to that: no other timer need ever expire.
ReadEnds ==
    ClockRuns({"read", "body"})
        => \A op \in {"header", "body"} : (rdOp = op) ~> (rdOp # op)

\* A frame that entered the outbox reaches the wire or the connection closes, if a
\* write takes one transfer.  The send timer alone sees to that: the others need
\* not expire, as when a peer that no longer reads goes on sending.
QueuedSentOrClosed ==
    ClockRuns({"send"})
        => \A n \in 1..(MaxSends + MaxBeats) :
              (\E i \in DOMAIN outbox.queue : outbox.queue[i] = n)
                  ~> (closed \/ \E i \in DOMAIN wire : wire[i] = n)

\* "READ_BODY_TIMEOUT_MS: max wait for the rest of a message once its header
\* arrived" and "SEND_TIMEOUT_MS: max time to finish sending one message"
\* (docs/html/namespaceacsf.html:430-431).  With both on, a body read and a write
\* that are outstanding together are not outstanding for ever: one of them ends,
\* also when body and message go in parts, of which there are finitely many.
\* Either sentence promises as much.
FinitelyManyParts == <>[][~PartRead /\ ~PartWritten]_vars
TransfersEnd ==
    {"body", "send"} \subseteq Timeouts /\ FinitelyManyParts =>
        ((rdOp = "body" /\ wrRes # "none") ~> (rdOp # "body" \/ wrRes = "none"))

\* "New value in milliseconds. 0 turns that timeout off."
\* (docs/html/namespaceacsf.html:397).  A body read is reported as timed out
\* only if the body timeout is on.
BodyTimeoutOff == "body" \notin Timeouts => "body" \notin logged
=============================================================================
