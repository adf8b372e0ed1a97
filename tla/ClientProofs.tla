---------------------------- MODULE ClientProofs ----------------------------
(***************************************************************************)
(* Theorems about Client and ClientLog, for any set of threads, any number *)
(* of log entries and a ring of any size.                                  *)
(***************************************************************************)
EXTENDS ClientLog, SequenceTheorems, TLAPS

\* The first stop() takes the guard away and stops the io_context; a start()
\* after it is late.
OnlyStopUnguards ==
    /\ ~isClosed => workGuard /\ ~stopped /\ NobodyStops
    /\ startedLate => isClosed /\ NobodyStops

\* What a thread inside stop() has done so far.
StopProgress ==
    \A u \in Threads :
        /\ user[u] \in {"closeQueue", "closeCon", "join"} => ~workGuard
        /\ user[u] \in {"closeCon", "join"} => mqClosed
        /\ user[u] = "join" => con # "open"

\* The I/O thread and the connection come and go together, but for a late start.
ThreadHasConnection ==
    /\ con = "none" => io = "none"
    /\ ~startedLate =>
         /\ io = "none" /\ (isClosed => ~NobodyStops) => con = "none"
         /\ io = "starting" => ~stopped
         /\ io = "returned" => con = "released"

ClientInv ==
    /\ TypeOK
    /\ OneStopper
    /\ OnlyStopUnguards
    /\ StopProgress
    /\ ThreadHasConnection
    /\ LossHandled
    /\ StoppedClean

USE DEF Places, ConStates, IOPlaces

\* The invariant holds before anything has been called.
LEMMA InvInit == Init => ClientInv
  BY DEF Init, ClientInv, TypeOK, OneStopper, OnlyStopUnguards, StopProgress,
         ThreadHasConnection, LossHandled, StoppedClean, NobodyStops

\* Every step of stop() but the join leaves the thread inside it.
LEMMA StopStep ==
  ASSUME ClientInv, NEW u \in Threads,
         ResetGuard(u) \/ CloseQueue(u) \/ CloseCon(u)
  PROVE  ClientInv'
<1> USE DEF ClientInv, TypeOK
<1>1. user[u] # "idle" /\ user'[u] # "idle" /\ ~NobodyStops /\ ~NobodyStops'
  BY DEF ResetGuard, CloseQueue, CloseCon, NobodyStops
<1>2. TypeOK'
  BY DEF ResetGuard, CloseQueue, CloseCon, GuardReset
<1>3. \A v \in Threads : v # u => user'[v] = user[v] /\ user[v] = "idle"
  BY <1>1 DEF OneStopper, ResetGuard, CloseQueue, CloseCon
<1>4. OneStopper' /\ OnlyStopUnguards' /\ StoppedClean'
  BY <1>1, <1>2, <1>3
  DEF OneStopper, OnlyStopUnguards, StoppedClean, ResetGuard, CloseQueue, CloseCon
<1>5. StopProgress'
  BY <1>1, <1>2, <1>3 DEF StopProgress, ResetGuard, GuardReset, CloseQueue, CloseCon
<1>6. ThreadHasConnection'
  BY <1>1, <1>2 DEF ThreadHasConnection, ResetGuard, CloseQueue, CloseCon
<1>7. LossHandled'
  <2>1. user[u] = "closeCon" => mqClosed
    BY DEF StopProgress
  <2> QED BY <2>1 DEF LossHandled, ResetGuard, CloseQueue, CloseCon
<1>. QED BY <1>2, <1>4, <1>5, <1>6, <1>7

\* The join ends the only stop() there is, and leaves nothing behind.
LEMMA JoinStep ==
  ASSUME ClientInv, NEW u \in Threads, Join(u)
  PROVE  ClientInv'
<1> USE DEF ClientInv, TypeOK, Join
<1>1. user[u] = "join" /\ ~NobodyStops
  BY DEF NobodyStops
<1>2. \A v \in Threads : user'[v] = "idle"
  BY <1>1 DEF OneStopper
<1>3. isClosed /\ ~startedLate /\ mqClosed /\ con # "open"
  BY <1>1 DEF OnlyStopUnguards, StopProgress
<1>4. con \in {"none", "released"}
  BY <1>1, <1>3 DEF ThreadHasConnection
<1>5. TypeOK'
  OBVIOUS
<1>6. OneStopper' /\ OnlyStopUnguards' /\ StopProgress' /\ StoppedClean'
  BY <1>2, <1>3, <1>4
  DEF OneStopper, OnlyStopUnguards, StopProgress, StoppedClean, NobodyStops
<1>7. ThreadHasConnection'
  BY <1>2, <1>3 DEF ThreadHasConnection, NobodyStops
<1>8. LossHandled'
  BY <1>3 DEF LossHandled
<1>. QED BY <1>5, <1>6, <1>7, <1>8

\* The handlers of the I/O thread do not touch the threads in stop().
LEMMA HandlerStep ==
  ASSUME ClientInv,
         EnterRun \/ ConnectionFails \/ CloseRuns \/ ConnectionReleased \/ RunReturns
  PROVE  ClientInv'
<1> USE DEF ClientInv, TypeOK, EnterRun, ConnectionFails, CloseRuns, ConnectionReleased,
            RunReturns, OutOfWork, QueueAfterCallback, userVars
<1>1. TypeOK'
  OBVIOUS
<1>2. NobodyStops' = NobodyStops /\ OneStopper'
  BY DEF NobodyStops, OneStopper
<1>3. OnlyStopUnguards'
  BY <1>2 DEF OnlyStopUnguards
<1>4. StopProgress'
  BY DEF StopProgress
<1>5. ThreadHasConnection'
  BY <1>2 DEF ThreadHasConnection
<1>6. StoppedClean'
  BY <1>2 DEF StoppedClean
<1>7. LossHandled'
  BY DEF LossHandled
<1>. QED BY <1>1, <1>2, <1>3, <1>4, <1>5, <1>6, <1>7

\* Every step keeps the invariant.
LEMMA InvStep == ClientInv /\ [Next]_vars => ClientInv'
<1> SUFFICES ASSUME ClientInv, [Next]_vars PROVE ClientInv'
  OBVIOUS
<1>1. CASE Start
  <2> USE DEF ClientInv, TypeOK, Start, userVars
  <2>1. TypeOK'
    BY <1>1
  <2>2. NobodyStops' /\ OneStopper' /\ StopProgress'
    BY <1>1 DEF NobodyStops, OneStopper, StopProgress
  <2>3. OnlyStopUnguards' /\ ThreadHasConnection' /\ LossHandled' /\ StoppedClean'
    BY <1>1, <2>2 DEF OnlyStopUnguards, ThreadHasConnection, LossHandled, StoppedClean
  <2>. QED BY <2>1, <2>2, <2>3
<1>2. ASSUME NEW u \in Threads, Stop(u) PROVE ClientInv'
  <2> USE DEF ClientInv, TypeOK, Stop, FirstToStop
  <2>1. CASE isClosed
    BY <1>2, <2>1 DEF OneStopper, OnlyStopUnguards, StopProgress, ThreadHasConnection,
                      LossHandled, StoppedClean, NobodyStops
  <2>2. CASE ~isClosed
    <3>1. NobodyStops /\ user' = [user EXCEPT ![u] = "resetGuard"] /\ ~startedLate
      BY <1>2, <2>2 DEF OnlyStopUnguards
    <3>2. \A v \in Threads : user'[v] = IF v = u THEN "resetGuard" ELSE "idle"
      BY <3>1 DEF NobodyStops
    <3>3. TypeOK' /\ OneStopper' /\ StopProgress' /\ ~NobodyStops'
      BY <1>2, <3>2, <3>1 DEF OneStopper, StopProgress, NobodyStops
    <3>4. OnlyStopUnguards' /\ ThreadHasConnection' /\ LossHandled' /\ StoppedClean'
      BY <1>2, <2>2, <3>1, <3>3
         DEF OnlyStopUnguards, ThreadHasConnection, LossHandled, StoppedClean
    <3>. QED BY <3>3, <3>4
  <2>. QED BY <2>1, <2>2
<1>3. ASSUME NEW u \in Threads, StopSteps(u) PROVE ClientInv'
  BY <1>3, StopStep, JoinStep DEF StopSteps
<1>4. CASE IOThread \/ ConnectionFails
  BY <1>4, HandlerStep DEF IOThread
<1>5. CASE UNCHANGED vars
  BY <1>5 DEF vars, userVars, ClientInv, TypeOK, OneStopper, OnlyStopUnguards, StopProgress,
              ThreadHasConnection, LossHandled, StoppedClean, NobodyStops
<1>. QED BY <1>1, <1>2, <1>3, <1>4, <1>5 DEF Next

\* The invariant always holds.
LEMMA InvHolds == Spec => []ClientInv
  BY InvInit, InvStep, PTL DEF Spec

\* Every variable keeps its type.
THEOREM TypeCorrect == Spec => []TypeOK
<1>1. ClientInv => TypeOK
  BY DEF ClientInv
<1>. QED BY <1>1, InvHolds, PTL

\* However many threads call stop(), one of them carries it out.
THEOREM OneThreadStops == Spec => []OneStopper
<1>1. ClientInv => OneStopper
  BY DEF ClientInv
<1>. QED BY <1>1, InvHolds, PTL

\* Once stop() has been carried out the connection and the I/O thread are gone
\* and the queue is closed.
THEOREM StopLeavesNothing == Spec => []StoppedClean
<1>1. ClientInv => StoppedClean
  BY DEF ClientInv
<1>. QED BY <1>1, InvHolds, PTL

\* While a thread is in the join, nothing but the I/O thread's own handlers is
\* left to keep run() from returning: what StopReturns rests on but for the
\* scheduling.
THEOREM NothingHoldsJoin == Spec => []JoinNeedsNobody
<1>1. ClientInv => JoinNeedsNobody
  BY DEF ClientInv, TypeOK, StopProgress, ThreadHasConnection, JoinNeedsNobody
<1>. QED BY <1>1, InvHolds, PTL

\* Whoever loses or closes the connection, the queue is closed or the I/O thread
\* is in run() with the close handler still to come: what LossFreesReceivers
\* rests on but for the scheduling.
THEOREM LossNeverMissed == Spec => []LossHandled
<1>1. ClientInv => LossHandled
  BY DEF ClientInv
<1>. QED BY <1>1, InvHolds, PTL

-----------------------------------------------------------------------------
(* One thread.                                                             *)

\* With one thread to call stop(), a call that has returned leaves no other in it.
StopsAlone == stopCalls # {} => isClosed /\ NobodyStops

\* The documented promise of stop(), that the I/O thread is joined when any call of
\* it has returned, holds of a program that calls it from one thread; the run
\* client_two_stops shows that it fails with two.
THEOREM StopJoinsOneCaller ==
    ASSUME \A u, v \in Threads : u = v
    PROVE  Spec => []StopJoins
<1>1. Init => StopsAlone
  BY DEF Init, StopsAlone
<1>2. ClientInv /\ StopsAlone /\ [Next]_vars => StopsAlone'
  <2> SUFFICES ASSUME ClientInv, StopsAlone, [Next]_vars PROVE StopsAlone'
    OBVIOUS
  <2> USE DEF StopsAlone, NobodyStops
  <2>1. CASE Start
    BY <2>1 DEF Start, userVars
  <2>2. ASSUME NEW u \in Threads, Stop(u) PROVE StopsAlone'
    BY <2>2 DEF Stop, FirstToStop, ClientInv, TypeOK, OnlyStopUnguards
  <2>3. ASSUME NEW u \in Threads, ResetGuard(u) \/ CloseQueue(u) \/ CloseCon(u) PROVE StopsAlone'
    BY <2>3 DEF ResetGuard, CloseQueue, CloseCon
  <2>4. ASSUME NEW u \in Threads, Join(u) PROVE StopsAlone'
    <3>1. isClosed
      BY <2>4 DEF Join, ClientInv, OnlyStopUnguards
    <3> QED BY <2>4, <3>1 DEF Join, ClientInv, TypeOK
  <2>5. CASE IOThread \/ ConnectionFails \/ UNCHANGED vars
    BY <2>5 DEF IOThread, EnterRun, CloseRuns, ConnectionReleased, RunReturns, ConnectionFails,
                vars, userVars
  <2> QED BY <2>1, <2>2, <2>3, <2>4, <2>5 DEF Next, StopSteps
<1>3. ClientInv /\ StopsAlone => StopJoins
  BY DEF ClientInv, StoppedClean, StopsAlone, StopJoins
<1>. QED BY <1>1, <1>2, <1>3, InvHolds, PTL DEF Spec

-----------------------------------------------------------------------------
(* The client with its logger.                                             *)

\* A step of the whole is a step of the client or leaves it alone.
LEMMA ClientSteps == [LogNext]_logVars => [Next]_vars
<1> SUFFICES ASSUME [LogNext]_logVars PROVE [Next]_vars
  OBVIOUS
<1>1. CASE (Start \/ \E u \in Threads : Stop(u)) /\ Silent
  BY <1>1 DEF Next
<1>2. ASSUME NEW u \in Threads, LogStopSteps(u) PROVE Next
  BY <1>2 DEF LogStopSteps, JoinAndFlush, Next, StopSteps
<1>3. CASE LogIOThread
  BY <1>3 DEF LogIOThread, RunLog, LastHandlerDone, Next, IOThread
<1>4. CASE StartFails \/ SendRefused \/ ReportLoss \/ ReportAgain
  BY <1>4 DEF StartFails, SendRefused, ReportLoss, ReportAgain, Next
<1>5. CASE UNCHANGED logVars
  BY <1>5 DEF logVars
<1> QED BY <1>1, <1>2, <1>3, <1>4, <1>5 DEF LogNext

\* What is proved of the client holds of the client with its logger.
THEOREM ClientInside == LogSpec => Spec
<1>1. LogInit => Init
  BY DEF LogInit
<1> QED BY <1>1, ClientSteps, PTL DEF LogSpec, Spec

\* What is held of a log, from the oldest entry on, and how much of it has been
\* handled.
Entries(l) == l.written \o l.buffer \o l.posted
Handled(l) == Len(l.written) + Len(l.buffer)

LogTyped == logger \in LoggerState /\ logged \in Nat /\ owed \in 0..logged

\* Entries are in a file or in the ring before run() returns.
OwedHandled == logger.isOpen => owed <= Handled(logger)

LogInv == LogTyped /\ LogComplete /\ OwedHandled /\ StopWritesLog

LEMMA StateFields ==
    ASSUME NEW l \in LoggerState
    PROVE  /\ l.posted \in Seq(Nat) /\ l.buffer \in Seq(Nat) /\ l.written \in Seq(Nat)
           /\ l.isOpen \in BOOLEAN
BY DEF LoggerState

\* unsafeFlush() keeps what is held and handled, and empties the ring if it can.
LEMMA FlushKeeps ==
    ASSUME NEW l \in LoggerState
    PROVE  /\ Flush(l) \in LoggerState /\ Flush(l).isOpen = l.isOpen
           /\ Flush(l).posted = l.posted
           /\ l.isOpen => /\ Flush(l).written \o Flush(l).buffer = l.written \o l.buffer
                          /\ Handled(Flush(l)) = Handled(l)
                          /\ Flush(l).buffer = << >>
           /\ Len(Flush(l).written) >= Len(l.written)
<1>1. l.posted \in Seq(Nat) /\ l.buffer \in Seq(Nat) /\ l.written \in Seq(Nat)
      /\ l.isOpen \in BOOLEAN
  BY StateFields
<1>2. CASE ~l.isOpen
  <2>1. Flush(l) = l /\ Len(l.written) \in Nat
    BY <1>1, <1>2 DEF Flush
  <2> QED BY <1>2, <2>1
<1>3. CASE l.isOpen
  <2>a. PICK u : u = l.written
    OBVIOUS
  <2>b. PICK v : v = l.buffer
    OBVIOUS
  <2>0. PICK w : w = u \o v
    OBVIOUS
  <2>1. u \in Seq(Nat) /\ v \in Seq(Nat) /\ w \in Seq(Nat)
    BY <1>1, <2>a, <2>b, <2>0, ConcatProperties
  <2>c. Len(w) = Len(u) + Len(v) /\ Len(u) \in Nat /\ Len(v) \in Nat
    BY ONLY <2>0, <2>1, ConcatProperties, LenProperties
  <2>2. w \o << >> = w
    BY <2>1, ConcatEmptySeq
  <2>3. Flush(l) = [l EXCEPT !.written = w, !.buffer = << >>]
    BY <1>3, <2>a, <2>b, <2>0 DEF Flush
  <2>4. /\ Flush(l) \in LoggerState /\ Flush(l).isOpen = l.isOpen
        /\ Flush(l).posted = l.posted
        /\ Flush(l).written = w /\ Flush(l).buffer = << >>
    <3>1. << >> \in Seq(Nat)
      BY EmptySeq
    <3>2. l = [posted |-> l.posted, buffer |-> l.buffer, written |-> l.written,
               isOpen |-> l.isOpen]
      BY DEF LoggerState
    <3>3. Flush(l) = [posted |-> l.posted, buffer |-> << >>, written |-> w,
                      isOpen |-> l.isOpen]
      BY <2>3, <3>2
    <3> QED BY <1>1, <2>1, <3>1, <3>3 DEF LoggerState
  <2>5. Handled(Flush(l)) = Len(w) + Len(<< >>) /\ Len(Flush(l).written) = Len(w)
    BY <2>4 DEF Handled
  <2>d. Handled(l) = Len(u) + Len(v) /\ Len(l.written) = Len(u)
    BY <2>a, <2>b DEF Handled
  <2>e. Len(w) + Len(<< >>) = Len(u) + Len(v) /\ Len(w) >= Len(u)
    BY ONLY <2>1, <2>c, EmptySeq
  <2>6. Handled(Flush(l)) = Handled(l) /\ Len(Flush(l).written) >= Len(l.written)
    BY <2>5, <2>d, <2>e, Zenon
  <2>7. Flush(l).written \o Flush(l).buffer = l.written \o l.buffer
    BY <2>a, <2>b, <2>0, <2>2, <2>4
  <2> QED BY <2>4, <2>6, <2>7
<1> QED BY <1>2, <1>3, <1>1

\* Concatenation is associative, stated so that the provers need not look at it.
Joined(a, b, ab) == ab = a \o b
LEMMA Assoc ==
    ASSUME NEW a \in Seq(Nat), NEW b \in Seq(Nat), NEW c \in Seq(Nat),
           NEW ab, Joined(a, b, ab), NEW bc, Joined(b, c, bc),
           NEW x, Joined(a, bc, x), NEW y, Joined(ab, c, y)
    PROVE  x = y
<1>1. ab = a \o b /\ bc = b \o c /\ x = a \o bc /\ y = ab \o c
  BY DEF Joined
<1>2. (a \o b) \o c = a \o (b \o c)
  OBVIOUS
<1> QED BY ONLY <1>1, <1>2, Zenon

LEMMA HeadAndTail ==
    ASSUME NEW S, NEW s \in Seq(S), s # << >>
    PROVE  s = <<Head(s)>> \o Tail(s)
OBVIOUS

\* A handler of the logger keeps what is held, in its order, and makes no entry
\* unhandled again.
LEMMA RunPostedKeeps ==
    ASSUME NEW l \in LoggerState, l.posted # << >>
    PROVE  /\ RunPosted(l) \in LoggerState /\ RunPosted(l).isOpen = l.isOpen
           /\ l.isOpen => /\ Entries(RunPosted(l)) = Entries(l)
                          /\ Handled(RunPosted(l)) >= Handled(l)
<1> DEFINE h == Head(l.posted)
           q == Tail(l.posted)
<1>1. l.posted \in Seq(Nat) /\ l.buffer \in Seq(Nat) /\ l.written \in Seq(Nat)
      /\ l.isOpen \in BOOLEAN
  BY StateFields
<1>2. h \in Nat /\ q \in Seq(Nat) /\ l.posted = <<h>> \o q
  BY <1>1, HeadTailProperties, HeadAndTail
<1> HIDE DEF h, q
<1>3. PICK r : r = [l EXCEPT !.posted = q]
  OBVIOUS
<1>4. r \in LoggerState /\ r.isOpen = l.isOpen /\ r.posted = q
      /\ r.written = l.written /\ r.buffer = l.buffer
  BY <1>2, <1>3 DEF LoggerState
<1>5. PICK f : f = MakeRoom(r)
  OBVIOUS
<1>6. /\ f \in LoggerState /\ f.isOpen = l.isOpen /\ f.posted = q
      /\ l.isOpen => /\ f.written \o f.buffer = l.written \o l.buffer
                     /\ Handled(f) = Handled(l)
                     /\ Len(f.buffer) < LogBufferSize
  <2>1. CASE Len(r.buffer) < LogBufferSize
    <3>1. f = r
      BY <1>5, <2>1 DEF MakeRoom
    <3> QED BY <1>4, <2>1, <3>1 DEF Handled
  <2>2. CASE ~(Len(r.buffer) < LogBufferSize)
    <3>1. f = Flush(r)
      BY <1>5, <2>2 DEF MakeRoom
    <3>2. l.isOpen => Len(f.buffer) < LogBufferSize
      <4>1. l.isOpen => f.buffer = << >>
        BY <1>4, <3>1, FlushKeeps
      <4>2. Len(<< >>) = 0 /\ 0 < LogBufferSize
        BY EmptySeq, LoggerAssumption DEF LoggerAssumption
      <4> QED BY <4>1, <4>2
    <3>3. Handled(r) = Handled(l)
      BY <1>4 DEF Handled
    <3> QED BY <1>4, <3>1, <3>2, <3>3, FlushKeeps
  <2> QED BY <2>1, <2>2
<1>7. RunPosted(l) = IntoBuffer(f, h)
  BY <1>3, <1>5 DEF RunPosted, h, q
<1>8. f.posted \in Seq(Nat) /\ f.buffer \in Seq(Nat) /\ f.written \in Seq(Nat)
  BY <1>6, StateFields
<1>9. CASE ~(Len(f.buffer) < LogBufferSize)
  <2>1. RunPosted(l) = f /\ ~l.isOpen
    BY <1>6, <1>7, <1>9 DEF IntoBuffer
  <2> QED BY <1>6, <2>1
<1>10. CASE Len(f.buffer) < LogBufferSize
  <2>1. PICK b : b = Append(f.buffer, h)
    OBVIOUS
  <2>2. b \in Seq(Nat) /\ Len(b) = Len(f.buffer) + 1 /\ b = f.buffer \o <<h>>
    <3>1. b = f.buffer \o <<h>>
      BY ONLY <1>2, <1>8, <2>1, AppendIsConcat, Zenon
    <3> QED BY <1>2, <1>8, <2>1, <3>1, AppendProperties
  <2>3. PICK g : g = [f EXCEPT !.buffer = b]
    OBVIOUS
  <2>4. RunPosted(l) = g
    BY <1>7, <1>10, <2>1, <2>3 DEF IntoBuffer
  <2>5. g \in LoggerState /\ g.isOpen = l.isOpen /\ g.posted = q
        /\ g.written = f.written /\ g.buffer = b
    BY <1>6, <2>2, <2>3 DEF LoggerState
  <2>6. ASSUME l.isOpen PROVE Entries(g) = Entries(l)
    <3>1. <<h>> \in Seq(Nat)
      BY <1>2
    <3>a. PICK u : u = f.written
      OBVIOUS
    <3>b. PICK v : v = f.buffer
      OBVIOUS
    <3>c. PICK hs : hs = <<h>>
      OBVIOUS
    <3>d. u \in Seq(Nat) /\ v \in Seq(Nat) /\ hs \in Seq(Nat) /\ b = v \o hs
      BY <1>8, <2>2, <3>1, <3>a, <3>b, <3>c
    <3>2. PICK w : w = u \o v
      OBVIOUS
    <3>3. PICK wh : wh = w \o hs
      OBVIOUS
    <3>4. PICK wb : wb = u \o b
      OBVIOUS
    <3>g. PICK qs : qs = q
      OBVIOUS
    <3>5. PICK x : x = wh \o qs
      OBVIOUS
    <3>7. w \in Seq(Nat)
      BY ONLY <3>2, <3>d, ConcatProperties
    <3>8. wb = wh
      <4>1. Joined(u, v, w) /\ Joined(v, hs, b) /\ Joined(u, b, wb) /\ Joined(w, hs, wh)
        BY <3>2, <3>3, <3>4, <3>d DEF Joined
      <4> QED BY ONLY <3>d, <4>1, Assoc
    <3>e. PICK po : po = l.posted
      OBVIOUS
    <3>f. qs \in Seq(Nat) /\ po = hs \o qs
      BY <1>2, <3>c, <3>e, <3>g
    <3>6. PICK y : y = w \o po
      OBVIOUS
    <3>h. hs \in Seq(Nat) /\ qs \in Seq(Nat)
      BY <3>d, <3>f
    <3>i. po = hs \o qs
      BY <3>f
    <3>9. y = x
      <4>1. Joined(w, hs, wh) /\ Joined(hs, qs, po) /\ Joined(w, po, y) /\ Joined(wh, qs, x)
        BY <3>3, <3>5, <3>6, <3>i DEF Joined
      <4> QED BY ONLY <3>7, <3>h, <4>1, Assoc
    <3>10. Entries(g) = x
      BY <2>5, <3>4, <3>5, <3>8, <3>a, <3>g DEF Entries
    <3>11. Entries(l) = y
      BY <1>6, <2>6, <3>2, <3>6, <3>a, <3>b, <3>e DEF Entries
    <3> QED BY <3>9, <3>10, <3>11
  <2>7. ASSUME l.isOpen PROVE Handled(g) >= Handled(l)
    <3>1. Len(f.written) \in Nat /\ Len(f.buffer) \in Nat
      BY <1>8, LenProperties
    <3>2. Handled(g) = Len(f.written) + (Len(f.buffer) + 1)
      BY <2>2, <2>5 DEF Handled
    <3>3. Handled(f) = Len(f.written) + Len(f.buffer) /\ Handled(f) = Handled(l)
      BY <1>6, <2>7 DEF Handled
    <3>4. PICK n \in Nat, m \in Nat : n = Len(f.written) /\ m = Len(f.buffer)
      BY <3>1
    <3>5. n + (m + 1) >= n + m
      OBVIOUS
    <3> QED BY <3>2, <3>3, <3>4, <3>5
  <2> QED BY <2>4, <2>5, <2>6, <2>7
<1> QED BY <1>9, <1>10

\* A call of log() puts its entry at the end.
LEMMA PostKeeps ==
    ASSUME NEW l \in LoggerState, NEW e \in Nat
    PROVE  /\ PostLog(l, e) \in LoggerState /\ PostLog(l, e).isOpen = l.isOpen
           /\ Entries(PostLog(l, e)) = Append(Entries(l), e)
           /\ PostLog(l, e).written = l.written /\ Handled(PostLog(l, e)) = Handled(l)
<1>1. l.posted \in Seq(Nat) /\ l.buffer \in Seq(Nat) /\ l.written \in Seq(Nat)
  BY StateFields
<1>2. PICK p : p = Append(l.posted, e)
  OBVIOUS
<1>3. p \in Seq(Nat) /\ p = l.posted \o <<e>> /\ <<e>> \in Seq(Nat)
  <2>1. p \in Seq(Nat) /\ <<e>> \in Seq(Nat)
    BY <1>1, <1>2
  <2>2. Append(l.posted, e) = l.posted \o <<e>>
    BY <1>1, AppendIsConcat, Zenon
  <2> QED BY <1>2, <2>1, <2>2, Zenon
<1>4. PICK g : g = PostLog(l, e)
  OBVIOUS
<1>5. g \in LoggerState /\ g.isOpen = l.isOpen /\ g.posted = p
      /\ g.written = l.written /\ g.buffer = l.buffer
  BY <1>2, <1>3, <1>4 DEF PostLog, LoggerState
<1>6. PICK w : w = l.written \o l.buffer
  OBVIOUS
<1>7. w \in Seq(Nat) /\ w \o l.posted \in Seq(Nat)
  BY <1>1, <1>6, ConcatProperties
<1>a. PICK po : po = l.posted
  OBVIOUS
<1>b. PICK es : es = <<e>>
  OBVIOUS
<1>8. PICK y : y = w \o po
  OBVIOUS
<1>9. PICK x : x = w \o p
  OBVIOUS
<1>10. PICK z : z = y \o es
  OBVIOUS
<1>c. /\ w \in Seq(Nat) /\ po \in Seq(Nat) /\ es \in Seq(Nat)
      /\ y \in Seq(Nat) /\ p = po \o es
  BY <1>1, <1>3, <1>7, <1>8, <1>a, <1>b
<1>11. x = z
  <2>1. Joined(w, po, y) /\ Joined(po, es, p) /\ Joined(w, p, x) /\ Joined(y, es, z)
    BY <1>8, <1>9, <1>10, <1>c DEF Joined
  <2> QED BY ONLY <1>c, <2>1, Assoc
<1>12. Append(y, e) = z
  BY <1>10, <1>b, <1>c, AppendIsConcat, Zenon
<1>13. Entries(g) = x /\ Entries(l) = y
  BY <1>5, <1>6, <1>8, <1>9, <1>a DEF Entries
<1>14. Entries(g) = Append(Entries(l), e)
  BY <1>11, <1>12, <1>13, Zenon
<1> QED BY <1>4, <1>5, <1>14 DEF Handled

\* One more number at the end of the first n.
LEMMA OneMore ==
    ASSUME NEW n \in Nat
    PROVE  Append([i \in 1..n |-> i], n + 1) = [i \in 1..(n + 1) |-> i]
OBVIOUS

LEMMA LogInvInit == LogInit => LogInv
<1> SUFFICES ASSUME LogInit PROVE LogInv
  OBVIOUS
<1>1. PICK isOpen \in BOOLEAN : logger = NewLogger(isOpen)
  BY DEF LogInit
<1>2. /\ logger.posted = << >> /\ logger.buffer = << >> /\ logger.written = << >>
      /\ logger.isOpen \in BOOLEAN /\ logger \in LoggerState
  BY <1>1, EmptySeq DEF NewLogger, LoggerState
<1>3. logged = 0 /\ owed = 0 /\ ~isClosed
  BY DEF LogInit, Init
<1>4. LogComplete
  <2>1. << >> \o << >> \o << >> = [n \in 1..0 |-> n]
    OBVIOUS
  <2> QED BY <1>2, <1>3, <2>1 DEF LogComplete
<1>5. OwedHandled
  <2>1. Handled(logger) = Len(<< >>) + Len(<< >>)
    BY <1>2 DEF Handled
  <2>2. Len(<< >>) + Len(<< >>) = 0
    BY ONLY EmptySeq
  <2> QED BY <1>3, <2>1, <2>2 DEF OwedHandled
<1> QED BY <1>2, <1>3, <1>4, <1>5 DEF LogInv, LogTyped, StopWritesLog

\* A call of log() keeps the invariant while stop() stays over, or not.
LEMMA LogKeeps ==
    ASSUME LogInv, Log,
           (isClosed /\ NobodyStops /\ ~startedLate)' => isClosed /\ NobodyStops /\ ~startedLate
    PROVE  LogInv'
<1> USE DEF LogInv, LogTyped
<1>1. logged' = logged + 1 /\ owed' = owed /\ logged' \in Nat /\ logger' = PostLog(logger, logged')
  BY DEF Log
<1>2. /\ logger' \in LoggerState /\ logger'.isOpen = logger.isOpen
      /\ Entries(logger') = Append(Entries(logger), logged')
      /\ logger'.written = logger.written /\ Handled(logger') = Handled(logger)
  BY <1>1, PostKeeps
<1>3. LogTyped'
  BY <1>1, <1>2
<1>4. LogComplete'
  <2> SUFFICES ASSUME logger.isOpen PROVE Entries(logger') = [n \in 1..logged' |-> n]
    BY <1>2 DEF LogComplete, Entries
  <2>1. Entries(logger) = [n \in 1..logged |-> n]
    BY DEF LogComplete, Entries
  <2> QED BY <1>1, <1>2, <2>1, OneMore
<1>5. OwedHandled'
  BY <1>1, <1>2 DEF OwedHandled
<1>6. StopWritesLog'
  BY <1>1, <1>2 DEF StopWritesLog
<1> QED BY <1>3, <1>4, <1>5, <1>6

\* So does a step that leaves the logger alone.
LEMMA SilentKeeps ==
    ASSUME LogInv, Silent,
           (isClosed /\ NobodyStops /\ ~startedLate)' => isClosed /\ NobodyStops /\ ~startedLate
    PROVE  LogInv'
BY DEF LogInv, LogTyped, Silent, LogComplete, OwedHandled, StopWritesLog

\* While stop() is over the I/O thread runs nothing.
LEMMA StoppedKeeps ==
    ASSUME ClientInv, io = "run"
    PROVE  ~(isClosed /\ NobodyStops /\ ~startedLate)
BY DEF ClientInv, StoppedClean

LEMMA LogInvStep == ClientInv /\ LogInv /\ [LogNext]_logVars => LogInv'
<1> SUFFICES ASSUME ClientInv, LogInv, [LogNext]_logVars PROVE LogInv'
  OBVIOUS
<1> DEFINE over == isClosed /\ NobodyStops /\ ~startedLate
<1>1. CASE Start /\ Silent
  <2>1. ~over'
    BY <1>1 DEF Start
  <2> QED BY <1>1, <2>1, SilentKeeps
<1>2. ASSUME NEW u \in Threads, Stop(u), Silent PROVE LogInv'
  <2>1. over' => over
    BY <1>2 DEF Stop, FirstToStop, NobodyStops, ClientInv, TypeOK
  <2> QED BY <1>2, <2>1, SilentKeeps
<1>3. ASSUME NEW u \in Threads, ResetGuard(u) \/ CloseQueue(u) \/ CloseCon(u), Silent PROVE LogInv'
  <2>1. ~over'
    BY <1>3 DEF ResetGuard, CloseQueue, CloseCon, NobodyStops, ClientInv, TypeOK
  <2> QED BY <1>3, <2>1, SilentKeeps
<1>4. ASSUME NEW u \in Threads, JoinAndFlush(u) PROVE LogInv'
  <2>1. logger' = Flush(logger) /\ logged' = logged /\ owed' = owed
    BY <1>4 DEF JoinAndFlush, FlushNow
  <2>2. /\ logger' \in LoggerState /\ logger'.isOpen = logger.isOpen
        /\ logger'.posted = logger.posted
        /\ logger.isOpen => /\ logger'.written \o logger'.buffer = logger.written \o logger.buffer
                            /\ Handled(logger') = Handled(logger)
                            /\ logger'.buffer = << >>
    BY <2>1, FlushKeeps DEF LogInv, LogTyped
  <2>3. LogTyped'
    BY <2>1, <2>2 DEF LogInv, LogTyped
  <2>4. LogComplete'
    <3> SUFFICES ASSUME logger.isOpen PROVE Entries(logger') = [n \in 1..logged' |-> n]
      BY <2>2 DEF LogComplete, Entries
    <3>1. Entries(logger) = [n \in 1..logged |-> n]
      BY DEF LogInv, LogComplete, Entries
    <3>2. Entries(logger') = Entries(logger)
      BY <2>2 DEF Entries
    <3> QED BY <2>1, <3>1, <3>2
  <2>5. OwedHandled'
    BY <2>1, <2>2 DEF LogInv, OwedHandled
  <2>6. StopWritesLog'
    <3> SUFFICES ASSUME logger'.isOpen PROVE Len(logger'.written) >= owed'
      BY DEF StopWritesLog
    <3>1. Handled(logger') = Len(logger'.written) + Len(<< >>) /\ owed' <= Handled(logger')
      BY <2>2, <2>5 DEF Handled, OwedHandled
    <3>2. logger'.written \in Seq(Nat)
      BY <2>2, StateFields
    <3>3. PICK w : w = logger'.written
      OBVIOUS
    <3>4. Len(w) + Len(<< >>) = Len(w) /\ Len(w) \in Nat
      BY <3>2, <3>3, EmptySeq, LenProperties
    <3>5. owed' \in Nat
      BY <2>3 DEF LogTyped
    <3> QED BY <3>1, <3>3, <3>4, <3>5
  <2> QED BY <2>3, <2>4, <2>5, <2>6 DEF LogInv
<1>5. CASE (EnterRun \/ CloseRuns \/ ConnectionReleased) /\ Silent
  <2>1. over' => over
    BY <1>5 DEF EnterRun, CloseRuns, ConnectionReleased, NobodyStops, userVars
  <2> QED BY <1>5, <2>1, SilentKeeps
<1>6. CASE RunLog
  <2>1. /\ logger' = RunPosted(logger) /\ logger.posted # << >> /\ io = "run"
        /\ logged' = logged /\ owed' = owed /\ UNCHANGED vars
    BY <1>6 DEF RunLog
  <2>2. /\ logger' \in LoggerState /\ logger'.isOpen = logger.isOpen
        /\ logger.isOpen => /\ Entries(logger') = Entries(logger)
                            /\ Handled(logger') >= Handled(logger)
    BY <2>1, RunPostedKeeps DEF LogInv, LogTyped
  <2>3. LogTyped'
    BY <2>1, <2>2 DEF LogInv, LogTyped
  <2>4. LogComplete'
    BY <2>1, <2>2 DEF LogInv, LogComplete, Entries
  <2>5. OwedHandled'
    <3>1. ASSUME logger.isOpen PROVE owed <= Handled(logger')
      <4>1. Handled(logger') \in Int /\ Handled(logger) \in Int /\ owed \in Int
        BY <2>2, StateFields, LenProperties DEF LogInv, LogTyped, Handled
      <4> QED BY <2>2, <3>1, <4>1 DEF LogInv, OwedHandled
    <3> QED BY <2>1, <2>2, <3>1 DEF OwedHandled
  <2>6. StopWritesLog'
    <3>1. ~over'
      BY <2>1, StoppedKeeps DEF vars, userVars, NobodyStops
    <3> QED BY <3>1 DEF StopWritesLog
  <2> QED BY <2>3, <2>4, <2>5, <2>6 DEF LogInv
<1>7. CASE LastHandlerDone
  <2>1. /\ logger' = logger /\ logged' = logged /\ owed' = logged
        /\ logger.posted = << >> /\ io = "run" /\ RunReturns
    BY <1>7 DEF LastHandlerDone, RunReturns
  <2>2. LogTyped'
    BY <2>1 DEF LogInv, LogTyped
  <2>3. LogComplete'
    BY <2>1 DEF LogInv, LogComplete
  <2>4. OwedHandled'
    <3> SUFFICES ASSUME logger.isOpen PROVE logged <= Handled(logger)
      BY <2>1 DEF OwedHandled
    <3>1. PICK u \in Seq(Nat), v \in Seq(Nat) : u = logger.written /\ v = logger.buffer
      BY StateFields DEF LogInv, LogTyped
    <3>2. (u \o v) \o << >> = [n \in 1..logged |-> n]
      BY <2>1, <3>1 DEF LogInv, LogComplete
    <3>3. PICK w : w = u \o v
      OBVIOUS
    <3>4. w \in Seq(Nat) /\ Len(w) = Len(u) + Len(v)
      BY ONLY <3>1, <3>3, ConcatProperties
    <3>5. w = [n \in 1..logged |-> n]
      BY <3>2, <3>3, <3>4, ConcatEmptySeq
    <3>6. Len(w) = logged
      BY <3>4, <3>5, LenProperties DEF LogInv, LogTyped
    <3>7. Handled(logger) = Len(w)
      BY <3>1, <3>4 DEF Handled
    <3> QED BY <3>6, <3>7 DEF LogInv, LogTyped
  <2>5. StopWritesLog'
    <3>1. ~over'
      BY <2>1, StoppedKeeps DEF RunReturns, userVars, NobodyStops
    <3> QED BY <3>1 DEF StopWritesLog
  <2> QED BY <2>2, <2>3, <2>4, <2>5 DEF LogInv
<1>8. CASE StartFails \/ SendRefused \/ ReportAgain
  <2>1. Log /\ UNCHANGED vars
    BY <1>8 DEF StartFails, SendRefused, ReportAgain
  <2>2. over' => over
    BY <2>1 DEF vars, userVars, NobodyStops
  <2> QED BY <2>1, <2>2, LogKeeps
<1>9. CASE ReportLoss
  <2>1. over' => over
    BY <1>9 DEF ReportLoss, ConnectionFails, userVars, NobodyStops
  <2> QED BY <1>9, <2>1, LogKeeps DEF ReportLoss
<1>10. CASE UNCHANGED logVars
  <2>1. Silent /\ (over' => over)
    BY <1>10 DEF logVars, vars, userVars, NobodyStops, Silent
  <2> QED BY <2>1, SilentKeeps
<1> QED BY <1>1, <1>2, <1>3, <1>4, <1>5, <1>6, <1>7, <1>8, <1>9, <1>10
        DEF LogNext, LogStopSteps, LogIOThread

\* The invariant always holds.
LEMMA LogInvHolds == LogSpec => []LogInv
<1>1. LogInit => LogInv
  BY LogInvInit
<1>2. ClientInv /\ LogInv /\ [LogNext]_logVars => LogInv'
  BY LogInvStep
<1> QED BY <1>1, <1>2, ClientInside, InvHolds, PTL DEF LogSpec

\* However many threads log, and however small the ring is: every entry is held
\* once and in its place, as long as the file is open.
THEOREM LogKept == LogSpec => []LogComplete
<1>1. LogInv => LogComplete
  BY DEF LogInv
<1> QED BY <1>1, LogInvHolds, PTL

\* After stop() everything is in the file that was logged before run() returned.
THEOREM FlushedAtStop == LogSpec => []StopWritesLog
<1>1. LogInv => StopWritesLog
  BY DEF LogInv
<1> QED BY <1>1, LogInvHolds, PTL
=============================================================================
