--------------------------- MODULE ChannelProofs ---------------------------
(***************************************************************************)
(* Connection implements Channel and, once closed, runs out of things to   *)
(* do, for every choice of timeouts, frame kinds and bounds.               *)
(***************************************************************************)
EXTENDS ConnectionProofs, FiniteSetTheorems

\* A closed connection has been started and has nothing in the kernel, and
\* after a header that makes no sense nothing is read.
ShutState ==
    /\ closed => started /\ rdRes # "pending" /\ wrRes # "pending"
    /\ received # << >> /\ CurrentFrame = "bad"
          => rdOp = "none" \/ (rdOp = "header" /\ rdRes = "ok")

ChannelInv == OrderInv /\ ReadOrder /\ ShutState

LEMMA ShutStep == TypeOK /\ ReadOrder /\ ShutState /\ [Next]_vars => ShutState'
<1> SUFFICES ASSUME TypeOK, ReadOrder, ShutState, [Next]_vars PROVE ShutState'
  OBVIOUS
<1> USE DEF ShutState, CurrentFrame, Frame, closeVars, writeVars, readVars
<1>0. received \in Seq(FrameKinds)
  BY DEF TypeOK
<1>1. CASE User
  BY <1>1 DEF User, SendCall, CloseCall, CloseMessageQueue
<1>2. ASSUME NEW kind \in FrameKinds, HeaderArrives(kind) PROVE ShutState'
  BY <1>0, <1>2 DEF HeaderArrives
<1>3. CASE BodyArrives \/ WriteCompletes \/ WriteFails \/ PartRead \/ PartWritten \/ Clock
  BY <1>3 DEF BodyArrives, WriteCompletes, WriteFails, PartRead, PartWritten, Clock, Expire
<1>4. ASSUME NEW res \in {"eof", "error"}, ReadFails(res) PROVE ShutState'
  BY <1>4 DEF ReadFails
<1>5. CASE Start
  BY <1>5 DEF Start, DoRead, ReadOrder
<1>6. CASE RunSend \/ WriteOn \/ FrameWritten \/ WriteFailed
  BY <1>6 DEF RunSend, DoSend, WriteOn, FrameWritten, WriteFailed, Transfer, SocketOpen
<1>7. CASE RunClose
  BY <1>7 DEF RunClose, NextTaskIs, CloseIsDone, Aborted
<1>8. CASE ReadOn \/ HeaderRead \/ ReadFailed
  BY <1>8 DEF ReadOn, HeaderRead, ReadFailed, Transfer, SocketOpen
<1>9. CASE BodyRead
  BY <1>9 DEF BodyRead, DoRead, Transfer, SocketOpen, ReadOrder, InHand
<1>10. ASSUME NEW e \in tm.fired, OpTimeout(e) \/ HeartbeatTimeout(e) \/ HeartbeatSend(e)
       PROVE  ShutState'
  BY <1>10 DEF OpTimeout, Aborted, HeartbeatTimeout, HeartbeatSend
<1>11. CASE UNCHANGED vars
  BY <1>11 DEF vars
<1> QED
  BY <1>1, <1>2, <1>3, <1>4, <1>5, <1>6, <1>7, <1>8, <1>9, <1>10, <1>11
     DEF Next, Kernel, IOThread, RunTask, RunRead, RunWrite, RunExpiry

-----------------------------------------------------------------------------
(* The phases.                                                             *)

\* What has nothing left to run stays so once it is closed.
LEMMA IdleStays ==
    ASSUME ShutState, closed, Idle, [Next]_vars
    PROVE  Idle'
<1> USE DEF Idle, closeVars, writeVars, readVars
<1>1. tm.fired = {} /\ \A k \in TimerKinds : ~IsWaiting(tm, k)
  BY DEF NoTimers, IsWaiting
<1>2. CASE User \/ Kernel
  BY <1>2 DEF User, SendCall, CloseCall, CloseMessageQueue, Kernel, HeaderArrives,
              BodyArrives, ReadFails, WriteCompletes, WriteFails, PartRead, PartWritten
<1>3. CASE Clock
  BY <1>1, <1>3 DEF Clock, Expire
<1>4. CASE Start \/ RunSend \/ RunClose
  BY <1>4 DEF Start, RunSend, RunClose, CloseIsDone, ShutState
<1>5. CASE RunRead
  BY <1>5 DEF RunRead, ReadOn, HeaderRead, BodyRead, ReadFailed
<1>6. CASE RunWrite
  BY <1>6 DEF RunWrite, WriteOn, FrameWritten, WriteFailed, Failed
<1>7. CASE UNCHANGED vars
  BY <1>7 DEF vars
<1> QED
  BY <1>1, <1>2, <1>3, <1>4, <1>5, <1>6, <1>7 DEF Next, IOThread, RunTask

\* A send that is posted, or run, changes nothing about the closes posted.
LEMMA SendPosted ==
    ASSUME TypeOK, NEW n \in Nat, posted' = Append(posted, SendTask(n))
    PROVE  ClosePosted' <=> ClosePosted
<1>1. posted \in Seq(Task) /\ SendTask(n) # CloseTask
  BY DEF TypeOK, SendTask, CloseTask
<1>2. /\ Len(posted') = Len(posted) + 1 /\ posted'[Len(posted) + 1] = SendTask(n)
      /\ \A i \in 1..Len(posted) : posted'[i] = posted[i]
  BY <1>1, TaskType
<1>3. DOMAIN posted = 1..Len(posted) /\ DOMAIN posted' = 1..Len(posted')
  BY <1>1, TaskType
<1> QED
  BY <1>1, <1>2, <1>3 DEF ClosePosted

LEMMA SamePhase ==
    ASSUME UNCHANGED closed, closed \/ (ClosePosted' <=> ClosePosted),
           closed => (Idle' <=> Idle)
    PROVE  Phase' = Phase
BY DEF Phase

ChannelStep == Ch!Next \/ UNCHANGED Ch!vars

\* A step that touches nothing else the channel shows begins the close, ends it
\* or does not show at all.
LEMMA PhaseMoves ==
    ASSUME TypeOK, ShutState, [Next]_vars,
           UNCHANGED <<sends, wire, WriterDead, received, delivered, mqClosed,
                       callbacks, closed>>
    PROVE  ChannelStep
<1>1. CASE closed
  <2>1. Idle => Idle'
    BY <1>1, IdleStays
  <2>2. Phase' = Phase \/ (Phase = "closed" /\ Phase' = "released")
    BY <1>1, <2>1 DEF Phase
  <2> QED
    BY <2>2 DEF ChannelStep, Ch!Next, Ch!Release, Ch!vars
<1>2. CASE ~closed
  <2>1. ClosePosted => ClosePosted'
    BY <1>2, ClosePostedStep
  <2>2. Phase' = Phase \/ (Phase = "open" /\ Phase' = "closing")
    BY <1>2, <2>1 DEF Phase
  <2> QED
    BY <2>2 DEF ChannelStep, Ch!Next, Ch!BeginClose, Ch!vars
<1> QED
  BY <1>1, <1>2

\* A step that ends the writing.
LEMMA Breaks ==
    ASSUME Phase' = Phase, Phase # "released", WriterDead',
           UNCHANGED <<sends, wire, received, delivered, mqClosed, callbacks>>
    PROVE  ChannelStep
BY DEF ChannelStep, Ch!Next, Ch!Break

-----------------------------------------------------------------------------
(* The steps.                                                              *)

LEMMA Asks ==
    ASSUME TypeOK, sends' = sends + 1, posted' = Append(posted, SendTask(sends')),
           closed => (Idle' <=> Idle),
           UNCHANGED <<closed, wire, WriterDead, received, delivered, mqClosed, callbacks>>
    PROVE  ChannelStep
<1>1. sends' \in Nat
  BY DEF TypeOK
<1>2. Phase' = Phase
  BY <1>1, SendPosted, SamePhase
<1> QED
  BY <1>2 DEF ChannelStep, Ch!Next, Ch!Ask

LEMMA Hears ==
    ASSUME ChannelInv, NEW kind \in FrameKinds, HeaderArrives(kind)
    PROVE  ChannelStep
<1> USE DEF HeaderArrives, closeVars, writeVars
<1>1. ~closed /\ ~InHand /\ rdOp = "header"
  BY DEF ChannelInv, ShutState, InHand
<1>2. Phase' = Phase
  BY <1>1, SamePhase DEF ClosePosted
<1>3. Ch!Alive
  BY <1>1 DEF Ch!Alive, Phase
<1>4. received # << >> => CurrentFrame # "bad"
  BY <1>1 DEF ChannelInv, ShutState
<1>5. Ch!Owes => mqClosed
  BY <1>1 DEF Ch!Owes, Ch!Last, Ch!HandedLast, ChannelInv, ReadOrder, CurrentFrame, Frame
<1>6. UNCHANGED <<Phase, sends, wire, WriterDead, delivered, mqClosed, callbacks>>
  BY <1>2 DEF sendVars, WriterDead
<1>7. Ch!Hear(kind)
  BY <1>3, <1>4, <1>5, <1>6 DEF Ch!Hear, Ch!Last, CurrentFrame, Frame
<1> QED
  BY <1>7 DEF ChannelStep, Ch!Next

LEMMA Transmits == ASSUME ChannelInv, WriteCompletes PROVE ChannelStep
<1> USE DEF WriteCompletes, closeVars, readVars
<1>0. /\ TypeOK /\ OutboxWriter /\ WireState /\ PostedState
      /\ wire \in Seq(Nat) /\ outbox.queue \in Seq(Nat) /\ sends \in Nat
  BY DEF ChannelInv, OrderInv, TypeOK, OutboxState
<1>1. ~closed
  BY DEF ChannelInv, ShutState
<1>2. Phase' = Phase
  BY <1>1, SamePhase DEF ClosePosted
<1>3. outbox.queue # << >> /\ wrFrame = Head(outbox.queue)
  BY <1>0 DEF OutboxWriter, HasFront
<1>4. wrFrame = Len(wire) + 1
  BY <1>0, <1>3 DEF WireState, Done
<1>5. Len(wire) < sends
  BY <1>0, <1>1, <1>3 DEF PostedState, NextFrame, Done
<1>6. ~WriterDead /\ WriterDead' = WriterDead
  BY DEF WriterDead, Failed
<1>7. UNCHANGED <<Phase, sends, WriterDead, received, delivered, mqClosed, callbacks>>
  BY <1>2, <1>6 DEF sendVars
<1>8. Ch!Alive
  BY <1>1 DEF Ch!Alive, Phase
<1>9. Ch!Transmit
  BY <1>4, <1>5, <1>6, <1>7, <1>8 DEF Ch!Transmit
<1> QED
  BY <1>9 DEF ChannelStep, Ch!Next

LEMMA Hands == ASSUME ChannelInv, [Next]_vars, BodyRead PROVE ChannelStep
<1> USE DEF BodyRead, DoRead, closeVars, writeVars, sendVars
<1>1. /\ ~Idle /\ ~Idle' /\ InHand /\ TypeOK /\ ShutState
      /\ UNCHANGED <<closed, sends, wire, WriterDead, received, mqClosed, callbacks>>
  BY DEF Idle, InHand, WriterDead, ChannelInv, OrderInv
<1>2. CASE ~Pushes
  BY <1>1, <1>2, PhaseMoves
<1>3. CASE Pushes
  <2>1. Phase' = Phase /\ Phase # "released"
    BY <1>1, SamePhase DEF ClosePosted, Phase
  <2>2. received # << >> /\ \A i \in DOMAIN delivered : delivered[i] < Len(received)
    BY <1>1 DEF ChannelInv, ReadOrder
  <2>3. delivered \in Seq(Nat) /\ Len(received) \in Nat
    BY <1>1 DEF TypeOK
  <2>4. Ch!Owes
    BY <1>3, <2>2, <2>3 DEF Ch!Owes, Ch!Last, Ch!HandedLast, Pushes, CurrentFrame, Frame
  <2>5. delivered' = Append(delivered, Len(received)) /\ ~mqClosed
    BY <1>3 DEF Pushes
  <2>6. Ch!Hand
    BY <1>1, <2>1, <2>4, <2>5 DEF Ch!Hand
  <2> QED
    BY <2>6 DEF ChannelStep, Ch!Next
<1> QED
  BY <1>2, <1>3

LEMMA Closes == ASSUME ChannelInv, [Next]_vars, RunClose PROVE ChannelStep
<1> USE DEF RunClose, CloseIsDone, sendVars
<1>0. TypeOK /\ OutboxWriter /\ ShutState /\ callbacks \in Nat
  BY DEF ChannelInv, OrderInv, TypeOK
<1>1. CASE closed
  BY <1>0, <1>1, PhaseMoves DEF WriterDead
<1>2. CASE ~closed
  <2>1. ClosePosted
    <3>1. posted \in Seq(Task) /\ posted # << >> /\ Head(posted).task = "close"
      BY <1>0 DEF NextTaskIs, TypeOK
    <3>2. Head(posted) = posted[1] /\ 1 \in DOMAIN posted
      BY <3>1
    <3> QED
      BY <1>0, <3>1, <3>2 DEF ClosePosted, CloseTask, SendTask, Task
  <2>2. Phase = "closing" /\ Phase' \in {"closed", "released"}
    BY <1>2, <2>1 DEF Phase
  <2>3. WriterDead' \in {WriterDead, TRUE}
    BY <1>0, DeadWriterStep DEF WriterDead
  <2>4. Ch!Close
    BY <1>2, <2>2, <2>3 DEF Ch!Close
  <2> QED
    BY <2>4 DEF ChannelStep, Ch!Next
<1> QED
  BY <1>1, <1>2

LEMMA WriteEnds ==
    ASSUME ChannelInv, [Next]_vars, WriteFails \/ WriteOn \/ FrameWritten \/ WriteFailed
    PROVE  ChannelStep
<1> USE DEF closeVars, sendVars, readVars
<1>0. TypeOK /\ OutboxWriter /\ ShutState
  BY DEF ChannelInv, OrderInv
<1>1. CASE WriteFails
  <2>1. ~closed /\ WriterDead'
    BY <1>0, <1>1 DEF WriteFails, ShutState, WriterDead, Failed
  <2>2. Phase' = Phase /\ Phase # "released"
    BY <1>1, <2>1, SamePhase DEF WriteFails, ClosePosted, Phase
  <2> QED
    BY <1>1, <2>1, <2>2, Breaks DEF WriteFails
<1>2. CASE WriteOn
  <2>1. CASE closed
    <3>1. ~Idle /\ ~Idle' /\ WriterDead'
      BY <1>2, <2>1 DEF WriteOn, Transfer, SocketOpen, Idle, WriterDead, Failed
    <3>2. Phase' = Phase /\ Phase # "released"
      BY <1>2, <3>1, SamePhase DEF WriteOn, ClosePosted, Phase
    <3> QED
      BY <1>2, <3>1, <3>2, Breaks DEF WriteOn
  <2>2. CASE ~closed
    <3>1. WriterDead' = WriterDead
      BY <1>2, <2>2 DEF WriteOn, Transfer, SocketOpen, WriterDead, Failed
    <3> QED
      BY <1>0, <1>2, <3>1, PhaseMoves DEF WriteOn
  <2> QED
    BY <2>1, <2>2
<1>3. CASE FrameWritten
  <2>0. ~WriterDead /\ ~Idle
    BY <1>3 DEF FrameWritten, WriterDead, Failed, Idle
  <2>1. CASE HasFront(outbox') /\ closed
    <3>1. WriterDead' /\ ~Idle'
      BY <1>3, <2>1 DEF FrameWritten, DoSend, Transfer, SocketOpen, WriterDead, Failed, Idle
    <3>2. Phase' = Phase /\ Phase # "released"
      BY <1>3, <2>0, <3>1, SamePhase DEF FrameWritten, ClosePosted, Phase
    <3> QED
      BY <1>3, <3>1, <3>2, Breaks DEF FrameWritten
  <2>2. CASE ~(HasFront(outbox') /\ closed)
    <3>1. outbox'.isWriting => HasFront(outbox')
      BY <1>0, WriterStep DEF OutboxWriter, HasFront
    <3>2. WriterDead' = WriterDead
      BY <1>3, <2>0, <2>2, <3>1
         DEF FrameWritten, DoSend, Transfer, SocketOpen, WriterDead, Failed
    <3> QED
      BY <1>0, <1>3, <2>0, <3>2, PhaseMoves DEF FrameWritten
  <2> QED
    BY <2>1, <2>2
<1>4. CASE WriteFailed
  <2>1. WriterDead
    BY <1>4 DEF WriteFailed, WriterDead
  <2>2. WriterDead' /\ wire' = wire
    BY <1>0, <2>1, DeadWriterStep
  <2> QED
    BY <1>0, <1>4, <2>1, <2>2, PhaseMoves DEF WriteFailed, WriterDead
<1> QED
  BY <1>1, <1>2, <1>3, <1>4

LEMMA ExpirySteps ==
    ASSUME ChannelInv, [Next]_vars, NEW e \in tm.fired,
           OpTimeout(e) \/ HeartbeatTimeout(e) \/ HeartbeatSend(e)
    PROVE  ChannelStep
<1> USE DEF closeVars, sendVars, readVars, writeVars
<1>0. TypeOK /\ ShutState
  BY DEF ChannelInv, OrderInv
<1>1. CASE OpTimeout(e) /\ wrRes = "pending"
  <2>1. ~closed /\ WriterDead'
    BY <1>0, <1>1 DEF OpTimeout, ShutState, Aborted, WriterDead, Failed
  <2>2. Phase' = Phase /\ Phase # "released"
    BY <1>1, <2>1, SamePhase DEF OpTimeout, ClosePosted, Phase
  <2> QED
    BY <1>1, <2>1, <2>2, Breaks DEF OpTimeout
<1>2. CASE OpTimeout(e) /\ wrRes # "pending"
  BY <1>0, <1>2, PhaseMoves DEF OpTimeout, Aborted, WriterDead
<1>3. CASE HeartbeatTimeout(e)
  BY <1>0, <1>3, PhaseMoves DEF HeartbeatTimeout, WriterDead
<1>4. CASE HeartbeatSend(e) /\ closed
  BY <1>0, <1>4, PhaseMoves DEF HeartbeatSend, WriterDead
<1>5. CASE HeartbeatSend(e) /\ ~closed
  BY <1>0, <1>5, Asks DEF HeartbeatSend, WriterDead
<1> QED
  BY <1>1, <1>2, <1>3, <1>4, <1>5

LEMMA RunSendStep == ASSUME ChannelInv, [Next]_vars, RunSend PROVE ChannelStep
<1> USE DEF RunSend, closeVars, sendVars, readVars, writeVars
<1>0. TypeOK /\ ShutState /\ outbox \in OutboxState(Nat)
  BY DEF ChannelInv, OrderInv, TypeOK
<1>1. CASE closed
  BY <1>0, <1>1, PhaseMoves DEF WriterDead
<1>2. CASE ~closed /\ ~Claims(outbox)
  BY <1>0, <1>2, PhaseMoves DEF WriterDead, Claims, PushAndClaim, OutboxState
<1>3. CASE ~closed /\ Claims(outbox)
  <2>1. wrRes' = "pending" /\ ~outbox.isWriting /\ wire' = wire
    BY <1>3 DEF DoSend, Transfer, SocketOpen, Claims
  <2>2. wrRes = "none"
    BY <2>1 DEF ChannelInv, OrderInv, OutboxWriter, HasFront
  <2>3. WriterDead' = WriterDead
    BY <2>1, <2>2 DEF WriterDead, Failed
  <2> QED
    BY <1>0, <2>1, <2>3, PhaseMoves
<1> QED
  BY <1>1, <1>2, <1>3

LEMMA StepIsChannelStep == ChannelInv /\ [Next]_vars => ChannelStep
<1> SUFFICES ASSUME ChannelInv, [Next]_vars PROVE ChannelStep
  OBVIOUS
<1> USE DEF closeVars, sendVars, readVars, writeVars
<1>0. TypeOK /\ ShutState
  BY DEF ChannelInv, OrderInv
<1>1. CASE SendCall
  BY <1>0, <1>1, Asks DEF SendCall, WriterDead, Idle
<1>2. CASE CloseCall
  BY <1>0, <1>2, PhaseMoves DEF CloseCall, WriterDead
<1>3. CASE CloseMessageQueue
  <2>1. Phase' = Phase
    BY <1>3, SamePhase DEF CloseMessageQueue, ClosePosted, Idle
  <2>2. Ch!GoDeaf
    BY <1>3, <2>1 DEF CloseMessageQueue, Ch!GoDeaf, WriterDead
  <2> QED
    BY <2>2 DEF ChannelStep, Ch!Next
<1>4. CASE BodyArrives \/ PartRead \/ ReadOn
  BY <1>0, <1>4, PhaseMoves DEF BodyArrives, PartRead, ReadOn, WriterDead
<1>5. ASSUME NEW res \in {"eof", "error"}, ReadFails(res) PROVE ChannelStep
  BY <1>0, <1>5, PhaseMoves DEF ReadFails, WriterDead
<1>6. CASE PartWritten
  BY <1>0, <1>6, PhaseMoves DEF PartWritten, WriterDead, Failed
<1>7. ASSUME NEW k \in TimerKinds, Expire(k) PROVE ChannelStep
  BY <1>0, <1>7, PhaseMoves DEF Expire, WriterDead
<1>8. CASE Start
  BY <1>0, <1>8, PhaseMoves DEF Start, WriterDead
<1>9. CASE HeaderRead \/ ReadFailed
  BY <1>0, <1>9, PhaseMoves DEF HeaderRead, ReadFailed, WriterDead
<1>10. CASE UNCHANGED vars
  BY <1>0, <1>10, PhaseMoves DEF vars, WriterDead
<1> QED
  BY <1>1, <1>2, <1>3, <1>4, <1>5, <1>6, <1>7, <1>8, <1>9, <1>10, Hears, Transmits, Hands,
     Closes, WriteEnds, ExpirySteps, RunSendStep
     DEF Next, User, Kernel, Clock, IOThread, RunTask, RunRead, RunWrite, RunExpiry

LEMMA ChannelInvariant == Spec => []ChannelInv
<1>1. Init => ChannelInv
  <2> SUFFICES ASSUME Init PROVE ChannelInv
    OBVIOUS
  <2>1. OrderInv /\ ReadOrder
    BY InitOrder, InitType
       DEF Init, ReadOrder, DeliveredInOrder, InHand
  <2>2. ShutState
    BY DEF Init, ShutState
  <2> QED
    BY <2>1, <2>2 DEF ChannelInv
<1>2. ChannelInv /\ [Next]_vars => ChannelInv'
  BY TypeStep, WriterStep, WireStateStep, PostedStateStep, ReadOrderStep, ShutStep
     DEF ChannelInv, OrderInv
<1> QED
  BY <1>1, <1>2, PTL DEF Spec

\* Whatever the threads, the kernel and the clock do in whatever order, the
\* owner of a connection sees a channel.
THEOREM ImplementsChannel == Spec => IsChannel
<1>1. Init => Ch!Init
  <2> SUFFICES ASSUME Init PROVE Ch!Init
    OBVIOUS
  <2>1. Phase = "open" /\ ~WriterDead
    BY DEF Init, Phase, ClosePosted, WriterDead, Failed, EmptyOutbox
  <2> QED
    BY <2>1 DEF Init, Ch!Init
<1>2. ChannelInv /\ [Next]_vars => [Ch!Next]_(Ch!vars)
  BY StepIsChannelStep DEF ChannelStep
<1> QED
  BY <1>1, <1>2, ChannelInvariant, PTL DEF Spec, IsChannel, Ch!Spec

-----------------------------------------------------------------------------
(* What is left of a closed connection.                                    *)

\* A closed connection always has a handler to run, or nothing at all: with no
\* result to handle both loops are over, and no timer outlives its loop.
THEOREM NobodyWaitedFor == Spec => []ClosedWaitsForNobody
<1>1. ChannelInv /\ TimerInv => ClosedWaitsForNobody
  <2> SUFFICES ASSUME ChannelInv, TimerInv, closed, ~HandlerQueued
               PROVE  rdRes # "pending" /\ wrRes # "pending" /\ Released
    BY DEF ClosedWaitsForNobody, ChannelInv, ShutState
  <2>1. rdRes = "none" /\ wrRes = "none" /\ posted = << >> /\ tm.fired = {}
    BY DEF ChannelInv, ShutState, HandlerQueued
  <2>2. rdOp = "none"
    BY <2>1 DEF TimerInv, LoopState
  <2>3. \A k \in TimerKinds : tm.map[k] = "absent"
    BY <2>1, <2>2 DEF TimerInv, TimersOwned, TimerKinds, OpTimers
  <2>4. tm = NoTimers
    BY <2>1, <2>3 DEF TimerInv, TypeOK, TimerState, NoTimers
  <2> QED
    BY <2>1, <2>2, <2>4 DEF Released
<1> QED
  BY <1>1, ChannelInvariant, TimerInvariant, PTL

LEMMA FiniteTimers ==
    /\ IsFiniteSet(TimerKinds)
    /\ IsFiniteSet(Expiry)
<1>1. IsFiniteSet(TimerKinds)
  <2>1. TimerKinds = ((((({} \cup {"read"}) \cup {"body"}) \cup {"send"}) \cup {"hbTimeout"})
                        \cup {"hbSend"})
    BY DEF TimerKinds, OpTimers, HeartbeatTimers
  <2> QED
    BY <2>1, FS_EmptySet, FS_AddElement
<1> DEFINE E(v) == {e \in Expiry : e.via = v}
           f(v) == [k \in TimerKinds |-> [timer |-> k, via |-> v]]
<1>2. ASSUME NEW v \in {"start", "reset", "orphan"} PROVE IsFiniteSet(E(v))
  <2>1. f(v) \in Surjection(TimerKinds, E(v))
    BY DEF Surjection, Expiry
  <2> QED
    BY <1>1, <2>1, FS_Surjection
<1>3. Expiry = (E("start") \cup E("reset")) \cup E("orphan")
  BY DEF Expiry
<1>4. IsFiniteSet(E("start")) /\ IsFiniteSet(E("reset")) /\ IsFiniteSet(E("orphan"))
  BY <1>2
<1> HIDE DEF E
<1> QED
  BY <1>1, <1>3, <1>4, FS_Union

\* Orphaning the handlers of a purpose does not make more of them.
LEMMA CancelCounts ==
    ASSUME NEW t \in TimerState, NEW k \in TimerKinds
    PROVE  Cardinality(CancelTimer(t, k).fired) <= Cardinality(t.fired)
<1> DEFINE f == [e \in t.fired |-> Orphaned(e, k)]
           T == {Orphaned(e, k) : e \in t.fired}
<1>1. IsFiniteSet(t.fired)
  BY FiniteTimers, FS_Subset DEF TimerState
<1>2. f \in Surjection(t.fired, T)
  BY DEF Surjection
<1>3. Cardinality(T) <= Cardinality(t.fired)
  BY <1>1, <1>2, FS_Surjection
<1> QED
  BY <1>3 DEF CancelTimer

ArmedIn(t) == {k \in TimerKinds : IsWaiting(t, k)}

\* The end of a wait handler leaves one handler less and arms no timer.
LEMMA FinishCounts ==
    ASSUME NEW t \in TimerState, NEW e \in t.fired
    PROVE  /\ Cardinality(FinishExpiry(t, e).fired) < Cardinality(t.fired)
           /\ ArmedIn(FinishExpiry(t, e)) \subseteq ArmedIn(t)
<1> DEFINE rest == [t EXCEPT !.fired = @ \ {e}]
<1>1. rest \in TimerState /\ e.timer \in TimerKinds /\ rest.fired = t.fired \ {e}
  BY DEF TimerState, Expiry
<1>2. IsFiniteSet(t.fired) /\ Cardinality(t.fired) \in Nat
  BY FiniteTimers, FS_Subset, FS_CardinalityType DEF TimerState
<1>3. Cardinality(rest.fired) = Cardinality(t.fired) - 1
  BY <1>1, <1>2, FS_RemoveElement
<1>4. CancelTimer(rest, e.timer) \in TimerState
  BY <1>1, CancelTimerType
<1>5. Cardinality(CancelTimer(rest, e.timer).fired) <= Cardinality(rest.fired)
      /\ Cardinality(CancelTimer(rest, e.timer).fired) \in Nat
  <2>1. IsFiniteSet(CancelTimer(rest, e.timer).fired)
    BY <1>4, FiniteTimers, FS_Subset DEF TimerState
  <2> QED
    BY <1>1, <2>1, CancelCounts, FS_CardinalityType
<1>6. ArmedIn(FinishExpiry(t, e)) \subseteq ArmedIn(t)
  BY FinishExpiryEffect DEF ArmedIn, IsWaiting
<1>7. FinishExpiry(t, e) = IF e.via = "start" THEN CancelTimer(rest, e.timer) ELSE rest
  BY DEF FinishExpiry
<1> HIDE DEF rest
<1> QED
  BY <1>2, <1>3, <1>5, <1>6, <1>7

LEMMA RemainingType ==
    ASSUME TypeOK
    PROVE  /\ StepsLeft(rdRes) + StepsLeft(wrRes) \in Nat
           /\ IsFiniteSet(Armed) /\ Cardinality(Armed) \in Nat
           /\ Cardinality(tm.fired) \in Nat /\ Len(posted) \in Nat
<1>1. IsFiniteSet(Armed) /\ IsFiniteSet(tm.fired)
  BY FiniteTimers, FS_Subset DEF Armed, TypeOK, TimerState
<1> QED
  BY <1>1, FS_CardinalityType DEF StepsLeft, TypeOK

\* How a step may go below: by its first, second, third or fourth count.
LEMMA GoesBelow ==
    ASSUME \/ StepsLeft(rdRes') + StepsLeft(wrRes') < StepsLeft(rdRes) + StepsLeft(wrRes)
           \/ /\ UNCHANGED <<rdRes, wrRes>>
              /\ \/ Cardinality(Armed') < Cardinality(Armed)
                 \/ /\ Cardinality(Armed') = Cardinality(Armed)
                    /\ \/ Cardinality(tm'.fired) < Cardinality(tm.fired)
                       \/ tm' = tm /\ Len(posted') < Len(posted)
    PROVE  Below(Remaining', Remaining)
<1> DEFINE r == Remaining'
           s == Remaining
<1>1. /\ r[1] = StepsLeft(rdRes') + StepsLeft(wrRes') /\ s[1] = StepsLeft(rdRes) + StepsLeft(wrRes)
      /\ r[2] = Cardinality(Armed') /\ s[2] = Cardinality(Armed)
      /\ r[3] = Cardinality(tm'.fired) /\ s[3] = Cardinality(tm.fired)
      /\ r[4] = Len(posted') /\ s[4] = Len(posted)
  BY DEF Remaining
<1> HIDE DEF r, s
<1>2. CASE r[1] < s[1]
  BY <1>2 DEF Below, r, s
<1>3. CASE r[1] = s[1] /\ r[2] < s[2]
  <2>1. \A j \in 1..(2 - 1) : j = 1
    OBVIOUS
  <2> QED
    BY <1>3, <2>1 DEF Below, r, s
<1>4. CASE r[1] = s[1] /\ r[2] = s[2] /\ r[3] < s[3]
  <2>1. \A j \in 1..(3 - 1) : j = 1 \/ j = 2
    OBVIOUS
  <2> QED
    BY <1>4, <2>1 DEF Below, r, s
<1>5. CASE r[1] = s[1] /\ r[2] = s[2] /\ r[3] = s[3] /\ r[4] < s[4]
  <2>1. \A j \in 1..(4 - 1) : j = 1 \/ j = 2 \/ j = 3
    OBVIOUS
  <2> QED
    BY <1>5, <2>1 DEF Below, r, s
<1> QED
  BY <1>1, <1>2, <1>3, <1>4, <1>5

LEMMA ClosedStep ==
    ASSUME TypeOK, ShutState, closed, Next, ~User
    PROVE  Below(Remaining', Remaining)
<1> USE DEF closeVars, readVars, writeVars
<1>0. /\ rdRes # "pending" /\ wrRes # "pending" /\ started
      /\ rdRes \in Results /\ wrRes \in Results /\ posted \in Seq(Task) /\ tm \in TimerState
  BY DEF ShutState, TypeOK
<1>1. ~Kernel /\ ~Start
  BY <1>0 DEF Kernel, HeaderArrives, BodyArrives, ReadFails, WriteCompletes, WriteFails,
              PartRead, PartWritten, Start
<1>2. ASSUME NEW k \in TimerKinds, Expire(k) PROVE Below(Remaining', Remaining)
  <2>1. tm' = ExpireTimer(tm, k) /\ k \in Armed /\ UNCHANGED <<rdRes, wrRes>>
    BY <1>2 DEF Expire, Armed
  <2>2. Armed' = Armed \ {k}
    BY <1>0, <2>1, ExpireTimerEffect DEF Armed, IsWaiting
  <2>3. Cardinality(Armed') < Cardinality(Armed)
    <3>1. Cardinality(Armed \ {k}) = Cardinality(Armed) - 1
      BY <2>1, RemainingType, FS_RemoveElement
    <3> QED
      BY <2>2, <3>1, RemainingType
  <2> QED
    BY <2>1, <2>3, GoesBelow
<1>3. CASE RunTask
  <2>1. UNCHANGED <<rdRes, wrRes, tm>> /\ posted # << >> /\ posted' = Tail(posted)
    BY <1>3 DEF RunTask, RunSend, RunClose, CloseIsDone, NextTaskIs
  <2>2. Len(posted') < Len(posted) /\ Armed' = Armed
    BY <1>0, <2>1 DEF Armed
  <2> QED
    BY <2>1, <2>2, GoesBelow
<1>4. CASE RunRead \/ RunWrite
  <2>1. Transfer = "error"
    BY DEF Transfer, SocketOpen
  <2>2. CASE RunRead
    <3>1. \/ rdRes \in {"ok", "part"} /\ rdRes' \in {"none", "error"}
          \/ Failed(rdRes) /\ rdRes' = "none"
      BY <2>1, <2>2 DEF RunRead, ReadOn, HeaderRead, SocketOpen, BodyRead, DoRead, ReadFailed
    <3>2. wrRes' = wrRes
      BY <2>2 DEF RunRead, ReadOn, HeaderRead, BodyRead, ReadFailed
    <3> QED
      BY <3>1, <3>2, RemainingType, GoesBelow DEF StepsLeft, Failed
  <2>3. CASE RunWrite
    <3>1. \/ wrRes \in {"ok", "part"} /\ wrRes' \in {"none", "error"}
          \/ Failed(wrRes) /\ wrRes' = "none"
      BY <2>1, <2>3 DEF RunWrite, WriteOn, FrameWritten, DoSend, WriteFailed
    <3>2. rdRes' = rdRes
      BY <2>3 DEF RunWrite, WriteOn, FrameWritten, WriteFailed
    <3> QED
      BY <3>1, <3>2, RemainingType, GoesBelow DEF StepsLeft, Failed
  <2> QED
    BY <1>4, <2>2, <2>3
<1>5. ASSUME NEW e \in tm.fired, RunExpiry(e) PROVE Below(Remaining', Remaining)
  <2>1. tm' = FinishExpiry(tm, e) /\ UNCHANGED <<rdRes, wrRes>>
    BY <1>0, <1>5 DEF RunExpiry, OpTimeout, Aborted, HeartbeatTimeout, HeartbeatSend
  <2>2. Cardinality(tm'.fired) < Cardinality(tm.fired) /\ Armed' \subseteq Armed
    BY <1>0, <2>1, FinishCounts DEF Armed, ArmedIn
  <2>3. Cardinality(Armed') < Cardinality(Armed) \/ Cardinality(Armed') = Cardinality(Armed)
    <3>1. IsFiniteSet(Armed') /\ Cardinality(Armed') <= Cardinality(Armed)
      BY <2>2, RemainingType, FS_Subset
    <3>2. Cardinality(Armed') \in Nat
      BY <3>1, FS_CardinalityType
    <3> QED
      BY <3>1, <3>2, RemainingType
  <2> QED
    BY <2>1, <2>2, <2>3, GoesBelow
<1> QED
  BY <1>1, <1>2, <1>3, <1>4, <1>5 DEF Next, Clock, IOThread

\* Once closed_ is set every step that is no call of a user brings the connection
\* closer to its end.  With NobodyWaitedFor this is the whole of why close()
\* completes but for the scheduling: there are finitely many such steps, and
\* until the last of them the I/O thread has one to take.
THEOREM CloseRunsOut == Spec => ClosedWindsDown
<1>1. ChannelInv /\ [Next]_vars => [closed /\ ~User => Below(Remaining', Remaining)]_vars
  BY ClosedStep DEF ChannelInv, OrderInv
<1> QED
  BY <1>1, ChannelInvariant, PTL DEF Spec, ClosedWindsDown
=============================================================================
