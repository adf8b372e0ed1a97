--------------------------- MODULE ConnectionProofs ---------------------------
(***************************************************************************)
(* Theorems about Connection, for every choice of timeouts, frame kinds    *)
(* and bounds.                                                             *)
(***************************************************************************)
EXTENDS Connection, TLAPS

-----------------------------------------------------------------------------
(* The operators of timeout_manager.h and outbox_queue.h keep the type of  *)
(* the state they are applied to.                                          *)

LEMMA StartTimerType ==
    ASSUME NEW t \in TimerState, NEW k \in TimerKinds
    PROVE  StartTimer(t, k) \in TimerState
BY DEF StartTimer, TimerState, EntryState

LEMMA CancelTimerType ==
    ASSUME NEW t \in TimerState, NEW k \in TimerKinds
    PROVE  CancelTimer(t, k) \in TimerState
<1>1. \A e \in t.fired : Orphaned(e, k) \in Expiry
  BY DEF TimerState, Expiry, Orphaned
<1>2. [t.map EXCEPT ![k] = "absent"] \in [TimerKinds -> EntryState]
  BY DEF TimerState, EntryState
<1> QED
  BY <1>1, <1>2 DEF CancelTimer, TimerState

LEMMA ResetTimerType ==
    ASSUME NEW t \in TimerState, NEW k \in TimerKinds
    PROVE  ResetTimer(t, k) \in TimerState
BY DEF ResetTimer, TimerState, EntryState

LEMMA ExpireTimerType ==
    ASSUME NEW t \in TimerState, NEW k \in TimerKinds, IsWaiting(t, k)
    PROVE  ExpireTimer(t, k) \in TimerState
<1>1. [timer |-> k, via |-> t.map[k]] \in Expiry
  BY DEF IsWaiting, Expiry
<1>2. [t.map EXCEPT ![k] = "expired"] \in [TimerKinds -> EntryState]
  BY DEF TimerState, EntryState
<1> QED
  BY <1>1, <1>2 DEF ExpireTimer, TimerState

LEMMA FinishExpiryType ==
    ASSUME NEW t \in TimerState, NEW e \in t.fired
    PROVE  FinishExpiry(t, e) \in TimerState
<1> DEFINE rest == [t EXCEPT !.fired = @ \ {e}]
<1>1. rest \in TimerState /\ e.timer \in TimerKinds
  BY DEF TimerState, Expiry
<1>2. CancelTimer(rest, e.timer) \in TimerState
  BY <1>1, CancelTimerType
<1> QED
  BY <1>1, <1>2 DEF FinishExpiry

LEMMA PushAndClaimType ==
    ASSUME NEW ob \in OutboxState(Nat), NEW f \in Nat
    PROVE  PushAndClaim(ob, f) \in OutboxState(Nat)
BY DEF OutboxState, PushAndClaim

LEMMA PopAndNextType ==
    ASSUME NEW ob \in OutboxState(Nat), HasFront(ob)
    PROVE  PopAndNext(ob) \in OutboxState(Nat)
<1>1. Tail(ob.queue) \in Seq(Nat)
  BY DEF OutboxState, HasFront
<1>2. (ob.isWriting /\ Tail(ob.queue) # << >>) \in BOOLEAN /\ ob.closed \in BOOLEAN
  BY DEF OutboxState
<1> QED
  BY <1>1, <1>2 DEF OutboxState, PopAndNext

LEMMA TaskType == CloseTask \in Task /\ \A n \in Nat : SendTask(n) \in Task
BY DEF CloseTask, SendTask, Task

LEMMA AppendTaskType ==
    ASSUME NEW queue \in Seq(Task)
    PROVE  /\ Append(queue, CloseTask) \in Seq(Task)
           /\ \A n \in Nat : Append(queue, SendTask(n)) \in Seq(Task)
BY TaskType

LEMMA InitType == Init => TypeOK
<1> SUFFICES ASSUME Init PROVE TypeOK
  OBVIOUS
<1>1. EmptyOutbox \in OutboxState(Nat)
  BY DEF EmptyOutbox, OutboxState
<1>2. NoTimers \in TimerState
  BY DEF NoTimers, TimerState, EntryState
<1>3. posted \in Seq(Task) /\ wire \in Seq(Nat) /\ received \in Seq(FrameKinds)
      /\ delivered \in Seq(Nat)
  BY DEF Init
<1>4. logged \in SUBSET LogKinds
  BY DEF Init
<1> QED
  BY <1>1, <1>2, <1>3, <1>4 DEF Init, TypeOK, Results, ReadOps

\* Types and the outbox need each other: popping a frame keeps the type of the
\* outbox only because its writer never pops an empty one.
LEMMA TypeStep == TypeOK /\ OutboxWriter /\ [Next]_vars => TypeOK'
<1> SUFFICES ASSUME TypeOK, OutboxWriter, [Next]_vars PROVE TypeOK'
  OBVIOUS
<1> USE DEF TypeOK, closeVars, sendVars, writeVars, readVars, Results, ReadOps
<1>1. CASE SendCall
  BY <1>1, TaskType DEF SendCall
<1>2. CASE CloseCall
  BY <1>2, TaskType DEF CloseCall
<1>3. CASE CloseMessageQueue
  BY <1>3 DEF CloseMessageQueue
<1>4. ASSUME NEW kind \in FrameKinds, HeaderArrives(kind) PROVE TypeOK'
  BY <1>4 DEF HeaderArrives
<1>5. CASE BodyArrives
  BY <1>5 DEF BodyArrives
<1>6. ASSUME NEW res \in {"eof", "error"}, ReadFails(res) PROVE TypeOK'
  BY <1>6 DEF ReadFails
<1>7. CASE WriteCompletes
  BY <1>7 DEF WriteCompletes
<1>8. CASE WriteFails
  BY <1>8 DEF WriteFails
<1>9. CASE PartRead \/ PartWritten
  BY <1>9 DEF PartRead, PartWritten
<1>10. ASSUME NEW k \in TimerKinds, Expire(k) PROVE TypeOK'
  <2>1. tm' \in TimerState
    BY <1>10, ExpireTimerType DEF Expire
  <2> QED
    BY <1>10, <2>1 DEF Expire
<1>11. CASE Start
  <2>1. StartTimer(StartTimer(tm, "hbTimeout"), "hbSend") \in TimerState
    BY StartTimerType DEF TimerKinds, HeartbeatTimers
  <2>2. tm' \in TimerState
    BY <1>11, <2>1, StartTimerType, ResetTimerType
       DEF Start, DoRead, TimerKinds, OpTimers, HeartbeatTimers
  <2> QED
    BY <1>11, <2>2 DEF Start, DoRead, Transfer
<1>12. CASE RunSend
  <2> Head(posted) \in Task /\ Tail(posted) \in Seq(Task)
    BY <1>12 DEF RunSend, NextTaskIs
  <2>1. Head(posted).frame \in Nat
    BY DEF Task, SendTask, CloseTask
  <2>2. PushAndClaim(outbox, Head(posted).frame) \in OutboxState(Nat)
    BY <2>1, PushAndClaimType
  <2>3. StartTimer(tm, "send") \in TimerState
    BY StartTimerType DEF TimerKinds, OpTimers
  <2> QED
    BY <1>12, <2>1, <2>2, <2>3 DEF RunSend, DoSend, Transfer
<1>13. CASE RunClose
  <2>1. Tail(posted) \in Seq(Task)
    BY <1>13 DEF RunClose, NextTaskIs
  <2>2. CancelTimer(CancelTimer(tm, "hbTimeout"), "hbSend") \in TimerState
    BY CancelTimerType DEF TimerKinds, HeartbeatTimers
  <2>3. CloseOutbox(outbox) \in OutboxState(Nat)
    BY DEF CloseOutbox, OutboxState
  <2>4. CASE CloseIsDone
    BY <1>13, <2>1, <2>4 DEF RunClose
  <2>5. CASE ~CloseIsDone
    BY <1>13, <2>1, <2>2, <2>3, <2>5 DEF RunClose, Aborted
  <2> QED
    BY <2>4, <2>5
<1>14. CASE ReadOn \/ WriteOn
  BY <1>14 DEF ReadOn, WriteOn, Transfer
<1>15. CASE HeaderRead
  <2> DEFINE t == CancelTimer(tm, "read")
             renewed == IF WatchesHeartbeat THEN ResetTimer(t, "hbTimeout") ELSE t
  <2>1. renewed \in TimerState
    BY CancelTimerType, ResetTimerType DEF TimerKinds, OpTimers, HeartbeatTimers
  <2>2. StartTimer(renewed, "body") \in TimerState
    BY <2>1, StartTimerType DEF TimerKinds, OpTimers
  <2>3. tm' \in TimerState
    BY <1>15, <2>1, <2>2 DEF HeaderRead
  <2> posted' = posted \/ posted' = Append(posted, CloseTask)
    BY <1>15 DEF HeaderRead, PostClose
  <2>4. posted' \in Seq(Task)
    BY AppendTaskType
  <2>5. rdOp' \in ReadOps /\ rdRes' \in Results
    BY <1>15 DEF HeaderRead, Transfer
  <2> QED
    BY <1>15, <2>3, <2>4, <2>5 DEF HeaderRead
<1>16. CASE BodyRead
  <2>1. tm' \in TimerState
    BY <1>16, CancelTimerType, StartTimerType DEF BodyRead, DoRead, TimerKinds, OpTimers
  <2>2. delivered' \in Seq(Nat)
    BY <1>16 DEF BodyRead
  <2> QED
    BY <1>16, <2>1, <2>2 DEF BodyRead, DoRead, Transfer
<1>17. CASE ReadFailed
  <2>1. tm' \in TimerState
    BY <1>17, CancelTimerType DEF ReadFailed, TimerKinds, OpTimers
  <2> posted' = posted \/ posted' = Append(posted, CloseTask)
    BY <1>17 DEF ReadFailed, ReportFailure, PostClose
  <2>2. posted' \in Seq(Task)
    BY AppendTaskType
  <2>3. logged' \in SUBSET LogKinds
    BY <1>17 DEF ReadFailed, ReportFailure, LogKinds
  <2> QED
    BY <1>17, <2>1, <2>2, <2>3 DEF ReadFailed
<1>18. CASE FrameWritten
  <2>1. outbox' \in OutboxState(Nat)
    BY <1>18, PopAndNextType DEF FrameWritten, OutboxWriter
  <2>2. HasFront(outbox') => Head(outbox'.queue) \in Nat
    BY <2>1 DEF HasFront, OutboxState
  <2>3. tm' \in TimerState
    BY <1>18, CancelTimerType, StartTimerType DEF FrameWritten, DoSend, TimerKinds, OpTimers
  <2> QED
    BY <1>18, <2>1, <2>2, <2>3 DEF FrameWritten, DoSend, Transfer
<1>19. CASE WriteFailed
  <2>1. tm' \in TimerState
    BY <1>19, CancelTimerType DEF WriteFailed, TimerKinds, OpTimers
  <2> posted' = posted \/ posted' = Append(posted, CloseTask)
    BY <1>19 DEF WriteFailed, ReportFailure, PostClose
  <2>2. posted' \in Seq(Task)
    BY AppendTaskType
  <2>3. logged' \in SUBSET LogKinds
    BY <1>19 DEF WriteFailed, ReportFailure, LogKinds
  <2> QED
    BY <1>19, <2>1, <2>2, <2>3 DEF WriteFailed, AfterFailedWrite
<1>20. ASSUME NEW e \in tm.fired, OpTimeout(e) PROVE TypeOK'
  BY <1>20, FinishExpiryType DEF OpTimeout, Aborted
<1>21. ASSUME NEW e \in tm.fired, HeartbeatTimeout(e) PROVE TypeOK'
  BY <1>21, FinishExpiryType, TaskType DEF HeartbeatTimeout, PostClose, LogKinds
<1>22. ASSUME NEW e \in tm.fired, HeartbeatSend(e) PROVE TypeOK'
  <2>1. tm' \in TimerState
    BY <1>22, FinishExpiryType, ResetTimerType DEF HeartbeatSend, TimerKinds, HeartbeatTimers
  <2> \/ posted' = posted /\ sends' = sends
      \/ posted' = Append(posted, SendTask(sends')) /\ sends' = sends + 1
    BY <1>22 DEF HeartbeatSend
  <2>2. sends' \in Nat
    OBVIOUS
  <2>3. posted' \in Seq(Task)
    BY <2>2, AppendTaskType
  <2> QED
    BY <1>22, <2>1, <2>2, <2>3 DEF HeartbeatSend
<1>23. CASE UNCHANGED vars
  BY <1>23 DEF vars
<1> QED
  BY <1>1, <1>2, <1>3, <1>4, <1>5, <1>6, <1>7, <1>8, <1>9, <1>10, <1>11, <1>12, <1>13,
     <1>14, <1>15, <1>16, <1>17, <1>18, <1>19, <1>20, <1>21, <1>22, <1>23
     DEF Next, User, Kernel, Clock, IOThread, RunTask, RunRead, RunWrite, RunExpiry

-----------------------------------------------------------------------------
(* Which actions touch the variables of the write loop.                    *)

LEMMA WriteSteps ==
    ASSUME [Next]_vars
    PROVE  \/ UNCHANGED writeVars
           \/ WriteCompletes \/ WriteFails \/ PartWritten
           \/ WriteOn \/ RunSend \/ RunClose \/ FrameWritten \/ WriteFailed
           \/ \E e \in tm.fired : OpTimeout(e)
BY DEF Next, User, SendCall, CloseCall, CloseMessageQueue, Kernel, HeaderArrives,
       BodyArrives, ReadFails, PartRead, Clock, Expire, IOThread, Start, RunTask, RunRead,
       ReadOn, HeaderRead, BodyRead, ReadFailed, RunWrite, RunExpiry, HeartbeatTimeout,
       HeartbeatSend, vars

LEMMA WriterStep == TypeOK /\ OutboxWriter /\ [Next]_vars => OutboxWriter'
<1> SUFFICES ASSUME TypeOK, OutboxWriter, [Next]_vars PROVE OutboxWriter'
  OBVIOUS
<1> USE DEF OutboxWriter
<1>1. CASE UNCHANGED writeVars
  BY <1>1 DEF writeVars, HasFront
<1>2. CASE WriteCompletes \/ WriteFails \/ PartWritten \/ WriteOn
  BY <1>2 DEF WriteCompletes, WriteFails, PartWritten, WriteOn, HasFront
<1>3. CASE RunSend
  <2>1. CASE closed
    BY <1>3, <2>1 DEF RunSend, writeVars, HasFront
  <2>2. CASE ~closed /\ ~Claims(outbox)
    <3>1. UNCHANGED <<wrRes, wrFrame>> /\ outbox' = PushAndClaim(outbox, Head(posted).frame)
      BY <1>3, <2>2 DEF RunSend
    <3>2. CASE outbox.closed
      BY <3>1, <3>2 DEF PushAndClaim, HasFront
    <3>3. CASE ~outbox.closed /\ outbox.isWriting
      <4> DEFINE frame == Head(posted).frame
      <4>1. outbox'.queue = Append(outbox.queue, frame) /\ outbox'.isWriting
        BY <3>1, <3>3 DEF PushAndClaim
      <4>2. outbox.queue \in Seq(Nat) /\ outbox.queue # << >>
        BY <3>3 DEF TypeOK, OutboxState, HasFront
      <4>3. Append(outbox.queue, frame) # << >>
            /\ Head(Append(outbox.queue, frame)) = Head(outbox.queue)
        BY <4>2
      <4> QED
        BY <3>1, <4>1, <4>2, <4>3 DEF HasFront
    <3> QED
      BY <2>2, <3>2, <3>3 DEF Claims
  <2>3. CASE ~closed /\ Claims(outbox)
    BY <1>3, <2>3
       DEF RunSend, DoSend, TypeOK, OutboxState, PushAndClaim, Claims, HasFront
  <2> QED
    BY <2>1, <2>2, <2>3
<1>4. CASE RunClose
  BY <1>4 DEF RunClose, CloseOutbox, Aborted, TypeOK, OutboxState, HasFront
<1>5. CASE FrameWritten
  BY <1>5 DEF FrameWritten, DoSend, PopAndNext, TypeOK, OutboxState, HasFront
<1>6. CASE WriteFailed
  BY <1>6 DEF WriteFailed, AfterFailedWrite, HasFront
<1>7. ASSUME NEW e \in tm.fired, OpTimeout(e) PROVE OutboxWriter'
  BY <1>7 DEF OpTimeout, Aborted, HasFront
<1> QED
  BY <1>1, <1>2, <1>3, <1>4, <1>5, <1>6, <1>7, WriteSteps

\* Every variable keeps its type, for every choice of timeouts, frames and
\* bounds; in particular no step of the program reads or pops a frame that is
\* not there.
THEOREM TypeCorrect == Spec => []TypeOK
<1>1. Init => TypeOK /\ OutboxWriter
  BY InitType DEF Init, OutboxWriter, EmptyOutbox, HasFront
<1>2. TypeOK /\ OutboxWriter /\ [Next]_vars => (TypeOK /\ OutboxWriter)'
  BY TypeStep, WriterStep
<1> QED
  BY <1>1, <1>2, PTL DEF Spec

\* The outbox has one writer exactly while it holds frames, and the writer
\* writes its front (OutboxQueue::pushAndClaim and popAndNext under doSend).
THEOREM OneWriter == Spec => []OutboxWriter
<1>1. Init => TypeOK /\ OutboxWriter
  BY InitType DEF Init, OutboxWriter, EmptyOutbox, HasFront
<1>2. TypeOK /\ OutboxWriter /\ [Next]_vars => (TypeOK /\ OutboxWriter)'
  BY TypeStep, WriterStep
<1> QED
  BY <1>1, <1>2, PTL DEF Spec

-----------------------------------------------------------------------------
(* Closing.                                                                *)

LEMMA CloseSteps == [Next]_vars => RunClose \/ UNCHANGED <<closed, callbacks>>
BY DEF Next, User, SendCall, CloseCall, CloseMessageQueue, Kernel, HeaderArrives,
       BodyArrives, ReadFails, WriteCompletes, WriteFails, PartRead, PartWritten, Clock,
       Expire, IOThread, Start, RunTask, RunSend, RunRead, ReadOn, HeaderRead, BodyRead,
       ReadFailed, RunWrite, WriteOn, FrameWritten, WriteFailed, RunExpiry, OpTimeout,
       HeartbeatTimeout, HeartbeatSend, vars, closeVars

\* A posted close handler stays posted until a close handler runs.
LEMMA ClosePostedStep ==
    ASSUME TypeOK, [Next]_vars, ClosePosted
    PROVE  ClosePosted' \/ closed'
<1>1. PICK i \in DOMAIN posted : posted[i] = CloseTask
  BY DEF ClosePosted
<1>2. posted \in Seq(Task)
  BY DEF TypeOK
<1>3. CASE posted' = posted
  BY <1>3 DEF ClosePosted
<1>4. ASSUME NEW task, posted' = Append(posted, task) PROVE ClosePosted'
  BY <1>1, <1>2, <1>4 DEF ClosePosted
<1>5. CASE RunSend
  <2>1. Head(posted) # CloseTask /\ posted' = Tail(posted) /\ posted # << >>
    BY <1>5 DEF RunSend, NextTaskIs, CloseTask
  <2>2. i # 1
    BY <1>1, <1>2, <2>1
  <2>3. i - 1 \in DOMAIN posted' /\ posted'[i - 1] = CloseTask
    BY <1>1, <1>2, <2>1, <2>2
  <2> QED
    BY <2>3 DEF ClosePosted
<1>6. CASE RunClose
  BY <1>6 DEF RunClose, CloseIsDone
<1>7. \/ posted' = posted \/ RunSend \/ RunClose
      \/ posted' = Append(posted, CloseTask) \/ \E n : posted' = Append(posted, SendTask(n))
  BY DEF Next, User, SendCall, CloseCall, CloseMessageQueue, Kernel, HeaderArrives,
         BodyArrives, ReadFails, WriteCompletes, WriteFails, PartRead, PartWritten, Clock,
         Expire, IOThread, Start, RunTask, RunRead, ReadOn, HeaderRead, BodyRead,
         ReadFailed, RunWrite, WriteOn, FrameWritten, WriteFailed, RunExpiry, OpTimeout,
         HeartbeatTimeout, HeartbeatSend, vars, ReportFailure, PostClose
<1> QED
  BY <1>3, <1>4, <1>5, <1>6, <1>7

LEMMA CallbackStep == TypeOK /\ CallbackOnce /\ [Next]_vars => CallbackOnce'
<1> SUFFICES ASSUME TypeOK, CallbackOnce, [Next]_vars PROVE CallbackOnce'
  OBVIOUS
<1>1. CASE RunClose
  BY <1>1 DEF RunClose, CloseIsDone, CallbackOnce, TypeOK
<1>2. CASE UNCHANGED <<closed, callbacks>>
  BY <1>2 DEF CallbackOnce
<1> QED
  BY <1>1, <1>2, CloseSteps

\* The disconnect callback runs once per connection: the close handlers that
\* the loops, the timers and the owner post after the first do nothing.
THEOREM CallbackAtMostOnce == Spec => []CallbackOnce
<1>1. Init => TypeOK /\ OutboxWriter /\ CallbackOnce
  BY InitType DEF Init, OutboxWriter, EmptyOutbox, HasFront, CallbackOnce
<1>2. TypeOK /\ OutboxWriter /\ CallbackOnce /\ [Next]_vars
         => (TypeOK /\ OutboxWriter /\ CallbackOnce)'
  BY TypeStep, WriterStep, CallbackStep
<1> QED
  BY <1>1, <1>2, PTL DEF Spec

-----------------------------------------------------------------------------
(* The ends of the two loops.                                              *)

LEMMA ReadOpSteps ==
    ASSUME [Next]_vars
    PROVE  \/ UNCHANGED <<started, rdOp>>
           \/ Start \/ HeaderRead \/ BodyRead \/ ReadFailed
BY DEF Next, User, SendCall, CloseCall, CloseMessageQueue, Kernel, HeaderArrives,
       BodyArrives, ReadFails, WriteCompletes, WriteFails, PartRead, PartWritten, Clock,
       Expire, IOThread, RunTask, RunSend, RunClose, RunRead, ReadOn, RunWrite, WriteOn,
       FrameWritten, WriteFailed, RunExpiry, OpTimeout, HeartbeatTimeout, HeartbeatSend,
       vars, closeVars, readVars

\* A close handler that is posted can be found.
LEMMA PostClosePosts == TypeOK /\ PostClose => ClosePosted'
<1> SUFFICES ASSUME TypeOK, PostClose PROVE ClosePosted'
  OBVIOUS
<1>1. posted' = Append(posted, CloseTask) /\ posted \in Seq(Task)
  BY DEF PostClose, TypeOK
<1>2. Len(posted) + 1 \in DOMAIN posted' /\ posted'[Len(posted) + 1] = CloseTask
  BY <1>1
<1> QED
  BY <1>2 DEF ClosePosted

LEMMA ReportFailureCloses ==
    ASSUME TypeOK, NEW res, NEW what, ReportFailure(res, what)
    PROVE  closed \/ ClosePosted'
BY PostClosePosts DEF ReportFailure

ReadLoopOver == started /\ rdOp = "none"
WriteLoopOver == outbox.isWriting /\ wrRes = "none"

LEMMA ReadLoopEnds ==
    ASSUME TypeOK, [Next]_vars, ReadLoopOver'
    PROVE  ReadLoopOver \/ closed \/ ClosePosted'
<1>1. CASE UNCHANGED <<started, rdOp>>
  BY <1>1 DEF ReadLoopOver
<1>2. CASE Start \/ BodyRead
  BY <1>2 DEF Start, BodyRead, DoRead, ReadLoopOver
<1>3. CASE HeaderRead
  BY <1>3, PostClosePosts DEF HeaderRead, ReadLoopOver
<1>4. CASE ReadFailed
  BY <1>4, ReportFailureCloses DEF ReadFailed
<1> QED
  BY <1>1, <1>2, <1>3, <1>4, ReadOpSteps

LEMMA WriteLoopEnds ==
    ASSUME TypeOK, OutboxWriter, [Next]_vars, WriteLoopOver'
    PROVE  WriteLoopOver \/ closed \/ ClosePosted'
<1>1. CASE UNCHANGED writeVars
  BY <1>1 DEF WriteLoopOver, writeVars
<1>2. CASE WriteCompletes \/ WriteFails \/ PartWritten \/ WriteOn
  BY <1>2 DEF WriteCompletes, WriteFails, PartWritten, WriteOn, Transfer, WriteLoopOver
<1>3. CASE RunSend
  <2>1. CASE closed
    BY <2>1
  <2>2. CASE Claims(outbox) /\ ~closed
    BY <1>3, <2>2 DEF RunSend, DoSend, Transfer, WriteLoopOver
  <2>3. CASE ~Claims(outbox) /\ ~closed
    BY <1>3, <2>3 DEF RunSend, Claims, PushAndClaim, WriteLoopOver
  <2> QED
    BY <2>1, <2>2, <2>3
<1>4. CASE RunClose
  BY <1>4 DEF RunClose, CloseIsDone, CloseOutbox, Aborted, WriteLoopOver, TypeOK, OutboxState
<1>5. CASE FrameWritten
  <2>1. ~HasFront(outbox') => ~outbox'.isWriting
    BY <1>5 DEF FrameWritten, PopAndNext, HasFront
  <2>2. HasFront(outbox') => wrRes' # "none"
    BY <1>5 DEF FrameWritten, DoSend, Transfer
  <2> QED
    BY <2>1, <2>2 DEF WriteLoopOver
<1>6. CASE WriteFailed
  BY <1>6, ReportFailureCloses DEF WriteFailed
<1>7. ASSUME NEW e \in tm.fired, OpTimeout(e)
      PROVE  WriteLoopOver
  BY <1>7 DEF OpTimeout, Aborted, WriteLoopOver
<1> QED
  BY <1>1, <1>2, <1>3, <1>4, <1>5, <1>6, <1>7, WriteSteps

LEMMA ZombieStep == TypeOK /\ OutboxWriter /\ NoZombie /\ [Next]_vars => NoZombie'
<1> SUFFICES ASSUME TypeOK, OutboxWriter, NoZombie, [Next]_vars,
                    ReadLoopOver' \/ WriteLoopOver'
             PROVE  closed' \/ ClosePosted'
  BY DEF NoZombie, ReadLoopOver, WriteLoopOver
<1>1. closed => closed'
  BY CloseSteps DEF RunClose, CloseIsDone
<1>2. closed \/ ClosePosted \/ ClosePosted'
  BY ReadLoopEnds, WriteLoopEnds DEF NoZombie, ReadLoopOver, WriteLoopOver
<1> QED
  BY <1>1, <1>2, ClosePostedStep

\* No connection is left half alive: when the read loop or the write loop has
\* ended the connection is closed, or its close handler is posted.
THEOREM NoHalfOpenConnection == Spec => []NoZombie
<1>1. Init => TypeOK /\ OutboxWriter /\ NoZombie
  BY InitType DEF Init, OutboxWriter, EmptyOutbox, HasFront, NoZombie
<1>2. TypeOK /\ OutboxWriter /\ NoZombie /\ [Next]_vars
         => (TypeOK /\ OutboxWriter /\ NoZombie)'
  BY TypeStep, WriterStep, ZombieStep
<1> QED
  BY <1>1, <1>2, PTL DEF Spec

LEMMA DeadWriterStep ==
    ASSUME TypeOK, OutboxWriter, [Next]_vars, WriterDead
    PROVE  WriterDead' /\ wire' = wire
<1> USE DEF WriterDead, Failed
<1>1. CASE UNCHANGED writeVars
  BY <1>1 DEF writeVars
<1>2. CASE WriteCompletes \/ WriteFails \/ PartWritten \/ WriteOn \/ FrameWritten
  BY <1>2 DEF WriteCompletes, WriteFails, PartWritten, WriteOn, FrameWritten
<1>3. CASE RunSend
  <2>1. outbox.isWriting
    BY DEF OutboxWriter
  <2>2. ~Claims(outbox)
    BY <2>1 DEF Claims
  <2>3. wire' = wire /\ wrRes' = wrRes
    BY <1>3, <2>2 DEF RunSend, writeVars
  <2>4. outbox'.isWriting
    BY <1>3, <2>1 DEF RunSend, PushAndClaim, writeVars
  <2> QED
    BY <2>3, <2>4
<1>4. CASE RunClose
  BY <1>4 DEF RunClose, CloseOutbox, Aborted, TypeOK, OutboxState
<1>5. CASE WriteFailed
  BY <1>5 DEF WriteFailed, AfterFailedWrite, OutboxWriter
<1>6. ASSUME NEW e \in tm.fired, OpTimeout(e) PROVE WriterDead' /\ wire' = wire
  BY <1>6 DEF OpTimeout, Aborted
<1> QED
  BY <1>1, <1>2, <1>3, <1>4, <1>5, <1>6, WriteSteps

\* After a failed write, which may have put part of a frame on the wire, no
\* other frame of the connection is written.
THEOREM FailedWriteIsLast == Spec => NothingAfterFailedWrite
<1>1. Init => TypeOK /\ OutboxWriter
  BY InitType DEF Init, OutboxWriter, EmptyOutbox, HasFront
<1>2. TypeOK /\ OutboxWriter /\ [Next]_vars => (TypeOK /\ OutboxWriter)'
  BY TypeStep, WriterStep
<1>3. TypeOK /\ OutboxWriter /\ [Next]_vars
         => [WriterDead => WriterDead' /\ wire' = wire]_vars
  BY DeadWriterStep
<1> QED
  BY <1>1, <1>2, <1>3, PTL DEF Spec, NothingAfterFailedWrite

-----------------------------------------------------------------------------
(* The timers.  First, what the operators of TimeoutManager do to the entry *)
(* of every purpose and to the queued handlers.                            *)

LEMMA StartTimerEffect ==
    ASSUME NEW t \in TimerState, NEW k \in TimerKinds
    PROVE  /\ StartTimer(t, k).fired = t.fired
           /\ \A j \in TimerKinds : StartTimer(t, k).map[j] =
                 IF j = k /\ k \in Timeouts THEN "start" ELSE t.map[j]
BY DEF StartTimer, TimerState

LEMMA CancelTimerEffect ==
    ASSUME NEW t \in TimerState, NEW k \in TimerKinds
    PROVE  /\ \A e \in t.fired : e.timer # k => e \in CancelTimer(t, k).fired
           /\ \A j \in TimerKinds : CancelTimer(t, k).map[j] =
                 IF j = k THEN "absent" ELSE t.map[j]
BY DEF CancelTimer, Orphaned, TimerState

LEMMA ResetTimerEffect ==
    ASSUME NEW t \in TimerState, NEW k \in TimerKinds
    PROVE  /\ ResetTimer(t, k).fired = t.fired
           /\ \A j \in TimerKinds : ResetTimer(t, k).map[j] =
                 IF j = k /\ t.map[k] # "absent" THEN "reset" ELSE t.map[j]
BY DEF ResetTimer, TimerState

LEMMA ExpireTimerEffect ==
    ASSUME NEW t \in TimerState, NEW k \in TimerKinds
    PROVE  /\ t.fired \subseteq ExpireTimer(t, k).fired
           /\ [timer |-> k, via |-> t.map[k]] \in ExpireTimer(t, k).fired
           /\ \A j \in TimerKinds : ExpireTimer(t, k).map[j] =
                 IF j = k THEN "expired" ELSE t.map[j]
BY DEF ExpireTimer, TimerState

LEMMA FinishExpiryEffect ==
    ASSUME NEW t \in TimerState, NEW e \in t.fired
    PROVE  /\ \A f \in t.fired :
                 f # e /\ (f.timer # e.timer \/ e.via # "start") => f \in FinishExpiry(t, e).fired
           /\ \A j \in TimerKinds : FinishExpiry(t, e).map[j] =
                 IF j = e.timer /\ e.via = "start" THEN "absent" ELSE t.map[j]
<1> DEFINE rest == [t EXCEPT !.fired = @ \ {e}]
<1>1. rest \in TimerState /\ e.timer \in TimerKinds /\ rest.map = t.map
      /\ rest.fired = t.fired \ {e}
  BY DEF TimerState, Expiry
<1>2. /\ \A f \in rest.fired : f.timer # e.timer => f \in CancelTimer(rest, e.timer).fired
      /\ \A j \in TimerKinds : CancelTimer(rest, e.timer).map[j] =
            IF j = e.timer THEN "absent" ELSE rest.map[j]
  BY <1>1, CancelTimerEffect
<1>3. CASE e.via = "start"
  BY <1>1, <1>2, <1>3 DEF FinishExpiry
<1>4. CASE e.via # "start"
  BY <1>1, <1>4 DEF FinishExpiry
<1> QED
  BY <1>3, <1>4

\* A step that touches no timer, ends no operation and brings no operation of
\* one transfer back to the kernel.
Quiet ==
    /\ UNCHANGED <<tm, rdOp, started, closed>>
    /\ rdRes' = "none" <=> rdRes = "none"
    /\ wrRes' = "none" <=> wrRes = "none"
    /\ rdRes' = "pending" => rdRes \in {"pending", "part"}
    /\ wrRes' = "pending" => wrRes \in {"pending", "part"}
    /\ rdRes' = "part" => rdRes = "part" \/ rdOp \in Chunked
    /\ wrRes' = "part" => wrRes = "part" \/ "send" \in Chunked

LEMMA TimerSteps ==
    ASSUME [Next]_vars
    PROVE  \/ Quiet
           \/ \E k \in TimerKinds : Expire(k)
           \/ Start \/ RunSend \/ RunClose \/ HeaderRead \/ BodyRead \/ ReadFailed
           \/ FrameWritten \/ WriteFailed
           \/ \E e \in tm.fired : OpTimeout(e) \/ HeartbeatTimeout(e) \/ HeartbeatSend(e)
<1> USE DEF Quiet, closeVars, readVars, writeVars
<1>1. CASE User
  BY <1>1 DEF User, SendCall, CloseCall, CloseMessageQueue
<1>2. CASE Kernel
  BY <1>2 DEF Kernel, HeaderArrives, BodyArrives, ReadFails, WriteCompletes, WriteFails,
              PartRead, PartWritten
<1>3. CASE ReadOn \/ WriteOn
  BY <1>3 DEF ReadOn, WriteOn, Transfer
<1>4. CASE UNCHANGED vars
  BY <1>4 DEF vars
<1> QED
  BY <1>1, <1>2, <1>3, <1>4 DEF Next, Clock, IOThread, RunTask, RunRead, RunWrite, RunExpiry

LEMMA Kinds ==
    /\ OpTimers \subseteq TimerKinds
    /\ HeartbeatTimers \subseteq TimerKinds
    /\ "read" \in OpTimers /\ "body" \in OpTimers /\ "send" \in OpTimers
    /\ "hbTimeout" \in HeartbeatTimers /\ "hbSend" \in HeartbeatTimers
    /\ OpTimers \cap HeartbeatTimers = {}
BY DEF TimerKinds, OpTimers, HeartbeatTimers

\* The timer of an operation is never reset.
NoReset(t) == \A k \in OpTimers : t.map[k] # "reset"

LEMMA NoResetKept ==
    ASSUME NEW t \in TimerState, NEW k \in TimerKinds, NoReset(t)
    PROVE  /\ NoReset(StartTimer(t, k))
           /\ NoReset(CancelTimer(t, k))
           /\ NoReset(ExpireTimer(t, k))
           /\ k \in HeartbeatTimers => NoReset(ResetTimer(t, k))
<1>0. \A j \in OpTimers : j \in TimerKinds /\ j \notin HeartbeatTimers
  BY Kinds
<1>1. NoReset(StartTimer(t, k))
  <2>1. \A j \in TimerKinds : StartTimer(t, k).map[j] \in {"start", t.map[j]}
    BY StartTimerEffect
  <2> QED
    BY <1>0, <2>1 DEF NoReset
<1>2. NoReset(CancelTimer(t, k))
  <2>1. \A j \in TimerKinds : CancelTimer(t, k).map[j] \in {"absent", t.map[j]}
    BY CancelTimerEffect
  <2> QED
    BY <1>0, <2>1 DEF NoReset
<1>3. NoReset(ExpireTimer(t, k))
  <2>1. \A j \in TimerKinds : ExpireTimer(t, k).map[j] \in {"expired", t.map[j]}
    BY ExpireTimerEffect
  <2> QED
    BY <1>0, <2>1 DEF NoReset
<1>4. k \in HeartbeatTimers => NoReset(ResetTimer(t, k))
  <2>1. \A j \in TimerKinds : j # k => ResetTimer(t, k).map[j] = t.map[j]
    BY ResetTimerEffect
  <2> QED
    BY <1>0, <2>1 DEF NoReset
<1> QED
  BY <1>1, <1>2, <1>3, <1>4

\* What TimersOwned and PendingIsWatched rest on: an operation is outstanding
\* exactly while its loop says so, only an operation of several parts is ever
\* between two of them, and nothing happens before start().
LoopState ==
    /\ rdOp = "none" <=> rdRes = "none"
    /\ rdRes = "part" => rdOp \in Chunked
    /\ wrRes = "part" => "send" \in Chunked
    /\ ~started => rdOp = "none" /\ wrRes = "none" /\ ~closed
    /\ NoReset(tm)

LEMMA LoopStateStep == TypeOK /\ LoopState /\ [Next]_vars => LoopState'
<1> SUFFICES ASSUME TypeOK, LoopState, [Next]_vars PROVE LoopState'
  OBVIOUS
<1> USE DEF LoopState
<1>0. tm \in TimerState /\ NoReset(tm)
  BY DEF TypeOK
<1>1. CASE Quiet
  BY <1>1 DEF Quiet
<1>2. ASSUME NEW k \in TimerKinds, Expire(k) PROVE LoopState'
  BY <1>0, <1>2, NoResetKept DEF Expire, closeVars, writeVars, readVars
<1>3. CASE Start
  <2> DEFINE t1 == StartTimer(tm, "hbTimeout")
             t2 == StartTimer(t1, "hbSend")
             t3 == ResetTimer(t2, "hbSend")
  <2>1. t1 \in TimerState /\ NoReset(t1)
    BY <1>0, Kinds, StartTimerType, NoResetKept
  <2>2. t2 \in TimerState /\ NoReset(t2)
    BY <2>1, Kinds, StartTimerType, NoResetKept
  <2>3. t3 \in TimerState /\ NoReset(t3)
    BY <2>2, Kinds, ResetTimerType, NoResetKept
  <2>4. NoReset(StartTimer(t3, "read"))
    BY <2>3, Kinds, NoResetKept
  <2> QED
    BY <1>3, <2>4 DEF Start, DoRead, Transfer, writeVars
<1>4. CASE RunSend
  <2>1. NoReset(StartTimer(tm, "send"))
    BY <1>0, Kinds, NoResetKept
  <2> QED
    BY <1>0, <1>4, <2>1
       DEF RunSend, NextTaskIs, DoSend, Transfer, closeVars, readVars, writeVars
<1>5. CASE RunClose
  <2> DEFINE t == CancelTimer(tm, "hbTimeout")
  <2>1. t \in TimerState /\ NoReset(t)
    BY <1>0, Kinds, CancelTimerType, NoResetKept
  <2>2. NoReset(CancelTimer(t, "hbSend"))
    BY <2>1, Kinds, NoResetKept
  <2> QED
    BY <1>0, <1>5, <2>2 DEF RunClose, NextTaskIs, CloseIsDone, Aborted
<1>6. CASE HeaderRead
  <2> DEFINE t == CancelTimer(tm, "read")
             renewed == IF WatchesHeartbeat THEN ResetTimer(t, "hbTimeout") ELSE t
  <2>1. t \in TimerState /\ NoReset(t)
    BY <1>0, Kinds, CancelTimerType, NoResetKept
  <2>2. renewed \in TimerState /\ NoReset(renewed)
    BY <2>1, Kinds, ResetTimerType, NoResetKept
  <2>3. NoReset(StartTimer(renewed, "body"))
    BY <2>2, Kinds, NoResetKept
  <2>4. NoReset(tm')
    BY <1>6, <2>2, <2>3 DEF HeaderRead
  <2> QED
    BY <1>6, <2>4 DEF HeaderRead, Transfer, closeVars, writeVars
<1>7. CASE BodyRead
  <2>1. NoReset(StartTimer(CancelTimer(tm, "body"), "read"))
    BY <1>0, Kinds, CancelTimerType, NoResetKept
  <2> QED
    BY <1>7, <2>1 DEF BodyRead, DoRead, Transfer, closeVars, writeVars
<1>8. CASE ReadFailed
  <2>1. NoReset(CancelTimer(tm, "read")) /\ NoReset(CancelTimer(tm, "body"))
    BY <1>0, Kinds, NoResetKept
  <2> QED
    BY <1>8, <2>1 DEF ReadFailed, closeVars, writeVars
<1>9. CASE FrameWritten \/ WriteFailed
  <2> DEFINE t == CancelTimer(tm, "send")
  <2>1. t \in TimerState /\ NoReset(t)
    BY <1>0, Kinds, CancelTimerType, NoResetKept
  <2>2. NoReset(StartTimer(t, "send"))
    BY <2>1, Kinds, NoResetKept
  <2> QED
    BY <1>9, <2>1, <2>2 DEF FrameWritten, WriteFailed, DoSend, Transfer, closeVars, readVars
<1>10. ASSUME NEW e \in tm.fired, OpTimeout(e) \/ HeartbeatTimeout(e) \/ HeartbeatSend(e)
       PROVE  LoopState'
  <2> DEFINE t == FinishExpiry(tm, e)
  <2>1. t \in TimerState
    BY <1>0, FinishExpiryType
  <2>2. NoReset(t)
    BY <1>0, Kinds, FinishExpiryEffect DEF NoReset
  <2>3. NoReset(ResetTimer(t, "hbSend"))
    BY <2>1, <2>2, Kinds, NoResetKept
  <2>4. NoReset(tm')
    BY <1>10, <2>2, <2>3 DEF OpTimeout, HeartbeatTimeout, HeartbeatSend
  <2> QED
    BY <1>10, <2>4
       DEF OpTimeout, HeartbeatTimeout, HeartbeatSend, Aborted, closeVars, readVars, writeVars
<1> QED
  BY <1>1, <1>2, <1>3, <1>4, <1>5, <1>6, <1>7, <1>8, <1>9, <1>10, TimerSteps

LEMMA TimersOwnedStep ==
    TypeOK /\ LoopState /\ TimersOwned /\ [Next]_vars => TimersOwned'
<1> SUFFICES ASSUME TypeOK, LoopState, TimersOwned, [Next]_vars PROVE TimersOwned'
  OBVIOUS
<1> USE DEF TimersOwned
<1>0. tm \in TimerState
  BY DEF TypeOK
<1>1. CASE Quiet
  BY <1>1 DEF Quiet
<1>2. ASSUME NEW k \in TimerKinds, Expire(k) PROVE TimersOwned'
  <2>1. tm.map[k] # "absent"
    BY <1>2 DEF Expire, IsWaiting
  <2>2. \A j \in TimerKinds : tm'.map[j] = "absent" <=> tm.map[j] = "absent"
    BY <1>0, <1>2, <2>1, ExpireTimerEffect DEF Expire
  <2> QED
    BY <1>2, <2>2, Kinds DEF Expire, closeVars, writeVars, readVars
<1>3. CASE Start
  <2> DEFINE t1 == StartTimer(tm, "hbTimeout")
             t2 == StartTimer(t1, "hbSend")
             t3 == ResetTimer(t2, "hbSend")
  <2>1. t1 \in TimerState /\ t2 \in TimerState /\ t3 \in TimerState
    BY <1>0, Kinds, StartTimerType, ResetTimerType
  <2>2. \A j \in OpTimers : t1.map[j] = tm.map[j]
    BY <1>0, Kinds, StartTimerEffect
  <2>3. \A j \in OpTimers : t2.map[j] = t1.map[j]
    BY <2>1, Kinds, StartTimerEffect
  <2>4. \A j \in OpTimers : t3.map[j] = t2.map[j]
    BY <2>1, Kinds, ResetTimerEffect
  <2>5. \A j \in OpTimers \ {"read"} : tm'.map[j] = tm.map[j]
    BY <1>3, <2>1, <2>2, <2>3, <2>4, Kinds, StartTimerEffect DEF Start, DoRead
  <2>6. started' /\ ~closed' /\ rdOp' = "header" /\ wrRes' = wrRes
    BY <1>3 DEF Start, DoRead, LoopState, writeVars
  <2>7. tm'.map["body"] = "absent" /\ tm'.map["send"] = tm.map["send"]
    BY <1>3, <2>5, Kinds DEF Start, LoopState
  <2> QED
    BY <2>6, <2>7
<1>4. CASE RunSend
  <2>1. CASE UNCHANGED <<wrRes, tm>>
    BY <1>4, <2>1 DEF RunSend, closeVars, readVars
  <2>2. CASE DoSend(tm, Head(posted).frame)
    <3>1. \A j \in TimerKinds \ {"send"} : tm'.map[j] = tm.map[j]
      BY <1>0, <2>2, Kinds, StartTimerEffect DEF DoSend
    <3>2. wrRes' # "none"
      BY <2>2 DEF DoSend, Transfer
    <3> QED
      BY <1>4, <3>1, <3>2, Kinds DEF RunSend, closeVars, readVars
  <2> QED
    BY <1>4, <2>1, <2>2 DEF RunSend, writeVars
<1>5. CASE RunClose
  <2>1. CASE closed
    BY <1>5, <2>1 DEF RunClose, CloseIsDone
  <2>2. CASE ~closed
    <3> DEFINE t == CancelTimer(tm, "hbTimeout")
    <3>1. tm' = CancelTimer(t, "hbSend")
      BY <1>5, <2>2 DEF RunClose, CloseIsDone
    <3>2. t \in TimerState
      BY <1>0, Kinds, CancelTimerType
    <3>3. \A j \in TimerKinds : t.map[j] = IF j = "hbTimeout" THEN "absent" ELSE tm.map[j]
      BY <1>0, Kinds, CancelTimerEffect
    <3>5. \A j \in TimerKinds : tm'.map[j] = IF j = "hbSend" THEN "absent" ELSE t.map[j]
      BY <3>1, <3>2, Kinds, CancelTimerEffect
    <3>6. tm'.map["hbTimeout"] = "absent" /\ tm'.map["hbSend"] = "absent"
      BY <3>3, <3>5, Kinds
    <3>7. \A j \in OpTimers : tm'.map[j] = tm.map[j]
      BY <3>3, <3>5, Kinds
    <3>4. rdOp' = rdOp /\ (wrRes' = "none" => wrRes = "none")
      BY <1>5, <2>2 DEF RunClose, CloseIsDone, Aborted
    <3> QED
      BY <3>6, <3>7, <3>4, Kinds DEF HeartbeatTimers
  <2> QED
    BY <2>1, <2>2
<1>6. CASE HeaderRead
  <2> DEFINE t == CancelTimer(tm, "read")
             renewed == IF WatchesHeartbeat THEN ResetTimer(t, "hbTimeout") ELSE t
  <2>1. t \in TimerState /\ renewed \in TimerState
    BY <1>0, Kinds, CancelTimerType, ResetTimerType
  <2>2. \A j \in TimerKinds : t.map[j] = IF j = "read" THEN "absent" ELSE tm.map[j]
    BY <1>0, Kinds, CancelTimerEffect
  <2>3. \A j \in TimerKinds : renewed.map[j] = "absent" <=> t.map[j] = "absent"
    BY <2>1, Kinds, ResetTimerEffect
  <2>4. \A j \in TimerKinds \ {"body"} :
           StartTimer(renewed, "body").map[j] = renewed.map[j]
    BY <2>1, Kinds, StartTimerEffect
  <2>5. rdOp = "header" /\ UNCHANGED <<started, closed, wrRes>>
    BY <1>6 DEF HeaderRead, closeVars, writeVars
  <2>6. \A j \in TimerKinds \ {"body"} :
           tm'.map[j] = "absent" <=> (j = "read" \/ tm.map[j] = "absent")
    BY <1>6, <2>2, <2>3, <2>4, Kinds DEF HeaderRead
  <2>7. tm'.map["body"] # "absent" => rdOp' = "body"
    BY <1>6, <2>2, <2>3, <2>5, Kinds DEF HeaderRead
  <2> QED
    BY <2>5, <2>6, <2>7, Kinds
<1>7. CASE BodyRead
  <2> DEFINE t == CancelTimer(tm, "body")
  <2>1. t \in TimerState
    BY <1>0, Kinds, CancelTimerType
  <2>2. \A j \in TimerKinds : t.map[j] = IF j = "body" THEN "absent" ELSE tm.map[j]
    BY <1>0, Kinds, CancelTimerEffect
  <2>3. \A j \in TimerKinds \ {"read"} : tm'.map[j] = t.map[j]
    BY <1>7, <2>1, Kinds, StartTimerEffect DEF BodyRead, DoRead
  <2>4. rdOp' = "header" /\ UNCHANGED <<started, closed, wrRes>>
    BY <1>7 DEF BodyRead, DoRead, closeVars, writeVars
  <2> QED
    BY <2>2, <2>3, <2>4, Kinds
<1>8. CASE ReadFailed
  <2> DEFINE k == IF rdOp = "header" THEN "read" ELSE "body"
  <2>1. k \in TimerKinds /\ tm' = CancelTimer(tm, k)
    BY <1>8, Kinds DEF ReadFailed
  <2>2. \A j \in TimerKinds : tm'.map[j] = IF j = k THEN "absent" ELSE tm.map[j]
    BY <1>0, <2>1, CancelTimerEffect
  <2>3. UNCHANGED <<started, closed, wrRes>>
    BY <1>8 DEF ReadFailed, closeVars, writeVars
  <2>4. tm'.map["read"] = "absent" /\ tm'.map["body"] = "absent"
    BY <2>2, Kinds
  <2>5. \A j \in TimerKinds \ {"read", "body"} : tm'.map[j] = tm.map[j]
    BY <2>2
  <2> QED
    BY <2>3, <2>4, <2>5, Kinds
<1>9. CASE FrameWritten \/ WriteFailed
  <2> DEFINE t == CancelTimer(tm, "send")
  <2>1. t \in TimerState
    BY <1>0, Kinds, CancelTimerType
  <2>2. \A j \in TimerKinds : t.map[j] = IF j = "send" THEN "absent" ELSE tm.map[j]
    BY <1>0, Kinds, CancelTimerEffect
  <2>3. \A j \in TimerKinds \ {"send"} : StartTimer(t, "send").map[j] = t.map[j]
    BY <2>1, Kinds, StartTimerEffect
  <2>4. tm' = t \/ (tm' = StartTimer(t, "send") /\ wrRes' # "none")
    <3>1. CASE WriteFailed
      BY <3>1 DEF WriteFailed
    <3>2. CASE FrameWritten /\ HasFront(outbox')
      BY <3>2 DEF FrameWritten, DoSend, Transfer
    <3>3. CASE FrameWritten /\ ~HasFront(outbox')
      BY <3>3 DEF FrameWritten
    <3> QED
      BY <1>9, <3>1, <3>2, <3>3
  <2>5. UNCHANGED <<started, closed, rdOp>>
    BY <1>9 DEF FrameWritten, WriteFailed, closeVars, readVars
  <2> QED
    BY <2>2, <2>3, <2>4, <2>5, Kinds
<1>10. ASSUME NEW e \in tm.fired, OpTimeout(e) \/ HeartbeatTimeout(e) \/ HeartbeatSend(e)
       PROVE  TimersOwned'
  <2> DEFINE t == FinishExpiry(tm, e)
  <2>1. t \in TimerState
    BY <1>0, FinishExpiryType
  <2>2. \A j \in TimerKinds : t.map[j] # "absent" => tm.map[j] # "absent"
    BY <1>0, FinishExpiryEffect
  <2>3. \A j \in TimerKinds :
           ResetTimer(t, "hbSend").map[j] # "absent" => t.map[j] # "absent"
    BY <2>1, Kinds, ResetTimerEffect
  <2>4. \A j \in TimerKinds : tm'.map[j] # "absent" => tm.map[j] # "absent"
    BY <1>10, <2>2, <2>3 DEF OpTimeout, HeartbeatTimeout, HeartbeatSend
  <2>5. UNCHANGED <<started, closed, rdOp>> /\ (wrRes' = "none" => wrRes = "none")
    BY <1>10
       DEF OpTimeout, HeartbeatTimeout, HeartbeatSend, Aborted, closeVars, readVars, writeVars
  <2> QED
    BY <2>4, <2>5, Kinds
<1> QED
  BY <1>1, <1>2, <1>3, <1>4, <1>5, <1>6, <1>7, <1>8, <1>9, <1>10, TimerSteps

\* Only cancelling the timer itself, or the end of its own handler, ends the
\* watch; the handler of an earlier timer of the same purpose does not.
LEMMA WatchKept ==
    ASSUME NEW t \in TimerState, NEW k \in OpTimers, NEW j \in TimerKinds,
           NoReset(t), Watches(t, k)
    PROVE  /\ Watches(StartTimer(t, j), k)
           /\ j # k => Watches(CancelTimer(t, j), k)
           /\ Watches(ResetTimer(t, j), k)
           /\ IsWaiting(t, j) => Watches(ExpireTimer(t, j), k)
           /\ \A e \in t.fired :
                 e.timer # k \/ e.via # "start" => Watches(FinishExpiry(t, e), k)
<1> DEFINE own == [timer |-> k, via |-> "start"]
<1> USE DEF Watches, IsWaiting
<1>0. k \in TimerKinds
  BY Kinds
<1>1. Watches(StartTimer(t, j), k)
  BY <1>0, StartTimerEffect
<1>2. j # k => Watches(CancelTimer(t, j), k)
  <2>1. own.timer = k
    OBVIOUS
  <2> QED
    BY <1>0, <2>1, CancelTimerEffect
<1>3. Watches(ResetTimer(t, j), k)
  BY <1>0, ResetTimerEffect
<1>4. IsWaiting(t, j) => Watches(ExpireTimer(t, j), k)
  <2>1. CASE j = k
    BY <1>0, <2>1, ExpireTimerEffect DEF NoReset
  <2>2. CASE j # k
    BY <1>0, <2>2, ExpireTimerEffect
  <2> QED
    BY <2>1, <2>2
<1>5. ASSUME NEW e \in t.fired, e.timer # k \/ e.via # "start"
      PROVE  Watches(FinishExpiry(t, e), k)
  <2>1. own # e /\ own.timer = k
    BY <1>5
  <2>2. FinishExpiry(t, e).map[k] = t.map[k]
    BY <1>0, <1>5, FinishExpiryEffect
  <2>3. own \in t.fired => own \in FinishExpiry(t, e).fired
    BY <1>5, <2>1, FinishExpiryEffect
  <2> QED
    BY <2>2, <2>3
<1> QED
  BY <1>1, <1>2, <1>3, <1>4, <1>5

\* A timer that has just been started watches.
LEMMA WatchStarts ==
    ASSUME NEW t \in TimerState, NEW k \in TimerKinds
    PROVE  Watches(StartTimer(t, k), k)
BY StartTimerEffect DEF Watches, IsWaiting

LEMMA WatchedStep ==
    TypeOK /\ LoopState /\ PendingIsWatched /\ [Next]_vars => PendingIsWatched'
<1> SUFFICES ASSUME TypeOK, LoopState, PendingIsWatched, [Next]_vars
             PROVE  PendingIsWatched'
  OBVIOUS
<1> USE DEF PendingIsWatched, InKernel
<1>0. tm \in TimerState /\ NoReset(tm)
  BY DEF TypeOK, LoopState
<1>1. CASE Quiet
  BY <1>1 DEF Quiet, LoopState
<1>2. ASSUME NEW k \in TimerKinds, Expire(k) PROVE PendingIsWatched'
  <2>1. \A j \in OpTimers : Watches(tm, j) => Watches(tm', j)
    BY <1>0, <1>2, WatchKept DEF Expire
  <2> QED
    BY <1>2, <2>1, Kinds DEF Expire, readVars, writeVars
<1>3. CASE Start
  <2> DEFINE t1 == StartTimer(tm, "hbTimeout")
             t2 == StartTimer(t1, "hbSend")
             t3 == ResetTimer(t2, "hbSend")
  <2>1. t1 \in TimerState /\ NoReset(t1)
    BY <1>0, Kinds, StartTimerType, NoResetKept
  <2>2. t2 \in TimerState /\ NoReset(t2)
    BY <2>1, Kinds, StartTimerType, NoResetKept
  <2>3. t3 \in TimerState
    BY <2>2, Kinds, ResetTimerType
  <2>4. Watches(tm', "read")
    BY <1>3, <2>3, Kinds, WatchStarts DEF Start, DoRead
  <2>5. rdOp' = "header" /\ wrRes' = "none"
    BY <1>3 DEF Start, DoRead, LoopState, writeVars
  <2> QED
    BY <2>4, <2>5
<1>4. CASE RunSend
  <2>1. CASE UNCHANGED <<wrRes, tm>>
    BY <1>4, <2>1 DEF RunSend, readVars
  <2>2. CASE DoSend(tm, Head(posted).frame)
    <3>1. Watches(tm', "send")
      BY <1>0, <2>2, Kinds, WatchStarts DEF DoSend
    <3>2. \A j \in OpTimers : Watches(tm, j) => Watches(tm', j)
      BY <1>0, <2>2, Kinds, WatchKept DEF DoSend
    <3> QED
      BY <1>4, <3>1, <3>2, Kinds DEF RunSend, readVars
  <2> QED
    BY <1>4, <2>1, <2>2 DEF RunSend, writeVars
<1>5. CASE RunClose
  <2>1. CASE closed
    BY <1>5, <2>1 DEF RunClose, CloseIsDone
  <2>2. CASE ~closed
    BY <1>5, <2>2 DEF RunClose, CloseIsDone, Aborted
  <2> QED
    BY <2>1, <2>2
<1>6. CASE HeaderRead
  <2> DEFINE t == CancelTimer(tm, "read")
             renewed == IF WatchesHeartbeat THEN ResetTimer(t, "hbTimeout") ELSE t
  <2>1. t \in TimerState /\ NoReset(t)
    BY <1>0, Kinds, CancelTimerType, NoResetKept
  <2>2. renewed \in TimerState /\ NoReset(renewed)
    BY <2>1, Kinds, ResetTimerType, NoResetKept
  <2>3. Watches(tm, "send") => Watches(t, "send")
    BY <1>0, Kinds, WatchKept
  <2>4. Watches(t, "send") => Watches(renewed, "send")
    BY <2>1, Kinds, WatchKept
  <2>5. Watches(renewed, "send") => Watches(StartTimer(renewed, "body"), "send")
    BY <2>2, Kinds, WatchKept
  <2>6. Watches(StartTimer(renewed, "body"), "body")
    BY <2>2, Kinds, WatchStarts
  <2>7. rdOp' # "header" /\ wrRes' = wrRes
    BY <1>6 DEF HeaderRead, writeVars
  <2>8. rdOp' = "body" => Watches(tm', "body")
    BY <1>6, <2>6 DEF HeaderRead
  <2>9. Watches(tm, "send") => Watches(tm', "send")
    BY <1>6, <2>3, <2>4, <2>5 DEF HeaderRead
  <2> QED
    BY <2>7, <2>8, <2>9
<1>7. CASE BodyRead
  <2> DEFINE t == CancelTimer(tm, "body")
  <2>1. t \in TimerState /\ NoReset(t)
    BY <1>0, Kinds, CancelTimerType, NoResetKept
  <2>2. Watches(tm, "send") => Watches(t, "send")
    BY <1>0, Kinds, WatchKept
  <2>3. Watches(t, "send") => Watches(tm', "send")
    BY <1>7, <2>1, Kinds, WatchKept DEF BodyRead, DoRead
  <2>4. Watches(tm', "read")
    BY <1>7, <2>1, Kinds, WatchStarts DEF BodyRead, DoRead
  <2>5. rdOp' = "header" /\ wrRes' = wrRes
    BY <1>7 DEF BodyRead, DoRead, writeVars
  <2> QED
    BY <2>2, <2>3, <2>4, <2>5
<1>8. CASE ReadFailed
  <2>1. Watches(tm, "send") => Watches(tm', "send")
    BY <1>0, <1>8, Kinds, WatchKept DEF ReadFailed
  <2>2. rdOp' = "none" /\ wrRes' = wrRes
    BY <1>8 DEF ReadFailed, writeVars
  <2> QED
    BY <2>1, <2>2
<1>9. CASE FrameWritten \/ WriteFailed
  <2> DEFINE t == CancelTimer(tm, "send")
  <2>1. t \in TimerState /\ NoReset(t)
    BY <1>0, Kinds, CancelTimerType, NoResetKept
  <2>2. \A j \in {"read", "body"} : Watches(tm, j) => Watches(t, j)
    BY <1>0, Kinds, WatchKept
  <2>3. \A j \in {"read", "body"} : Watches(t, j) => Watches(StartTimer(t, "send"), j)
    BY <2>1, Kinds, WatchKept
  <2>4. Watches(StartTimer(t, "send"), "send")
    BY <2>1, Kinds, WatchStarts
  <2>5. (tm' = t /\ wrRes' = "none") \/ tm' = StartTimer(t, "send")
    <3>1. CASE WriteFailed
      BY <3>1 DEF WriteFailed
    <3>2. CASE FrameWritten /\ HasFront(outbox')
      BY <3>2 DEF FrameWritten, DoSend
    <3>3. CASE FrameWritten /\ ~HasFront(outbox')
      BY <3>3 DEF FrameWritten
    <3> QED
      BY <1>9, <3>1, <3>2, <3>3
  <2>6. UNCHANGED <<rdOp, rdRes>>
    BY <1>9 DEF FrameWritten, WriteFailed, readVars
  <2> QED
    BY <2>2, <2>3, <2>4, <2>5, <2>6
<1>10. ASSUME NEW e \in tm.fired, OpTimeout(e) PROVE PendingIsWatched'
  <2>1. rdRes' # "pending" /\ wrRes' # "pending"
    BY <1>10 DEF OpTimeout, Aborted
  <2> QED
    BY <2>1
<1>11. ASSUME NEW e \in tm.fired, HeartbeatTimeout(e) \/ HeartbeatSend(e)
       PROVE  PendingIsWatched'
  <2> DEFINE t == FinishExpiry(tm, e)
  <2>1. e.timer \notin OpTimers
    BY <1>11, Kinds DEF HeartbeatTimeout, HeartbeatSend
  <2>2. t \in TimerState /\ NoReset(t)
    BY <1>0, Kinds, FinishExpiryType, FinishExpiryEffect DEF NoReset
  <2>3. \A j \in OpTimers : Watches(tm, j) => Watches(t, j)
    BY <1>0, <2>1, Kinds, WatchKept
  <2>4. \A j \in OpTimers : Watches(t, j) => Watches(ResetTimer(t, "hbSend"), j)
    BY <2>2, Kinds, WatchKept
  <2>5. tm' = t \/ tm' = ResetTimer(t, "hbSend")
    BY <1>11 DEF HeartbeatTimeout, HeartbeatSend
  <2>6. UNCHANGED <<rdOp, rdRes, wrRes>>
    BY <1>11 DEF HeartbeatTimeout, HeartbeatSend, readVars, writeVars
  <2> QED
    BY <2>3, <2>4, <2>5, <2>6, Kinds
<1> QED
  BY <1>1, <1>2, <1>3, <1>4, <1>5, <1>6, <1>7, <1>8, <1>9, <1>10, <1>11, TimerSteps

TimerInv == TypeOK /\ OutboxWriter /\ LoopState /\ TimersOwned /\ PendingIsWatched

LEMMA TimerInvariant == Spec => []TimerInv
<1>1. Init => TimerInv
  <2> SUFFICES ASSUME Init PROVE TimerInv
    OBVIOUS
  <2>1. TypeOK /\ OutboxWriter
    BY InitType DEF Init, OutboxWriter, EmptyOutbox, HasFront
  <2>2. \A k \in TimerKinds : tm.map[k] = "absent"
    BY DEF Init, NoTimers
  <2>3. LoopState /\ TimersOwned
    BY <2>2, Kinds DEF Init, LoopState, NoReset, TimersOwned
  <2>4. PendingIsWatched
    BY DEF Init, PendingIsWatched, InKernel
  <2> QED
    BY <2>1, <2>3, <2>4 DEF TimerInv
<1>2. TimerInv /\ [Next]_vars => TimerInv'
  BY TypeStep, WriterStep, LoopStateStep, TimersOwnedStep, WatchedStep DEF TimerInv
<1> QED
  BY <1>1, <1>2, PTL DEF Spec

\* No timer of a connection outlives the operation or the connection it was
\* started for, so none of them can keep the join in stop() waiting.
THEOREM NoTimerLeaks == Spec => []TimersOwned
BY TimerInvariant, PTL DEF TimerInv

\* An operation of one transfer never waits in the kernel without the watch
\* of its own timer, whatever handlers of earlier timers are still queued.
THEOREM EveryOperationWatched == Spec => []PendingIsWatched
BY TimerInvariant, PTL DEF TimerInv

-----------------------------------------------------------------------------
(* The order of the frames.  A frame is numbered by its send() call, waits  *)
(* in posted, then in the outbox, and ends on the wire; while the          *)
(* connection is open these three hold 1..sends, in this order and without *)
(* a gap.                                                                  *)

\* The number of frames whose write the outbox knows to be complete.
Done == Len(wire) - (IF wrRes = "ok" THEN 1 ELSE 0)
NextFrame == Done + Len(outbox.queue) + 1

WireState ==
    /\ WireInOrder
    /\ wrRes = "ok" => wire # << >>
    /\ \A i \in DOMAIN outbox.queue : outbox.queue[i] = Done + i
    /\ outbox.closed <=> closed

IsSend(i) == posted[i].task = "send"
PostedState ==
    /\ \A i, j \in DOMAIN posted :
          i < j /\ IsSend(i) /\ IsSend(j) => posted[i].frame < posted[j].frame
    /\ \A i \in DOMAIN posted : IsSend(i) => posted[i].frame <= sends
    /\ ~closed =>
          /\ NextFrame <= sends + 1
          /\ \A i \in DOMAIN posted : IsSend(i) => NextFrame <= posted[i].frame
          /\ \A n \in NextFrame..sends :
                \E i \in DOMAIN posted : IsSend(i) /\ posted[i].frame = n

LEMMA DoneType == TypeOK /\ WireState => Done \in Nat /\ NextFrame \in Nat
BY DEF TypeOK, WireState, Done, NextFrame, OutboxState

\* The frame at the head of posted is the one the outbox has to get next.
LEMMA HeadIsNext ==
    ASSUME TypeOK, WireState, PostedState, ~closed, posted # << >>, IsSend(1)
    PROVE  posted[1].frame = NextFrame
<1>1. posted \in Seq(Task) /\ 1 \in DOMAIN posted /\ sends \in Nat
  BY DEF TypeOK
<1>2. posted[1] \in Task
  BY <1>1
<1>3. posted[1].frame \in Nat
  BY <1>2 DEF Task, SendTask, CloseTask
<1>4. NextFrame <= posted[1].frame /\ posted[1].frame <= sends /\ NextFrame \in Nat
  BY <1>1, DoneType DEF PostedState
<1>5. PICK i \in DOMAIN posted : IsSend(i) /\ posted[i].frame = NextFrame
  BY <1>1, <1>3, <1>4 DEF PostedState
<1>6. i = 1 \/ posted[1].frame < posted[i].frame
  BY <1>1, <1>5 DEF PostedState
<1> QED
  BY <1>3, <1>4, <1>5, <1>6

LEMMA WireStateStep ==
    TypeOK /\ OutboxWriter /\ WireState /\ PostedState /\ [Next]_vars
        => WireState' /\ (~RunSend => NextFrame' = NextFrame)
<1> SUFFICES ASSUME TypeOK, OutboxWriter, WireState, PostedState, [Next]_vars
             PROVE  WireState' /\ (~RunSend => NextFrame' = NextFrame)
  OBVIOUS
<1> USE DEF WireState, WireInOrder, Done, NextFrame
<1>0. wire \in Seq(Nat) /\ outbox.queue \in Seq(Nat)
  BY DEF TypeOK, OutboxState
<1>1. CASE UNCHANGED writeVars /\ closed' = closed
  BY <1>1 DEF writeVars
<1>2. CASE WriteCompletes
  <2>1. outbox.queue # << >> /\ wrFrame = outbox.queue[1] /\ wrRes # "ok"
    BY <1>2 DEF WriteCompletes, OutboxWriter, HasFront
  <2>2. wrFrame = Len(wire) + 1
    BY <1>0, <2>1
  <2>3. wire' = Append(wire, wrFrame) /\ wrRes' = "ok" /\ UNCHANGED <<outbox, closed>>
    BY <1>2 DEF WriteCompletes, closeVars
  <2>4. Len(wire') = Len(wire) + 1 /\ \A i \in DOMAIN wire' : wire'[i] = i
    BY <1>0, <2>2, <2>3
  <2> QED
    BY <1>0, <2>1, <2>3, <2>4
<1>3. CASE WriteFails \/ PartWritten \/ WriteOn \/ WriteFailed
  <2>1. UNCHANGED <<wire, outbox, closed>>
    BY <1>3 DEF WriteFails, PartWritten, WriteOn, WriteFailed, AfterFailedWrite, closeVars
  <2>2. wrRes # "ok" /\ wrRes' # "ok"
    BY <1>3 DEF WriteFails, PartWritten, WriteOn, WriteFailed, Transfer, Failed
  <2> QED
    BY <2>1, <2>2
<1>4. CASE RunSend
  <2>1. CASE closed
    BY <1>4, <2>1 DEF RunSend, writeVars, closeVars
  <2>2. CASE ~closed
    <3> DEFINE frame == Head(posted).frame
    <3>1. frame = NextFrame
      <4>1. posted # << >> /\ Head(posted) = posted[1] /\ IsSend(1)
        BY <1>4 DEF RunSend, NextTaskIs, IsSend, TypeOK
      <4> HIDE DEF WireState, NextFrame
      <4> QED
        BY <2>2, <4>1, HeadIsNext
    <3>2. outbox' = [queue |-> Append(outbox.queue, frame), isWriting |-> TRUE,
                     closed |-> FALSE]
      BY <1>4, <2>2 DEF RunSend, PushAndClaim
    <3>3. UNCHANGED <<wire, closed>>
      BY <1>4, <2>2 DEF RunSend, closeVars
    <3>4. wrRes' = "ok" <=> wrRes = "ok"
      <4>1. Claims(outbox) => wrRes = "none"
        BY DEF Claims, OutboxWriter
      <4>2. Claims(outbox) => wrRes' # "ok"
        BY <1>4, <2>2 DEF RunSend, DoSend, Transfer
      <4>3. ~Claims(outbox) => wrRes' = wrRes
        BY <1>4, <2>2 DEF RunSend
      <4> QED
        BY <4>1, <4>2, <4>3
    <3>5. \A i \in DOMAIN outbox'.queue : outbox'.queue[i] = Done + i
      <4>1. Done \in Nat
        BY DoneType
      <4> HIDE DEF Done
      <4>2. TAKE i \in DOMAIN outbox'.queue
      <4>3. i \in DOMAIN outbox.queue \/ i = Len(outbox.queue) + 1
        BY <1>0, <3>2
      <4>4. CASE i \in DOMAIN outbox.queue
        <5>1. outbox'.queue[i] = outbox.queue[i]
          BY <1>0, <3>2, <4>4
        <5> QED
          BY <4>4, <5>1
      <4>5. CASE i = Len(outbox.queue) + 1
        <5>1. outbox'.queue[i] = frame /\ Len(outbox.queue) \in Nat
          BY <1>0, <3>2, <4>5
        <5> QED
          BY <3>1, <4>1, <4>5, <5>1
      <4> QED
        BY <4>3, <4>4, <4>5
    <3>6. Done' = Done
      BY <3>3, <3>4
    <3>7. outbox'.closed = FALSE /\ (wrRes' = "ok" => wire' # << >>) /\ WireInOrder'
      BY <3>2, <3>3, <3>4
    <3> HIDE DEF Done, WireInOrder
    <3> QED
      BY <1>4, <2>2, <3>3, <3>5, <3>6, <3>7
  <2> QED
    BY <1>4, <2>1, <2>2
<1>5. CASE RunClose
  <2>1. CASE closed
    BY <1>5, <2>1 DEF RunClose, CloseIsDone
  <2>2. CASE ~closed
    <3>1. outbox'.queue = outbox.queue /\ outbox'.closed /\ closed' /\ wire' = wire
      BY <1>5, <2>2 DEF RunClose, CloseIsDone, CloseOutbox, TypeOK, OutboxState
    <3>2. wrRes' = "ok" <=> wrRes = "ok"
      BY <1>5, <2>2 DEF RunClose, CloseIsDone, Aborted
    <3> QED
      BY <3>1, <3>2
  <2> QED
    BY <2>1, <2>2
<1>6. CASE FrameWritten
  <2>1. outbox.queue # << >> /\ wrRes = "ok" /\ UNCHANGED <<wire, closed>>
    BY <1>6 DEF FrameWritten, OutboxWriter, HasFront, closeVars
  <2>2. wrRes' # "ok"
    BY <1>6 DEF FrameWritten, DoSend, Transfer
  <2>3. outbox'.queue = Tail(outbox.queue) /\ outbox'.closed = outbox.closed
    BY <1>6 DEF FrameWritten, PopAndNext
  <2>4. Len(outbox'.queue) = Len(outbox.queue) - 1
        /\ \A i \in DOMAIN outbox'.queue : outbox'.queue[i] = outbox.queue[i + 1]
    BY <1>0, <2>1, <2>3
  <2>5. \A i \in DOMAIN outbox'.queue : i + 1 \in DOMAIN outbox.queue /\ i \in Nat
    BY <1>0, <2>1, <2>3
  <2>6. \A i \in DOMAIN outbox'.queue : outbox'.queue[i] = Len(wire) + i
    BY <1>0, <2>1, <2>4, <2>5
  <2> QED
    BY <1>0, <2>1, <2>2, <2>3, <2>4, <2>6
<1>7. ASSUME NEW e \in tm.fired, OpTimeout(e)
      PROVE  WireState' /\ (~RunSend => NextFrame' = NextFrame)
  BY <1>7 DEF OpTimeout, Aborted, closeVars
<1> QED
  BY <1>1, <1>2, <1>3, <1>4, <1>5, <1>6, <1>7, WriteSteps, CloseSteps

\* posted only grows at its end and shrinks at its head.
LEMMA PostedSteps ==
    ASSUME [Next]_vars
    PROVE  \/ UNCHANGED <<posted, sends>>
           \/ posted' = Append(posted, CloseTask) /\ sends' = sends
           \/ posted' = Append(posted, SendTask(sends')) /\ sends' = sends + 1
           \/ RunSend \/ RunClose
<1> USE DEF closeVars, sendVars
<1>1. CASE User
  BY <1>1 DEF User, SendCall, CloseCall, CloseMessageQueue
<1>2. CASE Kernel \/ Clock
  BY <1>2 DEF Kernel, HeaderArrives, BodyArrives, ReadFails, WriteCompletes, WriteFails,
              PartRead, PartWritten, Clock, Expire
<1>3. CASE Start \/ ReadOn \/ WriteOn \/ HeaderRead \/ BodyRead \/ ReadFailed
           \/ FrameWritten \/ WriteFailed
  BY <1>3 DEF Start, ReadOn, WriteOn, HeaderRead, BodyRead, ReadFailed, FrameWritten,
              WriteFailed, ReportFailure, PostClose
<1>4. ASSUME NEW e \in tm.fired, OpTimeout(e) \/ HeartbeatTimeout(e) \/ HeartbeatSend(e)
      PROVE  \/ UNCHANGED <<posted, sends>>
             \/ posted' = Append(posted, CloseTask) /\ sends' = sends
             \/ posted' = Append(posted, SendTask(sends')) /\ sends' = sends + 1
  BY <1>4 DEF OpTimeout, HeartbeatTimeout, HeartbeatSend, PostClose
<1>5. CASE UNCHANGED vars
  BY <1>5 DEF vars
<1> QED
  BY <1>1, <1>2, <1>3, <1>4, <1>5 DEF Next, IOThread, RunTask, RunRead, RunWrite, RunExpiry

LEMMA PostedStateStep ==
    TypeOK /\ OutboxWriter /\ WireState /\ PostedState /\ [Next]_vars => PostedState'
<1> SUFFICES ASSUME TypeOK, OutboxWriter, WireState, PostedState, [Next]_vars
             PROVE  PostedState'
  OBVIOUS
<1>0. /\ posted \in Seq(Task) /\ sends \in Nat /\ NextFrame \in Nat
      /\ (~RunSend => NextFrame' = NextFrame)
  BY DoneType, WireStateStep DEF TypeOK
<1>1. \A i \in DOMAIN posted : posted[i].frame \in Nat
  <2>1. \A i \in DOMAIN posted : posted[i] \in Task
    BY <1>0
  <2> QED
    BY <2>1 DEF Task, SendTask, CloseTask
<1> USE DEF PostedState, IsSend
<1>2. CASE UNCHANGED <<posted, sends>> /\ ~RunSend
  BY <1>0, <1>2, CloseSteps DEF RunClose, CloseIsDone
<1>3. CASE posted' = Append(posted, CloseTask) /\ sends' = sends /\ ~RunSend
  <2>1. CloseTask.task # "send"
    BY DEF CloseTask
  <2>2. \A i \in DOMAIN posted : i \in DOMAIN posted' /\ posted'[i] = posted[i]
    BY <1>0, <1>3
  <2>3. \A i \in DOMAIN posted' : posted'[i].task = "send" => i \in DOMAIN posted
    BY <1>0, <1>3, <2>1
  <2>4. ~closed' => ~closed
    BY CloseSteps DEF RunClose, CloseIsDone
  <2>5. NextFrame' = NextFrame /\ sends' = sends
    BY <1>0, <1>3
  <2>6. /\ \A i, j \in DOMAIN posted' :
              i < j /\ IsSend(i)' /\ IsSend(j)' => posted'[i].frame < posted'[j].frame
        /\ \A i \in DOMAIN posted' : IsSend(i)' => posted'[i].frame <= sends'
    BY <2>2, <2>3, <2>5
  <2>7. ~closed' =>
          /\ NextFrame' <= sends' + 1
          /\ \A i \in DOMAIN posted' : IsSend(i)' => NextFrame' <= posted'[i].frame
    BY <2>2, <2>3, <2>4, <2>5
  <2>8. ~closed' => \A n \in NextFrame'..sends' :
           \E i \in DOMAIN posted' : IsSend(i)' /\ posted'[i].frame = n
    BY <2>2, <2>4, <2>5
  <2> QED
    BY <2>6, <2>7, <2>8
<1>4. CASE posted' = Append(posted, SendTask(sends')) /\ sends' = sends + 1 /\ ~RunSend
  <2> DEFINE last == Len(posted) + 1
  <2>1. \A i \in DOMAIN posted : i \in DOMAIN posted' /\ posted'[i] = posted[i] /\ i < last
    BY <1>0, <1>4
  <2>2. \A i \in DOMAIN posted' : i \in DOMAIN posted \/ i = last
    BY <1>0, <1>4
  <2>3. /\ last \in DOMAIN posted' /\ posted'[last].task = "send"
        /\ posted'[last].frame = sends + 1 /\ last \in Nat
    BY <1>0, <1>4 DEF SendTask
  <2>4. ~closed' => ~closed
    BY CloseSteps DEF RunClose, CloseIsDone
  <2>5. \A i, j \in DOMAIN posted' :
           i < j /\ IsSend(i)' /\ IsSend(j)' => posted'[i].frame < posted'[j].frame
    <3> SUFFICES ASSUME NEW i \in DOMAIN posted', NEW j \in DOMAIN posted', i < j,
                        posted'[i].task = "send", posted'[j].task = "send"
                 PROVE  posted'[i].frame < posted'[j].frame
      OBVIOUS
    <3>1. i \in DOMAIN posted
      BY <1>0, <1>4, <2>2
    <3>2. CASE j \in DOMAIN posted
      BY <2>1, <3>1, <3>2
    <3>3. CASE j = last
      BY <1>0, <1>1, <2>1, <2>3, <3>1, <3>3
    <3> QED
      BY <2>2, <3>2, <3>3
  <2>6. \A i \in DOMAIN posted' : IsSend(i)' => posted'[i].frame <= sends'
    BY <1>0, <1>1, <1>4, <2>1, <2>2, <2>3
  <2>7. ~closed' => \A i \in DOMAIN posted' : IsSend(i)' => NextFrame' <= posted'[i].frame
    BY <1>0, <1>1, <1>4, <2>1, <2>2, <2>3, <2>4
  <2>8. ~closed' => \A n \in NextFrame'..sends' :
           \E i \in DOMAIN posted' : IsSend(i)' /\ posted'[i].frame = n
    <3> SUFFICES ASSUME ~closed', NEW n \in NextFrame..(sends + 1)
                 PROVE  \E i \in DOMAIN posted' : IsSend(i)' /\ posted'[i].frame = n
      BY <1>0, <1>4
    <3>1. CASE n = sends + 1
      BY <2>3, <3>1
    <3>2. CASE n # sends + 1
      <4>1. n \in NextFrame..sends
        BY <1>0, <3>2
      <4> QED
        BY <2>1, <2>4, <4>1
    <3> QED
      BY <3>1, <3>2
  <2>9. ~closed' => NextFrame' <= sends' + 1
    BY <1>0, <1>4, <2>4
  <2> QED
    BY <2>5, <2>6, <2>7, <2>8, <2>9
<1>5. CASE RunSend \/ RunClose
  <2>1. /\ posted # << >> /\ posted' = Tail(posted) /\ sends' = sends
        /\ RunSend => closed' = closed /\ IsSend(1)
        /\ ~closed' => RunSend \/ closed
    BY <1>0, <1>5 DEF RunSend, RunClose, CloseIsDone, NextTaskIs, sendVars, closeVars
  <2>2. \A i \in DOMAIN posted' : i + 1 \in DOMAIN posted /\ posted'[i] = posted[i + 1]
                                /\ i \in Nat /\ 1 < i + 1
    BY <1>0, <2>1
  <2>3. \A i \in DOMAIN posted \ {1} : i - 1 \in DOMAIN posted' /\ posted'[i - 1] = posted[i]
    BY <1>0, <2>1
  <2>4. /\ \A i, j \in DOMAIN posted' :
              i < j /\ IsSend(i)' /\ IsSend(j)' => posted'[i].frame < posted'[j].frame
        /\ \A i \in DOMAIN posted' : IsSend(i)' => posted'[i].frame <= sends'
    BY <2>1, <2>2
  <2>5. CASE closed'
    BY <2>4, <2>5
  <2>6. CASE ~closed'
    <3>1. RunSend /\ ~closed
      BY <2>1, <2>6, CloseSteps DEF RunClose, CloseIsDone
    <3>2. posted[1].frame = NextFrame /\ 1 \in DOMAIN posted
      BY <1>0, <2>1, <3>1, HeadIsNext
    <3>3. NextFrame' = NextFrame + 1
      <4>1. Len(outbox'.queue) = Len(outbox.queue) + 1 /\ Len(outbox.queue) \in Nat
        <5>1. outbox' = PushAndClaim(outbox, Head(posted).frame)
          BY <3>1 DEF RunSend
        <5>2. ~outbox.closed /\ outbox.queue \in Seq(Nat)
          BY <3>1 DEF WireState, TypeOK, OutboxState
        <5> QED
          BY <5>1, <5>2 DEF PushAndClaim
      <4>2. Done' = Done
        <5>1. Claims(outbox) => wrRes = "none"
          BY DEF Claims, OutboxWriter
        <5>2. Claims(outbox) => wrRes' # "ok"
          BY <3>1 DEF RunSend, DoSend, Transfer
        <5>3. ~Claims(outbox) => wrRes' = wrRes
          BY <3>1 DEF RunSend
        <5>4. wire' = wire
          BY <3>1 DEF RunSend
        <5> QED
          BY <5>1, <5>2, <5>3, <5>4 DEF Done
      <4>3. Done \in Nat
        BY DoneType
      <4> QED
        BY <4>1, <4>2, <4>3 DEF NextFrame
    <3>4. \A i \in DOMAIN posted' : IsSend(i)' => NextFrame' <= posted'[i].frame
      <4> SUFFICES ASSUME NEW i \in DOMAIN posted', posted'[i].task = "send"
                   PROVE  NextFrame' <= posted'[i].frame
        OBVIOUS
      <4>1. NextFrame < posted[i + 1].frame
        BY <2>1, <2>2, <3>1, <3>2
      <4>2. posted[i + 1].frame \in Nat
        BY <1>1, <2>2
      <4> QED
        BY <1>0, <2>2, <3>3, <4>1, <4>2
    <3>5. \A n \in NextFrame'..sends' :
             \E i \in DOMAIN posted' : IsSend(i)' /\ posted'[i].frame = n
      <4> SUFFICES ASSUME NEW n \in (NextFrame + 1)..sends
                   PROVE  \E i \in DOMAIN posted' : IsSend(i)' /\ posted'[i].frame = n
        BY <2>1, <3>3
      <4>1. n \in NextFrame..sends /\ n # NextFrame
        BY <1>0
      <4>2. PICK i \in DOMAIN posted : IsSend(i) /\ posted[i].frame = n
        BY <3>1, <4>1
      <4>3. i # 1
        BY <3>2, <4>1, <4>2
      <4> QED
        BY <2>3, <4>2, <4>3
    <3>6. NextFrame' <= sends' + 1
      <4>1. NextFrame <= sends
        BY <2>1, <3>1, <3>2
      <4> QED
        BY <1>0, <2>1, <3>3, <4>1
    <3> QED
      BY <2>4, <3>4, <3>5, <3>6
  <2> QED
    BY <2>5, <2>6
<1> QED
  BY <1>2, <1>3, <1>4, <1>5, PostedSteps

OrderInv == TypeOK /\ OutboxWriter /\ WireState /\ PostedState

LEMMA InitOrder == Init => OrderInv
<1> SUFFICES ASSUME Init PROVE OrderInv
  OBVIOUS
<1>1. TypeOK /\ OutboxWriter
  BY InitType DEF Init, OutboxWriter, EmptyOutbox, HasFront
<1>2. /\ outbox.queue = << >> /\ ~outbox.closed /\ wire = << >> /\ posted = << >>
      /\ wrRes = "none" /\ sends = 0 /\ ~closed
  BY DEF Init, EmptyOutbox
<1>3. Done = 0 /\ NextFrame = 1
  BY <1>2 DEF Done, NextFrame
<1>4. WireState
  BY <1>2 DEF WireState, WireInOrder
<1>5. PostedState
  BY <1>2, <1>3 DEF PostedState
<1> QED
  BY <1>1, <1>4, <1>5 DEF OrderInv

\* The peer gets the frames in the order of the send() calls, each once and
\* without a gap.
THEOREM WireOrder == Spec => []WireInOrder
<1>1. Init => OrderInv
  BY InitOrder
<1>2. OrderInv /\ [Next]_vars => OrderInv'
  BY TypeStep, WriterStep, WireStateStep, PostedStateStep DEF OrderInv
<1>3. OrderInv => WireInOrder
  BY DEF OrderInv, WireState
<1> QED
  BY <1>1, <1>2, <1>3, PTL DEF Spec

-----------------------------------------------------------------------------
(* The order of delivery.                                                  *)

\* The last frame received is on its way to messageQueue_.
InHand == rdOp = "body" \/ (rdOp = "header" /\ rdRes = "ok")

\* A frame in hand has not been delivered, and between two frames everything
\* that has been received has.
ReadOrder ==
    /\ DeliveredInOrder
    /\ ~started => received = << >> /\ rdOp = "none"
    /\ InHand => /\ received # << >>
                 /\ \A i \in DOMAIN delivered : delivered[i] < Len(received)
    /\ ~mqClosed /\ rdOp = "header" /\ ~InHand /\ received # << >> /\ CurrentFrame = "data"
          => \E i \in DOMAIN delivered : delivered[i] = Len(received)

LEMMA ReadOrderSteps ==
    ASSUME [Next]_vars
    PROVE  \/ /\ UNCHANGED <<started, rdOp, received, delivered>>
              /\ mqClosed => mqClosed'
              /\ rdOp = "header" => (rdRes' = "ok" <=> rdRes = "ok")
           \/ \E kind \in FrameKinds : HeaderArrives(kind)
           \/ Start \/ HeaderRead \/ BodyRead \/ ReadFailed
<1> USE DEF closeVars, readVars
<1>1. CASE User
  BY <1>1 DEF User, SendCall, CloseCall, CloseMessageQueue
<1>2. CASE BodyArrives \/ WriteCompletes \/ WriteFails \/ PartRead \/ PartWritten \/ Clock
  BY <1>2 DEF BodyArrives, WriteCompletes, WriteFails, PartRead, PartWritten, Clock, Expire
<1>3. ASSUME NEW res \in {"eof", "error"}, ReadFails(res)
      PROVE  /\ UNCHANGED <<started, rdOp, received, delivered, mqClosed>>
             /\ rdRes' # "ok" /\ rdRes # "ok"
  BY <1>3 DEF ReadFails
<1>4. CASE ReadOn \/ RunTask \/ RunWrite
  BY <1>4 DEF ReadOn, Transfer, RunTask, RunSend, RunClose, Aborted, RunWrite, WriteOn,
              FrameWritten, WriteFailed
<1>5. ASSUME NEW e \in tm.fired, OpTimeout(e) \/ HeartbeatTimeout(e) \/ HeartbeatSend(e)
      PROVE  /\ UNCHANGED <<started, rdOp, received, delivered, mqClosed>>
             /\ rdRes' = "ok" <=> rdRes = "ok"
  BY <1>5 DEF OpTimeout, Aborted, HeartbeatTimeout, HeartbeatSend
<1>6. CASE UNCHANGED vars
  BY <1>6 DEF vars
<1> QED
  BY <1>1, <1>2, <1>3, <1>4, <1>5, <1>6 DEF Next, Kernel, IOThread, RunRead, RunExpiry

LEMMA ReadOrderStep == TypeOK /\ ReadOrder /\ [Next]_vars => ReadOrder'
<1> SUFFICES ASSUME TypeOK, ReadOrder, [Next]_vars PROVE ReadOrder'
  OBVIOUS
<1> USE DEF ReadOrder, DeliveredInOrder, InHand, Frame, CurrentFrame
<1>0. received \in Seq(FrameKinds) /\ delivered \in Seq(Nat) /\ Len(received) \in Nat
  BY DEF TypeOK
<1>1. CASE /\ UNCHANGED <<started, rdOp, received, delivered>>
           /\ mqClosed => mqClosed'
           /\ rdOp = "header" => (rdRes' = "ok" <=> rdRes = "ok")
  BY <1>1
<1>2. ASSUME NEW kind \in FrameKinds, HeaderArrives(kind) PROVE ReadOrder'
  <2>1. /\ received' = Append(received, kind) /\ rdOp = "header" /\ ~InHand
        /\ UNCHANGED <<started, rdOp, delivered, mqClosed>> /\ rdRes' = "ok"
    BY <1>2 DEF HeaderArrives, closeVars
  <2>2. Len(received') = Len(received) + 1
        /\ \A n \in 1..Len(received) : received'[n] = received[n]
    BY <1>0, <2>1
  <2>3. \A i \in DOMAIN delivered : delivered[i] \in 1..Len(received)
    OBVIOUS
  <2>4. \A i \in DOMAIN delivered :
           delivered[i] \in 1..Len(received') /\ delivered[i] < Len(received')
           /\ received'[delivered[i]] = "data"
    <3> SUFFICES ASSUME NEW i \in DOMAIN delivered
                 PROVE  /\ delivered[i] \in 1..Len(received')
                        /\ delivered[i] < Len(received')
                        /\ received'[delivered[i]] = "data"
      OBVIOUS
    <3>1. delivered[i] \in 1..Len(received) /\ received[delivered[i]] = "data"
      BY <2>3
    <3> QED
      BY <1>0, <2>2, <3>1
  <2>5. ~mqClosed => \A n \in 1..Len(received) :
           received[n] = "data" => \E i \in DOMAIN delivered : delivered[i] = n
    <3> SUFFICES ASSUME ~mqClosed, NEW n \in 1..Len(received), received[n] = "data"
                 PROVE  \E i \in DOMAIN delivered : delivered[i] = n
      OBVIOUS
    <3>1. CASE n = Len(received)
      BY <1>0, <2>1, <3>1
    <3>2. CASE n # Len(received)
      <4>1. n \in 1..(Len(received) - 1)
        BY <1>0, <3>2
      <4> QED
        BY <4>1
    <3> QED
      BY <3>1, <3>2
  <2>6. ~mqClosed' => \A n \in 1..(Len(received') - 1) :
           received'[n] = "data" => \E i \in DOMAIN delivered' : delivered'[i] = n
    BY <1>0, <2>1, <2>2, <2>5
  <2>7. received' # << >> /\ started' = started /\ (~started => rdOp = "none")
    BY <1>0, <2>1
  <2> QED
    BY <2>1, <2>4, <2>6, <2>7
<1>3. CASE Start
  <2>1. received = << >> /\ UNCHANGED <<received, delivered, mqClosed>> /\ started'
        /\ rdOp' = "header" /\ rdRes' # "ok"
    BY <1>3 DEF Start, DoRead, Transfer
  <2> QED
    BY <2>1
<1>4. CASE HeaderRead
  <2>1. /\ UNCHANGED <<started, received, delivered, mqClosed>> /\ InHand
        /\ rdOp' = "none" \/ rdOp' = "body"
    BY <1>4 DEF HeaderRead, closeVars
  <2> QED
    BY <2>1
<1>5. CASE BodyRead
  <2>1. /\ UNCHANGED <<started, received, mqClosed>> /\ rdOp = "body"
        /\ rdOp' = "header" /\ rdRes' # "ok"
        /\ delivered' = IF Pushes THEN Append(delivered, Len(received)) ELSE delivered
    BY <1>5 DEF BodyRead, DoRead, Transfer, closeVars
  <2>2. CASE ~Pushes
    BY <2>1, <2>2 DEF Pushes
  <2>3. CASE Pushes
    <3> DEFINE last == Len(delivered) + 1
    <3>1. /\ delivered' = Append(delivered, Len(received)) /\ received[Len(received)] = "data"
          /\ Len(received) \in 1..Len(received)
      BY <1>0, <2>1, <2>3 DEF Pushes
    <3>2. /\ \A i \in DOMAIN delivered : i \in DOMAIN delivered' /\ delivered'[i] = delivered[i]
          /\ last \in DOMAIN delivered' /\ delivered'[last] = Len(received)
          /\ \A i \in DOMAIN delivered' : i \in DOMAIN delivered \/ i = last
      BY <1>0, <3>1
    <3>3. \A i \in DOMAIN delivered' :
             /\ delivered'[i] \in 1..Len(received)
             /\ received[delivered'[i]] = "data"
      BY <3>1, <3>2
    <3>4. \A i \in DOMAIN delivered' : \A j \in 1..(i - 1) : delivered'[j] < delivered'[i]
      <4> SUFFICES ASSUME NEW i \in DOMAIN delivered', NEW j \in 1..(i - 1)
                   PROVE  delivered'[j] < delivered'[i]
        OBVIOUS
      <4>1. j \in DOMAIN delivered /\ delivered'[j] = delivered[j]
        BY <1>0, <3>1, <3>2
      <4>2. CASE i = last
        BY <2>1, <3>2, <4>1, <4>2
      <4>3. CASE i \in DOMAIN delivered
        BY <3>2, <4>1, <4>3
      <4> QED
        BY <3>2, <4>2, <4>3
    <3>5. ~mqClosed => \A n \in 1..(Len(received) - 1) :
             received[n] = "data" => \E i \in DOMAIN delivered' : delivered'[i] = n
      BY <3>2
    <3>6. \E i \in DOMAIN delivered' : delivered'[i] = Len(received)
      BY <3>2
    <3> QED
      BY <2>1, <3>3, <3>4, <3>5, <3>6
  <2> QED
    BY <2>2, <2>3
<1>6. CASE ReadFailed
  <2>1. /\ UNCHANGED <<started, received, delivered, mqClosed>> /\ rdOp' = "none"
    BY <1>6 DEF ReadFailed, closeVars
  <2> QED
    BY <2>1
<1> QED
  BY <1>1, <1>2, <1>3, <1>4, <1>5, <1>6, ReadOrderSteps

\* receive() gets the messages of the peer in the order of their arrival, each
\* once and none left out, and never a heartbeat.
THEOREM DeliveryOrder == Spec => []DeliveredInOrder
<1>1. Init => TypeOK /\ OutboxWriter /\ ReadOrder
  BY InitType DEF Init, OutboxWriter, EmptyOutbox, HasFront, ReadOrder, DeliveredInOrder, InHand
<1>2. TypeOK /\ OutboxWriter /\ ReadOrder /\ [Next]_vars
         => (TypeOK /\ OutboxWriter /\ ReadOrder)'
  BY TypeStep, WriterStep, ReadOrderStep
<1>3. ReadOrder => DeliveredInOrder
  BY DEF ReadOrder
<1> QED
  BY <1>1, <1>2, <1>3, PTL DEF Spec

-----------------------------------------------------------------------------
(* Heartbeats.                                                             *)

\* Timer k runs or its handler is queued.
Lasts(t, k) == IsWaiting(t, k) \/ \E e \in t.fired : e.timer = k

\* No handler, queued or to come, erases the heartbeat send timer: the wait of
\* startAndGetTimer has been replaced by that of resetTimer.
NoErase(t) ==
    /\ \A e \in t.fired : e.timer = "hbSend" => e.via # "start"
    /\ t.map["hbSend"] # "start"

\* Until the close handler runs the heartbeat send timer has its entry, and no
\* queued handler will erase it.
BeatState ==
    /\ NoErase(tm)
    /\ started /\ ~closed /\ "hbSend" \in Timeouts => tm.map["hbSend"] # "absent"
    /\ HeartbeatsGoOn

LEMMA LastsKept ==
    ASSUME NEW t \in TimerState, NEW k \in TimerKinds, NEW j \in TimerKinds, Lasts(t, k)
    PROVE  /\ Lasts(StartTimer(t, j), k)
           /\ j # k => Lasts(CancelTimer(t, j), k)
           /\ Lasts(ResetTimer(t, j), k)
           /\ Lasts(ExpireTimer(t, j), k)
           /\ \A e \in t.fired : e.timer # k => Lasts(FinishExpiry(t, e), k)
<1>1. Lasts(StartTimer(t, j), k)
  BY StartTimerEffect DEF Lasts, IsWaiting
<1>2. j # k => Lasts(CancelTimer(t, j), k)
  BY CancelTimerEffect DEF Lasts, IsWaiting
<1>3. Lasts(ResetTimer(t, j), k)
  BY ResetTimerEffect DEF Lasts, IsWaiting
<1>4. Lasts(ExpireTimer(t, j), k)
  <2>1. CASE j = k
    <3>1. [timer |-> k, via |-> t.map[k]] \in ExpireTimer(t, j).fired
      BY <2>1, ExpireTimerEffect
    <3> QED
      BY <3>1 DEF Lasts
  <2>2. CASE j # k
    BY <2>2, ExpireTimerEffect DEF Lasts, IsWaiting
  <2> QED
    BY <2>1, <2>2
<1>5. ASSUME NEW e \in t.fired, e.timer # k PROVE Lasts(FinishExpiry(t, e), k)
  BY <1>5, FinishExpiryEffect DEF Lasts, IsWaiting
<1> QED
  BY <1>1, <1>2, <1>3, <1>4, <1>5

LEMMA NoEraseKept ==
    ASSUME NEW t \in TimerState, NEW j \in TimerKinds, NoErase(t)
    PROVE  /\ j # "hbSend" => NoErase(StartTimer(t, j))
           /\ NoErase(CancelTimer(t, j))
           /\ NoErase(ResetTimer(t, j))
           /\ NoErase(ExpireTimer(t, j))
           /\ \A e \in t.fired : NoErase(FinishExpiry(t, e))
<1>0. "hbSend" \in TimerKinds
  BY Kinds
<1>1. j # "hbSend" => NoErase(StartTimer(t, j))
  BY <1>0, StartTimerEffect DEF NoErase
<1>2. ASSUME NEW s \in TimerState, NoErase(s), NEW i \in TimerKinds
      PROVE  NoErase(CancelTimer(s, i))
  <2>1. \A e \in s.fired : Orphaned(e, i).timer = "hbSend" => Orphaned(e, i).via # "start"
    BY <1>2 DEF NoErase, Orphaned, TimerState, Expiry
  <2>2. \A e \in CancelTimer(s, i).fired : e.timer = "hbSend" => e.via # "start"
    BY <2>1 DEF CancelTimer
  <2>3. CancelTimer(s, i).map["hbSend"] # "start"
    BY <1>0, <1>2, CancelTimerEffect DEF NoErase
  <2> QED
    BY <2>2, <2>3 DEF NoErase
<1>3. NoErase(ResetTimer(t, j))
  BY <1>0, ResetTimerEffect DEF NoErase
<1>4. NoErase(ExpireTimer(t, j))
  <2>1. ExpireTimer(t, j).map["hbSend"] # "start"
    BY <1>0, ExpireTimerEffect DEF NoErase
  <2>2. \A e \in ExpireTimer(t, j).fired : e.timer = "hbSend" => e.via # "start"
    BY DEF NoErase, ExpireTimer
  <2> QED
    BY <2>1, <2>2 DEF NoErase
<1>5. ASSUME NEW e \in t.fired PROVE NoErase(FinishExpiry(t, e))
  <2> DEFINE rest == [t EXCEPT !.fired = @ \ {e}]
  <2>1. rest \in TimerState /\ e.timer \in TimerKinds /\ NoErase(rest)
    BY DEF TimerState, Expiry, NoErase
  <2>2. NoErase(CancelTimer(rest, e.timer))
    BY <1>2, <2>1
  <2> QED
    BY <2>1, <2>2 DEF FinishExpiry
<1> QED
  BY <1>1, <1>2, <1>3, <1>4, <1>5

\* What any operation on timers other than the two of the heartbeats, and the
\* renewal of the heartbeat watch, keeps.
Kept(t, u) ==
    /\ u \in TimerState /\ NoErase(u)
    /\ t.map["hbSend"] # "absent" => u.map["hbSend"] # "absent"
    /\ \A k \in HeartbeatTimers : Lasts(t, k) => Lasts(u, k)

LEMMA OperationsKeep ==
    ASSUME NEW t \in TimerState, NoErase(t), NEW j \in OpTimers
    PROVE  /\ Kept(t, StartTimer(t, j))
           /\ Kept(t, CancelTimer(t, j))
           /\ Kept(t, ResetTimer(t, "hbTimeout"))
           /\ \A e \in t.fired : e.timer = j => Kept(t, FinishExpiry(t, e))
<1>0. /\ j \in TimerKinds /\ "hbSend" \in TimerKinds /\ "hbTimeout" \in TimerKinds
      /\ j \notin HeartbeatTimers /\ "hbSend" \in HeartbeatTimers
      /\ \A k \in HeartbeatTimers : k \in TimerKinds
  BY Kinds
<1>1. Kept(t, StartTimer(t, j))
  <2>1. StartTimer(t, j).map["hbSend"] = t.map["hbSend"]
    BY <1>0, StartTimerEffect
  <2> QED
    BY <1>0, <2>1, StartTimerType, NoEraseKept, LastsKept DEF Kept
<1>2. Kept(t, CancelTimer(t, j))
  <2>1. CancelTimer(t, j).map["hbSend"] = t.map["hbSend"]
    BY <1>0, CancelTimerEffect
  <2> QED
    BY <1>0, <2>1, CancelTimerType, NoEraseKept, LastsKept DEF Kept
<1>3. Kept(t, ResetTimer(t, "hbTimeout"))
  <2>1. ResetTimer(t, "hbTimeout").map["hbSend"] = t.map["hbSend"]
    BY <1>0, ResetTimerEffect
  <2> QED
    BY <1>0, <2>1, ResetTimerType, NoEraseKept, LastsKept DEF Kept
<1>4. ASSUME NEW e \in t.fired, e.timer = j PROVE Kept(t, FinishExpiry(t, e))
  <2>1. FinishExpiry(t, e).map["hbSend"] = t.map["hbSend"]
    BY <1>0, <1>4, FinishExpiryEffect
  <2> QED
    BY <1>0, <1>4, <2>1, FinishExpiryType, NoEraseKept, LastsKept DEF Kept
<1> QED
  BY <1>1, <1>2, <1>3, <1>4

LEMMA KeptTwice == \A t, u, v : Kept(t, u) /\ Kept(u, v) => Kept(t, v)
BY DEF Kept

\* A step that keeps them, and the posted close, keeps the heartbeats going.
LEMMA KeptStep ==
    ASSUME TypeOK, BeatState, [Next]_vars, Kept(tm, tm'), UNCHANGED <<started, closed>>
    PROVE  BeatState'
<1>1. ClosePosted /\ ~closed' => ClosePosted'
  BY ClosePostedStep
<1>2. "hbSend" \in HeartbeatTimers /\ "hbTimeout" \in HeartbeatTimers
  BY Kinds
<1>3. HeartbeatsGoOn'
  BY <1>1, <1>2 DEF BeatState, HeartbeatsGoOn, Queued, Kept, Lasts
<1> QED
  BY <1>3 DEF BeatState, Kept

LEMMA BeatStep == TypeOK /\ LoopState /\ BeatState /\ [Next]_vars => BeatState'
<1> SUFFICES ASSUME TypeOK, LoopState, BeatState, [Next]_vars PROVE BeatState'
  OBVIOUS
<1>0. /\ tm \in TimerState /\ NoErase(tm)
      /\ "hbSend" \in TimerKinds /\ "hbTimeout" \in TimerKinds
      /\ "read" \in OpTimers /\ "body" \in OpTimers /\ "send" \in OpTimers
  BY Kinds DEF TypeOK, BeatState
<1>1. CASE UNCHANGED <<tm, started, closed>>
  BY <1>0, <1>1, KeptStep DEF Kept
<1>2. ASSUME NEW k \in TimerKinds, Expire(k) PROVE BeatState'
  <2>1. tm' = ExpireTimer(tm, k) /\ IsWaiting(tm, k) /\ UNCHANGED <<started, closed>>
    BY <1>2 DEF Expire, closeVars
  <2>2. tm'.map["hbSend"] # "absent" \/ tm.map["hbSend"] = "absent"
    BY <1>0, <2>1, ExpireTimerEffect
  <2>3. Kept(tm, tm')
    BY <1>0, <2>1, <2>2, Kinds, ExpireTimerType, NoEraseKept, LastsKept DEF Kept
  <2> QED
    BY <2>1, <2>3, KeptStep
<1>3. CASE Start
  <2> DEFINE t1 == StartTimer(tm, "hbTimeout")
             t2 == StartTimer(t1, "hbSend")
             t3 == ResetTimer(t2, "hbSend")
  <2>1. t1 \in TimerState /\ t2 \in TimerState /\ t3 \in TimerState
    BY <1>0, StartTimerType, ResetTimerType
  <2>2. NoErase(t1)
    BY <1>0, NoEraseKept
  <2>3. t2.fired = t1.fired /\ t3.fired = t2.fired
    BY <1>0, <2>1, StartTimerEffect, ResetTimerEffect
  <2>4. t3.map["hbSend"] # "start"
    BY <1>0, <2>1, ResetTimerEffect
  <2>5. NoErase(t3)
    BY <2>2, <2>3, <2>4 DEF NoErase
  <2>6. "hbSend" \in Timeouts => t3.map["hbSend"] = "reset"
    BY <1>0, <2>1, StartTimerEffect, ResetTimerEffect
  <2>7. "hbTimeout" \in Timeouts => t3.map["hbTimeout"] = "start"
    BY <1>0, <2>1, StartTimerEffect, ResetTimerEffect
  <2>8. tm' = StartTimer(t3, "read")
    BY <1>3 DEF Start, DoRead
  <2>9. Kept(t3, tm')
    BY <1>0, <2>1, <2>5, <2>8, OperationsKeep
  <2>10. "hbSend" \in Timeouts => Lasts(tm', "hbSend") /\ tm'.map["hbSend"] # "absent"
    BY <2>6, <2>9, Kinds DEF Kept, Lasts, IsWaiting
  <2>11. "hbTimeout" \in Timeouts => Lasts(tm', "hbTimeout")
    BY <2>7, <2>9, Kinds DEF Kept, Lasts, IsWaiting
  <2> QED
    BY <2>9, <2>10, <2>11 DEF BeatState, HeartbeatsGoOn, Queued, Lasts, Kept
<1>4. CASE RunSend
  <2>1. UNCHANGED <<started, closed>> /\ (tm' = tm \/ tm' = StartTimer(tm, "send"))
    BY <1>4 DEF RunSend, DoSend, closeVars
  <2> QED
    BY <1>0, <1>1, <2>1, OperationsKeep, KeptStep
<1>5. CASE RunClose
  <2>1. CASE closed
    BY <1>1, <1>5, <2>1 DEF RunClose, CloseIsDone
  <2>2. CASE ~closed
    <3>1. closed' /\ tm' = CancelTimer(CancelTimer(tm, "hbTimeout"), "hbSend")
      BY <1>5, <2>2 DEF RunClose, CloseIsDone
    <3>2. NoErase(tm')
      BY <1>0, <3>1, CancelTimerType, NoEraseKept
    <3> QED
      BY <3>1, <3>2 DEF BeatState, HeartbeatsGoOn
  <2> QED
    BY <2>1, <2>2
<1>6. CASE HeaderRead
  <2> DEFINE t == CancelTimer(tm, "read")
             renewed == IF WatchesHeartbeat THEN ResetTimer(t, "hbTimeout") ELSE t
  <2>1. Kept(tm, t)
    BY <1>0, OperationsKeep
  <2>2. Kept(t, ResetTimer(t, "hbTimeout")) /\ Kept(t, t)
    BY <1>0, <2>1, OperationsKeep DEF Kept
  <2>3. Kept(tm, renewed)
    BY <2>1, <2>2, KeptTwice
  <2>4. Kept(renewed, StartTimer(renewed, "body"))
    BY <1>0, <2>3, OperationsKeep DEF Kept
  <2>5. Kept(tm, StartTimer(renewed, "body"))
    BY <2>3, <2>4, KeptTwice
  <2>6. UNCHANGED <<started, closed>> /\ tm' \in {renewed, StartTimer(renewed, "body")}
    BY <1>6 DEF HeaderRead, closeVars
  <2> QED
    BY <2>3, <2>5, <2>6, KeptStep
<1>7. CASE BodyRead
  <2> DEFINE t == CancelTimer(tm, "body")
  <2>1. Kept(tm, t)
    BY <1>0, OperationsKeep
  <2>2. Kept(t, StartTimer(t, "read"))
    BY <1>0, <2>1, OperationsKeep DEF Kept
  <2>3. UNCHANGED <<started, closed>> /\ tm' = StartTimer(t, "read")
    BY <1>7 DEF BodyRead, DoRead, closeVars
  <2> QED
    BY <2>1, <2>2, <2>3, KeptTwice, KeptStep
<1>8. CASE ReadFailed
  <2>1. UNCHANGED <<started, closed>>
        /\ (tm' = CancelTimer(tm, "read") \/ tm' = CancelTimer(tm, "body"))
    BY <1>8 DEF ReadFailed, closeVars
  <2> QED
    BY <1>0, <2>1, OperationsKeep, KeptStep
<1>9. CASE FrameWritten \/ WriteFailed
  <2> DEFINE t == CancelTimer(tm, "send")
  <2>1. Kept(tm, t)
    BY <1>0, OperationsKeep
  <2>2. Kept(t, StartTimer(t, "send"))
    BY <1>0, <2>1, OperationsKeep DEF Kept
  <2>3. UNCHANGED <<started, closed>> /\ (tm' = t \/ tm' = StartTimer(t, "send"))
    BY <1>9 DEF FrameWritten, WriteFailed, DoSend, closeVars
  <2> QED
    BY <2>1, <2>2, <2>3, KeptTwice, KeptStep
<1>10. ASSUME NEW e \in tm.fired, OpTimeout(e) PROVE BeatState'
  <2>1. UNCHANGED <<started, closed>> /\ tm' = FinishExpiry(tm, e) /\ e.timer \in OpTimers
    BY <1>10 DEF OpTimeout, closeVars
  <2>2. Kept(tm, tm')
    BY <1>0, <2>1, OperationsKeep
  <2> QED
    BY <2>1, <2>2, KeptStep
<1>11. ASSUME NEW e \in tm.fired, HeartbeatTimeout(e) PROVE BeatState'
  <2>1. /\ UNCHANGED <<started, closed>> /\ ClosePosted'
        /\ tm' = FinishExpiry(tm, e) /\ e.timer = "hbTimeout"
    BY <1>11, PostClosePosts DEF HeartbeatTimeout, closeVars
  <2>2. NoErase(tm') /\ tm'.map["hbSend"] = tm.map["hbSend"]
    BY <1>0, <2>1, NoEraseKept, FinishExpiryEffect
  <2>3. Lasts(tm, "hbSend") => Lasts(tm', "hbSend")
    BY <1>0, <2>1, LastsKept
  <2> QED
    BY <2>1, <2>2, <2>3 DEF BeatState, HeartbeatsGoOn, Queued, Lasts
<1>12. ASSUME NEW e \in tm.fired, HeartbeatSend(e) PROVE BeatState'
  <2> DEFINE t == FinishExpiry(tm, e)
  <2>1. UNCHANGED <<started, closed>> /\ e.timer = "hbSend" /\ e.via # "start"
    BY <1>0, <1>12 DEF HeartbeatSend, closeVars, NoErase
  <2>2. t \in TimerState /\ NoErase(t) /\ t.map["hbSend"] = tm.map["hbSend"]
    BY <1>0, <2>1, FinishExpiryType, FinishExpiryEffect, NoEraseKept
  <2>3. CASE closed
    BY <1>12, <2>1, <2>2, <2>3 DEF HeartbeatSend, BeatState, HeartbeatsGoOn
  <2>4. CASE ~closed
    <3>1. tm' = ResetTimer(t, "hbSend")
      BY <1>12, <2>4 DEF HeartbeatSend
    <3>2. NoErase(tm')
      BY <1>0, <2>2, <3>1, NoEraseKept
    <3>3. started /\ "hbSend" \in Timeouts => tm'.map["hbSend"] = "reset"
      BY <1>0, <2>2, <2>4, <3>1, ResetTimerEffect DEF BeatState
    <3>4. Lasts(tm, "hbTimeout") => Lasts(tm', "hbTimeout")
      BY <1>0, <2>1, <2>2, <3>1, LastsKept
    <3>5. ClosePosted => ClosePosted'
      BY <2>1, <2>4, ClosePostedStep
    <3> QED
      BY <2>1, <3>2, <3>3, <3>4, <3>5
         DEF BeatState, HeartbeatsGoOn, Queued, Lasts, IsWaiting
  <2> QED
    BY <2>3, <2>4
<1> QED
  BY <1>1, <1>2, <1>3, <1>4, <1>5, <1>6, <1>7, <1>8, <1>9, <1>10, <1>11, <1>12, TimerSteps
     DEF Quiet

\* The heartbeats go out and the peer's are watched for as long as the
\* connection lives: no handler of an earlier wait erases the timer of
\* doHeartBeatLoop, and the watch ends only in a posted close.
THEOREM HeartbeatsLast == Spec => []HeartbeatsGoOn
<1> DEFINE Inv == TypeOK /\ OutboxWriter /\ LoopState /\ BeatState
<1>1. Init => Inv
  <2> SUFFICES ASSUME Init PROVE Inv
    OBVIOUS
  <2>1. TypeOK /\ OutboxWriter
    BY InitType DEF Init, OutboxWriter, EmptyOutbox, HasFront
  <2>2. tm.fired = {} /\ \A k \in TimerKinds : tm.map[k] = "absent"
    BY DEF Init, NoTimers
  <2>3. LoopState /\ BeatState
    BY <2>2, Kinds DEF Init, LoopState, NoReset, BeatState, NoErase, HeartbeatsGoOn
  <2> QED
    BY <2>1, <2>3
<1>2. Inv /\ [Next]_vars => Inv'
  BY TypeStep, WriterStep, LoopStateStep, BeatStep
<1>3. Inv => HeartbeatsGoOn
  BY DEF BeatState
<1> QED
  BY <1>1, <1>2, <1>3, PTL DEF Spec
-----------------------------------------------------------------------------
(* The documentation says that 0 turns the body timeout off.  body_timeout_off *)
(* shows a body read that is reported as timed out although it is off, because *)
(* a queued expiry of the read timer aborts it.  The claim holds once the      *)
(* timers of reads and writes are off altogether.                              *)

\* Neither a timer of a read or a write nor a handler of one.
NoOpTimer(t) ==
    \A k \in OpTimers : t.map[k] = "absent" /\ \A e \in t.fired : e.timer # k

\* No operator of timeout_manager.h brings one up if all three are off.
LEMMA NoOpTimerKept ==
    ASSUME Timeouts \cap OpTimers = {},
           NEW t \in TimerState, NEW k \in TimerKinds, NoOpTimer(t)
    PROVE  /\ NoOpTimer(StartTimer(t, k))
           /\ NoOpTimer(CancelTimer(t, k))
           /\ NoOpTimer(ResetTimer(t, k))
           /\ IsWaiting(t, k) => NoOpTimer(ExpireTimer(t, k))
           /\ \A e \in t.fired : NoOpTimer(FinishExpiry(t, e))
<1>0. \A j \in OpTimers : j \in TimerKinds /\ j \notin Timeouts
  BY Kinds
<1>1. NoOpTimer(StartTimer(t, k))
  <2>1. /\ StartTimer(t, k).fired = t.fired
        /\ \A j \in OpTimers : StartTimer(t, k).map[j] = t.map[j]
    BY <1>0, StartTimerEffect
  <2> QED
    BY <2>1 DEF NoOpTimer
<1>2. ASSUME NEW u \in TimerState, NEW j \in TimerKinds, NoOpTimer(u)
      PROVE  NoOpTimer(CancelTimer(u, j))
  <2>1. \A i \in OpTimers : CancelTimer(u, j).map[i] = "absent"
    BY <1>0, <1>2, CancelTimerEffect DEF NoOpTimer
  <2>2. \A e \in CancelTimer(u, j).fired : \E f \in u.fired : e.timer = f.timer
    BY <1>2 DEF CancelTimer, Orphaned, TimerState, Expiry
  <2> QED
    BY <1>2, <2>1, <2>2 DEF NoOpTimer
<1>3. NoOpTimer(ResetTimer(t, k))
  <2>1. /\ ResetTimer(t, k).fired = t.fired
        /\ \A j \in OpTimers : ResetTimer(t, k).map[j] = "absent"
    BY <1>0, ResetTimerEffect DEF NoOpTimer
  <2> QED
    BY <2>1 DEF NoOpTimer
<1>4. ASSUME IsWaiting(t, k) PROVE NoOpTimer(ExpireTimer(t, k))
  <2>1. k \notin OpTimers
    BY <1>4 DEF NoOpTimer, IsWaiting
  <2>2. \A j \in OpTimers : ExpireTimer(t, k).map[j] = t.map[j]
    BY <1>0, <2>1, ExpireTimerEffect
  <2>3. \A e \in ExpireTimer(t, k).fired : e \in t.fired \/ e.timer = k
    BY DEF ExpireTimer
  <2> QED
    BY <2>1, <2>2, <2>3 DEF NoOpTimer
<1>5. ASSUME NEW e \in t.fired PROVE NoOpTimer(FinishExpiry(t, e))
  <2> DEFINE rest == [t EXCEPT !.fired = @ \ {e}]
  <2>1. rest \in TimerState /\ e.timer \in TimerKinds /\ NoOpTimer(rest)
    BY DEF TimerState, Expiry, NoOpTimer
  <2>2. NoOpTimer(CancelTimer(rest, e.timer))
    BY <1>2, <2>1
  <2> QED
    BY <2>1, <2>2 DEF FinishExpiry
<1> QED
  BY <1>1, <1>2, <1>3, <1>4, <1>5

\* Then no timeout aborts a read, and only close() does.
OnlyCloseAborts ==
    /\ NoOpTimer(tm)
    /\ rdRes = "aborted" => closed
    /\ "body" \notin logged

\* Every step keeps that.
LEMMA OnlyCloseAbortsStep ==
    ASSUME Timeouts \cap OpTimers = {}
    PROVE  TypeOK /\ OutboxWriter /\ OnlyCloseAborts /\ [Next]_vars => OnlyCloseAborts'
<1> SUFFICES ASSUME TypeOK, OutboxWriter, OnlyCloseAborts, [Next]_vars
             PROVE  OnlyCloseAborts'
  OBVIOUS
<1> USE DEF OnlyCloseAborts, closeVars, readVars, writeVars, sendVars
<1>0. tm \in TimerState /\ \A e \in tm.fired : e.timer \in TimerKinds
  BY DEF TypeOK, TimerState, Expiry
<1>1. CASE User
  BY <1>1 DEF User, SendCall, CloseCall, CloseMessageQueue
<1>2. CASE Kernel
  BY <1>2 DEF Kernel, HeaderArrives, BodyArrives, ReadFails, WriteCompletes, WriteFails,
              PartRead, PartWritten
<1>3. ASSUME NEW k \in TimerKinds, Expire(k) PROVE OnlyCloseAborts'
  BY <1>0, <1>3, NoOpTimerKept DEF Expire
<1>4. CASE Start
  <2> DEFINE t == StartTimer(tm, "hbTimeout")
             u == StartTimer(t, "hbSend")
             v == ResetTimer(u, "hbSend")
  <2>1. t \in TimerState /\ NoOpTimer(t)
    BY <1>0, Kinds, NoOpTimerKept, StartTimerType
  <2>2. u \in TimerState /\ NoOpTimer(u)
    BY <2>1, Kinds, NoOpTimerKept, StartTimerType
  <2>3. v \in TimerState /\ NoOpTimer(v)
    BY <2>2, Kinds, NoOpTimerKept, ResetTimerType
  <2>4. NoOpTimer(StartTimer(v, "read"))
    BY <2>3, Kinds, NoOpTimerKept
  <2> QED
    BY <1>4, <2>4 DEF Start, DoRead, Transfer
<1>5. CASE RunSend
  <2>1. NoOpTimer(StartTimer(tm, "send"))
    BY <1>0, Kinds, NoOpTimerKept
  <2> QED
    BY <1>5, <2>1 DEF RunSend, DoSend
<1>6. CASE RunClose
  <2> DEFINE t == CancelTimer(tm, "hbTimeout")
  <2>1. t \in TimerState /\ NoOpTimer(t)
    BY <1>0, Kinds, NoOpTimerKept, CancelTimerType
  <2>2. NoOpTimer(CancelTimer(t, "hbSend"))
    BY <2>1, Kinds, NoOpTimerKept
  <2> QED
    BY <1>6, <2>2 DEF RunClose, CloseIsDone
<1>7. CASE ReadOn \/ WriteOn
  BY <1>7 DEF ReadOn, WriteOn, Transfer
<1>8. CASE HeaderRead
  <2> DEFINE t == CancelTimer(tm, "read")
  <2>1. t \in TimerState /\ NoOpTimer(t)
    BY <1>0, Kinds, NoOpTimerKept, CancelTimerType
  <2> DEFINE u == IF WatchesHeartbeat THEN ResetTimer(t, "hbTimeout") ELSE t
  <2>2. u \in TimerState /\ NoOpTimer(u)
    BY <2>1, Kinds, NoOpTimerKept, ResetTimerType
  <2>3. NoOpTimer(StartTimer(u, "body"))
    BY <2>2, Kinds, NoOpTimerKept
  <2> QED
    BY <1>8, <2>2, <2>3 DEF HeaderRead, Transfer
<1>9. CASE BodyRead
  <2> DEFINE t == CancelTimer(tm, "body")
  <2>1. t \in TimerState /\ NoOpTimer(t)
    BY <1>0, Kinds, NoOpTimerKept, CancelTimerType
  <2>2. NoOpTimer(StartTimer(t, "read"))
    BY <2>1, Kinds, NoOpTimerKept
  <2> QED
    BY <1>9, <2>2 DEF BodyRead, DoRead, Transfer
<1>10. CASE ReadFailed
  <2>1. NoOpTimer(CancelTimer(tm, IF rdOp = "header" THEN "read" ELSE "body"))
    BY <1>0, Kinds, NoOpTimerKept
  <2> QED
    BY <1>10, <2>1 DEF ReadFailed, ReportFailure
<1>11. CASE FrameWritten
  <2> DEFINE t == CancelTimer(tm, "send")
  <2>1. t \in TimerState /\ NoOpTimer(t)
    BY <1>0, Kinds, NoOpTimerKept, CancelTimerType
  <2>2. NoOpTimer(StartTimer(t, "send"))
    BY <2>1, Kinds, NoOpTimerKept
  <2> QED
    BY <1>11, <2>1, <2>2 DEF FrameWritten, DoSend
<1>12. CASE WriteFailed
  <2>1. NoOpTimer(CancelTimer(tm, "send"))
    BY <1>0, Kinds, NoOpTimerKept
  <2> QED
    BY <1>12, <2>1 DEF WriteFailed, ReportFailure
<1>13. ASSUME NEW e \in tm.fired, OpTimeout(e) \/ HeartbeatTimeout(e) \/ HeartbeatSend(e)
       PROVE  OnlyCloseAborts'
  <2> DEFINE t == FinishExpiry(tm, e)
  <2>1. t \in TimerState /\ NoOpTimer(t)
    BY <1>0, NoOpTimerKept, FinishExpiryType
  <2>2. NoOpTimer(ResetTimer(t, "hbSend"))
    BY <2>1, Kinds, NoOpTimerKept
  <2>3. ~OpTimeout(e)
    BY DEF OpTimeout, NoOpTimer
  <2>4. CASE HeartbeatTimeout(e)
    BY <2>1, <2>4 DEF HeartbeatTimeout
  <2>5. CASE HeartbeatSend(e)
    BY <2>1, <2>2, <2>5 DEF HeartbeatSend
  <2> QED
    BY <1>13, <2>3, <2>4, <2>5
<1>14. CASE UNCHANGED vars
  BY <1>14 DEF vars
<1> QED
  BY <1>1, <1>2, <1>3, <1>4, <1>5, <1>6, <1>7, <1>8, <1>9, <1>10, <1>11, <1>12, <1>13, <1>14
     DEF Next, Clock, IOThread, RunTask, RunRead, RunWrite, RunExpiry

\* With the read, body and send timeouts off no body read is reported as timed
\* out, in whatever order reads, heartbeats and closes run: what
\* body_timeout_off shows comes from the expiry of another operation's timer.
THEOREM NoTimerNoTimeout ==
    ASSUME Timeouts \cap OpTimers = {}
    PROVE  Spec => []BodyTimeoutOff
<1>1. Init => TypeOK /\ OutboxWriter /\ OnlyCloseAborts
  <2> SUFFICES ASSUME Init PROVE TypeOK /\ OutboxWriter /\ OnlyCloseAborts
    OBVIOUS
  <2>1. TypeOK /\ OutboxWriter
    BY InitType DEF Init, OutboxWriter, EmptyOutbox, HasFront
  <2>2. NoOpTimer(tm)
    BY Kinds DEF Init, NoTimers, NoOpTimer
  <2> QED
    BY <2>1, <2>2 DEF Init, OnlyCloseAborts
<1>2. TypeOK /\ OutboxWriter /\ OnlyCloseAborts /\ [Next]_vars
        => (TypeOK /\ OutboxWriter /\ OnlyCloseAborts)'
  BY TypeStep, WriterStep, OnlyCloseAbortsStep
<1>3. OnlyCloseAborts => BodyTimeoutOff
  BY DEF OnlyCloseAborts, BodyTimeoutOff
<1> QED
  BY <1>1, <1>2, <1>3, PTL DEF Spec
=============================================================================
