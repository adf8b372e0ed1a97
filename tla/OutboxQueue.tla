----------------------------- MODULE OutboxQueue -----------------------------
(***************************************************************************)
(* include/outbox_queue.h: the frames of one connection that wait to be    *)
(* written, and the flag that makes one async_write at a time own the      *)
(* socket.  Every method holds qLock from its first to its last line, so   *)
(* each is one function of the queue's state; Connection applies them      *)
(* inside its handlers.                                                    *)
(***************************************************************************)
EXTENDS Naturals, Sequences

\* The fields queue, isWriting and closed, with frames drawn from Frame.
OutboxState(Frame) ==
    [queue: Seq(Frame), isWriting: BOOLEAN, closed: BOOLEAN]

EmptyOutbox == [queue |-> << >>, isWriting |-> FALSE, closed |-> FALSE]

\* The value pushAndClaim returns: the caller must start the write itself.
\* The faulty ClaimsAlways forgets to look at checkWriting().
ClaimsAlways(ob) == ~ob.closed
Claims(ob) == ~ob.closed /\ ~ob.isWriting

\* What pushAndClaim does to the queue.  The faulty PushAndClaimInFront queues
\* the newest frame before the ones that wait.
PushAndClaimInFront(ob, frame) ==
    IF ob.closed THEN ob
    ELSE [queue |-> <<frame>> \o ob.queue, isWriting |-> TRUE, closed |-> FALSE]
PushAndClaim(ob, frame) ==
    IF ob.closed THEN ob
    ELSE [queue |-> Append(ob.queue, frame), isWriting |-> TRUE, closed |-> FALSE]

\* What popAndNext does: drop the frame just written; the write role is given
\* up only when nothing is left.  queue.pop() on an empty std::queue is
\* undefined, so every caller owes HasFront.
HasFront(ob) == ob.queue # << >>
PopAndNext(ob) ==
    LET rest == Tail(ob.queue)
    IN  [queue     |-> rest,
         isWriting |-> ob.isWriting /\ rest # << >>,
         closed    |-> ob.closed]

CloseOutbox(ob) == [ob EXCEPT !.closed = TRUE]
=============================================================================
