---------------------------- MODULE MessageQueue ----------------------------
(***************************************************************************)
(* include/message_queue.h: the queue between the I/O thread, which pushes *)
(* the messages of all connections, and the users' threads, which pop them *)
(* in receive() and close the queue in stop().  The client's disconnect    *)
(* callback closes it on the I/O thread.                                   *)
(*                                                                         *)
(* What a thread does under qLock is one action.  notify_one and           *)
(* notify_all come after the lock has been released and are actions of     *)
(* their own: any number of other steps may come in between.               *)
(***************************************************************************)
EXTENDS Naturals, Sequences, FiniteSets

CONSTANTS
    Users,       \* threads that call receive() and stop()
    MaxMessages  \* bound: calls of push()

ASSUME MessageQueueAssumption == IsFiniteSet(Users) /\ MaxMessages \in Nat

VARIABLES
    queue,   \* queue: the messages, by the number of their push()
    closed,  \* closed
    user,    \* where each user's thread is
    io,      \* where the I/O thread is
    pushes,  \* calls of push() so far
    taken    \* the messages pop() has returned, in order

vars == <<queue, closed, user, io, pushes, taken>>

\* "pop": about to take qLock and look at the queue.  "waiting": blocked in
\* qCv.wait.  "notifyOne", "notifyAll": past the locked part of push or close.
Places == {"idle", "pop", "waiting", "notifyAll"}
IOPlaces == {"idle", "notifyOne", "notifyAll"}

At(place) == {u \in Users : user[u] = place}

Init ==
    /\ queue = << >>
    /\ closed = FALSE
    /\ user = [u \in Users |-> "idle"]
    /\ io = "idle"
    /\ pushes = 0
    /\ taken = << >>

-----------------------------------------------------------------------------
(* The I/O thread.                                                         *)

\* push(); a closed queue refuses the message, and so does one that cannot get
\* the memory for it (stored = FALSE): then nobody is notified.
Push(stored) ==
    /\ io = "idle" /\ pushes < MaxMessages
    /\ pushes' = pushes + 1
    /\ IF ~closed /\ stored
       THEN queue' = Append(queue, pushes') /\ io' = "notifyOne"
       ELSE UNCHANGED <<queue, io>>
    /\ UNCHANGED <<closed, user, taken>>

\* One of the threads that wait, if any, goes for the lock again.
NotifyOne ==
    /\ io = "notifyOne"
    /\ io' = "idle"
    /\ IF At("waiting") = {} THEN UNCHANGED user
       ELSE \E u \in At("waiting") : user' = [user EXCEPT ![u] = "pop"]
    /\ UNCHANGED <<queue, closed, pushes, taken>>

\* close() and its notify_all, by the disconnect callback of the client.
CloseByCallback ==
    /\ io = "idle"
    /\ io' = "notifyAll"
    /\ closed' = TRUE
    /\ UNCHANGED <<queue, user, pushes, taken>>

\* The threads after notify_all.
Woken == [u \in Users |-> IF user[u] = "waiting" THEN "pop" ELSE user[u]]

NotifyAllByCallback ==
    /\ io = "notifyAll"
    /\ io' = "idle"
    /\ user' = Woken
    /\ UNCHANGED <<queue, closed, pushes, taken>>

-----------------------------------------------------------------------------
(* The users' threads.                                                     *)

Close(u) ==
    /\ user[u] = "idle"
    /\ user' = [user EXCEPT ![u] = "notifyAll"]
    /\ closed' = TRUE
    /\ UNCHANGED <<queue, io, pushes, taken>>

NotifyAll(u) ==
    /\ user[u] = "notifyAll"
    /\ user' = [Woken EXCEPT ![u] = "idle"]
    /\ UNCHANGED <<queue, closed, io, pushes, taken>>

\* pop() is called.
Receive(u) ==
    /\ user[u] = "idle"
    /\ user' = [user EXCEPT ![u] = "pop"]
    /\ UNCHANGED <<queue, closed, io, pushes, taken>>

\* queue.front().  The faulty Newest is queue.back().
Newest == queue[Len(queue)]
Oldest == Head(queue)

\* The condition of qCv.wait holds.  A queue that is closed and not empty still
\* gives its messages.
PopMessage(u) ==
    /\ user[u] = "pop" /\ queue # << >>
    /\ queue' = Tail(queue)
    /\ taken' = Append(taken, Oldest)
    /\ user' = [user EXCEPT ![u] = "idle"]
    /\ UNCHANGED <<closed, io, pushes>>

\* The faulty WokenForNothing is a qCv.wait without a condition: whoever is up
\* and finds the queue empty leaves.
WokenForNothing == queue = << >>
ClosedAndEmpty == queue = << >> /\ closed
PopNothing(u) ==
    /\ user[u] = "pop" /\ ClosedAndEmpty
    /\ user' = [user EXCEPT ![u] = "idle"]
    /\ UNCHANGED <<queue, closed, io, pushes, taken>>

\* The condition does not hold: the lock is released and the thread blocks in
\* one step.  The faulty MustWait waits first and looks afterwards.
MustWait == TRUE
NothingToPop == queue = << >> /\ ~closed
Wait(u) ==
    /\ user[u] = "pop" /\ NothingToPop
    /\ user' = [user EXCEPT ![u] = "waiting"]
    /\ UNCHANGED <<queue, closed, io, pushes, taken>>

\* std::condition_variable may wake a thread without any notification.
SpuriousWakeup(u) ==
    /\ user[u] = "waiting"
    /\ user' = [user EXCEPT ![u] = "pop"]
    /\ UNCHANGED <<queue, closed, io, pushes, taken>>

-----------------------------------------------------------------------------
Notifies == NotifyOne \/ NotifyAllByCallback
IOThread == (\E stored \in BOOLEAN : Push(stored)) \/ CloseByCallback \/ Notifies

Pops(u) == PopMessage(u) \/ PopNothing(u) \/ Wait(u)
User(u) == Close(u) \/ NotifyAll(u) \/ Receive(u) \/ Pops(u) \/ SpuriousWakeup(u)

Next == IOThread \/ \E u \in Users : User(u)

Spec == Init /\ [][Next]_vars

\* A thread that is inside push, pop or close goes on; nobody has to call them
\* and no wakeup is spurious.
Fairness ==
    /\ WF_vars(Notifies)
    /\ \A u \in Users : WF_vars(Pops(u)) /\ WF_vars(NotifyAll(u))

FairSpec == Spec /\ Fairness

-----------------------------------------------------------------------------
(* Properties.                                                             *)

\* Every variable has its type.
TypeOK ==
    /\ queue \in Seq(1..MaxMessages)
    /\ closed \in BOOLEAN
    /\ user \in [Users -> Places]
    /\ io \in IOPlaces
    /\ pushes \in 0..MaxMessages
    /\ taken \in Seq(1..MaxMessages)

\* While a thread waits, every message in the queue has a thread or a
\* notification on its way to fetch it, also when another thread has come in
\* between and taken the message the notification was for; and while a thread
\* waits on a closed queue the notify_all of a close() is still to come.
NoLostWakeup ==
    At("waiting") # {} =>
        /\ Len(queue) <= Cardinality(At("pop")) + (IF io = "notifyOne" THEN 1 ELSE 0)
        /\ closed => At("notifyAll") # {} \/ io = "notifyAll"

\* receive() is a mailbox: it returns what push() put in, in order, each message
\* once, and nothing only when the queue is closed and empty.
Box == INSTANCE Mailbox
           WITH Messages <- 1..MaxMessages, mail <- queue, shut <- closed,
                asking <- At("pop") \cup At("waiting")
IsMailbox == Box!Spec

\* It serves as one: no wait while there is something to return, and no wait
\* after close(), whatever wakeups are spent on threads that find the queue empty.
MailboxServes == Box!Served
=============================================================================
