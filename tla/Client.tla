------------------------------- MODULE Client -------------------------------
(***************************************************************************)
(* include/client.h: start(), stop() and what happens when the connection  *)
(* closes by itself.                                                       *)
(*                                                                         *)
(* Any of the user's threads may call stop(), several at a time ("Safe to  *)
(* call more than once").  start() is not made for that: here it never     *)
(* overlaps a stop(), but it may come after one.  A connection is reduced  *)
(* to what the client sees of it; Connection has the rest.                 *)
(***************************************************************************)
CONSTANT Threads \* the user's threads

VARIABLES
    user,        \* where each of the user's threads is in stop()
    stopCalls,   \* threads whose stop() has returned
    isClosed,    \* isClosed_
    workGuard,   \* workGuard_ keeps run() from returning
    con,         \* clientCon_
    startedLate, \* start() has succeeded after a stop()
    mqClosed,    \* messageQueue_ has been closed
    io,          \* workerThread_
    stopped      \* io_context_.stopped()

userVars == <<user, stopCalls>>
vars == <<userVars, isClosed, workGuard, con, startedLate, mqClosed, io, stopped>>

\* "open": the close handler has not been posted.  "closing": it has.
\* "closed": it has run.  "released": none of the handlers of the connection
\* is left, Released of module Connection.
ConStates == {"none", "open", "closing", "closed", "released"}

\* Outside stop(), or at a step of it.
Places == {"idle", "resetGuard", "closeQueue", "closeCon", "join"}

\* No thread; a thread that has not reached run(); in run(); past it, not joined.
IOPlaces == {"none", "starting", "run", "returned"}

Init ==
    /\ user = [u \in Threads |-> "idle"]
    /\ stopCalls = {}
    /\ isClosed = FALSE
    /\ workGuard = TRUE
    /\ con = "none"
    /\ startedLate = FALSE
    /\ mqClosed = FALSE
    /\ io = "none"
    /\ stopped = FALSE

NobodyStops == \A u \in Threads : user[u] = "idle"

-----------------------------------------------------------------------------
(* The user's threads.                                                     *)

\* start() that connects.  It changes nothing when clientCon_ is there already,
\* also if that connection has been lost, or when connect() fails.
Start ==
    /\ NobodyStops /\ con = "none"
    /\ con' = "open"
    /\ io' = "starting"
    /\ startedLate' = isClosed
    /\ UNCHANGED <<userVars, isClosed, workGuard, mqClosed, stopped>>

\* stop(), or the destructor: only the first one to exchange isClosed_ goes on.
\* The faulty Everyone lets each of them.
Everyone == TRUE
FirstToStop == ~isClosed
Stop(u) ==
    /\ user[u] = "idle"
    /\ isClosed' = TRUE
    /\ IF FirstToStop
       THEN user' = [user EXCEPT ![u] = "resetGuard"] /\ UNCHANGED stopCalls
       ELSE stopCalls' = stopCalls \cup {u} /\ UNCHANGED user
    /\ UNCHANGED <<workGuard, con, startedLate, mqClosed, io, stopped>>

\* The faulty KeepGuard goes on without the reset.
KeepGuard == workGuard
GuardReset == FALSE
ResetGuard(u) ==
    /\ user[u] = "resetGuard"
    /\ user' = [user EXCEPT ![u] = "closeQueue"]
    /\ workGuard' = GuardReset
    /\ UNCHANGED <<stopCalls, isClosed, con, startedLate, mqClosed, io, stopped>>

CloseQueue(u) ==
    /\ user[u] = "closeQueue"
    /\ user' = [user EXCEPT ![u] = "closeCon"]
    /\ mqClosed' = TRUE
    /\ UNCHANGED <<stopCalls, isClosed, workGuard, con, startedLate, io, stopped>>

\* close() posts; a connection that is closing or closed stays as it is.
CloseCon(u) ==
    /\ user[u] = "closeCon"
    /\ user' = [user EXCEPT ![u] = "join"]
    /\ con' = IF con = "open" THEN "closing" ELSE con
    /\ UNCHANGED <<stopCalls, isClosed, workGuard, startedLate, mqClosed, io, stopped>>

\* The join, if there is a thread, io_context_.stop() and the last flush.
Join(u) ==
    /\ user[u] = "join" /\ io \in {"none", "returned"}
    /\ user' = [user EXCEPT ![u] = "idle"]
    /\ stopCalls' = stopCalls \cup {u}
    /\ io' = "none"
    /\ stopped' = TRUE
    /\ UNCHANGED <<isClosed, workGuard, con, startedLate, mqClosed>>

-----------------------------------------------------------------------------
(* The I/O thread.                                                         *)

\* run(); unlike the server's thread this one does not restart an io_context
\* that has been stopped, and run() then returns at once.
EnterRun ==
    /\ io = "starting"
    /\ io' = IF stopped THEN "returned" ELSE "run"
    /\ UNCHANGED <<userVars, isClosed, workGuard, con, startedLate, mqClosed, stopped>>

\* The connection closes itself: the server leaves, an error, a timeout.
ConnectionFails ==
    /\ io = "run" /\ con = "open"
    /\ con' = "closing"
    /\ UNCHANGED <<userVars, isClosed, workGuard, startedLate, mqClosed, io, stopped>>

\* The close handler with the callback of start(), which closes the queue.  The
\* faulty ForgetQueue only calls the user's callback.
ForgetQueue == mqClosed
QueueAfterCallback == TRUE
CloseRuns ==
    /\ io = "run" /\ con = "closing"
    /\ con' = "closed"
    /\ mqClosed' = QueueAfterCallback
    /\ UNCHANGED <<userVars, isClosed, workGuard, startedLate, io, stopped>>

\* The last of the handlers that closing the connection has aborted.
ConnectionReleased ==
    /\ io = "run" /\ con = "closed"
    /\ con' = "released"
    /\ UNCHANGED <<userVars, isClosed, workGuard, startedLate, mqClosed, io, stopped>>

\* run() returns when the guard is reset and nothing is outstanding.  After the
\* faulty AnyTime, an io_context_.stop() before the join, it does not wait.
AnyTime == TRUE
OutOfWork == ~workGuard /\ con = "released"
RunReturns ==
    /\ io = "run" /\ OutOfWork
    /\ io' = "returned"
    /\ stopped' = TRUE
    /\ UNCHANGED <<userVars, isClosed, workGuard, con, startedLate, mqClosed>>

-----------------------------------------------------------------------------
StopSteps(u) == ResetGuard(u) \/ CloseQueue(u) \/ CloseCon(u) \/ Join(u)
IOThread == EnterRun \/ CloseRuns \/ ConnectionReleased \/ RunReturns

Next ==
    \/ Start
    \/ \E u \in Threads : Stop(u) \/ StopSteps(u)
    \/ IOThread
    \/ ConnectionFails

Spec == Init /\ [][Next]_vars

\* The I/O thread runs the handlers that are queued, and a thread inside stop()
\* goes on until the join blocks it.  That a posted close ends in the release
\* of the connection is CloseCompletes of module Connection.
Fairness == WF_vars(IOThread) /\ \A u \in Threads : WF_vars(StopSteps(u))

FairSpec == Spec /\ Fairness

-----------------------------------------------------------------------------
(* Properties.                                                             *)

\* Every variable has its type.
TypeOK ==
    /\ user \in [Threads -> Places]
    /\ stopCalls \subseteq Threads
    /\ isClosed \in BOOLEAN /\ workGuard \in BOOLEAN
    /\ con \in ConStates
    /\ startedLate \in BOOLEAN /\ mqClosed \in BOOLEAN
    /\ io \in IOPlaces
    /\ stopped \in BOOLEAN

\* One thread at a time takes the steps of stop(): workerThread_ is joined by
\* one thread, as std::thread demands.
OneStopper == \A u, v \in Threads : user[u] # "idle" /\ user[v] # "idle" => u = v

\* When no stop() is under way any more, the connection and its thread are gone
\* and nobody can block in receive(), unless start() came after stop().
StoppedClean ==
    isClosed /\ NobodyStops /\ ~startedLate =>
        con \in {"none", "released"} /\ io = "none" /\ mqClosed

\* The thread that carries out stop() gets to its end: the guard does not keep
\* run() going and the connection is released.
StopReturns == \A u \in Threads : (user[u] # "idle") ~> (user[u] = "idle")

\* While stop() is in the join, run() waits for nobody but the I/O thread itself:
\* the guard is gone, and the connection it holds is past its close().
JoinNeedsNobody ==
    \A u \in Threads : user[u] = "join" /\ io # "none" =>
        ~workGuard /\ con \in {"closing", "closed", "released"}

\* A connection that is closing or has closed finds the queue closed, or the I/O
\* thread in run() to close it, also if stop() and the loss come together.
LossHandled ==
    con \in {"closing", "closed", "released"} =>
        mqClosed \/ (con = "closing" /\ io = "run")

\* A connection that is lost closes the queue, and so frees the threads blocked
\* in receive(), although nobody calls stop().
LossFreesReceivers == (con = "closing") ~> mqClosed

\* stop() "joins the I/O thread. Safe to call more than once."
\* (docs/html/classacsf_1_1Client.html:131): after any call of it has returned
\* the thread that was there is gone.
StopJoins == stopCalls # {} /\ ~startedLate => io = "none"
=============================================================================
