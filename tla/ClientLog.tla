----------------------------- MODULE ClientLog -----------------------------
(***************************************************************************)
(* The client and its logger: log() is called on the user's threads and by *)
(* the handlers of the connection; the I/O thread of the client runs the   *)
(* handlers of the logger, and stop() writes what is left.                 *)
(***************************************************************************)
EXTENDS Client, Logger

CONSTANT MaxLogs \* bound: calls of log()

ASSUME ClientLogAssumption == MaxLogs \in Nat

VARIABLES
    logger, \* logger_
    logged, \* calls of log() so far
    owed    \* those made before run() returned

logVars == <<vars, logger, logged, owed>>

LogInit ==
    /\ Init
    /\ \E isOpen \in BOOLEAN : logger = NewLogger(isOpen)
    /\ logged = 0 /\ owed = 0

Log ==
    /\ logged < MaxLogs
    /\ logged' = logged + 1
    /\ logger' = PostLog(logger, logged')
    /\ UNCHANGED owed

Silent == UNCHANGED <<logger, logged, owed>>

-----------------------------------------------------------------------------
\* start() while there is a connection already, or when connect() fails.
StartFails == NobodyStops /\ Log /\ UNCHANGED vars

\* send() of a body that getMessageFrame refuses, on the caller's thread.
SendRefused == con # "none" /\ Log /\ UNCHANGED vars

\* The read loop, the write loop or the watch reports why it closes the
\* connection; the other loop may report as well before the close handler runs.
ReportLoss == ConnectionFails /\ Log
ReportAgain == io = "run" /\ con = "closing" /\ Log /\ UNCHANGED vars

\* A handler of the logger, on the I/O thread.
RunLog ==
    /\ io = "run" /\ logger.posted # << >>
    /\ logger' = RunPosted(logger)
    /\ UNCHANGED <<vars, logged, owed>>

\* Handlers of the logger are work, too.
LastHandlerDone ==
    /\ RunReturns /\ logger.posted = << >>
    /\ owed' = logged
    /\ UNCHANGED <<logger, logged>>

\* unsafeFlushNow() at the end of stop().  The faulty NoFlush leaves it out.
NoFlush(l) == l
FlushNow(l) == Flush(l)
JoinAndFlush(u) ==
    /\ Join(u)
    /\ logger' = FlushNow(logger)
    /\ UNCHANGED <<logged, owed>>

-----------------------------------------------------------------------------
LogStopSteps(u) ==
    \/ (ResetGuard(u) \/ CloseQueue(u) \/ CloseCon(u)) /\ Silent
    \/ JoinAndFlush(u)
LogIOThread ==
    \/ (EnterRun \/ CloseRuns \/ ConnectionReleased) /\ Silent
    \/ RunLog
    \/ LastHandlerDone

LogNext ==
    \/ (Start \/ \E u \in Threads : Stop(u)) /\ Silent
    \/ \E u \in Threads : LogStopSteps(u)
    \/ LogIOThread
    \/ StartFails \/ SendRefused \/ ReportLoss \/ ReportAgain

LogSpec == LogInit /\ [][LogNext]_logVars

\* As in Client.
LogFairness == WF_logVars(LogIOThread) /\ \A u \in Threads : WF_logVars(LogStopSteps(u))

LogFairSpec == LogSpec /\ LogFairness

-----------------------------------------------------------------------------
(* Properties.                                                             *)

\* While a file is open no entry is dropped, doubled or overtaken, although log()
\* is called on several threads and the ring is smaller than the log.
LogComplete ==
    logger.isOpen =>
        logger.written \o logger.buffer \o logger.posted = [n \in 1..logged |-> n]

\* When stop() is over every entry is in the file that was logged before the I/O
\* thread left run(), the reason why the connection was lost among them.  An
\* entry that comes later, or when no thread was ever started, is not.
StopWritesLog ==
    isClosed /\ NobodyStops /\ ~startedLate /\ logger.isOpen =>
        Len(logger.written) >= owed
=============================================================================
