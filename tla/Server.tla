------------------------------- MODULE Server -------------------------------
(***************************************************************************)
(* include/server.h and include/connection_map.h: the accept loop, the map *)
(* of connections and stop().                                              *)
(*                                                                         *)
(* Threads.  The owner calls start() and stop(), one after the other.  The *)
(* I/O thread runs the handlers of the io_context.  The two meet at the    *)
(* acceptor, at conMap_ (under mLock) and at the join.                     *)
(*                                                                         *)
(* A connection is reduced to what the server sees of it; Connection has   *)
(* the rest.  The n-th client to be accepted has connection n.             *)
(***************************************************************************)
EXTENDS Naturals, FiniteSets

CONSTANTS
    MaxClients, \* bound: clients that connect
    MaxStarts   \* bound: calls of start()

ASSUME ServerAssumption == MaxClients \in Nat /\ MaxStarts \in Nat

VARIABLES
    owner,        \* where the owner is in stop()
    starts,       \* calls of start()
    acceptorOpen, \* acceptor_.is_open()
    accept,       \* the outstanding async_accept
    arrived,      \* clients that have connected (the backlog included)
    accepted,     \* clients the kernel has handed to async_accept
    io,           \* where the I/O thread is
    stopped,      \* io_context_.stopped()
    currentId,    \* currentId_
    conMap,       \* conMap_: pairs of an id and a connection
    taken,        \* connections of closeAll() that it has yet to close
    con,          \* the state of every connection
    conId,        \* the id its callback has captured
    mqClosed,     \* messageQueue_ has been closed
    critical      \* "Critical error while listening for clients" was logged

ownerVars == <<owner, starts, taken, mqClosed>>
acceptVars == <<acceptorOpen, accept, arrived, accepted, critical>>
conVars == <<currentId, conMap, con, conId>>
vars == <<ownerVars, acceptVars, io, stopped, conVars>>

Clients == 1..MaxClients

\* An async_accept is pending in the kernel, or its handler is queued: with a
\* new socket, with operation_aborted, or with any other error.
AcceptStates == {"none", "pending", "ok", "aborted", "error"}

\* "open": the close handler has not been posted.  "closing": it has.
\* "closed": it has run.  "released": none of the handlers of the connection
\* is left, Released of module Connection.
ConStates == {"none", "open", "closing", "closed", "released"}

\* The owner outside start() and stop(), or at a step of stop().
OwnerPlaces == {"idle", "closeQueue", "swap", "closeAll", "join"}

\* No thread; a thread that has not reached io_context_.run(); a thread in
\* run(), between handlers or in the accept handler; a thread that has returned.
IOPlaces == {"none", "starting", "run", "rearm", "returned"}

Init ==
    /\ owner = "idle"
    /\ starts = 0
    /\ acceptorOpen = TRUE
    /\ accept = "none"
    /\ arrived = 0
    /\ accepted = 0
    /\ io = "none"
    /\ stopped = FALSE
    /\ currentId = 0
    /\ conMap = {}
    /\ taken = {}
    /\ con = [n \in Clients |-> "none"]
    /\ conId = [n \in Clients |-> 0]
    /\ mqClosed = FALSE
    /\ critical = FALSE

-----------------------------------------------------------------------------
(* Clients and the kernel (external).                                      *)

ClientConnects ==
    /\ acceptorOpen /\ arrived < MaxClients
    /\ arrived' = arrived + 1
    /\ UNCHANGED <<ownerVars, acceptorOpen, accept, accepted, critical, io, stopped, conVars>>

AcceptCompletes ==
    /\ accept = "pending" /\ accepted < arrived
    /\ accept' = "ok"
    /\ accepted' = accepted + 1
    /\ UNCHANGED <<ownerVars, acceptorOpen, arrived, critical, io, stopped, conVars>>

AcceptFails ==
    /\ accept = "pending"
    /\ accept' = "error"
    /\ UNCHANGED <<ownerVars, acceptorOpen, arrived, accepted, critical, io, stopped, conVars>>

-----------------------------------------------------------------------------
(* The I/O thread.                                                         *)

\* startAccepting(): on a closed acceptor async_accept fails at once.
Armed == IF acceptorOpen THEN "pending" ELSE "error"

\* io_context_.restart(), if it had stopped, and run().
EnterRun ==
    /\ io = "starting"
    /\ io' = "run"
    /\ stopped' = FALSE
    /\ UNCHANGED <<ownerVars, acceptVars, conVars>>

\* handleConnection(): the connection gets an id, goes into the map and is
\* started.  The id is counted up once it has been used.  The faulty SameId
\* gives it again.
SameId == currentId
NextId == currentId + 1
Accepted ==
    /\ io = "run" /\ accept = "ok"
    /\ io' = "rearm"
    /\ accept' = "none"
    /\ con' = [con EXCEPT ![accepted] = "open"]
    /\ conId' = [conId EXCEPT ![accepted] = currentId]
    /\ conMap' = {p \in conMap : p[1] # currentId} \cup {<<currentId, accepted>>}
    /\ currentId' = NextId
    /\ UNCHANGED <<ownerVars, acceptorOpen, arrived, accepted, critical, stopped>>

\* The end of the accept handler.  Every access of this thread to the acceptor
\* may come before or after stop() has closed it.  The faulty ServeOne does not
\* accept again.
ServeOne == "none"
Rearmed == Armed
Rearm ==
    /\ io = "rearm"
    /\ io' = "run"
    /\ accept' = Rearmed
    /\ UNCHANGED <<ownerVars, acceptorOpen, arrived, accepted, critical, stopped, conVars>>

\* The accept handler with an error: the loop ends, silently if it is
\* operation_aborted.
AcceptFailed ==
    /\ io = "run" /\ accept \in {"aborted", "error"}
    /\ accept' = "none"
    /\ critical' = (critical \/ accept = "error")
    /\ UNCHANGED <<ownerVars, acceptorOpen, arrived, accepted, io, stopped, conVars>>

\* A connection closes itself: its peer leaves, an error, a timeout.
ConnectionFails(n) ==
    /\ io = "run" /\ con[n] = "open"
    /\ con' = [con EXCEPT ![n] = "closing"]
    /\ UNCHANGED <<ownerVars, acceptVars, io, stopped, currentId, conMap, conId>>

\* The close handler of a connection and its callback, which removes the id it
\* has captured from the map.
CloseRuns(n) ==
    /\ io = "run" /\ con[n] = "closing"
    /\ con' = [con EXCEPT ![n] = "closed"]
    /\ conMap' = {p \in conMap : p[1] # conId[n]}
    /\ UNCHANGED <<ownerVars, acceptVars, io, stopped, currentId, conId>>

\* The last of the handlers that closing the connection has aborted.
ConnectionReleased(n) ==
    /\ io = "run" /\ con[n] = "closed"
    /\ con' = [con EXCEPT ![n] = "released"]
    /\ UNCHANGED <<ownerVars, acceptVars, io, stopped, currentId, conMap, conId>>

\* run() returns when no handler is queued and no operation is outstanding.
\* The faulty AnyTime is run() of an io_context_ that stop() stops before the
\* join.
AnyTime == TRUE
OutOfWork == accept = "none" /\ \A n \in Clients : con[n] \in {"none", "released"}
RunReturns ==
    /\ io = "run" /\ OutOfWork
    /\ io' = "returned"
    /\ stopped' = TRUE
    /\ UNCHANGED <<ownerVars, acceptVars, conVars>>

-----------------------------------------------------------------------------
(* The owner.                                                              *)

\* start(): the accept is issued before the thread exists.  Starting a second
\* thread while workerThread_ is joinable would end the program.
Start ==
    /\ owner = "idle" /\ io = "none" /\ starts < MaxStarts
    /\ starts' = starts + 1
    /\ accept' = Armed
    /\ io' = "starting"
    /\ UNCHANGED <<owner, taken, mqClosed, acceptorOpen, arrived, accepted, critical, stopped,
                   conVars>>

\* stop(), or the destructor.  Closing the acceptor aborts the accept that is
\* pending; one that has completed keeps its socket.  The clients the kernel
\* has not handed over are reset.  The faulty LeftPending forgets to close the
\* acceptor.
LeftPending == accept
AbortedAccept == IF accept = "pending" THEN "aborted" ELSE accept
Stop ==
    /\ owner = "idle"
    /\ owner' = "closeQueue"
    /\ acceptorOpen' = FALSE
    /\ accept' = AbortedAccept
    /\ arrived' = accepted
    /\ UNCHANGED <<starts, taken, mqClosed, accepted, critical, io, stopped, conVars>>

CloseQueue ==
    /\ owner = "closeQueue"
    /\ owner' = "swap"
    /\ mqClosed' = TRUE
    /\ UNCHANGED <<starts, taken, acceptVars, io, stopped, conVars>>

\* closeAll(): take the map, then close what was in it one by one.  close()
\* posts; a connection whose close handler is posted or has run stays as it is.
SwapMap ==
    /\ owner = "swap"
    /\ owner' = "closeAll"
    /\ taken' = {p[2] : p \in conMap}
    /\ conMap' = {}
    /\ UNCHANGED <<starts, mqClosed, acceptVars, io, stopped, currentId, con, conId>>

CloseCon(n) == IF con[n] = "open" THEN [con EXCEPT ![n] = "closing"] ELSE con
CloseOne ==
    /\ owner = "closeAll"
    /\ IF taken = {}
       THEN owner' = "join" /\ UNCHANGED <<taken, con>>
       ELSE \E n \in taken :
              /\ con' = CloseCon(n)
              /\ taken' = taken \ {n}
              /\ UNCHANGED owner
    /\ UNCHANGED <<starts, mqClosed, acceptVars, io, stopped, currentId, conMap, conId>>

\* The join, if there is a thread; then io_context_.stop() and the last flush
\* of the log.
Join ==
    /\ owner = "join" /\ io \in {"none", "returned"}
    /\ owner' = "idle"
    /\ io' = "none"
    /\ stopped' = TRUE
    /\ UNCHANGED <<starts, taken, mqClosed, acceptVars, conVars>>

-----------------------------------------------------------------------------
Kernel == ClientConnects \/ AcceptCompletes \/ AcceptFails
AcceptHandler == Accepted \/ Rearm \/ AcceptFailed
CloseHandlers(n) == CloseRuns(n) \/ ConnectionReleased(n)
StopSteps == CloseQueue \/ SwapMap \/ CloseOne \/ Join

Next ==
    \/ Kernel
    \/ EnterRun \/ AcceptHandler \/ RunReturns
    \/ \E n \in Clients : ConnectionFails(n) \/ CloseHandlers(n)
    \/ Start \/ Stop \/ StopSteps

Spec == Init /\ [][Next]_vars

\* The I/O thread and the kernel do what is there to do, and a stop() that has
\* been called goes on until the join blocks it.  That a posted close ends in
\* the release of the connection is CloseCompletes of module Connection.  No
\* client has to come, to leave or to fall silent.
Fairness ==
    /\ WF_vars(EnterRun) /\ WF_vars(AcceptHandler) /\ WF_vars(RunReturns)
    /\ WF_vars(AcceptCompletes)
    /\ \A n \in Clients : WF_vars(CloseHandlers(n))
    /\ WF_vars(StopSteps)

FairSpec == Spec /\ Fairness

-----------------------------------------------------------------------------
(* Properties.                                                             *)

\* Every variable has its type.
TypeOK ==
    /\ owner \in OwnerPlaces
    /\ starts \in 0..MaxStarts
    /\ acceptorOpen \in BOOLEAN
    /\ accept \in AcceptStates
    /\ arrived \in 0..MaxClients /\ accepted \in 0..arrived
    /\ io \in IOPlaces
    /\ stopped \in BOOLEAN
    /\ currentId \in Nat
    /\ conMap \in SUBSET (Nat \X Clients)
    /\ taken \in SUBSET Clients
    /\ con \in [Clients -> ConStates]
    /\ conId \in [Clients -> Nat]
    /\ mqClosed \in BOOLEAN /\ critical \in BOOLEAN

\* An open connection can be found: by its own id in the map, where send() and
\* closeAll() look, or among those closeAll() has taken out to close.  No other
\* connection takes its place, and no other connection's callback removes it.
\* What the map holds is no longer there once its callback has run.
NoStrayConnection ==
    /\ \A n \in Clients : con[n] = "open" => <<conId[n], n>> \in conMap \/ n \in taken
    /\ \A p \in conMap : con[p[2]] \in {"open", "closing"}

\* After stop() nothing of the server runs: not a connection, not an accept,
\* and nobody can block in receive().
StopReturned == owner = "idle" /\ ~acceptorOpen /\ io = "none"
StoppedClean ==
    StopReturned =>
        /\ accept = "none"
        /\ \A n \in Clients : con[n] \in {"none", "released"}
        /\ conMap = {} /\ taken = {}
        /\ mqClosed

\* A client that has connected to a started server is accepted, unless stop()
\* is called or the accept loop has ended with a critical error.
ClientsServed ==
    (starts > 0 /\ accepted < arrived) ~> (accepted = arrived \/ ~acceptorOpen \/ critical)

\* As long as the acceptor is open and has not failed, an accept is outstanding or
\* the handler of the last one is about to issue the next: the loop never ends by
\* itself, however accepts, connections and their ends follow each other.
ListensOn ==
    starts > 0 /\ acceptorOpen /\ ~critical => accept # "none" \/ io = "rearm"

\* stop() returns, if no connection stays open that the accept handler has put
\* into the map after closeAll() had emptied it.
TooLate(n) == owner = "join" /\ con[n] = "open" /\ <<conId[n], n>> \in conMap
StopReturnsUnlessLate ==
    (\A n \in Clients : []<>~TooLate(n)) => ((owner # "idle") ~> (owner = "idle"))

\* While stop() is in the join, nothing the io_context still holds waits for
\* somebody else: no accept is left in the kernel, and the only connections that
\* are still open are those that came too late for closeAll().
NothingHoldsJoin ==
    owner = "join" => accept # "pending" /\ \A n \in Clients : con[n] = "open" => TooLate(n)

\* "Must close so the io_context runs out of work and join returns"
\* (include/server.h:99).
StopReturns == (owner # "idle") ~> (owner = "idle")
=============================================================================
