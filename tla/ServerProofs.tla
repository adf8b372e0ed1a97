---------------------------- MODULE ServerProofs ----------------------------
(***************************************************************************)
(* Theorems about Server, for any number of clients and of calls of        *)
(* start().                                                                *)
(***************************************************************************)
EXTENDS Server, TLAPS

\* The connections in the order in which they got their ids: connection n
\* exists when accept n has been handled, and ids are counted up.
Numbered ==
    /\ \A n \in Clients : con[n] # "none" <=> n <= accepted /\ ~(accept = "ok" /\ n = accepted)
    /\ accept = "ok" => accepted # 0
    /\ \A n \in Clients : con[n] # "none" => conId[n] < currentId
    /\ \A m, n \in Clients :
          con[m] # "none" /\ con[n] # "none" /\ conId[m] = conId[n] => m = n
    /\ \A p \in conMap : con[p[2]] # "none" /\ conId[p[2]] = p[1]

\* stop() goes through its steps in order, and the thread returns only when
\* there is nothing left to do.
Stopping ==
    /\ owner # "closeAll" => taken = {}
    /\ ~acceptorOpen /\ owner # "closeQueue" => mqClosed
    /\ io \in {"none", "returned"} => OutOfWork
    /\ io = "rearm" => accept = "none"

\* The accept loop goes on until stop() closes the acceptor, which leaves nothing
\* of it in the kernel.
Accepting ==
    /\ ListensOn
    /\ accept = "aborted" \/ owner # "idle" => ~acceptorOpen
    /\ ~acceptorOpen => accept # "pending"

ServerInv == TypeOK /\ Numbered /\ NoStrayConnection /\ Stopping /\ Accepting

LEMMA InitInv == Init => ServerInv
<1> SUFFICES ASSUME Init PROVE ServerInv
  OBVIOUS
<1>1. TypeOK
  <2>1. starts \in 0..MaxStarts /\ arrived \in 0..MaxClients /\ accepted \in 0..arrived
    BY ServerAssumption DEF ServerAssumption, Init
  <2>2. con \in [Clients -> ConStates] /\ conId \in [Clients -> Nat]
    BY DEF Init, ConStates
  <2> QED
    BY <2>1, <2>2 DEF Init, TypeOK, OwnerPlaces, AcceptStates, IOPlaces
<1>2. Numbered /\ NoStrayConnection /\ Stopping /\ Accepting
  BY DEF Init, Numbered, NoStrayConnection, Stopping, OutOfWork, Clients, Accepting, ListensOn
<1> QED
  BY <1>1, <1>2 DEF ServerInv

LEMMA TypeStep == ServerInv /\ [Next]_vars => TypeOK'
<1> SUFFICES ASSUME ServerInv, [Next]_vars PROVE TypeOK'
  OBVIOUS
<1> USE ServerAssumption
    DEF ServerAssumption, ServerInv, TypeOK, OwnerPlaces, AcceptStates, IOPlaces, ConStates,
        ownerVars, acceptVars, conVars
<1>1. CASE Kernel
  BY <1>1 DEF Kernel, ClientConnects, AcceptCompletes, AcceptFails
<1>2. CASE EnterRun \/ RunReturns \/ CloseQueue \/ Join
  BY <1>2 DEF EnterRun, RunReturns, CloseQueue, Join
<1>3. CASE Accepted
  <2>1. accepted \in Clients
    BY <1>3 DEF Accepted, Numbered, Clients
  <2>2. currentId \in Nat /\ currentId' \in Nat
    BY <1>3 DEF Accepted, NextId
  <2>3. conMap' \in SUBSET (Nat \X Clients)
    BY <1>3, <2>1, <2>2 DEF Accepted
  <2>4. con' \in [Clients -> ConStates] /\ conId' \in [Clients -> Nat]
    BY <1>3, <2>1, <2>2 DEF Accepted
  <2> QED
    BY <1>3, <2>2, <2>3, <2>4 DEF Accepted
<1>4. CASE Rearm \/ AcceptFailed
  BY <1>4 DEF Rearm, Rearmed, Armed, AcceptFailed
<1>5. ASSUME NEW n \in Clients, ConnectionFails(n) \/ CloseRuns(n) \/ ConnectionReleased(n)
      PROVE  TypeOK'
  BY <1>5 DEF ConnectionFails, CloseRuns, ConnectionReleased
<1>6. CASE Start
  BY <1>6 DEF Start, Armed
<1>7. CASE Stop
  <2>1. accepted \in 0..accepted /\ accepted \in 0..MaxClients
    OBVIOUS
  <2> QED
    BY <1>7, <2>1 DEF Stop, AbortedAccept
<1>8. CASE SwapMap
  BY <1>8 DEF SwapMap
<1>9. CASE CloseOne
  BY <1>9 DEF CloseOne, CloseCon
<1>10. CASE UNCHANGED vars
  BY <1>10 DEF vars
<1> QED
  BY <1>1, <1>2, <1>3, <1>4, <1>5, <1>6, <1>7, <1>8, <1>9, <1>10
     DEF Next, AcceptHandler, CloseHandlers, StopSteps

LEMMA MapStep == ServerInv /\ [Next]_vars => (Numbered /\ NoStrayConnection)'
<1> SUFFICES ASSUME ServerInv, [Next]_vars PROVE (Numbered /\ NoStrayConnection)'
  OBVIOUS
<1> USE DEF Numbered, NoStrayConnection, ownerVars, acceptVars, conVars
<1>0. /\ TypeOK /\ Numbered /\ NoStrayConnection /\ Stopping
      /\ accepted \in Nat /\ arrived \in Nat /\ currentId \in Nat /\ Clients \subseteq Nat
      /\ conMap \in SUBSET (Nat \X Clients) /\ taken \subseteq Clients
      /\ con \in [Clients -> ConStates] /\ conId \in [Clients -> Nat]
  BY DEF ServerInv, TypeOK, Clients
<1>1. CASE ClientConnects \/ AcceptFails
  BY <1>0, <1>1 DEF ClientConnects, AcceptFails
<1>2. CASE AcceptCompletes
  BY <1>0, <1>2 DEF AcceptCompletes
<1>3. CASE EnterRun \/ RunReturns \/ CloseQueue \/ Join
  BY <1>0, <1>3 DEF EnterRun, RunReturns, CloseQueue, Join
<1>4. CASE Accepted
  <2>1. /\ accept = "ok" /\ accept' = "none" /\ accepted \in Clients
        /\ UNCHANGED <<accepted, taken>>
    BY <1>0, <1>4, ServerAssumption DEF ServerAssumption, Accepted, Clients, TypeOK
  <2>2. /\ con' = [con EXCEPT ![accepted] = "open"]
        /\ conId' = [conId EXCEPT ![accepted] = currentId]
        /\ currentId' = currentId + 1
        /\ conMap' = {p \in conMap : p[1] # currentId} \cup {<<currentId, accepted>>}
    BY <1>4 DEF Accepted, NextId
  <2>3. con[accepted] = "none"
    BY <1>0, <2>1
  <2>4. \A p \in conMap : p[1] # currentId /\ p[2] # accepted
    <3> SUFFICES ASSUME NEW p \in conMap PROVE p[1] # currentId /\ p[2] # accepted
      OBVIOUS
    <3>1. p[2] \in Clients /\ con[p[2]] # "none" /\ conId[p[2]] = p[1]
      BY <1>0
    <3>2. conId[p[2]] < currentId /\ conId[p[2]] \in Nat
      BY <1>0, <3>1
    <3> QED
      BY <1>0, <2>3, <3>1, <3>2
  <2>5. conMap' = conMap \cup {<<currentId, accepted>>}
    BY <2>2, <2>4
  <2>6. \A n \in Clients \ {accepted} : con'[n] = con[n] /\ conId'[n] = conId[n]
    BY <1>0, <2>2
  <2>7. con'[accepted] = "open" /\ conId'[accepted] = currentId
    BY <1>0, <2>1, <2>2
  <2>8. \A n \in Clients : con'[n] # "none" <=> n <= accepted
    BY <1>0, <2>1, <2>6, <2>7
  <2>9. \A n \in Clients : con'[n] # "none" => conId'[n] < currentId'
    BY <1>0, <2>2, <2>6, <2>7
  <2>10. \A m, n \in Clients :
            con'[m] # "none" /\ con'[n] # "none" /\ conId'[m] = conId'[n] => m = n
    BY <1>0, <2>6, <2>7
  <2>11. \A p \in conMap' : /\ con'[p[2]] # "none" /\ conId'[p[2]] = p[1]
                            /\ con'[p[2]] \in {"open", "closing"}
    <3> SUFFICES ASSUME NEW p \in conMap' PROVE con'[p[2]] \in {"open", "closing"} /\ conId'[p[2]] = p[1]
      OBVIOUS
    <3>1. CASE p \in conMap
      BY <1>0, <2>4, <2>6, <3>1
    <3>2. CASE p = <<currentId, accepted>>
      BY <2>7, <3>2
    <3> QED
      BY <2>5, <3>1, <3>2
  <2>12. \A n \in Clients : con'[n] = "open" => <<conId'[n], n>> \in conMap' \/ n \in taken'
    BY <1>0, <2>1, <2>5, <2>6, <2>7
  <2> QED
    BY <2>1, <2>8, <2>9, <2>10, <2>11, <2>12
<1>5. CASE Rearm \/ AcceptFailed
  <2>1. accept # "ok" /\ accept' # "ok" /\ UNCHANGED <<accepted, taken, conVars>>
    BY <1>0, <1>5 DEF Rearm, Rearmed, Armed, AcceptFailed, Stopping
  <2> QED
    BY <1>0, <2>1
<1>6. ASSUME NEW n \in Clients, ConnectionFails(n) PROVE (Numbered /\ NoStrayConnection)'
  BY <1>0, <1>6 DEF ConnectionFails
<1>7. ASSUME NEW n \in Clients, CloseRuns(n) PROVE (Numbered /\ NoStrayConnection)'
  <2>1. /\ con[n] = "closing" /\ con' = [con EXCEPT ![n] = "closed"]
        /\ conMap' = {p \in conMap : p[1] # conId[n]}
        /\ UNCHANGED <<accept, accepted, taken, currentId, conId>>
    BY <1>7 DEF CloseRuns
  <2>2. \A m \in Clients : con'[m] = IF m = n THEN "closed" ELSE con[m]
    BY <1>0, <2>1
  <2>3. Numbered'
    BY <1>0, <2>1, <2>2
  <2>4. \A p \in conMap' : p[2] # n
    BY <1>0, <2>1
  <2>5. \A m \in Clients : con[m] = "open" /\ <<conId[m], m>> \in conMap
                               => <<conId[m], m>> \in conMap'
    <3> SUFFICES ASSUME NEW m \in Clients, con[m] = "open" PROVE conId[m] # conId[n]
      BY <2>1
    <3> QED
      BY <1>0, <2>1
  <2>6. NoStrayConnection'
    BY <1>0, <2>1, <2>2, <2>4, <2>5
  <2> QED
    BY <2>3, <2>6
<1>8. ASSUME NEW n \in Clients, ConnectionReleased(n) PROVE (Numbered /\ NoStrayConnection)'
  <2>1. /\ con[n] = "closed" /\ con' = [con EXCEPT ![n] = "released"]
        /\ UNCHANGED <<accept, accepted, taken, currentId, conId, conMap>>
    BY <1>8 DEF ConnectionReleased
  <2>2. \A m \in Clients : con'[m] = IF m = n THEN "released" ELSE con[m]
    BY <1>0, <2>1
  <2>3. \A p \in conMap : p[2] # n
    BY <1>0, <2>1
  <2> QED
    BY <1>0, <2>1, <2>2, <2>3
<1>9. CASE Start
  <2>1. accept = "none" /\ accept' # "ok"
    BY <1>0, <1>9 DEF Start, Armed, Stopping, OutOfWork
  <2> QED
    BY <1>0, <1>9, <2>1 DEF Start
<1>10. CASE Stop
  BY <1>0, <1>10 DEF Stop, AbortedAccept
<1>11. CASE SwapMap
  <2>1. /\ conMap' = {} /\ taken' = {p[2] : p \in conMap}
        /\ UNCHANGED <<accept, accepted, con, conId, currentId>>
    BY <1>11 DEF SwapMap
  <2>2. taken = {}
    BY <1>0, <1>11 DEF SwapMap, Stopping
  <2>3. \A n \in Clients : con[n] = "open" => n \in taken'
    <3> SUFFICES ASSUME NEW n \in Clients, con[n] = "open" PROVE n \in taken'
      OBVIOUS
    <3>1. <<conId[n], n>> \in conMap
      BY <1>0, <2>2
    <3>2. <<conId[n], n>>[2] = n
      OBVIOUS
    <3> QED
      BY <2>1, <3>1, <3>2
  <2> QED
    BY <1>0, <2>1, <2>3
<1>12. CASE CloseOne
  <2>1. CASE taken = {}
    BY <1>0, <1>12, <2>1 DEF CloseOne
  <2>2. CASE taken # {}
    <3>1. PICK n \in taken : con' = CloseCon(n) /\ taken' = taken \ {n}
      BY <1>12, <2>2 DEF CloseOne
    <3>2. UNCHANGED <<accept, accepted, conId, currentId, conMap>>
      BY <1>12 DEF CloseOne
    <3>3. \A m \in Clients : con'[m] = IF m = n /\ con[n] = "open" THEN "closing" ELSE con[m]
      BY <1>0, <3>1 DEF CloseCon
    <3> QED
      BY <1>0, <3>1, <3>2, <3>3
  <2> QED
    BY <2>1, <2>2
<1>13. CASE UNCHANGED vars
  BY <1>0, <1>13 DEF vars
<1> QED
  BY <1>1, <1>2, <1>3, <1>4, <1>5, <1>6, <1>7, <1>8, <1>9, <1>10, <1>11, <1>12, <1>13
     DEF Next, Kernel, AcceptHandler, CloseHandlers, StopSteps

LEMMA StoppingStep == ServerInv /\ [Next]_vars => Stopping'
<1> SUFFICES ASSUME ServerInv, [Next]_vars PROVE Stopping'
  OBVIOUS
<1> USE DEF Stopping, ownerVars, acceptVars, conVars
<1>0. Stopping /\ con \in [Clients -> ConStates] /\ taken \subseteq Clients
  BY DEF ServerInv, TypeOK
<1>1. CASE Kernel
  BY <1>0, <1>1 DEF Kernel, ClientConnects, AcceptCompletes, AcceptFails, OutOfWork
<1>2. CASE EnterRun \/ RunReturns
  BY <1>0, <1>2 DEF EnterRun, RunReturns, OutOfWork
<1>3. CASE AcceptHandler
  BY <1>0, <1>3 DEF AcceptHandler, Accepted, Rearm, AcceptFailed
<1>4. ASSUME NEW n \in Clients, ConnectionFails(n) \/ CloseRuns(n) \/ ConnectionReleased(n)
      PROVE  Stopping'
  BY <1>0, <1>4 DEF ConnectionFails, CloseRuns, ConnectionReleased
<1>5. CASE Start
  BY <1>0, <1>5 DEF Start
<1>6. CASE Stop
  BY <1>0, <1>6 DEF Stop, AbortedAccept, OutOfWork
<1>7. CASE CloseQueue \/ SwapMap \/ Join
  BY <1>0, <1>7 DEF CloseQueue, SwapMap, Join, OutOfWork
<1>8. CASE CloseOne
  <2>1. OutOfWork => OutOfWork'
    BY <1>0, <1>8 DEF CloseOne, CloseCon, OutOfWork
  <2> QED
    BY <1>0, <1>8, <2>1 DEF CloseOne
<1>9. CASE UNCHANGED vars
  BY <1>0, <1>9 DEF vars, OutOfWork
<1> QED
  BY <1>1, <1>2, <1>3, <1>4, <1>5, <1>6, <1>7, <1>8, <1>9
     DEF Next, CloseHandlers, StopSteps

LEMMA AcceptingStep == ServerInv /\ [Next]_vars => Accepting'
<1> SUFFICES ASSUME ServerInv, [Next]_vars PROVE Accepting'
  OBVIOUS
<1> USE DEF Accepting, ListensOn, ownerVars, acceptVars, conVars
<1>0. Accepting /\ starts \in Nat /\ critical \in BOOLEAN
  BY ServerAssumption DEF ServerAssumption, ServerInv, TypeOK
<1>1. CASE Kernel
  BY <1>0, <1>1 DEF Kernel, ClientConnects, AcceptCompletes, AcceptFails
<1>2. CASE EnterRun \/ RunReturns
  BY <1>0, <1>2 DEF EnterRun, RunReturns
<1>3. CASE AcceptHandler
  <2>1. CASE Accepted \/ Rearm
    BY <1>0, <2>1 DEF Accepted, Rearm, Rearmed, Armed
  <2>2. CASE AcceptFailed
    <3>1. accept = "error" => critical'
      BY <2>2 DEF AcceptFailed
    <3> QED
      BY <1>0, <2>2, <3>1 DEF AcceptFailed
  <2> QED
    BY <1>3, <2>1, <2>2 DEF AcceptHandler
<1>4. ASSUME NEW n \in Clients, ConnectionFails(n) \/ CloseRuns(n) \/ ConnectionReleased(n)
      PROVE  Accepting'
  BY <1>0, <1>4 DEF ConnectionFails, CloseRuns, ConnectionReleased
<1>5. CASE Start \/ Stop
  BY <1>0, <1>5 DEF Start, Armed, Stop, AbortedAccept
<1>6. CASE CloseQueue \/ SwapMap \/ CloseOne
  BY <1>0, <1>6 DEF CloseQueue, SwapMap, CloseOne
<1>7. CASE Join
  <2>1. io # "rearm"
    BY <1>7 DEF Join
  <2> QED
    BY <1>0, <1>7, <2>1 DEF Join
<1>8. CASE UNCHANGED vars
  BY <1>0, <1>8 DEF vars
<1> QED
  BY <1>1, <1>2, <1>3, <1>4, <1>5, <1>6, <1>7, <1>8
     DEF Next, CloseHandlers, StopSteps

LEMMA ServerInvariant == Spec => []ServerInv
<1>1. ServerInv /\ [Next]_vars => ServerInv'
  BY TypeStep, MapStep, StoppingStep, AcceptingStep DEF ServerInv
<1> QED
  BY InitInv, <1>1, PTL DEF Spec

\* Every variable keeps its type.
THEOREM TypeCorrect == Spec => []TypeOK
BY ServerInvariant, PTL DEF ServerInv

\* Every open connection is in the map under its own id, or closeAll() has it
\* in hand; the callback of one connection never removes another.
THEOREM NoConnectionStrays == Spec => []NoStrayConnection
BY ServerInvariant, PTL DEF ServerInv

\* When stop() has returned nothing of the server is left running, also if the
\* accept loop added connections while it ran, and after a restart.
THEOREM StopLeavesNothing == Spec => []StoppedClean
<1>1. ServerInv => StoppedClean
  <2> SUFFICES ASSUME ServerInv, StopReturned
               PROVE  /\ accept = "none"
                      /\ \A n \in Clients : con[n] \in {"none", "released"}
                      /\ conMap = {} /\ taken = {} /\ mqClosed
    BY DEF StoppedClean
  <2>1. OutOfWork /\ taken = {} /\ mqClosed
    BY DEF ServerInv, Stopping, StopReturned
  <2>2. \A p \in conMap : p[2] \in Clients /\ con[p[2]] \in {"open", "closing"}
    BY DEF ServerInv, TypeOK, NoStrayConnection
  <2> QED
    BY <2>1, <2>2 DEF OutOfWork
<1> QED
  BY ServerInvariant, <1>1, PTL

\* An open acceptor that has not failed is always being listened on, for any
\* number of clients: what ClientsServed rests on but for the scheduling.
THEOREM AlwaysListening == Spec => []ListensOn
BY ServerInvariant, PTL DEF ServerInv, Accepting

\* What keeps the join in stop() from returning can only be a connection that was
\* accepted too late for closeAll(): the handlers of everything else are queued,
\* and what is left of StopReturnsUnlessLate is that the I/O thread runs them.
THEOREM OnlyLateHoldsJoin == Spec => []NothingHoldsJoin
<1>1. ServerInv => NothingHoldsJoin
  BY DEF ServerInv, Stopping, Accepting, NoStrayConnection, NothingHoldsJoin, TooLate
<1> QED
  BY ServerInvariant, <1>1, PTL
=============================================================================
