------------------------- MODULE MessageQueueProofs -------------------------
(***************************************************************************)
(* Theorems about MessageQueue, for any number of threads and messages.    *)
(***************************************************************************)
EXTENDS MessageQueue, FiniteSetTheorems, TLAPS

LEMMA InitType == Init => TypeOK
<1> SUFFICES ASSUME Init PROVE TypeOK
  OBVIOUS
<1>1. queue \in Seq(1..MaxMessages) /\ taken \in Seq(1..MaxMessages)
  BY DEF Init
<1>2. pushes \in 0..MaxMessages
  BY MessageQueueAssumption DEF Init, MessageQueueAssumption
<1>3. user \in [Users -> Places] /\ io \in IOPlaces /\ closed \in BOOLEAN
  BY DEF Init, Places, IOPlaces
<1> QED
  BY <1>1, <1>2, <1>3 DEF TypeOK

LEMMA TypeStep == TypeOK /\ [Next]_vars => TypeOK'
<1> SUFFICES ASSUME TypeOK, [Next]_vars PROVE TypeOK'
  OBVIOUS
<1> USE MessageQueueAssumption DEF MessageQueueAssumption, TypeOK, Places, IOPlaces
<1>1. ASSUME NEW stored \in BOOLEAN, Push(stored) PROVE TypeOK'
  <2>1. pushes' \in 1..MaxMessages
    BY <1>1 DEF Push
  <2>2. Append(queue, pushes') \in Seq(1..MaxMessages)
    BY <2>1
  <2>3. queue' = Append(queue, pushes') \/ queue' = queue
    BY <1>1 DEF Push
  <2>4. queue' \in Seq(1..MaxMessages)
    BY <2>2, <2>3
  <2>5. io' \in IOPlaces /\ UNCHANGED <<closed, user, taken>>
    BY <1>1 DEF Push
  <2>6. pushes' \in 0..MaxMessages
    BY <2>1
  <2> QED
    BY <2>4, <2>5, <2>6
<1>2. CASE NotifyOne
  BY <1>2 DEF NotifyOne
<1>3. CASE CloseByCallback
  BY <1>3 DEF CloseByCallback
<1>4. CASE NotifyAllByCallback
  BY <1>4 DEF NotifyAllByCallback, Woken
<1>5. ASSUME NEW u \in Users, Close(u) \/ Receive(u) \/ SpuriousWakeup(u) PROVE TypeOK'
  BY <1>5 DEF Close, Receive, SpuriousWakeup
<1>6. ASSUME NEW u \in Users, NotifyAll(u) PROVE TypeOK'
  BY <1>6 DEF NotifyAll, Woken
<1>7. ASSUME NEW u \in Users, PopMessage(u) PROVE TypeOK'
  <2>1. Head(queue) \in 1..MaxMessages /\ Tail(queue) \in Seq(1..MaxMessages)
    BY <1>7 DEF PopMessage
  <2> QED
    BY <1>7, <2>1 DEF PopMessage, Oldest
<1>8. ASSUME NEW u \in Users, PopNothing(u) \/ Wait(u) PROVE TypeOK'
  BY <1>8 DEF PopNothing, ClosedAndEmpty, Wait
<1>9. CASE UNCHANGED vars
  BY <1>9 DEF vars
<1> QED
  BY <1>1, <1>2, <1>3, <1>4, <1>5, <1>6, <1>7, <1>8, <1>9
     DEF Next, IOThread, Notifies, User, Pops

\* Every variable keeps its type; in particular pop() never takes a message
\* from an empty queue.
THEOREM TypeCorrect == Spec => []TypeOK
BY InitType, TypeStep, PTL DEF Spec

-----------------------------------------------------------------------------
(* Wakeups.                                                                *)

LEMMA AtCounts ==
    ASSUME NEW place
    PROVE  /\ IsFiniteSet(At(place)) /\ Cardinality(At(place)) \in Nat
           /\ IsFiniteSet(At(place)') /\ Cardinality(At(place)') \in Nat
<1>1. At(place) \subseteq Users /\ At(place)' \subseteq Users
  BY DEF At
<1> QED
  BY <1>1, MessageQueueAssumption, FS_Subset, FS_CardinalityType DEF MessageQueueAssumption

\* The threads and the notification that will fetch a message.
Fetching == Cardinality(At("pop")) + (IF io = "notifyOne" THEN 1 ELSE 0)

LEMMA WakeupStep == TypeOK /\ NoLostWakeup /\ [Next]_vars => NoLostWakeup'
<1> SUFFICES ASSUME TypeOK, NoLostWakeup, [Next]_vars, At("waiting")' # {}
             PROVE  /\ Len(queue') <= Fetching'
                    /\ closed' => At("notifyAll")' # {} \/ io' = "notifyAll"
  BY DEF NoLostWakeup, Fetching
<1> USE DEF NoLostWakeup, Fetching
<1>0. /\ queue \in Seq(1..MaxMessages) /\ Len(queue) \in Nat
      /\ Cardinality(At("pop")) \in Nat /\ Cardinality(At("pop")') \in Nat
      /\ IsFiniteSet(At("pop")) /\ io \in IOPlaces
  BY AtCounts DEF TypeOK
<1>1. ASSUME NEW stored \in BOOLEAN, Push(stored)
      PROVE  /\ Len(queue') <= Fetching'
             /\ closed' => At("notifyAll")' # {} \/ io' = "notifyAll"
  <2>1. user' = user /\ closed' = closed /\ io = "idle"
    BY <1>1 DEF Push
  <2>2. At("waiting") # {} /\ At("notifyAll")' = At("notifyAll") /\ At("pop")' = At("pop")
    BY <2>1 DEF At
  <2>3. CASE ~closed /\ stored
    <3>1. queue' = Append(queue, pushes') /\ io' = "notifyOne"
      BY <1>1, <2>3 DEF Push
    <3>2. Len(queue') = Len(queue) + 1
      BY <1>0, <3>1
    <3> QED
      BY <1>0, <2>1, <2>2, <2>3, <3>1, <3>2
  <2>4. CASE ~(~closed /\ stored)
    BY <1>0, <1>1, <2>1, <2>2, <2>4 DEF Push
  <2> QED
    BY <2>3, <2>4
<1>2. CASE NotifyOne
  <2>1. io = "notifyOne" /\ io' = "idle" /\ UNCHANGED <<queue, closed>>
    BY <1>2 DEF NotifyOne
  <2>2. At("waiting") # {}
    BY <1>2 DEF NotifyOne, At
  <2>3. PICK u \in At("waiting") : user' = [user EXCEPT ![u] = "pop"]
    BY <1>2, <2>2 DEF NotifyOne
  <2>4. u \in Users /\ u \notin At("pop") /\ u \notin At("notifyAll")
    BY <2>3 DEF At
  <2>5. At("pop")' = At("pop") \cup {u} /\ At("notifyAll")' = At("notifyAll")
    BY <2>3, <2>4 DEF At, TypeOK
  <2>6. Cardinality(At("pop")') = Cardinality(At("pop")) + 1
    BY <1>0, <2>4, <2>5, FS_AddElement
  <2> QED
    BY <1>0, <2>1, <2>2, <2>5, <2>6
<1>3. CASE CloseByCallback
  <2>1. io = "idle" /\ io' = "notifyAll" /\ queue' = queue /\ user' = user
    BY <1>3 DEF CloseByCallback
  <2>2. At("waiting") # {} /\ At("pop")' = At("pop")
    BY <2>1 DEF At
  <2> QED
    BY <1>0, <2>1, <2>2
<1>4. CASE NotifyAllByCallback
  BY <1>4 DEF NotifyAllByCallback, Woken, At
<1>5. ASSUME NEW u \in Users, Close(u)
      PROVE  /\ Len(queue') <= Fetching'
             /\ closed' => At("notifyAll")' # {} \/ io' = "notifyAll"
  <2>1. UNCHANGED <<queue, io>> /\ user[u] = "idle"
        /\ user' = [user EXCEPT ![u] = "notifyAll"]
    BY <1>5 DEF Close
  <2>2. /\ u \notin At("pop") /\ At("pop")' = At("pop") \ {u}
        /\ At("waiting")' = At("waiting") \ {u} /\ At("notifyAll")' # {}
    BY <2>1 DEF At, TypeOK
  <2> QED
    BY <1>0, <2>1, <2>2
<1>6. ASSUME NEW u \in Users, NotifyAll(u) PROVE FALSE
  BY <1>6 DEF NotifyAll, Woken, At, TypeOK
<1>7. ASSUME NEW u \in Users, Receive(u) \/ SpuriousWakeup(u)
      PROVE  /\ Len(queue') <= Fetching'
             /\ closed' => At("notifyAll")' # {} \/ io' = "notifyAll"
  <2>1. UNCHANGED <<queue, closed, io>> /\ user[u] \in {"idle", "waiting"}
        /\ user' = [user EXCEPT ![u] = "pop"]
    BY <1>7 DEF Receive, SpuriousWakeup
  <2>2. /\ u \notin At("pop") /\ At("pop")' = At("pop") \cup {u}
        /\ At("waiting") # {} /\ At("notifyAll")' = At("notifyAll")
    BY <2>1 DEF At, TypeOK
  <2>3. Cardinality(At("pop")') = Cardinality(At("pop")) + 1
    BY <1>0, <2>2, FS_AddElement
  <2> QED
    BY <1>0, <2>1, <2>2, <2>3
<1>8. ASSUME NEW u \in Users, PopMessage(u) \/ PopNothing(u)
      PROVE  /\ Len(queue') <= Fetching'
             /\ closed' => At("notifyAll")' # {} \/ io' = "notifyAll"
  <2>1. UNCHANGED <<closed, io>> /\ user[u] = "pop" /\ user' = [user EXCEPT ![u] = "idle"]
    BY <1>8 DEF PopMessage, PopNothing, ClosedAndEmpty
  <2>2. /\ u \in At("pop") /\ At("pop")' = At("pop") \ {u}
        /\ At("waiting") # {} /\ At("notifyAll")' = At("notifyAll")
    BY <2>1 DEF At, TypeOK
  <2>3. Cardinality(At("pop")') = Cardinality(At("pop")) - 1
    BY <1>0, <2>2, FS_RemoveElement
  <2>4. CASE PopMessage(u)
    <3>1. Len(queue') = Len(queue) - 1
      BY <1>0, <2>4 DEF PopMessage
    <3> QED
      BY <1>0, <2>1, <2>2, <2>3, <3>1
  <2>5. CASE PopNothing(u)
    <3>1. Len(queue') = 0
      BY <2>5 DEF PopNothing, ClosedAndEmpty
    <3> QED
      BY <1>0, <2>1, <2>2, <3>1
  <2> QED
    BY <1>8, <2>4, <2>5
<1>9. ASSUME NEW u \in Users, Wait(u)
      PROVE  /\ Len(queue') <= Fetching'
             /\ closed' => At("notifyAll")' # {} \/ io' = "notifyAll"
  <2>1. Len(queue') = 0 /\ ~closed'
    BY <1>9 DEF Wait, NothingToPop
  <2> QED
    BY <1>0, <2>1
<1>10. CASE UNCHANGED vars
  BY <1>10 DEF vars, At
<1> QED
  BY <1>1, <1>2, <1>3, <1>4, <1>5, <1>6, <1>7, <1>8, <1>9, <1>10
     DEF Next, IOThread, Notifies, User, Pops

\* No wakeup is lost, for any number of threads in receive() and stop(): while
\* one waits, each queued message has a thread or a notification under way for
\* it, and a close() that has not notified yet is still to do so.
THEOREM NoWakeupLost == Spec => []NoLostWakeup
<1>1. Init => TypeOK /\ NoLostWakeup
  BY InitType DEF Init, NoLostWakeup, At
<1>2. TypeOK /\ NoLostWakeup /\ [Next]_vars => (TypeOK /\ NoLostWakeup)'
  BY TypeStep, WakeupStep
<1> QED
  BY <1>1, <1>2, PTL DEF Spec

-----------------------------------------------------------------------------
(* The order of the messages.                                              *)

Increasing(s) == \A i, j \in DOMAIN s : i < j => s[i] < s[j]

\* The numbers of the messages grow along the queue and along what has been
\* taken from it; what was taken came before what is left, and what is left
\* before the next push().
QueueOrder ==
    /\ Increasing(queue) /\ Increasing(taken)
    /\ \A i \in DOMAIN taken, j \in DOMAIN queue : taken[i] < queue[j]
    /\ \A i \in DOMAIN taken : taken[i] \in 1..pushes
    /\ \A j \in DOMAIN queue : queue[j] \in 1..pushes

LEMMA IncreasingAppend ==
    ASSUME NEW s \in Seq(Nat), Increasing(s), NEW n \in Nat,
           \A i \in DOMAIN s : s[i] < n
    PROVE  Increasing(Append(s, n))
<1>1. PICK t : t = Append(s, n)
  OBVIOUS
<1>2. Len(s) \in Nat /\ DOMAIN s = 1..Len(s) /\ DOMAIN t = 1..(Len(s) + 1)
      /\ t[Len(s) + 1] = n /\ \A i \in DOMAIN s : t[i] = s[i]
  BY <1>1
<1>3. ASSUME NEW i \in DOMAIN t, NEW j \in DOMAIN t, i < j PROVE t[i] < t[j]
  <2>1. i \in DOMAIN s
    BY <1>2, <1>3
  <2>2. j \in DOMAIN s \/ j = Len(s) + 1
    BY <1>2
  <2> QED BY <1>2, <1>3, <2>1, <2>2 DEF Increasing
<1> QED BY <1>1, <1>3 DEF Increasing

LEMMA OrderStep == TypeOK /\ QueueOrder /\ [Next]_vars => QueueOrder'
<1> SUFFICES ASSUME TypeOK, QueueOrder, [Next]_vars PROVE QueueOrder'
  OBVIOUS
<1>0. /\ queue \in Seq(Nat) /\ taken \in Seq(Nat) /\ pushes \in Nat
      /\ Len(queue) \in Nat /\ DOMAIN queue = 1..Len(queue)
      /\ Len(taken) \in Nat /\ DOMAIN taken = 1..Len(taken)
  BY MessageQueueAssumption DEF MessageQueueAssumption, TypeOK
<1>1. ASSUME UNCHANGED <<queue, pushes, taken>> PROVE QueueOrder'
  BY <1>1 DEF QueueOrder, Increasing
<1>2. ASSUME NEW stored \in BOOLEAN, Push(stored) PROVE QueueOrder'
  <2>1. pushes' = pushes + 1 /\ taken' = taken
    BY <1>2 DEF Push
  <2>2. CASE queue' = queue
    BY <1>0, <2>1, <2>2 DEF QueueOrder, Increasing
  <2>3. CASE queue' = Append(queue, pushes')
    <3>1. \A j \in DOMAIN queue : queue[j] < pushes'
      BY <1>0, <2>1 DEF QueueOrder
    <3>2. Increasing(queue')
      <4>1. pushes' \in Nat /\ Increasing(queue)
        BY <1>0, <2>1 DEF QueueOrder
      <4>2. Increasing(Append(queue, pushes'))
        BY <1>0, <3>1, <4>1, IncreasingAppend
      <4> QED BY <2>3, <4>2
    <3>3. \A j \in DOMAIN queue' : queue'[j] = pushes' \/ (j \in DOMAIN queue /\ queue'[j] = queue[j])
      BY <1>0, <2>1, <2>3
    <3> QED BY <1>0, <2>1, <3>2, <3>3 DEF QueueOrder, Increasing
  <2> QED BY <1>2, <2>2, <2>3 DEF Push
<1>3. ASSUME NEW u \in Users, PopMessage(u) PROVE QueueOrder'
  <2>1. /\ queue # << >> /\ queue' = Tail(queue) /\ taken' = Append(taken, queue[1])
        /\ pushes' = pushes
    BY <1>0, <1>3 DEF PopMessage, Oldest
  <2>2. 1 \in DOMAIN queue /\ queue[1] \in Nat
    BY <1>0, <2>1
  <2>3. /\ DOMAIN queue' = 1..(Len(queue) - 1)
        /\ \A j \in DOMAIN queue' : j + 1 \in DOMAIN queue /\ queue'[j] = queue[j + 1]
    BY <1>0, <2>1
  <2>4. Increasing(queue')
    <3>1. ASSUME NEW i \in DOMAIN queue', NEW j \in DOMAIN queue', i < j PROVE queue'[i] < queue'[j]
      <4>1. i + 1 < j + 1
        BY <1>0, <2>3, <3>1
      <4> QED BY <2>3, <4>1 DEF QueueOrder, Increasing
    <3> QED BY <3>1 DEF Increasing
  <2>5. Increasing(taken')
    <3>1. \A i \in DOMAIN taken : taken[i] < queue[1]
      BY <2>2 DEF QueueOrder
    <3> QED BY <1>0, <2>1, <2>2, <3>1, IncreasingAppend DEF QueueOrder
  <2>6. \A i \in DOMAIN taken' : taken'[i] = queue[1] \/ (i \in DOMAIN taken /\ taken'[i] = taken[i])
    BY <1>0, <2>1
  <2>7. \A j \in DOMAIN queue' : queue[1] < queue'[j]
    <3>1. ASSUME NEW j \in DOMAIN queue' PROVE queue[1] < queue'[j]
      <4>1. 1 < j + 1
        BY <1>0, <2>3
      <4> QED BY <2>2, <2>3, <4>1 DEF QueueOrder, Increasing
    <3> QED BY <3>1
  <2>8. ASSUME NEW i \in DOMAIN taken', NEW j \in DOMAIN queue' PROVE taken'[i] < queue'[j]
    <3>1. CASE taken'[i] = queue[1]
      BY <2>7, <3>1
    <3>2. CASE i \in DOMAIN taken /\ taken'[i] = taken[i]
      BY <2>3, <3>2 DEF QueueOrder
    <3> QED BY <2>6, <3>1, <3>2
  <2>9. /\ \A i \in DOMAIN taken' : taken'[i] \in 1..pushes'
        /\ \A j \in DOMAIN queue' : queue'[j] \in 1..pushes'
    BY <2>1, <2>2, <2>3, <2>6 DEF QueueOrder
  <2> QED BY <2>4, <2>5, <2>8, <2>9 DEF QueueOrder
<1> QED
  BY <1>1, <1>2, <1>3
     DEF Next, IOThread, Notifies, User, Pops, NotifyOne, CloseByCallback, NotifyAllByCallback,
         Close, NotifyAll, Receive, PopNothing, ClosedAndEmpty, Wait, SpuriousWakeup, vars

\* What receive() returns, by whichever threads, is in the order of the calls of
\* push(), each message at most once, and everything still queued came later.
THEOREM TakenInOrder == Spec => []QueueOrder
<1>1. Init => QueueOrder
  BY DEF Init, QueueOrder, Increasing
<1> QED
  BY <1>1, OrderStep, TypeCorrect, PTL DEF Spec

-----------------------------------------------------------------------------
(* The mailbox.                                                            *)

LEMMA BoxStep == TypeOK /\ [Next]_vars => [Box!Next]_(Box!vars)
<1> SUFFICES ASSUME TypeOK, [Next]_vars, ~(UNCHANGED Box!vars) PROVE Box!Next
  OBVIOUS
<1> DEFINE asking == At("pop") \cup At("waiting")
<1>0. pushes \in Nat /\ MaxMessages \in Nat /\ user \in [Users -> Places]
  BY MessageQueueAssumption DEF MessageQueueAssumption, TypeOK
<1>1. user' = user => asking' = asking
  BY DEF At
<1>2. ASSUME NEW stored \in BOOLEAN, Push(stored) PROVE \E m \in 1..MaxMessages : Box!Put(m)
  <2>1. queue' = Append(queue, pushes') /\ ~closed /\ UNCHANGED <<closed, taken, user>>
    BY <1>1, <1>2 DEF Push, Box!vars
  <2>2. pushes' \in 1..MaxMessages
    BY <1>0, <1>2 DEF Push
  <2> QED
    BY <1>1, <2>1, <2>2 DEF Box!Put
<1>3. ASSUME NEW u \in Users, Close(u) PROVE Box!Shut
  <2>1. asking' = asking
    BY <1>0, <1>3 DEF Close, At
  <2> QED
    BY <1>3, <2>1 DEF Close, Box!Shut
<1>4. ASSUME CloseByCallback PROVE Box!Shut
  <2>1. asking' = asking
    BY <1>1, <1>4 DEF CloseByCallback
  <2> QED
    BY <1>4, <2>1 DEF CloseByCallback, Box!Shut
<1>5. ASSUME NEW u \in Users, Receive(u) PROVE Box!Ask(u)
  <2>1. u \notin asking /\ asking' = asking \cup {u}
    BY <1>0, <1>5 DEF Receive, At
  <2> QED
    BY <1>5, <2>1 DEF Receive, Box!Ask
<1>6. ASSUME NEW u \in Users, PopMessage(u) \/ PopNothing(u) PROVE Box!Give(u) \/ Box!Dismiss(u)
  <2>1. u \in asking /\ asking' = asking \ {u}
    BY <1>0, <1>6 DEF PopMessage, PopNothing, ClosedAndEmpty, At
  <2> QED
    BY <1>6, <2>1 DEF PopMessage, Oldest, PopNothing, ClosedAndEmpty, Box!Give, Box!Dismiss
<1>7. ASSUME NEW u \in Users, Wait(u) \/ SpuriousWakeup(u) \/ NotifyAll(u) PROVE FALSE
  <2>1. asking' = asking
    BY <1>0, <1>7 DEF Wait, SpuriousWakeup, NotifyAll, Woken, At
  <2> QED
    BY <1>7, <2>1 DEF Wait, SpuriousWakeup, NotifyAll, Box!vars
<1>8. ASSUME NotifyOne PROVE FALSE
  <2>1. asking' = asking
    BY <1>0, <1>1, <1>8 DEF NotifyOne, At
  <2> QED
    BY <1>8, <2>1 DEF NotifyOne, Box!vars
<1>9. ASSUME NotifyAllByCallback PROVE FALSE
  <2>1. asking' = asking
    BY <1>0, <1>9 DEF NotifyAllByCallback, Woken, At
  <2> QED
    BY <1>9, <2>1 DEF NotifyAllByCallback, Box!vars
<1>10. ASSUME UNCHANGED vars PROVE FALSE
  BY <1>1, <1>10 DEF vars, Box!vars
<1> QED
  BY <1>2, <1>3, <1>4, <1>5, <1>6, <1>7, <1>8, <1>9, <1>10
     DEF Next, IOThread, Notifies, User, Pops, Box!Next, Box!GiveSome

\* receive() hands out the messages as a mailbox does: in order, each once, and
\* nothing only when the queue is closed and empty.  (That it does so in the
\* end, MailboxServes, is left to the run.)
THEOREM ImplementsMailbox == Spec => IsMailbox
<1>1. Init => Box!Init
  BY DEF Init, Box!Init, At
<1>2. TypeOK /\ [Next]_vars => [Box!Next]_(Box!vars)
  BY BoxStep
<1> QED
  BY <1>1, <1>2, TypeCorrect, PTL DEF Spec, Box!Spec, IsMailbox
=============================================================================
