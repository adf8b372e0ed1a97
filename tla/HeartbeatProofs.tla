--------------------------- MODULE HeartbeatProofs ---------------------------
(***************************************************************************)
(* Theorems about Heartbeat, for any durations, delay and choice of the    *)
(* ends that send and watch.                                               *)
(***************************************************************************)
EXTENDS Heartbeat, TLAPS

Left == Nat \cup {Off}

\* Frames on their way: the oldest comes first, and none is older than limit.
OldestFirst(ages, limit) ==
    \A i \in 1..Len(ages) : ages[i] <= limit /\ \A j \in 1..i : ages[i] <= ages[j]

\* No frame is older than the way may take, or than the time its receiver has
\* needed for its start(); an end that has not started has no frame and no timer,
\* and only an end that watches has a watch.
Fresh(e) ==
    /\ flight[e] = << >> /\ queued[e] = {}
    /\ rateLeft[e] = Off /\ readLeft[e] = Off /\ watchLeft[e] = Off
InTime ==
    /\ setup <= Delay
    /\ \A e \in End :
         /\ status[e] = "new" => Fresh(e) /\ silent[e] = 0
         /\ e \notin Watches => watchLeft[e] = Off
         /\ Gone(Peer(e)) => flight[e] = << >>
         /\ OldestFirst(flight[e], IF status[Peer(e)] = "new" THEN setup ELSE Delay)

\* The heartbeat timer of an end that is up runs, for one of the rates at most.
Beating(e) ==
    /\ rateLeft[e] # Off
    /\ \E rate \in RateValues : rateLeft[e] <= rate

\* A timer with so many ticks left outlives the wait for the next frame of p:
\* the one on its way, the next one p sends, or the first one after its start.
Outlives(left, p) ==
    IF status[p] = "new"
    THEN \A rate \in RateValues : rate + Delay + (Delay - setup) < left
    ELSE IF flight[p] # << >> THEN Delay - Head(flight[p]) < left
    ELSE rateLeft[p] + Delay < left

Covered ==
    \A e \in End : Up(e) =>
        /\ Beating(e) /\ queued[e] = {}
        /\ readLeft[e] # Off => Outlives(readLeft[e], Peer(e))
        /\ watchLeft[e] # Off => Outlives(watchLeft[e], Peer(e))

AllUp == \A e \in End : status[e] \in {"new", "up"}

IdleInv == Stable /\ Undisturbed => AllUp /\ Covered

\* How long the silence has lasted is known from what is left of the timers.
Counted(n, left, values) ==
    /\ left = Off => 0 \in values
    /\ left # Off => \E d \in values : n + left <= d
SilenceInv ==
    \A e \in End : Up(e) =>
        /\ Counted(silent[e], readLeft[e], ReadValues)
        /\ e \in Watches => Counted(silent[e], watchLeft[e], WatchValues)

USE HeartbeatAssumption DEF Status, Off, Up, Gone

LEMMA PeerOfEnd == \A e \in End : Peer(e) \in End /\ Peer(e) # e /\ Peer(Peer(e)) = e
                     /\ \A f \in End : f = e \/ f = Peer(e)
  BY DEF End, Peer

LEMMA HeadIsNat == ASSUME NEW ages \in Seq(Nat), ages # << >> PROVE Head(ages) \in Nat
  OBVIOUS

LEMMA AppendFills == \A ages \in Seq(Nat) : Append(ages, 0) # << >>
  OBVIOUS

\* A timeout with room for a rate and two ways outlives a frame of any age, and
\* a tick takes as much from the frame's way as from the timeout.
LEMMA AgeSpares ==
  \A rate, age, left \in Nat : rate + 2 * Delay < left => Delay - age < left
  OBVIOUS

LEMMA OlderSpares ==
  \A age, left \in Nat : Delay - age < left + 1 => Delay - (age + 1) < left
  OBVIOUS

\* What the two ways to start a timer give.
LEMMA StartedLeft == \A d \in Nat : Started(d) \in Left
  BY DEF Started, Left

LEMMA ResetLeft == \A left \in Left, d \in Nat : Reset(left, d) \in Left
  BY DEF Reset, Left

LEMMA DurationsAreNat ==
  \A ds \in Durations : ds.read \in Nat /\ ds.watch \in Nat /\ ds.rate \in Nat
  BY DEF Durations

\* Every variable has its type at first.
LEMMA TypeInit == Init => TypeOK
<1> SUFFICES ASSUME Init PROVE TypeOK
  OBVIOUS
<1> USE DEF Init
<1>1. status \in [End -> Status] /\ dur \in [End -> Durations]
  OBVIOUS
<1>2. \A left \in {readLeft, watchLeft, rateLeft} : left \in [End -> Nat \cup {Off}]
  OBVIOUS
<1>3. flight \in [End -> Seq(Nat)] /\ silent \in [End -> 0..MaxSilence]
  OBVIOUS
<1>. QED BY <1>1, <1>2, <1>3 DEF TypeOK

\* A tick takes one from every timer that runs, and none is at zero.
LEMMA LessLeft == \A left \in Left : left # 0 => Less(left) \in Left
  BY DEF Less, Left

\* Growing older keeps the frames.
LEMMA AgedSeq ==
  ASSUME NEW s \in Seq(Nat)
  PROVE  /\ Aged(s) \in Seq(Nat) /\ Len(Aged(s)) = Len(s)
         /\ \A i \in 1..Len(s) : Aged(s)[i] = s[i] + 1
  BY DEF Aged

\* Every step keeps the types.
LEMMA TypeStep == TypeOK /\ [Next]_vars => TypeOK'
<1> SUFFICES ASSUME TypeOK, [Next]_vars PROVE TypeOK'
  OBVIOUS
<1> USE DEF TypeOK, Left
<1>1. ASSUME NEW e \in End, Start(e) PROVE TypeOK'
  BY <1>1, StartedLeft, DurationsAreNat DEF Start
<1>2. ASSUME NEW e \in End, Beat(e) PROVE TypeOK'
  BY <1>2, ResetLeft, DurationsAreNat DEF Beat, NextBeat
<1>3. ASSUME NEW e \in End, Receive(e) PROVE TypeOK'
  <2> USE <1>3 DEF Receive
  <2>1. Peer(e) \in End /\ Tail(flight[Peer(e)]) \in Seq(Nat)
    BY PeerOfEnd
  <2>2. flight' \in [End -> Seq(Nat)]
    BY <2>1
  <2>3. Started(dur[e].read) \in Left /\ Reset(watchLeft[e], dur[e].watch) \in Left
    BY StartedLeft, ResetLeft, DurationsAreNat
  <2>. QED BY <2>2, <2>3 DEF NextRead
<1>4. ASSUME NEW e \in End, NEW why \in Status, Close(e, why) PROVE TypeOK'
  BY <1>4, PeerOfEnd DEF Close
<1>5. ASSUME NEW e \in End, NEW ds \in Durations, SetTimeout(e, ds) PROVE TypeOK'
  BY <1>5 DEF SetTimeout, timers
<1>6. CASE Cut
  BY <1>6 DEF Cut, timers
<1>7. CASE Tick
  <2> USE <1>7 DEF Tick
  <2>1. \A e \in End : readLeft[e] # 0 /\ watchLeft[e] # 0 /\ rateLeft[e] # 0
    BY DEF Due
  <2>2. /\ readLeft' \in [End -> Left]
        /\ watchLeft' \in [End -> Left]
        /\ rateLeft' \in [End -> Left]
    BY <2>1, LessLeft
  <2>3. flight' \in [End -> Seq(Nat)]
    BY AgedSeq
  <2>4. setup' \in Nat /\ silent' \in [End -> 0..MaxSilence]
    OBVIOUS
  <2>. QED BY <2>2, <2>3, <2>4
<1>8. ASSUME NEW e \in End, NEW timer \in {"read", "watch"}, Expires(e, timer) PROVE TypeOK'
  BY <1>8 DEF Expires
<1>9. CASE UNCHANGED vars
  BY <1>9 DEF vars, timers
<1>. QED
  BY <1>1, <1>2, <1>3, <1>4, <1>5, <1>6, <1>7, <1>8, <1>9
  DEF Next, Runs, User, WatchTimeout, ReadTimeout, Stop, PeerCloses

\* What the four things that happen to the frames of one direction leave.
LEMMA FramesStart ==
  ASSUME NEW s \in Seq(Nat), NEW m \in Nat, NEW n \in Nat, m <= n, OldestFirst(s, m)
  PROVE  OldestFirst(s, n)
  BY DEF OldestFirst

LEMMA FramesAppend ==
  ASSUME NEW s \in Seq(Nat), NEW n \in Nat, OldestFirst(s, n)
  PROVE  OldestFirst(Append(s, 0), n)
  BY DEF OldestFirst

LEMMA FramesTail ==
  ASSUME NEW s \in Seq(Nat), NEW n \in Nat, OldestFirst(s, n), s # << >>
  PROVE  OldestFirst(Tail(s), n)
<1>1. Len(Tail(s)) = Len(s) - 1 /\ \A i \in 1..Len(Tail(s)) : Tail(s)[i] = s[i + 1]
  OBVIOUS
<1>2. \A i \in 1..Len(Tail(s)) : i + 1 \in 1..Len(s) /\ \A j \in 1..i : j + 1 \in 1..(i + 1)
  BY <1>1
<1>. QED BY <1>1, <1>2 DEF OldestFirst

LEMMA FramesAged ==
  ASSUME NEW s \in Seq(Nat), NEW n \in Nat, NEW m \in Nat, OldestFirst(s, n),
         n < m \/ s = << >> \/ Head(s) < m
  PROVE  OldestFirst(Aged(s), m)
<1>1. \A i \in 1..Len(s) : s[i] < m
  BY DEF OldestFirst
<1>2. /\ Len(Aged(s)) = Len(s)
      /\ \A i \in 1..Len(s) : Aged(s)[i] = s[i] + 1 /\ s[i] \in Nat
  BY AgedSeq
<1>3. ASSUME NEW i \in 1..Len(s) PROVE Aged(s)[i] <= m
  BY <1>1, <1>2
<1>4. ASSUME NEW i \in 1..Len(s), NEW j \in 1..i PROVE Aged(s)[i] <= Aged(s)[j]
  <2>1. j \in 1..Len(s) /\ s[i] <= s[j]
    BY DEF OldestFirst
  <2>. QED BY <2>1, <1>2
<1>. QED BY <1>2, <1>3, <1>4 DEF OldestFirst

LEMMA NoFrames == \A n \in Nat : OldestFirst(<< >>, n)
  BY DEF OldestFirst

LEMMA InTimeInit == Init => InTime
<1> SUFFICES ASSUME Init PROVE InTime
  OBVIOUS
<1>1. \A e \in End : Peer(e) \in End /\ OldestFirst(flight[e], 0) /\ OldestFirst(flight[e], Delay)
  BY PeerOfEnd, NoFrames DEF Init
<1>. QED BY <1>1, PeerOfEnd DEF Init, InTime, Fresh

\* Every step keeps the frames in time.
LEMMA InTimeStep == TypeOK /\ InTime /\ [Next]_vars => InTime'
<1> SUFFICES ASSUME TypeOK, InTime, [Next]_vars PROVE InTime'
  OBVIOUS
<1> USE DEF TypeOK
<1> DEFINE Limit(e) == IF status[Peer(e)] = "new" THEN setup ELSE Delay
<1>0. \A e \in End : /\ OldestFirst(flight[e], Limit(e)) /\ flight[e] \in Seq(Nat)
                      /\ Limit(e) \in Nat /\ Limit(e) <= Delay
  BY DEF InTime
<1>1. ASSUME NEW e \in End, Start(e) PROVE InTime'
  <2> USE <1>1 DEF Start
  <2>1. OldestFirst(flight[Peer(e)], Delay)
    BY <1>0, FramesStart, PeerOfEnd
  <2>. QED BY <2>1, PeerOfEnd DEF InTime, Fresh
<1>2. ASSUME NEW e \in End, Beat(e) PROVE InTime'
  <2> USE <1>2 DEF Beat
  <2>1. OldestFirst(flight'[e], Limit(e))
    BY <1>0, FramesAppend
  <2>. QED BY <2>1, PeerOfEnd DEF InTime, Fresh
<1>3. ASSUME NEW e \in End, Receive(e) PROVE InTime'
  <2> USE <1>3 DEF Receive
  <2>1. OldestFirst(flight'[Peer(e)], Limit(Peer(e)))
    BY <1>0, FramesTail, PeerOfEnd
  <2>2. e \notin Watches => watchLeft'[e] = Off
    BY DEF InTime, Reset
  <2>3. \A f \in End : f # e => queued'[f] = queued[f] /\ readLeft'[f] = readLeft[f]
                               /\ watchLeft'[f] = watchLeft[f] /\ silent'[f] = silent[f]
    OBVIOUS
  <2>4. /\ UNCHANGED <<status, rateLeft, setup>> /\ Up(e) /\ Peer(e) # e /\ Peer(Peer(e)) = e
        /\ flight'[e] = flight[e] /\ flight[Peer(e)] # << >>
    BY PeerOfEnd
  <2>5. status[Peer(e)] # "new"
    BY <2>4, PeerOfEnd DEF InTime, Fresh
  <2>6. ASSUME NEW f \in End
        PROVE  /\ status'[f] = "new" => Fresh(f)' /\ silent'[f] = 0
               /\ f \notin Watches => watchLeft'[f] = Off
               /\ Gone(Peer(f))' => flight'[f] = << >>
               /\ OldestFirst(flight'[f], IF status'[Peer(f)] = "new" THEN setup' ELSE Delay)
    <3>1. CASE f = e
      BY <2>2, <2>4, <3>1 DEF InTime
    <3>2. CASE f = Peer(e)
      BY <2>1, <2>3, <2>4, <2>5, <3>2 DEF InTime
    <3>. QED BY <3>1, <3>2, PeerOfEnd
  <2>. QED BY <2>4, <2>6 DEF InTime
<1>4. ASSUME NEW e \in End, NEW why \in Status \ {"new", "up"}, Close(e, why) PROVE InTime'
  <2> USE <1>4 DEF Close
  <2>1. OldestFirst(flight'[Peer(e)], Delay)
    BY NoFrames, PeerOfEnd
  <2>. QED BY <2>1, PeerOfEnd DEF InTime, Fresh
<1>5. ASSUME NEW e \in End, NEW ds \in Durations, SetTimeout(e, ds) PROVE InTime'
  BY <1>5 DEF SetTimeout, InTime, Fresh, timers
<1>6. CASE Cut
  BY <1>6, NoFrames DEF Cut, InTime, Fresh, timers
<1>7. CASE Tick
  <2> USE <1>7 DEF Tick
  <2>1. setup' <= Delay
    BY DEF InTime, Due
  <2>2. \A e \in End : status[e] = "new" =>
           flight'[e] = << >> /\ rateLeft'[e] = Off /\ readLeft'[e] = Off
             /\ watchLeft'[e] = Off /\ silent'[e] = 0
    BY AgedSeq DEF InTime, Fresh, Less
  <2>3. \A e \in End : Gone(Peer(e)) => flight'[e] = << >>
    BY AgedSeq DEF InTime
  <2>4. ASSUME NEW e \in End
        PROVE  OldestFirst(flight'[e], IF status[Peer(e)] = "new" THEN setup' ELSE Delay)
    <3>1. CASE status[Peer(e)] = "new"
      <4>1. setup' = setup + 1 /\ setup' \in Nat /\ OldestFirst(flight[e], setup)
        BY <1>0, <3>1, PeerOfEnd
      <4>2. OldestFirst(Aged(flight[e]), setup')
        BY <1>0, <4>1, FramesAged
      <4>. QED BY <3>1, <4>2
    <3>2. CASE Up(Peer(e))
      <4>1. ~Due(e) /\ Limit(e) = Delay /\ Delay \in Nat
        BY <3>2
      <4>2. flight[e] = << >> \/ Head(flight[e]) < Delay
        <5>1. CASE flight[e] # << >>
          <6>1. Head(flight[e]) \in Nat /\ ~(Head(flight[e]) >= Delay)
            BY <3>2, <4>1, <5>1, HeadIsNat DEF Due
          <6>. QED BY <4>1, <6>1
        <5>. QED BY <5>1
      <4>3. OldestFirst(flight[e], Delay) /\ flight[e] \in Seq(Nat)
        BY <1>0, <4>1
      <4>4. OldestFirst(Aged(flight[e]), Delay)
        BY ONLY <4>1, <4>2, <4>3, FramesAged
      <4>. QED BY <3>2, <4>4
    <3>3. CASE Gone(Peer(e))
      BY <3>3, <2>3, NoFrames
    <3>. QED BY <3>1, <3>2, <3>3
  <2>5. \A e \in End : e \notin Watches => watchLeft'[e] = Off
    BY DEF InTime, Less
  <2>. QED BY <2>1, <2>2, <2>3, <2>4, <2>5 DEF InTime, Fresh
<1>8. ASSUME NEW e \in End, NEW timer \in {"read", "watch"}, Expires(e, timer) PROVE InTime'
  BY <1>8 DEF Expires, InTime, Fresh
<1>9. CASE UNCHANGED vars
  BY <1>9 DEF vars, timers, InTime, Fresh
<1>. QED
  BY <1>1, <1>2, <1>3, <1>4, <1>5, <1>6, <1>7, <1>8, <1>9
  DEF Next, Runs, User, WatchTimeout, ReadTimeout, Stop, PeerCloses

LEMMA SilenceInit == Init => SilenceInv
  BY PeerOfEnd DEF Init, SilenceInv

\* A timer just started, or with a tick less, still counts.
LEMMA CountStarted ==
  ASSUME NEW values \in SUBSET Nat, NEW d \in values
  PROVE  Counted(0, Started(d), values) /\ Counted(0, d, values)
  BY DEF Counted, Started

LEMMA CountLess ==
  ASSUME NEW values \in SUBSET Nat, NEW left \in Left, NEW n \in Nat, NEW m \in Nat,
         Counted(n, left, values), m <= n + 1, left # 0
  PROVE  Counted(m, Less(left), values)
  BY DEF Counted, Less, Left

\* Every step keeps the count.
LEMMA SilenceStep == TypeOK /\ InTime /\ SilenceInv /\ [Next]_vars => SilenceInv'
<1> SUFFICES ASSUME TypeOK, InTime, SilenceInv, [Next]_vars PROVE SilenceInv'
  OBVIOUS
<1> USE DEF TypeOK, Left
<1>0. \A e \in End : dur[e].read \in ReadValues /\ dur[e].watch \in WatchValues
  BY DEF Durations
<1>1. ASSUME NEW e \in End, Start(e) PROVE SilenceInv'
  <2> USE <1>1 DEF Start
  <2>1. Counted(silent'[e], readLeft'[e], ReadValues)
    BY <1>0, CountStarted DEF InTime
  <2>2. e \in Watches => Counted(silent'[e], watchLeft'[e], WatchValues)
    BY <1>0, CountStarted DEF InTime
  <2>. QED BY <2>1, <2>2 DEF SilenceInv
<1>2. ASSUME NEW e \in End, Beat(e) PROVE SilenceInv'
  BY <1>2 DEF Beat, SilenceInv
<1>3. ASSUME NEW e \in End, Receive(e) PROVE SilenceInv'
  <2> USE <1>3 DEF Receive
  <2>1. Counted(silent'[e], readLeft'[e], ReadValues)
    BY <1>0, CountStarted DEF NextRead
  <2>2. ASSUME e \in Watches PROVE Counted(silent'[e], watchLeft'[e], WatchValues)
    <3>1. watchLeft[e] = Off => 0 \in WatchValues
      BY <2>2 DEF SilenceInv, Counted
    <3>2. Counted(0, dur[e].watch, WatchValues)
      BY <1>0, CountStarted
    <3>3. silent'[e] = 0 /\ watchLeft'[e] = Reset(watchLeft[e], dur[e].watch)
      OBVIOUS
    <3>. QED BY <3>1, <3>2, <3>3 DEF Reset, Counted
  <2>. QED BY <2>1, <2>2 DEF SilenceInv
<1>4. ASSUME NEW e \in End, NEW why \in Status \ {"new", "up"}, Close(e, why) PROVE SilenceInv'
  BY <1>4 DEF Close, SilenceInv
<1>5. ASSUME NEW e \in End, NEW ds \in Durations, SetTimeout(e, ds) PROVE SilenceInv'
  BY <1>5 DEF SetTimeout, SilenceInv, timers
<1>6. CASE Cut
  BY <1>6 DEF Cut, SilenceInv, timers
<1>7. CASE Tick
  <2> USE <1>7 DEF Tick
  <2> SUFFICES ASSUME NEW e \in End, Up(e)'
               PROVE  /\ Counted(silent'[e], readLeft'[e], ReadValues)
                      /\ e \in Watches => Counted(silent'[e], watchLeft'[e], WatchValues)
    BY DEF SilenceInv
  <2>1. /\ Up(e) /\ readLeft[e] # 0 /\ watchLeft[e] # 0
        /\ silent[e] \in Nat /\ silent'[e] \in Nat /\ silent'[e] <= silent[e] + 1
        /\ readLeft'[e] = Less(readLeft[e]) /\ watchLeft'[e] = Less(watchLeft[e])
    BY DEF Due
  <2>2. Counted(silent'[e], readLeft'[e], ReadValues)
    BY <2>1, CountLess DEF SilenceInv
  <2>3. e \in Watches => Counted(silent'[e], watchLeft'[e], WatchValues)
    BY <2>1, CountLess DEF SilenceInv
  <2>. QED BY <2>2, <2>3
<1>8. ASSUME NEW e \in End, NEW timer \in {"read", "watch"}, Expires(e, timer) PROVE SilenceInv'
  BY <1>8 DEF Expires, SilenceInv
<1>9. CASE UNCHANGED vars
  BY <1>9 DEF vars, timers, SilenceInv
<1>. QED
  BY <1>1, <1>2, <1>3, <1>4, <1>5, <1>6, <1>7, <1>8, <1>9
  DEF Next, Runs, User, WatchTimeout, ReadTimeout, Stop, PeerCloses

\* What is counted bounds the silence.
LEMMA SilenceBounded == TypeOK /\ SilenceInv => SilentPeerDropped
<1>1. ASSUME NEW n \in Nat, NEW left \in Left, NEW values \in SUBSET Nat,
             Counted(n, left, values)
      PROVE  Within(n, values)
  BY <1>1 DEF Counted, Within, Left
<1>2. ASSUME TypeOK, SilenceInv, NEW e \in End, Up(e)
      PROVE  /\ Within(silent[e], ReadValues)
             /\ e \in Watches => Within(silent[e], WatchValues)
  <2>1. silent[e] \in Nat /\ readLeft[e] \in Left /\ watchLeft[e] \in Left
    BY <1>2 DEF TypeOK, Left
  <2>. QED BY <1>1, <1>2, <2>1 DEF SilenceInv
<1>. QED BY <1>2 DEF SilentPeerDropped

\* A timer started now outlives any wait there can be for a frame of p.
LEMMA StartedOutlives ==
  ASSUME TypeOK, InTime, NEW e \in End, NEW d \in Nat, LeavesRoom(d),
         Up(Peer(e)) => Beating(Peer(e)), ~Gone(Peer(e))
  PROVE  Outlives(d, Peer(e))
<1> DEFINE p == Peer(e)
<1>0. p \in End /\ setup \in Nat /\ setup <= Delay /\ rateLeft[p] \in Nat \cup {Off}
      /\ flight[p] \in Seq(Nat)
  BY PeerOfEnd DEF TypeOK, InTime
<1>1. CASE status[p] = "new"
  BY <1>0, <1>1 DEF LeavesRoom, Outlives
<1>2. CASE Up(p) /\ flight[p] # << >>
  <2>1. Head(flight[p]) \in Nat
    BY <1>0, <1>2
  <2>2. PICK rate \in RateValues : rate + 2 * Delay < d
    BY <1>2 DEF LeavesRoom, Beating
  <2>. QED BY <1>2, <2>1, <2>2 DEF Outlives
<1>3. CASE Up(p) /\ flight[p] = << >>
  BY <1>0, <1>3 DEF LeavesRoom, Beating, Outlives
<1>. QED BY <1>1, <1>2, <1>3

\* No timer that outlives the next wait has run out.
LEMMA OutlivesIsDue ==
  ASSUME TypeOK, InTime, NEW e \in End, Up(e), ~Gone(Peer(e)), Up(Peer(e)) => Beating(Peer(e)),
         Outlives(0, Peer(e))
  PROVE  FALSE
<1> DEFINE p == Peer(e)
<1>0. /\ p \in End /\ e = Peer(p) /\ setup \in Nat /\ setup <= Delay
      /\ rateLeft[p] \in Nat \cup {Off} /\ flight[p] \in Seq(Nat)
      /\ dur[e].rate \in RateValues
  BY PeerOfEnd DEF TypeOK, InTime, Durations
<1>1. CASE status[p] = "new"
  <2>1. PICK rate \in RateValues : rate + Delay + (Delay - setup) < 0
    BY <1>0, <1>1 DEF Outlives
  <2>2. rate \in Nat /\ Delay \in Nat /\ setup \in Nat /\ setup <= Delay
    BY <1>0
  <2>. QED BY <2>1, <2>2
<1>2. CASE Up(p) /\ flight[p] # << >>
  <2>1. Head(flight[p]) \in Nat /\ Head(flight[p]) <= Delay
    BY <1>0, <1>2 DEF InTime, OldestFirst
  <2>. QED BY <1>2, <2>1 DEF Outlives
<1>3. CASE Up(p) /\ flight[p] = << >>
  BY <1>0, <1>3 DEF Beating, Outlives
<1>. QED BY <1>1, <1>2, <1>3

LEMMA IdleInit == Init => IdleInv
  BY DEF Init, IdleInv, AllUp, Covered

\* Every step keeps an idle connection up and its timers long enough.
LEMMA IdleStep == TypeOK /\ InTime /\ IdleInv /\ [Next]_vars => IdleInv'
<1> SUFFICES ASSUME TypeOK, InTime, IdleInv, [Next]_vars, Stable, Undisturbed' PROVE (AllUp /\ Covered)'
  BY DEF IdleInv, Stable, LeavesRoom
<1> USE DEF TypeOK
<1>0. AllUp /\ Covered /\ ~cut /\ \A e \in End : ~Gone(e)
  <2>1. ~cut
    BY DEF Undisturbed, Next, Runs, User, WatchTimeout, ReadTimeout, Stop, PeerCloses, Start,
           Beat, Receive, Close, SetTimeout, Cut, Tick, Expires, vars
  <2>2. ASSUME NEW f \in End, status[f] = "owner" PROVE status'[f] = "owner"
    <3>1. ASSUME NEW e \in End, Start(e) \/ Beat(e) \/ Receive(e) \/ User(e) PROVE status'[f] = "owner"
      BY <2>2, <3>1 DEF Start, Beat, Receive, User, Stop, Close, SetTimeout
    <3>2. ASSUME NEW e \in End, WatchTimeout(e) \/ ReadTimeout(e) \/ PeerCloses(e) PROVE status'[f] = "owner"
      BY <2>2, <3>2 DEF WatchTimeout, ReadTimeout, PeerCloses, Close
    <3>3. ASSUME NEW e \in End, NEW timer \in {"read", "watch"}, Expires(e, timer)
          PROVE  status'[f] = "owner"
      BY <2>2, <3>3 DEF Expires
    <3>4. CASE Cut \/ Tick \/ UNCHANGED vars
      BY <2>2, <3>4 DEF Cut, Tick, vars
    <3>. QED BY <3>1, <3>2, <3>3, <3>4 DEF Next, Runs
  <2>3. Undisturbed
    BY <2>1, <2>2 DEF Undisturbed
  <2>. QED BY <2>1, <2>3 DEF IdleInv, AllUp
<1>1. \A e \in End : /\ Peer(e) \in End /\ (Up(Peer(e)) => Beating(Peer(e)))
                      /\ dur[e].rate \in RateValues /\ dur[e].rate # 0
                      /\ dur[e].read \in ReadValues /\ dur[e].watch \in WatchValues
                      /\ queued[e] = {}
  BY <1>0, PeerOfEnd DEF AllUp, Covered, Stable, Durations, InTime, Fresh
<1>2. ASSUME NEW e \in End, Start(e) PROVE (AllUp /\ Covered)'
  <2> USE <1>2 DEF Start
  <2>1. AllUp' /\ Up(e)' /\ rateLeft'[e] = dur[e].rate /\ dur[e].rate \in Nat \ {0}
    BY <1>0, <1>1 DEF AllUp, Stable, Started
  <2>0. Beating(e)'
    BY <1>1, <2>1 DEF Beating
  <2>2. readLeft'[e] # Off => Outlives(readLeft'[e], Peer(e))
    BY <1>0, <1>1, StartedOutlives DEF Stable, Started
  <2>3. watchLeft'[e] # Off => Outlives(watchLeft'[e], Peer(e))
    BY <1>0, <1>1, StartedOutlives DEF Stable, Started
  <2>4. /\ Outlives(readLeft'[e], Peer(e)) => Outlives(readLeft[e], Peer(e))'
        /\ Outlives(watchLeft'[e], Peer(e)) => Outlives(watchLeft[e], Peer(e))'
    BY PeerOfEnd DEF Outlives
  <2>5. ASSUME NEW left \in Nat, Outlives(left, e) PROVE Outlives(left, e)'
    <3>1. flight[e] = << >> /\ rateLeft'[e] = dur[e].rate
      BY <1>1 DEF InTime, Fresh, Stable, Started
    <3>2. dur[e].rate + Delay + (Delay - setup) < left /\ setup <= Delay
      BY <1>1, <2>5 DEF Outlives, InTime
    <3>3. dur[e].rate + Delay < left
      BY <3>2, <2>1
    <3>. QED BY <3>1, <3>3, <2>1 DEF Outlives
  <2>6. ASSUME Up(Peer(e))
        PROVE  /\ Beating(Peer(e))'
               /\ readLeft'[Peer(e)] # Off => Outlives(readLeft[Peer(e)], e)'
               /\ watchLeft'[Peer(e)] # Off => Outlives(watchLeft[Peer(e)], e)'
    <3>1. /\ Peer(e) # e /\ Peer(Peer(e)) = e
          /\ rateLeft'[Peer(e)] = rateLeft[Peer(e)]
          /\ readLeft'[Peer(e)] = readLeft[Peer(e)]
          /\ watchLeft'[Peer(e)] = watchLeft[Peer(e)]
      BY PeerOfEnd
    <3>2. /\ Beating(Peer(e))
          /\ readLeft[Peer(e)] # Off => Outlives(readLeft[Peer(e)], e)
          /\ watchLeft[Peer(e)] # Off => Outlives(watchLeft[Peer(e)], e)
      BY <1>0, <1>1, <2>6, <3>1 DEF Covered
    <3>. QED BY <1>1, <2>5, <3>1, <3>2 DEF Beating
  <2>7. Up(Peer(e))' => Up(Peer(e))
    BY PeerOfEnd
  <2>8. /\ readLeft'[e] # Off => Outlives(readLeft[e], Peer(e))'
        /\ watchLeft'[e] # Off => Outlives(watchLeft[e], Peer(e))'
    BY <2>2, <2>3, <2>4
  <2>9. /\ readLeft'[Peer(e)] = readLeft[Peer(e)]
        /\ watchLeft'[Peer(e)] = watchLeft[Peer(e)]
    BY PeerOfEnd
  <2>10. \A f \in End : (f = e /\ Peer(f) = Peer(e)) \/ (f = Peer(e) /\ Peer(f) = e)
    BY PeerOfEnd
  <2>. QED BY <1>1, <2>0, <2>1, <2>6, <2>7, <2>8, <2>9, <2>10 DEF Covered
<1>3. ASSUME NEW e \in End, Beat(e) PROVE (AllUp /\ Covered)'
  <2> USE <1>3 DEF Beat
  <2>1. /\ Up(e) /\ rateLeft[e] = 0 /\ rateLeft'[e] = dur[e].rate /\ dur[e].rate \in Nat
        /\ flight'[e] = Append(flight[e], 0) /\ flight[e] \in Seq(Nat)
    <3>1. Up(e) /\ rateLeft[e] = 0 /\ ~cut /\ ~Gone(Peer(e)) /\ dur[e].rate \in Nat
      BY <1>0, <1>1
    <3>2. rateLeft'[e] = dur[e].rate
      BY <3>1 DEF NextBeat, Reset
    <3>. QED BY <3>1, <3>2
  <2>2. Beating(e)'
    BY <1>1, <2>1 DEF Beating
  <2>3. Head(flight'[e]) = IF flight[e] = << >> THEN 0 ELSE Head(flight[e])
    BY <2>1
  <2>4. ASSUME NEW left \in Nat, Outlives(left, e) PROVE Outlives(left, e)'
    <3>1. status[e] # "new" /\ status'[e] # "new" /\ flight'[e] # << >>
      <4>1. status' = status
        OBVIOUS
      <4>2. Append(flight[e], 0) # << >>
        BY <2>1, AppendFills
      <4>. QED BY <2>1, <4>1, <4>2
    <3>2. CASE flight[e] = << >>
      <4>1. Delay < left /\ Head(flight'[e]) = 0
        BY <2>1, <2>3, <2>4, <3>1, <3>2 DEF Outlives
      <4>. QED BY <3>1, <4>1 DEF Outlives
    <3>3. CASE flight[e] # << >>
      <4>1. Delay - Head(flight[e]) < left /\ Head(flight'[e]) = Head(flight[e])
        BY <2>3, <2>4, <3>1, <3>3 DEF Outlives
      <4>. QED BY <3>1, <4>1 DEF Outlives
    <3>. QED BY <3>2, <3>3
  <2>5. \A f \in End : (f = e /\ Peer(f) = Peer(e)) \/ (f = Peer(e) /\ Peer(f) = e /\ f # e)
    BY PeerOfEnd
  <2>6. /\ Outlives(readLeft[e], Peer(e)) => Outlives(readLeft[e], Peer(e))'
        /\ Outlives(watchLeft[e], Peer(e)) => Outlives(watchLeft[e], Peer(e))'
    BY PeerOfEnd DEF Outlives
  <2>7. ASSUME Up(Peer(e))
        PROVE  /\ Beating(Peer(e))'
               /\ readLeft[Peer(e)] # Off => Outlives(readLeft[Peer(e)], e)'
               /\ watchLeft[Peer(e)] # Off => Outlives(watchLeft[Peer(e)], e)'
    <3>1. Beating(Peer(e))'
      BY <1>1, <2>7, PeerOfEnd DEF Beating
    <3>2. /\ readLeft[Peer(e)] # Off => Outlives(readLeft[Peer(e)], e)
          /\ watchLeft[Peer(e)] # Off => Outlives(watchLeft[Peer(e)], e)
          /\ readLeft[Peer(e)] \in Nat \cup {Off} /\ watchLeft[Peer(e)] \in Nat \cup {Off}
      BY <1>0, <2>7, PeerOfEnd DEF Covered
    <3>. QED BY <2>4, <3>1, <3>2
  <2>8. /\ readLeft[e] # Off => Outlives(readLeft[e], Peer(e))
        /\ watchLeft[e] # Off => Outlives(watchLeft[e], Peer(e))
    BY <1>0, <2>1 DEF Covered
  <2>9. AllUp' /\ UNCHANGED <<status, readLeft, watchLeft>>
    BY <1>0 DEF AllUp
  <2>. QED BY <1>1, <2>2, <2>5, <2>6, <2>7, <2>8, <2>9 DEF Covered
<1>4. ASSUME NEW e \in End, Receive(e) PROVE (AllUp /\ Covered)'
  <2> USE <1>4 DEF Receive
  <2> DEFINE p == Peer(e)
  <2>1. /\ p \in End /\ p # e /\ Peer(p) = e /\ Up(e) /\ Up(p) /\ Beating(p)
        /\ flight[p] \in Seq(Nat) /\ Tail(flight[p]) \in Seq(Nat)
        /\ flight'[p] = Tail(flight[p]) /\ flight'[e] = flight[e]
    BY <1>0, <1>1, PeerOfEnd DEF InTime, Fresh
  <2>2. ASSUME NEW left \in Nat, LeavesRoom(left) PROVE Outlives(left, p)'
    <3>1. PICK rate \in RateValues : rateLeft[p] <= rate /\ rate + 2 * Delay < left /\ rate \in Nat
      BY <2>1, <2>2 DEF Beating, LeavesRoom
    <3>2. rateLeft[p] \in Nat
      BY <2>1 DEF Beating
    <3>3. CASE Tail(flight[p]) # << >>
      <4>1. Head(Tail(flight[p])) \in Nat
        BY <2>1, <3>3, HeadIsNat
      <4>2. Delay - Head(Tail(flight[p])) < left
        BY <3>1, <4>1, AgeSpares
      <4>. QED BY <2>1, <3>3, <4>2 DEF Outlives
    <3>4. CASE Tail(flight[p]) = << >>
      BY <2>1, <3>1, <3>2, <3>4 DEF Outlives
    <3>. QED BY <3>3, <3>4
  <2>3. /\ readLeft'[e] # Off => readLeft'[e] \in Nat /\ LeavesRoom(readLeft'[e])
        /\ watchLeft'[e] # Off => watchLeft'[e] \in Nat /\ LeavesRoom(watchLeft'[e])
    <3>1. readLeft'[e] = Started(dur[e].read) /\ watchLeft'[e] = Reset(watchLeft[e], dur[e].watch)
      BY DEF NextRead
    <3>2. watchLeft[e] # Off => Watches # {}
      BY DEF InTime
    <3>. QED BY <1>1, <3>1, <3>2 DEF Started, Reset, Stable
  <2>4. /\ readLeft'[e] # Off => Outlives(readLeft[e], p)'
        /\ watchLeft'[e] # Off => Outlives(watchLeft[e], p)'
    BY <2>2, <2>3 DEF Outlives
  <2>5. /\ readLeft[p] # Off => Outlives(readLeft[p], e)
        /\ watchLeft[p] # Off => Outlives(watchLeft[p], e)
        /\ Beating(e)
    BY <1>0, <2>1 DEF Covered
  <2>6. /\ UNCHANGED <<status, rateLeft, setup>>
        /\ readLeft'[p] = readLeft[p] /\ watchLeft'[p] = watchLeft[p]
    BY <2>1
  <2>7. /\ readLeft'[p] # Off => Outlives(readLeft[p], e)'
        /\ watchLeft'[p] # Off => Outlives(watchLeft[p], e)'
        /\ Beating(e)' /\ Beating(p)'
    BY <2>1, <2>5, <2>6 DEF Outlives, Beating
  <2>8. \A f \in End : (f = e /\ Peer(f) = p) \/ (f = p /\ Peer(f) = e)
    BY PeerOfEnd
  <2>9. ASSUME NEW f \in End PROVE queued'[f] = {}
    <3>1. queued[e] = {} /\ queued[f] = {}
      BY <1>0, <2>1, <2>8 DEF Covered
    <3>2. PICK missed \in {{}, {"read"}} : queued' = [queued EXCEPT ![e] = @ \ missed]
      OBVIOUS
    <3>. QED BY <3>1, <3>2
  <2>. QED BY <1>0, <2>4, <2>6, <2>7, <2>8, <2>9 DEF AllUp, Covered
<1>5. ASSUME NEW e \in End, Up(e)
      PROVE  watchLeft[e] # 0 /\ readLeft[e] # 0 /\ ~Gone(Peer(e))
  <2>1. ~Gone(Peer(e)) /\ (Up(Peer(e)) => Beating(Peer(e)))
    BY <1>0, PeerOfEnd DEF AllUp, Covered
  <2>2. /\ watchLeft[e] # Off => Outlives(watchLeft[e], Peer(e))
        /\ readLeft[e] # Off => Outlives(readLeft[e], Peer(e))
    BY <1>0, <1>5 DEF Covered
  <2>3. ~Outlives(0, Peer(e))
    BY <1>1, <1>5, <2>1, OutlivesIsDue
  <2>. QED BY <2>1, <2>2, <2>3
<1>6. CASE Tick
  <2> USE <1>6 DEF Tick
  <2>1. AllUp' /\ status' = status
    BY <1>0 DEF AllUp
  <2> SUFFICES ASSUME NEW e \in End, Up(e)
               PROVE  /\ Beating(e)' /\ queued'[e] = {}
                      /\ readLeft'[e] # Off => Outlives(readLeft[e], Peer(e))'
                      /\ watchLeft'[e] # Off => Outlives(watchLeft[e], Peer(e))'
    BY <2>1 DEF Covered
  <2> DEFINE p == Peer(e)
  <2>2. /\ p \in End /\ Beating(e) /\ (Up(p) => Beating(p)) /\ ~Gone(p)
        /\ readLeft[e] # 0 /\ watchLeft[e] # 0 /\ rateLeft[e] # 0 /\ rateLeft[p] # 0
        /\ flight[p] \in Seq(Nat) /\ flight'[p] = Aged(flight[p])
        /\ rateLeft'[e] = Less(rateLeft[e]) /\ rateLeft'[p] = Less(rateLeft[p])
        /\ readLeft'[e] = Less(readLeft[e]) /\ watchLeft'[e] = Less(watchLeft[e])
    BY <1>0, <1>1 DEF Covered, Due
  <2>3. Beating(e)'
    BY <2>2 DEF Beating, Less
  <2>4. ASSUME NEW left \in Nat, Outlives(left + 1, p) PROVE Outlives(left, p)'
    <3>1. CASE status[p] = "new"
      BY <2>1, <2>2, <2>4, <3>1 DEF Outlives
    <3>2. CASE Up(p) /\ flight[p] # << >>
      <4>1. Head(flight[p]) \in Nat /\ flight'[p] # << >> /\ Head(flight'[p]) = Head(flight[p]) + 1
        BY <2>2, <3>2, AgedSeq
      <4>2. Delay - Head(flight[p]) < left + 1
        BY <2>4, <3>2 DEF Outlives
      <4>3. Delay - Head(flight'[p]) < left /\ status'[p] # "new"
        BY <2>1, <3>2, <4>1, <4>2, OlderSpares
      <4>. QED BY <4>1, <4>3 DEF Outlives
    <3>3. CASE Up(p) /\ flight[p] = << >>
      <4>1. flight'[p] = << >> /\ rateLeft'[p] = rateLeft[p] - 1 /\ rateLeft[p] \in Nat
        BY <2>2, <3>3, AgedSeq DEF Beating, Less
      <4>. QED BY <2>1, <2>4, <3>3, <4>1 DEF Outlives
    <3>. QED BY <2>2, <3>1, <3>2, <3>3
  <2>5. ASSUME NEW left \in Left, left # 0, left # Off => Outlives(left, p), Less(left) # Off
        PROVE  Less(left) \in Nat /\ Outlives(Less(left) + 1, p)
    BY <2>5 DEF Less, Left
  <2>6. readLeft[e] \in Left /\ watchLeft[e] \in Left
    BY DEF Left
  <2>7. /\ readLeft[e] # Off => Outlives(readLeft[e], p)
        /\ watchLeft[e] # Off => Outlives(watchLeft[e], p)
    BY <1>0 DEF Covered
  <2>8. /\ readLeft'[e] # Off => Outlives(readLeft[e], p)'
        /\ watchLeft'[e] # Off => Outlives(watchLeft[e], p)'
    BY <2>2, <2>4, <2>5, <2>6, <2>7 DEF Outlives
  <2>. QED BY <1>1, <2>3, <2>8
<1>7. CASE Cut
  BY <1>7 DEF Cut, Undisturbed
<1>8. ASSUME NEW e \in End, Stop(e) PROVE FALSE
  BY <1>8 DEF Stop, Close, Undisturbed
<1>9. ASSUME NEW e \in End, NEW timer \in {"read", "watch"}, Expires(e, timer)
       PROVE  (AllUp /\ Covered)'
  <2>1. ~Up(e) /\ ~Gone(e) /\ status[e] = "new"
    BY <1>0, <1>5, <1>9 DEF Expires
  <2>. QED BY <1>9, <2>1 DEF Expires, InTime, Fresh
<1>10. CASE UNCHANGED vars \/ \E e \in End, ds \in Durations : SetTimeout(e, ds)
  BY <1>10, <1>0 DEF SetTimeout, vars, timers, AllUp, Covered, Beating, Outlives
<1>. QED
  BY <1>1, <1>2, <1>3, <1>4, <1>5, <1>6, <1>7, <1>8, <1>9, <1>10
  DEF Next, Runs, User, WatchTimeout, ReadTimeout, PeerCloses, Close

\* The strengthened invariant always holds.
LEMMA InvHolds == Spec => [](TypeOK /\ InTime /\ SilenceInv /\ IdleInv)
<1>1. Init => TypeOK /\ InTime /\ SilenceInv /\ IdleInv
  BY TypeInit, InTimeInit, SilenceInit, IdleInit
<1>2. TypeOK /\ InTime /\ SilenceInv /\ IdleInv /\ [Next]_vars
        => (TypeOK /\ InTime /\ SilenceInv /\ IdleInv)'
  BY TypeStep, InTimeStep, SilenceStep, IdleStep
<1>. QED BY <1>1, <1>2, PTL DEF Spec

\* Every variable keeps its type.
THEOREM TypeCorrect == Spec => []TypeOK
BY InvHolds, PTL

\* If both ends send heartbeats and each timeout is longer than the heartbeat
\* rate and twice the delay, an idle connection is never dropped.
THEOREM IdleConnectionLasts == Spec => []IdleStaysUp
<1>1. IdleInv => IdleStaysUp
  BY DEF IdleInv, IdleStaysUp, AllUp
<1>. QED BY <1>1, InvHolds, PTL

\* No end outlasts the silence of its peer by more than its shortest timeout.
THEOREM SilenceIsNoticed == Spec => []SilentPeerDropped
<1>1. TypeOK /\ SilenceInv => SilentPeerDropped
  BY SilenceBounded
<1>. QED BY <1>1, InvHolds, PTL
-----------------------------------------------------------------------------
(* The documentation says that 0 turns a timeout off.  zero_closes shows    *)
(* that it ends the connection; these are the values for which the claim    *)
(* holds.                                                                   *)

\* Only an end that is up has a watch; the silence so far and what is left of it
\* make up one of its durations at least; and a watch whose handler is queued is not
\* taken away.
WatchCounts ==
    \A e \in End :
        /\ watchLeft[e] # Off =>
              Up(e) /\ \E d \in WatchValues : d <= silent[e] + watchLeft[e]
        /\ "watch" \in queued[e] => watchLeft[e] # Off

\* Every step keeps it: a watch is started or renewed with a whole duration.
LEMMA WatchCountsStep == TypeOK /\ InTime /\ WatchCounts /\ [Next]_vars => WatchCounts'
<1> SUFFICES ASSUME TypeOK, InTime, WatchCounts, [Next]_vars PROVE WatchCounts'
  OBVIOUS
<1> USE DEF TypeOK
<1>0. \A e \in End : dur[e].watch \in WatchValues /\ dur[e].watch \in Nat
  BY DEF Durations
<1>1. ASSUME NEW e \in End, Start(e) PROVE WatchCounts'
  <2>1. \/ watchLeft'[e] = Off
        \/ watchLeft'[e] = dur[e].watch
    BY <1>1 DEF Start, Started
  <2>2. watchLeft'[e] # Off => dur[e].watch <= silent'[e] + watchLeft'[e]
    BY <1>0, <1>1, <2>1 DEF Start
  <2>3. queued'[e] = {}
    BY <1>1 DEF Start, InTime, Fresh
  <2>. QED BY <1>0, <1>1, <2>2, <2>3 DEF Start, WatchCounts
<1>2. ASSUME NEW e \in End, Beat(e) PROVE WatchCounts'
  BY <1>2 DEF Beat, WatchCounts
<1>3. ASSUME NEW e \in End, Receive(e) PROVE WatchCounts'
  <2>1. watchLeft'[e] = Reset(watchLeft[e], dur[e].watch) /\ silent'[e] = 0 /\ Up(e)
    BY <1>3 DEF Receive
  <2>2. watchLeft'[e] # Off => dur[e].watch <= silent'[e] + watchLeft'[e]
    BY <1>0, <2>1 DEF Reset
  <2>3. queued'[e] \subseteq queued[e]
    BY <1>3 DEF Receive
  <2>4. "watch" \in queued'[e] => watchLeft'[e] # Off
    BY <1>0, <2>1, <2>3 DEF Reset, WatchCounts
  <2>. QED BY <1>0, <1>3, <2>2, <2>4 DEF Receive, WatchCounts
<1>4. ASSUME NEW e \in End, NEW why \in Status \ {"new", "up"}, Close(e, why) PROVE WatchCounts'
  BY <1>4 DEF Close, WatchCounts
<1>5. ASSUME NEW e \in End, NEW ds \in Durations, SetTimeout(e, ds) PROVE WatchCounts'
  BY <1>5 DEF SetTimeout, WatchCounts, timers
<1>6. CASE Cut
  BY <1>6 DEF Cut, WatchCounts, timers
<1>7. CASE Tick
  <2> SUFFICES ASSUME NEW e \in End
               PROVE  /\ watchLeft'[e] # Off =>
                             Up(e)' /\ \E d \in WatchValues : d <= silent'[e] + watchLeft'[e]
                      /\ "watch" \notin queued'[e]
    BY DEF WatchCounts
  <2>1. silent[e] \in 0..MaxSilence /\ MaxSilence \in Nat /\ status' = status
    BY <1>7 DEF Tick
  <2>2. Up(e) => silent'[e] = IF silent[e] < MaxSilence THEN silent[e] + 1 ELSE silent[e]
    BY <1>7 DEF Tick
  <2>3. queued'[e] = {} /\ watchLeft[e] # 0 /\ watchLeft'[e] = Less(watchLeft[e])
    BY <1>7 DEF Tick, Due
  <2>4. ASSUME watchLeft'[e] # Off
        PROVE  Up(e)' /\ \E d \in WatchValues : d <= silent'[e] + watchLeft'[e]
    <3>1. watchLeft[e] # Off /\ watchLeft[e] \in Nat \ {0} /\ watchLeft'[e] = watchLeft[e] - 1
      BY <2>3, <2>4 DEF Less
    <3>2. Up(e) /\ \E d \in WatchValues : d <= silent[e] + watchLeft[e]
      BY <3>1 DEF WatchCounts
    <3> PICK d \in WatchValues : d <= silent[e] + watchLeft[e]
      BY <3>2
    <3>3. d \in Nat /\ d < MaxSilence
      OBVIOUS
    <3>4. d <= silent'[e] + watchLeft'[e]
      BY <2>1, <2>2, <3>1, <3>2, <3>3
    <3>. QED BY <2>1, <3>2, <3>4
  <2>. QED BY <2>3, <2>4
<1>8. ASSUME NEW e \in End, NEW timer \in {"read", "watch"}, Expires(e, timer) PROVE WatchCounts'
  BY <1>8 DEF Expires, WatchCounts
<1>9. CASE UNCHANGED vars
  BY <1>9 DEF vars, timers, WatchCounts
<1>. QED
  BY <1>1, <1>2, <1>3, <1>4, <1>5, <1>6, <1>7, <1>8, <1>9
  DEF Next, Runs, User, WatchTimeout, ReadTimeout, Stop, PeerCloses

LEMMA WatchCountsHolds == Spec => [](TypeOK /\ WatchCounts)
<1>1. Init => WatchCounts
  BY PeerOfEnd DEF Init, WatchCounts
<1>. QED BY <1>1, WatchCountsStep, InvHolds, PTL DEF Spec

\* The watch of an end expires only when the silence has lasted as long as
\* SERVER_HEARTBEAT_TIMEOUT_MS may be, however often headers have renewed it and
\* setTimeout has changed its duration.
ExpiresAfterSilence ==
    [][\A e \in End : Expires(e, "watch") => \E d \in WatchValues : d <= silent[e]]_vars
THEOREM NoEarlyExpiry == Spec => ExpiresAfterSilence
<1>1. TypeOK /\ WatchCounts /\ [Next]_vars
        => [\A e \in End : Expires(e, "watch") => \E d \in WatchValues : d <= silent[e]]_vars
  <2> SUFFICES ASSUME TypeOK, WatchCounts, NEW e \in End, Expires(e, "watch")
               PROVE  \E d \in WatchValues : d <= silent[e]
    OBVIOUS
  <2>1. watchLeft[e] = 0 /\ silent[e] \in Nat
    BY DEF TypeOK, Expires
  <2>2. PICK d \in WatchValues : d <= silent[e] + watchLeft[e]
    BY <2>1 DEF WatchCounts
  <2>. QED BY <2>1, <2>2
<1>. QED BY <1>1, WatchCountsHolds, PTL DEF Spec, ExpiresAfterSilence

\* If SERVER_HEARTBEAT_TIMEOUT_MS is never 0, an end that has just been heard from
\* is dropped as silent only by a handler that was queued before the header came and
\* renewed the watch; a watch that is renewed never expires at once.
THEOREM OnlyZeroDropsAtOnce ==
  ASSUME 0 \notin WatchValues
  PROVE  Spec => ZeroTurnsOff
<1>1. TypeOK /\ WatchCounts /\ [Next]_vars
        => [\A e \in End : WatchTimeout(e) => silent[e] > 0 \/ Renewed(e)]_vars
  <2> SUFFICES ASSUME TypeOK, WatchCounts, NEW e \in End, WatchTimeout(e), ~Renewed(e)
               PROVE  silent[e] > 0
    OBVIOUS
  <2>1. Up(e) /\ "watch" \in queued[e]
    BY DEF WatchTimeout, Close
  <2>2. watchLeft[e] = 0 /\ silent[e] \in Nat
    BY <2>1 DEF WatchCounts, TypeOK, Renewed
  <2>3. PICK d \in WatchValues : d <= silent[e] + watchLeft[e]
    BY <2>2 DEF WatchCounts
  <2>4. d \in Nat /\ d # 0
    OBVIOUS
  <2>. QED BY <2>2, <2>3, <2>4
<1>. QED BY <1>1, WatchCountsHolds, PTL DEF Spec, ZeroTurnsOff
==============================================================================
