------------------------------ MODULE Heartbeat ------------------------------
(***************************************************************************)
(* The two ends of an idle connection in time: the heartbeats of           *)
(* include/connection.h, the timers behind them and the global durations   *)
(* of include/protocol.h, which setTimeout changes while timers run.       *)
(*                                                                         *)
(* Time is counted in ticks.  A tick does not pass over work that is due:  *)
(* handlers run in the tick in which they are queued, and a frame takes at *)
(* most Delay ticks from send() to the header handler of the peer.  What   *)
(* is due in the same tick happens in any order.  The two ends belong to   *)
(* different programs, so each has durations of its own.  No user sends    *)
(* anything: every frame is a heartbeat without a body.                    *)
(***************************************************************************)
EXTENDS Integers, Sequences

CONSTANTS
    Sends,         \* the ends with sendHeartBeat
    Watches,       \* the ends with keepAliveByHeartBeat
    ReadValues,    \* what READ_TIMEOUT_MS may be
    WatchValues,   \* what SERVER_HEARTBEAT_TIMEOUT_MS may be
    RateValues,    \* what HEARTBEAT_RATE may be
    Delay,         \* the longest way of a frame, or of the accept after the connect
    MaxFlight,     \* bound: frames on their way in one direction
    MaxSilence     \* bound: ticks counted since the last header

End == {"client", "server"}
Peer(e) == IF e = "client" THEN "server" ELSE "client"
Durations == [read: ReadValues, watch: WatchValues, rate: RateValues]

ASSUME HeartbeatAssumption ==
    /\ Sends \subseteq End /\ Watches \subseteq End
    /\ ReadValues \subseteq Nat /\ WatchValues \subseteq Nat /\ RateValues \subseteq Nat
    /\ Delay \in Nat
    /\ MaxFlight \in Nat
    /\ MaxSilence \in Nat
    /\ \A d \in ReadValues \cup WatchValues : d < MaxSilence

VARIABLES
    status,    \* what has become of each end
    dur,       \* the global durations of its program
    readLeft,  \* ticks until the timer of the header read expires
    watchLeft, \* until heartBeatTimeoutTimerID_ expires
    rateLeft,  \* until heartBeatSendTimerID_ expires
    queued,    \* the timers with an expired wait whose handler has not run
    flight,    \* ages of the frames the end has sent and the peer has not read
    cut,       \* frames no longer get through, and neither end is told
    setup,     \* ticks until both ends have started
    silent     \* ticks since the last header, or since start()

timers == <<readLeft, watchLeft, rateLeft, queued>>
vars == <<status, dur, timers, flight, cut, setup, silent>>

\* Connected but start() has not run; up; or closed by the owner, the heartbeat
\* watch, the read timer, the end of the stream.
Status == {"new", "up", "owner", "watch", "read", "eof"}
Up(e) == status[e] = "up"
Gone(e) == status[e] \notin {"new", "up"}

\* A timer that is not in timerMap_.
Off == -1

\* startAndGetTimer starts no timer for a duration of zero, resetTimer does not
\* ask.
Started(d) == IF d = 0 THEN Off ELSE d
Reset(left, d) == IF left = Off THEN Off ELSE d

Init ==
    /\ status = [e \in End |-> "new"]
    /\ dur \in [End -> Durations]
    /\ readLeft = [e \in End |-> Off]
    /\ watchLeft = [e \in End |-> Off]
    /\ rateLeft = [e \in End |-> Off]
    /\ queued = [e \in End |-> {}]
    /\ flight = [e \in End |-> << >>]
    /\ cut = FALSE
    /\ setup = 0
    /\ silent = [e \in End |-> 0]

-----------------------------------------------------------------------------
\* start(): the watch, the heartbeat loop, the first header read.
Start(e) ==
    /\ status[e] = "new"
    /\ status' = [status EXCEPT ![e] = "up"]
    /\ watchLeft' = [watchLeft EXCEPT ![e] = IF e \in Watches THEN Started(dur[e].watch) ELSE Off]
    /\ rateLeft' = [rateLeft EXCEPT ![e] = IF e \in Sends THEN Started(dur[e].rate) ELSE Off]
    /\ readLeft' = [readLeft EXCEPT ![e] = Started(dur[e].read)]
    /\ UNCHANGED <<queued, dur, flight, cut, setup, silent>>

\* A wait expires (external): its handler is queued, and neither cancelTimer nor
\* resetTimer takes it back.  The wait of the heartbeat loop needs no such step,
\* since only its own handler, Beat, renews it.
Expires(e, timer) ==
    /\ (IF timer = "read" THEN readLeft ELSE watchLeft)[e] = 0
    /\ queued' = [queued EXCEPT ![e] = @ \cup {timer}]
    /\ UNCHANGED <<status, dur, readLeft, watchLeft, rateLeft, flight, cut, setup, silent>>

\* doHeartBeatLoop: a heartbeat goes out and the timer is re-armed.  The faulty
\* OneBeat does not re-arm it.
OneBeat(left, d) == Off
NextBeat(left, d) == Reset(left, d)
Beat(e) ==
    /\ Up(e) /\ rateLeft[e] = 0
    /\ Len(flight[e]) < MaxFlight
    /\ flight' = [flight EXCEPT ![e] = IF cut \/ Gone(Peer(e)) THEN @
                                         ELSE Append(@, 0)]
    /\ rateLeft' = [rateLeft EXCEPT ![e] = NextBeat(@, dur[e].rate)]
    /\ UNCHANGED <<status, dur, readLeft, watchLeft, queued, cut, setup, silent>>

\* The handlers of the header and of the empty body: the watch is renewed and
\* doRead starts the next read timer.  The faulty Untimed starts none.  A queued
\* handler of the watch stays queued, and so does one of the read timer, unless it
\* runs when no read is pending: between the two handlers, or before the first.
Untimed(d) == Off
NextRead(d) == Started(d)
Receive(e) ==
    /\ Up(e) /\ flight[Peer(e)] # << >>
    /\ flight' = [flight EXCEPT ![Peer(e)] = Tail(@)]
    /\ watchLeft' = [watchLeft EXCEPT ![e] = Reset(@, dur[e].watch)]
    /\ readLeft' = [readLeft EXCEPT ![e] = NextRead(dur[e].read)]
    /\ \E missed \in {{}, {"read"}} : queued' = [queued EXCEPT ![e] = @ \ missed]
    /\ silent' = [silent EXCEPT ![e] = 0]
    /\ UNCHANGED <<status, dur, rateLeft, cut, setup>>

\* close(), for the reason given: no timer survives it, a handler that is still
\* queued finds closed_ set, and nobody reads what the peer has sent.
Close(e, why) ==
    /\ Up(e)
    /\ status' = [status EXCEPT ![e] = why]
    /\ readLeft' = [readLeft EXCEPT ![e] = Off]
    /\ watchLeft' = [watchLeft EXCEPT ![e] = Off]
    /\ rateLeft' = [rateLeft EXCEPT ![e] = Off]
    /\ queued' = [queued EXCEPT ![e] = {}]
    /\ flight' = [flight EXCEPT ![Peer(e)] = << >>]
    /\ UNCHANGED <<dur, cut, setup, silent>>

\* The queued handlers close the connection, by close() and by the cancel of the
\* pending read, also when a header has come since their timer expired.
WatchTimeout(e) == "watch" \in queued[e] /\ Close(e, "watch")
ReadTimeout(e) == "read" \in queued[e] /\ Close(e, "read")
Stop(e) == Close(e, "owner")

\* The peer has closed its socket.
PeerCloses(e) == Gone(Peer(e)) /\ ~cut /\ Close(e, "eof")

\* setTimeout, of a server or of the program: the timers that run go on as they
\* were started.
SetTimeout(e, durations) ==
    /\ dur' = [dur EXCEPT ![e] = durations]
    /\ UNCHANGED <<status, timers, flight, cut, setup, silent>>

\* The network fails and no end hears of it (external).
Cut ==
    /\ ~cut
    /\ cut' = TRUE
    /\ flight' = [e \in End |-> << >>]
    /\ UNCHANGED <<status, dur, timers, setup, silent>>

\* A tick passes (external) when nothing is due.
Due(e) ==
    \/ readLeft[e] = 0 \/ watchLeft[e] = 0 \/ rateLeft[e] = 0 \/ queued[e] # {}
    \/ Up(Peer(e)) /\ flight[e] # << >> /\ Head(flight[e]) >= Delay
    \/ status[e] = "new" /\ setup >= Delay
Less(left) == IF left = Off THEN Off ELSE left - 1
Aged(ages) == [i \in 1..Len(ages) |-> ages[i] + 1]
Tick ==
    /\ \A e \in End : ~Due(e)
    /\ readLeft' = [e \in End |-> Less(readLeft[e])]
    /\ watchLeft' = [e \in End |-> Less(watchLeft[e])]
    /\ rateLeft' = [e \in End |-> Less(rateLeft[e])]
    /\ flight' = [e \in End |-> Aged(flight[e])]
    /\ setup' = IF \E e \in End : status[e] = "new" THEN setup + 1 ELSE setup
    /\ silent' = [e \in End |-> IF Up(e) /\ silent[e] < MaxSilence THEN silent[e] + 1
                                ELSE silent[e]]
    /\ UNCHANGED <<status, dur, queued, cut>>

-----------------------------------------------------------------------------
Runs(e) == Start(e) \/ Beat(e) \/ Receive(e) \/ WatchTimeout(e) \/ ReadTimeout(e)
User(e) == Stop(e) \/ \E durations \in Durations : SetTimeout(e, durations)

Next ==
    \/ \E e \in End : Runs(e) \/ PeerCloses(e) \/ User(e)
    \/ \E e \in End, timer \in {"read", "watch"} : Expires(e, timer)
    \/ Cut
    \/ Tick

Spec == Init /\ [][Next]_vars

-----------------------------------------------------------------------------
(* Properties.                                                             *)

\* Every variable has its type.
TypeOK ==
    /\ status \in [End -> Status]
    /\ dur \in [End -> Durations]
    /\ readLeft \in [End -> Nat \cup {Off}]
    /\ watchLeft \in [End -> Nat \cup {Off}]
    /\ rateLeft \in [End -> Nat \cup {Off}]
    /\ queued \in [End -> SUBSET {"read", "watch"}]
    /\ flight \in [End -> Seq(Nat)]
    /\ cut \in BOOLEAN
    /\ setup \in Nat
    /\ silent \in [End -> 0..MaxSilence]

\* Both ends send heartbeats, and every duration they may have leaves room for
\* the way of a heartbeat and for an accept that comes late.
LeavesRoom(d) == \A rate \in RateValues : rate + 2 * Delay < d
Stable ==
    /\ Sends = End /\ 0 \notin RateValues
    /\ \A d \in ReadValues : d = 0 \/ LeavesRoom(d)
    /\ Watches # {} => \A d \in WatchValues : LeavesRoom(d)

Undisturbed == ~cut /\ \A e \in End : status[e] # "owner"

\* An idle connection stays up as long as nobody closes it and the network
\* holds, if both ends send heartbeats and the timeouts leave room for them,
\* also while setTimeout changes the durations.
IdleStaysUp == Stable /\ Undisturbed => \A e \in End : status[e] \in {"new", "up"}

\* An end whose peer is dead, unreachable or sends nothing does not stay up: a
\* timeout that is never off ends the connection before the silence has lasted
\* longer than the timeout may be.
Within(n, values) == 0 \notin values => \E d \in values : n <= d
SilentPeerDropped ==
    \A e \in End : Up(e) =>
        /\ Within(silent[e], ReadValues)
        /\ e \in Watches => Within(silent[e], WatchValues)

\* "Stay connected a little: with heartbeats on, an idle connection is kept
\* alive instead of being dropped" (src/examples/main.cpp:82).
IdleKeptAlive == Undisturbed => \A e \in End : status[e] \in {"new", "up"}

\* "0 turns that timeout off." (docs/html/namespaceacsf.html:397): an end that
\* has just been heard from is not dropped as silent.  What may still drop it is a
\* handler that was queued before the header came and renewed the watch.
Renewed(e) == watchLeft[e] > 0
ZeroTurnsOff == [][\A e \in End : WatchTimeout(e) => silent[e] > 0 \/ Renewed(e)]_vars
=============================================================================
