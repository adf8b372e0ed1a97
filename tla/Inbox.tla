------------------------------- MODULE Inbox -------------------------------
(***************************************************************************)
(* The way of a message from the peer's send() to receive(): the peer's    *)
(* frames are a stream of bytes, which the read loop of connection.h cuts  *)
(* into headers and bodies again before it pushes the messages to the      *)
(* MessageQueue.  The stream may end anywhere, and after its last frame    *)
(* the peer may send a header that makes no sense.  Connection models the  *)
(* same loop with its timers and without the bytes.                        *)
(***************************************************************************)
EXTENDS MessageQueue, Protocol

CONSTANTS
    Own, Peer,  \* the endianness of the two machines
    MaxFrames,  \* bound: frames the peer sends
    Garbage     \* the headers it may send after them

ASSUME InboxAssumption ==
    /\ Own \in Endian /\ Peer \in Endian
    /\ MaxFrames \in Nat /\ MaxFrames <= MaxMessages
    /\ Garbage \subseteq Header
    /\ \A length \in 0..MaxMessageSize, isHeartBeat \in BOOLEAN :
           Accepts(length, isHeartBeat) => HeaderOf(Peer, length, isHeartBeat) \notin Garbage

VARIABLES
    sent,     \* the messages the peer has sent: body and isHeartBeat
    stream,   \* the bytes of their frames
    garbled,  \* the peer has sent garbage after them
    pos,      \* bytes that have been read
    reading,  \* what the read loop waits for, or why it has ended
    parsed,   \* what parseHeader made of the last header
    pushed,   \* the bodies of the messages, in the order of their push()
    open      \* the socket is open

streamVars == <<sent, stream, garbled, pos, reading, parsed, pushed, open>>
inboxVars == <<vars, streamVars>>

Stages == {"header", "body", "refused", "ended"}

InboxInit ==
    /\ Init
    /\ sent = << >> /\ stream = << >> /\ garbled = FALSE
    /\ pos = 0 /\ reading = "header"
    /\ parsed = [length |-> 0, isHeartBeat |-> FALSE]
    /\ pushed = << >> /\ open = TRUE

-----------------------------------------------------------------------------
(* The peer.                                                               *)

\* The bytes of a body tell which frame it is of.
Body(n, length) == [i \in 1..length |-> n % Base]

\* send(), or the heartbeat loop: getMessageFrame on the peer's machine.  A
\* heartbeat of this code has no body; the frame allows for one.
PeerSends(length, isHeartBeat) ==
    /\ ~garbled /\ Len(sent) < MaxFrames
    /\ Accepts(length, isHeartBeat)
    /\ LET body == Body(Len(sent) + 1, length)
       IN  /\ sent' = Append(sent, [body |-> body, isHeartBeat |-> isHeartBeat])
           /\ stream' = stream \o HeaderOf(Peer, length, isHeartBeat) \o body
    /\ UNCHANGED <<garbled, pos, reading, parsed, pushed, open, vars>>

PeerGarbles(header) ==
    /\ ~garbled
    /\ garbled' = TRUE
    /\ stream' = stream \o header
    /\ UNCHANGED <<sent, pos, reading, parsed, pushed, open, vars>>

-----------------------------------------------------------------------------
(* The read loop, on the I/O thread.                                       *)

\* async_read of n bytes has them (external).
Available(n) == Len(stream) - pos >= n
Bytes(n) == SubSeq(stream, pos + 1, pos + n)

\* The loop goes on with the next async_read.  On a socket that has been closed
\* since the last one was satisfied it fails at once, and the loop ends.
GoOn(stage) == IF open THEN stage ELSE "ended"

\* The handler of the header.
ReadHeader ==
    /\ io = "idle" /\ reading = "header" /\ Available(4)
    /\ pos' = pos + 4
    /\ parsed' = ParseHeader(Own, Bytes(4))
    /\ reading' = IF Rejected(parsed') THEN "refused" ELSE GoOn("body")
    /\ UNCHANGED <<sent, stream, garbled, pushed, open, vars>>

\* A heartbeat is not pushed.  The faulty DeliversAll pushes every body.
DeliversAll == TRUE
Delivers == ~parsed.isHeartBeat

\* The handler of the body.
ReadBody(stored) ==
    /\ io = "idle" /\ reading = "body" /\ Available(parsed.length)
    /\ pos' = pos + parsed.length
    /\ reading' = GoOn("header")
    /\ IF Delivers
       THEN pushed' = Append(pushed, Bytes(parsed.length)) /\ Push(stored)
       ELSE UNCHANGED <<pushed, vars>>
    /\ UNCHANGED <<sent, stream, garbled, parsed, open>>

\* A read fails: the stream has ended, or a timeout has cancelled it.
ReadEnds ==
    /\ io = "idle" /\ reading \in {"header", "body"}
    /\ reading' = "ended"
    /\ UNCHANGED <<sent, stream, garbled, pos, parsed, pushed, open, vars>>

\* close(), for whatever reason: it closes the socket and runs the disconnect
\* callback, once.
ConnectionCloses ==
    /\ open /\ open' = FALSE
    /\ CloseByCallback
    /\ UNCHANGED <<sent, stream, garbled, pos, reading, parsed, pushed>>

-----------------------------------------------------------------------------
PeerStep ==
    \/ \E length \in 0..MaxMessageSize, isHeartBeat \in BOOLEAN :
           PeerSends(length, isHeartBeat)
    \/ \E header \in Garbage : PeerGarbles(header)
ReadLoop == ReadHeader \/ (\E stored \in BOOLEAN : ReadBody(stored)) \/ ReadEnds
QueueStep == (Notifies \/ \E u \in Users : User(u)) /\ UNCHANGED streamVars

InboxNext == PeerStep \/ ReadLoop \/ ConnectionCloses \/ QueueStep

InboxSpec == InboxInit /\ [][InboxNext]_inboxVars
InboxFairSpec == InboxSpec /\ Fairness

-----------------------------------------------------------------------------
(* Properties.                                                             *)

\* How many of the first k frames are messages.
MessagesTo(k) == Cardinality({j \in 1..k : ~sent[j].isHeartBeat})

\* The messages that are pushed are those the peer has sent, in order and byte
\* by byte, without its heartbeats: no frame boundary is lost, whatever the
\* lengths, the flags and the two endiannesses.
MessagesAsSent ==
    /\ Len(pushed) <= MessagesTo(Len(sent))
    /\ \A k \in DOMAIN sent :
           ~sent[k].isHeartBeat /\ MessagesTo(k) <= Len(pushed)
               => pushed[MessagesTo(k)] = sent[k].body

\* The only header that is refused is one that no getMessageFrame has built, and
\* then every message the peer had sent before it has been pushed.
OnlyGarbageRefused ==
    reading = "refused" => garbled /\ Len(pushed) = MessagesTo(Len(sent))

\* Every message that receive() returns is one the peer has sent, byte by byte,
\* and receive() returns them in the order they were sent, none twice, whichever
\* threads call it; a push() that fails or is refused may leave one out.
ReceivedAsSent ==
    /\ \A i \in DOMAIN taken : \E k \in DOMAIN sent :
           /\ ~sent[k].isHeartBeat /\ MessagesTo(k) = taken[i]
           /\ pushed[taken[i]] = sent[k].body
    /\ \A i, j \in DOMAIN taken : i < j => taken[i] < taken[j]
=============================================================================
