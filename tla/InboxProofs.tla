---------------------------- MODULE InboxProofs ----------------------------
(***************************************************************************)
(* Theorems about Inbox, for any base, any maximal length, any two         *)
(* endiannesses and any number of frames and threads.                      *)
(***************************************************************************)
EXTENDS Inbox, ProtocolProofs, MessageQueueProofs, SequenceTheorems

Message == [body : Seq(Byte), isHeartBeat : BOOLEAN]

\* The types of the variables of the stream.
Typed ==
    /\ sent \in Seq(Message)
    /\ stream \in Seq(Byte)
    /\ garbled \in BOOLEAN /\ open \in BOOLEAN
    /\ pos \in Nat
    /\ reading \in Stages
    /\ parsed \in [length : Nat, isHeartBeat : BOOLEAN]
    /\ pushed \in Seq(Seq(Byte))

\* The bytes of a header stand in the stream after the first p.
HeaderAt(p, h) == \A i \in 1..4 : stream[p + i] = h[i]

\* The k-th frame begins after the first p bytes and ends with the first q.
FrameAt(k, p, q) ==
    LET m == sent[k]
    IN  /\ Accepts(Len(m.body), m.isHeartBeat)
        /\ q = p + 4 + Len(m.body)
        /\ HeaderAt(p, HeaderOf(Peer, Len(m.body), m.isHeartBeat))
        /\ \A i \in 1..Len(m.body) : stream[p + 4 + i] = m.body[i]

\* The stream is the frames of the messages, and the garbage if there is any;
\* at[k] bytes come before the k-th frame.
Framed(at) ==
    /\ at \in [1..(Len(sent) + 1) -> Nat]
    /\ at[1] = 0
    /\ \A k \in 1..Len(sent) : FrameAt(k, at[k], at[k + 1]) /\ at[k + 1] <= Len(stream)
    /\ Len(stream) = at[Len(sent) + 1] + (IF garbled THEN 4 ELSE 0)
    /\ garbled => \E g \in Garbage : HeaderAt(at[Len(sent) + 1], g)

\* The read loop is done with d frames and stands at the next one.
ReadTo(d, at) ==
    /\ d \in 0..Len(sent)
    /\ Len(pushed) = MessagesTo(d)
    /\ \A k \in 1..d : ~sent[k].isHeartBeat => pushed[MessagesTo(k)] = sent[k].body
    /\ reading = "header" => pos = at[d + 1]
    /\ reading = "body" =>
           /\ d < Len(sent)
           /\ pos = at[d + 1] + 4
           /\ parsed = [length |-> Len(sent[d + 1].body),
                        isHeartBeat |-> sent[d + 1].isHeartBeat]
    /\ reading = "refused" => garbled /\ d = Len(sent)

FramesFollow == \E at : Framed(at) /\ \E d : ReadTo(d, at)

-----------------------------------------------------------------------------
(* The queue.                                                              *)

\* A step of the whole is a step of the queue or leaves it alone.
LEMMA QueueSteps == [InboxNext]_inboxVars => [Next]_vars
<1> SUFFICES ASSUME [InboxNext]_inboxVars PROVE [Next]_vars
  OBVIOUS
<1>1. CASE PeerStep
  BY <1>1 DEF PeerStep, PeerSends, PeerGarbles
<1>2. CASE ReadLoop
  BY <1>2 DEF ReadLoop, ReadHeader, ReadBody, ReadEnds, Next, IOThread
<1>3. CASE ConnectionCloses
  BY <1>3 DEF ConnectionCloses, Next, IOThread
<1>4. CASE QueueStep
  BY <1>4 DEF QueueStep, Next, IOThread
<1>5. CASE UNCHANGED inboxVars
  BY <1>5 DEF inboxVars
<1> QED BY <1>1, <1>2, <1>3, <1>4, <1>5 DEF InboxNext

\* What holds of the queue alone holds of the queue behind the read loop: the
\* loop uses it by calls of push() and close() only.
THEOREM QueueInside == InboxSpec => Spec
<1>1. InboxInit => Init
  BY DEF InboxInit
<1> QED BY <1>1, QueueSteps, PTL DEF InboxSpec, Spec

\* While a thread waits in receive(), every message in the queue and every close
\* has a thread or a notification on its way, whatever the peer sends.
THEOREM NoWakeupLostInside == InboxSpec => []NoLostWakeup
BY QueueInside, NoWakeupLost, PTL

-----------------------------------------------------------------------------
(* Counting messages.                                                      *)

LEMMA MessagesCounted ==
    ASSUME Typed, NEW k \in 0..Len(sent)
    PROVE  /\ IsFiniteSet({j \in 1..k : ~sent[j].isHeartBeat})
           /\ MessagesTo(k) \in Nat
<1>1. IsFiniteSet(1..k)
  BY FS_Interval DEF Typed
<1>2. {j \in 1..k : ~sent[j].isHeartBeat} \subseteq 1..k
  OBVIOUS
<1>3. IsFiniteSet({j \in 1..k : ~sent[j].isHeartBeat})
  BY <1>1, <1>2, FS_Subset
<1> QED BY <1>3, FS_CardinalityType DEF MessagesTo

LEMMA NextMessage ==
    ASSUME Typed, NEW k \in 0..Len(sent), k < Len(sent)
    PROVE  MessagesTo(k + 1) = MessagesTo(k) + (IF sent[k + 1].isHeartBeat THEN 0 ELSE 1)
<1> DEFINE M(n) == {j \in 1..n : ~sent[j].isHeartBeat}
<1>1. IsFiniteSet(M(k)) /\ MessagesTo(k) \in Nat
  BY MessagesCounted
<1>2. CASE sent[k + 1].isHeartBeat
  <2>1. M(k + 1) = M(k)
    BY <1>2 DEF Typed
  <2>2. MessagesTo(k + 1) = MessagesTo(k)
    BY <2>1 DEF MessagesTo
  <2> QED BY <2>2, <1>1, <1>2
<1>3. CASE ~sent[k + 1].isHeartBeat
  <2>1. M(k + 1) = M(k) \cup {k + 1} /\ k + 1 \notin M(k)
    BY <1>3 DEF Typed
  <2>2. Cardinality(M(k + 1)) = Cardinality(M(k)) + 1
    <3> HIDE DEF M
    <3> QED BY <2>1, <1>1, FS_AddElement
  <2>3. MessagesTo(k + 1) = MessagesTo(k) + 1
    BY <2>2 DEF MessagesTo
  <2> QED BY <2>3, <1>3
<1> QED BY <1>2, <1>3

\* A later message counts one more.
LEMMA LaterMessage ==
    ASSUME Typed, NEW d \in 0..Len(sent), NEW k \in 0..Len(sent), d <= k
    PROVE  /\ MessagesTo(d) <= MessagesTo(k)
           /\ d < k /\ ~sent[k].isHeartBeat => MessagesTo(d) < MessagesTo(k)
<1> DEFINE M(n) == {j \in 1..n : ~sent[j].isHeartBeat}
<1>1. IsFiniteSet(M(k)) /\ IsFiniteSet(M(d)) /\ MessagesTo(k) \in Nat /\ MessagesTo(d) \in Nat
  BY MessagesCounted
<1>2. M(d) \subseteq M(k)
  BY DEF Typed
<1>3. Cardinality(M(d)) <= Cardinality(M(k))
  BY <1>1, <1>2, FS_Subset
<1>4. ASSUME d < k, ~sent[k].isHeartBeat PROVE Cardinality(M(d)) < Cardinality(M(k))
  <2>1. k \in M(k) /\ k \notin M(d)
    BY <1>4 DEF Typed
  <2>2. Cardinality(M(d)) # Cardinality(M(k))
    <3> HIDE DEF M
    <3> QED BY <1>1, <1>2, <2>1, FS_Subset
  <2>3. Cardinality(M(d)) \in Nat /\ Cardinality(M(k)) \in Nat
    BY <1>1 DEF MessagesTo
  <2> HIDE DEF M
  <2> QED BY <1>3, <2>2, <2>3
<1> QED BY <1>3, <1>4 DEF MessagesTo

-----------------------------------------------------------------------------
(* The types.                                                              *)

LEMMA TypedInit == InboxInit => Typed
<1> SUFFICES ASSUME InboxInit PROVE Typed
  OBVIOUS
<1>1. sent \in Seq(Message) /\ stream \in Seq(Byte) /\ pushed \in Seq(Seq(Byte))
  BY DEF InboxInit
<1>2. parsed \in [length : Nat, isHeartBeat : BOOLEAN]
  BY DEF InboxInit
<1> QED BY <1>1, <1>2 DEF InboxInit, Typed, Stages

LEMMA BodyType ==
    ASSUME NEW n \in Nat, NEW length \in Nat
    PROVE  Body(n, length) \in Seq(Byte) /\ Len(Body(n, length)) = length
<1>1. n % Base \in Byte
  BY BaseType, DivMod DEF Byte
<1>2. Body(n, length) \in [1..length -> Byte]
  BY <1>1 DEF Body
<1> QED BY <1>2

LEMMA FunctionIsSeq ==
    ASSUME NEW S, NEW n \in Nat, NEW f \in [1..n -> S]
    PROVE  f \in Seq(S) /\ Len(f) = n
OBVIOUS

LEMMA HeaderIsSeq == ASSUME NEW h \in Header PROVE h \in Seq(Byte) /\ Len(h) = 4
<1>1. h \in [1..4 -> Byte]
  BY DEF Header
<1> QED BY <1>1, FunctionIsSeq

\* What the peer writes is a header.
LEMMA HeaderOfType ==
    ASSUME NEW length \in Nat, NEW isHeartBeat \in BOOLEAN, Accepts(length, isHeartBeat)
    PROVE  HeaderOf(Peer, length, isHeartBeat) \in Header
BY InboxAssumption, RoundTrip DEF InboxAssumption

\* What parseHeader makes of any four bytes has a type.
LEMMA ParsedType ==
    ASSUME NEW h \in Header
    PROVE  ParseHeader(Own, h) \in [length : Nat, isHeartBeat : BOOLEAN]
<1>1. NetworkLong(Own, FromMemory(Own, h)) \in 0..(Modulus - 1)
  BY NetworkOrder, DigitsOfValue, BaseType, InboxAssumption DEF InboxAssumption
<1>2. ASSUME NEW w \in 0..(Modulus - 1) PROVE LengthOf(w) \in Nat /\ (w >= Flag) \in BOOLEAN
  <2>1. w * 2 \in Nat /\ Modulus \in Nat /\ Modulus > 0
    BY BaseType
  <2>2. (w * 2) % Modulus \in Nat
    BY <2>1, DivMod
  <2> QED BY <2>2, DivMod DEF LengthOf
<1> QED BY <1>1, <1>2 DEF ParseHeader

\* async_read returns the bytes it was asked for.
LEMMA BytesType ==
    ASSUME Typed, NEW n \in Nat, Available(n)
    PROVE  /\ Bytes(n) \in Seq(Byte) /\ Len(Bytes(n)) = n
           /\ \A i \in 1..n : Bytes(n)[i] = stream[pos + i]
<1>1. pos \in Nat /\ stream \in Seq(Byte) /\ pos + n <= Len(stream)
  BY DEF Typed, Available
<1>2. \A i \in (pos + 1)..(pos + n) : stream[i] \in Byte
  BY <1>1
<1>3. Bytes(n) \in Seq(Byte) /\ Len(Bytes(n)) = n
  BY <1>1, <1>2, SubSeqProperties DEF Bytes
<1>4. \A i \in 1..n : Bytes(n)[i] = stream[pos + i]
  BY <1>1, <1>2, SubSeqProperties DEF Bytes
<1> QED BY <1>3, <1>4

LEMMA TypedStep == Typed /\ [InboxNext]_inboxVars => Typed'
<1> SUFFICES ASSUME Typed, [InboxNext]_inboxVars PROVE Typed'
  OBVIOUS
<1>1. ASSUME NEW length \in 0..MaxMessageSize, NEW isHeartBeat \in BOOLEAN,
             PeerSends(length, isHeartBeat)
      PROVE  Typed'
  <2> DEFINE body == Body(Len(sent) + 1, length)
             header == HeaderOf(Peer, length, isHeartBeat)
             m == [body |-> body, isHeartBeat |-> isHeartBeat]
  <2>1. length \in Nat
    OBVIOUS
  <2>2. body \in Seq(Byte) /\ m \in Message
    BY <2>1, BodyType DEF Typed, Message
  <2>3. header \in Seq(Byte)
    BY <1>1, <2>1, HeaderOfType, HeaderIsSeq DEF PeerSends
  <2>4. sent' = Append(sent, m) /\ stream' = stream \o header \o body
        /\ UNCHANGED <<garbled, pos, reading, parsed, pushed, open>>
    BY <1>1 DEF PeerSends
  <2> HIDE DEF body, header, m
  <2> QED BY <2>2, <2>3, <2>4 DEF Typed
<1>2. ASSUME NEW header \in Garbage, PeerGarbles(header) PROVE Typed'
  <2>1. header \in Seq(Byte)
    BY InboxAssumption, HeaderIsSeq DEF InboxAssumption
  <2> QED BY <1>2, <2>1 DEF PeerGarbles, Typed
<1>3. CASE ReadHeader
  <2>1. Bytes(4) \in Seq(Byte) /\ Len(Bytes(4)) = 4
    BY <1>3, BytesType DEF ReadHeader
  <2>2. Bytes(4) \in Header
    BY <2>1, LenProperties DEF Header
  <2>3. parsed' \in [length : Nat, isHeartBeat : BOOLEAN]
    BY <1>3, <2>2, ParsedType DEF ReadHeader
  <2> QED BY <1>3, <2>3 DEF ReadHeader, GoOn, Typed, Stages
<1>4. ASSUME NEW stored \in BOOLEAN, ReadBody(stored) PROVE Typed'
  <2>1. parsed.length \in Nat
    BY DEF Typed
  <2>2. Bytes(parsed.length) \in Seq(Byte)
    BY <1>4, <2>1, BytesType DEF ReadBody
  <2>3. pushed' = pushed \/ pushed' = Append(pushed, Bytes(parsed.length))
    BY <1>4 DEF ReadBody
  <2>4. pushed' \in Seq(Seq(Byte))
    <3>1. pushed \in Seq(Seq(Byte))
      BY DEF Typed
    <3>2. Append(pushed, Bytes(parsed.length)) \in Seq(Seq(Byte))
      BY <2>2, <3>1, AppendProperties
    <3> QED BY <2>3, <3>1, <3>2
  <2> QED BY <1>4, <2>1, <2>4 DEF ReadBody, GoOn, Typed, Stages
<1>5. CASE ReadEnds
  BY <1>5 DEF ReadEnds, Typed, Stages
<1>6. CASE ConnectionCloses
  BY <1>6 DEF ConnectionCloses, Typed
<1>7. CASE UNCHANGED streamVars
  BY <1>7 DEF streamVars, Typed
<1> QED BY <1>1, <1>2, <1>3, <1>4, <1>5, <1>6, <1>7
        DEF InboxNext, PeerStep, ReadLoop, QueueStep, inboxVars

-----------------------------------------------------------------------------
(* The frames in the stream.                                               *)

LEMMA FollowInit == InboxInit => FramesFollow
<1> SUFFICES ASSUME InboxInit PROVE FramesFollow
  OBVIOUS
<1> DEFINE at == [k \in 1..1 |-> 0]
<1>1. sent = << >> /\ stream = << >> /\ pushed = << >> /\ ~garbled /\ pos = 0 /\ reading = "header"
  BY DEF InboxInit
<1>2. Framed(at)
  BY <1>1 DEF Framed
<1>3. MessagesTo(0) = 0
  <2>1. {j \in 1..0 : ~sent[j].isHeartBeat} = {}
    OBVIOUS
  <2> QED BY <2>1, FS_EmptySet DEF MessagesTo
<1>4. ReadTo(0, at)
  BY <1>1, <1>3 DEF ReadTo
<1> QED BY <1>2, <1>4 DEF FramesFollow

\* The garbage is refused: it is no header that the peer builds.
LEMMA GarbageRefused ==
    ASSUME NEW g \in Garbage
    PROVE  g \in Header /\ Rejected(ParseHeader(Own, g))
<1>1. g \in Header /\ Own \in Endian /\ Peer \in Endian
  BY InboxAssumption DEF InboxAssumption
<1>2. SUFFICES ASSUME ~Rejected(ParseHeader(Own, g)) PROVE FALSE
  BY <1>1
<1>3. \E length \in 0..MaxMessageSize, isHeartBeat \in BOOLEAN :
          Accepts(length, isHeartBeat) /\ g = HeaderOf(Peer, length, isHeartBeat)
  BY <1>1, <1>2, OnlyFramesAccepted
<1> QED BY <1>3, InboxAssumption DEF InboxAssumption

\* Sending more does not change how many of the first frames are messages.
LEMMA CountKept ==
    ASSUME Typed, NEW m, sent' = Append(sent, m), NEW k \in 0..Len(sent)
    PROVE  MessagesTo(k)' = MessagesTo(k)
<1>1. \A j \in 1..k : sent'[j] = sent[j]
  BY DEF Typed
<1>2. {j \in 1..k : ~sent'[j].isHeartBeat} = {j \in 1..k : ~sent[j].isHeartBeat}
  BY <1>1
<1> QED BY <1>2 DEF MessagesTo

\* Where the bytes of two sequences go, and those of a frame.
LEMMA Joined ==
    ASSUME NEW S, NEW s \in Seq(S), NEW h \in Seq(S), NEW t, t = s \o h
    PROVE  /\ t \in Seq(S) /\ Len(t) = Len(s) + Len(h)
           /\ \A i \in 1..Len(s) : t[i] = s[i]
           /\ \A i \in 1..Len(h) : t[Len(s) + i] = h[i]
<1>1. t \in Seq(S) /\ Len(t) = Len(s) + Len(h) /\ Len(s) \in Nat /\ Len(h) \in Nat
  BY ConcatProperties
<1>2. \A i \in 1..(Len(s) + Len(h)) : t[i] = IF i <= Len(s) THEN s[i] ELSE h[i - Len(s)]
  BY ConcatProperties
<1>3. ASSUME NEW i \in 1..Len(s) PROVE t[i] = s[i]
  <2>1. i \in 1..(Len(s) + Len(h)) /\ i <= Len(s)
    BY <1>1
  <2> QED BY <1>2, <2>1
<1>4. ASSUME NEW i \in 1..Len(h) PROVE t[Len(s) + i] = h[i]
  <2>1. /\ Len(s) + i \in 1..(Len(s) + Len(h)) /\ ~(Len(s) + i <= Len(s))
        /\ (Len(s) + i) - Len(s) = i
    BY <1>1
  <2> QED BY <1>2, <2>1
<1> QED BY <1>1, <1>3, <1>4

LEMMA FrameAppended ==
    ASSUME NEW S, NEW s \in Seq(S), NEW h \in Seq(S), NEW b \in Seq(S),
           NEW t, t = s \o h \o b
    PROVE  /\ Len(t) = Len(s) + Len(h) + Len(b)
           /\ \A i \in 1..Len(s) : t[i] = s[i]
           /\ \A i \in 1..Len(h) : t[Len(s) + i] = h[i]
           /\ \A i \in 1..Len(b) : t[Len(s) + Len(h) + i] = b[i]
<1>1. PICK r : r = s \o h
  OBVIOUS
<1>2. /\ r \in Seq(S) /\ Len(r) = Len(s) + Len(h)
      /\ \A i \in 1..Len(s) : r[i] = s[i]
      /\ \A i \in 1..Len(h) : r[Len(s) + i] = h[i]
  BY <1>1, Joined
<1>3. /\ Len(t) = Len(r) + Len(b)
      /\ \A i \in 1..Len(r) : t[i] = r[i]
      /\ \A i \in 1..Len(b) : t[Len(r) + i] = b[i]
  BY <1>1, <1>2, Joined
<1>4. Len(s) \in Nat /\ Len(h) \in Nat /\ Len(b) \in Nat
  OBVIOUS
<1>5. ASSUME NEW i \in 1..Len(s) PROVE t[i] = s[i]
  <2>1. i \in 1..Len(r)
    BY <1>2, <1>4
  <2> QED BY <1>2, <1>3, <2>1
<1>6. ASSUME NEW i \in 1..Len(h) PROVE t[Len(s) + i] = h[i]
  <2>1. Len(s) + i \in 1..Len(r)
    BY <1>2, <1>4
  <2> QED BY <1>2, <1>3, <2>1
<1>7. \A i \in 1..Len(b) : t[Len(s) + Len(h) + i] = b[i]
  BY <1>2, <1>3
<1>8. Len(t) = Len(s) + Len(h) + Len(b)
  BY <1>2, <1>3
<1> QED BY <1>5, <1>6, <1>7, <1>8

\* What Framed says, with the types of the places.
LEMMA FramedFacts ==
    ASSUME Typed, NEW at, Framed(at), NEW n, n = Len(sent)
    PROVE  /\ n \in Nat /\ Len(stream) \in Nat
           /\ at \in [1..(n + 1) -> Nat] /\ at[1] = 0
           /\ at[n + 1] \in Nat /\ Len(stream) = at[n + 1] + (IF garbled THEN 4 ELSE 0)
           /\ \A k \in 1..n :
                  /\ FrameAt(k, at[k], at[k + 1])
                  /\ at[k] \in Nat /\ at[k + 1] \in Nat /\ at[k + 1] <= Len(stream)
                  /\ sent[k] \in Message /\ Len(sent[k].body) \in Nat
           /\ garbled => \E g \in Garbage : HeaderAt(at[n + 1], g)
<1>1. n \in Nat /\ Len(stream) \in Nat
  BY DEF Typed
<1>2. /\ at \in [1..(n + 1) -> Nat] /\ at[1] = 0
      /\ \A k \in 1..n : FrameAt(k, at[k], at[k + 1]) /\ at[k + 1] <= Len(stream)
      /\ Len(stream) = at[n + 1] + (IF garbled THEN 4 ELSE 0)
      /\ garbled => \E g \in Garbage : HeaderAt(at[n + 1], g)
  BY DEF Framed
<1>3. \A k \in 1..(n + 1) : at[k] \in Nat
  BY <1>2
<1>4. \A k \in 1..n : k \in 1..(n + 1) /\ k + 1 \in 1..(n + 1) /\ n + 1 \in 1..(n + 1)
  BY <1>1
<1>5. at[n + 1] \in Nat
  BY <1>1, <1>3
<1>6. ASSUME NEW k \in 1..n PROVE sent[k] \in Message /\ Len(sent[k].body) \in Nat
  <2>1. sent[k] \in Message
    BY DEF Typed
  <2>2. sent[k].body \in Seq(Byte)
    BY <2>1 DEF Message
  <2> QED BY <2>1, <2>2
<1> QED BY <1>1, <1>2, <1>3, <1>4, <1>5, <1>6

\* A byte of a frame is a byte of the stream the frame is in.
LEMMA Inside ==
    ASSUME NEW p \in Nat, NEW q \in Nat, NEW l \in Nat, NEW s \in Nat, NEW i \in Nat,
           q = p + 4 + l, q <= s, 1 <= i, i <= 4 + l
    PROVE  p + i \in 1..s
OBVIOUS

LEMMA SendFollows ==
    ASSUME Typed, NEW length \in 0..MaxMessageSize, NEW isHeartBeat \in BOOLEAN,
           PeerSends(length, isHeartBeat), FramesFollow
    PROVE  FramesFollow'
<1>1. PICK at : Framed(at) /\ \E d : ReadTo(d, at)
  BY DEF FramesFollow
<1>2. PICK d : ReadTo(d, at)
  BY <1>1
<1>3. PICK n : n = Len(sent)
  OBVIOUS
<1>4. PICK body : body = Body(n + 1, length)
  OBVIOUS
<1>5. PICK header : header = HeaderOf(Peer, length, isHeartBeat)
  OBVIOUS
<1>6. PICK at2 : at2 = [k \in 1..(n + 2) |-> IF k <= n + 1 THEN at[k]
                                            ELSE at[n + 1] + 4 + length]
  OBVIOUS
<1>7. /\ n \in Nat /\ length \in Nat /\ body \in Seq(Byte) /\ Len(body) = length
      /\ header \in Header /\ header \in Seq(Byte) /\ Len(header) = 4
      /\ Accepts(length, isHeartBeat)
  <2>1. n \in Nat /\ length \in Nat /\ Accepts(length, isHeartBeat)
    BY <1>3 DEF Typed, PeerSends
  <2>2. body \in Seq(Byte) /\ Len(body) = length
    BY <1>4, <2>1, BodyType
  <2>3. header \in Header
    BY <1>5, <2>1, HeaderOfType
  <2> QED BY <2>1, <2>2, <2>3, HeaderIsSeq
<1> DEFINE m == [body |-> body, isHeartBeat |-> isHeartBeat]
<1>8. sent' = Append(sent, m) /\ stream' = stream \o header \o body /\ ~garbled
      /\ UNCHANGED <<garbled, pos, reading, parsed, pushed, open>>
  BY <1>3, <1>4, <1>5 DEF PeerSends
<1>9. /\ Len(sent') = n + 1 /\ sent'[n + 1] = m
      /\ \A k \in 1..n : sent'[k] = sent[k]
  BY <1>3, <1>7, <1>8 DEF Typed
<1>10. /\ Len(stream') = Len(stream) + 4 + length
       /\ \A i \in 1..Len(stream) : stream'[i] = stream[i]
       /\ \A i \in 1..4 : stream'[Len(stream) + i] = header[i]
       /\ \A i \in 1..length : stream'[Len(stream) + 4 + i] = body[i]
  <2>1. stream \in Seq(Byte)
    BY DEF Typed
  <2>2. PICK t : t = stream \o header \o body
    OBVIOUS
  <2>3. /\ Len(t) = Len(stream) + Len(header) + Len(body)
        /\ \A i \in 1..Len(stream) : t[i] = stream[i]
        /\ \A i \in 1..Len(header) : t[Len(stream) + i] = header[i]
        /\ \A i \in 1..Len(body) : t[Len(stream) + Len(header) + i] = body[i]
    <3>1. header \in Seq(Byte) /\ body \in Seq(Byte)
      BY <1>7
    <3> QED BY ONLY <2>1, <2>2, <3>1, FrameAppended
  <2>4. stream' = t
    BY <1>8, <2>2
  <2> QED BY <1>7, <2>3, <2>4
<1>11. /\ at \in [1..(n + 1) -> Nat] /\ at[1] = 0 /\ at[n + 1] = Len(stream)
       /\ Len(stream) \in Nat
       /\ \A k \in 1..n : FrameAt(k, at[k], at[k + 1]) /\ at[k + 1] <= Len(stream)
  <2>1. Len(stream) = at[n + 1] + (IF garbled THEN 4 ELSE 0) /\ at[n + 1] \in Nat
        /\ Len(stream) \in Nat
    BY <1>1, <1>3, FramedFacts
  <2>2. at \in [1..(n + 1) -> Nat] /\ at[1] = 0
        /\ \A k \in 1..n : FrameAt(k, at[k], at[k + 1]) /\ at[k + 1] <= Len(stream)
    BY <1>1, <1>3, FramedFacts
  <2> QED BY <1>8, <2>1, <2>2
<1>12. /\ at2 \in [1..(n + 2) -> Nat] /\ at2[1] = 0
       /\ \A k \in 1..(n + 1) : at2[k] = at[k]
       /\ at2[n + 2] = Len(stream')
  BY <1>6, <1>7, <1>10, <1>11
<1>13. ASSUME NEW k \in 1..n PROVE FrameAt(k, at2[k], at2[k + 1])' /\ at2[k + 1] <= Len(stream')
  <2>1. FrameAt(k, at[k], at[k + 1]) /\ at[k + 1] <= Len(stream) /\ at[k] \in Nat /\ at[k + 1] \in Nat
    BY <1>7, <1>11
  <2>2. sent'[k] = sent[k] /\ at2[k] = at[k] /\ at2[k + 1] = at[k + 1]
    BY <1>7, <1>9, <1>12
  <2>3. Len(sent[k].body) \in Nat
    BY <1>3 DEF Typed, Message
  <2>4. at[k + 1] = at[k] + 4 + Len(sent[k].body)
    BY <2>1 DEF FrameAt
  <2>5. ASSUME NEW i \in 1..(4 + Len(sent[k].body)) PROVE stream'[at[k] + i] = stream[at[k] + i]
    <3>1. i \in Nat /\ 1 <= i /\ i <= 4 + Len(sent[k].body) /\ Len(stream) \in Nat
      BY <2>3, <1>11
    <3>2. at[k] + i \in 1..Len(stream)
      BY ONLY <2>1, <2>3, <2>4, <3>1, Inside
    <3> QED BY <3>2, <1>10
  <2>6. /\ \A i \in 1..4 : stream'[at[k] + i] = stream[at[k] + i]
        /\ \A i \in 1..Len(sent[k].body) : stream'[at[k] + 4 + i] = stream[at[k] + 4 + i]
    <3>1. \A i \in 1..4 : i \in 1..(4 + Len(sent[k].body))
      BY <2>3
    <3>2. ASSUME NEW i \in 1..Len(sent[k].body)
          PROVE  stream'[at[k] + 4 + i] = stream[at[k] + 4 + i]
      <4>1. i \in Nat /\ at[k] \in Nat
        BY <2>1, <2>3
      <4>2. 4 + i \in 1..(4 + Len(sent[k].body))
        BY <2>3, <4>1
      <4>3. at[k] + (4 + i) = at[k] + 4 + i
        BY ONLY <4>1
      <4> QED BY <2>5, <4>2, <4>3
    <3> QED BY <2>5, <3>1, <3>2
  <2>7. at2[k + 1] <= Len(stream')
    <3>1. Len(stream') = Len(stream) + 4 + length /\ Len(stream) \in Nat /\ length \in Nat
      BY <1>7, <1>10, <1>11
    <3> QED BY <2>1, <2>2, <3>1
  <2>8. FrameAt(k, at[k], at[k + 1])'
    BY <2>1, <2>2, <2>6 DEF FrameAt, HeaderAt
  <2> QED BY <2>2, <2>7, <2>8
<1>14. FrameAt(n + 1, at2[n + 1], at2[n + 2])' /\ at2[n + 2] <= Len(stream')
  <2>1. at2[n + 1] = Len(stream) /\ at2[n + 2] = at2[n + 1] + 4 + length
    <3>1. n + 1 \in 1..(n + 2) /\ n + 2 \in 1..(n + 2) /\ ~(n + 2 <= n + 1)
      BY <1>7
    <3>2. at2[n + 1] = at[n + 1] /\ at2[n + 2] = at[n + 1] + 4 + length
      BY <1>6, <3>1
    <3> QED BY <1>11, <3>2
  <2>2. Len(m.body) = length /\ m.body = body /\ m.isHeartBeat = isHeartBeat
    BY <1>7
  <2>3. at2[n + 2] <= Len(stream')
    BY <1>7, <1>10, <1>11, <1>12
  <2> HIDE DEF m
  <2> QED BY <1>5, <1>7, <1>9, <1>10, <2>1, <2>2, <2>3 DEF FrameAt, HeaderAt
<1>15. Framed(at2)'
  <2>1. \A k \in 1..(n + 1) : FrameAt(k, at2[k], at2[k + 1])' /\ at2[k + 1] <= Len(stream')
    BY <1>7, <1>13, <1>14
  <2>2. ~garbled' /\ at2[n + 2] = Len(stream') /\ Len(stream') \in Nat
    BY <1>7, <1>8, <1>10, <1>11, <1>12
  <2> QED BY <1>7, <1>9, <1>12, <2>1, <2>2 DEF Framed
<1>16. ReadTo(d, at2)'
  <2>1. d \in 0..n /\ at2[d + 1] = at[d + 1]
    BY <1>2, <1>3, <1>7, <1>12 DEF ReadTo
  <2>2. \A k \in 0..n : MessagesTo(k)' = MessagesTo(k)
    BY <1>3, <1>8, CountKept
  <2>3. d \in 0..Len(sent') /\ Len(pushed') = MessagesTo(d)'
    BY <1>2, <1>7, <1>8, <1>9, <2>1, <2>2 DEF ReadTo
  <2>4. \A k \in 1..d : ~sent'[k].isHeartBeat => pushed'[MessagesTo(k)'] = sent'[k].body
    BY <1>2, <1>7, <1>8, <1>9, <2>1, <2>2 DEF ReadTo
  <2>5. reading' = "header" => pos' = at2[d + 1]
    BY <1>2, <1>8, <2>1 DEF ReadTo
  <2>6. reading' = "body" => d < Len(sent') /\ pos' = at2[d + 1] + 4
              /\ parsed' = [length |-> Len(sent'[d + 1].body),
                            isHeartBeat |-> sent'[d + 1].isHeartBeat]
    BY <1>2, <1>3, <1>7, <1>8, <1>9, <2>1 DEF ReadTo
  <2>7. reading' # "refused"
    BY <1>2, <1>8 DEF ReadTo
  <2> QED BY <2>3, <2>4, <2>5, <2>6, <2>7 DEF ReadTo
<1> QED BY <1>15, <1>16 DEF FramesFollow

LEMMA GarbleFollows ==
    ASSUME Typed, NEW g \in Garbage, PeerGarbles(g), FramesFollow
    PROVE  FramesFollow'
<1>1. PICK at : Framed(at) /\ \E d : ReadTo(d, at)
  BY DEF FramesFollow
<1>2. PICK d : ReadTo(d, at)
  BY <1>1
<1>3. g \in Seq(Byte) /\ Len(g) = 4
  BY GarbageRefused, HeaderIsSeq
<1>4. stream' = stream \o g /\ ~garbled /\ garbled'
      /\ UNCHANGED <<sent, pos, reading, parsed, pushed>>
  BY DEF PeerGarbles
<1>5. PICK p : p = Len(stream)
  OBVIOUS
<1>6. /\ Len(stream') = p + 4 /\ p \in Nat
      /\ \A i \in 1..p : stream'[i] = stream[i]
      /\ HeaderAt(p, g)'
  <2>1. stream \in Seq(Byte)
    BY DEF Typed
  <2>2. /\ Len(stream \o g) = Len(stream) + Len(g)
        /\ \A i \in 1..Len(stream) : (stream \o g)[i] = stream[i]
        /\ \A i \in 1..Len(g) : (stream \o g)[Len(stream) + i] = g[i]
    <3>1. PICK s : s = stream
      OBVIOUS
    <3>2. PICK t : t = s \o g
      OBVIOUS
    <3>3. s \in Seq(Byte)
      BY <2>1, <3>1
    <3>4. /\ Len(t) = Len(s) + Len(g)
          /\ \A i \in 1..Len(s) : t[i] = s[i]
          /\ \A i \in 1..Len(g) : t[Len(s) + i] = g[i]
      <4>1. g \in Seq(Byte)
        BY <1>3
      <4> QED BY ONLY <3>2, <3>3, <4>1, Joined
    <3> QED BY ONLY <3>1, <3>2, <3>4
  <2>3. p \in Nat
    BY <1>5, <2>1
  <2> QED BY <1>3, <1>4, <1>5, <2>2, <2>3 DEF HeaderAt
<1>7. Framed(at)'
  <2>1. PICK n : n = Len(sent)
    OBVIOUS
  <2>2. /\ n \in Nat /\ at \in [1..(n + 1) -> Nat] /\ at[1] = 0
        /\ \A k \in 1..n : FrameAt(k, at[k], at[k + 1]) /\ at[k + 1] <= p
        /\ at[n + 1] = p
    <3>1. Len(stream) = at[n + 1] + (IF garbled THEN 4 ELSE 0) /\ at[n + 1] \in Nat
          /\ n \in Nat
      BY <1>1, <2>1, FramedFacts
    <3>2. at \in [1..(n + 1) -> Nat] /\ at[1] = 0
          /\ \A k \in 1..n : FrameAt(k, at[k], at[k + 1]) /\ at[k + 1] <= Len(stream)
      BY <1>1, <2>1, FramedFacts
    <3> QED BY <1>4, <1>5, <3>1, <3>2
  <2>3. ASSUME NEW k \in 1..n PROVE FrameAt(k, at[k], at[k + 1])' /\ at[k + 1] <= p + 4
    <3>1. FrameAt(k, at[k], at[k + 1]) /\ at[k + 1] <= p /\ at[k] \in Nat /\ at[k + 1] \in Nat
      BY <1>1, <1>5, <2>1, FramedFacts
    <3>2. Len(sent[k].body) \in Nat
      BY <1>1, <2>1, FramedFacts
    <3>3. at[k + 1] = at[k] + 4 + Len(sent[k].body)
      BY <3>1 DEF FrameAt
    <3>4. ASSUME NEW i \in 1..(4 + Len(sent[k].body)) PROVE stream'[at[k] + i] = stream[at[k] + i]
      <4>1. at[k] + i <= at[k + 1] /\ i \in Nat /\ 1 <= i
        BY <3>1, <3>2, <3>3
      <4>2. at[k] + i \in 1..p
        BY <3>1, <4>1, <1>6
      <4> QED BY <4>2, <1>6
    <3>5. \A i \in 1..4 : stream'[at[k] + i] = stream[at[k] + i]
      BY <3>2, <3>4
    <3>6. \A i \in 1..Len(sent[k].body) : stream'[at[k] + 4 + i] = stream[at[k] + 4 + i]
      <4> SUFFICES ASSUME NEW i \in 1..Len(sent[k].body)
                   PROVE  stream'[at[k] + 4 + i] = stream[at[k] + 4 + i]
        OBVIOUS
      <4>1. 4 + i \in 1..(4 + Len(sent[k].body)) /\ at[k] + (4 + i) = at[k] + 4 + i
        BY <3>1, <3>2
      <4> QED BY <3>4, <4>1
    <3>7. at[k + 1] <= p + 4
      BY <3>1, <1>6
    <3> QED BY <1>4, <3>1, <3>5, <3>6, <3>7 DEF FrameAt, HeaderAt
  <2> QED BY <1>4, <1>6, <2>1, <2>2, <2>3 DEF Framed
<1>8. ReadTo(d, at)'
  <2>1. \A k \in 0..Len(sent) : MessagesTo(k)' = MessagesTo(k)
    BY <1>4 DEF MessagesTo
  <2>2. d \in 0..Len(sent)
    BY <1>2 DEF ReadTo
  <2>3. \A k \in 1..d : k \in 0..Len(sent)
    BY <2>2 DEF Typed
  <2> QED BY <1>2, <1>4, <2>1, <2>2, <2>3 DEF ReadTo
<1> QED BY <1>7, <1>8 DEF FramesFollow

LEMMA HeaderFollows ==
    ASSUME Typed, ReadHeader, FramesFollow
    PROVE  FramesFollow'
<1>1. PICK at : Framed(at) /\ \E d : ReadTo(d, at)
  BY DEF FramesFollow
<1>2. PICK d : ReadTo(d, at)
  BY <1>1
<1>3. PICK n : n = Len(sent)
  OBVIOUS
<1>4. /\ n \in Nat /\ d \in 0..n /\ pos = at[d + 1] /\ pos \in Nat
      /\ Len(stream) \in Nat /\ pos + 4 <= Len(stream)
  BY <1>2, <1>3 DEF ReadHeader, ReadTo, Available, Typed
<1>5. /\ Bytes(4) \in Seq(Byte) /\ Len(Bytes(4)) = 4
      /\ \A i \in 1..4 : Bytes(4)[i] = stream[pos + i]
  BY BytesType DEF ReadHeader
<1>6. Bytes(4) \in Header
  BY <1>5, LenProperties DEF Header
<1>7. ASSUME NEW h \in Header, HeaderAt(pos, h) PROVE Bytes(4) = h
  BY <1>5, <1>6, <1>7 DEF HeaderAt, Header
<1>8. UNCHANGED <<sent, stream, garbled, pushed, open>> /\ pos' = pos + 4
      /\ parsed' = ParseHeader(Own, Bytes(4))
      /\ reading' = IF Rejected(parsed') THEN "refused" ELSE GoOn("body")
  BY DEF ReadHeader
<1>9. Framed(at)'
  BY <1>1, <1>8 DEF Framed, FrameAt, HeaderAt
<1>10. /\ Len(pushed') = MessagesTo(d)'
       /\ \A k \in 1..d : ~sent'[k].isHeartBeat => pushed'[MessagesTo(k)'] = sent'[k].body
  BY <1>2, <1>8 DEF ReadTo, MessagesTo
<1>11. CASE d < n
  <2> DEFINE m == sent[d + 1]
  <2>1. FrameAt(d + 1, at[d + 1], at[d + 2]) /\ m \in Message
    <3>1. d + 1 \in 1..n /\ (d + 1) + 1 = d + 2
      BY <1>4, <1>11
    <3> QED BY <1>1, <1>3, <3>1, FramedFacts
  <2>2. Len(m.body) \in Nat /\ m.isHeartBeat \in BOOLEAN /\ Accepts(Len(m.body), m.isHeartBeat)
        /\ HeaderAt(pos, HeaderOf(Peer, Len(m.body), m.isHeartBeat))
    BY <1>4, <2>1 DEF FrameAt, Message
  <2> HIDE DEF m
  <2>3. Bytes(4) = HeaderOf(Peer, Len(m.body), m.isHeartBeat)
    BY <1>7, <2>2, HeaderOfType
  <2>4. parsed' = [length |-> Len(m.body), isHeartBeat |-> m.isHeartBeat]
    BY <1>8, <2>2, <2>3, RoundTrip, InboxAssumption DEF InboxAssumption
  <2>5. ~Rejected(parsed')
    BY <2>2, <2>4 DEF Rejected
  <2>6. reading' \in {"body", "ended"}
    BY <1>8, <2>5 DEF GoOn
  <2> QED BY <1>3, <1>4, <1>8, <1>9, <1>10, <1>11, <2>4, <2>6 DEF FramesFollow, ReadTo, m
<1>12. CASE d = n
  <2>1. at[n + 1] \in Nat /\ Len(stream) = at[n + 1] + (IF garbled THEN 4 ELSE 0)
    BY <1>1, <1>3, FramedFacts
  <2>2. garbled
    BY <1>4, <1>12, <2>1
  <2>3. PICK g \in Garbage : HeaderAt(pos, g)
    BY <1>1, <1>3, <1>4, <1>12, <2>2, FramedFacts
  <2>4. Rejected(parsed')
    BY <1>7, <1>8, <2>3, GarbageRefused
  <2>5. reading' = "refused"
    BY <1>8, <2>4
  <2> QED BY <1>3, <1>4, <1>8, <1>9, <1>10, <1>12, <2>2, <2>5 DEF FramesFollow, ReadTo
<1> QED BY <1>4, <1>11, <1>12

\* The handler of the body stands at the d-th frame but one, m, is given the body
\* of m and pushes it unless m is a heartbeat.
LEMMA BodyRead ==
    ASSUME Typed, NEW stored \in BOOLEAN, ReadBody(stored),
           NEW at, Framed(at), NEW d, ReadTo(d, at),
           NEW n, n = Len(sent), NEW m, m = sent[d + 1]
    PROVE  /\ n \in Nat /\ d \in 0..n /\ d < n /\ pos' = at[d + 2]
           /\ m \in Message /\ m.isHeartBeat \in BOOLEAN
           /\ pushed' = IF m.isHeartBeat THEN pushed ELSE Append(pushed, m.body)
           /\ Delivers = ~m.isHeartBeat
           /\ MessagesTo(d + 1) = MessagesTo(d) + (IF m.isHeartBeat THEN 0 ELSE 1)
<1>1. /\ n \in Nat /\ d \in 0..n /\ d < n /\ pos = at[d + 1] + 4
      /\ parsed = [length |-> Len(m.body), isHeartBeat |-> m.isHeartBeat]
  BY DEF ReadBody, ReadTo, Typed
<1>2. /\ FrameAt(d + 1, at[d + 1], at[d + 2]) /\ at[d + 1] \in Nat
      /\ m \in Message /\ Len(m.body) \in Nat
  <2>1. d + 1 \in 1..n /\ (d + 1) + 1 = d + 2
    BY <1>1
  <2> QED BY <2>1, FramedFacts
<1>3. /\ pos' = pos + parsed.length
      /\ pushed' = IF Delivers THEN Append(pushed, Bytes(parsed.length)) ELSE pushed
  BY DEF ReadBody
<1>4. Bytes(parsed.length) = m.body
  <2>1. parsed.length = Len(m.body) /\ m.body \in Seq(Byte)
    BY <1>1, <1>2 DEF Message
  <2>2. PICK b : b = Bytes(parsed.length)
    OBVIOUS
  <2>3. b \in Seq(Byte) /\ Len(b) = Len(m.body) /\ \A i \in 1..Len(m.body) : b[i] = stream[pos + i]
    BY <1>2, <2>1, <2>2, BytesType DEF ReadBody
  <2>4. \A i \in 1..Len(m.body) : stream[pos + i] = m.body[i]
    BY <1>1, <1>2 DEF FrameAt
  <2>5. b = m.body
    BY <2>1, <2>3, <2>4, SeqEqual
  <2> QED BY <2>2, <2>5
<1>5. m.isHeartBeat \in BOOLEAN /\ Delivers = ~m.isHeartBeat
  BY <1>1, <1>2 DEF Message, Delivers
<1>6. pushed' = IF m.isHeartBeat THEN pushed ELSE Append(pushed, m.body)
  BY <1>3, <1>4, <1>5
<1>7. MessagesTo(d + 1) = MessagesTo(d) + (IF m.isHeartBeat THEN 0 ELSE 1)
  BY <1>1, NextMessage
<1>8. pos' = at[d + 2]
  BY <1>1, <1>2, <1>3 DEF FrameAt
<1> QED BY <1>1, <1>2, <1>5, <1>6, <1>7, <1>8

LEMMA BodyFollows ==
    ASSUME Typed, NEW stored \in BOOLEAN, ReadBody(stored), FramesFollow
    PROVE  FramesFollow'
<1>1. PICK at : Framed(at) /\ \E d : ReadTo(d, at)
  BY DEF FramesFollow
<1>2. PICK d : ReadTo(d, at)
  BY <1>1
<1>3. PICK n : n = Len(sent)
  OBVIOUS
<1>4. PICK m : m = sent[d + 1]
  OBVIOUS
<1>5. /\ n \in Nat /\ d \in 0..n /\ d < n /\ pos' = at[d + 2]
      /\ m \in Message /\ m.isHeartBeat \in BOOLEAN
      /\ pushed' = IF m.isHeartBeat THEN pushed ELSE Append(pushed, m.body)
      /\ MessagesTo(d + 1) = MessagesTo(d) + (IF m.isHeartBeat THEN 0 ELSE 1)
  BY <1>1, <1>2, <1>3, <1>4, BodyRead
<1>6. /\ UNCHANGED <<sent, stream, garbled, parsed>>
      /\ reading' \in {"header", "ended"}
  BY DEF ReadBody, GoOn
<1>7. Framed(at)'
  BY <1>1, <1>6 DEF Framed, FrameAt, HeaderAt
<1>8. \A k \in 0..n : MessagesTo(k)' = MessagesTo(k) /\ MessagesTo(k) \in Nat
  BY <1>3, <1>6, MessagesCounted DEF MessagesTo
<1>9. \A k \in 1..d : MessagesTo(k) <= MessagesTo(d)
                       /\ (~sent[k].isHeartBeat => MessagesTo(k) > 0)
  <2> SUFFICES ASSUME NEW k \in 1..d
               PROVE  MessagesTo(k) <= MessagesTo(d) /\ (~sent[k].isHeartBeat => MessagesTo(k) > 0)
    OBVIOUS
  <2>1. k \in 0..Len(sent) /\ d \in 0..Len(sent) /\ 0 \in 0..Len(sent) /\ 0 < k /\ k <= d
    BY <1>3, <1>5
  <2>2. MessagesTo(k) <= MessagesTo(d)
    BY <2>1, LaterMessage
  <2>3. ~sent[k].isHeartBeat => MessagesTo(0) < MessagesTo(k)
    BY <2>1, LaterMessage
  <2>4. MessagesTo(0) \in Nat /\ MessagesTo(k) \in Nat
    BY <2>1, MessagesCounted
  <2> QED BY <2>2, <2>3, <2>4
<1>10. /\ Len(pushed') = MessagesTo(d + 1)
       /\ \A k \in 1..(d + 1) : ~sent[k].isHeartBeat => pushed'[MessagesTo(k)] = sent[k].body
  <2>1. Len(pushed) = MessagesTo(d) /\ MessagesTo(d) \in Nat
        /\ \A k \in 1..d : ~sent[k].isHeartBeat => pushed[MessagesTo(k)] = sent[k].body
    BY <1>2, <1>5, <1>8 DEF ReadTo
  <2>2. CASE m.isHeartBeat
    <3>1. pushed' = pushed
      BY <1>5, <2>2
    <3>2. MessagesTo(d + 1) = MessagesTo(d)
      BY <1>5, <2>1, <2>2
    <3>3. \A k \in 1..(d + 1) : ~sent[k].isHeartBeat => k \in 1..d
      BY <1>4, <1>5, <2>2
    <3> QED BY <2>1, <3>1, <3>2, <3>3
  <2>3. CASE ~m.isHeartBeat
    <3>1. pushed' = Append(pushed, m.body)
      BY <1>5, <2>3
    <3>2. MessagesTo(d + 1) = MessagesTo(d) + 1
      BY <1>5, <2>3
    <3>3. pushed \in Seq(Seq(Byte)) /\ m.body \in Seq(Byte)
      BY <1>5 DEF Typed, Message
    <3>4. /\ Len(pushed') = Len(pushed) + 1 /\ pushed'[Len(pushed) + 1] = m.body
          /\ \A i \in 1..Len(pushed) : pushed'[i] = pushed[i]
      BY <3>1, <3>3, AppendProperties
    <3>5. ASSUME NEW k \in 1..d, ~sent[k].isHeartBeat
          PROVE  pushed'[MessagesTo(k)] = sent[k].body
      <4>1. MessagesTo(k) \in Nat
        BY <1>5, <1>8
      <4>2. MessagesTo(k) \in 1..Len(pushed)
        BY <1>9, <2>1, <3>5, <4>1
      <4> QED BY <2>1, <3>4, <3>5, <4>2
    <3>6. pushed'[MessagesTo(d + 1)] = sent[d + 1].body
      BY <1>4, <2>1, <3>2, <3>4
    <3>7. \A k \in 1..(d + 1) : k \in 1..d \/ k = d + 1
      BY <1>5
    <3> QED BY <2>1, <3>2, <3>4, <3>5, <3>6, <3>7
  <2> QED BY <2>2, <2>3
<1>11. ReadTo(d + 1, at)'
  <2>1. d + 1 \in 0..n /\ \A k \in 1..(d + 1) : k \in 0..n
    BY <1>5
  <2>2. (d + 1) + 1 = d + 2
    BY <1>5
  <2>3. \A k \in 1..(d + 1) : ~sent'[k].isHeartBeat => pushed'[MessagesTo(k)'] = sent'[k].body
    BY <1>6, <1>8, <1>10, <2>1
  <2>4. d + 1 \in 0..Len(sent') /\ Len(pushed') = MessagesTo(d + 1)'
    BY <1>3, <1>6, <1>8, <1>10, <2>1
  <2> QED BY <1>5, <1>6, <2>2, <2>3, <2>4 DEF ReadTo
<1> QED BY <1>7, <1>11 DEF FramesFollow

LEMMA FollowStep ==
    Typed /\ FramesFollow /\ [InboxNext]_inboxVars => FramesFollow'
<1> SUFFICES ASSUME Typed, FramesFollow, [InboxNext]_inboxVars PROVE FramesFollow'
  OBVIOUS
<1>1. CASE PeerStep
  BY <1>1, SendFollows, GarbleFollows DEF PeerStep
<1>2. CASE ReadHeader
  BY <1>2, HeaderFollows
<1>3. CASE \E stored \in BOOLEAN : ReadBody(stored)
  BY <1>3, BodyFollows
<1>4. ASSUME UNCHANGED <<sent, stream, garbled, pushed, pos, parsed>>,
             reading' = reading \/ reading' = "ended"
      PROVE  FramesFollow'
  <2>1. PICK at : Framed(at) /\ \E d : ReadTo(d, at)
    BY DEF FramesFollow
  <2>2. PICK d : ReadTo(d, at)
    BY <2>1
  <2>3. Framed(at)'
    BY <1>4, <2>1 DEF Framed, FrameAt, HeaderAt
  <2>4. ReadTo(d, at)'
    BY <1>4, <2>2 DEF ReadTo, MessagesTo
  <2> QED BY <2>3, <2>4 DEF FramesFollow
<1>5. CASE ReadEnds
  BY <1>4, <1>5 DEF ReadEnds
<1>6. CASE ConnectionCloses
  BY <1>4, <1>6 DEF ConnectionCloses
<1>7. CASE QueueStep \/ UNCHANGED inboxVars
  BY <1>4, <1>7 DEF QueueStep, inboxVars, streamVars
<1> QED BY <1>1, <1>2, <1>3, <1>5, <1>6, <1>7 DEF InboxNext, ReadLoop

LEMMA InboxInvariant == InboxSpec => [](Typed /\ FramesFollow)
BY TypedInit, FollowInit, TypedStep, FollowStep, PTL DEF InboxSpec

-----------------------------------------------------------------------------
(* From push() back to send().                                             *)

\* Every body that was pushed is the body of a message the peer has sent, and the
\* queue numbers the calls of push() as they come.
PushedMessage(n, k) == ~sent[k].isHeartBeat /\ MessagesTo(k) = n /\ pushed[n] = sent[k].body
EachPushedSent ==
    /\ Len(pushed) = pushes
    /\ \A n \in 1..Len(pushed) : \E k \in 1..Len(sent) : PushedMessage(n, k)

LEMMA PushedKept ==
    ASSUME Typed, EachPushedSent, pushes' = pushes, pushed' = pushed,
           sent' = sent \/ \E m : sent' = Append(sent, m)
    PROVE  EachPushedSent'
<1>1. Len(sent) \in Nat /\ Len(sent') \in Nat /\ Len(sent) <= Len(sent')
  BY DEF Typed
<1>2. ASSUME NEW k \in 1..Len(sent)
      PROVE  k \in 1..Len(sent') /\ sent'[k] = sent[k] /\ MessagesTo(k)' = MessagesTo(k)
  <2>1. k \in 1..Len(sent') /\ k \in 0..Len(sent)
    BY <1>1
  <2>2. CASE sent' = sent
    BY <2>1, <2>2 DEF MessagesTo
  <2>3. ASSUME NEW m, sent' = Append(sent, m)
        PROVE  sent'[k] = sent[k] /\ MessagesTo(k)' = MessagesTo(k)
    <3>1. sent'[k] = sent[k]
      BY <2>1, <2>3 DEF Typed
    <3> QED BY <2>1, <2>3, <3>1, CountKept
  <2> QED BY <2>1, <2>2, <2>3
<1>3. ASSUME NEW n \in 1..Len(pushed')
      PROVE  \E k \in 1..Len(sent') : PushedMessage(n, k)'
  <2>1. PICK k \in 1..Len(sent) : PushedMessage(n, k)
    BY <1>3 DEF EachPushedSent
  <2>2. PushedMessage(n, k)'
    BY <1>2, <2>1 DEF PushedMessage
  <2> QED BY <1>2, <2>2
<1> QED BY <1>3 DEF EachPushedSent

LEMMA PushedByBody ==
    ASSUME Typed, FramesFollow, EachPushedSent, NEW stored \in BOOLEAN, ReadBody(stored)
    PROVE  EachPushedSent'
<1>1. PICK at : Framed(at) /\ \E d : ReadTo(d, at)
  BY DEF FramesFollow
<1>2. PICK d : ReadTo(d, at)
  BY <1>1
<1>3. PICK n : n = Len(sent)
  OBVIOUS
<1>4. PICK m : m = sent[d + 1]
  OBVIOUS
<1>5. /\ n \in Nat /\ d \in 0..n /\ d < n /\ m \in Message
      /\ pushed' = IF m.isHeartBeat THEN pushed ELSE Append(pushed, m.body)
      /\ Delivers = ~m.isHeartBeat
      /\ MessagesTo(d + 1) = MessagesTo(d) + (IF m.isHeartBeat THEN 0 ELSE 1)
  BY <1>1, <1>2, <1>3, <1>4, BodyRead
<1>6. sent' = sent
  BY DEF ReadBody
<1>7. CASE m.isHeartBeat
  <2>1. pushed' = pushed /\ pushes' = pushes
    BY <1>5, <1>7 DEF ReadBody, vars
  <2> QED BY <1>6, <2>1, PushedKept
<1>8. CASE ~m.isHeartBeat
  <2>1. pushed' = Append(pushed, m.body) /\ pushes' = pushes + 1
    BY <1>5, <1>8 DEF ReadBody, Push
  <2>2. PICK l : l = Len(pushed)
    OBVIOUS
  <2>3. /\ l \in Nat /\ l = pushes /\ Len(pushed') = l + 1 /\ pushed'[l + 1] = m.body
        /\ \A i \in 1..l : pushed'[i] = pushed[i]
    <3>1. pushed \in Seq(Seq(Byte)) /\ m.body \in Seq(Byte)
      BY <1>5 DEF Typed, Message
    <3> QED BY <2>1, <2>2, <3>1, AppendProperties DEF EachPushedSent
  <2>4. \A k \in 1..n : MessagesTo(k)' = MessagesTo(k)
    BY <1>6 DEF MessagesTo
  <2>5. PushedMessage(l + 1, d + 1)'
    <3>1. l = MessagesTo(d)
      BY <1>2, <2>2 DEF ReadTo
    <3>2. MessagesTo(d + 1) = l + 1
      BY <1>5, <1>8, <2>3, <3>1
    <3>3. d + 1 \in 1..n /\ ~sent'[d + 1].isHeartBeat /\ sent'[d + 1].body = m.body
      BY <1>4, <1>5, <1>6, <1>8
    <3> QED BY <2>3, <2>4, <3>2, <3>3 DEF PushedMessage
  <2>6. ASSUME NEW i \in 1..Len(pushed')
        PROVE  \E k \in 1..Len(sent') : PushedMessage(i, k)'
    <3>1. CASE i = l + 1
      BY <1>3, <1>5, <1>6, <2>5, <3>1
    <3>2. CASE i \in 1..l
      <4>1. PICK k \in 1..n : PushedMessage(i, k)
        BY <1>3, <2>2, <3>2 DEF EachPushedSent
      <4>2. PushedMessage(i, k)'
        BY <1>6, <2>3, <2>4, <3>2, <4>1 DEF PushedMessage
      <4> QED BY <1>3, <1>6, <4>2
    <3> QED BY <2>3, <3>1, <3>2
  <2> QED BY <2>1, <2>3, <2>6 DEF EachPushedSent
<1> QED BY <1>5, <1>7, <1>8

LEMMA PushedStep ==
    Typed /\ FramesFollow /\ EachPushedSent /\ [InboxNext]_inboxVars => EachPushedSent'
<1> SUFFICES ASSUME Typed, FramesFollow, EachPushedSent, [InboxNext]_inboxVars
             PROVE  EachPushedSent'
  OBVIOUS
<1>1. CASE PeerStep
  BY <1>1, PushedKept DEF PeerStep, PeerSends, PeerGarbles, vars
<1>2. CASE ReadHeader \/ ReadEnds
  BY <1>2, PushedKept DEF ReadHeader, ReadEnds, vars
<1>3. ASSUME NEW stored \in BOOLEAN, ReadBody(stored) PROVE EachPushedSent'
  BY <1>3, PushedByBody
<1>4. CASE ConnectionCloses
  BY <1>4, PushedKept DEF ConnectionCloses, CloseByCallback
<1>5. CASE QueueStep
  <2>1. pushes' = pushes
    BY <1>5 DEF QueueStep, Notifies, NotifyOne, NotifyAllByCallback, User, Close, NotifyAll,
                Receive, Pops, PopMessage, PopNothing, Wait, SpuriousWakeup
  <2> QED BY <1>5, <2>1, PushedKept DEF QueueStep, streamVars
<1>6. CASE UNCHANGED inboxVars
  BY <1>6, PushedKept DEF inboxVars, streamVars, vars
<1> QED BY <1>1, <1>2, <1>3, <1>4, <1>5, <1>6 DEF InboxNext, ReadLoop

LEMMA PushedInvariant == InboxSpec => []EachPushedSent
<1>1. InboxInit => EachPushedSent
  BY DEF InboxInit, Init, EachPushedSent
<1> QED BY <1>1, PushedStep, InboxInvariant, PTL DEF InboxSpec

-----------------------------------------------------------------------------
(* The theorems.                                                           *)

\* receive() is given what the peer has sent, in order and byte by byte, without
\* the heartbeats.
THEOREM MessagesKept == InboxSpec => []MessagesAsSent
<1>1. Typed /\ FramesFollow => MessagesAsSent
  <2> SUFFICES ASSUME Typed, FramesFollow PROVE MessagesAsSent
    OBVIOUS
  <2>1. PICK at, d : ReadTo(d, at)
    BY DEF FramesFollow
  <2>2. /\ d \in 0..Len(sent) /\ Len(sent) \in Nat /\ Len(pushed) = MessagesTo(d)
        /\ \A k \in 1..d : ~sent[k].isHeartBeat => pushed[MessagesTo(k)] = sent[k].body
    BY <2>1 DEF ReadTo, Typed
  <2>3. Len(sent) \in 0..Len(sent) /\ d <= Len(sent)
    BY <2>2
  <2>4. Len(pushed) <= MessagesTo(Len(sent))
    BY <2>2, <2>3, LaterMessage
  <2>5. ASSUME NEW k \in DOMAIN sent, ~sent[k].isHeartBeat, MessagesTo(k) <= Len(pushed)
        PROVE  pushed[MessagesTo(k)] = sent[k].body
    <3>1. k \in 1..Len(sent) /\ k \in 0..Len(sent)
      BY DEF Typed
    <3>2. CASE k <= d
      BY <2>2, <2>5, <3>1, <3>2
    <3>3. CASE d < k
      <4>1. MessagesTo(d) < MessagesTo(k)
        BY <2>2, <2>5, <3>1, <3>3, LaterMessage
      <4>2. MessagesTo(d) \in Nat /\ MessagesTo(k) \in Nat
        BY <2>2, <3>1, MessagesCounted
      <4> QED BY <2>2, <2>5, <4>1, <4>2
    <3> QED BY <2>2, <3>1, <3>2, <3>3
  <2> QED BY <2>4, <2>5 DEF MessagesAsSent
<1> QED BY <1>1, InboxInvariant, PTL

\* A header is refused only if the peer's code did not build it, and by then every
\* message before it has been pushed.
THEOREM GarbageOnly == InboxSpec => []OnlyGarbageRefused
<1>1. FramesFollow => OnlyGarbageRefused
  BY DEF FramesFollow, ReadTo, OnlyGarbageRefused
<1> QED BY <1>1, InboxInvariant, PTL

\* Whatever receive() returns is a message the peer has sent, byte by byte, and in
\* the order of sending, none twice, for any number of threads that call it.
THEOREM OnlySentReceived == InboxSpec => []ReceivedAsSent
<1>1. TypeOK /\ Typed /\ QueueOrder /\ EachPushedSent => ReceivedAsSent
  <2> SUFFICES ASSUME TypeOK, Typed, QueueOrder, EachPushedSent PROVE ReceivedAsSent
    OBVIOUS
  <2>1. ASSUME NEW i \in DOMAIN taken
        PROVE  \E k \in DOMAIN sent :
                   /\ ~sent[k].isHeartBeat /\ MessagesTo(k) = taken[i]
                   /\ pushed[taken[i]] = sent[k].body
    <3>1. taken[i] \in 1..Len(pushed)
      BY DEF QueueOrder, EachPushedSent
    <3>2. PICK k \in 1..Len(sent) : PushedMessage(taken[i], k)
      BY <3>1 DEF EachPushedSent
    <3> QED BY <3>2 DEF PushedMessage, Typed
  <2> QED BY <2>1 DEF ReceivedAsSent, QueueOrder, Increasing
<1> QED BY <1>1, InboxInvariant, PushedInvariant, QueueInside, TypeCorrect, TakenInOrder, PTL

\* Behind the read loop too, receive() hands out the messages as a mailbox does.
THEOREM MailboxInside == InboxSpec => IsMailbox
BY QueueInside, ImplementsMailbox, PTL
=============================================================================
