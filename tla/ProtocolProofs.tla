--------------------------- MODULE ProtocolProofs ---------------------------
(***************************************************************************)
(* Proofs about Protocol: what getMessageFrame writes, parseHeader reads,  *)
(* between any two machines.                                               *)
(***************************************************************************)
EXTENDS Protocol, TLAPS

-----------------------------------------------------------------------------
(* Division with remainder.                                                *)

LEMMA DivMod ==
    ASSUME NEW n \in Nat, NEW d \in Nat, d > 0
    PROVE  /\ n \div d \in Nat
           /\ n % d \in 0..(d - 1)
           /\ n = (d * (n \div d)) + (n % d)
BY SMT

LEMMA DivModUnique ==
    ASSUME NEW d \in Nat, d > 0, NEW q \in Nat, NEW r \in 0..(d - 1)
    PROVE  ((q * d) + r) \div d = q /\ ((q * d) + r) % d = r
BY SMT

\* A quotient stays below the bound divided by the divisor.
LEMMA DivBound ==
    ASSUME NEW n \in Nat, NEW d \in Nat, d > 0, NEW b \in Nat, n < b * d
    PROVE  n \div d < b
BY DivMod, SMT

\* One more digit.
LEMMA NextDigit ==
    ASSUME NEW d \in Nat, d > 0, NEW b \in Nat, NEW q \in Nat, q < b, NEW r \in 0..(d - 1)
    PROVE  (q * d) + r \in Nat /\ (q * d) + r < b * d
<1>1. q <= b - 1 /\ b - 1 \in Nat
  BY SMT
<1>2. q * d <= (b - 1) * d
  BY <1>1, SMT
<1>3. (b - 1) * d = (b * d) - d
  BY SMT
<1> QED BY <1>2, <1>3, SMT

-----------------------------------------------------------------------------
(* Numbers and their bytes.                                                *)

LEMMA BaseType == Base \in Nat /\ Base > 0 /\ Flag \in Nat /\ Flag > 0
                  /\ Modulus = 2 * Flag /\ Modulus = Base * Base * Base * Base
BY ProtocolAssumption DEF ProtocolAssumption, Base, Flag, Modulus

LEMMA DigitsType ==
    ASSUME NEW w \in 0..(Modulus - 1)
    PROVE  Digits(w) \in Header
<1> DEFINE q1 == w \div Base
           q2 == q1 \div Base
           q3 == q2 \div Base
<1>1. q1 \in Nat /\ q1 < Base * Base * Base /\ w % Base \in Byte
  BY BaseType, DivMod, DivBound DEF Byte
<1>2. q2 \in Nat /\ q2 < Base * Base /\ q1 % Base \in Byte
  <2> HIDE DEF q1
  <2> QED BY <1>1, BaseType, DivMod, DivBound DEF Byte
<1>3. q3 \in Byte /\ q2 % Base \in Byte
  <2> HIDE DEF q2
  <2> QED BY <1>2, BaseType, DivMod, DivBound DEF Byte
<1> QED BY <1>1, <1>2, <1>3 DEF Digits, Header

LEMMA ValueOfDigits ==
    ASSUME NEW w \in 0..(Modulus - 1)
    PROVE  Value(Digits(w)) = w
<1> DEFINE q1 == w \div Base
           q2 == q1 \div Base
           q3 == q2 \div Base
<1>1. w = (Base * q1) + (w % Base) /\ q1 \in Nat
  BY BaseType, DivMod
<1>2. q1 = (Base * q2) + (q1 % Base) /\ q2 \in Nat
  <2> HIDE DEF q1
  <2> QED BY <1>1, BaseType, DivMod
<1>3. q2 = (Base * q3) + (q2 % Base) /\ q3 \in Nat
  <2> HIDE DEF q2
  <2> QED BY <1>2, BaseType, DivMod
<1>4. Digits(w) = <<q3, q2 % Base, q1 % Base, w % Base>>
  BY DEF Digits
<1>5. Value(Digits(w)) = ((((((q3 * Base) + (q2 % Base)) * Base) + (q1 % Base)) * Base) + (w % Base))
  <2> HIDE DEF q1, q2, q3
  <2> QED BY <1>4 DEF Value
<1>6. (q3 * Base) + (q2 % Base) = q2
  <2> HIDE DEF q2, q3
  <2> QED BY <1>2, <1>3, BaseType
<1>7. (q2 * Base) + (q1 % Base) = q1
  <2> HIDE DEF q1, q2
  <2> QED BY <1>1, <1>2, BaseType
<1>8. (q1 * Base) + (w % Base) = w
  <2> HIDE DEF q1
  <2> QED BY <1>1, BaseType
<1> HIDE DEF q1, q2, q3
<1> QED BY <1>5, <1>6, <1>7, <1>8

LEMMA DigitsOfValue ==
    ASSUME NEW d \in Header
    PROVE  Value(d) \in 0..(Modulus - 1) /\ Digits(Value(d)) = d
<1> DEFINE v1 == d[1]
           v2 == (v1 * Base) + d[2]
           v3 == (v2 * Base) + d[3]
           v4 == (v3 * Base) + d[4]
<1>1. \A i \in 1..4 : d[i] \in 0..(Base - 1)
  BY DEF Header, Byte
<1>2. v1 \in Nat /\ v1 < Base /\ d[2] \in 0..(Base - 1) /\ d[3] \in 0..(Base - 1)
      /\ d[4] \in 0..(Base - 1)
  BY <1>1, BaseType
<1>3. v2 \in Nat /\ v2 < Base * Base /\ v2 \div Base = v1 /\ v2 % Base = d[2]
  <2> HIDE DEF v1
  <2>1. v2 \in Nat /\ v2 < Base * Base
    BY <1>2, BaseType, NextDigit
  <2> QED BY <2>1, <1>2, BaseType, DivModUnique
<1>4. v3 \in Nat /\ v3 < Base * Base * Base /\ v3 \div Base = v2 /\ v3 % Base = d[3]
  <2> HIDE DEF v2
  <2>1. v3 \in Nat /\ v3 < Base * Base * Base
    BY <1>2, <1>3, BaseType, NextDigit
  <2> QED BY <2>1, <1>2, <1>3, BaseType, DivModUnique
<1>5. v4 \in Nat /\ v4 < Base * Base * Base * Base /\ v4 \div Base = v3 /\ v4 % Base = d[4]
  <2> HIDE DEF v3
  <2>1. v4 \in Nat /\ v4 < Base * Base * Base * Base
    <3> DEFINE b == Base * Base * Base
    <3>1. b \in Nat /\ b * Base = Base * Base * Base * Base /\ v3 < b
      BY <1>4, BaseType
    <3> HIDE DEF b
    <3>2. v4 \in Nat /\ v4 < b * Base
      BY <1>2, <1>4, <3>1, BaseType, NextDigit
    <3> QED BY <3>1, <3>2
  <2> QED BY <2>1, <1>2, <1>4, BaseType, DivModUnique
<1>6. Value(d) = v4
  BY DEF Value
<1>7. Digits(v4) = <<v1, d[2], d[3], d[4]>>
  <2> HIDE DEF v1, v2, v3, v4
  <2> QED BY <1>3, <1>4, <1>5 DEF Digits
<1>8. d = <<d[1], d[2], d[3], d[4]>>
  BY DEF Header
<1>9. v4 \in 0..(Modulus - 1)
  <2> HIDE DEF v4
  <2> QED BY <1>5, BaseType
<1> QED BY <1>6, <1>7, <1>8, <1>9

LEMMA ReversedTwice ==
    ASSUME NEW d \in Header
    PROVE  Reversed(d) \in Header /\ Reversed(Reversed(d)) = d
<1>1. d[1] \in Byte /\ d[2] \in Byte /\ d[3] \in Byte /\ d[4] \in Byte
  BY DEF Header
<1>2. Reversed(d) \in Header
  BY <1>1 DEF Reversed, Header
<1>3. d = <<d[1], d[2], d[3], d[4]>>
  BY DEF Header
<1>4. Reversed(Reversed(d)) = <<d[1], d[2], d[3], d[4]>>
  BY DEF Reversed
<1> QED BY <1>2, <1>3, <1>4

-----------------------------------------------------------------------------
(* The header.                                                             *)

\* A machine that keeps the low byte first swaps the bytes when it stores or
\* loads a number, and hostToNetworkLong and networkToHostLong swap them back.
LEMMA NetworkOrder ==
    ASSUME NEW endian \in Endian, NEW w \in 0..(Modulus - 1), NEW h \in Header
    PROVE  /\ ToMemory(endian, NetworkLong(endian, w)) = Digits(w)
           /\ NetworkLong(endian, FromMemory(endian, h)) = Value(h)
<1>1. Digits(w) \in Header
  BY DigitsType
<1>2. Reversed(Digits(w)) \in Header /\ Reversed(Reversed(Digits(w))) = Digits(w)
  BY <1>1, ReversedTwice
<1>3. Digits(Value(Reversed(Digits(w)))) = Reversed(Digits(w))
  BY <1>2, DigitsOfValue
<1>4. Reversed(h) \in Header /\ Reversed(Reversed(h)) = h
  BY ReversedTwice
<1>5. Digits(Value(Reversed(h))) = Reversed(h)
  BY <1>4, DigitsOfValue
<1>6. CASE endian = "little"
  <2>1. ToMemory(endian, NetworkLong(endian, w))
            = Reversed(Digits(Value(Reversed(Digits(w)))))
    BY <1>6 DEF ToMemory, NetworkLong, ByteSwap
  <2>2. NetworkLong(endian, FromMemory(endian, h))
            = Value(Reversed(Digits(Value(Reversed(h)))))
    BY <1>6 DEF FromMemory, NetworkLong, ByteSwap
  <2> QED BY <2>1, <2>2, <1>2, <1>3, <1>4, <1>5
<1>7. CASE endian = "big"
  BY <1>7 DEF ToMemory, FromMemory, NetworkLong
<1> QED BY <1>6, <1>7 DEF Endian

\* The word of a header: its length shifted to the left and back, and its flag.
LEMMA WordParsed ==
    ASSUME NEW length \in 0..(Flag - 1), NEW isHeartBeat \in BOOLEAN, NEW w,
           w = length + (IF isHeartBeat THEN Flag ELSE 0)
    PROVE  /\ w \in 0..(Modulus - 1)
           /\ LengthOf(w) = length
           /\ (w >= Flag) <=> isHeartBeat
<1>1. w \in 0..(Modulus - 1) /\ ((w >= Flag) <=> isHeartBeat)
  BY BaseType
<1>2. (w * 2) % Modulus = length * 2
  <2>1. w * 2 = ((IF isHeartBeat THEN 1 ELSE 0) * Modulus) + (length * 2)
    BY BaseType
  <2>2. length * 2 \in 0..(Modulus - 1) /\ Modulus \in Nat /\ Modulus > 0
    BY BaseType
  <2> DEFINE q == IF isHeartBeat THEN 1 ELSE 0
  <2>3. q \in Nat
    OBVIOUS
  <2> HIDE DEF q
  <2>4. w * 2 = (q * Modulus) + (length * 2)
    BY <2>1 DEF q
  <2> DEFINE r == length * 2
  <2> HIDE DEF r
  <2>5. ((q * Modulus) + r) % Modulus = r
    BY <2>2, <2>3, DivModUnique DEF r
  <2> QED BY <2>4, <2>5 DEF r
<1>3. (length * 2) \div 2 = length
  OBVIOUS
<1> QED BY <1>1, <1>2, <1>3 DEF LengthOf

\* What getMessageFrame writes on one machine, parseHeader reads on another,
\* whatever their endiannesses, also at the lengths 0 and MaxMessageSize: the
\* length and the flag share a word and do not touch each other.
THEOREM RoundTrip ==
    ASSUME NEW own \in Endian, NEW peer \in Endian, NEW length \in Nat,
           NEW isHeartBeat \in BOOLEAN, Accepts(length, isHeartBeat)
    PROVE  /\ HeaderOf(peer, length, isHeartBeat) \in Header
           /\ ParseHeader(own, HeaderOf(peer, length, isHeartBeat))
                  = [length |-> length, isHeartBeat |-> isHeartBeat]
<1> DEFINE w == length + (IF isHeartBeat THEN Flag ELSE 0)
<1>1. length \in 0..(Flag - 1)
  BY BaseType, ProtocolAssumption DEF Accepts, ProtocolAssumption
<1>2. w \in 0..(Modulus - 1) /\ LengthOf(w) = length /\ ((w >= Flag) <=> isHeartBeat)
  BY <1>1, WordParsed
<1>3. HeaderOf(peer, length, isHeartBeat) = ToMemory(peer, NetworkLong(peer, w))
  BY DEF HeaderOf
<1> HIDE DEF w
<1>4. Digits(w) \in Header /\ Value(Digits(w)) = w
  BY <1>2, DigitsType, ValueOfDigits
<1>5. HeaderOf(peer, length, isHeartBeat) = Digits(w)
  BY <1>2, <1>3, <1>4, NetworkOrder
<1>6. NetworkLong(own, FromMemory(own, Digits(w))) = w
  BY <1>2, <1>4, NetworkOrder
<1> DEFINE read == ParseHeader(own, HeaderOf(peer, length, isHeartBeat))
<1>7. read = [length |-> length, isHeartBeat |-> w >= Flag]
  BY <1>2, <1>5, <1>6 DEF ParseHeader
<1>8. CASE isHeartBeat
  <2>1. (w >= Flag) = TRUE /\ isHeartBeat = TRUE
    BY <1>2, <1>8
  <2> QED BY <1>4, <1>5, <1>7, <2>1
<1>9. CASE ~isHeartBeat
  <2>1. (w >= Flag) = FALSE /\ isHeartBeat = FALSE
    BY <1>2, <1>9, BaseType
  <2> QED BY <1>4, <1>5, <1>7, <2>1
<1> QED BY <1>8, <1>9

\* A header that parseHeader accepts is one that getMessageFrame builds, of a
\* length it accepts: no other four bytes get past it.
THEOREM OnlyFramesAccepted ==
    ASSUME NEW own \in Endian, NEW peer \in Endian, NEW h \in Header,
           ~Rejected(ParseHeader(own, h))
    PROVE  \E length \in 0..MaxMessageSize, isHeartBeat \in BOOLEAN :
               /\ Accepts(length, isHeartBeat)
               /\ h = HeaderOf(peer, length, isHeartBeat)
<1> DEFINE w == Value(h)
           isHeartBeat == w >= Flag
           length == IF isHeartBeat THEN w - Flag ELSE w
<1>1. w \in 0..(Modulus - 1) /\ Digits(w) = h
  BY DigitsOfValue
<1>2. NetworkLong(own, FromMemory(own, h)) = w
  BY <1>1, NetworkOrder
<1> HIDE DEF w
<1>3. length \in 0..(Flag - 1) /\ isHeartBeat \in BOOLEAN
      /\ w = length + (IF isHeartBeat THEN Flag ELSE 0)
  BY <1>1, BaseType
<1>4. LengthOf(w) = length
  <2> HIDE DEF length, isHeartBeat
  <2> QED BY <1>3, WordParsed
<1>5. ParseHeader(own, h) = [length |-> length, isHeartBeat |-> isHeartBeat]
  <2> HIDE DEF length
  <2> QED BY <1>2, <1>4 DEF ParseHeader
<1> HIDE DEF length, isHeartBeat
<1>6. Accepts(length, isHeartBeat)
  BY <1>5 DEF Rejected
<1>7. h = HeaderOf(peer, length, isHeartBeat)
  <2>1. w = length + (IF isHeartBeat THEN Flag ELSE 0)
    BY <1>3
  <2>2. ToMemory(peer, NetworkLong(peer, w)) = h
    BY <1>1, NetworkOrder
  <2> QED BY <2>1, <2>2 DEF HeaderOf
<1>8. length \in 0..MaxMessageSize
  BY <1>3, <1>6, BaseType, ProtocolAssumption DEF Accepts, ProtocolAssumption
<1> QED BY <1>3, <1>6, <1>7, <1>8
=============================================================================
