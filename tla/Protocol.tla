------------------------------ MODULE Protocol ------------------------------
(***************************************************************************)
(* include/protocol.h: the frame, a header of four bytes and a body.  The  *)
(* header is a uint32_t in network order, the length of the body with the  *)
(* heartbeat flag in its top bit.                                          *)
(*                                                                         *)
(* A byte has Base values, 256 in the code; TLC, whose integers end below  *)
(* 2^31, takes a smaller one.  Both ends run the same functions, each on a *)
(* machine with an endianness of its own.                                  *)
(***************************************************************************)
EXTENDS Integers, Sequences

CONSTANTS
    HalfBase,       \* half of the values of a byte
    MaxMessageSize  \* MaxMessageSize

Base == 2 * HalfBase
Byte == 0..(Base - 1)

\* 1u << 31, and what a uint32_t counts to.
Flag == HalfBase * Base * Base * Base
Modulus == 2 * Flag

ASSUME ProtocolAssumption ==
    /\ HalfBase \in Nat \ {0}
    /\ MaxMessageSize \in Nat
    /\ MaxMessageSize < Flag

Endian == {"little", "big"}
Header == [1..4 -> Byte]

\* The bytes of a number, most significant first, and the number they make.
Digits(w) ==
    LET q1 == w \div Base
        q2 == q1 \div Base
        q3 == q2 \div Base
    IN  <<q3, q2 % Base, q1 % Base, w % Base>>
Value(d) == ((d[1] * Base + d[2]) * Base + d[3]) * Base + d[4]

Reversed(bytes) == <<bytes[4], bytes[3], bytes[2], bytes[1]>>

\* std::byteswap, and the memcpy of a number to and from memory (external).
ByteSwap(w) == Value(Reversed(Digits(w)))
ToMemory(endian, w) == IF endian = "big" THEN Digits(w) ELSE Reversed(Digits(w))
FromMemory(endian, bytes) == Value(IF endian = "big" THEN bytes ELSE Reversed(bytes))

\* hostToNetworkLong, and networkToHostLong, which does the same.  The faulty
\* AsItIs leaves the bytes where they are.
AsItIs(endian, w) == w
NetworkLong(endian, w) == IF endian = "little" THEN ByteSwap(w) ELSE w

\* The lengths both functions let pass.
Accepts(length, isHeartBeat) ==
    length <= MaxMessageSize /\ (length > 0 \/ isHeartBeat)

\* getMessageFrame: the header of a frame it does not refuse.
HeaderOf(endian, length, isHeartBeat) ==
    ToMemory(endian, NetworkLong(endian, length + (IF isHeartBeat THEN Flag ELSE 0)))

\* parseHeader: shifting to the left and back clears the flag.  The faulty
\* KeepsFlag does not.
KeepsFlag(data) == data
LengthOf(data) == ((data * 2) % Modulus) \div 2
ParseHeader(endian, bytes) ==
    LET data == NetworkLong(endian, FromMemory(endian, bytes))
    IN  [length |-> LengthOf(data), isHeartBeat |-> data >= Flag]
Rejected(parsed) == ~Accepts(parsed.length, parsed.isHeartBeat)
=============================================================================
