-------------------------- MODULE MCCompactIntegers -------------------------
(***************************************************************************)
(* The integer codec at the edges of its encodings.  The state is one      *)
(* integer, which walks through the neighbourhoods of the edges.  Int64Max *)
(* is 2^23 - 1, so that the widest integers take three bytes instead of    *)
(* eight and the whole of the range is within TLC's integers.              *)
(***************************************************************************)
EXTENDS CompactFormat

CONSTANTS Edges, Margin

VARIABLE value

(* The greatest unsigned integer.                                          *)
Uint64Max == 2 * Int64Max + 1

ASSUME EdgesAssumption ==
    /\ Edges \subseteq Nat /\ Margin \in Nat
    /\ \A e \in Edges : e + Margin <= Uint64Max

Sides == Edges \cup {-e : e \in Edges}

Near(e) == e - Margin .. e + Margin

Init == value \in {e - Margin : e \in Sides}

Next == value' = value + 1 /\ \E e \in Sides : value' \in Near(e)

Spec == Init /\ [][Next]_value

-----------------------------------------------------------------------------
(* What `read' makes of the encoding: the value, and all of its bytes; of  *)
(* fewer bytes nothing, and nothing is consumed.                           *)
Decodes(Read(_, _), bytes) ==
    /\ Read(bytes, 0) = Got(value, Len(bytes))
    /\ \A n \in 0 .. Len(bytes) - 1 :
          LET r == Read(SubSeq(bytes, 1, n), 0)
          IN  ~r.ok /\ r.code = "truncated" /\ r.used = 0

Refuses(r) == ~r.ok /\ r.code = "invalid_integer" /\ r.used = 0

(* The writer and the reader agree: write_int and read_int on every int64, *)
(* the least one included, write_uint and read_uint on every unsigned.     *)
IntegersRoundTrip ==
    /\ value \in -(Int64Max + 1) .. Int64Max => Decodes(ReadInt, WriteInt(value))
    /\ value >= 0 => Decodes(ReadUint, WriteUint(value))

(* An integer the receiving type cannot hold is refused before any of it   *)
(* is consumed: unsigned beyond int64, negative beyond int64, negative for *)
(* an unsigned.                                                            *)
OutOfRangeRefused ==
    /\ value > Int64Max => Refuses(ReadInt(WriteUint(value), 0))
    /\ value < -(Int64Max + 1) =>
          Refuses(ReadInt(WriteIntegerPayload(TRUE, -value), 0))
    /\ value < 0 => Refuses(ReadUint(WriteInt(value), 0))

=============================================================================
