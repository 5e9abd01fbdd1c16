---------------------------- MODULE CompactFormat ---------------------------
(***************************************************************************)
(* The byte layout of the compact adapter,                                 *)
(* src/include/contract/adapters/compact.hpp: header ranges, the primitive *)
(* encoders of `writer' and the primitive decoders of `reader'.            *)
(*                                                                         *)
(* Encoders return the bytes handed to the output window in one prepare    *)
(* and commit; write_size_header returns two such chunks, the second empty *)
(* when there is nothing more to write.  Decoders return what one call of  *)
(* the reader does.                                                        *)
(***************************************************************************)
EXTENDS WireFormat

(* std::numeric_limits<std::int64_t>::max() in the code.  A parameter, so  *)
(* that the boundary is within reach of TLC's integers.                    *)
CONSTANT Int64Max

(* An std::uint64_t is twice that and one, in eight bytes.                 *)
ASSUME Int64MaxAssumption ==
    Int64Max \in Nat /\ Int64Max > 255 /\ Shifted(2 * Int64Max + 1, 8) = 0

SmallUintMax    == 63
SmallNegMin     == 64
SmallNegMax     == 79
IntPayloadMin   == 80
IntPayloadSign  == 8
SizedInlineMax  == 14
SizedExtended   == 15
BoolFalseHeader == 176
BoolTrueHeader  == 177
NullHeader      == 178
Float32Header   == 196
Float64Header   == 200

(* size_base: the first of the sixteen headers of a sized value kind.      *)
SizedKind == {"bytes", "string", "array", "map", "object"}
SizeBase == [bytes |-> 96, string |-> 112, array |-> 128,
             map |-> 144, object |-> 160]

IsSizedHeader(header, kind) ==
    header \in SizeBase[kind] .. SizeBase[kind] + SizedExtended

(* Elements whose bytes are their wire representation travel as one blob.  *)
IsBlob(shape) ==
    \/ shape.kind = "bitset"
    \/ shape.kind \in {"array", "span"} /\ shape.elem.kind = "raw"

-----------------------------------------------------------------------------
(* The writer's primitives.                                                *)

(* compact_byte_count: the fewest bytes that hold the value.               *)
CompactByteCount(value) ==
    CHOOSE n \in 1 .. 8 :
        Shifted(value, n) = 0 /\ (n = 1 \/ Shifted(value, n - 1) # 0)

(* Mutant: the sign is not put into the header.                            *)
WriteIntegerPayloadUnsigned(negative, magnitude) ==
    LET count == CompactByteCount(magnitude)
    IN  <<IntPayloadMin + count - 1>> \o LittleUint(magnitude, count)

WriteIntegerPayload(negative, magnitude) ==
    LET count == CompactByteCount(magnitude)
        sign  == IF negative THEN IntPayloadSign ELSE 0
    IN  <<IntPayloadMin + sign + count - 1>> \o LittleUint(magnitude, count)

WriteUint(value) ==
    IF value <= SmallUintMax THEN <<value>> ELSE WriteIntegerPayload(FALSE, value)

WriteInt(value) ==
    IF value >= 0 THEN WriteUint(value)
    ELSE IF -value <= 16 THEN <<SmallNegMin + (-value) - 1>>
    ELSE WriteIntegerPayload(TRUE, -value)

WriteBool(value) == <<IF value THEN BoolTrueHeader ELSE BoolFalseHeader>>

(* write_size_header: one write when the size fits the header, otherwise   *)
(* a second write with the size as an ordinary compact integer.            *)
WriteSizeHeader(kind, size) ==
    IF size <= SizedInlineMax
    THEN << <<SizeBase[kind] + size>>, <<>> >>
    ELSE << <<SizeBase[kind] + SizedExtended>>, WriteUint(size) >>

-----------------------------------------------------------------------------
(* The reader's primitives.                                                *)

ReadByte(data, pos) ==
    LET view == Peek(data, pos, 1)
    IN  IF view = <<>> THEN Failed("truncated", "header", 0) ELSE Got(view[1], 1)

(* The payload of an integer header, of the width its low bits give.       *)
PayloadWidth(header) == (header % 8) + 1
PayloadValue(view) == LoadLittleUint(SubSeq(view, 2, 1 + PayloadWidth(view[1])))

(* The integer a header and its payload encode; nothing is consumed unless *)
(* all of it is there.                                                     *)
WholePayload(view, result) ==
    IF Len(view) >= 1 + PayloadWidth(view[1]) THEN result
    ELSE Failed("truncated", "raw_bytes", 0)

SmallUint    == 0 .. SmallUintMax
SmallNeg     == SmallNegMin .. SmallNegMax
UintPayload  == IntPayloadMin .. IntPayloadMin + IntPayloadSign - 1
IntPayload   == IntPayloadMin .. IntPayloadMin + 2 * IntPayloadSign - 1

DecodeUint(view) ==
    IF view[1] \in SmallUint THEN Got(view[1], 1)
    ELSE IF view[1] \in UintPayload
    THEN WholePayload(view, Got(PayloadValue(view), 1 + PayloadWidth(view[1])))
    ELSE IF view[1] \in SmallNeg \cup IntPayload
    THEN Failed("invalid_integer", "integer", 0)
    ELSE Failed("invalid_header", "header", 0)

(* Mutant: the one-byte integers are peeked at and never consumed.         *)
ReadUintPeeked(data, pos) ==
    LET view == Peek(data, pos, 9)
    IN  IF view = <<>> THEN Failed("truncated", "header", 0)
        ELSE IF view[1] \in SmallUint THEN Got(view[1], 0)
        ELSE DecodeUint(view)

ReadUint(data, pos) ==
    LET view == Peek(data, pos, 9)
    IN  IF view = <<>> THEN Failed("truncated", "header", 0) ELSE DecodeUint(view)

(* Mutant: the least int64, which has no positive counterpart, is refused. *)
SignedPayloadSymmetric(view) ==
    LET magnitude == PayloadValue(view)
        negative  == view[1] \notin UintPayload
    IN  IF magnitude > Int64Max THEN Failed("invalid_integer", "integer", 0)
        ELSE Got(IF negative THEN -magnitude ELSE magnitude,
                 1 + PayloadWidth(view[1]))

(* Mutant: only the magnitude of a negative integer is checked.            *)
SignedPayloadUnchecked(view) ==
    LET magnitude == PayloadValue(view)
        negative  == view[1] \notin UintPayload
    IN  IF negative /\ magnitude > Int64Max + 1
        THEN Failed("invalid_integer", "integer", 0)
        ELSE Got(IF negative THEN -magnitude ELSE magnitude,
                 1 + PayloadWidth(view[1]))

(* The sign-magnitude integer of a payload header, within int64.           *)
SignedPayload(view) ==
    LET magnitude == PayloadValue(view)
        negative  == view[1] \notin UintPayload
        limit     == IF negative THEN Int64Max + 1 ELSE Int64Max
    IN  IF magnitude > limit THEN Failed("invalid_integer", "integer", 0)
        ELSE Got(IF negative THEN -magnitude ELSE magnitude,
                 1 + PayloadWidth(view[1]))

DecodeInt(view) ==
    IF view[1] \in SmallUint THEN Got(view[1], 1)
    ELSE IF view[1] \in SmallNeg THEN Got(-(view[1] - SmallNegMin + 1), 1)
    ELSE IF view[1] \in IntPayload THEN WholePayload(view, SignedPayload(view))
    ELSE Failed("invalid_header", "header", 0)

ReadInt(data, pos) ==
    LET view == Peek(data, pos, 9)
    IN  IF view = <<>> THEN Failed("truncated", "header", 0) ELSE DecodeInt(view)

(* A header byte that must be one of a few: it is consumed either way.     *)
ReadHeader(data, pos, accepted) ==
    LET r == ReadByte(data, pos)
    IN  IF r.ok /\ r.value \notin accepted
        THEN Failed("invalid_header", "header", 1) ELSE r

ReadBool(data, pos) ==
    LET r == ReadHeader(data, pos, {BoolFalseHeader, BoolTrueHeader})
    IN  IF r.ok THEN Got(r.value = BoolTrueHeader, 1) ELSE r

(* The size in a sized header, or the compact integer that follows it.     *)
ReadSizeTail(data, pos, header, kind) ==
    LET low == header - SizeBase[kind]
    IN  IF low < SizedExtended THEN Got(low, 0) ELSE ReadUint(data, pos)

(* Mutant: the header is peeked at and only the size tail consumed.        *)
ReadSizeHeaderPeeked(data, pos, kind) ==
    LET r == ReadHeader(data, pos,
                 SizeBase[kind] .. SizeBase[kind] + SizedExtended)
    IN  IF r.ok THEN ReadSizeTail(data, pos + 1, r.value, kind) ELSE r

ReadSizeHeader(data, pos, kind) ==
    LET r    == ReadHeader(data, pos,
                    SizeBase[kind] .. SizeBase[kind] + SizedExtended)
        tail == ReadSizeTail(data, pos + 1, r.value, kind)
    IN  IF r.ok THEN [tail EXCEPT !.used = 1 + @] ELSE r

(* Mutant: the bytes are taken without asking whether they are there.      *)
ReadRawUnchecked(data, pos, size) == Got(Peek(data, pos, size), size)

(* Exactly `size' bytes, or nothing: reader::read.                         *)
ReadRaw(data, pos, size) ==
    LET view == Peek(data, pos, size)
    IN  IF Len(view) = size THEN Got(view, size)
        ELSE Failed("truncated", "raw_bytes", 0)

(* read_float: the header is consumed before the payload is looked at.     *)
ReadFloat(data, pos, header, width) ==
    LET r    == ReadHeader(data, pos, {header})
        bits == ReadRaw(data, pos + 1, width)
    IN  IF r.ok THEN [bits EXCEPT !.used = 1 + @] ELSE r

=============================================================================
