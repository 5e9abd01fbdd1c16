--------------------------- MODULE ProtobufFormat ---------------------------
(***************************************************************************)
(* The bytes of the protobuf adapter: varints, keys and fixed-width        *)
(* numbers (src/include/contract/adapters/protobuf.hpp).                   *)
(*                                                                         *)
(* A word has WordBits bits, 64 in the code, and a field number            *)
(* NumberBits, 32 in the code; a varint has a byte for every seven bits.   *)
(* A float or a double is the sequence of its bytes, a `raw' value of      *)
(* width four or eight; a raw value of width one is a byte-like element.   *)
(***************************************************************************)
EXTENDS WireFormat, ContractSchema, FiniteSets

CONSTANTS WordBits, NumberBits

ASSUME WordBitsAssumption == WordBits \in 8 .. 64
ASSUME NumberBitsAssumption == NumberBits \in 3 .. WordBits
ASSUME WordRangeAssumption == 2 ^ WordBits \in Nat \ {0}

MaxVarint == (WordBits + 6) \div 7

(* detail::wire_type                                                       *)
VarintWire    == 0
Fixed64Wire   == 1
DelimitedWire == 2
Fixed32Wire   == 5

IsByte(shape)   == shape.kind = "raw" /\ shape.width = 1
IsScalar(shape) == shape.kind \in {"uint", "int", "bool", "raw"} /\ ~IsByte(shape)

(* The wire type the codec of a value expects, and writes.                 *)
WireOf(shape) ==
    CASE shape.kind \in {"uint", "int", "bool"}      -> VarintWire
      [] shape.kind = "raw" /\ shape.width = 4       -> Fixed32Wire
      [] shape.kind = "raw" /\ shape.width = 8       -> Fixed64Wire
      [] OTHER                                       -> DelimitedWire

(* The kinds of types there is a codec<T> for; a program with a field of   *)
(* another type does not compile.                                          *)
CodecKind == {"uint", "int", "bool", "raw", "string", "view", "bitset", "array", "vector",
              "optional", "object", "tuple", "variant"} \cup MapKind

-----------------------------------------------------------------------------
(* varint_byte_count                                                       *)
VarintSize(value) == 1 + Cardinality({n \in 1 .. MaxVarint - 1 : value >= 128 ^ n})

Varint(value) ==
    LET size == VarintSize(value)
    IN  [i \in 1 .. size |->
            ((value \div (128 ^ (i - 1))) % 128) + (IF i < size THEN 128 ELSE 0)]

(* The word in up to ten bytes; what the tenth has too much is cut off.    *)
Groups(bytes) ==
    LET low(i) == Digit(bytes, i) % 128
    IN  (low(1) + 128 * (low(2) + 128 * (low(3) + 128 * (low(4) + 128 * (low(5)
         + 128 * (low(6) + 128 * (low(7) + 128 * (low(8) + 128 * (low(9)
         + 128 * low(10)))))))))) % (2 ^ WordBits)

(* Mutant: a varint without an end is invalid, whatever cut it short.      *)
ReadVarintBlunt(data, pos, end) ==
    LET view == Peek(SubSeq(data, 1, end), pos, MaxVarint)
        last == {i \in DOMAIN view : view[i] < 128}
        size == CHOOSE i \in last : \A j \in last : i <= j
    IN  IF last # {} THEN Got(Groups(SubSeq(view, 1, size)), size)
        ELSE Failed("invalid_varint", "none", 0)

(* reader::read_varint in a window that ends at `end': nothing is consumed *)
(* unless the last byte of the varint is there.                            *)
ReadVarint(data, pos, end) ==
    LET view == Peek(SubSeq(data, 1, end), pos, MaxVarint)
        last == {i \in DOMAIN view : view[i] < 128}
        size == CHOOSE i \in last : \A j \in last : i <= j
    IN  IF last # {} THEN Got(Groups(SubSeq(view, 1, size)), size)
        ELSE Failed(IF Len(view) < MaxVarint THEN "truncated" ELSE "invalid_varint",
                    "none", 0)

(* parse_tag                                                               *)
NumberIn(key) == (key \div 8) % (2 ^ NumberBits)
WireIn(key)   == key % 8

Tag(number, wire) == Varint(8 * number + wire)

(* Mutant: a length is held against the bytes of the outermost window.     *)
ReadViewBeyond(data, pos, end, size) ==
    LET view == Peek(data, pos, size)
    IN  IF Len(view) = size THEN Got(view, size)
        ELSE Failed("truncated", "none", 0)

(* reader::read_view: all the bytes, or none of them.                      *)
ReadView(data, pos, end, size) ==
    LET view == Peek(SubSeq(data, 1, end), pos, size)
    IN  IF Len(view) = size THEN Got(view, size)
        ELSE Failed("truncated", "none", 0)

(* A length, and that many bytes: how many were consumed, also on failure, *)
(* and the stages the two steps name when they fail.                       *)
ReadDelimited(data, pos, end, length_stage, view_stage) ==
    LET length == ReadVarint(data, pos, end)
        view   == ReadView(data, pos + length.used, end, length.value)
    IN  IF ~length.ok THEN [length EXCEPT !.stage = length_stage]
        ELSE IF ~view.ok THEN Failed(view.code, view_stage, length.used)
        ELSE Got(view.value, length.used + view.used)

-----------------------------------------------------------------------------
(* The numbers a varint carries.  A negative integer is sign-extended to a *)
(* word when it is written, and what does not fit its type is cut off when *)
(* it is read.                                                             *)
Word(shape, value) ==
    CASE shape.kind = "bool" -> IF value THEN 1 ELSE 0
      [] OTHER               -> value % (2 ^ WordBits)

Converted(shape, word) ==
    CASE shape.kind = "bool" -> word # 0
      [] shape.kind = "uint" -> word % (shape.max + 1)
      [] shape.kind = "int"  ->
           LET range == shape.max - shape.min + 1
               low   == word % range
           IN  IF low > shape.max THEN low - range ELSE low

(* The codec of a scalar, without its key.                                 *)
ScalarBytes(shape, value) ==
    IF shape.kind = "raw" THEN value ELSE Varint(Word(shape, value))

ReadScalar(shape, data, pos, end) ==
    IF shape.kind = "raw" THEN ReadView(data, pos, end, shape.width)
    ELSE LET word == ReadVarint(data, pos, end)
         IN  IF word.ok THEN Got(Converted(shape, word.value), word.used) ELSE word

-----------------------------------------------------------------------------
(* Blobs: what is written as one length-delimited run of bytes.            *)

IsByteArray(shape) == shape.kind = "array" /\ IsByte(shape.elem)

IsBlob(shape) == shape.kind \in {"string", "view", "bitset"} \/ IsByteArray(shape)

BitsetBytes(n) == (n + 7) \div 8

(* trim_trailing_zeros                                                     *)
Trimmed(bytes) ==
    SubSeq(bytes, 1, Cardinality({i \in DOMAIN bytes :
                                    \E j \in i .. Len(bytes) : bytes[j] # 0}))

(* Mutant: an array of bytes is written in full.                           *)
BlobBytesWhole(shape, value) ==
    CASE shape.kind = "bitset" -> PackedInto(value, BitsetBytes(shape.size))
      [] shape.kind = "array"  -> [i \in DOMAIN value |-> value[i][1]]
      [] OTHER                 -> value

BlobBytes(shape, value) ==
    CASE shape.kind = "bitset" -> PackedInto(value, BitsetBytes(shape.size))
      [] shape.kind = "array"  -> Trimmed([i \in DOMAIN value |-> value[i][1]])
      [] OTHER                 -> value

-----------------------------------------------------------------------------
(* The values a program has codecs for.                                    *)

(* The values a codec hands to the codecs of its parts; `none' stands for  *)
(* std::nullopt.                                                           *)
Parts(fields, shape, val, none) ==
    CASE shape.kind = "object"   -> {<<fields[shape.type][i].shape, val[fields[shape.type][i].id]>> :
                                        i \in DOMAIN fields[shape.type]}
      [] shape.kind = "tuple"    -> {<<shape.elems[i], val[i]>> : i \in DOMAIN shape.elems}
      [] shape.kind = "variant"  -> {<<shape.elems[val[1]], val[2]>>}
      [] shape.kind = "optional" -> IF val = none THEN {} ELSE {<<shape.elem, val>>}
      [] shape.kind \in {"vector", "array"} /\ ~IsByteArray(shape) ->
           {<<shape.elem, val[i]>> : i \in DOMAIN val}
      [] shape.kind \in MapKind  ->
           {<<shape.key, key>> : key \in DOMAIN val}
           \cup {<<shape.elem, val[key]>> : key \in DOMAIN val}
      [] OTHER                   -> {}

(* A value is what its type says, as far as the codecs count on it.        *)
WellTyped(fields, shape, val) ==
    /\ shape.kind \in CodecKind /\ ~IsByte(shape)
    /\ shape.kind = "object"  => shape.type \in DOMAIN fields
    /\ shape.kind = "tuple"   => IsSeq(shape.elems)
    /\ shape.kind = "bitset"  => shape.size \in Nat
    /\ shape.kind \in MapKind => IsFiniteSet(DOMAIN val)
    /\ shape.kind \in {"raw", "string", "view", "vector", "array"} => IsSeq(val)

=============================================================================
