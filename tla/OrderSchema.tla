---------------------------- MODULE OrderSchema -----------------------------
(***************************************************************************)
(* The contract types the model checking runs use, and the bytes that      *)
(* docs/adapters/compact.md prescribes for their objects, spelled out      *)
(* field by field, independently of the writer.                            *)
(***************************************************************************)
EXTENDS CompactFormat, ContractSchema, SequencesExt

Octet == Uint(255)

OrderFields ==
    [Order |-> << Descriptor(1, Octet, TRUE, NoLimit),
                  Descriptor(2, Object("Customer"), TRUE, NoLimit),
                  Descriptor(3, String, TRUE, 1),
                  Descriptor(4, Vector(Octet), TRUE, 2),
                  Descriptor(5, Map(Octet, Object("Customer")), FALSE, 2),
                  Descriptor(6, Optional(Object("Customer")), TRUE, NoLimit),
                  Descriptor(7, Tuple(<<Array(Raw(1), 3), Bitset(10), Optional(Octet)>>),
                             TRUE, NoLimit),
                  Descriptor(8, Variant(<<Octet, String, Object("Stamp")>>), TRUE, NoLimit),
                  Descriptor(9, Span(Object("Point"), 2), TRUE, 3),
                  Descriptor(10, UnorderedMap(Octet, Bitset(4)), FALSE, 2),
                  Descriptor(11, Span(Raw(1), 2), TRUE, 2) >>,
     Customer |-> << Descriptor(1, Sint(-128, 127), TRUE, NoLimit),
                     Descriptor(2, Bool, FALSE, NoLimit),
                     Descriptor(3, Float, TRUE, NoLimit),
                     Descriptor(4, Vector(String), FALSE, 1) >>,
     Point |-> << Descriptor(1, Octet, TRUE, NoLimit),
                  Descriptor(2, Array(Bool, 2), TRUE, NoLimit) >>,
     Stamp |-> << Descriptor(2, Array(Raw(1), 2), TRUE, 1) >>]

(* The value types of a program whose root type is Order; eight levels are *)
(* more than any of its fields has.                                        *)
OrderShapes(fields) ==
    FoldLeft(LAMBDA shapes, level :
                shapes \cup UNION {Components(fields, s) : s \in shapes},
             {Object("Order")}, [level \in 1 .. 8 |-> level])

-----------------------------------------------------------------------------
(* Reference encodings.                                                    *)

Sized(base, count) ==
    IF count < 15 THEN <<base + count>> ELSE <<base + 15>> \o WriteUint(count)

Joined(seqs) == FoldLeft(LAMBDA a, b : a \o b, <<>>, seqs)

StringBytes(s) == Sized(112, Len(s)) \o s

CustomerBytes(c) ==
    Joined(<< Sized(160, 4), <<1>>, WriteInt(c[1]), <<2>>, WriteBool(c[2]),
              <<3, 196>>, c[3], <<4>>, Sized(128, Len(c[4])),
              Joined([i \in DOMAIN c[4] |-> StringBytes(c[4][i])]) >>)

OptionalBytes(v, bytes, none) == IF v = none THEN <<178>> ELSE bytes

(* A map visited in the order of `keys'; `bytes' are its encoded values.   *)
MapBytes(keys, bytes) ==
    Sized(144, Len(keys))
    \o Joined([i \in DOMAIN keys |-> WriteUint(keys[i]) \o bytes[keys[i]]])

Numbers(keys) == SetToSortSeq(keys, LAMBDA a, b : a < b)

BlobBytes(items) == Sized(96, Len(items)) \o Joined(items)

(* How much of an array of bytes is sent: all but its trailing zeros.      *)
Trimmed(items) ==
    SubSeq(items, 1, Cardinality({i \in DOMAIN items :
        \E j \in i .. Len(items) : items[j] # <<0>>}))

BitsetBytes(bits) == LET n == (Len(bits) + 7) \div 8 IN <<96 + n>> \o PackedInto(bits, n)

TupleBytes(t, none) ==
    <<131>> \o BlobBytes(Trimmed(t[1])) \o BitsetBytes(t[2])
    \o OptionalBytes(t[3], WriteUint(t[3]), none)

VariantBytes(v) ==
    <<130, v[1] - 1>> \o (IF v[1] = 1 THEN WriteUint(v[2]) ELSE StringBytes(v[2]))

PointBytes(p) ==
    <<162, 1>> \o WriteUint(p[1]) \o <<2, 130>> \o WriteBool(p[2][1]) \o WriteBool(p[2][2])

(* `loose' is the order in which the unordered map is visited.             *)
OrderBytes(o, loose, none) ==
    Joined(<< Sized(160, Len(o)), <<1>>, WriteUint(o[1]), <<2>>, CustomerBytes(o[2]),
              <<3>>, StringBytes(o[3]), <<4>>, Sized(128, Len(o[4])),
              Joined([i \in DOMAIN o[4] |-> WriteUint(o[4][i])]),
              <<5>>, MapBytes(Numbers(DOMAIN o[5]),
                              [k \in DOMAIN o[5] |-> CustomerBytes(o[5][k])]),
              <<6>>, OptionalBytes(o[6], CustomerBytes(o[6]), none),
              <<7>>, TupleBytes(o[7], none), <<8>>, VariantBytes(o[8]),
              <<9, 130>>, PointBytes(o[9][1]), PointBytes(o[9][2]),
              <<10>>, MapBytes(loose, [k \in DOMAIN o[10] |-> BitsetBytes(o[10][k])]),
              <<11>>, BlobBytes(o[11]) >>)

=============================================================================
