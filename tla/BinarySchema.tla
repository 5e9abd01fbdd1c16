---------------------------- MODULE BinarySchema ----------------------------
(***************************************************************************)
(* The contract types the runs of the binary adapter use, and the bytes    *)
(* docs/adapters/binary.md prescribes for them, spelled out independently  *)
(* of the writer: fields one after the other, a std::size_t in front of    *)
(* whatever has no fixed size, and the whole of an encrypted field, nested *)
(* encrypted fields included, under one key stream.                        *)
(***************************************************************************)
EXTENDS BinaryFormat, ContractSchema, SequencesExt

ParcelFields ==
    [Parcel |-> <<
        Descriptor(1, Raw(2), TRUE, NoLimit),
        Encrypted(Descriptor(2, String, TRUE, 2)),
        WithMaxBytes(Descriptor(3, Vector(Raw(2)), TRUE, NoLimit), 4),
        Encrypted(Descriptor(4, Object("Label"), TRUE, NoLimit)),
        Descriptor(5, Optional(Variant(<<Raw(1), String>>)), FALSE, NoLimit),
        Descriptor(6, Map(Raw(1), Tuple(<<Raw(1), Bitset(70)>>)), TRUE, 2),
        Descriptor(7, View, TRUE, 3),
        Encrypted(Descriptor(8, Vector(Object("Label")), FALSE, 2)),
        Descriptor(9, Array(String, 2), TRUE, NoLimit),
        Descriptor(10, Span(Raw(1), 2), TRUE, NoLimit),
        Descriptor(11, UnorderedMap(Raw(1), Bitset(4)), TRUE, NoLimit) >>,
     Label |-> <<
        Encrypted(WithMaxBytes(Descriptor(1, String, FALSE, NoLimit), 2)),
        Descriptor(2, Array(Raw(1), 2), TRUE, NoLimit) >>]

(* The value types of a program whose root type is `type'; eight levels    *)
(* are more than any of its fields has.                                    *)
ShapesFrom(fields, type) ==
    FoldLeft(LAMBDA shapes, level :
                shapes \cup UNION {Components(fields, s) : s \in shapes},
             {Object(type)}, [level \in 1 .. 8 |-> level])

-----------------------------------------------------------------------------
(* Reference encodings.                                                    *)

Joined(seqs) == FoldLeft(LAMBDA a, b : a \o b, <<>>, seqs)

Sized(count, bytes) == LittleUint(count, SizeBytes) \o bytes

Text(s) == Sized(Len(s), s)

(* The key repeated over the bytes of one encrypted field.                 *)
Masked(bytes) ==
    [i \in DOMAIN bytes |->
        Xor(bytes[i], Joined([j \in 1 .. 1 + Len(bytes) \div 4 |-> Key])[i])]

LabelBytes(label) == Text(label[1]) \o label[2][1] \o label[2][2]

VariantBytes(v) == LittleUint(v[1] - 1, SizeBytes) \o (IF v[1] = 1 THEN v[2] ELSE Text(v[2]))

(* `bytes' are the encodings of the values, by key.                        *)
MapBytes(keys, bytes) ==
    Sized(Len(keys), Joined([i \in DOMAIN keys |-> keys[i] \o bytes[keys[i]]]))

(* `loose' is the order in which the unordered map is visited.             *)
ParcelBytes(p, loose, none) ==
    LET sorted == SetToSortSeq(DOMAIN p[6], LAMBDA a, b : a[1] < b[1])
    IN  Joined(<<
            p[1],
            Masked(Text(p[2])),
            Sized(Len(p[3]), Joined(p[3])),
            Masked(LabelBytes(p[4])),
            IF p[5] = none THEN <<0>> ELSE <<1>> \o VariantBytes(p[5]),
            MapBytes(sorted, [k \in DOMAIN p[6] |-> p[6][k][1] \o PackedBits(p[6][k][2])]),
            Text(p[7]),
            Masked(Sized(Len(p[8]), Joined([i \in DOMAIN p[8] |-> LabelBytes(p[8][i])]))),
            Text(p[9][1]), Text(p[9][2]),
            Sized(2, Joined(p[10])),
            MapBytes(loose, [k \in DOMAIN p[11] |-> PackedBits(p[11][k])]) >>)

-----------------------------------------------------------------------------
(* Parcels.                                                                *)

Bits(n, ones) == [i \in 1 .. n |-> IF i \in ones THEN 1 ELSE 0]

NoKeys == [k \in {} |-> k]

LabelOf(s, a, b) == << s, << <<a>>, <<b>> >> >>

(* Every field is filled up to its limits, if it has any.                  *)
Full ==
    << <<1, 2>>, <<3, 0>>, << <<1, 0>>, <<2, 3>> >>, LabelOf(<<7>>, 1, 2),
       <<2, <<3>> >>,
       [k \in { <<1>>, <<2>> } |-> << k, Bits(70, {1, 65, 70}) >>],
       <<3, 2, 1>>, <<LabelOf(<<>>, 0, 3), LabelOf(<<1, 2>>, 1, 1)>>,
       << <<>>, <<2>> >>, << <<2>>, <<3>> >>,
       [k \in { <<0>>, <<3>> } |-> Bits(4, {2})] >>

Empty(none) ==
    << <<0, 0>>, <<>>, <<>>, LabelOf(<<>>, 0, 0), none, NoKeys, <<>>, <<>>,
       << <<>>, <<>> >>, << <<0>>, <<0>> >>, NoKeys >>

=============================================================================
