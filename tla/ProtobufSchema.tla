--------------------------- MODULE ProtobufSchema ---------------------------
(***************************************************************************)
(* The contract types the runs of the protobuf adapter use, and the        *)
(* records docs/adapters/protobuf.md prescribes for their fields, spelled  *)
(* out independently of the writer: a message is a sequence of records,    *)
(* each a key and a value, and says what it does to the object it is read  *)
(* into.                                                                   *)
(***************************************************************************)
EXTENDS ProtobufFormat, SequencesExt

Line == Object("Line")

ReportFields ==
    [Report |-> <<
        Descriptor(1, Sint(-128, 127), TRUE, NoLimit),
        Descriptor(2, String, FALSE, NoLimit),
        Descriptor(3, Vector(Uint(255)), TRUE, NoLimit),
        Descriptor(4, Line, TRUE, NoLimit),
        Descriptor(5, Vector(Line), TRUE, NoLimit),
        Descriptor(6, Variant(<<Uint(255), String, Line, Map(Uint(255), Bool)>>), TRUE, NoLimit),
        Descriptor(7, Map(Uint(255), Tuple(<<Sint(-128, 127), Bitset(10), Optional(Uint(255))>>)),
                   TRUE, NoLimit),
        Descriptor(8, Array(Raw(1), 3), TRUE, NoLimit),
        Descriptor(9, Optional(Raw(4)), FALSE, NoLimit),
        Descriptor(10, View, TRUE, NoLimit),
        Descriptor(11, Line, FALSE, NoLimit),
        Descriptor(12, UnorderedMap(Uint(255), String), TRUE, NoLimit),
        Descriptor(13, Array(Bool, 2), TRUE, NoLimit),
        Descriptor(14, Bool, FALSE, NoLimit),
        Descriptor(15, Optional(Uint(65535)), TRUE, NoLimit),
        Descriptor(16, Vector(String), FALSE, NoLimit) >>,
     Line |-> <<
        Descriptor(1, Uint(255), TRUE, NoLimit),
        Descriptor(2, String, FALSE, NoLimit),
        Descriptor(3, Vector(String), TRUE, NoLimit) >>]

(* The value types of a program whose root type is `type'; eight levels    *)
(* are more than any of its fields has.                                    *)
ShapesFrom(fields, type) ==
    FoldLeft(LAMBDA shapes, level :
                shapes \cup UNION {Components(fields, s) : s \in shapes},
             {Object(type)}, [level \in 1 .. 8 |-> level])

(* The values of a program that writes these objects; as many levels.      *)
ValuesFrom(fields, type, objects, none) ==
    FoldLeft(LAMBDA values, level :
                values \cup UNION {Parts(fields, v[1], v[2], none) : v \in values},
             {<<Object(type), o>> : o \in objects}, [level \in 1 .. 8 |-> level])

-----------------------------------------------------------------------------
(* Reference encodings.                                                    *)

Joined(seqs) == FoldLeft(LAMBDA a, b : a \o b, <<>>, seqs)

Text(s) == Varint(Len(s)) \o s

LineBytes(line) ==
    <<8>> \o Varint(line[1]) \o <<18>> \o Text(line[2])
    \o Joined([i \in DOMAIN line[3] |-> <<26>> \o Text(line[3][i])])

BitsetText(bits) == Text(PackedInto(bits, 2))

(* Position one is an integer, position two ten bits, position three an    *)
(* optional, which must hold something.                                    *)
TupleBytes(t) ==
    <<8>> \o Varint(t[1] % (2 ^ WordBits)) \o <<18>> \o BitsetText(t[2])
    \o <<24>> \o Varint(t[3])

SwitchBytes(v) ==
    LET payload ==
            CASE v[1] = 1 -> Varint(v[2])
              [] v[1] = 2 -> Text(v[2])
              [] v[1] = 3 -> LineBytes(v[2])
              [] v[1] = 4 -> Joined([i \in DOMAIN SetToSeq(DOMAIN v[2]) |->
                                LET k == SetToSeq(DOMAIN v[2])[i]
                                IN  Text(<<8>> \o Varint(k) \o <<16, IF v[2][k] THEN 1 ELSE 0>>)])
    IN  <<8, v[1] - 1, 18>> \o Text(payload)

(* A record: its bytes, the field it is for and what it does to the value  *)
(* the field has: replace it, append to it, add to a map, merge two lines, *)
(* add to the last field of a line.  A vector behind set() is replaced by  *)
(* one of the item the record holds: see the README.                       *)
Record(id, wire, payload, how, value) ==
    [bytes |-> Varint(8 * id + wire) \o payload, id |-> id, how |-> how, value |-> value]

Taken(value, r) ==
    CASE r.how = "set"    -> r.value
      [] r.how = "append" -> value \o r.value
      [] r.how = "put"    -> [k \in DOMAIN value \cup {r.value[1]} |->
                                 IF k = r.value[1] THEN r.value[2] ELSE value[k]]
      [] r.how = "merge"  -> <<r.value[1], r.value[2], value[3] \o r.value[3]>>
      [] r.how = "extend" -> [value EXCEPT ![3] = @ \o r.value]

Absorbed(o, r) == [o EXCEPT ![r.id] = Taken(@, r)]

(* What an object is after some records were read into it.                 *)
TakeAll(o, records) == FoldLeft(Absorbed, o, records)

Numbers(p, pack) ==
    IF pack THEN <<Record(3, 2, Text(Joined([i \in DOMAIN p[3] |-> Varint(p[3][i])])), "append", p[3])>>
    ELSE [i \in DOMAIN p[3] |-> Record(3, 0, Varint(p[3][i]), "append", <<p[3][i]>>)]

TupleEntry(k, t) == Record(7, 2, Text(<<8>> \o Varint(k) \o <<18>> \o Text(TupleBytes(t))), "put", <<k, t>>)
TextEntry(k, s)  == Record(12, 2, Text(<<8>> \o Varint(k) \o <<18>> \o Text(s)), "put", <<k, s>>)

(* The records of a report; `loose' is the order in which its unordered    *)
(* map is visited.                                                         *)
ReportRecords(p, loose, pack, none) ==
    LET keys == SetToSortSeq(DOMAIN p[7], LAMBDA a, b : a < b)
    IN  Joined(<<
            << Record(1, 0, Varint(p[1] % (2 ^ WordBits)), "set", p[1]),
               Record(2, 2, Text(p[2]), "set", p[2]) >>,
            Numbers(p, pack),
            << Record(4, 2, Text(LineBytes(p[4])), "merge", p[4]) >>,
            [i \in DOMAIN p[5] |-> Record(5, 2, Text(LineBytes(p[5][i])), "append", <<p[5][i]>>)],
            << Record(6, 2, Text(SwitchBytes(p[6])), "set", p[6]) >>,
            [i \in DOMAIN keys |-> TupleEntry(keys[i], p[7][keys[i]])],
            << Record(8, 2, Text(Trimmed(Joined(p[8]))), "set", p[8]) >>,
            IF p[9] = none THEN <<>> ELSE << Record(9, 5, p[9], "set", p[9]) >>,
            << Record(10, 2, Text(p[10]), "set", p[10]),
               Record(11, 2, Text(LineBytes(p[11])), "set", p[11]) >>,
            [i \in DOMAIN loose |-> TextEntry(loose[i], p[12][loose[i]])],
            << Record(13, 2, Text([i \in 1 .. 2 |-> IF p[13][i] THEN 1 ELSE 0]), "set", p[13]),
               Record(14, 0, <<IF p[14] THEN 1 ELSE 0>>, "set", p[14]) >>,
            IF p[15] = none THEN <<>> ELSE << Record(15, 0, Varint(p[15]), "set", p[15]) >>,
            [i \in DOMAIN p[16] |-> Record(16, 2, Text(p[16][i]), "set", <<p[16][i]>>)] >>)

(* ... in every order of that map.                                         *)
AllReportRecords(p, pack, none) ==
    {ReportRecords(p, loose, pack, none) : loose \in SetToSeqs(DOMAIN p[12])}

BytesOf(records) == Joined([i \in DOMAIN records |-> records[i].bytes])

-----------------------------------------------------------------------------
(* Reports.  None has an empty vector of scalars: see the README.          *)

Bits(n, ones) == [i \in 1 .. n |-> IF i \in ones THEN 1 ELSE 0]

NoKeys == [k \in {} |-> k]

Full ==
    << -1, <<7>>, <<3, 200>>, <<1, <<9>>, << <<2>>, <<>> >> >>,
       << <<0, <<>>, <<>> >>, <<130, <<1>>, << <<4>> >> >> >>,
       <<3, <<5, <<>>, << <<1>> >> >> >>,
       [k \in {1, 2} |-> <<-k, Bits(10, {1, 9, 10}), k + 127>>],
       << <<1>>, <<0>>, <<0>> >>, <<1, 2, 3, 4>>, <<8, 9>>, <<2, <<3>>, << <<1>> >> >>,
       [k \in {129} |-> <<k>>], <<TRUE, FALSE>>, TRUE, 40000, << <<>>, <<6>> >> >>

Plain(none) ==
    << 0, <<>>, <<0>>, <<0, <<>>, <<>> >>, <<>>, <<1, 0>>, NoKeys,
       << <<0>>, <<0>>, <<0>> >>, none, <<>>, <<0, <<>>, <<>> >>, NoKeys,
       <<FALSE, FALSE>>, FALSE, none, <<>> >>

Other(none) ==
    [Plain(none) EXCEPT ![1] = 100, ![3] = <<255>>, ![4] = <<255, <<>>, << <<>> >> >>,
        ![6] = <<4, [k \in {7, 200} |-> k = 7]>>, ![7] = [k \in {2} |-> <<127, Bits(10, {2}), 0>>],
        ![8] = << <<0>>, <<2>>, <<3>> >>, ![12] = [k \in {0, 255} |-> <<k>>], ![15] = 128, ![16] = << <<1, 1>> >>]

=============================================================================
