------------------------- MODULE MCProtobufRecords -------------------------
(***************************************************************************)
(* ProtobufReader on records in every order, repeated and left out, as a   *)
(* writer of another program may have put them together; on such records   *)
(* with one among them that must be refused; and on each of them cut short *)
(* anywhere.                                                               *)
(***************************************************************************)
EXTENDS ProtobufReader, ProtobufSchema

VARIABLE records   \* what the input was put together from

MCFields == ReportFields
MCShapes == ShapesFrom(ReportFields, "Report")

MCInitialObject == [Full EXCEPT ![10] = [scratch |-> FALSE, at |-> 0, size |-> 0]]

-----------------------------------------------------------------------------
(* Records the format allows and the writer does not put out, among those  *)
(* it does: packed and not, longer varints than needed, the fields of a    *)
(* line shuffled or left out, a tuple's positions swapped, an entry's value*)
(* in front of its key, without its key, with two keys.                    *)
Swapped(t) ==
    <<24>> \o Varint(t[3]) \o <<18>> \o BitsetText(t[2])
    \o <<8>> \o Varint(t[1] % (2 ^ WordBits))

Good ==
    { Record(1, 0, <<131, 128, 0>>, "set", 3),
      Record(2, 2, Text(<<1, 2>>), "set", <<1, 2>>),
      Record(3, 2, Text(Varint(1) \o Varint(130)), "append", <<1, 130>>),
      Record(3, 2, <<0>>, "append", <<>>),
      Record(3, 0, <<5>>, "append", <<5>>),
      Record(4, 2, Text(<<26, 1, 7, 18, 1, 6, 8, 5>>), "merge", <<5, <<6>>, << <<7>> >> >>),
      Record(4, 2, Text(<<26, 0>>), "extend", << <<>> >>),
      Record(5, 2, Text(<<18, 1, 4>>), "append", << <<0, <<4>>, <<>> >> >>),
      Record(6, 2, Text(SwitchBytes(<<1, 200>>)), "set", <<1, 200>>),
      Record(6, 2, Text(SwitchBytes(<<4, [k \in {7} |-> TRUE]>>)), "set", <<4, [k \in {7} |-> TRUE]>>),
      Record(7, 2, Text(<<18>> \o Text(Swapped(<<-5, Bits(10, {2}), 4>>)) \o <<8, 2>>), "put", <<2, <<-5, Bits(10, {2}), 4>> >>),
      Record(7, 2, Text(<<18>> \o Text(TupleBytes(<<6, Bits(10, {}), 0>>))), "put", <<0, <<6, Bits(10, {}), 0>> >>),
      Record(7, 2, Text(<<8, 9, 8, 2>>), "put", <<2, <<0, Bits(10, {}), Null>> >>),
      Record(8, 2, <<1, 5>>, "set", << <<5>>, <<0>>, <<0>> >>),
      Record(11, 2, <<0>>, "set", <<0, <<>>, <<>> >>),
      Record(12, 2, Text(<<18, 0, 8, 4>>), "put", <<4, <<>> >>),
      Record(13, 2, <<2, 0, 2>>, "set", <<FALSE, TRUE>>),
      Record(15, 0, Varint(300), "set", 300),
      Record(16, 2, Text(<<7>>), "set", << <<7>> >>) }

(* Records that docs/adapters/protobuf.md calls errors and the reader      *)
(* takes: bytes behind the payload of a variant, a field number that is 1  *)
(* when it is cut to the width of a field number, and 100 for an enum of   *)
(* which it is no enumerator (field 1 is a signed char or an enum of that  *)
(* underlying type).                                                       *)
Lax ==
    { Record(6, 2, Text(<<8, 0, 18, 1, 7, 24, 9>>), "set", <<1, 7>>),
      [Record(1, 0, <<>>, "set", 2) EXCEPT !.bytes = Varint(8 * (2 ^ NumberBits + 1)) \o <<2>>],
      Record(1, 0, <<100>>, "set", 100) }

(* Records that must be refused, with the code of the refusal: a position  *)
(* of a tuple twice, one missing, a bitset, an array or a block of the     *)
(* wrong size, more in a payload than its alternative takes, numbers nobody*)
(* declared, a value of another wire type, a varint without an end, and an *)
(* alternative cut short, whose refusal says nothing.  A tuple whose       *)
(* optional is empty is written without it, and refused for that.          *)
Entry(tuple) == Text(<<8, 1, 18>> \o Text(tuple))

Bad ==
    { Record(7, 2, Entry(<<8, 1, 8, 1>> \o <<18, 2, 0, 0>>), "refuse", "duplicate_field"),
      Record(7, 2, Entry(<<8, 1>>), "refuse", "invalid_size"),
      Record(7, 2, Entry(<<8, 1, 18, 2, 0, 0>>), "refuse", "invalid_size"),
      Record(7, 2, Entry(<<8, 1, 18, 1, 0>>), "refuse", "invalid_size"),
      Record(7, 2, Entry(<<8, 1, 32, 1>>), "refuse", "unknown_field"),
      Record(7, 2, Text(<<8, 1, 24, 1>>), "refuse", "unknown_field"),
      Record(8, 2, Text(<<1, 2, 3, 4>>), "refuse", "invalid_size"),
      Record(13, 2, Text(<<1, 0, 1>>), "refuse", "invalid_size"),
      Record(13, 2, Text(<<1>>), "refuse", "invalid_size"),
      Record(6, 2, Text(<<8, 0, 18, 2, 1, 1>>), "refuse", "invalid_size"),
      Record(6, 2, Text(<<8, 2, 18>> \o Text(<<18, 5, 1>>)), "refuse", "unknown"),
      Record(5, 2, Text(<<32, 1>>), "refuse", "unknown_field"),
      Record(17, 0, <<1>>, "refuse", "unknown_field"),
      Record(0, 0, <<1>>, "refuse", "field_number_zero"),
      Record(1, 2, <<0>>, "refuse", "wire_type_mismatch"),
      Record(15, 5, <<0, 0, 0, 0>>, "refuse", "wire_type_mismatch"),
      Record(4, 2, Text(<<8, 128, 128, 128>>), "refuse", "invalid_varint") }

Alike == {<<a, b, c>> \in Good \X Good \X Good : a.id = b.id /\ b.id = c.id}

Pool == Good \cup Lax \cup Bad

MCInputs ==
    {BytesOf(pair) : pair \in (Good \cup Lax) \X (Good \cup Lax)}
    \cup {BytesOf(list) : list \in Alike \cup Bad \X Good \cup Good \X Bad}
    \cup UNION {{SubSeq(r.bytes, 1, size) : size \in DOMAIN r.bytes} : r \in Pool}

(* The records in some bytes, as far as they are whole.                    *)
RecordsIn(bytes) ==
    LET from[at \in 0 .. Len(bytes)] ==
            LET next == {r \in Pool : IsPrefix(r.bytes, SubSeq(bytes, at + 1, Len(bytes)))}
                r    == CHOOSE x \in next : \A y \in next : Len(x.bytes) >= Len(y.bytes)
            IN  IF next = {} THEN <<>> ELSE <<r>> \o from[at + Len(r.bytes)]
    IN  from[0]

MCInit == Init /\ records = RecordsIn(input)
MCNext == Next /\ UNCHANGED records
MCSpec == MCInit /\ [][MCNext]_<<vars, records>> /\ WF_vars(Step)

IsWhole == BytesOf(records) = input

-----------------------------------------------------------------------------
Refused == {i \in DOMAIN records : records[i].how = "refuse"}

(* docs/adapters/protobuf.md: "repeated scalar fields are read from both   *)
(* packed and unpacked wire forms", "field order on the wire is ignored",  *)
(* "`last wins` on duplicate keys": records of a message in any order, any *)
(* number of times, are read one after the other into what the object      *)
(* holds: the last value of a field and of a key stays, items add up in    *)
(* order, a message in place is merged, one behind set() is replaced.      *)
RecordsMerge ==
    status \in {"ok", "error"} /\ Refused = {} /\ IsWhole =>
        status = "ok" /\ pos = Len(input) /\ object = TakeAll(InitialObject, records)

(* A record that must be refused is, with its code and at a byte of it; no *)
(* record behind it is read, and what is in front of it was, but for what  *)
(* the refused one may have left in its own field.                         *)
BadRecordRefused ==
    status \in {"ok", "error"} =>
        \A i \in Refused :
            LET before == SubSeq(records, 1, i - 1)
                taken  == TakeAll(InitialObject, before)
            IN  /\ status = "error"
                /\ error.code = records[i].value
                /\ error.offset \in Len(BytesOf(before)) .. Len(BytesOf(SubSeq(records, 1, i)))
                /\ \A id \in DOMAIN object \ {records[i].id} : object[id] = taken[id]

=============================================================================
