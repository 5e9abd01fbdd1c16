--------------------------- MODULE MCBinaryStream ---------------------------
(***************************************************************************)
(* BinaryStream on pairs of parcels, cut off by the output at a few sizes  *)
(* and by the transport at every byte.                                     *)
(***************************************************************************)
EXTENDS BinaryStream, BinarySchema

MCKey == <<19, 87, 155, 223>>

MCFields == ParcelFields
MCShapes == ShapesFrom(ParcelFields, "Parcel")

Chosen == [Empty(Null) EXCEPT ![2] = <<200, 255>>, ![4] = LabelOf(<<1, 0>>, 255, 7),
                              ![5] = <<1, <<128>> >>, ![7] = <<255>>]

(* One over each kind of limit: check::max_length of a string and a view,  *)
(* check::max_items of a map and a vector, check::max_bytes of a vector,   *)
(* and of a string inside encrypted fields.                                *)
LongName  == [Full EXCEPT ![2] = <<1, 2, 3>>]
LongView  == [Empty(Null) EXCEPT ![7] = <<1, 1, 1, 1>>]
ManyKeys  == [Empty(Null) EXCEPT ![6] =
                [k \in { <<1>>, <<2>>, <<3>> } |-> << k, Bits(70, {}) >>]]
TooMany   == [Full EXCEPT ![8] = @ \o @]
ManyBytes == [Empty(Null) EXCEPT ![3] = << <<1, 1>>, <<1, 1>>, <<1, 1>> >>]
LongLabel == [Empty(Null) EXCEPT ![8] =
                << LabelOf(<<1>>, 1, 1), LabelOf(<<1, 2, 3>>, 1, 1) >>]

Refused == {LongName, LongView, ManyKeys, TooMany, ManyBytes, LongLabel}

MCObjects == {Full, Empty(Null), Chosen} \cup Refused

(* The reader's object holds values that no object sent has.               *)
MCInitialObject ==
    [Default(Fields, Shapes, Object("Parcel"), Null) EXCEPT
        ![2] = <<9>>, ![3] = << <<9, 9>> >>, ![5] = <<1, <<9>> >>,
        ![8] = <<LabelOf(<<9>>, 9, 9)>>, ![9] = << <<9>>, <<9, 9>> >>,
        ![10] = << <<9>>, <<9>> >>, ![6] = [k \in {<<9>>} |-> << k, Bits(70, {9}) >>]]

(* A view shows its bytes, unless they are those of a scratch buffer that  *)
(* is gone.                                                                *)
MCSeen(o, bytes) ==
    [o EXCEPT ![7] = IF o[7].scratch THEN <<"dangling">>
                     ELSE SubSeq(bytes, o[7].at + 1, o[7].at + o[7].size)]

-----------------------------------------------------------------------------
Encodings(p) ==
    {ParcelBytes(p, order, Null) : order \in SetToSeqs(DOMAIN p[11])}

(* At every moment what the current write has put out is a prefix of the   *)
(* encoding the format prescribes for its object, encrypted fields under   *)
(* one key stream each, and all of it once operator<< has returned.        *)
CommittedIsPrefix ==
    LET part == SubSeq(out, start + 1, Len(out))
    IN  ~received =>
          /\ writes > 0 => \E whole \in Encodings(wobject) : IsPrefix(part, whole)
          /\ wstatus = "ok" => part \in Encodings(wobject)

(* A write fails only for a reason and says which: a field over one of its *)
(* check:: attributes, or an encoding that does not fit into what was left *)
(* of the output; and it never succeeds when it should have failed.  The   *)
(* diagnostic has a stage and a field, and nothing of an encrypting output *)
(* is left, so that the next write would start in the clear.               *)
Size(p) == Len(ParcelBytes(p, SetToSeq(DOMAIN p[11]), Null))

FailsForAReason ==
    LET fits == start + Size(wobject) <= wcapacity
    IN  ~received =>
          /\ wstatus = "ok" => wobject \notin Refused /\ fits
          /\ wstatus = "error" =>
                /\ IF werror.code = "output_error" THEN ~fits
                   ELSE /\ wobject \in Refused
                        /\ werror.code # "none" /\ werror.stage = "attribute_guard"
                /\ werror.stage # Absent /\ werror.field # Absent
                /\ woffset = W!Clear

=============================================================================
