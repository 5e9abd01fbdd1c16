--------------------------- MODULE MCBinaryReader ---------------------------
(***************************************************************************)
(* BinaryReader on the encoding of a parcel cut anywhere and continued by  *)
(* every short byte sequence over an alphabet that holds sizes which fit,  *)
(* which do not, and which wrap around when multiplied.  A std::size_t has *)
(* one byte here.                                                          *)
(***************************************************************************)
EXTENDS BinaryReader, BinarySchema

CONSTANTS Alphabet, MaxLength

MCKey == <<1, 3, 0, 2>>

MCFields == ParcelFields
MCShapes == ShapesFrom(ParcelFields, "Parcel")

Whole == ParcelBytes(Full, << <<3>>, <<0>> >>, Null)

MCInputs ==
    {SubSeq(Whole, 1, cut) \o tail :
        cut \in 0 .. Len(Whole),
        tail \in UNION {[1 .. n -> Alphabet] : n \in 0 .. MaxLength}}

(* An object that already holds values, to see what a read leaves of them. *)
MCInitialObject ==
    [Default(ParcelFields, MCShapes, Object("Parcel"), Null) EXCEPT
        ![2] = <<9>>, ![3] = << <<9, 9>> >>, ![5] = <<1, <<9>> >>,
        ![8] = <<LabelOf(<<9>>, 9, 9)>>, ![9] = << <<9>>, <<9, 9>> >>]

(* A type with a borrowed field in the clear and one that is encrypted.    *)
NoteFields ==
    [Note |-> << Descriptor(1, View, TRUE, NoLimit),
                 Encrypted(Descriptor(2, View, TRUE, NoLimit)) >>]
NoteShapes == ShapesFrom(NoteFields, "Note")
NoteInputs == {Text(<<1, 2>>) \o Masked(Text(<<3>>))}
NoteObject == Default(NoteFields, NoteShapes, Object("Note"), Null)

-----------------------------------------------------------------------------
(* The user's object is well formed whatever was read into it, also when   *)
(* the read failed half way or resize() threw: every value is one of its   *)
(* C++ type, no field is longer than its check:: attributes allow, byte    *)
(* sizes that wrap around std::size_t included, and a view that points     *)
(* into the input points at bytes that have been read.                     *)
RawOK(width)  == [1 .. width -> Byte]
BitsOK(n)     == [1 .. n -> {0, 1}]

LabelOK(label) ==
    /\ DOMAIN label = {1, 2}
    /\ label[1] \in Seq(Byte) /\ Len(label[1]) <= 2
    /\ label[2] \in [1 .. 2 -> RawOK(1)]

ObjectWellFormed ==
    /\ DOMAIN object = FieldIds(Fields, "Parcel")
    /\ object[1] \in RawOK(2)
    /\ object[2] \in Seq(Byte) /\ Len(object[2]) <= 2
    /\ object[3] \in Seq(RawOK(2)) /\ 2 * Len(object[3]) <= 4
    /\ LabelOK(object[4])
    /\ \/ object[5] = Null
       \/ object[5][1] = 1 /\ object[5][2] \in RawOK(1)
       \/ object[5][1] = 2 /\ object[5][2] \in Seq(Byte)
    /\ Cardinality(DOMAIN object[6]) <= 2
    /\ \A k \in DOMAIN object[6] :
          k \in RawOK(1) /\ object[6][k] \in RawOK(1) \X BitsOK(70)
    /\ object[7].size <= 3 /\ object[7].at + object[7].size <= pos
    /\ Len(object[8]) <= 2 /\ \A i \in DOMAIN object[8] : LabelOK(object[8][i])
    /\ object[9] \in [1 .. 2 -> Seq(Byte)]
    /\ object[10] \in [1 .. 2 -> RawOK(1)]
    /\ \A k \in DOMAIN object[11] : k \in RawOK(1) /\ object[11][k] \in BitsOK(4)

=============================================================================
