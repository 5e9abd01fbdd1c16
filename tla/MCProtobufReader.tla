-------------------------- MODULE MCProtobufReader --------------------------
(***************************************************************************)
(* ProtobufReader on the encoding of a report that was damaged: cut        *)
(* anywhere and continued by a byte, or with any one of its bytes          *)
(* replaced.                                                               *)
(***************************************************************************)
EXTENDS ProtobufReader, ProtobufSchema

CONSTANTS Sampled, Alphabet

MCFields == ReportFields
MCShapes == ShapesFrom(ReportFields, "Report")

Whole ==
    BytesOf(SelectSeq(ReportRecords(Full, <<129>>, TRUE, Null),
                      LAMBDA r : r.id \in Sampled))

MCInputs ==
    {SubSeq(Whole, 1, cut) \o tail :
        cut \in 0 .. Len(Whole), tail \in {<<>>} \cup {<<b>> : b \in Alphabet}}
    \cup {[Whole EXCEPT ![i] = b] : i \in DOMAIN Whole, b \in Alphabet}

(* An object that already holds values, to see what a read leaves of them. *)
MCInitialObject ==
    [Default(ReportFields, MCShapes, Object("Report"), Null) EXCEPT
        ![2] = <<9>>, ![3] = <<9>>, ![4] = <<9, <<9>>, << <<9>> >> >>, ![5] = << <<9, <<9>>, <<>> >> >>,
        ![6] = <<2, <<9>> >>, ![7] = [k \in {9} |-> <<9, Bits(10, {9}), 9>>],
        ![8] = << <<9>>, <<9>>, <<9>> >>, ![9] = <<9, 9, 9, 9>>, ![13] = <<TRUE, TRUE>>, ![15] = 9]

-----------------------------------------------------------------------------
(* The user's object is well formed whatever was read into it, also when   *)
(* the read failed half way: every value is one of its C++ type, what it   *)
(* held before is still there in front of what was appended, a view points *)
(* at bytes that have been read, and a fixed-size block has its size.      *)
BitsOK(n) == [1 .. n -> {0, 1}]

LineOK(line) ==
    /\ DOMAIN line = 1 .. 3
    /\ line[1] \in Byte /\ line[2] \in Seq(Byte) /\ line[3] \in Seq(Seq(Byte))

SwitchOK(v) ==
    \/ v[1] = 1 /\ v[2] \in Byte
    \/ v[1] = 2 /\ v[2] \in Seq(Byte)
    \/ v[1] = 3 /\ LineOK(v[2])
    \/ v[1] = 4 /\ \A k \in DOMAIN v[2] : k \in Byte /\ v[2][k] \in BOOLEAN

ObjectWellFormed ==
    /\ DOMAIN object = 1 .. 16
    /\ object[1] \in -128 .. 127 /\ object[2] \in Seq(Byte)
    /\ object[3] \in Seq(Byte) /\ IsPrefix(InitialObject[3], object[3])
    /\ LineOK(object[4]) /\ IsPrefix(InitialObject[4][3], object[4][3])
    /\ \A i \in DOMAIN object[5] : LineOK(object[5][i])
    /\ IsPrefix(InitialObject[5], object[5])
    /\ SwitchOK(object[6])
    /\ \A k \in DOMAIN object[7] :
          /\ k \in Byte /\ object[7][k][1] \in -128 .. 127 /\ object[7][k][2] \in BitsOK(10)
          /\ object[7][k][3] = Null \/ object[7][k][3] \in Byte
    /\ DOMAIN InitialObject[7] \subseteq DOMAIN object[7]
    /\ object[8] \in [1 .. 3 -> [1 .. 1 -> Byte]]
    /\ object[9] = Null \/ object[9] \in [1 .. 4 -> Byte]
    /\ object[10].at + object[10].size <= pos
    /\ LineOK(object[11])
    /\ \A k \in DOMAIN object[12] : k \in Byte /\ object[12][k] \in Seq(Byte)
    /\ object[13] \in [1 .. 2 -> BOOLEAN] /\ object[14] \in BOOLEAN
    /\ object[15] = Null \/ object[15] \in 0 .. 65535
    /\ object[16] \in Seq(Seq(Byte))

(* docs/rationale/errors.md: a read that throws says what failed and where.*)
(* What failed goes missing only inside a variant.  The number and the name*)
(* it gives are those of one field, but for a position of a tuple, which   *)
(* has no name: there the name is that of the value of the map's entry the *)
(* tuple is.                                                               *)
DiagnosticComplete ==
    /\ FailureTold
    /\ status = "error" =>
          /\ error.code = "unknown" => error.type = "Report" /\ error.name = 6
          /\ error.name \notin {Absent, error.field} =>
                error.type = "Report" /\ error.name = 2 /\ error.field \in {1, 3}

=============================================================================
