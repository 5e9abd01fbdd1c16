-------------------------- MODULE MCProtobufStream --------------------------
(***************************************************************************)
(* ProtobufStream on one or two reports, cut at every byte.                *)
(***************************************************************************)
EXTENDS ProtobufStream, TLC

P == INSTANCE ProtobufSchema

MCShapes == P!ShapesFrom(P!ReportFields, "Report")

MCObjects == {P!Full, P!Other(Null)}

MCValues == P!ValuesFrom(P!ReportFields, "Report", MCObjects, Null)

(* A fresh object.                                                         *)
MCInitialObject == P!Default(P!ReportFields, MCShapes, P!Object("Report"), Null)

MCMessages(o, packed) == P!AllReportRecords(o, packed, Null)

MCAfterRecord(o, r) == P!Absorbed(o, r)

MCFields == P!ReportFields

(* A view shows its bytes.                                                 *)
MCSeen(o, bytes) ==
    [o EXCEPT ![10] = SubSeq(bytes, o[10].at + 1, o[10].at + o[10].size)]

(* A vector behind set() loses every item but the last: see the README.    *)
MCKept(o) == [o EXCEPT ![16] = IF @ = <<>> THEN @ ELSE <<P!Last(@)>>]

=============================================================================
