-------------------------- MODULE MCProtobufWriter --------------------------
(***************************************************************************)
(* ProtobufWriter on reports, two after the other, into outputs of every   *)
(* size up to more than a large and a small one need.  A report to write   *)
(* has one more field than one that is read: a message with a vector of    *)
(* numbers.                                                                *)
(***************************************************************************)
EXTENDS ProtobufWriter, ProtobufSchema

CONSTANTS MaxCapacity

NotedFields ==
    [Report |-> Append(ReportFields.Report, Descriptor(17, Object("Note"), TRUE, NoLimit)),
     Line   |-> ReportFields.Line,
     Note   |-> << Descriptor(1, Vector(Uint(255)), TRUE, NoLimit) >>]

MCFields == NotedFields
MCCapacities == 0 .. MaxCapacity

Noted(report, numbers) == Append(report, << numbers >>)

(* Vectors of numbers that are empty, and one as long as its keys.         *)
MCObjects ==
    { Noted(Full, <<9>>), Noted(Plain(Null), <<1, 2>>), Noted(Other(Null), <<>>),
      Noted([Plain(Null) EXCEPT ![3] = <<>>], <<5, 200>>) }

MCValues == ValuesFrom(NotedFields, "Report", MCObjects, Null)

-----------------------------------------------------------------------------
(* The encodings docs/adapters/protobuf.md prescribes.                     *)
NoteBytes(numbers, packed) ==
    IF packed THEN <<10>> \o Text(Joined([i \in DOMAIN numbers |-> Varint(numbers[i])]))
    ELSE Joined([i \in DOMAIN numbers |-> <<8>> \o Varint(numbers[i])])

Encodings ==
    [p \in MCObjects, packed \in BOOLEAN |->
        {BytesOf(records) \o Varint(138) \o Text(NoteBytes(p[17][1], packed)) :
            records \in AllReportRecords(p, packed, Null)}]

Encoded == Encodings[object, pack]

Size == Len(CHOOSE bytes \in Encoded : TRUE)

(* The writer departs from them for an empty vector of numbers, which is   *)
(* given a key and nothing else, and when a message is measured packed and *)
(* written unpacked: see the README.                                       *)
EmptyPacked == pack /\ <<>> \in {object[3], object[17][1]}

NotePacked   == Len(NoteBytes(object[17][1], TRUE)) - (IF object[17][1] = <<>> THEN 1 ELSE 0)
NoteUnpacked == Len(NoteBytes(object[17][1], FALSE))

Misencoded == EmptyPacked \/ (~pack /\ NotePacked # NoteUnpacked)

PutOut == SubSeq(out, start + 1, Len(out))

(* docs/adapters/protobuf.md, "Key Tradeoffs": at every moment what the    *)
(* current write has put into a window is a prefix of the encoding         *)
(* prescribed for its object, every length in it that of the value behind  *)
(* it; and the whole of it once operator<< has returned.  The two kinds of *)
(* objects the writer does not encode as prescribed are all there are.     *)
CommittedIsPrefix ==
    /\ writes > 0 /\ sink = "window" /\ ~Misencoded =>
          \E whole \in Encoded : IsPrefix(PutOut, whole)
    /\ status = "ok" /\ sink = "window" =>
          (PutOut \in Encoded <=> ~Misencoded)

(* A write into a window fails exactly when its encoding does not fit into *)
(* what was left of it, and only when that is full.  One into a write-style*)
(* output never fails: operator<< returns although bytes are missing.      *)
FailsForAReason ==
    ~Misencoded =>
        /\ status = "error" =>
              sink = "window" /\ start + Size > capacity /\ Len(out) = capacity
        /\ status = "ok" =>
              IF sink = "window" THEN start + Size <= capacity
              ELSE Len(PutOut) = Size <=> start + Size <= capacity

=============================================================================
