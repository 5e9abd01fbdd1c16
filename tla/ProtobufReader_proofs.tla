------------------------ MODULE ProtobufReader_proofs ------------------------
(***************************************************************************)
(* Theorems of ProtobufReader for every schema, every bytes and every      *)
(* number of reads: the windows of its nested readers lie in one another,  *)
(* a diagnostic goes on naming the byte it is about through all of them,   *)
(* and a failed read says what failed and in which field.                  *)
(***************************************************************************)
EXTENDS ProtobufReader, ReaderLemmas

-----------------------------------------------------------------------------
(* The calls in progress.                                                  *)

FramePart == {"op", "shape", "wire", "base", "end", "nested", "val", "at", "todo", "seen"}

(* A call reads a value of a type the program has a codec for, with the    *)
(* parts that type has, within the input.  Where a value is awaited it is  *)
(* one the type has.                                                       *)
FrameOK(f) ==
    /\ f = [part \in FramePart |-> f[part]]
    /\ f.shape \in Shapes /\ f.nested \in BOOLEAN /\ f.todo \in BOOLEAN
    /\ f.base \in Nat /\ f.end \in 0 .. Len(input) /\ f.base <= f.end
    /\ f.op = "message" => f.shape.kind = "object"
    /\ f.op \in {"map", "entry"} => f.shape.kind \in MapKind
    /\ f.op = "packed" => f.shape.kind = "vector"
    /\ f.op \in {"tuple", "array", "vector", "optional", "variant"} => f.op = f.shape.kind
    /\ f.op = "alternative" => f.shape.kind = "variant" /\ f.at \in DOMAIN f.shape.elems
    /\ f.op \in Keyed /\ f.todo => f.at \in Known(f) /\ f.wire # Null
    /\ f.todo => f.op \in Keyed \cup {"vector", "optional", "variant", "alternative"}
    /\ f.op \in Block \cup {"variant", "alternative"} => f.wire = Null

(* What a call may be to the one that made it: it reads through the same   *)
(* reader, or through one over a part of that reader's window.             *)
Under(f, caller) ==
    /\ caller.base <= f.base /\ f.end <= caller.end
    /\ ~f.nested => /\ f.base = caller.base /\ f.end = caller.end
                    /\ caller.todo \/ caller.op \in Block
                    /\ f.op \notin Keyed => f.wire = WireFor(caller)
    /\ f.op = "alternative" => f.nested /\ caller.op = "variant"
    /\ caller.op \in Keyed => caller.todo

(* operator>> is outermost and has the whole input.                        *)
Outermost(f) ==
    /\ f.op = "message" /\ f.shape = Object(RootType)
    /\ ~f.nested /\ f.base = 0 /\ f.end = Len(input)

Nested(s) ==
    /\ IsSeq(s)
    /\ \A i \in 1 .. Len(s) :
          /\ FrameOK(s[i])
          /\ i < Len(s) => Under(s[i], s[i + 1])
          /\ i = Len(s) => Outermost(s[i])

(* A failing call that hands no diagnostic on: inside a variant.           *)
Quiet(f) == f.op \notin Keyed /\ f.wire = Null

DiagnosticPart == {"code", "stage", "type", "field", "name", "index", "offset"}

(* A diagnostic: every part is there or Absent, and its offset names a     *)
(* byte of the input.                                                      *)
Diagnosed(e, base) ==
    /\ e = [part \in DiagnosticPart |-> e[part]]
    /\ e.code \in ErrorCodes
    /\ e.type \in DOMAIN Fields \cup {Absent}
    /\ e.offset \in Int /\ e.offset + base \in 0 .. Len(input)

(* The diagnostic of the failing call f: of a field, or of a key.          *)
Explained(e, f) ==
    /\ Diagnosed(e, f.base)
    /\ f.op = "message" /\ ~f.todo => e.stage = "field_key"

IInv ==
    /\ input \in Seq(Byte) /\ pos \in 0 .. Len(input) /\ reads \in 0 .. MaxReads
    /\ status \in {"idle", "reading", "failing", "ok", "error"}
    /\ Nested(stack)
    /\ stack = <<>> <=> status \in {"idle", "ok", "error"}
    /\ stack # <<>> => pos \in Head(stack).base .. Head(stack).end
    /\ status = "failing" => \/ error = NoError /\ Quiet(Head(stack))
                             \/ Explained(error, Head(stack))
    /\ status = "error" => Diagnosed(error, 0)
    /\ FailureTold

-----------------------------------------------------------------------------
(* The primitives of ProtobufFormat.                                       *)

(* What every primitive read at p leaves true in a window that ends at     *)
(* `end': it consumed bytes the window has, or fewer and says why.         *)
Outcome(r, p, end) ==
    /\ r = [ok |-> r.ok, value |-> r.value, used |-> r.used, code |-> r.code,
            stage |-> r.stage]
    /\ r.ok \in BOOLEAN /\ r.used \in Nat /\ p + r.used <= end
    /\ ~r.ok => r.code \in ErrorCodes

(* A primitive that succeeds is within its window.                         *)
LEMMA GotOutcome ==
    ASSUME NEW p \in Nat, NEW end \in Nat, NEW used \in Nat, p + used <= end, NEW value
    PROVE  /\ Outcome(Got(value, used), p, end) /\ Got(value, used).ok
           /\ Got(value, used).used = used /\ Got(value, used).value = value
BY DEF Outcome, Got

(* So is one that fails, and it names a code.                              *)
LEMMA FailedOutcome ==
    ASSUME NEW p \in Nat, NEW end \in Nat, NEW used \in Nat, p + used <= end,
           NEW code \in ErrorCodes, NEW stage
    PROVE  /\ Outcome(Failed(code, stage, used), p, end) /\ ~Failed(code, stage, used).ok
           /\ Failed(code, stage, used).used = used /\ Failed(code, stage, used).code = code
           /\ Failed(code, stage, used).stage = stage
BY DEF Outcome, Failed

(* The word in a varint is a natural number.                               *)
LEMMA GroupsType ==
    ASSUME NEW bytes \in Seq(Byte)
    PROVE  Groups(bytes) \in Nat
<1> DEFINE low(i) == Digit(bytes, i) % 128
<1>1. ASSUME NEW i \in 1 .. 10
      PROVE  low(i) \in Nat
  <2>1. CASE i <= Len(bytes)
    <3>1. bytes[i] \in Byte
      BY <2>1
    <3>2. Digit(bytes, i) = bytes[i]
      BY <2>1, Zenon DEF Digit
    <3>3. Digit(bytes, i) \in Nat
      BY <3>1, <3>2, ByteIsNat, Zenon
    <3> QED BY <3>3
  <2>2. CASE ~(i <= Len(bytes))
    <3>1. Digit(bytes, i) = 0
      BY <2>2, Zenon DEF Digit
    <3> QED BY <3>1
  <2> QED BY <2>1, <2>2
<1>2. /\ low(1) \in Nat /\ low(2) \in Nat /\ low(3) \in Nat /\ low(4) \in Nat
      /\ low(5) \in Nat /\ low(6) \in Nat /\ low(7) \in Nat /\ low(8) \in Nat
      /\ low(9) \in Nat /\ low(10) \in Nat
  BY <1>1
<1> HIDE DEF low
<1>3. ASSUME NEW m \in Nat, NEW n \in Nat PROVE m + 128 * n \in Nat
  OBVIOUS
<1> DEFINE i9 == low(9) + 128 * low(10)
           i8 == low(8) + 128 * i9
           i7 == low(7) + 128 * i8
           i6 == low(6) + 128 * i7
           i5 == low(5) + 128 * i6
           i4 == low(4) + 128 * i5
           i3 == low(3) + 128 * i4
           i2 == low(2) + 128 * i3
           i1 == low(1) + 128 * i2
<1>4. i9 \in Nat BY <1>2, <1>3, Zenon
<1> HIDE DEF i9
<1>5. i8 \in Nat BY <1>2, <1>3, <1>4, Zenon
<1> HIDE DEF i8
<1>6. i7 \in Nat BY <1>2, <1>3, <1>5, Zenon
<1> HIDE DEF i7
<1>7. i6 \in Nat BY <1>2, <1>3, <1>6, Zenon
<1> HIDE DEF i6
<1>8. i5 \in Nat BY <1>2, <1>3, <1>7, Zenon
<1> HIDE DEF i5
<1>9. i4 \in Nat BY <1>2, <1>3, <1>8, Zenon
<1> HIDE DEF i4
<1>10. i3 \in Nat BY <1>2, <1>3, <1>9, Zenon
<1> HIDE DEF i3
<1>11. i2 \in Nat BY <1>2, <1>3, <1>10, Zenon
<1> HIDE DEF i2
<1>12. i1 \in Nat BY <1>2, <1>3, <1>11, Zenon
<1> HIDE DEF i1
<1>13. ASSUME NEW n \in Nat, NEW m \in Nat \ {0} PROVE n % m \in Nat
  OBVIOUS
<1>14. i1 % (2 ^ WordBits) \in Nat
  BY <1>12, <1>13, WordRangeAssumption, Zenon
<1> QED BY <1>14, Zenon DEF Groups, low, i1, i2, i3, i4, i5, i6, i7, i8, i9

(* The bytes of a window that ends at `end'.                               *)
LEMMA WindowPeek ==
    ASSUME NEW data \in Seq(Byte), NEW end \in 0 .. Len(data), NEW p \in 0 .. end,
           NEW n \in Nat
    PROVE  /\ Peek(SubSeq(data, 1, end), p, n) \in Seq(Byte)
           /\ Len(Peek(SubSeq(data, 1, end), p, n)) = Smaller(n, end - p)
<1> DEFINE window == SubSeq(data, 1, end)
<1>1. window \in Seq(Byte) /\ Len(window) = end
  OBVIOUS
<1> HIDE DEF window
<1>2. /\ Peek(window, p, n) \in Seq(Byte)
      /\ Len(Peek(window, p, n)) = Smaller(n, Len(window) - p)
  BY <1>1, PeekLength
<1> QED BY <1>1, <1>2 DEF window

(* The first of at most ten places.                                        *)
LEMMA FirstOfTen ==
    ASSUME NEW S \in SUBSET (1 .. 10), S # {}
    PROVE  \E i \in S : \A j \in S : i <= j
<1>1. S \subseteq 1 .. 10
  OBVIOUS
<1>2. CASE 1 \in S BY <1>1, <1>2
<1>3. CASE 1 \notin S /\ 2 \in S BY <1>1, <1>3
<1>4. CASE 1 \notin S /\ 2 \notin S /\ 3 \in S BY <1>1, <1>4
<1>5. CASE 1 \notin S /\ 2 \notin S /\ 3 \notin S /\ 4 \in S BY <1>1, <1>5
<1>6. CASE 1 \notin S /\ 2 \notin S /\ 3 \notin S /\ 4 \notin S
  <2>1. S \subseteq 5 .. 10
    BY <1>1, <1>6
  <2>2. CASE 5 \in S BY <2>1, <2>2
  <2>3. CASE 5 \notin S /\ 6 \in S BY <2>1, <2>3
  <2>4. CASE 5 \notin S /\ 6 \notin S /\ 7 \in S BY <2>1, <2>4
  <2>5. CASE 5 \notin S /\ 6 \notin S /\ 7 \notin S
    <3>1. S \subseteq 8 .. 10
      BY <2>1, <2>5
    <3>2. CASE 8 \in S BY <3>1, <3>2
    <3>3. CASE 8 \notin S /\ 9 \in S BY <3>1, <3>3
    <3>4. CASE 8 \notin S /\ 9 \notin S
      <4>1. \A j \in S : j = 10
        BY <3>1, <3>4
      <4>2. PICK i \in S : TRUE
        OBVIOUS
      <4>3. i = 10
        BY <4>1
      <4> QED BY <4>1, <4>2, <4>3
    <3> QED BY <3>2, <3>3, <3>4
  <2> QED BY <2>2, <2>3, <2>4, <2>5
<1> QED BY <1>2, <1>3, <1>4, <1>5, <1>6

(* reader::read_varint.                                                    *)
LEMMA VarintOutcome ==
    ASSUME NEW data \in Seq(Byte), NEW end \in 0 .. Len(data), NEW p \in 0 .. end
    PROVE  LET r == ReadVarint(data, p, end)
           IN  Outcome(r, p, end) /\ (r.ok => r.value \in Nat)
<1> DEFINE view == Peek(SubSeq(data, 1, end), p, MaxVarint)
           last == {i \in DOMAIN view : view[i] < 128}
           size == CHOOSE i \in last : \A j \in last : i <= j
           code == IF Len(view) < MaxVarint THEN "truncated" ELSE "invalid_varint"
           r    == ReadVarint(data, p, end)
<1>1. MaxVarint \in 2 .. 10
  BY WordBitsAssumption DEF MaxVarint
<1>2. view \in Seq(Byte) /\ Len(view) = Smaller(MaxVarint, end - p)
  <2>1. MaxVarint \in Nat
    BY <1>1
  <2> QED BY <2>1, WindowPeek
<1>3. r = IF last # {} THEN Got(Groups(SubSeq(view, 1, size)), size)
          ELSE Failed(code, "none", 0)
  BY Zenon DEF ReadVarint
<1> HIDE DEF view, r
<1>4. Len(view) \in 0 .. 10 /\ p + Len(view) <= end /\ DOMAIN view = 1 .. Len(view)
  BY <1>1, <1>2 DEF Smaller
<1>5. p \in Nat /\ end \in Nat
  OBVIOUS
<1>6. CASE last # {}
  <2>1. last \in SUBSET (1 .. 10)
    BY <1>4
  <2>2. size \in last
    BY <1>6, <2>1, FirstOfTen
  <2>3. size \in 1 .. Len(view)
    BY <1>4, <2>2
  <2> HIDE DEF last, size
  <2>4. SubSeq(view, 1, size) \in Seq(Byte)
    BY <1>2, <2>3
  <2>5. Groups(SubSeq(view, 1, size)) \in Nat
    BY <2>4, GroupsType
  <2>6. r = Got(Groups(SubSeq(view, 1, size)), size)
    BY <1>3, <1>6
  <2>7. size \in Nat /\ p + size <= end
    BY <1>4, <1>5, <2>3
  <2> QED BY <1>5, <2>5, <2>6, <2>7, GotOutcome DEF r
<1>7. CASE last = {}
  <2>1. r = Failed(code, "none", 0) /\ code \in ErrorCodes
    BY <1>3, <1>7 DEF ErrorCodes
  <2> HIDE DEF code
  <2> QED BY <1>5, <2>1, FailedOutcome DEF r
<1> QED BY <1>6, <1>7

(* reader::read_view.                                                      *)
LEMMA ViewOutcome ==
    ASSUME NEW data \in Seq(Byte), NEW end \in 0 .. Len(data), NEW p \in 0 .. end,
           NEW size \in Nat
    PROVE  LET r == ReadView(data, p, end, size)
           IN  Outcome(r, p, end) /\ (r.ok => r.used = size)
<1> DEFINE view == Peek(SubSeq(data, 1, end), p, size)
           r    == ReadView(data, p, end, size)
<1>1. Len(view) = Smaller(size, end - p)
  BY WindowPeek
<1>2. r = IF Len(view) = size THEN Got(view, size) ELSE Failed("truncated", "none", 0)
  BY Zenon DEF ReadView
<1> HIDE DEF view, r
<1>3. p \in Nat /\ end \in Nat /\ "truncated" \in ErrorCodes
  BY DEF ErrorCodes
<1>4. CASE Len(view) = size
  <2>1. p + size <= end
    BY <1>1, <1>4 DEF Smaller
  <2> QED BY <1>2, <1>3, <1>4, <2>1, GotOutcome DEF r
<1>5. CASE Len(view) # size
  <2>1. r = Failed("truncated", "none", 0)
    BY <1>2, <1>5
  <2> QED BY <1>3, <2>1, FailedOutcome DEF r
<1> QED BY <1>4, <1>5

(* A length and that many bytes: when both are there, so is the window.    *)
LEMMA DelimitedOutcome ==
    ASSUME NEW data \in Seq(Byte), NEW end \in 0 .. Len(data), NEW p \in 0 .. end,
           NEW length_stage, NEW view_stage
    PROVE  LET r      == ReadDelimited(data, p, end, length_stage, view_stage)
               length == ReadVarint(data, p, end)
           IN  /\ Outcome(r, p, end) /\ Outcome(length, p, end)
               /\ r.ok => /\ length.ok /\ length.value \in Nat
                          /\ p + length.used + length.value <= end
<1> DEFINE length == ReadVarint(data, p, end)
           view   == ReadView(data, p + length.used, end, length.value)
           r      == ReadDelimited(data, p, end, length_stage, view_stage)
<1>1. Outcome(length, p, end) /\ (length.ok => length.value \in Nat)
  BY VarintOutcome
<1>2. r = IF ~length.ok THEN [length EXCEPT !.stage = length_stage]
          ELSE IF ~view.ok THEN Failed(view.code, view_stage, length.used)
          ELSE Got(view.value, length.used + view.used)
  BY Zenon DEF ReadDelimited
<1> HIDE DEF length, r
<1>3. p \in Nat /\ end \in Nat
  OBVIOUS
<1>4. CASE ~length.ok
  <2>1. r = [length EXCEPT !.stage = length_stage]
    BY <1>2, <1>4
  <2>2. Outcome(r, p, end) /\ ~r.ok
    BY <1>1, <1>4, <2>1 DEF Outcome
  <2> QED BY <1>1, <2>2 DEF length, r
<1>5. CASE length.ok
  <2>1. p + length.used \in 0 .. end /\ length.value \in Nat /\ length.used \in Nat
    BY <1>1, <1>3, <1>5 DEF Outcome
  <2>2. Outcome(view, p + length.used, end) /\ (view.ok => view.used = length.value)
    BY <2>1, ViewOutcome
  <2> HIDE DEF view
  <2>3. CASE ~view.ok
    <3>1. r = Failed(view.code, view_stage, length.used) /\ view.code \in ErrorCodes
      BY <1>2, <1>5, <2>2, <2>3 DEF Outcome
    <3>2. p + length.used <= end
      BY <2>1
    <3>3. Outcome(r, p, end) /\ ~r.ok
      BY <1>3, <2>1, <3>1, <3>2, FailedOutcome
    <3> QED BY <1>1, <3>3 DEF length, r
  <2>4. CASE view.ok
    <3>1. r = Got(view.value, length.used + view.used)
      BY <1>2, <1>5, <2>4
    <3>2. length.used + view.used \in Nat /\ p + (length.used + view.used) <= end
          /\ p + length.used + length.value <= end
      BY <1>3, <2>1, <2>2, <2>4 DEF Outcome
    <3>3. Outcome(r, p, end)
      BY <1>3, <3>1, <3>2, GotOutcome
    <3> QED BY <1>1, <1>5, <2>1, <3>2, <3>3 DEF length, r
  <2> QED BY <2>2, <2>3, <2>4 DEF Outcome
<1>6. length.ok \in BOOLEAN
  BY <1>1 DEF Outcome
<1> QED BY <1>4, <1>5, <1>6

(* The codec of a scalar.                                                  *)
LEMMA ScalarOutcome ==
    ASSUME NEW data \in Seq(Byte), NEW end \in 0 .. Len(data), NEW p \in 0 .. end,
           NEW shape \in Shapes
    PROVE  Outcome(ReadScalar(shape, data, p, end), p, end)
<1> DEFINE word == ReadVarint(data, p, end)
           r    == ReadScalar(shape, data, p, end)
<1>1. r = IF shape.kind = "raw" THEN ReadView(data, p, end, shape.width)
          ELSE IF word.ok THEN Got(Converted(shape, word.value), word.used) ELSE word
  BY Zenon DEF ReadScalar
<1>2. Outcome(word, p, end)
  BY VarintOutcome
<1> HIDE DEF word, r
<1>3. CASE shape.kind = "raw"
  <2>1. shape.width \in Nat
    BY <1>3, ShapesAssumption DEF ValidShapes
  <2>2. Outcome(ReadView(data, p, end, shape.width), p, end)
    BY <2>1, ViewOutcome
  <2> QED BY <1>1, <1>3, <2>2 DEF r
<1>4. CASE shape.kind # "raw" /\ word.ok
  <2>1. word.used \in Nat /\ p + word.used <= end /\ p \in Nat /\ end \in Nat
    BY <1>2 DEF Outcome
  <2>2. r = Got(Converted(shape, word.value), word.used)
    BY <1>1, <1>4
  <2> QED BY <2>1, <2>2, GotOutcome DEF r
<1>5. CASE shape.kind # "raw" /\ ~word.ok
  BY <1>1, <1>2, <1>5 DEF r
<1> QED BY <1>3, <1>4, <1>5

-----------------------------------------------------------------------------
(* The calls in progress, one by one.                                      *)

(* What dispatch_field_by_id finds for an id the type has.                 *)
LEMMA FieldShape ==
    ASSUME NEW shape \in Shapes, shape.kind = "object",
           NEW id \in FieldIds(Fields, shape.type)
    PROVE  DispatchFieldById(Fields, shape.type, id).shape \in Shapes /\ id \in Nat
BY DispatchedField, FieldsAssumption, ShapesAssumption

(* A codec awaits a value of a type the program has a codec for.           *)
LEMMA AwaitedShape ==
    ASSUME NEW f, FrameOK(f), f.todo \/ f.op \in Block, f.op # "variant"
    PROVE  Awaited(f) \in Shapes
<1>1. /\ f.shape.kind \in {"vector", "optional", "array", "span"} => f.shape.elem \in Shapes
      /\ f.shape.kind \in MapKind => f.shape.key \in Shapes /\ f.shape.elem \in Shapes
      /\ f.shape.kind \in {"tuple", "variant"} => f.shape.elems \in Seq(Shapes)
  BY PartShapes, FieldsAssumption, ShapesAssumption DEF FrameOK
<1>2. CASE f.op = "message"
  <2>1. f.at \in FieldIds(Fields, f.shape.type) /\ f.shape.kind = "object" /\ f.shape \in Shapes
    BY <1>2 DEF FrameOK, Known, Keyed, Block
  <2>2. FieldOf(f).shape \in Shapes
    BY <2>1, FieldShape DEF FieldOf
  <2> QED BY <1>2, <2>2 DEF Awaited
<1>3. CASE f.op = "tuple"
  <2>1. f.at \in DOMAIN f.shape.elems /\ f.shape.elems \in Seq(Shapes)
    BY <1>1, <1>3 DEF FrameOK, Known, Keyed, Block
  <2>2. f.shape.elems[f.at] \in Shapes
    BY <2>1
  <2> QED BY <1>3, <2>2 DEF Awaited
<1>4. CASE f.op = "entry"
  BY <1>1, <1>4 DEF Awaited, FrameOK
<1>5. CASE f.op = "alternative"
  <2>1. f.at \in DOMAIN f.shape.elems /\ f.shape.elems \in Seq(Shapes)
    BY <1>1, <1>5 DEF FrameOK
  <2>2. f.shape.elems[f.at] \in Shapes
    BY <2>1
  <2> QED BY <1>5, <2>2 DEF Awaited
<1>6. CASE f.op \in Block \cup {"vector", "optional"}
  <2>1. f.shape.elem \in Shapes
    BY <1>1, <1>6 DEF FrameOK, Block
  <2> QED BY <1>6, <2>1 DEF Awaited, Block
<1> QED BY <1>2, <1>3, <1>4, <1>5, <1>6 DEF FrameOK, Keyed, Block

(* A call that goes on is the same call.                                   *)
Same(g, f) ==
    /\ g.op = f.op /\ g.shape = f.shape /\ g.base = f.base /\ g.end = f.end
    /\ g.nested = f.nested
    /\ f.op \notin Keyed => g.wire = f.wire

(* A call that is made: a map, an entry, a packed block or what its type   *)
(* says, over a part of the input.                                         *)
Makes(op, shape, wire, base, end) ==
    /\ shape \in Shapes
    /\ base \in Nat /\ end \in 0 .. Len(input) /\ base <= end
    /\ op = "message" => shape.kind = "object"
    /\ op \in {"map", "entry"} => shape.kind \in MapKind
    /\ op = "packed" => shape.kind = "vector"
    /\ op \in {"tuple", "array", "vector", "optional", "variant"} => op = shape.kind
    /\ op # "alternative"
    /\ op \in Block \cup {"variant"} => wire = Null

(* A call made with the arguments a codec is called with is well-formed,   *)
(* and holds what it was given.                                            *)
LEMMA NewFrame ==
    ASSUME NEW op, NEW shape, NEW wire, NEW base, NEW end, NEW nested \in BOOLEAN, NEW val,
           Makes(op, shape, wire, base, end)
    PROVE  LET g == Frame(op, shape, wire, base, end, nested, val)
           IN  /\ FrameOK(g) /\ g.op = op /\ g.shape = shape /\ g.base = base
               /\ g.end = end /\ g.nested = nested /\ g.wire = wire
<1> DEFINE g == Frame(op, shape, wire, base, end, nested, val)
<1>1. /\ g = [part \in FramePart |-> g[part]]
      /\ g.op = op /\ g.shape = shape /\ g.base = base /\ g.end = end /\ g.nested = nested
      /\ g.wire = wire /\ g.todo = (op \in {"vector", "optional"})
  BY DEF Frame, FramePart
<1> HIDE DEF g
<1>2. g.todo \in BOOLEAN /\ (g.todo <=> op \in {"vector", "optional"})
  <2> DEFINE awaits == op \in {"vector", "optional"}
  <2>1. awaits \in BOOLEAN /\ (awaits <=> op \in {"vector", "optional"}) /\ g.todo = awaits
    BY <1>1
  <2> HIDE DEF awaits
  <2> QED BY <2>1
<1>3. op \in Keyed => ~g.todo
  BY <1>2 DEF Keyed
<1>4. FrameOK(g)
  BY <1>1, <1>2, <1>3 DEF Makes, FrameOK, Keyed, Block
<1> QED BY <1>1, <1>4 DEF g

(* The call that reads the alternative of a variant.                       *)
LEMMA NewAlternative ==
    ASSUME NEW shape, NEW base, NEW end, NEW val, NEW at,
           Makes("variant", shape, Null, base, end), at \in DOMAIN shape.elems
    PROVE  LET g == [Frame("alternative", shape, Null, base, end, TRUE, val)
                        EXCEPT !.at = at, !.todo = TRUE]
           IN  /\ FrameOK(g) /\ g.op = "alternative" /\ g.base = base
               /\ g.end = end /\ g.nested = TRUE
<1> DEFINE f == Frame("alternative", shape, Null, base, end, TRUE, val)
           g == [f EXCEPT !.at = at, !.todo = TRUE]
<1>1. /\ f = [part \in FramePart |-> f[part]]
      /\ f.op = "alternative" /\ f.shape = shape /\ f.base = base /\ f.end = end
      /\ f.nested = TRUE /\ f.wire = Null
  BY DEF Frame, FramePart
<1> HIDE DEF f
<1>2. /\ g = [part \in FramePart |-> g[part]]
      /\ g.op = "alternative" /\ g.shape = shape /\ g.base = base /\ g.end = end
      /\ g.nested = TRUE /\ g.wire = Null /\ g.at = at /\ g.todo = TRUE
  BY <1>1 DEF FramePart
<1> HIDE DEF g
<1>3. FrameOK(g)
  BY <1>2 DEF Makes, FrameOK, Keyed, Block
<1> QED BY <1>2, <1>3 DEF f, g

(* A call in a later state of its own that awaits nothing.                 *)
LEMMA SettledFrame ==
    ASSUME NEW f, FrameOK(f), NEW g, g = [part \in FramePart |-> g[part]],
           Same(g, f), g.wire = f.wire, g.todo = FALSE, f.op = "alternative" => g.at = f.at
    PROVE  FrameOK(g)
BY DEF FrameOK, Same, Keyed, Block

(* A value that has been read is stored and awaited no longer.             *)
LEMMA DeliveredFrame ==
    ASSUME NEW f, FrameOK(f), NEW v
    PROVE  FrameOK(Delivered(f, v)) /\ Same(Delivered(f, v), f)
<1> DEFINE g == [f EXCEPT !.todo = FALSE]
           d == Delivered(f, v)
           Settled(h) == /\ h = [part \in FramePart |-> h[part]]
                         /\ Same(h, f) /\ h.wire = f.wire /\ h.todo = FALSE
                         /\ f.op = "alternative" => h.at = f.at
<1>1. d = CASE f.op = "tuple"   -> [g EXCEPT !.val[f.at] = v, !.seen = @ \cup {f.at}]
            [] f.op \in Keyed \ {"tuple"} -> [g EXCEPT !.val[f.at] = v]
            [] f.op = "vector"  -> [g EXCEPT !.val = Append(@, v)]
            [] f.op = "packed"  -> [g EXCEPT !.val = Append(@, v), !.at = @ + 1]
            [] f.op = "array"   -> [g EXCEPT !.val[f.at + 1] = v, !.at = @ + 1]
            [] f.op = "map"     -> [g EXCEPT !.val = Inserted(@, v[1], v[2]), !.at = @ + 1]
            [] f.op = "variant" -> [g EXCEPT !.val = <<f.at, v>>]
            [] OTHER            -> [g EXCEPT !.val = v]
  BY Zenon DEF Delivered
<1>2. f = [part \in FramePart |-> f[part]]
  BY DEF FrameOK
<1>3. /\ g = [part \in FramePart |-> g[part]]
      /\ Same(g, f) /\ g.wire = f.wire /\ g.todo = FALSE /\ g.at = f.at
  BY <1>2 DEF FramePart, Same
<1> HIDE DEF g, d
<1>4. Settled(d)
  <2>1. CASE f.op = "tuple"
    <3>1. d = [g EXCEPT !.val[f.at] = v, !.seen = @ \cup {f.at}]
      BY <1>1, <2>1 DEF Keyed
    <3> QED BY <1>3, <2>1, <3>1 DEF FramePart, Same
  <2>2. CASE f.op \in {"message", "entry"}
    <3>1. d = [g EXCEPT !.val[f.at] = v]
      BY <1>1, <2>2 DEF Keyed
    <3> QED BY <1>3, <2>2, <3>1 DEF FramePart, Same
  <2>3. CASE f.op = "vector"
    <3>1. d = [g EXCEPT !.val = Append(@, v)]
      BY <1>1, <2>3 DEF Keyed
    <3> QED BY <1>3, <2>3, <3>1 DEF FramePart, Same
  <2>4. CASE f.op = "packed"
    <3>1. d = [g EXCEPT !.val = Append(@, v), !.at = @ + 1]
      BY <1>1, <2>4 DEF Keyed
    <3> QED BY <1>3, <2>4, <3>1 DEF FramePart, Same
  <2>5. CASE f.op = "array"
    <3>1. d = [g EXCEPT !.val[f.at + 1] = v, !.at = @ + 1]
      BY <1>1, <2>5 DEF Keyed
    <3> QED BY <1>3, <2>5, <3>1 DEF FramePart, Same
  <2>6. CASE f.op = "map"
    <3>1. d = [g EXCEPT !.val = Inserted(@, v[1], v[2]), !.at = @ + 1]
      BY <1>1, <2>6 DEF Keyed
    <3> QED BY <1>3, <2>6, <3>1 DEF FramePart, Same
  <2>7. CASE f.op = "variant"
    <3>1. d = [g EXCEPT !.val = <<f.at, v>>]
      BY <1>1, <2>7 DEF Keyed
    <3> QED BY <1>3, <2>7, <3>1 DEF FramePart, Same
  <2>8. CASE f.op \notin {"tuple", "message", "entry", "vector", "packed", "array", "map",
                          "variant"}
    <3>1. d = [g EXCEPT !.val = v]
      BY <1>1, <2>8 DEF Keyed
    <3> QED BY <1>3, <2>8, <3>1 DEF FramePart, Same
  <2> QED BY <2>1, <2>2, <2>3, <2>4, <2>5, <2>6, <2>7, <2>8
<1>5. FrameOK(d)
  BY <1>4, SettledFrame
<1> QED BY <1>4, <1>5 DEF d

(* What a failed codec leaves behind changes nothing but the value.        *)
LEMMA SpilledFrame ==
    ASSUME NEW f, FrameOK(f), NEW v
    PROVE  /\ FrameOK(Spilled(f, v)) /\ Same(Spilled(f, v), f)
           /\ Spilled(f, v).todo = f.todo /\ Spilled(f, v).wire = f.wire
<1> DEFINE g == Spilled(f, v)
<1>1. f = [part \in FramePart |-> f[part]]
  BY DEF FrameOK
<1>2. \/ g = [f EXCEPT !.val = <<f.at, v>>]
      \/ g = f
      \/ g = [f EXCEPT !.val[f.at] = v]
      \/ g = [f EXCEPT !.val = v]
  BY Zenon DEF Spilled
<1> HIDE DEF g
<1>3. /\ g = [part \in FramePart |-> g[part]]
      /\ Same(g, f) /\ g.wire = f.wire /\ g.todo = f.todo /\ g.at = f.at
  BY <1>1, <1>2 DEF FramePart, Same
<1>4. f.op \in Keyed /\ f.todo => g.at \in Known(g)
  BY <1>3 DEF FrameOK, Same, Known, Keyed
<1>5. FrameOK(g)
  BY <1>3, <1>4 DEF FrameOK, Same
<1> QED BY <1>3, <1>5 DEF g

-----------------------------------------------------------------------------
(* The calls in progress, together.                                        *)

(* The innermost call.                                                     *)
LEMMA NestHead ==
    ASSUME NEW s, Nested(s), s # <<>>
    PROVE  /\ FrameOK(Head(s)) /\ Head(s) = s[1]
           /\ Len(s) \in Nat \ {0}
           /\ Len(s) = 1 => Outermost(Head(s))
           /\ Len(s) > 1 => Under(Head(s), s[2])
<1>1. Len(s) \in Nat \ {0} /\ Head(s) = s[1]
  BY PopSeq DEF Nested
<1>2. 1 \in 1 .. Len(s) /\ (Len(s) > 1 => 1 < Len(s)) /\ 1 + 1 = 2
  BY <1>1
<1>3. /\ FrameOK(s[1]) /\ (1 = Len(s) => Outermost(s[1]))
      /\ 1 < Len(s) => Under(s[1], s[1 + 1])
  BY <1>2 DEF Nested
<1> QED BY <1>1, <1>2, <1>3

(* A call made by the innermost one.                                       *)
LEMMA NestPush ==
    ASSUME NEW s, Nested(s), s # <<>>, NEW f, FrameOK(f), Under(f, Head(s))
    PROVE  /\ Nested(<<f>> \o s) /\ <<f>> \o s # <<>> /\ Head(<<f>> \o s) = f
<1> DEFINE t == <<f>> \o s
<1>1. /\ IsSeq(t) /\ Len(t) = Len(s) + 1 /\ t[1] = f
      /\ \A i \in 1 .. Len(s) : t[i + 1] = s[i]
      /\ Len(s) \in Nat \ {0} /\ Head(s) = s[1]
  BY PushSeq, NestHead DEF Nested
<1> HIDE DEF t
<1>2. ASSUME NEW i \in 1 .. Len(t)
      PROVE  /\ FrameOK(t[i])
             /\ i < Len(t) => Under(t[i], t[i + 1])
             /\ i = Len(t) => Outermost(t[i])
  <2>1. CASE i = 1
    <3>1. 1 \in 1 .. Len(s) /\ i < Len(t)
      BY <1>1, <2>1
    <3>2. t[i] = f /\ t[i + 1] = s[1]
      BY <1>1, <2>1, <3>1
    <3> QED BY <1>1, <3>1, <3>2
  <2>2. CASE i > 1
    <3>1. i - 1 \in 1 .. Len(s) /\ (i - 1) + 1 = i
      BY <1>1, <2>2
    <3>2. t[i] = s[i - 1]
      BY <1>1, <3>1
    <3>3. /\ FrameOK(s[i - 1]) /\ (i - 1 = Len(s) => Outermost(s[i - 1]))
          /\ i - 1 < Len(s) => Under(s[i - 1], s[(i - 1) + 1])
      BY <3>1 DEF Nested
    <3>4. i < Len(t) => i - 1 < Len(s) /\ t[i + 1] = s[i]
      BY <1>1, <2>2
    <3>5. i = Len(t) => i - 1 = Len(s)
      BY <1>1
    <3> QED BY <3>1, <3>2, <3>3, <3>4, <3>5
  <2> QED BY <1>1, <2>1, <2>2
<1>3. Nested(t)
  BY <1>1, <1>2 DEF Nested
<1>4. t # <<>> /\ Head(t) = t[1]
  BY <1>1, PopSeq
<1> QED BY <1>1, <1>3, <1>4 DEF t

(* A call that goes on is under the call it was under.                     *)
LEMMA SameUnder ==
    ASSUME NEW f, NEW g, NEW caller, Same(g, f), Under(f, caller)
    PROVE  Under(g, caller)
BY DEF Same, Under

(* A later state of the outermost call is the outermost call.              *)
LEMMA SameOutermost ==
    ASSUME NEW f, NEW g, Same(g, f), Outermost(f)
    PROVE  Outermost(g)
BY DEF Same, Outermost

(* The innermost call in a later state.                                    *)
LEMMA NestReplace ==
    ASSUME NEW s, Nested(s), s # <<>>, NEW f, FrameOK(f), Same(f, Head(s))
    PROVE  /\ Nested(<<f>> \o Tail(s))
           /\ <<f>> \o Tail(s) # <<>> /\ Head(<<f>> \o Tail(s)) = f
<1> DEFINE t == <<f>> \o Tail(s)
<1>1. /\ IsSeq(t) /\ Len(t) = Len(s) /\ Len(s) \in Nat \ {0} /\ t[1] = f
      /\ \A i \in 2 .. Len(s) : t[i] = s[i]
  BY ReplaceSeq DEF Nested
<1>2. Head(s) = s[1]
  BY NestHead
<1> HIDE DEF t
<1>3. ASSUME NEW i \in 1 .. Len(t)
      PROVE  /\ FrameOK(t[i])
             /\ i < Len(t) => Under(t[i], t[i + 1])
             /\ i = Len(t) => Outermost(t[i])
  <2>1. /\ FrameOK(s[i]) /\ (i = Len(s) => Outermost(s[i]))
        /\ i < Len(s) => Under(s[i], s[i + 1])
    BY <1>1 DEF Nested
  <2>2. i < Len(t) => t[i + 1] = s[i + 1]
    BY <1>1
  <2>3. CASE i = 1
    <3>1. Same(t[i], s[i]) /\ FrameOK(t[i])
      BY <1>1, <1>2, <2>3
    <3> QED BY <1>1, <2>1, <2>2, <3>1, SameUnder, SameOutermost
  <2>4. CASE i > 1
    <3>1. t[i] = s[i]
      BY <1>1, <2>4
    <3> QED BY <1>1, <2>1, <2>2, <3>1
  <2> QED BY <1>1, <2>3, <2>4
<1>4. Nested(t)
  BY <1>1, <1>3 DEF Nested
<1>5. t # <<>> /\ Head(t) = t[1]
  BY <1>1, PopSeq
<1> QED BY <1>1, <1>4, <1>5 DEF t

(* Any call but operator>> has a caller.                                   *)
LEMMA NestPop ==
    ASSUME NEW s, Nested(s), s # <<>>, Len(s) > 1
    PROVE  /\ Nested(Tail(s)) /\ Tail(s) # <<>>
           /\ FrameOK(Head(Tail(s))) /\ Under(Head(s), Head(Tail(s)))
<1> DEFINE u == Tail(s)
<1>1. /\ IsSeq(u) /\ Len(s) \in Nat \ {0} /\ Len(u) = Len(s) - 1
      /\ \A i \in 1 .. Len(s) - 1 : u[i] = s[i + 1]
  BY PopSeq DEF Nested
<1> HIDE DEF u
<1>2. u # <<>>
  BY <1>1
<1>3. ASSUME NEW i \in 1 .. Len(u)
      PROVE  /\ FrameOK(u[i])
             /\ i < Len(u) => Under(u[i], u[i + 1])
             /\ i = Len(u) => Outermost(u[i])
  <2>1. i + 1 \in 1 .. Len(s) /\ u[i] = s[i + 1]
    BY <1>1
  <2>2. /\ FrameOK(s[i + 1]) /\ (i + 1 = Len(s) => Outermost(s[i + 1]))
        /\ i + 1 < Len(s) => Under(s[i + 1], s[(i + 1) + 1])
    BY <2>1 DEF Nested
  <2>3. i < Len(u) => i + 1 < Len(s) /\ u[i + 1] = s[(i + 1) + 1]
    BY <1>1
  <2>4. i = Len(u) => i + 1 = Len(s)
    BY <1>1
  <2> QED BY <2>1, <2>2, <2>3, <2>4
<1>4. Nested(u)
  BY <1>1, <1>3 DEF Nested
<1>5. Head(u) = s[2] /\ FrameOK(Head(u))
  <2>1. Head(u) = u[1] /\ FrameOK(Head(u))
    BY <1>2, <1>4, NestHead
  <2>2. u[1] = s[1 + 1]
    BY <1>1
  <2> QED BY <2>1, <2>2
<1>6. Under(Head(s), s[2])
  BY NestHead
<1> QED BY <1>2, <1>4, <1>5, <1>6 DEF u

(* operator>>, alone.                                                      *)
LEMMA NestSingle ==
    ASSUME NEW f, FrameOK(f), Outermost(f)
    PROVE  Nested(<<f>>) /\ <<f>> # <<>> /\ Head(<<f>>) = f
<1>1. IsSeq(<<f>>) /\ Len(<<f>>) = 1 /\ <<f>>[1] = f
  BY DEF IsSeq
<1>2. Nested(<<f>>)
  BY <1>1 DEF Nested
<1> QED BY <1>2

-----------------------------------------------------------------------------
(* Diagnostics.                                                            *)

(* Being told a part that is not there yet changes nothing else.           *)
LEMMA FirstWinsType ==
    ASSUME NEW e, e = [part \in DiagnosticPart |-> e[part]],
           NEW p \in DiagnosticPart, NEW v
    PROVE  LET d == FirstWins(e, p, v)
           IN  /\ d = [part \in DiagnosticPart |-> d[part]]
               /\ \A q \in DiagnosticPart \ {p} : d[q] = e[q]
               /\ e[p] = Absent => d[p] = v
               /\ e[p] # Absent => d[p] = e[p]
BY DEF FirstWins

(* What a caller adds: the diagnostic keeps what it had, and its place.    *)
Grown(d, e) ==
    /\ d = [part \in DiagnosticPart |-> d[part]]
    /\ d.code = e.code /\ d.offset = e.offset
    /\ \A part \in {"stage", "type", "field", "index"} : e[part] \in {Absent, d[part]}
    /\ d.type \in {e.type} \cup DOMAIN Fields

(* One more annotation: what was told stays told.                          *)
LEMMA GrownByPart ==
    ASSUME NEW e, NEW e0, Grown(e, e0), NEW v,
           NEW p \in {"stage", "type", "field", "name", "index"},
           p = "type" => v \in DOMAIN Fields
    PROVE  Grown(FirstWins(e, p, v), e0)
<1> DEFINE d == FirstWins(e, p, v)
<1>1. /\ d = [part \in DiagnosticPart |-> d[part]]
      /\ \A q \in DiagnosticPart \ {p} : d[q] = e[q]
      /\ e[p] = Absent => d[p] = v
      /\ e[p] # Absent => d[p] = e[p]
  BY FirstWinsType DEF Grown, DiagnosticPart
<1> HIDE DEF d
<1>2. d.code = e.code /\ d.offset = e.offset
  BY <1>1 DEF DiagnosticPart
<1>3. ASSUME NEW part \in {"stage", "type", "field", "index"}
      PROVE  e0[part] \in {Absent, d[part]}
  <2>1. e0[part] \in {Absent, e[part]}
    BY DEF Grown
  <2>2. CASE part = p
    BY <1>1, <2>1, <2>2
  <2>3. CASE part # p
    <3>1. part \in DiagnosticPart \ {p}
      BY <2>3 DEF DiagnosticPart
    <3> QED BY <1>1, <2>1, <3>1
  <2> QED BY <2>2, <2>3
<1>4. d.type \in {e0.type} \cup DOMAIN Fields
  <2>1. CASE p = "type"
    BY <1>1, <2>1 DEF Grown
  <2>2. CASE p # "type"
    <3>1. "type" \in DiagnosticPart \ {p}
      BY <2>2 DEF DiagnosticPart
    <3>2. d["type"] = e["type"]
      BY <1>1, <3>1
    <3> QED BY <3>2 DEF Grown
  <2> QED BY <2>1, <2>2
<1> QED BY <1>1, <1>2, <1>3, <1>4 DEF Grown, d

(* The diagnostic as the caller of f's callee annotates it.                *)
LEMMA AnnotatedGrown ==
    ASSUME NEW e, e = [part \in DiagnosticPart |-> e[part]], NEW f, FrameOK(f)
    PROVE  Grown(Annotated(e, f), e)
<1>1. Grown(e, e)
  BY DEF Grown
<1>2. ASSUME NEW d, Grown(d, e), NEW v
      PROVE  /\ Grown(WithStage(d, v), e) /\ Grown(WithField(d, v), e)
             /\ Grown(WithName(d, v), e) /\ Grown(WithIndex(d, v), e)
             /\ v \in DOMAIN Fields => Grown(WithType(d, v), e)
  BY <1>2, GrownByPart DEF WithStage, WithType, WithField, WithName, WithIndex
<1>a. f.op = "message" => f.shape.type \in DOMAIN Fields
  BY ShapesAssumption DEF FrameOK, ValidShapes
<1> DEFINE named == WithName(WithField(e, f.at), f.at)
           staged == WithStage(named, "field_value")
           told == IF ~f.todo THEN e ELSE IF FieldOf(f).direct THEN named ELSE staged
           typed == WithType(told, f.shape.type)
           position == IF f.todo THEN WithField(e, f.at) ELSE e
           part == IF f.todo THEN named ELSE e
           item == WithIndex(e, Len(f.val))
           place == WithIndex(e, f.at)
<1>3. Annotated(e, f) = CASE f.op = "message" -> typed
                          [] f.op = "tuple"   -> position
                          [] f.op = "entry"   -> part
                          [] f.op = "vector"  -> item
                          [] f.op \in Block   -> place
                          [] OTHER            -> e
  BY Zenon DEF Annotated
<1>4. Grown(named, e)
  BY <1>1, <1>2, Zenon
<1> HIDE DEF named
<1>5. Grown(staged, e)
  BY <1>2, <1>4, Zenon
<1> HIDE DEF staged
<1>6. Grown(told, e)
  BY <1>1, <1>4, <1>5, Zenon
<1> HIDE DEF told
<1>7. /\ f.op = "message" => Grown(typed, e)
      /\ Grown(position, e) /\ Grown(part, e) /\ Grown(item, e) /\ Grown(place, e)
  BY <1>1, <1>2, <1>a, <1>4, <1>6, Zenon
<1> HIDE DEF typed, position, part, item, place
<1> QED BY <1>1, <1>3, <1>7 DEF Block

(* A diagnostic that a reader whose window begins at `base' makes.         *)
LEMMA RaisedDiagnosed ==
    ASSUME NEW code \in ErrorCodes, NEW stage, NEW base \in Int, pos' \in 0 .. Len(input),
           Len(input) \in Nat
    PROVE  LET e == Raised(code, stage, base)
           IN  /\ Diagnosed(e, base)
               /\ stage # "none" => e.stage = stage
<1> DEFINE e0 == WithCode(Emplaced(NoError, pos' - base), code)
           e  == Raised(code, stage, base)
<1>1. /\ e0 = [part \in DiagnosticPart |-> e0[part]]
      /\ e0.code = code /\ e0.offset = pos' - base /\ e0.type = Absent /\ e0.stage = Absent
  BY DEF WithCode, Emplaced, NoError, DiagnosticPart
<1>2. e = IF stage = "none" THEN e0 ELSE FirstWins(e0, "stage", stage)
  BY DEF Raised, WithStage
<1> HIDE DEF e0, e
<1>3. /\ e = [part \in DiagnosticPart |-> e[part]]
      /\ e.code = code /\ e.offset = pos' - base /\ e.type = Absent
      /\ stage # "none" => e.stage = stage
  <2>1. CASE stage = "none"
    BY <1>1, <1>2, <2>1
  <2>2. CASE stage # "none"
    <3>1. e = FirstWins(e0, "stage", stage)
      BY <1>2, <2>2
    <3>2. /\ e = [part \in DiagnosticPart |-> e[part]]
          /\ \A q \in DiagnosticPart \ {"stage"} : e[q] = e0[q]
          /\ e0["stage"] = Absent => e["stage"] = stage
      BY <1>1, <3>1, FirstWinsType DEF DiagnosticPart
    <3> QED BY <1>1, <3>2 DEF DiagnosticPart
  <2> QED BY <2>1, <2>2
<1>4. e.offset \in Int /\ e.offset + base \in 0 .. Len(input)
  BY <1>3
<1> QED BY <1>3, <1>4 DEF Diagnosed, e

-----------------------------------------------------------------------------
(* What a step must leave behind for the invariant to hold again.          *)

(* The input stays, so what holds of it goes on to hold.                   *)
LEMMA NestedStays ==
    ASSUME input' = input, Nested(stack')
    PROVE  Nested(stack)'
BY DEF Nested, FrameOK, Outermost

(* The diagnostic of a failing read explains it whatever the other         *)
(* variables do.                                                           *)
LEMMA ExplainedStays ==
    ASSUME input' = input, Explained(error', Head(stack'))
    PROVE  Explained(error, Head(stack))'
BY DEF Explained, Diagnosed

(* The innermost call, while a read is in progress.                        *)
LEMMA AtHead ==
    ASSUME IInv, status \in {"reading", "failing"}
    PROVE  /\ stack # <<>> /\ Nested(stack) /\ FrameOK(Head(stack))
           /\ Len(input) \in Nat /\ input \in Seq(Byte)
           /\ Head(stack).base \in Nat /\ Head(stack).end \in 0 .. Len(input)
           /\ pos \in Head(stack).base .. Head(stack).end
           /\ pos \in 0 .. Head(stack).end /\ pos \in Nat
<1>1. stack # <<>> /\ Nested(stack) /\ input \in Seq(Byte) /\ Len(input) \in Nat
      /\ pos \in Head(stack).base .. Head(stack).end
  BY DEF IInv
<1>2. FrameOK(Head(stack))
  BY <1>1, NestHead
<1>3. Head(stack).base \in Nat /\ Head(stack).end \in 0 .. Len(input)
  BY <1>2 DEF FrameOK
<1>4. pos \in 0 .. Head(stack).end /\ pos \in Nat
  BY <1>1, <1>3
<1> QED BY <1>1, <1>2, <1>3, <1>4

(* A position in the window of a call is one in the input.                 *)
LEMMA WindowInInput ==
    ASSUME NEW f, FrameOK(f), Len(input) \in Nat, NEW p \in f.base .. f.end
    PROVE  p \in 0 .. Len(input)
BY DEF FrameOK

(* A step that goes on reading.                                            *)
LEMMA ReadingNext ==
    ASSUME IInv, status = "reading", input' = input, reads' = reads,
           status' = "reading", error' = error,
           Nested(stack'), stack' # <<>>, pos' \in Head(stack').base .. Head(stack').end
    PROVE  IInv'
<1>1. input' \in Seq(Byte) /\ reads' \in 0 .. MaxReads /\ Len(input) \in Nat
  BY DEF IInv
<1>2. FrameOK(Head(stack'))
  BY NestHead
<1>3. pos' \in 0 .. Len(input')
  BY <1>1, <1>2, WindowInInput
<1>4. error' = NoError
  BY DEF IInv, FailureTold
<1>5. Nested(stack)'
  BY NestedStays
<1> QED BY <1>1, <1>3, <1>4, <1>5 DEF IInv, FailureTold

(* A step that fails, or that goes on failing.                             *)
LEMMA FailingNext ==
    ASSUME IInv, input' = input, reads' = reads, status' = "failing",
           Nested(stack'), stack' # <<>>, pos' \in Head(stack').base .. Head(stack').end,
           \/ error' = NoError /\ Quiet(Head(stack'))
           \/ Explained(error', Head(stack'))
    PROVE  IInv'
<1>1. input' \in Seq(Byte) /\ reads' \in 0 .. MaxReads /\ Len(input) \in Nat
  BY DEF IInv
<1>2. FrameOK(Head(stack'))
  BY NestHead
<1>3. pos' \in 0 .. Len(input')
  BY <1>1, <1>2, WindowInInput
<1>4. \/ error' = NoError /\ Quiet(Head(stack))'
      \/ Explained(error, Head(stack))'
  BY ExplainedStays DEF Quiet
<1>5. Nested(stack)'
  BY NestedStays
<1>6. FailureTold'
  BY DEF FailureTold
<1> QED BY <1>1, <1>3, <1>4, <1>5, <1>6 DEF IInv

(* The innermost call goes on in another state.                            *)
LEMMA HeadGoesOn ==
    ASSUME IInv, status = "reading", UNCHANGED <<input, status, error, reads>>,
           NEW g, FrameOK(g), Same(g, Head(stack)), stack' = <<g>> \o Tail(stack),
           pos' \in Head(stack).base .. Head(stack).end
    PROVE  IInv'
<1>1. /\ Nested(<<g>> \o Tail(stack))
      /\ <<g>> \o Tail(stack) # <<>> /\ Head(<<g>> \o Tail(stack)) = g
  BY AtHead, NestReplace
<1>2. Nested(stack') /\ stack' # <<>> /\ Head(stack') = g
  BY <1>1
<1>3. g.base = Head(stack).base /\ g.end = Head(stack).end
  BY DEF Same
<1> QED BY <1>2, <1>3, ReadingNext

(* The innermost call makes another.                                       *)
LEMMA CallGoesOn ==
    ASSUME IInv, status = "reading", UNCHANGED <<input, status, error, reads>>,
           NEW g, FrameOK(g), Under(g, Head(stack)), stack' = <<g>> \o stack,
           pos' \in g.base .. g.end
    PROVE  IInv'
<1>1. Nested(<<g>> \o stack) /\ <<g>> \o stack # <<>> /\ Head(<<g>> \o stack) = g
  BY AtHead, NestPush
<1>2. Nested(stack') /\ stack' # <<>> /\ Head(stack') = g
  BY <1>1
<1> QED BY <1>2, ReadingNext

(* The innermost call fails; what it was reading into may be left behind.  *)
LEMMA FailGoesOn ==
    ASSUME IInv, status = "reading", UNCHANGED <<input, reads>>,
           NEW r, Outcome(r, pos, Head(stack).end), ~r.ok, Fail(r),
           Head(stack).op = "message" /\ ~Head(stack).todo => r.stage = "field_key",
           stack' = stack \/ (\E v : Spill(v))
    PROVE  IInv'
<1> DEFINE f == Head(stack)
<1>1. /\ pos' = pos + r.used /\ status' = "failing"
      /\ error' = Raised(r.code, r.stage, f.base)
      /\ r.used \in Nat /\ pos + r.used <= f.end /\ r.code \in ErrorCodes
  BY DEF Fail, Outcome
<1>2. /\ stack # <<>> /\ Nested(stack) /\ FrameOK(f) /\ Len(input) \in Nat
      /\ f.base \in Nat /\ f.end \in 0 .. Len(input)
      /\ pos \in f.base .. f.end /\ pos \in Nat
  BY AtHead
<1>3. /\ Nested(stack') /\ stack' # <<>>
      /\ Same(Head(stack'), f) /\ Head(stack').todo = f.todo
  <2>1. CASE stack' = stack
    BY <1>2, <2>1 DEF Same
  <2>2. CASE \E v : Spill(v)
    <3>1. PICK v : stack' = <<Spilled(f, v)>> \o Tail(stack)
      BY <2>2 DEF Spill
    <3>2. FrameOK(Spilled(f, v)) /\ Same(Spilled(f, v), f) /\ Spilled(f, v).todo = f.todo
      BY <1>2, SpilledFrame
    <3> HIDE DEF f
    <3>3. /\ Nested(<<Spilled(f, v)>> \o Tail(stack))
          /\ <<Spilled(f, v)>> \o Tail(stack) # <<>>
          /\ Head(<<Spilled(f, v)>> \o Tail(stack)) = Spilled(f, v)
      BY <1>2, <3>2, NestReplace DEF f
    <3> QED BY <3>1, <3>2, <3>3
  <2> QED BY <2>1, <2>2
<1>4. pos' \in f.base .. f.end /\ pos' \in 0 .. Len(input) /\ f.base \in Int
  BY <1>1, <1>2
<1>5. /\ Diagnosed(error', f.base)
      /\ r.stage # "none" => error'.stage = r.stage
  BY <1>1, <1>2, <1>4, RaisedDiagnosed
<1>6. Explained(error', Head(stack'))
  <2>1. Head(stack').base = f.base /\ Head(stack').op = f.op
    BY <1>3 DEF Same
  <2> QED BY <1>3, <1>5, <2>1 DEF Explained
<1>7. pos' \in Head(stack').base .. Head(stack').end
  BY <1>3, <1>4 DEF Same
<1> QED BY <1>1, <1>3, <1>6, <1>7, FailingNext

-----------------------------------------------------------------------------
(* Every step of a read keeps the invariant.                               *)

(* The innermost call awaits a value of a type there is a codec for.       *)
LEMMA AtWait ==
    ASSUME IInv, Waiting
    PROVE  /\ status = "reading" /\ Awaited(Head(stack)) \in Shapes
           /\ Head(stack).op \in Keyed => Head(stack).todo
           /\ Head(stack).todo \/ Head(stack).op \in Block
<1> DEFINE f == Head(stack)
<1>1. status = "reading" /\ FrameOK(f)
  BY AtHead DEF Waiting
<1>2. \/ f.op \in Block
      \/ f.op # "variant" /\ f.todo
  BY DEF Waiting
<1> HIDE DEF f
<1>3. f.op \in Keyed => f.todo
  BY <1>2 DEF Keyed, Block
<1>4. f.op # "variant"
  BY <1>1, <1>2 DEF FrameOK, Keyed, Block
<1>5. Awaited(f) \in Shapes
  BY <1>1, <1>2, <1>4, AwaitedShape
<1> QED BY <1>1, <1>2, <1>3, <1>5 DEF f

(* operator>>: the outermost message spans the whole input.                *)
LEMMA BeginReadKeeps ==
    ASSUME IInv, BeginRead
    PROVE  IInv'
<1> DEFINE f == Frame("message", Object(RootType), Null, 0, Len(input), FALSE, object)
<1>1. /\ stack' = <<f>> /\ status' = "reading" /\ error' = NoError
      /\ input' = input /\ pos' = pos /\ reads' = reads + 1 /\ reads < MaxReads
  BY DEF BeginRead
<1>2. /\ input \in Seq(Byte) /\ Len(input) \in Nat /\ pos \in 0 .. Len(input)
      /\ reads \in 0 .. MaxReads
  BY DEF IInv
<1>3. Object(RootType) \in Shapes /\ Object(RootType).kind = "object"
  BY ShapesAssumption DEF Object
<1>4. /\ FrameOK(f) /\ f.op = "message" /\ f.shape = Object(RootType) /\ f.base = 0
      /\ f.end = Len(input) /\ f.nested = FALSE
  <2>1. Makes("message", Object(RootType), Null, 0, Len(input))
    BY <1>2, <1>3 DEF Makes, Block
  <2>2. ASSUME NEW nested \in BOOLEAN
        PROVE  LET g == Frame("message", Object(RootType), Null, 0, Len(input), nested, object)
               IN  /\ FrameOK(g) /\ g.op = "message" /\ g.shape = Object(RootType)
                   /\ g.base = 0 /\ g.end = Len(input) /\ g.nested = nested
    BY <2>1, NewFrame
  <2>3. FALSE \in BOOLEAN
    OBVIOUS
  <2> QED BY <2>2, <2>3, Zenon
<1> HIDE DEF f
<1>5. Nested(<<f>>) /\ <<f>> # <<>> /\ Head(<<f>>) = f
  BY <1>4, NestSingle DEF Outermost
<1>6. Nested(stack)' /\ stack' # <<>> /\ Head(stack') = f
  <2>1. Nested(stack')
    BY <1>1, <1>5
  <2> QED BY <1>1, <1>5, <2>1, NestedStays
<1>7. reads' \in 0 .. MaxReads
  BY <1>1, <1>2, MaxReadsAssumption
<1> QED BY <1>1, <1>2, <1>4, <1>6, <1>7 DEF IInv, FailureTold

(* A key, of a field, of a part of an entry or of a tuple: the call goes   *)
(* on inside its window or the read fails.                                 *)
LEMMA ReadKeyKeeps ==
    ASSUME IInv, ReadKey
    PROVE  IInv'
<1> DEFINE f      == Head(stack)
           key    == ReadVarint(input, pos, f.end)
           number == NumberIn(key.value)
           code   == KeyCode(f, number)
           stage  == IF f.op = "message" THEN "field_key" ELSE "none"
           stg    == IF f.op = "entry" THEN "none" ELSE "field_key"
           g      == [f EXCEPT !.at = number, !.wire = WireIn(key.value), !.todo = TRUE]
<1>1. /\ status = "reading" /\ f.op \in Keyed /\ ~f.todo
      /\ input' = input /\ reads' = reads
  BY DEF ReadKey
<1>2. IF ~key.ok THEN Fail([key EXCEPT !.stage = stage]) /\ UNCHANGED stack
      ELSE IF code # "none" THEN Fail(Failed(code, stg, key.used)) /\ UNCHANGED stack
      ELSE /\ pos' = pos + key.used
           /\ stack' = <<g>> \o Tail(stack)
           /\ UNCHANGED <<status, error>>
  BY Zenon DEF ReadKey
<1>3. /\ FrameOK(f) /\ Len(input) \in Nat /\ input \in Seq(Byte)
      /\ f.base \in Nat /\ f.end \in 0 .. Len(input)
      /\ pos \in f.base .. f.end /\ pos \in 0 .. f.end /\ pos \in Nat
  BY <1>1, AtHead
<1>4. Outcome(key, pos, f.end) /\ (key.ok => key.value \in Nat)
  BY <1>3, VarintOutcome
<1>5. /\ key.used \in Nat /\ pos + key.used <= f.end /\ key.ok \in BOOLEAN
      /\ f.end \in Nat
  BY <1>3, <1>4 DEF Outcome
<1> HIDE DEF f, key, number, code, stage, stg, g
<1>6. CASE ~key.ok
  <2> DEFINE r == [key EXCEPT !.stage = stage]
  <2>1. Outcome(r, pos, f.end) /\ ~r.ok /\ r.stage = stage
    BY <1>4, <1>6 DEF Outcome
  <2>2. Fail(r) /\ stack' = stack
    BY <1>2, <1>6
  <2>3. f.op = "message" /\ ~f.todo => r.stage = "field_key"
    BY <2>1 DEF stage
  <2> HIDE DEF r
  <2> QED BY <1>1, <2>1, <2>2, <2>3, FailGoesOn DEF f
<1>7. CASE key.ok /\ code # "none"
  <2> DEFINE r == Failed(code, stg, key.used)
  <2>1. code \in ErrorCodes
    BY <1>7 DEF code, KeyCode, ErrorCodes
  <2>2. Outcome(r, pos, f.end) /\ ~r.ok /\ r.stage = stg
    BY <1>3, <1>5, <2>1, FailedOutcome
  <2>3. Fail(r) /\ stack' = stack
    BY <1>2, <1>7
  <2>4. f.op = "message" /\ ~f.todo => r.stage = "field_key"
    BY <2>2 DEF stg
  <2> HIDE DEF r
  <2> QED BY <1>1, <2>2, <2>3, <2>4, FailGoesOn DEF f
<1>8. CASE key.ok /\ code = "none"
  <2>1. number \in Known(f)
    BY <1>8 DEF code, KeyCode
  <2>2. WireIn(key.value) # Null
    <3>1. key.value % 8 \in Int
      BY <1>4, <1>8
    <3> QED BY <3>1, NullAssumption DEF WireIn
  <2>3. /\ g = [part \in FramePart |-> g[part]]
        /\ g.op = f.op /\ g.shape = f.shape /\ g.base = f.base /\ g.end = f.end
        /\ g.nested = f.nested /\ g.at = number /\ g.todo = TRUE
        /\ g.wire = WireIn(key.value)
    BY <1>3 DEF FrameOK, FramePart, g
  <2>4. g.at \in Known(g)
    BY <1>1, <2>1, <2>3 DEF Known, Keyed
  <2>5. FrameOK(g) /\ Same(g, f)
    BY <1>1, <1>3, <2>2, <2>3, <2>4 DEF FrameOK, Same, Keyed, Block
  <2>6. pos' \in f.base .. f.end /\ stack' = <<g>> \o Tail(stack) /\ UNCHANGED <<status, error>>
    BY <1>2, <1>3, <1>5, <1>8
  <2> QED BY <1>1, <2>5, <2>6, HeadGoesOn DEF f
<1> QED BY <1>5, <1>6, <1>7, <1>8

(* The wire type of the key is not that of the field: the read fails at    *)
(* its place.                                                              *)
LEMMA MismatchKeeps ==
    ASSUME IInv, Mismatch
    PROVE  IInv'
<1> DEFINE r == Failed("wire_type_mismatch", "none", 0)
<1>1. Waiting /\ Fail(r) /\ UNCHANGED <<input, stack, reads>>
  BY DEF Mismatch
<1>2. status = "reading" /\ (Head(stack).op \in Keyed => Head(stack).todo)
  BY <1>1, AtWait
<1>3. pos \in 0 .. Head(stack).end /\ pos \in Nat /\ Head(stack).end \in 0 .. Len(input)
      /\ Len(input) \in Nat
  BY <1>2, AtHead
<1>4. Outcome(r, pos, Head(stack).end) /\ ~r.ok
  <2>1. pos + 0 <= Head(stack).end /\ Head(stack).end \in Nat
        /\ "wire_type_mismatch" \in ErrorCodes
    BY <1>3 DEF ErrorCodes
  <2> QED BY <1>3, <2>1, FailedOutcome
<1> HIDE DEF r
<1>5. "message" \in Keyed
  BY DEF Keyed
<1> QED BY <1>1, <1>2, <1>4, <1>5, FailGoesOn

(* A scalar, a string or a view: delivered to the call that awaits it.     *)
LEMMA ReadScalarValueKeeps ==
    ASSUME IInv, ReadScalarValue
    PROVE  IInv'
<1> DEFINE f == Head(stack)
           r == ReadScalar(Awaited(f), input, pos, f.end)
<1>1. /\ Waiting /\ UNCHANGED <<input, reads>>
      /\ IF r.ok THEN Store(r.value, r.used) ELSE Fail(r) /\ UNCHANGED stack
  BY DEF ReadScalarValue
<1>2. status = "reading" /\ Awaited(f) \in Shapes /\ (f.op \in Keyed => f.todo)
  BY <1>1, AtWait
<1>3. /\ FrameOK(f) /\ Len(input) \in Nat /\ input \in Seq(Byte) /\ f.base \in Nat
      /\ f.end \in 0 .. Len(input) /\ pos \in f.base .. f.end /\ pos \in 0 .. f.end
  BY <1>2, AtHead
<1>4. Outcome(r, pos, f.end)
  BY <1>2, <1>3, ScalarOutcome
<1> HIDE DEF r
<1>5. CASE r.ok
  <2>1. /\ pos' = pos + r.used /\ UNCHANGED <<status, error>>
        /\ stack' = <<Delivered(f, r.value)>> \o Tail(stack)
    BY <1>1, <1>5 DEF Store
  <2>2. pos' \in f.base .. f.end
    BY <1>3, <1>4, <2>1 DEF Outcome
  <2>3. FrameOK(Delivered(f, r.value)) /\ Same(Delivered(f, r.value), f)
    BY <1>3, DeliveredFrame
  <2> QED BY <1>1, <1>2, <2>1, <2>2, <2>3, HeadGoesOn
<1>6. CASE ~r.ok
  <2>1. "message" \in Keyed
    BY DEF Keyed
  <2> QED BY <1>1, <1>2, <1>4, <1>6, <2>1, FailGoesOn
<1> QED BY <1>5, <1>6

(* A blob: taken whole, or refused for its length.                         *)
LEMMA ReadBlobKeeps ==
    ASSUME IInv, ReadBlob
    PROVE  IInv'
<1> DEFINE f      == Head(stack)
           shape  == Awaited(f)
           length == ReadVarint(input, pos, f.end)
           r      == ReadDelimited(input, pos, f.end, "length", "field_value")
           value  == BlobValue(shape, r.value, pos + length.used)
           bad    == Failed("invalid_size", "length", length.used)
<1>1. Waiting /\ UNCHANGED <<input, reads>>
  BY DEF ReadBlob
<1>2. IF r.ok /\ ~SizeRefused(shape, length.value)
      THEN Store(value, r.used)
      ELSE /\ IF length.ok /\ SizeRefused(shape, length.value) THEN Fail(bad) ELSE Fail(r)
           /\ IF shape.kind = "bitset"
              THEN Spill([i \in 1 .. shape.size |-> 0])
              ELSE UNCHANGED stack
  BY Zenon DEF ReadBlob
<1>3. status = "reading" /\ shape \in Shapes /\ (f.op \in Keyed => f.todo)
  BY <1>1, AtWait
<1>4. /\ FrameOK(f) /\ Len(input) \in Nat /\ input \in Seq(Byte) /\ f.base \in Nat
      /\ f.end \in 0 .. Len(input) /\ pos \in f.base .. f.end /\ pos \in 0 .. f.end
  BY <1>3, AtHead
<1>5. Outcome(r, pos, f.end) /\ Outcome(length, pos, f.end)
  BY <1>4, DelimitedOutcome
<1>6. /\ length.used \in Nat /\ pos + length.used <= f.end /\ pos \in Nat /\ f.end \in Nat
  BY <1>4, <1>5 DEF Outcome
<1>7. Outcome(bad, pos, f.end) /\ ~bad.ok
  <2>1. "invalid_size" \in ErrorCodes
    BY DEF ErrorCodes
  <2> QED BY <1>6, <2>1, FailedOutcome
<1>8. r.ok => length.ok
  BY <1>4, DelimitedOutcome
<1> HIDE DEF shape, length, r, value, bad
<1>9. CASE r.ok /\ ~SizeRefused(shape, length.value)
  <2>1. /\ pos' = pos + r.used /\ UNCHANGED <<status, error>>
        /\ stack' = <<Delivered(f, value)>> \o Tail(stack)
    BY <1>2, <1>9 DEF Store
  <2>2. pos' \in f.base .. f.end
    BY <1>4, <1>5, <2>1 DEF Outcome
  <2>3. FrameOK(Delivered(f, value)) /\ Same(Delivered(f, value), f)
    BY <1>4, DeliveredFrame
  <2> QED BY <1>1, <1>3, <2>1, <2>2, <2>3, HeadGoesOn
<1>10. CASE ~(r.ok /\ ~SizeRefused(shape, length.value))
  <2>1. stack' = stack \/ \E v : Spill(v)
    BY <1>2, <1>10
  <2>2. "message" \in Keyed
    BY DEF Keyed
  <2>3. CASE length.ok /\ SizeRefused(shape, length.value)
    <3>1. Fail(bad)
      BY <1>2, <1>10, <2>3
    <3> QED BY <1>1, <1>3, <1>7, <2>1, <2>2, <3>1, FailGoesOn
  <2>4. CASE ~(length.ok /\ SizeRefused(shape, length.value))
    <3>1. Fail(r) /\ ~r.ok
      BY <1>2, <1>8, <1>10, <2>4
    <3> QED BY <1>1, <1>3, <1>5, <2>1, <2>2, <3>1, FailGoesOn
  <2> QED BY <2>3, <2>4
<1> QED BY <1>9, <1>10

(* The codec that is called for a composite value.                         *)
LEMMA OpKinds ==
    ASSUME NEW f, Awaited(f) \in Shapes, Composite(Awaited(f))
    PROVE  LET op    == OpOf(f)
               shape == Awaited(f)
           IN  /\ op = "message" => shape.kind = "object"
               /\ op \in {"map", "entry"} => shape.kind \in MapKind
               /\ op = "packed" => shape.kind = "vector" /\ IsPacked(f)
               /\ op \in {"tuple", "array", "vector", "optional", "variant"} => op = shape.kind
               /\ op # "alternative"
<1> DEFINE shape == Awaited(f)
           packed == IsPacked(f)
<1>1. OpOf(f) = CASE shape.kind = "object"     -> "message"
                  [] shape.kind \in MapKind    -> "map"
                  [] packed                    -> "packed"
                  [] OTHER                     -> shape.kind
  BY Zenon DEF OpOf
<1>2. packed => shape.kind = "vector"
  BY DEF IsPacked
<1>3. shape.kind \in CodecKind
  BY CodecsAssumption
<1> HIDE DEF shape, packed
<1>4. CASE shape.kind = "object"
  BY <1>1, <1>2, <1>4 DEF MapKind, shape, packed
<1>5. CASE shape.kind \in MapKind
  BY <1>1, <1>2, <1>5 DEF MapKind, shape, packed
<1>6. CASE packed
  <2>1. OpOf(f) = "packed"
    BY <1>1, <1>2, <1>6 DEF MapKind
  <2> QED BY <1>2, <1>6, <2>1 DEF shape, packed
<1>7. CASE shape.kind # "object" /\ shape.kind \notin MapKind /\ ~packed
  <2>1. OpOf(f) = shape.kind
    BY <1>1, <1>7
  <2> QED BY <1>3, <1>7, <2>1 DEF CodecKind, shape, packed
<1> QED BY <1>4, <1>5, <1>6, <1>7

(* A codec that reads with the reader of its caller gets the window of its *)
(* caller.                                                                 *)
LEMMA OpenInPlaceKeeps ==
    ASSUME IInv, OpenInPlace
    PROVE  IInv'
<1> DEFINE f     == Head(stack)
           shape == Awaited(f)
           op    == OpOf(f)
           wire  == WireFor(f)
           val   == IF shape.kind = "optional" THEN Fresh[shape.elem] ELSE Storage(f)
           g     == Frame(op, shape, wire, f.base, f.end, FALSE, val)
<1>1. /\ Waiting /\ Composite(shape) /\ InPlace(f) /\ UNCHANGED <<input, reads>>
      /\ Call(g, 0)
  BY Zenon DEF OpenInPlace
<1>2. /\ status = "reading" /\ shape \in Shapes /\ (f.op \in Keyed => f.todo)
      /\ f.todo \/ f.op \in Block
  BY <1>1, AtWait
<1>3. /\ FrameOK(f) /\ f.base \in Nat /\ f.end \in 0 .. Len(input)
      /\ pos \in f.base .. f.end /\ pos \in Nat
  BY <1>2, AtHead
<1>4. /\ op = "message" => shape.kind = "object"
      /\ op \in {"map", "entry"} => shape.kind \in MapKind
      /\ op = "packed" => shape.kind = "vector" /\ IsPacked(f)
      /\ op \in {"tuple", "array", "vector", "optional", "variant"} => op = shape.kind
      /\ op # "alternative"
  BY <1>1, <1>2, OpKinds
<1>5. \/ shape.kind \in {"optional"} \cup MapKind
      \/ shape.kind = "vector" /\ ~IsPacked(f)
      \/ shape.kind \in {"object", "tuple", "variant"} /\ wire = Null
  BY <1>1 DEF InPlace
<1> HIDE DEF f, shape, op, wire, val
<1>6. op \in Block \cup {"variant"} => wire = Null
  BY <1>4, <1>5 DEF Block, MapKind
<1>7. f.base <= f.end
  BY <1>3 DEF FrameOK
<1>8. ASSUME NEW nested \in BOOLEAN
      PROVE  LET h == Frame(op, shape, wire, f.base, f.end, nested, val)
             IN  /\ FrameOK(h) /\ h.op = op /\ h.base = f.base /\ h.end = f.end
                 /\ h.nested = nested /\ h.wire = wire
  <2>1. Makes(op, shape, wire, f.base, f.end)
    BY <1>2, <1>3, <1>4, <1>6, <1>7 DEF Makes
  <2> QED BY <2>1, NewFrame
<1>9. /\ FrameOK(g) /\ g.op = op /\ g.base = f.base /\ g.end = f.end
      /\ g.nested = FALSE /\ g.wire = wire
  <2>1. FALSE \in BOOLEAN
    OBVIOUS
  <2> QED BY <1>8, <2>1, Zenon
<1>10. pos' = pos + 0 /\ stack' = <<g>> \o stack /\ UNCHANGED <<status, error>>
  BY <1>1 DEF Call, f
<1> HIDE DEF g
<1>11. pos' \in g.base .. g.end
  BY <1>3, <1>9, <1>10
<1>12. Under(g, f)
  BY <1>2, <1>3, <1>4, <1>9 DEF Under, wire
<1> QED BY <1>1, <1>2, <1>9, <1>10, <1>11, <1>12, CallGoesOn DEF f

(* A codec with a reader of its own gets a window within its caller's,     *)
(* behind which the caller goes on.                                        *)
LEMMA OpenNestedKeeps ==
    ASSUME IInv, OpenNested
    PROVE  IInv'
<1> DEFINE f      == Head(stack)
           shape  == Awaited(f)
           op     == OpOf(f)
           stages == CASE shape.kind = "object"            -> <<"none", "none">>
                       [] shape.kind \in {"vector", "array"} -> <<"length", "length">>
                       [] OTHER                              -> <<"length", "field_value">>
           r      == ReadDelimited(input, pos, f.end, stages[1], stages[2])
           length == ReadVarint(input, pos, f.end)
           begin  == pos + length.used
           g      == Frame(op, shape, Null, begin, begin + length.value, TRUE, Storage(f))
<1>1. /\ Waiting /\ Composite(shape) /\ UNCHANGED <<input, reads>>
      /\ IF r.ok THEN Call(g, length.used) ELSE Fail(r) /\ UNCHANGED stack
  BY Zenon DEF OpenNested
<1>2. status = "reading" /\ shape \in Shapes /\ (f.op \in Keyed => f.todo)
  BY <1>1, AtWait
<1>3. /\ FrameOK(f) /\ f.base \in Nat /\ f.end \in 0 .. Len(input) /\ input \in Seq(Byte)
      /\ pos \in f.base .. f.end /\ pos \in Nat /\ pos \in 0 .. f.end /\ Len(input) \in Nat
  BY <1>2, AtHead
<1>4. /\ Outcome(r, pos, f.end) /\ Outcome(length, pos, f.end)
      /\ r.ok => length.value \in Nat /\ pos + length.used + length.value <= f.end
  BY <1>3, DelimitedOutcome
<1>5. /\ op = "message" => shape.kind = "object"
      /\ op \in {"map", "entry"} => shape.kind \in MapKind
      /\ op = "packed" => shape.kind = "vector" /\ IsPacked(f)
      /\ op \in {"tuple", "array", "vector", "optional", "variant"} => op = shape.kind
      /\ op # "alternative"
  BY <1>1, <1>2, OpKinds
<1> HIDE DEF f, shape, op, stages, r, length
<1>6. CASE r.ok
  <2>1. /\ begin \in Nat /\ begin + length.value \in 0 .. Len(input)
        /\ begin <= begin + length.value /\ f.base <= begin
        /\ begin + length.value <= f.end /\ begin \in begin .. begin + length.value
    BY <1>3, <1>4, <1>6 DEF Outcome
  <2>2. pos' = begin /\ stack' = <<g>> \o stack /\ UNCHANGED <<status, error>>
    BY <1>1, <1>6 DEF Call
  <2> HIDE DEF begin
  <2>3. ASSUME NEW nested \in BOOLEAN
        PROVE  LET h == Frame(op, shape, Null, begin, begin + length.value, nested, Storage(f))
               IN  /\ FrameOK(h) /\ h.op = op /\ h.base = begin /\ h.end = begin + length.value
                   /\ h.nested = nested
    <3>1. Makes(op, shape, Null, begin, begin + length.value)
      BY <1>2, <1>5, <2>1 DEF Makes
    <3> QED BY <3>1, NewFrame
  <2>4. /\ FrameOK(g) /\ g.op = op /\ g.base = begin /\ g.end = begin + length.value
        /\ g.nested = TRUE
    <3>1. TRUE \in BOOLEAN
      OBVIOUS
    <3> QED BY <2>3, <3>1, Zenon
  <2> HIDE DEF g
  <2>5. Under(g, f)
    BY <1>2, <1>5, <2>1, <2>4 DEF Under
  <2>6. pos' \in g.base .. g.end
    BY <2>1, <2>2, <2>4
  <2> QED BY <1>1, <1>2, <2>2, <2>4, <2>5, <2>6, CallGoesOn DEF f
<1>7. CASE ~r.ok
  <2>1. "message" \in Keyed
    BY DEF Keyed
  <2>2. Fail(r) /\ stack' = stack
    BY <1>1, <1>7
  <2> QED BY <1>1, <1>2, <1>4, <1>7, <2>1, <2>2, FailGoesOn DEF f
<1> QED BY <1>6, <1>7

(* The entry of a map likewise, from a fresh key and a fresh value.        *)
LEMMA OpenEntryKeeps ==
    ASSUME IInv, OpenEntry
    PROVE  IInv'
<1> DEFINE f      == Head(stack)
           r      == ReadDelimited(input, pos, f.end, "length", "field_value")
           length == ReadVarint(input, pos, f.end)
           begin  == pos + length.used
           fresh  == <<Fresh[f.shape.key], Fresh[f.shape.elem]>>
           g      == Frame("entry", f.shape, Null, begin, begin + length.value, TRUE, fresh)
<1>1. /\ status = "reading" /\ f.op = "map" /\ UNCHANGED <<input, reads>>
      /\ IF r.ok THEN Call(g, length.used) ELSE Fail(r) /\ UNCHANGED stack
  BY Zenon DEF OpenEntry
<1>2. /\ FrameOK(f) /\ f.base \in Nat /\ f.end \in 0 .. Len(input) /\ input \in Seq(Byte)
      /\ pos \in f.base .. f.end /\ pos \in Nat /\ pos \in 0 .. f.end /\ Len(input) \in Nat
  BY <1>1, AtHead
<1>3. /\ Outcome(r, pos, f.end) /\ Outcome(length, pos, f.end)
      /\ r.ok => length.value \in Nat /\ pos + length.used + length.value <= f.end
  BY <1>2, DelimitedOutcome
<1>4. f.shape \in Shapes /\ f.shape.kind \in MapKind
  BY <1>1, <1>2 DEF FrameOK
<1> HIDE DEF f, r, length, fresh
<1>5. CASE r.ok
  <2>1. /\ begin \in Nat /\ begin + length.value \in 0 .. Len(input)
        /\ begin <= begin + length.value /\ f.base <= begin
        /\ begin + length.value <= f.end /\ begin \in begin .. begin + length.value
    BY <1>2, <1>3, <1>5 DEF Outcome
  <2>2. pos' = begin /\ stack' = <<g>> \o stack /\ UNCHANGED <<status, error>>
    BY <1>1, <1>5 DEF Call
  <2> HIDE DEF begin
  <2>3. Makes("entry", f.shape, Null, begin, begin + length.value)
    BY <1>4, <2>1 DEF Makes, Block
  <2>4. ASSUME NEW nested \in BOOLEAN
        PROVE  LET h == Frame("entry", f.shape, Null, begin, begin + length.value, nested, fresh)
               IN  /\ FrameOK(h) /\ h.op = "entry" /\ h.base = begin
                   /\ h.end = begin + length.value /\ h.nested = nested
    BY <2>3, NewFrame
  <2>5. /\ FrameOK(g) /\ g.op = "entry" /\ g.base = begin /\ g.end = begin + length.value
        /\ g.nested = TRUE
    <3>1. TRUE \in BOOLEAN
      OBVIOUS
    <3> QED BY <2>4, <3>1, Zenon
  <2> HIDE DEF g
  <2>6. Under(g, f)
    BY <1>1, <2>1, <2>5 DEF Under, Keyed
  <2>7. pos' \in g.base .. g.end
    BY <2>1, <2>2, <2>5
  <2> QED BY <1>1, <2>2, <2>5, <2>6, <2>7, CallGoesOn DEF f
<1>6. CASE ~r.ok
  <2>1. Fail(r) /\ stack' = stack
    BY <1>1, <1>6
  <2> QED BY <1>1, <1>3, <1>6, <2>1, FailGoesOn DEF f
<1> QED BY <1>5, <1>6

(* A key of a variant that is not the one expected.                        *)
LEMMA FixedKeyOutcome ==
    ASSUME NEW f, input \in Seq(Byte), f.end \in 0 .. Len(input), pos \in 0 .. f.end,
           NEW number, NEW wire
    PROVE  Outcome(ReadFixedKey(f, number, wire), pos, f.end)
<1> DEFINE key == ReadVarint(input, pos, f.end)
           zero == Failed("field_number_zero", "field_key", key.used)
           other == Failed("unknown_field", "field_key", key.used)
           wired == Failed("wire_type_mismatch", "none", key.used)
           r == ReadFixedKey(f, number, wire)
<1>1. Outcome(key, pos, f.end)
  BY VarintOutcome
<1>2. \/ r = key \/ r = zero \/ r = other \/ r = wired
  BY Zenon DEF ReadFixedKey
<1> HIDE DEF key, r
<1>3. /\ "field_number_zero" \in ErrorCodes /\ "unknown_field" \in ErrorCodes
      /\ "wire_type_mismatch" \in ErrorCodes
  BY DEF ErrorCodes
<1>4. key.used \in Nat /\ pos + key.used <= f.end /\ pos \in Nat /\ f.end \in Nat
  BY <1>1 DEF Outcome
<1>5. Outcome(zero, pos, f.end) /\ Outcome(other, pos, f.end) /\ Outcome(wired, pos, f.end)
  BY <1>3, <1>4, FailedOutcome
<1> HIDE DEF zero, other, wired
<1> QED BY <1>1, <1>2, <1>5, Zenon DEF r

(* The two keys of a variant, in their order.                              *)
LEMMA ReadVariantKeyKeeps ==
    ASSUME IInv, ReadVariantKey
    PROVE  IInv'
<1> DEFINE f   == Head(stack)
           key == IF f.seen = {} THEN ReadFixedKey(f, 1, VarintWire)
                  ELSE ReadFixedKey(f, 2, DelimitedWire)
           g   == [f EXCEPT !.seen = @ \cup {NumberIn(key.value)}]
<1>1. /\ status = "reading" /\ f.op = "variant" /\ UNCHANGED <<input, reads>>
      /\ IF ~key.ok THEN Fail(key) /\ UNCHANGED stack
         ELSE /\ pos' = pos + key.used
              /\ stack' = <<g>> \o Tail(stack)
              /\ UNCHANGED <<status, error>>
  BY Zenon DEF ReadVariantKey
<1>2. /\ FrameOK(f) /\ f.base \in Nat /\ f.end \in 0 .. Len(input) /\ input \in Seq(Byte)
      /\ pos \in f.base .. f.end /\ pos \in Nat /\ pos \in 0 .. f.end
  BY <1>1, AtHead
<1> HIDE DEF f
<1>3. Outcome(key, pos, f.end)
  BY <1>2, FixedKeyOutcome
<1> HIDE DEF key, g
<1>4. CASE key.ok
  <2>1. /\ g = [part \in FramePart |-> g[part]]
        /\ g.op = f.op /\ g.shape = f.shape /\ g.base = f.base /\ g.end = f.end
        /\ g.nested = f.nested /\ g.at = f.at /\ g.todo = f.todo /\ g.wire = f.wire
    BY <1>2 DEF FrameOK, FramePart, g
  <2>2. FrameOK(g) /\ Same(g, f)
    BY <1>1, <1>2, <2>1 DEF FrameOK, Same, Keyed, Block
  <2>3. pos' \in f.base .. f.end
    BY <1>1, <1>2, <1>3, <1>4 DEF Outcome
  <2> QED BY <1>1, <1>4, <2>2, <2>3, HeadGoesOn DEF f
<1>5. CASE ~key.ok
  BY <1>1, <1>3, <1>5, FailGoesOn DEF f
<1> QED BY <1>4, <1>5

(* The index of a variant: one of its alternatives.                        *)
LEMMA ReadIndexKeeps ==
    ASSUME IInv, ReadIndex
    PROVE  IInv'
<1> DEFINE f     == Head(stack)
           index == ReadVarint(input, pos, f.end)
           g     == [f EXCEPT !.at = index.value + 1, !.todo = TRUE]
<1>1. /\ status = "reading" /\ f.op = "variant" /\ UNCHANGED <<input, reads>>
      /\ IF ~index.ok THEN Fail(index) /\ UNCHANGED stack
         ELSE /\ pos' = pos + index.used
              /\ stack' = <<g>> \o Tail(stack)
              /\ UNCHANGED <<status, error>>
  BY Zenon DEF ReadIndex
<1>2. /\ FrameOK(f) /\ f.base \in Nat /\ f.end \in 0 .. Len(input) /\ input \in Seq(Byte)
      /\ pos \in f.base .. f.end /\ pos \in Nat /\ pos \in 0 .. f.end
  BY <1>1, AtHead
<1>3. Outcome(index, pos, f.end)
  BY <1>2, VarintOutcome
<1> HIDE DEF f, index, g
<1>4. CASE index.ok
  <2>1. /\ g = [part \in FramePart |-> g[part]]
        /\ g.op = f.op /\ g.shape = f.shape /\ g.base = f.base /\ g.end = f.end
        /\ g.nested = f.nested /\ g.todo = TRUE /\ g.wire = f.wire
    BY <1>2 DEF FrameOK, FramePart, g
  <2>2. FrameOK(g) /\ Same(g, f)
    BY <1>1, <1>2, <2>1 DEF FrameOK, Same, Keyed, Block
  <2>3. pos' \in f.base .. f.end
    BY <1>1, <1>2, <1>3, <1>4 DEF Outcome
  <2> QED BY <1>1, <1>4, <2>2, <2>3, HeadGoesOn DEF f
<1>5. CASE ~index.ok
  BY <1>1, <1>3, <1>5, FailGoesOn DEF f
<1> QED BY <1>4, <1>5

(* The alternative of a variant is read from a window of its own.          *)
LEMMA OpenAlternativeKeeps ==
    ASSUME IInv, OpenAlternative
    PROVE  IInv'
<1> DEFINE f      == Head(stack)
           r      == ReadDelimited(input, pos, f.end, "none", "none")
           length == ReadVarint(input, pos, f.end)
           begin  == pos + length.used
           val    == Fresh[f.shape.elems[f.at]]
           g      == [Frame("alternative", f.shape, Null, begin, begin + length.value, TRUE,
                            val) EXCEPT !.at = f.at, !.todo = TRUE]
<1>1. /\ status = "reading" /\ f.op = "variant" /\ UNCHANGED <<input, reads>>
      /\ IF ~r.ok THEN Fail(r) /\ UNCHANGED stack
         ELSE IF f.at \notin DOMAIN f.shape.elems
         THEN /\ pos' = begin + length.value
              /\ status' = "failing"
              /\ error' = NoError
              /\ UNCHANGED stack
         ELSE Call(g, length.used)
  BY Zenon DEF OpenAlternative
<1>2. /\ FrameOK(f) /\ f.base \in Nat /\ f.end \in 0 .. Len(input) /\ input \in Seq(Byte)
      /\ pos \in f.base .. f.end /\ pos \in Nat /\ pos \in 0 .. f.end /\ Len(input) \in Nat
      /\ stack # <<>> /\ Nested(stack)
  BY <1>1, AtHead
<1>3. /\ Outcome(r, pos, f.end) /\ Outcome(length, pos, f.end)
      /\ r.ok => length.value \in Nat /\ pos + length.used + length.value <= f.end
  BY <1>2, DelimitedOutcome
<1>4. f.shape \in Shapes /\ f.shape.kind = "variant" /\ f.wire = Null
  BY <1>1, <1>2 DEF FrameOK
<1> HIDE DEF f, r, length, val
<1>5. CASE ~r.ok
  BY <1>1, <1>3, <1>5, FailGoesOn DEF f
<1>6. CASE r.ok
  <2>1. /\ begin \in Nat /\ begin + length.value \in 0 .. Len(input)
        /\ begin <= begin + length.value /\ f.base <= begin
        /\ begin + length.value <= f.end /\ begin \in begin .. begin + length.value
        /\ begin + length.value \in f.base .. f.end
    BY <1>2, <1>3, <1>6 DEF Outcome
  <2>2. CASE f.at \notin DOMAIN f.shape.elems
    <3>1. /\ pos' = begin + length.value /\ status' = "failing" /\ error' = NoError
          /\ stack' = stack
      BY <1>1, <1>6, <2>2
    <3>2. Quiet(f)
      BY <1>1, <1>4 DEF Quiet, Keyed
    <3> QED BY <1>1, <1>2, <2>1, <3>1, <3>2, FailingNext DEF f
  <2>3. CASE f.at \in DOMAIN f.shape.elems
    <3>1. pos' = begin /\ stack' = <<g>> \o stack /\ UNCHANGED <<status, error>>
      BY <1>1, <1>6, <2>3 DEF Call
    <3> HIDE DEF begin
    <3>2. /\ FrameOK(g) /\ g.op = "alternative" /\ g.base = begin
          /\ g.end = begin + length.value /\ g.nested = TRUE
      <4>1. Makes("variant", f.shape, Null, begin, begin + length.value)
        BY <1>4, <2>1 DEF Makes
      <4> QED BY <2>3, <4>1, NewAlternative
    <3> HIDE DEF g
    <3>3. Under(g, f)
      BY <1>1, <2>1, <3>2 DEF Under, Keyed
    <3>4. pos' \in g.base .. g.end
      BY <2>1, <3>1, <3>2
    <3> QED BY <1>1, <3>1, <3>2, <3>3, <3>4, CallGoesOn DEF f
  <2> QED BY <2>2, <2>3
<1> QED BY <1>5, <1>6

(* The innermost call and the one that made it.                            *)
LEMMA AtReturn ==
    ASSUME IInv, status \in {"reading", "failing"}, Len(stack) > 1
    PROVE  /\ Nested(Tail(stack)) /\ Tail(stack) # <<>> /\ Caller = Head(Tail(stack))
           /\ FrameOK(Caller) /\ Under(Head(stack), Caller)
           /\ Head(stack).end \in Caller.base .. Caller.end
           /\ pos \in Caller.base .. Caller.end
           /\ Behind(Head(stack)) \in Caller.base .. Caller.end
           /\ Caller.base \in Nat
<1> DEFINE f == Head(stack)
           c == Caller
<1>1. /\ Nested(Tail(stack)) /\ Tail(stack) # <<>> /\ c = Head(Tail(stack))
      /\ FrameOK(c) /\ Under(f, c)
  BY AtHead, NestPop DEF Caller
<1>2. /\ FrameOK(f) /\ f.base \in Nat /\ f.end \in Nat /\ pos \in f.base .. f.end
      /\ f.base <= f.end /\ f.nested \in BOOLEAN
  BY AtHead DEF FrameOK
<1>3. c.base \in Nat /\ c.end \in Nat /\ c.base <= f.base /\ f.end <= c.end
  <2>1. Len(input) \in Nat
    BY AtHead
  <2> QED BY <1>1, <2>1 DEF FrameOK, Under
<1>4. f.end \in c.base .. c.end /\ pos \in c.base .. c.end
  BY <1>2, <1>3
<1>5. Behind(f) \in c.base .. c.end
  BY <1>4 DEF Behind
<1> QED BY <1>1, <1>3, <1>4, <1>5

(* The caller goes on in place of the innermost call.                      *)
LEMMA CallerFrames ==
    ASSUME IInv, status \in {"reading", "failing"}, Len(stack) > 1,
           NEW g, FrameOK(g), Same(g, Caller)
    PROVE  LET t == <<g>> \o Tail(Tail(stack))
           IN  Nested(t) /\ t # <<>> /\ Head(t) = g
<1>1. Nested(Tail(stack)) /\ Tail(stack) # <<>> /\ Caller = Head(Tail(stack))
  BY AtReturn
<1> QED BY <1>1, NestReplace

(* A codec returns its value: its caller is again the innermost call, at   *)
(* the place it left off.                                                  *)
LEMMA ReturnValueKeeps ==
    ASSUME IInv, ReturnValue
    PROVE  IInv'
<1> DEFINE f == Head(stack)
           g == Delivered(Caller, f.val)
<1>1. /\ status = "reading" /\ Len(stack) > 1 /\ pos' = Behind(f)
      /\ stack' = <<g>> \o Tail(Tail(stack))
      /\ UNCHANGED <<input, status, error, reads>>
  BY Zenon DEF ReturnValue
<1>2. FrameOK(Caller) /\ Behind(f) \in Caller.base .. Caller.end
  BY <1>1, AtReturn
<1>3. FrameOK(g) /\ Same(g, Caller)
  BY <1>2, DeliveredFrame
<1> HIDE DEF g
<1>4. Nested(stack') /\ stack' # <<>> /\ Head(stack') = g
  BY <1>1, <1>3, CallerFrames
<1>5. pos' \in g.base .. g.end
  BY <1>1, <1>2, <1>3 DEF Same
<1> QED BY <1>1, <1>4, <1>5, ReadingNext

(* A tuple without one of its elements fails behind its last byte.         *)
LEMMA MissesElementKeeps ==
    ASSUME IInv, MissesElement
    PROVE  IInv'
<1> DEFINE r == Failed("invalid_size", "field_value", 0)
<1>1. /\ status = "reading" /\ Head(stack).op = "tuple" /\ Fail(r)
      /\ UNCHANGED <<input, stack, reads>>
  BY DEF MissesElement
<1>2. pos \in 0 .. Head(stack).end /\ pos \in Nat /\ Head(stack).end \in 0 .. Len(input)
      /\ Len(input) \in Nat
  BY <1>1, AtHead
<1>3. Outcome(r, pos, Head(stack).end) /\ ~r.ok
  <2>1. pos + 0 <= Head(stack).end /\ Head(stack).end \in Nat
        /\ "invalid_size" \in ErrorCodes
    BY <1>2 DEF ErrorCodes
  <2> QED BY <1>2, <2>1, FailedOutcome
<1> HIDE DEF r
<1> QED BY <1>1, <1>3, FailGoesOn

(* A block with too few or too many bytes is refused by the caller's       *)
(* reader.                                                                 *)
LEMMA WrongSizeKeeps ==
    ASSUME IInv, WrongSize
    PROVE  IInv'
<1> DEFINE f == Head(stack)
           g == Spilled(Caller, f.val)
           e == Raised("invalid_size", "field_value", Caller.base)
<1>1. /\ status = "reading" /\ f.op \in {"array", "alternative"}
      /\ pos' = f.end /\ status' = "failing"
      /\ stack' = <<g>> \o Tail(Tail(stack))
      /\ error' = IF f.op = "array" THEN WithIndex(e, f.at) ELSE e
      /\ UNCHANGED <<input, reads>>
  BY Zenon DEF WrongSize
<1>2. Len(stack) > 1
  <2>1. Len(stack) \in Nat \ {0} /\ (Len(stack) = 1 => Outermost(f))
    BY <1>1, AtHead, NestHead
  <2>2. Len(stack) # 1
    BY <1>1, <2>1 DEF Outermost
  <2>3. \A n \in Nat \ {0} : n # 1 => n > 1
    OBVIOUS
  <2> QED BY <2>1, <2>2, <2>3, Zenon
<1>3. /\ FrameOK(Caller) /\ Under(f, Caller)
      /\ f.end \in Caller.base .. Caller.end /\ Caller.base \in Nat
  BY <1>1, <1>2, AtReturn
<1>4. FrameOK(g) /\ Same(g, Caller) /\ g.todo = Caller.todo
  BY <1>3, SpilledFrame
<1> HIDE DEF g
<1>5. Nested(stack') /\ stack' # <<>> /\ Head(stack') = g
  BY <1>1, <1>2, <1>4, CallerFrames
<1>6. pos' \in g.base .. g.end
  BY <1>1, <1>3, <1>4 DEF Same
<1>7. Diagnosed(e, Caller.base)
  <2>1. Len(input) \in Nat
    BY <1>1, AtHead
  <2>2. pos' \in 0 .. Len(input)
    BY <1>1, <1>3, <2>1, WindowInInput
  <2>3. Caller.base \in Int /\ "invalid_size" \in ErrorCodes
    BY <1>3 DEF ErrorCodes
  <2> QED BY <2>1, <2>2, <2>3, RaisedDiagnosed
<1> HIDE DEF e
<1>8. Diagnosed(error', Caller.base)
  <2>1. CASE f.op = "array"
    <3>1. error' = FirstWins(e, "index", f.at)
      BY <1>1, <2>1 DEF WithIndex
    <3>2. e = [part \in DiagnosticPart |-> e[part]]
      BY <1>7 DEF Diagnosed
    <3>3. /\ error' = [part \in DiagnosticPart |-> error'[part]]
          /\ \A q \in DiagnosticPart \ {"index"} : error'[q] = e[q]
      BY <3>1, <3>2, FirstWinsType DEF DiagnosticPart
    <3>4. error'.code = e.code /\ error'.type = e.type /\ error'.offset = e.offset
      BY <3>3 DEF DiagnosticPart
    <3> QED BY <1>7, <3>3, <3>4 DEF Diagnosed
  <2>2. CASE f.op # "array"
    BY <1>1, <1>7, <2>2
  <2> QED BY <2>1, <2>2
<1>9. g.op \in Keyed => g.todo
  BY <1>3, <1>4 DEF Under, Same
<1>10. Explained(error', g)
  BY <1>4, <1>8, <1>9 DEF Explained, Same, Keyed
<1> QED BY <1>1, <1>5, <1>6, <1>10, FailingNext

(* operator>> succeeds: nothing is left of the calls, and there is no      *)
(* diagnostic.                                                             *)
LEMMA EndReadKeeps ==
    ASSUME IInv, EndRead
    PROVE  IInv'
<1>1. /\ status = "reading" /\ stack' = <<>> /\ status' = "ok"
      /\ UNCHANGED <<input, pos, error, reads>>
  BY DEF EndRead
<1>2. error = NoError
  BY <1>1 DEF IInv, FailureTold
<1>3. Nested(<<>>)
  BY DEF Nested, IsSeq
<1>4. Nested(stack)'
  BY <1>1, <1>3, NestedStays
<1> QED BY <1>1, <1>2, <1>4 DEF IInv, FailureTold

-----------------------------------------------------------------------------
(* A failure on its way out.                                               *)

(* What a failing call's annotation keeps.                                 *)
LEMMA AnnotatedDiagnosed ==
    ASSUME NEW e, NEW base, Diagnosed(e, base), NEW f, FrameOK(f)
    PROVE  /\ Diagnosed(Annotated(e, f), base) /\ Grown(Annotated(e, f), e)
           /\ Annotated(e, f) # NoError
<1> DEFINE d == Annotated(e, f)
<1>1. Grown(d, e)
  BY AnnotatedGrown DEF Diagnosed
<1>2. d.type \in DOMAIN Fields \cup {Absent}
  BY <1>1 DEF Diagnosed, Grown
<1>3. d.code \in ErrorCodes /\ NoError.code = "none" /\ "none" \notin ErrorCodes
  BY <1>1 DEF Diagnosed, Grown, NoError, ErrorCodes
<1> HIDE DEF d
<1> QED BY <1>1, <1>2, <1>3 DEF Diagnosed, Grown, d

(* What operator>> adds to the diagnostic it throws.                       *)
LEMMA MessageAnnotated ==
    ASSUME NEW e, NEW base, Diagnosed(e, base), NEW f, FrameOK(f), f.op = "message"
    PROVE  /\ Annotated(e, f).type \in DOMAIN Fields
           /\ f.todo => Annotated(e, f).field # Absent
           /\ ~f.todo => Annotated(e, f).stage = e.stage
<1> DEFINE fielded == FirstWins(e, "field", f.at)
           named   == FirstWins(fielded, "name", f.at)
           staged  == FirstWins(named, "stage", "field_value")
           told    == IF ~f.todo THEN e ELSE IF FieldOf(f).direct THEN named ELSE staged
           d       == FirstWins(told, "type", f.shape.type)
<1>1. Annotated(e, f) = d
  <2> DEFINE d0   == WithType(IF ~f.todo THEN e
                              ELSE IF FieldOf(f).direct THEN WithName(WithField(e, f.at), f.at)
                              ELSE WithStage(WithName(WithField(e, f.at), f.at), "field_value"),
                              f.shape.type)
             place == IF f.todo THEN WithField(e, f.at) ELSE e
             part  == IF f.todo THEN WithName(WithField(e, f.at), f.at) ELSE e
             item  == WithIndex(e, Len(f.val))
             spot  == WithIndex(e, f.at)
  <2>1. Annotated(e, f) = CASE f.op = "message" -> d0
                            [] f.op = "tuple"   -> place
                            [] f.op = "entry"   -> part
                            [] f.op = "vector"  -> item
                            [] f.op \in Block   -> spot
                            [] OTHER            -> e
    BY Zenon DEF Annotated
  <2>2. d0 = d
    BY Zenon DEF WithType, WithStage, WithName, WithField
  <2> HIDE DEF d0, place, part, item, spot, d
  <2> QED BY <2>1, <2>2 DEF Block
<1>2. f.shape.type \in DOMAIN Fields /\ f.todo \in BOOLEAN
  BY ShapesAssumption DEF FrameOK, ValidShapes
<1>3. f.todo => f.at # Absent
  <2>1. f.todo => f.at \in FieldIds(Fields, f.shape.type)
    BY DEF FrameOK, Known, Keyed
  <2>2. f.shape \in Shapes /\ f.shape.kind = "object"
    BY DEF FrameOK
  <2>3. f.todo => f.at \in Nat
    BY <2>1, <2>2, FieldShape
  <2> QED BY <2>3, AbsentAssumption
<1> DEFINE Kept(x) == /\ x = [part \in DiagnosticPart |-> x[part]]
                      /\ x.type = e.type /\ (f.todo => x.field # Absent)
<1>4. /\ fielded = [part \in DiagnosticPart |-> fielded[part]]
      /\ \A q \in DiagnosticPart \ {"field"} : fielded[q] = e[q]
      /\ e["field"] = Absent => fielded["field"] = f.at
      /\ e["field"] # Absent => fielded["field"] = e["field"]
  BY FirstWinsType DEF Diagnosed, DiagnosticPart
<1> HIDE DEF fielded
<1>5. Kept(fielded)
  BY <1>3, <1>4 DEF DiagnosticPart
<1>6. /\ named = [part \in DiagnosticPart |-> named[part]]
      /\ \A q \in DiagnosticPart \ {"name"} : named[q] = fielded[q]
  BY <1>5, FirstWinsType DEF DiagnosticPart
<1> HIDE DEF named
<1>7. Kept(named)
  BY <1>5, <1>6 DEF DiagnosticPart
<1>8. /\ staged = [part \in DiagnosticPart |-> staged[part]]
      /\ \A q \in DiagnosticPart \ {"stage"} : staged[q] = named[q]
  BY <1>7, FirstWinsType DEF DiagnosticPart
<1> HIDE DEF staged
<1>9. Kept(staged)
  BY <1>7, <1>8 DEF DiagnosticPart
<1>10. e = [part \in DiagnosticPart |-> e[part]] /\ e.type \in DOMAIN Fields \cup {Absent}
  BY DEF Diagnosed
<1>11. Kept(told) /\ (~f.todo => told = e)
  BY <1>2, <1>7, <1>9, <1>10
<1> HIDE DEF told
<1>12. /\ d = [part \in DiagnosticPart |-> d[part]]
       /\ \A q \in DiagnosticPart \ {"type"} : d[q] = told[q]
       /\ told["type"] = Absent => d["type"] = f.shape.type
       /\ told["type"] # Absent => d["type"] = told["type"]
  BY <1>11, FirstWinsType DEF DiagnosticPart
<1> HIDE DEF d
<1>13. d.type \in DOMAIN Fields /\ d.field = told.field /\ d.stage = told.stage
  BY <1>2, <1>10, <1>11, <1>12 DEF DiagnosticPart
<1> QED BY <1>1, <1>11, <1>13

(* A step keeps what the diagnostic says, and the byte it names.           *)
Kept ==
    /\ Place(error', stack') = Place(error, stack)
    /\ \A part \in {"code", "stage", "type", "field", "index"} :
          error[part] \in {Absent, error'[part]}

(* operator>> throws: the diagnostic has what the codecs told it.          *)
LEMMA ThrowKeeps ==
    ASSUME IInv, Throw
    PROVE  IInv' /\ Kept
<1> DEFINE f == Head(stack)
           e == Annotated(error, f)
<1>1. /\ status = "failing" /\ Len(stack) = 1 /\ error' = e /\ stack' = <<>>
      /\ status' = "error" /\ UNCHANGED <<input, pos, reads>>
  BY DEF Throw
<1>2. /\ FrameOK(f) /\ stack # <<>> /\ Nested(stack) /\ Len(input) \in Nat
  BY <1>1, AtHead
<1>3. Outermost(f)
  BY <1>1, <1>2, NestHead
<1>4. f.op = "message" /\ f.base = 0
  BY <1>3 DEF Outermost
<1>5. Explained(error, f)
  BY <1>1, <1>4 DEF IInv, Quiet, Keyed
<1> HIDE DEF f, e
<1>6. Diagnosed(error, 0) /\ (~f.todo => error.stage = "field_key")
  BY <1>4, <1>5 DEF Explained
<1>7. Diagnosed(e, 0) /\ Grown(e, error)
  BY <1>2, <1>6, AnnotatedDiagnosed DEF e
<1>8. /\ e.type \in DOMAIN Fields
      /\ f.todo => e.field # Absent
      /\ ~f.todo => e.stage = error.stage
  BY <1>2, <1>4, <1>6, MessageAnnotated DEF e
<1>9. e.code \in ErrorCodes /\ e.offset \in 0 .. Len(input)
  BY <1>7 DEF Diagnosed
<1>10. FailureTold'
  BY <1>1, <1>6, <1>8, <1>9 DEF FailureTold
<1>11. Nested(stack)' /\ Diagnosed(error, 0)'
  <2>1. Nested(stack')
    BY <1>1 DEF Nested, IsSeq
  <2>2. Diagnosed(error', 0)
    BY <1>1, <1>7
  <2> QED BY <1>1, <2>1, <2>2, NestedStays DEF Diagnosed
<1>12. IInv'
  BY <1>1, <1>10, <1>11 DEF IInv
<1>13. Place(error', stack') = Place(error, stack)
  <2>1. error'.offset = error.offset /\ error.offset \in Int
    BY <1>1, <1>6, <1>7 DEF Grown, Diagnosed
  <2> QED BY <1>1, <1>2, <1>4, <2>1 DEF Place, f
<1>14. \A part \in {"code", "stage", "type", "field", "index"} :
          error[part] \in {Absent, error'[part]}
  BY <1>1, <1>7 DEF Grown
<1> QED BY <1>12, <1>13, <1>14 DEF Kept

(* A nested reader's diagnostic, as the outer reader has it.               *)
LEMMA TransferredDiagnosed ==
    ASSUME NEW e, NEW base \in Int, NEW outer \in Int, Diagnosed(e, base)
    PROVE  LET d == Transferred(e, base - outer)
           IN  /\ Diagnosed(d, outer) /\ d.offset + outer = e.offset + base
               /\ \A part \in DiagnosticPart \ {"offset"} : d[part] = e[part]
<1> DEFINE d == Transferred(e, base - outer)
<1>1. e = [part \in DiagnosticPart |-> e[part]]
  BY DEF Diagnosed
<1>2. /\ d = [part \in DiagnosticPart |-> d[part]]
      /\ d.offset = e.offset + (base - outer)
      /\ \A part \in DiagnosticPart \ {"offset"} : d[part] = e[part]
  BY <1>1 DEF Transferred, DiagnosticPart
<1> HIDE DEF d
<1>3. d.code = e.code /\ d.type = e.type
  BY <1>2 DEF DiagnosticPart
<1>4. d.offset \in Int /\ d.offset + outer = e.offset + base
  BY <1>2 DEF Diagnosed
<1> QED BY <1>2, <1>3, <1>4 DEF Diagnosed, d

(* A nested reader that has no diagnostic makes one.                       *)
LEMMA MadeNow ==
    ASSUME NEW base \in Nat, pos \in base .. Len(input), Len(input) \in Nat
    PROVE  Diagnosed(Emplaced(NoError, pos - base), base)
<1> DEFINE d == Emplaced(NoError, pos - base)
<1>1. /\ d = [part \in DiagnosticPart |-> d[part]]
      /\ d.code = "unknown" /\ d.offset = pos - base /\ d.type = Absent
  BY DEF Emplaced, NoError, DiagnosticPart
<1> HIDE DEF d
<1>2. "unknown" \in ErrorCodes /\ d.offset \in Int /\ d.offset + base \in 0 .. Len(input)
  BY <1>1 DEF ErrorCodes
<1> QED BY <1>1, <1>2 DEF Diagnosed, d

(* A diagnostic that explains a failure is not the empty one.              *)
LEMMA DiagnosedIsThere ==
    ASSUME NEW e, NEW base, Diagnosed(e, base)
    PROVE  e # NoError
<1>1. NoError.code = "none" /\ e.code \in ErrorCodes /\ "none" \notin ErrorCodes
  BY DEF Diagnosed, NoError, ErrorCodes
<1> QED BY <1>1

(* A failing call hands its diagnostic to its caller, in the caller's      *)
(* terms.                                                                  *)
LEMMA HandedOverOutcome ==
    ASSUME IInv, status = "failing", Len(stack) > 1,
           NEW e, NEW base, base = Head(stack).base, NEW outer, outer = Caller.base,
           \/ e = NoError /\ Quiet(Head(stack))
           \/ Diagnosed(e, base)
    PROVE  LET f == Head(stack)
               d == HandedOver(e, f)
           IN  /\ f.op = "alternative" => d = NoError
               /\ f.op # "alternative" /\ ~f.nested => d = e
               /\ f.op # "alternative" /\ f.nested => Diagnosed(d, outer)
               /\ f.op # "alternative" /\ f.nested /\ e # NoError =>
                     /\ d.offset + outer = e.offset + base
                     /\ \A part \in DiagnosticPart \ {"offset"} : d[part] = e[part]
<1> DEFINE f == Head(stack)
           m == Emplaced(e, pos - base)
           t == Transferred(m, base - outer)
           d == HandedOver(e, f)
<1>1. /\ f.op = "alternative" => d = NoError
      /\ f.op # "alternative" /\ ~f.nested => d = e
      /\ f.op # "alternative" /\ f.nested => d = t
  BY Zenon DEF HandedOver
<1>2. base \in Nat /\ outer \in Nat /\ Len(input) \in Nat /\ pos \in base .. Len(input)
  <2>1. /\ f.base \in Nat /\ f.end \in 0 .. Len(input) /\ pos \in f.base .. f.end
        /\ Len(input) \in Nat
    BY AtHead
  <2>2. outer \in Nat
    BY AtReturn
  <2> HIDE DEF f
  <2> QED BY <2>1, <2>2 DEF f
<1>3. Diagnosed(m, base) /\ (e # NoError => m = e)
  <2>1. CASE e = NoError
    BY <1>2, <2>1, MadeNow
  <2>2. CASE e # NoError
    BY <2>2 DEF Emplaced
  <2> QED BY <2>1, <2>2
<1> HIDE DEF m
<1>4. /\ Diagnosed(t, outer) /\ t.offset + outer = m.offset + base
      /\ \A part \in DiagnosticPart \ {"offset"} : t[part] = m[part]
  <2>1. base \in Int /\ outer \in Int
    BY <1>2
  <2> QED BY <1>3, <2>1, TransferredDiagnosed
<1> HIDE DEF t, d, f
<1> QED BY <1>1, <1>3, <1>4 DEF d, f

(* A failing codec returns to its caller: the diagnostic explains the      *)
(* failure to the caller too, and keeps what it told.                      *)
LEMMA UnwindKeeps ==
    ASSUME IInv, Unwind
    PROVE  IInv' /\ (error # NoError /\ error' # NoError => Kept)
<1> DEFINE f == Head(stack)
           c == Caller
           g == Spilled(c, f.val)
           e == IF error = NoError THEN error ELSE Annotated(error, f)
<1>1. /\ status = "failing" /\ Len(stack) > 1 /\ error' = HandedOver(e, f)
      /\ pos' = Behind(f) /\ stack' = <<g>> \o Tail(Tail(stack))
      /\ UNCHANGED <<input, status, reads>>
  BY Zenon DEF Unwind
<1>2. /\ FrameOK(c) /\ Under(f, c) /\ Behind(f) \in c.base .. c.end
      /\ FrameOK(f) /\ c.base \in Nat /\ f.base \in Nat
  BY <1>1, AtReturn, AtHead
<1>3. FrameOK(g) /\ Same(g, c) /\ g.todo = c.todo /\ g.wire = c.wire
  BY <1>2, SpilledFrame
<1>4. \/ error = NoError /\ Quiet(f)
      \/ Diagnosed(error, f.base) /\ error # NoError
  BY <1>1, DiagnosedIsThere DEF IInv, Explained
<1>5. \/ error = NoError /\ e = NoError /\ Quiet(f)
      \/ error # NoError /\ Diagnosed(e, f.base) /\ Grown(e, error) /\ e # NoError
  <2>1. CASE error = NoError
    BY <1>4, <2>1
  <2>2. CASE error # NoError
    <3>1. e = Annotated(error, f)
      BY <2>2
    <3> QED BY <1>2, <1>4, <2>2, <3>1, AnnotatedDiagnosed
  <2> QED BY <2>1, <2>2
<1> HIDE DEF e
<1>6. /\ f.op = "alternative" => error' = NoError
      /\ f.op # "alternative" /\ ~f.nested => error' = e
      /\ f.op # "alternative" /\ f.nested => Diagnosed(error', c.base)
      /\ f.op # "alternative" /\ f.nested /\ e # NoError =>
            /\ error'.offset + c.base = e.offset + f.base
            /\ \A part \in DiagnosticPart \ {"offset"} : error'[part] = e[part]
  BY <1>1, <1>5, HandedOverOutcome
<1>7. Nested(stack') /\ stack' # <<>> /\ Head(stack') = g
  BY <1>1, <1>3, CallerFrames
<1> HIDE DEF f, c, g
<1>8. pos' \in g.base .. g.end
  BY <1>1, <1>2, <1>3 DEF Same
<1>9. /\ c.op \in Keyed => c.todo
      /\ f.op = "alternative" => c.op = "variant"
      /\ ~f.nested => f.base = c.base /\ (c.todo \/ c.op \in Block)
      /\ ~f.nested /\ f.op \notin Keyed => f.wire = WireFor(c)
  BY <1>2 DEF Under
<1>10. ASSUME Diagnosed(error', g.base)
       PROVE  Explained(error', g)
  BY <1>3, <1>9, <1>10 DEF Explained, Same, Keyed
<1>11. g.op = c.op /\ g.base = c.base
  BY <1>3 DEF Same
<1>12. \/ error' = NoError /\ Quiet(g)
       \/ Explained(error', g)
  <2>1. CASE f.op = "alternative"
    <3>1. c.op = "variant" /\ c.wire = Null
      BY <1>2, <1>9, <2>1 DEF FrameOK
    <3> QED BY <1>3, <1>6, <1>11, <2>1, <3>1 DEF Quiet, Keyed
  <2>2. CASE f.op # "alternative" /\ f.nested
    BY <1>6, <1>10, <1>11, <2>2
  <2>3. CASE f.op # "alternative" /\ ~f.nested
    <3>1. CASE e = NoError
      <4>1. Quiet(f)
        BY <1>5, <3>1
      <4>2. WireFor(c) = Null
        BY <1>9, <2>3, <4>1 DEF Quiet
      <4>3. c.op \notin Keyed
        <5>1. c.op \in Keyed => c.wire # Null
          BY <1>2, <1>9 DEF FrameOK
        <5>2. c.op \in Keyed => WireFor(c) = c.wire
          BY DEF WireFor
        <5> QED BY <4>2, <5>1, <5>2
      <4>4. c.wire = Null
        <5>1. CASE c.op \in {"vector", "optional"}
          BY <4>2, <5>1 DEF WireFor
        <5>2. CASE c.op \notin {"vector", "optional"}
          BY <1>2, <1>9, <2>3, <4>3, <5>2 DEF FrameOK
        <5> QED BY <5>1, <5>2
      <4> QED BY <1>3, <1>6, <1>11, <2>3, <3>1, <4>3, <4>4 DEF Quiet
    <3>2. CASE e # NoError
      BY <1>5, <1>6, <1>9, <1>10, <1>11, <2>3, <3>2
    <3> QED BY <3>1, <3>2
  <2> QED BY <2>1, <2>2, <2>3
<1>13. IInv'
  BY <1>1, <1>7, <1>8, <1>12, FailingNext
<1>14. ASSUME error # NoError, error' # NoError
       PROVE  Kept
  <2>1. f.op # "alternative"
    BY <1>6, <1>14
  <2>2. /\ error'.offset + c.base = e.offset + f.base
        /\ \A part \in {"code", "stage", "type", "field", "index"} : error'[part] = e[part]
    <3>1. CASE f.nested
      BY <1>5, <1>6, <1>14, <2>1, <3>1 DEF DiagnosticPart
    <3>2. CASE ~f.nested
      BY <1>6, <1>9, <2>1, <3>2
    <3> QED BY <3>1, <3>2
  <2>3. e.offset = error.offset /\ e.code = error.code
        /\ \A part \in {"stage", "type", "field", "index"} : error[part] \in {Absent, e[part]}
    BY <1>5, <1>14 DEF Grown
  <2>4. Place(error', stack') = error'.offset + c.base
    BY <1>7, <1>11 DEF Place
  <2>5. Place(error, stack) = error.offset + f.base
    <3>1. stack # <<>>
      BY <1>1, AtHead
    <3> QED BY <3>1 DEF Place, f
  <2>6. \A part \in {"code", "stage", "type", "field", "index"} :
           error[part] \in {Absent, error'[part]}
    BY <2>2, <2>3
  <2> QED BY <2>2, <2>3, <2>4, <2>5, <2>6 DEF Kept
<1> QED BY <1>13, <1>14

-----------------------------------------------------------------------------
(* Every step.                                                             *)

(* No read has begun.                                                      *)
LEMMA InitKeeps == Init => IInv
<1> SUFFICES ASSUME Init PROVE IInv
  OBVIOUS
<1>1. input \in Seq(Byte) /\ Len(input) \in Nat /\ MaxReads \in Nat
  BY InputsAssumption, MaxReadsAssumption DEF Init
<1>2. pos = 0 /\ stack = <<>> /\ status = "idle" /\ error = NoError /\ reads = 0
  BY DEF Init
<1>3. Nested(stack)
  BY <1>2 DEF Nested, IsSeq
<1> QED BY <1>1, <1>2, <1>3 DEF IInv, FailureTold

(* The user's object is not what the invariant is about.                   *)
LEMMA StutterKeeps ==
    ASSUME IInv, UNCHANGED vars
    PROVE  IInv'
<1>1. /\ input' = input /\ pos' = pos /\ stack' = stack /\ status' = status
      /\ error' = error /\ reads' = reads
  BY DEF vars
<1>2. Nested(stack)'
  BY <1>1, NestedStays DEF IInv
<1>3. status = "failing" => \/ error' = NoError /\ Quiet(Head(stack))'
                            \/ Explained(error, Head(stack))'
  BY <1>1, ExplainedStays DEF IInv, Quiet
<1> QED BY <1>1, <1>2, <1>3 DEF IInv, FailureTold, Diagnosed

(* One step for each action of the reader.                                 *)
LEMMA NextKeeps == IInv /\ [Next]_vars => IInv'
<1> SUFFICES ASSUME IInv, [Next]_vars PROVE IInv'
  OBVIOUS
<1>1. CASE BeginRead BY <1>1, BeginReadKeeps
<1>2. CASE ReadKey BY <1>2, ReadKeyKeeps
<1>3. CASE Mismatch BY <1>3, MismatchKeeps
<1>4. CASE ReadScalarValue BY <1>4, ReadScalarValueKeeps
<1>5. CASE ReadBlob BY <1>5, ReadBlobKeeps
<1>6. CASE OpenInPlace BY <1>6, OpenInPlaceKeeps
<1>7. CASE OpenNested BY <1>7, OpenNestedKeeps
<1>8. CASE OpenEntry BY <1>8, OpenEntryKeeps
<1>9. CASE ReadVariantKey BY <1>9, ReadVariantKeyKeeps
<1>10. CASE ReadIndex BY <1>10, ReadIndexKeeps
<1>11. CASE OpenAlternative BY <1>11, OpenAlternativeKeeps
<1>12. CASE ReturnValue BY <1>12, ReturnValueKeeps
<1>13. CASE MissesElement BY <1>13, MissesElementKeeps
<1>14. CASE WrongSize BY <1>14, WrongSizeKeeps
<1>15. CASE EndRead BY <1>15, EndReadKeeps
<1>16. CASE Unwind BY <1>16, UnwindKeeps
<1>17. CASE Throw BY <1>17, ThrowKeeps
<1>18. CASE UNCHANGED vars BY <1>18, StutterKeeps
<1> QED BY <1>1, <1>2, <1>3, <1>4, <1>5, <1>6, <1>7, <1>8, <1>9, <1>10, <1>11, <1>12,
           <1>13, <1>14, <1>15, <1>16, <1>17, <1>18, Zenon DEF Next, Step

-----------------------------------------------------------------------------
(* Theorems.                                                               *)

(* The invariant holds at every moment of every run.                       *)
THEOREM Inductive == Spec => []IInv
BY InitKeeps, NextKeeps, PTL DEF Spec

(* The variables have their types, for any schema and any bytes: every     *)
(* call reads a value of a type the program has, operator>> outermost, and *)
(* a reader of keys awaits only the value of a field it knows.             *)
THEOREM TypeCorrect == Spec => []TypeOK
<1>1. ASSUME IInv PROVE TypeOK
  <2>1. ASSUME NEW i \in DOMAIN stack
        PROVE  /\ stack[i].shape \in Shapes
               /\ stack[i].op \in Keyed /\ stack[i].todo => stack[i].at \in Known(stack[i])
               /\ i = Len(stack) => stack[i].shape = Object(RootType) /\ ~stack[i].nested
    <3>1. i \in 1 .. Len(stack)
      BY <1>1, <2>1 DEF IInv, Nested, IsSeq
    <3>2. FrameOK(stack[i]) /\ (i = Len(stack) => Outermost(stack[i]))
      BY <1>1, <3>1 DEF IInv, Nested
    <3> QED BY <3>2 DEF FrameOK, Outermost
  <2>2. error = NoError \/ error.code \in ErrorCodes
    BY <1>1 DEF IInv, FailureTold, Explained, Diagnosed
  <2> QED BY <1>1, <2>1, <2>2 DEF IInv, TypeOK
<1> QED BY <1>1, Inductive, PTL

(* reader::read_delimited and the nested readers made from it: whatever    *)
(* lengths the bytes declare, the window of every nested reader lies in    *)
(* that of the reader it was made by, and nothing is read beyond the       *)
(* innermost.                                                              *)
THEOREM WindowsLieInOneAnother == Spec => []WindowsNest
<1>1. ASSUME IInv PROVE WindowsNest
  <2>1. Nested(stack) /\ (stack # <<>> => pos \in Head(stack).base .. Head(stack).end)
    BY <1>1 DEF IInv
  <2>2. Len(stack) \in Nat
    BY <2>1 DEF Nested, IsSeq
  <2>3. ASSUME NEW i \in 1 .. Len(stack) - 1
        PROVE  /\ stack[i + 1].base <= stack[i].base /\ stack[i].end <= stack[i + 1].end
               /\ stack[i].base <= stack[i].end
    <3>1. i \in 1 .. Len(stack) /\ i < Len(stack)
      BY <2>2
    <3>2. FrameOK(stack[i]) /\ Under(stack[i], stack[i + 1])
      BY <2>1, <3>1 DEF Nested
    <3> QED BY <3>2 DEF FrameOK, Under
  <2> QED BY <2>1, <2>3 DEF WindowsNest
<1> QED BY <1>1, Inductive, PTL

(* transfer_from and position_correction: through however many readers and *)
(* codecs a diagnostic is handed, it goes on naming the byte at which the  *)
(* innermost of them failed, and nothing it says is lost or changed.       *)
THEOREM DiagnosticPreserved == Spec => DiagnosticKept
<1>1. ASSUME IInv, [Next]_vars, status = "failing", error # NoError, error' # NoError,
             vars' # vars
      PROVE  Kept
  <2>1. Unwind \/ Throw
    <3>1. Next
      BY <1>1
    <3>2. ~BeginRead /\ ~ReadKey /\ ~OpenEntry /\ ~ReadVariantKey /\ ~ReadIndex
      BY <1>1 DEF BeginRead, ReadKey, OpenEntry, ReadVariantKey, ReadIndex
    <3>3. ~Mismatch /\ ~ReadScalarValue /\ ~ReadBlob /\ ~OpenInPlace /\ ~OpenNested
      BY <1>1, Zenon DEF Mismatch, ReadScalarValue, ReadBlob, OpenInPlace, OpenNested, Waiting
    <3>4. ~OpenAlternative /\ ~ReturnValue /\ ~MissesElement /\ ~WrongSize /\ ~EndRead
      BY <1>1 DEF OpenAlternative, ReturnValue, MissesElement, WrongSize, EndRead
    <3> QED BY <3>1, <3>2, <3>3, <3>4, Zenon DEF Next, Step
  <2> QED BY <1>1, <2>1, UnwindKeeps, ThrowKeeps
<1>2. IInv /\ [Next]_vars =>
        [status = "failing" /\ error # NoError /\ error' # NoError =>
            /\ Place(error', stack') = Place(error, stack)
            /\ \A part \in {"code", "stage", "type", "field", "index"} :
                  error[part] \in {Absent, error'[part]}]_vars
  BY <1>1 DEF Kept
<1> QED BY <1>2, Inductive, PTL DEF Spec, DiagnosticKept

(* A read that throws says what failed, in which type, and at which field  *)
(* or at a key, at a byte of the input, even where a variant has dropped   *)
(* the diagnostic of its alternative; any other leaves no diagnostic.      *)
THEOREM FailureExplained == Spec => []FailureTold
<1>1. IInv => FailureTold
  BY DEF IInv
<1> QED BY <1>1, Inductive, PTL

=============================================================================
