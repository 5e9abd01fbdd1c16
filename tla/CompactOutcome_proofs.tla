------------------------ MODULE CompactOutcome_proofs ------------------------
(***************************************************************************)
(* What a read of CompactReader leaves behind, for every schema, every     *)
(* window of bytes and every number of reads.                              *)
(*                                                                         *)
(* The diagnostic: a failed read names a code, a stage, a contract type    *)
(* and the offset where the cursor stopped.  That a contract type is       *)
(* always there rests on what the calls in progress read: the outermost    *)
(* codec is that of an object, each codec serves the type its caller       *)
(* awaits, and every type it can come to await is one of the program's.    *)
(* Whose field it names rests on what a failure is told while it unwinds:  *)
(* a type that was named without a field lies in the value that the        *)
(* innermost call awaits.                                                  *)
(*                                                                         *)
(* The object: it is well formed, also when the read failed half way.      *)
(* That rests on what the calls in progress hold: each a value that its    *)
(* codec may leave where it was reading into, at any moment.               *)
(***************************************************************************)
EXTENDS CompactReader_proofs

-----------------------------------------------------------------------------
(* What the calls in progress read.                                        *)

(* The codec that serves a value type.                                     *)
CodecOf(shape) == IF shape.kind \in MapKind THEN "map" ELSE shape.kind

(* A call reads a value of a type the program has, and is at a part of it. *)
Serves(f) ==
    /\ f.op = "root" => f.shape = Object(RootType)
    /\ f.op \in ValueOp => f.shape \in Shapes /\ f.op = CodecOf(f.shape)
    /\ f.op = "object" => f.field \in {0, Skipping} \cup FieldIds(Fields, f.shape.type)
    /\ f.op = "tuple" => f.count = Len(f.shape.elems)
    /\ f.op = "variant" /\ f.key # Null => f.key \in 0 .. Len(f.shape.elems) - 1
    /\ f.present => AwaitsValue(f) /\ Declared(f).kind = "optional"

(* A codec was called for the value its caller awaits, skip_reader by      *)
(* itself or for an object's field.                                        *)
Summons(caller, callee) ==
    /\ callee.op \in ValueOp => AwaitsValue(caller) /\ callee.shape = Awaited(caller)
    /\ callee.op \in SkipOp =>
          caller.op \in SkipOp \/ (caller.op = "object" /\ caller.field = Skipping)

Serving(s) ==
    \A i \in 1 .. Len(s) : Serves(s[i]) /\ (i > 1 => Summons(s[i], s[i - 1]))

-----------------------------------------------------------------------------
(* What is told of a failure.                                              *)

(* A code and a stage that a diagnostic can be made of.                    *)
Telling(code, stage) ==
    code \notin {"none", "unknown"} /\ stage \in ReadStage

(* A diagnostic that says what failed, and where the cursor stopped.       *)
Said(e, at) ==
    /\ e = [code |-> e.code, stage |-> e.stage, type |-> e.type, field |-> e.field,
            name |-> e.name, index |-> e.index, offset |-> e.offset]
    /\ Telling(e.code, e.stage)
    /\ e.offset = at

(* The contract type is named, or there still is a codec above operator>>, *)
(* and the one right above it will name it.                                *)
Typed(e, calls) == e.type \in DOMAIN Fields \/ (e.type = Absent /\ Len(calls) > 1)

Told ==
    /\ status \notin {"failing", "error"} => error = NoError
    /\ status \in {"failing", "error"} => Said(error, pos)
    /\ status = "failing" => Typed(error, stack)
    /\ status = "error" => error.type \in DOMAIN Fields

DInv == Serving(stack) /\ Told

-----------------------------------------------------------------------------
(* The primitives say why they fail.                                       *)

Tells(r) == ~r.ok => Telling(r.code, r.stage)

(* What a primitive returns tells of a failure, if it is one.              *)
LEMMA OutcomeTells ==
    /\ \A value, used : Tells(Got(value, used))
    /\ \A code, stage, used : Telling(code, stage) => Tells(Failed(code, stage, used))
BY DEF Tells, Got, Failed

(* The codes and stages of the codecs tell something.                      *)
LEMMA CodecsTell ==
    /\ Telling("truncated", "header") /\ Telling("truncated", "raw_bytes")
    /\ Telling("invalid_header", "header") /\ Telling("invalid_header", "skip")
    /\ Telling("invalid_integer", "integer") /\ Telling("invalid_field_id", "field_id")
    /\ Telling("max_items_exceeded", "array") /\ Telling("max_items_exceeded", "map")
    /\ Telling("max_items_exceeded", "span") /\ Telling("span_size_mismatch", "span")
    /\ Telling("invalid_size", "array") /\ Telling("invalid_size", "size")
    /\ Telling("invalid_size", "variant") /\ Telling("variant_index_out_of_range", "variant")
    /\ Telling("duplicate_key", "map")
BY DEF Telling, ReadStage

(* The primitives of the window and of integers.                           *)
LEMMA PrimitivesTell ==
    ASSUME NEW data, NEW p
    PROVE  /\ Tells(ReadByte(data, p))
           /\ Tells(ReadUint(data, p))
           /\ Tells(ReadInt(data, p))
           /\ \A accepted : Tells(ReadHeader(data, p, accepted))
           /\ Tells(ReadBool(data, p))
           /\ \A n : Tells(ReadRaw(data, p, n))
<1>1. Tells(ReadByte(data, p))
  BY OutcomeTells, CodecsTell, Zenon DEF ReadByte
<1>2. ASSUME NEW view, NEW r, Tells(r)
      PROVE  Tells(WholePayload(view, r))
  BY <1>2, OutcomeTells, CodecsTell, Zenon DEF WholePayload
<1>3. ASSUME NEW view
      PROVE  Tells(DecodeUint(view))
  BY <1>2, OutcomeTells, CodecsTell, Zenon DEF DecodeUint
<1>4. ASSUME NEW view
      PROVE  Tells(SignedPayload(view))
  BY OutcomeTells, CodecsTell, Zenon DEF SignedPayload
<1>5. ASSUME NEW view
      PROVE  Tells(DecodeInt(view))
  BY <1>2, <1>4, OutcomeTells, CodecsTell, Zenon DEF DecodeInt
<1>6. Tells(ReadUint(data, p)) /\ Tells(ReadInt(data, p))
  BY <1>3, <1>5, OutcomeTells, CodecsTell, Zenon DEF ReadUint, ReadInt
<1>7. \A accepted : Tells(ReadHeader(data, p, accepted))
  BY <1>1, OutcomeTells, CodecsTell, Zenon DEF ReadHeader
<1>8. Tells(ReadBool(data, p))
  BY <1>7, OutcomeTells, Zenon DEF ReadBool
<1>9. \A n : Tells(ReadRaw(data, p, n))
  BY OutcomeTells, CodecsTell, Zenon DEF ReadRaw
<1> QED BY <1>1, <1>6, <1>7, <1>8, <1>9

(* A record that only counts its consumed bytes differently says the same. *)
LEMMA LongerTells ==
    ASSUME NEW r, Tells(r), NEW n,
           r = [ok |-> r.ok, value |-> r.value, used |-> r.used,
                code |-> r.code, stage |-> r.stage]
    PROVE  Tells([r EXCEPT !.used = n])
BY DEF Tells

(* read_float and the size headers.                                        *)
LEMMA HeadersTell ==
    ASSUME NEW data, NEW p
    PROVE  /\ \A header, width : Tells(ReadFloat(data, p, header, width))
           /\ \A header, kind : Tells(ReadSizeTail(data, p, header, kind))
           /\ \A kind : Tells(ReadSizeHeader(data, p, kind))
<1>1. ASSUME NEW header, NEW width
      PROVE  Tells(ReadFloat(data, p, header, width))
  <2> DEFINE bits == ReadRaw(data, p + 1, width)
  <2>1. bits = [ok |-> bits.ok, value |-> bits.value, used |-> bits.used,
                code |-> bits.code, stage |-> bits.stage]
    BY DEF ReadRaw, Got, Failed
  <2>2. Tells(bits) /\ Tells(ReadHeader(data, p, {header}))
    BY PrimitivesTell
  <2> HIDE DEF bits
  <2>3. Tells([bits EXCEPT !.used = 1 + @])
    BY <2>1, <2>2, LongerTells
  <2> QED BY <2>2, <2>3, Zenon DEF ReadFloat, bits
<1>2. ASSUME NEW q, NEW header, NEW kind
      PROVE  LET tail == ReadSizeTail(data, q, header, kind)
             IN  /\ Tells(tail)
                 /\ tail = [ok |-> tail.ok, value |-> tail.value, used |-> tail.used,
                            code |-> tail.code, stage |-> tail.stage]
  <2>1. Tells(ReadSizeTail(data, q, header, kind))
    BY PrimitivesTell, OutcomeTells, Zenon DEF ReadSizeTail
  <2>2. \E a, b, c, d, e : ReadSizeTail(data, q, header, kind) =
            [ok |-> a, value |-> b, used |-> c, code |-> d, stage |-> e]
    BY DEF ReadSizeTail, ReadUint, DecodeUint, WholePayload, Got, Failed
  <2> QED BY <2>1, <2>2
<1>3. ASSUME NEW kind
      PROVE  Tells(ReadSizeHeader(data, p, kind))
  <2> DEFINE r == ReadHeader(data, p, SizeBase[kind] .. SizeBase[kind] + SizedExtended)
             tail == ReadSizeTail(data, p + 1, r.value, kind)
  <2>1. Tells(r)
    BY PrimitivesTell
  <2>2. Tells(tail) /\ tail = [ok |-> tail.ok, value |-> tail.value, used |-> tail.used,
                               code |-> tail.code, stage |-> tail.stage]
    BY <1>2
  <2> HIDE DEF tail
  <2>3. Tells([tail EXCEPT !.used = 1 + @])
    BY <2>2, LongerTells
  <2> QED BY <2>1, <2>3, Zenon DEF ReadSizeHeader, tail
<1> QED BY <1>1, <1>2, <1>3

(* The scalars.                                                            *)
LEMMA DecodeScalarTells ==
    ASSUME NEW shape, shape.kind \in ScalarKind
    PROVE  Tells(DecodeScalar(shape))
<1>1. Tells(DecodeWire(shape))
  <2>1. CASE shape.kind = "uint"
    BY <2>1, PrimitivesTell DEF DecodeWire
  <2>2. CASE shape.kind = "int"
    BY <2>2, PrimitivesTell DEF DecodeWire
  <2>3. CASE shape.kind = "bool"
    BY <2>3, PrimitivesTell DEF DecodeWire
  <2>4. CASE shape.kind = "float32"
    BY <2>4, HeadersTell DEF DecodeWire
  <2> QED BY <2>1, <2>2, <2>3, <2>4 DEF ScalarKind
<1> QED BY <1>1, OutcomeTells, CodecsTell, Zenon DEF DecodeScalar

(* The size headers of values of fixed size.                               *)
LEMMA FixedSizeTells ==
    ASSUME NEW f, Awaited(f).kind \in FixedKind
    PROVE  Tells(FixedSize(f))
<1> DEFINE shape == Awaited(f)
           stage == FixedStage[shape.kind]
           wire  == IF IsBlob(shape) THEN "bytes" ELSE "array"
           size  == ReadSizeHeader(input, pos, wire)
<1>1. Tells(size)
  BY HeadersTell
<1>2. /\ shape.kind \in {"array", "span"} => Telling("max_items_exceeded", stage)
      /\ shape.kind = "span" => Telling("span_size_mismatch", stage)
      /\ Telling("invalid_size", stage) \/ shape.kind = "span"
  BY CodecsTell DEF FixedStage, FixedKind, InPlaceOp
<1> HIDE DEF size, stage, shape
<1>3. FixedSize(f) =
        IF shape.kind = "array" /\ Exceeds(Limit(f), shape.size)
        THEN Failed("max_items_exceeded", stage, 0)
        ELSE IF ~size.ok THEN size
        ELSE IF shape.kind = "span" /\ Exceeds(Limit(f), size.value)
        THEN Failed("max_items_exceeded", stage, size.used)
        ELSE IF SizeFits(shape, size.value) THEN size
        ELSE Failed(IF shape.kind = "span" THEN "span_size_mismatch"
                    ELSE "invalid_size", stage, size.used)
  BY Zenon DEF FixedSize, shape, stage, size, wire
<1>4. shape.kind = "array" \/ shape.kind = "span" => shape.kind \in {"array", "span"}
  OBVIOUS
<1>5. Telling(IF shape.kind = "span" THEN "span_size_mismatch" ELSE "invalid_size", stage)
  BY <1>2
<1> QED BY <1>1, <1>2, <1>3, <1>4, <1>5, OutcomeTells, Zenon

-----------------------------------------------------------------------------
(* What a call awaits.                                                     *)

(* A codec awaits a value of a type the program has, or a variant's index. *)
LEMMA DeclaredServed ==
    ASSUME NEW f, FrameOK(f), Serves(f), AwaitsValue(f)
    PROVE  \/ Declared(f) \in Shapes
           \/ Declared(f) = Index /\ f.op = "variant" /\ f.key = Null
<1>1. f.op \in ValueOp =>
         /\ f.shape \in Shapes
         /\ f.op \in {"vector", "array", "span"} => f.shape.elem \in Shapes
         /\ f.op = "map" => f.shape.key \in Shapes /\ f.shape.elem \in Shapes
         /\ f.op \in {"tuple", "variant"} => f.shape.elems \in Seq(Shapes)
         /\ f.op = "object" => f.shape.kind = "object"
  <2> SUFFICES ASSUME f.op \in ValueOp
               PROVE  /\ f.shape \in Shapes
                      /\ f.op \in {"vector", "array", "span"} => f.shape.elem \in Shapes
                      /\ f.op = "map" => f.shape.key \in Shapes /\ f.shape.elem \in Shapes
                      /\ f.op \in {"tuple", "variant"} => f.shape.elems \in Seq(Shapes)
                      /\ f.op = "object" => f.shape.kind = "object"
    OBVIOUS
  <2>1. f.shape \in Shapes /\ f.op = CodecOf(f.shape)
    BY DEF Serves
  <2>2. IF f.op = "map" THEN f.shape.kind \in MapKind ELSE f.shape.kind = f.op
    BY <2>1 DEF CodecOf, MapKind
  <2>3. /\ f.shape.kind \in {"vector", "optional", "array", "span"} => f.shape.elem \in Shapes
        /\ f.shape.kind \in MapKind => f.shape.key \in Shapes /\ f.shape.elem \in Shapes
        /\ f.shape.kind \in {"tuple", "variant"} => f.shape.elems \in Seq(Shapes)
    BY <2>1, PartShapes, FieldsAssumption, ShapesAssumption
  <2> QED BY <2>1, <2>2, <2>3
<1>2. CASE f.op = "root"
  BY <1>2, ShapesAssumption DEF Declared, Serves
<1>3. CASE f.op = "object"
  <2>1. f.field > 0
    BY <1>3 DEF AwaitsValue, InPlaceOp
  <2>2. f.field \in FieldIds(Fields, f.shape.type)
    BY <1>3, <2>1 DEF Serves, Skipping
  <2>3. FieldOf(f).shape \in Shapes
    BY <1>1, <1>3, <2>2, DispatchedField, FieldsAssumption, ShapesAssumption
       DEF FieldOf, ValueOp
  <2> QED BY <1>3, <2>3 DEF Declared
<1>4. CASE f.op = "map"
  BY <1>1, <1>4 DEF Declared, ValueOp
<1>5. CASE f.op = "variant" /\ f.key = Null
  BY <1>5 DEF Declared
<1>6. CASE f.op = "variant" /\ f.key # Null
  <2>1. f.shape.elems \in Seq(Shapes) /\ f.key \in 0 .. Len(f.shape.elems) - 1
    BY <1>1, <1>6 DEF Serves, ValueOp
  <2>2. f.shape.elems[f.key + 1] \in Shapes
    BY <2>1
  <2> QED BY <1>6, <2>2 DEF Declared
<1>7. CASE f.op = "tuple"
  <2>1. f.shape.elems \in Seq(Shapes) /\ f.count = Len(f.shape.elems)
    BY <1>1, <1>7 DEF Serves, ValueOp, InPlaceOp
  <2>2. Item(f) \in 1 .. Len(f.shape.elems)
    BY <2>1 DEF Item, FrameOK, AwaitsValue
  <2>3. f.shape.elems[Item(f)] \in Shapes
    BY <2>1, <2>2
  <2> QED BY <1>7, <2>3 DEF Declared
<1>8. CASE f.op \in {"vector", "array", "span"}
  <2>1. f.shape.elem \in Shapes
    BY <1>1, <1>8 DEF ValueOp, InPlaceOp
  <2> QED BY <1>8, <2>1 DEF Declared
<1> QED BY <1>2, <1>3, <1>4, <1>5, <1>6, <1>7, <1>8 DEF AwaitsValue, InPlaceOp

(* The same behind an optional that has seen a value.                      *)
LEMMA AwaitedServed ==
    ASSUME NEW f, FrameOK(f), Serves(f), AwaitsValue(f)
    PROVE  /\ Awaited(f) \in Shapes \/ Awaited(f) = Index
           /\ f.op = "variant" /\ f.key = Null => Awaited(f).kind = "uint"
           /\ f.op = "root" => Awaited(f) = Object(RootType)
<1>1. /\ Index.kind = "uint"
      /\ Object(RootType).kind = "object"
  BY DEF Index, Uint, Object
<1>2. f.op = "root" => Declared(f) = Object(RootType)
  BY DEF Declared, Serves
<1>3. f.op = "variant" /\ f.key = Null => Declared(f) = Index
  BY DEF Declared
<1>4. f.present => Declared(f).kind = "optional"
  BY DEF Serves
<1>5. CASE f.present
  <2>1. Declared(f) # Index
    BY <1>1, <1>4, <1>5
  <2>2. Declared(f) \in Shapes
    BY <2>1, DeclaredServed
  <2>3. Declared(f).elem \in Shapes
    BY <1>4, <1>5, <2>2, PartShapes, FieldsAssumption, ShapesAssumption
  <2>4. f.op # "root" /\ ~(f.op = "variant" /\ f.key = Null)
    BY <1>1, <1>2, <1>3, <1>4, <1>5
  <2> QED BY <1>5, <2>3, <2>4 DEF Awaited
<1>6. CASE ~f.present
  BY <1>1, <1>2, <1>3, <1>6, DeclaredServed DEF Awaited
<1> QED BY <1>5, <1>6 DEF FrameOK

(* A new call serves the value that its caller awaits.                     *)
LEMMA NewServes ==
    ASSUME NEW shape \in Shapes, NEW op \in ValueOp, op = CodecOf(shape),
           NEW count \in Nat, op = "tuple" => count = Len(shape.elems), NEW val
    PROVE  Serves(Frame(op, shape, count, val))
BY DEF Serves, Frame, ValueOp, InPlaceOp

(* So does a call of skip_reader.                                          *)
LEMMA NewSkipServes ==
    ASSUME NEW op \in SkipOp, NEW count
    PROVE  Serves(SkipFrame(op, count)) /\ SkipFrame(op, count).op = op
BY DEF Serves, Frame, SkipFrame, SkipOp, ValueOp, InPlaceOp

(* A call that goes on as it was but for what it has stored.               *)
LEMMA SpilledServes ==
    ASSUME NEW f, FrameOK(f), Serves(f), NEW v
    PROVE  /\ Serves(Spilled(f, v))
           /\ Spilled(f, v).op = f.op /\ Spilled(f, v).shape = f.shape
<1>1. Spilled(f, v) = f \/ \E w : Spilled(f, v) = [f EXCEPT !.val = w]
  <2>1. \/ Spilled(f, v) = f
        \/ Spilled(f, v) = [f EXCEPT !.val = v]
        \/ Spilled(f, v) = [f EXCEPT !.val[f.field] = v]
        \/ Spilled(f, v) = [f EXCEPT !.val[Item(f)] = v]
    BY Zenon DEF Spilled
  <2> QED BY <2>1
<1>2. ASSUME NEW w, NEW g, g = [f EXCEPT !.val = w]
      PROVE  Serves(g) /\ g.op = f.op /\ g.shape = f.shape
  <2>1. /\ g.op = f.op /\ g.shape = f.shape /\ g.count = f.count /\ g.left = f.left
        /\ g.field = f.field /\ g.key = f.key /\ g.present = f.present
    BY <1>2 DEF FrameOK
  <2>2. AwaitsValue(g) <=> AwaitsValue(f)
    BY <2>1 DEF AwaitsValue
  <2>3. Declared(g) = Declared(f)
    BY <2>1 DEF Declared, FieldOf, Item
  <2> QED BY <2>1, <2>2, <2>3 DEF Serves
<1> QED BY <1>1, <1>2

(* What a call that was delivered a part of its value has in common with   *)
(* what it was.                                                            *)
LEMMA DeliveredParts ==
    ASSUME NEW f, FrameOK(f), AwaitsValue(f), NEW v
    PROVE  LET g == Delivered(f, v)
           IN  /\ g.op = f.op /\ g.shape = f.shape /\ g.count = f.count /\ ~g.present
               /\ f.op = "object" => g.field = 0
               /\ f.op = "variant" => g.key = f.key \/ (f.key = Null /\ g.key = v)
<1> DEFINE g == [f EXCEPT !.present = FALSE]
           d == Delivered(f, v)
           n == g.left - 1
<1>a. /\ FrameOK(g) /\ g.op = f.op /\ g.shape = f.shape /\ g.count = f.count
      /\ g.key = f.key
  BY DEF FrameOK
<1>b. g.present = FALSE
  BY DEF FrameOK
<1> HIDE DEF g
<1>c. g = [op |-> g.op, shape |-> g.shape, count |-> g.count, left |-> g.left,
           field |-> g.field, key |-> g.key, present |-> g.present, val |-> g.val]
  BY <1>a DEF FrameOK
<1>1. /\ g.op = f.op /\ g.shape = f.shape /\ g.count = f.count /\ ~g.present
      /\ g.key = f.key
      /\ g = [op |-> g.op, shape |-> g.shape, count |-> g.count, left |-> g.left,
              field |-> g.field, key |-> g.key, present |-> g.present, val |-> g.val]
  BY <1>a, <1>b, <1>c
<1>2. f.op \in {"root", "object", "vector", "map", "variant"} \cup InPlaceOp
  BY DEF AwaitsValue, InPlaceOp
<1> HIDE DEF g, n
<1>3. ASSUME NEW w, NEW m, NEW h, h = [g EXCEPT !.val = w, !.left = m]
      PROVE  /\ h.op = g.op /\ h.shape = g.shape /\ h.count = g.count
             /\ h.present = g.present /\ h.key = g.key
  BY <1>1, <1>3
<1>4. CASE f.op = "root"
  <2>1. d = [g EXCEPT !.val = v, !.left = 0]
    BY <1>4 DEF Delivered, g, InPlaceOp
  <2> QED BY <1>1, <1>3, <1>4, <2>1
<1>5. CASE f.op = "object"
  <2>1. d = [g EXCEPT !.val[f.field] = v, !.field = 0, !.left = @ - 1]
    BY <1>5 DEF Delivered, g, InPlaceOp
  <2>2. \E w, m : d = [g EXCEPT !.val = w, !.field = 0, !.left = m]
    BY <1>1, <2>1
  <2>3. ASSUME NEW w, NEW m, NEW h, h = [g EXCEPT !.val = w, !.field = 0, !.left = m]
        PROVE  /\ h.op = g.op /\ h.shape = g.shape /\ h.count = g.count
               /\ h.present = g.present /\ h.field = 0
    BY <1>1, <2>3
  <2> QED BY <1>1, <1>5, <2>2, <2>3
<1>6. CASE f.op = "vector"
  <2>1. d = [g EXCEPT !.val = Append(g.val, v), !.left = n]
    BY <1>6 DEF Delivered, g, n, InPlaceOp
  <2> QED BY <1>1, <1>3, <1>6, <2>1
<1>7. CASE f.op \in InPlaceOp
  <2>1. /\ f.op # "root" /\ f.op # "object" /\ f.op # "vector"
        /\ f.op # "variant" /\ f.op # "map" /\ f.op \in InPlaceOp
    BY <1>7 DEF InPlaceOp
  <2>2. d = [g EXCEPT !.val[Item(f)] = v, !.left = @ - 1]
    BY <2>1, Zenon DEF Delivered, g
  <2>3. \E w, m : d = [g EXCEPT !.val = w, !.left = m]
    BY <1>1, <2>2
  <2> QED BY <1>1, <1>3, <2>1, <2>3
<1>8. CASE f.op = "variant" /\ f.key = Null
  <2>1. d = [g EXCEPT !.key = v, !.left = n]
    BY <1>8 DEF Delivered, g, n, InPlaceOp
  <2>2. ASSUME NEW h, h = [g EXCEPT !.key = v, !.left = n]
        PROVE  /\ h.op = g.op /\ h.shape = g.shape /\ h.count = g.count
               /\ h.present = g.present /\ h.key = v
    BY <1>1, <2>2
  <2> QED BY <1>1, <1>8, <2>1, <2>2
<1>9. CASE f.op = "variant" /\ f.key # Null
  <2>1. d = [g EXCEPT !.val = <<f.key + 1, v>>, !.left = n]
    BY <1>9 DEF Delivered, g, n, InPlaceOp
  <2> QED BY <1>1, <1>3, <1>9, <2>1
<1>10. CASE f.op = "map"
  <2>1. \/ d = [g EXCEPT !.key = v]
        \/ \E w : d = [g EXCEPT !.key = Null, !.left = n, !.val = w]
    BY <1>10 DEF Delivered, g, n, InPlaceOp
  <2>2. ASSUME NEW h, \/ h = [g EXCEPT !.key = v]
                      \/ \E w : h = [g EXCEPT !.key = Null, !.left = n, !.val = w]
        PROVE  /\ h.op = g.op /\ h.shape = g.shape /\ h.count = g.count
               /\ h.present = g.present
    BY <1>1, <2>2
  <2> QED BY <1>1, <1>10, <2>1, <2>2
<1> QED BY <1>2, <1>4, <1>5, <1>6, <1>7, <1>8, <1>9, <1>10

(* A part of the value a call reads has been delivered.                    *)
LEMMA DeliveredServes ==
    ASSUME NEW f, FrameOK(f), Serves(f), AwaitsValue(f), NEW v,
           Awaited(f).kind = "uint" => v \in Nat, ~NoAlternative(f, v)
    PROVE  LET g == Delivered(f, v)
           IN  Serves(g) /\ g.op = f.op /\ g.shape = f.shape
<1> DEFINE g == Delivered(f, v)
<1>1. /\ g.op = f.op /\ g.shape = f.shape /\ g.count = f.count /\ ~g.present
      /\ f.op = "object" => g.field = 0
      /\ f.op = "variant" => g.key = f.key \/ (f.key = Null /\ g.key = v)
  BY DeliveredParts
<1>2. ASSUME f.op = "variant", f.key = Null
      PROVE  v \in 0 .. Len(f.shape.elems) - 1
  <2>1. v \in Nat
    BY <1>2, AwaitedServed
  <2>2. f.shape \in Shapes /\ f.shape.kind = "variant"
    BY <1>2 DEF Serves, ValueOp, CodecOf, MapKind
  <2>3. f.shape.elems \in Seq(Shapes)
    BY <2>2, PartShapes, FieldsAssumption, ShapesAssumption
  <2>4. ~(v >= Len(f.shape.elems))
    BY <1>2 DEF NoAlternative
  <2> QED BY <2>1, <2>3, <2>4
<1> HIDE DEF g
<1>3. Serves(g)
  BY <1>1, <1>2 DEF Serves
<1> QED BY <1>1, <1>3 DEF g

-----------------------------------------------------------------------------
(* The call stack.                                                         *)

(* A call made by the innermost one, for what that one awaits.             *)
LEMMA PushServing ==
    ASSUME NEW s, IsSeq(s), s # <<>>, Serving(s),
           NEW f, Serves(f), Summons(Head(s), f)
    PROVE  Serving(<<f>> \o s)
<1> DEFINE t == <<f>> \o s
<1>1. /\ Len(t) = Len(s) + 1 /\ t[1] = f
      /\ \A i \in 1 .. Len(s) : t[i + 1] = s[i]
      /\ Len(s) \in Nat \ {0} /\ Head(s) = s[1]
  BY PushSeq, PopSeq
<1> HIDE DEF t
<1>2. ASSUME NEW i \in 1 .. Len(t)
      PROVE  Serves(t[i]) /\ (i > 1 => Summons(t[i], t[i - 1]))
  <2>1. CASE i = 1
    BY <1>1, <2>1
  <2>2. CASE i = 2
    <3>1. 1 \in 1 .. Len(s) /\ t[1 + 1] = s[1]
      BY <1>1
    <3>2. t[i] = s[1] /\ t[i - 1] = f
      BY <1>1, <2>2, <3>1
    <3> QED BY <1>1, <2>2, <3>1, <3>2 DEF Serving
  <2>3. CASE i > 2
    <3>1. i - 1 \in 1 .. Len(s) /\ i - 2 \in 1 .. Len(s) /\ i - 1 > 1
          /\ (i - 1) + 1 = i /\ (i - 2) + 1 = i - 1 /\ (i - 1) - 1 = i - 2
      BY <1>1, <2>3
    <3>2. t[(i - 1) + 1] = s[i - 1] /\ t[(i - 2) + 1] = s[i - 2]
      BY <1>1, <3>1
    <3>3. t[i] = s[i - 1] /\ t[i - 1] = s[(i - 1) - 1]
      BY <3>1, <3>2
    <3>4. Serves(s[i - 1]) /\ Summons(s[i - 1], s[(i - 1) - 1])
      BY <3>1 DEF Serving
    <3> QED BY <3>3, <3>4
  <2> QED BY <1>1, <2>1, <2>2, <2>3
<1> QED BY <1>2 DEF Serving, t

(* The innermost call goes on, for the value it was called for.            *)
LEMMA ReplaceServing ==
    ASSUME NEW s, IsSeq(s), s # <<>>, Serving(s),
           NEW f, Serves(f), f.op = Head(s).op, f.shape = Head(s).shape
    PROVE  Serving(<<f>> \o Tail(s))
<1> DEFINE t == <<f>> \o Tail(s)
<1>1. /\ Len(t) = Len(s) /\ Len(s) \in Nat \ {0} /\ t[1] = f /\ Head(s) = s[1]
      /\ \A i \in 2 .. Len(s) : t[i] = s[i]
  BY ReplaceSeq, PopSeq
<1> HIDE DEF t
<1>2. ASSUME NEW i \in 1 .. Len(t)
      PROVE  Serves(t[i]) /\ (i > 1 => Summons(t[i], t[i - 1]))
  <2>1. CASE i = 1
    BY <1>1, <2>1
  <2>2. CASE i > 1
    <3>1. i \in 2 .. Len(s) /\ i \in 1 .. Len(s) /\ i - 1 \in 1 .. Len(s)
      BY <1>1, <2>2
    <3>2. t[i] = s[i] /\ Serves(s[i]) /\ Summons(s[i], s[i - 1])
      BY <1>1, <2>2, <3>1 DEF Serving
    <3>3. t[i - 1].op = s[i - 1].op /\ t[i - 1].shape = s[i - 1].shape
      <4>1. CASE i - 1 = 1
        BY <1>1, <4>1
      <4>2. CASE i - 1 # 1
        <5>1. i - 1 \in 2 .. Len(s)
          BY <3>1, <4>2
        <5> QED BY <1>1, <5>1
      <4> QED BY <4>1, <4>2
    <3> QED BY <3>2, <3>3 DEF Summons
  <2> QED BY <1>1, <2>1, <2>2
<1> QED BY <1>2 DEF Serving, t

(* The innermost call goes on and makes another one.                       *)
LEMMA PushOverServing ==
    ASSUME NEW s, IsSeq(s), s # <<>>, Serving(s),
           NEW g, Serves(g), g.op = Head(s).op, g.shape = Head(s).shape,
           NEW k, Serves(k), Summons(g, k)
    PROVE  Serving(<<k>> \o (<<g>> \o Tail(s)))
<1> DEFINE mid == <<g>> \o Tail(s)
<1>1. Serving(mid)
  BY ReplaceServing
<1>2. IsSeq(Tail(s))
  BY PopSeq
<1>3. IsSeq(mid) /\ Len(mid) = Len(Tail(s)) + 1 /\ mid[1] = g
  BY <1>2, PushSeq
<1> HIDE DEF mid
<1>4. mid # <<>>
  BY <1>2, <1>3 DEF IsSeq
<1>5. Head(mid) = g
  BY <1>3, <1>4, PopSeq
<1>6. Serving(<<k>> \o mid)
  BY <1>1, <1>3, <1>4, <1>5, PushServing
<1> QED BY <1>6 DEF mid

(* The innermost call returns.                                             *)
LEMMA PopServing ==
    ASSUME NEW s, IsSeq(s), s # <<>>, Serving(s), Tail(s) # <<>>
    PROVE  /\ Serving(Tail(s)) /\ Serves(Head(Tail(s)))
           /\ Serves(Head(s)) /\ Summons(Head(Tail(s)), Head(s))
<1> DEFINE u == Tail(s)
<1>1. /\ IsSeq(u) /\ Len(s) \in Nat \ {0} /\ Len(u) = Len(s) - 1
      /\ Head(s) = s[1]
      /\ \A i \in 1 .. Len(s) - 1 : u[i] = s[i + 1]
  BY PopSeq
<1>2. Head(u) = u[1] /\ Len(u) \in Nat \ {0}
  BY <1>1, PopSeq
<1> HIDE DEF u
<1>3. 1 \in 1 .. Len(s) - 1 /\ 1 + 1 = 2 /\ 1 \in 1 .. Len(s) /\ 2 \in 1 .. Len(s) /\ 2 - 1 = 1
  BY <1>1, <1>2
<1>4. u[1] = s[2]
  BY <1>1, <1>3
<1>5. Serves(s[1]) /\ Serves(s[2]) /\ Summons(s[2], s[2 - 1])
  BY <1>3 DEF Serving
<1>6. ASSUME NEW i \in 1 .. Len(u)
      PROVE  Serves(u[i]) /\ (i > 1 => Summons(u[i], u[i - 1]))
  <2>1. i + 1 \in 1 .. Len(s) /\ i + 1 > 1 /\ (i + 1) - 1 = i /\ i \in 1 .. Len(s) - 1
    BY <1>1
  <2>2. u[i] = s[i + 1] /\ Serves(s[i + 1]) /\ Summons(s[i + 1], s[(i + 1) - 1])
    BY <1>1, <2>1 DEF Serving
  <2>3. ASSUME i > 1 PROVE u[i - 1] = s[i]
    <3>1. i - 1 \in 1 .. Len(s) - 1 /\ (i - 1) + 1 = i
      BY <2>1, <2>3
    <3>2. u[i - 1] = s[(i - 1) + 1]
      BY <1>1, <3>1
    <3> QED BY <3>1, <3>2
  <2> QED BY <2>1, <2>2, <2>3
<1> QED BY <1>1, <1>2, <1>3, <1>4, <1>5, <1>6 DEF Serving, u

(* What is known of the innermost call and of its caller.                  *)
LEMMA HeadServes ==
    ASSUME NEW s, Nested(s), Serving(s), s # <<>>
    PROVE  /\ Serves(Head(s)) /\ FrameOK(Head(s)) /\ IsSeq(s)
           /\ Len(s) \in Nat \ {0}
           /\ Head(s).op = "root" <=> Len(s) = 1
<1>1. IsSeq(s) /\ Len(s) \in Nat \ {0} /\ Head(s) = s[1]
  BY PopSeq DEF Nested
<1>2. 1 \in 1 .. Len(s)
  BY <1>1
<1>3. Serves(s[1]) /\ FrameOK(s[1]) /\ (s[1].op = "root" <=> 1 = Len(s))
  BY <1>2 DEF Nested, Serving
<1> QED BY <1>1, <1>3

-----------------------------------------------------------------------------
(* The diagnostic.                                                         *)

(* A diagnostic that was just made.                                        *)
LEMMA RaisedParts ==
    ASSUME NEW code, NEW stage, NEW at
    PROVE  WithStage(WithCode(Emplaced(NoError, at), code), stage) =
               [code |-> code, stage |-> stage, type |-> Absent, field |-> Absent,
                name |-> Absent, index |-> Absent, offset |-> at]
<1> DEFINE e == WithCode(Emplaced(NoError, at), code)
<1>1. e = [code |-> code, stage |-> Absent, type |-> Absent, field |-> Absent,
           name |-> Absent, index |-> Absent, offset |-> at]
  <2>1. Emplaced(NoError, at) =
            [code |-> "unknown", stage |-> Absent, type |-> Absent, field |-> Absent,
             name |-> Absent, index |-> Absent, offset |-> at]
    <3>1. Emplaced(NoError, at) = [NoError EXCEPT !.code = "unknown", !.offset = at]
      BY Zenon DEF Emplaced
    <3> QED BY <3>1 DEF NoError
  <2> QED BY <2>1 DEF WithCode
<1> HIDE DEF e
<1> QED BY <1>1 DEF WithStage, FirstWins, e

(* It says what it was told, and neither a type nor a field.               *)
LEMMA RaisedSaid ==
    ASSUME NEW code, NEW stage, Telling(code, stage), NEW at
    PROVE  LET e == WithStage(WithCode(Emplaced(NoError, at), code), stage)
           IN  Said(e, at) /\ e.type = Absent
BY RaisedParts DEF Said

(* No layer that annotates a diagnostic takes anything back.               *)
LEMMA PartKeepsSaid ==
    ASSUME NEW e, NEW at, Said(e, at), NEW v
    PROVE  /\ WithStage(e, v) = e
           /\ Said(WithField(e, v), at) /\ WithField(e, v).type = e.type
           /\ WithField(e, v).field = IF e.field = Absent THEN v ELSE e.field
           /\ Said(WithIndex(e, v), at) /\ WithIndex(e, v).type = e.type
           /\ WithIndex(e, v).field = e.field
           /\ Said(WithType(e, v), at) /\ WithType(e, v).field = e.field
           /\ WithType(e, v).type = IF e.type = Absent THEN v ELSE e.type
<1>1. WithStage(e, v) = e
  BY StageAssumption DEF Said, Telling, WithStage, FirstWins
<1>2. /\ Said(WithField(e, v), at) /\ WithField(e, v).type = e.type
      /\ WithField(e, v).field = IF e.field = Absent THEN v ELSE e.field
  BY DEF Said, WithField, FirstWins
<1>3. /\ Said(WithIndex(e, v), at) /\ WithIndex(e, v).type = e.type
      /\ WithIndex(e, v).field = e.field
  BY DEF Said, WithIndex, FirstWins
<1>4. /\ Said(WithType(e, v), at) /\ WithType(e, v).field = e.field
      /\ WithType(e, v).type = IF e.type = Absent THEN v ELSE e.type
  BY DEF Said, WithType, FirstWins
<1> QED BY <1>1, <1>2, <1>3, <1>4

(* A call that returns a failure adds to the diagnostic; an object's adds  *)
(* the contract type.                                                      *)
LEMMA AnnotatedSaid ==
    ASSUME NEW e, NEW at, Said(e, at), NEW f, FrameOK(f)
    PROVE  LET d == Annotated(e, f)
           IN  /\ Said(d, at)
               /\ f.op = "object" =>
                     d.type = IF e.type = Absent THEN f.shape.type ELSE e.type
               /\ f.op # "object" => d.type = e.type
               /\ f.op = "object" /\ f.field > 0 =>
                     d.field = IF e.field = Absent THEN f.field ELSE e.field
               /\ ~(f.op = "object" /\ f.field > 0) => d.field = e.field
<1> DEFINE d == Annotated(e, f)
           type == f.shape.type
<1> SUFFICES /\ Said(d, at)
             /\ f.op = "object" =>
                   d.type = IF e.type = Absent THEN f.shape.type ELSE e.type
             /\ f.op # "object" => d.type = e.type
             /\ f.op = "object" /\ f.field > 0 =>
                   d.field = IF e.field = Absent THEN f.field ELSE e.field
             /\ ~(f.op = "object" /\ f.field > 0) => d.field = e.field
  OBVIOUS
<1>1. CASE f.op = "object" /\ f.field > 0
  <2>1. d = WithType(WithStage(WithField(e, f.field), "field_value"), type)
    <3>1. ~(f.field <= 0) /\ f.op \notin {"vector", "array", "map", "span", "tuple", "variant"}
      BY <1>1 DEF FrameOK
    <3> QED BY <1>1, <3>1, Zenon DEF Annotated
  <2> HIDE DEF d
  <2> QED BY <1>1, <2>1, PartKeepsSaid
<1>2. CASE f.op = "object" /\ ~(f.field > 0)
  <2>1. f.field <= 0
    BY <1>2 DEF FrameOK
  <2>2. d = WithStage(WithType(e, type), IF f.field = 0 THEN "field_id" ELSE "skip")
    BY <1>2, <2>1, Zenon DEF Annotated
  <2> HIDE DEF d
  <2> QED BY <1>2, <2>2, PartKeepsSaid
<1>3. CASE f.op # "object"
  <2>1. \/ d = e
        \/ \E stage : d = WithStage(e, stage)
        \/ \E index, stage : d = WithStage(WithIndex(e, index), stage)
    <3>1. CASE f.op \in {"vector", "array"}
      BY <3>1 DEF Annotated
    <3>2. CASE f.op \in {"map", "span"}
      BY <3>2 DEF Annotated
    <3>3. CASE f.op = "tuple"
      BY <3>3 DEF Annotated
    <3>4. CASE f.op = "variant"
      BY <3>4 DEF Annotated
    <3>5. CASE f.op \notin {"object", "vector", "array", "map", "span", "tuple", "variant"}
      BY <3>5 DEF Annotated
    <3> QED BY <1>3, <3>1, <3>2, <3>3, <3>4, <3>5
  <2>2. ASSUME NEW stage, d = WithStage(e, stage)
        PROVE  Said(d, at) /\ d.type = e.type /\ d.field = e.field
    BY <2>2, PartKeepsSaid
  <2>3. ASSUME NEW index, NEW stage, d = WithStage(WithIndex(e, index), stage)
        PROVE  Said(d, at) /\ d.type = e.type /\ d.field = e.field
    BY <2>3, PartKeepsSaid
  <2> HIDE DEF d
  <2> QED BY <1>3, <2>1, <2>2, <2>3
<1> QED BY <1>1, <1>2, <1>3

-----------------------------------------------------------------------------
(* The outcomes that the actions share.                                    *)

(* A read in progress has not failed, and its innermost call is as above.  *)
LEMMA InProgress ==
    ASSUME IInv, DInv, status = "reading"
    PROVE  /\ error = NoError /\ stack # <<>> /\ Nested(stack) /\ Serving(stack)
           /\ IsSeq(stack) /\ FrameOK(Head(stack)) /\ Serves(Head(stack))
           /\ input \in Seq(Byte) /\ pos \in 0 .. Len(input)
BY HeadServes DEF IInv, DInv, Told, Ended

(* The calls go on without a failure.                                      *)
LEMMA GoesOn ==
    ASSUME DInv, status = "reading", status' = "reading", error' = error,
           Serving(stack')
    PROVE  DInv'
<1>1. error' = NoError
  BY DEF DInv, Told
<1>2. Told'
  BY <1>1 DEF Told
<1> QED BY <1>2 DEF DInv

(* A codec below operator>> fails.                                         *)
LEMMA RaisesTold ==
    ASSUME NEW calls, stack' = calls, calls # <<>>, Nested(calls), Serving(calls),
           Head(calls).op # "root",
           NEW code, NEW stage, Telling(code, stage), Raise(code, stage, pos')
    PROVE  DInv'
<1>1. Len(calls) > 1
  <2>1. Len(calls) \in Nat \ {0} /\ Len(calls) # 1
    BY HeadServes
  <2>2. \A l \in Nat \ {0} : l # 1 => l > 1
    OBVIOUS
  <2> QED BY <2>1, <2>2, Zenon
<1>2. Said(error', pos') /\ error'.type = Absent /\ status' = "failing"
  BY RaisedSaid DEF Raise
<1>3. Typed(error', stack')
  BY <1>1, <1>2 DEF Typed
<1>4. Told'
  BY <1>2, <1>3 DEF Told
<1>5. Serving(stack')
  OBVIOUS
<1> QED BY <1>4, <1>5 DEF DInv

(* A primitive fails in a codec below operator>>.                          *)
LEMMA FailTold ==
    ASSUME IInv, DInv, status = "reading", Head(stack).op # "root",
           NEW r, ~r.ok, Tells(r), Fail(r)
    PROVE  DInv'
<1>1. stack' = stack /\ Raise(r.code, r.stage, pos') /\ Telling(r.code, r.stage)
  BY DEF Fail, Tells
<1>2. stack # <<>> /\ Nested(stack) /\ Serving(stack)
  BY InProgress
<1> QED BY <1>1, <1>2, RaisesTold

(* A value is handed to a call that awaits it.                             *)
LEMMA StoreTold ==
    ASSUME DInv, status = "reading",
           NEW calls, calls # <<>>, Nested(calls), Serving(calls),
           AwaitsValue(Head(calls)),
           NEW v, Awaited(Head(calls)).kind = "uint" => v \in Nat,
           NEW at, Store(calls, v, at)
    PROVE  DInv'
<1> DEFINE f == Head(calls)
           g == Delivered(f, v)
<1>1. Serves(f) /\ FrameOK(f) /\ IsSeq(calls)
  BY HeadServes
<1>2. CASE DuplicateKey(f)
  <2>1. stack' = calls /\ pos' = at /\ Raise("duplicate_key", "map", pos')
    BY <1>2 DEF Store
  <2>2. f.op # "root"
    BY <1>2 DEF DuplicateKey
  <2>3. Telling("duplicate_key", "map")
    BY CodecsTell
  <2> HIDE DEF f
  <2> QED BY <2>1, <2>2, <2>3, RaisesTold DEF f
<1>3. CASE ~DuplicateKey(f) /\ NoAlternative(f, v)
  <2>1. stack' = calls /\ pos' = at /\ Raise("variant_index_out_of_range", "variant", pos')
    BY <1>3 DEF Store
  <2>2. f.op # "root"
    BY <1>3 DEF NoAlternative
  <2>3. Telling("variant_index_out_of_range", "variant")
    BY CodecsTell
  <2> QED BY <2>1, <2>2, <2>3, RaisesTold
<1>4. CASE ~DuplicateKey(f) /\ ~NoAlternative(f, v)
  <2>1. stack' = <<g>> \o Tail(calls) /\ status' = status /\ error' = error
    BY <1>4 DEF Store
  <2>2. Serves(g) /\ g.op = f.op /\ g.shape = f.shape
    BY <1>1, <1>4, DeliveredServes
  <2> HIDE DEF g
  <2>3. Serving(stack')
    BY <1>1, <2>1, <2>2, ReplaceServing
  <2> QED BY <2>1, <2>3, GoesOn
<1> QED BY <1>2, <1>3, <1>4

(* A codec calls another one for the value it awaits.                      *)
LEMMA CallTold ==
    ASSUME IInv, DInv, status = "reading",
           NEW f, Serves(f), Summons(Head(stack), f), NEW at, Call(f, at)
    PROVE  DInv'
<1>1. stack' = <<f>> \o stack /\ status' = status /\ error' = error
  BY DEF Call
<1>2. Serving(stack')
  BY <1>1, InProgress, PushServing
<1> QED BY <1>1, <1>2, GoesOn

(* What a codec that reads a value knows of the call that awaits it.       *)
LEMMA ReadingServes ==
    ASSUME IInv, DInv, NEW kinds, Reading(kinds)
    PROVE  /\ status = "reading" /\ AwaitsValue(Head(stack))
           /\ Awaited(Head(stack)).kind \in kinds
           /\ "uint" \notin kinds => Awaited(Head(stack)) \in Shapes
           /\ "object" \notin kinds => Head(stack).op # "root"
<1>1. /\ status = "reading" /\ AwaitsValue(Head(stack))
      /\ Awaited(Head(stack)).kind \in kinds
  BY DEF Reading
<1>2. /\ Awaited(Head(stack)) \in Shapes \/ Awaited(Head(stack)) = Index
      /\ Head(stack).op = "root" => Awaited(Head(stack)) = Object(RootType)
  BY <1>1, InProgress, AwaitedServed
<1>3. Index.kind = "uint" /\ Object(RootType).kind = "object"
  BY DEF Index, Uint, Object
<1> QED BY <1>1, <1>2, <1>3

-----------------------------------------------------------------------------
(* Every action preserves it.                                              *)

(* operator>> is called for an object of the root type.                    *)
LEMMA BeginReadTold == BeginRead => DInv'
<1> SUFFICES ASSUME BeginRead PROVE DInv'
  OBVIOUS
<1> DEFINE f == Frame("root", Object(RootType), 1, object)
<1>1. stack' = <<f>> /\ status' = "reading" /\ error' = NoError
  BY DEF BeginRead
<1>2. Serves(f)
  BY DEF Serves, Frame, ValueOp, InPlaceOp
<1> HIDE DEF f
<1>3. Serving(stack')
  <2>1. Len(<<f>>) = 1 /\ <<f>>[1] = f
    OBVIOUS
  <2>2. \A i \in 1 .. 1 : i = 1 /\ ~(i > 1)
    OBVIOUS
  <2> QED BY <1>1, <1>2, <2>1, <2>2 DEF Serving
<1>4. Told'
  BY <1>1 DEF Told
<1> QED BY <1>3, <1>4 DEF DInv

(* A scalar: the index of a variant is a natural number.                   *)
LEMMA ReadScalarTold == IInv /\ DInv /\ ReadScalar => DInv'
<1> SUFFICES ASSUME IInv, DInv, ReadScalar PROVE DInv'
  OBVIOUS
<1> DEFINE shape == Awaited(Head(stack))
           r     == DecodeScalar(shape)
<1>1. /\ Reading(ScalarKind)
      /\ IF r.ok THEN Store(stack, r.value, pos + r.used) ELSE Fail(r)
  BY DEF ReadScalar
<1>2. /\ status = "reading" /\ AwaitsValue(Head(stack)) /\ shape.kind \in ScalarKind
      /\ Head(stack).op # "root"
  BY <1>1, ReadingServes DEF ScalarKind
<1>3. Tells(r)
  BY <1>2, DecodeScalarTells
<1>4. stack # <<>> /\ Nested(stack) /\ Serving(stack)
      /\ input \in Seq(Byte) /\ pos \in 0 .. Len(input)
  BY <1>2, InProgress
<1>5. ASSUME r.ok, shape.kind = "uint" PROVE r.value \in Nat
  <2>1. DecodeWire(shape) = ReadUint(input, pos)
    BY <1>5 DEF DecodeWire
  <2>2. r = DecodeWire(shape) \/ \E n : r = Failed("invalid_integer", "integer", n)
    BY Zenon DEF DecodeScalar
  <2>3. \A n : Failed("invalid_integer", "integer", n).ok = FALSE
    BY DEF Failed
  <2> HIDE DEF r
  <2>4. r = ReadUint(input, pos)
    BY <1>5, <2>1, <2>2, <2>3
  <2> QED BY <1>4, <1>5, <2>4, ReadUintBounded
<1> HIDE DEF r
<1>6. CASE r.ok
  <2>1. Store(stack, r.value, pos + r.used)
    BY <1>1, <1>6
  <2> QED BY <1>2, <1>4, <1>5, <1>6, <2>1, StoreTold
<1>7. CASE ~r.ok
  BY <1>1, <1>2, <1>3, <1>7, FailTold
<1> QED BY <1>6, <1>7

(* A failure behind a size header leaves bytes in the caller's storage.    *)
LEMMA SpillTold ==
    ASSUME IInv, DInv, status = "reading", Head(stack).op # "root",
           NEW g, Serves(g), FrameOK(g), g.op = Head(stack).op, g.shape = Head(stack).shape,
           stack' = <<g>> \o Tail(stack),
           NEW r, ~r.ok, Tells(r), Raise(r.code, r.stage, pos')
    PROVE  DInv'
<1> DEFINE calls == <<g>> \o Tail(stack)
<1>1. stack # <<>> /\ Nested(stack) /\ Serving(stack) /\ IsSeq(stack)
  BY InProgress
<1>2. Nested(calls) /\ Serving(calls)
  BY <1>1, ReplaceNested, ReplaceServing
<1>3. IsSeq(Tail(stack))
  BY <1>1, PopSeq
<1>4. IsSeq(calls) /\ Len(calls) = Len(Tail(stack)) + 1 /\ calls[1] = g
  BY <1>3, PushSeq
<1> HIDE DEF calls
<1>5. calls # <<>>
  BY <1>3, <1>4 DEF IsSeq
<1>6. Head(calls) = g
  BY <1>4, <1>5, PopSeq
<1>7. stack' = calls /\ Head(calls).op # "root"
  BY <1>6 DEF calls
<1> QED BY <1>2, <1>5, <1>7, RaisesTold DEF Tells

(* A string.                                                               *)
LEMMA ReadStringTold == IInv /\ DInv /\ ReadString => DInv'
<1> SUFFICES ASSUME IInv, DInv, ReadString PROVE DInv'
  OBVIOUS
<1> DEFINE f    == Head(stack)
           size == ReadSizeHeader(input, pos, "string")
           raw  == ReadRaw(input, pos + size.used, size.value)
           g    == Spilled(f, Resized(Storage(f), size.value))
<1>1. /\ Reading({"string"})
      /\ IF ~size.ok THEN Fail(size)
         ELSE IF raw.ok THEN Store(stack, raw.value, pos + size.used + raw.used)
         ELSE /\ pos' = pos + size.used
              /\ stack' = <<g>> \o Tail(stack)
              /\ Raise(raw.code, raw.stage, pos')
  BY DEF ReadString
<1>2. /\ status = "reading" /\ AwaitsValue(f) /\ Awaited(f).kind # "uint"
      /\ f.op # "root"
  BY <1>1, ReadingServes
<1>3. stack # <<>> /\ Nested(stack) /\ Serving(stack) /\ FrameOK(f) /\ Serves(f)
  BY <1>2, InProgress
<1>4. Tells(size) /\ Tells(raw)
  BY PrimitivesTell, HeadersTell
<1>5. Serves(g) /\ FrameOK(g) /\ g.op = f.op /\ g.shape = f.shape
  BY <1>3, SpilledServes, SpilledType
<1> HIDE DEF g, size, raw
<1>6. CASE ~size.ok
  BY <1>1, <1>2, <1>4, <1>6, FailTold
<1>7. CASE size.ok /\ raw.ok
  <2>1. Store(stack, raw.value, pos + size.used + raw.used)
    BY <1>1, <1>7
  <2> QED BY <1>2, <1>3, <2>1, StoreTold
<1>8. CASE size.ok /\ ~raw.ok
  <2>1. stack' = <<g>> \o Tail(stack) /\ Raise(raw.code, raw.stage, pos')
    BY <1>1, <1>8
  <2> HIDE DEF f
  <2> QED BY <1>2, <1>4, <1>5, <1>8, <2>1, SpillTold DEF f
<1> QED BY <1>6, <1>7, <1>8

(* A null is stored; any other header is left to the codec of the value.   *)
LEMMA ReadOptionalTold == IInv /\ DInv /\ ReadOptional => DInv'
<1> SUFFICES ASSUME IInv, DInv, ReadOptional PROVE DInv'
  OBVIOUS
<1> DEFINE f      == Head(stack)
           header == ReadByte(input, pos)
           g      == [f EXCEPT !.present = TRUE]
<1>1. /\ Reading({"optional"})
      /\ IF ~header.ok THEN Fail(header)
         ELSE IF header.value = NullHeader THEN Store(stack, Null, pos + 1)
         ELSE stack' = <<g>> \o Tail(stack) /\ UNCHANGED <<pos, status, error>>
  BY DEF ReadOptional
<1>2. /\ status = "reading" /\ AwaitsValue(f) /\ Awaited(f).kind = "optional"
      /\ f.op # "root"
  BY <1>1, ReadingServes
<1>3. stack # <<>> /\ Nested(stack) /\ Serving(stack) /\ FrameOK(f) /\ Serves(f)
      /\ IsSeq(stack)
  BY <1>2, InProgress
<1>4. Tells(header)
  BY PrimitivesTell
<1>5. Serves(g) /\ g.op = f.op /\ g.shape = f.shape
  <2>1. Declared(f).kind = "optional"
    BY <1>2, <1>3 DEF Awaited, Serves
  <2>2. /\ g.op = f.op /\ g.shape = f.shape /\ g.count = f.count /\ g.left = f.left
        /\ g.field = f.field /\ g.key = f.key
    BY <1>3 DEF FrameOK
  <2> HIDE DEF g
  <2>3. AwaitsValue(g)
    BY <1>2, <2>2 DEF AwaitsValue
  <2>4. Declared(g) = Declared(f)
    BY <2>2 DEF Declared, FieldOf, Item
  <2> QED BY <1>3, <2>1, <2>2, <2>3, <2>4 DEF Serves
<1> HIDE DEF g, header
<1>6. CASE ~header.ok
  BY <1>1, <1>2, <1>4, <1>6, FailTold
<1>7. CASE header.ok /\ header.value = NullHeader
  <2>1. Store(stack, Null, pos + 1) /\ Awaited(f).kind # "uint"
    BY <1>1, <1>2, <1>7
  <2> HIDE DEF f
  <2> QED BY <1>2, <1>3, <2>1, StoreTold DEF f
<1>8. CASE header.ok /\ header.value # NullHeader
  <2>1. stack' = <<g>> \o Tail(stack) /\ status' = status /\ error' = error
    BY <1>1, <1>8
  <2>2. Serving(stack')
    BY <1>3, <1>5, <2>1, ReplaceServing
  <2> QED BY <1>2, <2>1, <2>2, GoesOn
<1> QED BY <1>6, <1>7, <1>8

(* A container.                                                            *)
LEMMA OpenContainerTold ==
    ASSUME IInv, DInv, NEW op \in {"vector", "map"}, NEW kinds, NEW wire \in {"array", "map"},
           op = "vector" => kinds = {"vector"}, op = "map" => kinds = MapKind,
           OpenContainer(op, kinds, wire)
    PROVE  DInv'
<1> DEFINE f     == Head(stack)
           shape == Awaited(f)
           size  == ReadSizeHeader(input, pos, wire)
           r     == Failed("max_items_exceeded", wire, size.used)
           k     == Frame(op, shape, size.value, <<>>)
<1>1. /\ Reading(kinds)
      /\ IF ~size.ok THEN Fail(size)
         ELSE IF Exceeds(Limit(f), size.value) THEN Fail(r)
         ELSE Call(k, pos + size.used)
  BY DEF OpenContainer
<1>2. "uint" \notin kinds /\ "object" \notin kinds
  BY DEF MapKind
<1>3. /\ status = "reading" /\ AwaitsValue(f) /\ shape.kind \in kinds
      /\ shape \in Shapes /\ f.op # "root"
  BY <1>1, <1>2, ReadingServes
<1>4. input \in Seq(Byte) /\ pos \in 0 .. Len(input)
  BY <1>3, InProgress
<1>5. Tells(size) /\ Tells(r) /\ r.ok = FALSE
  <2>1. Telling("max_items_exceeded", wire)
    BY CodecsTell
  <2> QED BY <2>1, HeadersTell, OutcomeTells DEF Failed
<1>6. ASSUME size.ok PROVE Serves(k) /\ Summons(f, k)
  <2>1. size.value \in Nat
    BY <1>4, <1>6, ReadSizeHeaderBounded DEF SizedKind
  <2>2. op = CodecOf(shape) /\ op \in ValueOp /\ op # "tuple" /\ op \notin SkipOp
    BY <1>3 DEF CodecOf, MapKind, ValueOp, SkipOp
  <2>3. k.op = op /\ k.shape = shape
    BY DEF Frame
  <2>4. Summons(f, k)
    BY <1>3, <2>2, <2>3 DEF Summons
  <2> HIDE DEF shape, size
  <2> QED BY <1>3, <2>1, <2>2, <2>4, NewServes
<1> HIDE DEF size, r, k
<1>7. CASE ~size.ok
  BY <1>1, <1>3, <1>5, <1>7, FailTold
<1>8. CASE size.ok /\ Exceeds(Limit(f), size.value)
  BY <1>1, <1>3, <1>5, <1>8, FailTold
<1>9. CASE size.ok /\ ~Exceeds(Limit(f), size.value)
  BY <1>1, <1>3, <1>6, <1>9, CallTold
<1> QED BY <1>7, <1>8, <1>9

(* A blob.                                                                 *)
LEMMA ReadBlobTold == IInv /\ DInv /\ ReadBlob => DInv'
<1> SUFFICES ASSUME IInv, DInv, ReadBlob PROVE DInv'
  OBVIOUS
<1> DEFINE f    == Head(stack)
           size == FixedSize(f)
           raw  == ReadRaw(input, pos + size.used, size.value)
           v    == BlobValue(Awaited(f), raw.value)
           g    == BlobSpilled(f)
<1>1. /\ Reading(FixedKind)
      /\ IF ~size.ok THEN Fail(size)
         ELSE IF raw.ok THEN Store(stack, v, pos + size.used + raw.used)
         ELSE /\ pos' = pos + size.used
              /\ stack' = <<g>> \o Tail(stack)
              /\ Raise(raw.code, raw.stage, pos')
  BY Zenon DEF ReadBlob
<1>2. /\ status = "reading" /\ AwaitsValue(f) /\ Awaited(f).kind \in FixedKind
      /\ Awaited(f).kind # "uint" /\ f.op # "root"
  BY <1>1, ReadingServes DEF FixedKind, InPlaceOp
<1>3. stack # <<>> /\ Nested(stack) /\ Serving(stack) /\ FrameOK(f) /\ Serves(f)
  BY <1>2, InProgress
<1>4. Tells(size) /\ Tells(raw)
  BY <1>2, PrimitivesTell, FixedSizeTells
<1>5. Serves(g) /\ FrameOK(g) /\ g.op = f.op /\ g.shape = f.shape
  BY <1>3, SpilledServes, SpilledType DEF BlobSpilled
<1> HIDE DEF f, g, v, size, raw
<1>6. CASE ~size.ok
  BY <1>1, <1>2, <1>4, <1>6, FailTold DEF f
<1>7. CASE size.ok /\ raw.ok
  <2>1. Store(stack, v, pos + size.used + raw.used)
    BY <1>1, <1>7
  <2> QED BY <1>2, <1>3, <2>1, StoreTold DEF f
<1>8. CASE size.ok /\ ~raw.ok
  <2>1. stack' = <<g>> \o Tail(stack) /\ Raise(raw.code, raw.stage, pos')
    BY <1>1, <1>8
  <2> QED BY <1>2, <1>4, <1>5, <1>8, <2>1, SpillTold DEF f
<1> QED BY <1>6, <1>7, <1>8

(* A tuple is only opened for the items that it has.                       *)
LEMMA FixedSizeOfTuple ==
    ASSUME NEW f, Awaited(f).kind = "tuple", FixedSize(f).ok
    PROVE  FixedSize(f).value = Len(Awaited(f).elems)
<1> DEFINE shape == Awaited(f)
           size  == ReadSizeHeader(input, pos, IF IsBlob(shape) THEN "bytes" ELSE "array")
<1>1. \/ FixedSize(f) = size /\ SizeFits(shape, size.value)
      \/ FixedSize(f) = size /\ ~size.ok
      \/ \E code, stage, n : FixedSize(f) = Failed(code, stage, n)
  BY Zenon DEF FixedSize
<1>2. \A code, stage, n : Failed(code, stage, n).ok = FALSE
  BY DEF Failed
<1> HIDE DEF size
<1>3. FixedSize(f) = size /\ SizeFits(shape, size.value)
  BY <1>1, <1>2
<1>4. Extent(shape) = Len(shape.elems)
  BY DEF Extent
<1> QED BY <1>3, <1>4 DEF SizeFits

(* An array, a span, a tuple or a variant.                                 *)
LEMMA OpenFixedTold == IInv /\ DInv /\ OpenFixed => DInv'
<1> SUFFICES ASSUME IInv, DInv, OpenFixed PROVE DInv'
  OBVIOUS
<1> DEFINE f     == Head(stack)
           shape == Awaited(f)
           size  == FixedSize(f)
           val   == Storage(f)
           k     == Frame(shape.kind, shape, size.value, val)
<1>1. /\ Reading(FixedKind) /\ ~IsBlob(shape)
      /\ IF ~size.ok THEN Fail(size) ELSE Call(k, pos + size.used)
  BY Zenon DEF OpenFixed
<1>2. "uint" \notin FixedKind /\ "object" \notin FixedKind
  BY DEF FixedKind, InPlaceOp
<1>3. /\ status = "reading" /\ AwaitsValue(f) /\ shape.kind \in FixedKind
      /\ shape \in Shapes /\ f.op # "root"
  BY <1>1, <1>2, ReadingServes
<1>4. input \in Seq(Byte) /\ pos \in 0 .. Len(input)
  BY <1>3, InProgress
<1>5. Tells(size)
  BY <1>3, FixedSizeTells
<1>6. ASSUME size.ok PROVE Serves(k) /\ Summons(f, k)
  <2>1. size.value \in Nat
    BY <1>4, <1>6, FixedSizeBounded
  <2>2. /\ shape.kind = CodecOf(shape) /\ shape.kind \in ValueOp
        /\ shape.kind \notin SkipOp
    BY <1>1, <1>3 DEF CodecOf, MapKind, ValueOp, SkipOp, FixedKind, IsBlob, InPlaceOp
  <2>3. shape.kind = "tuple" => size.value = Len(shape.elems)
    BY <1>6, FixedSizeOfTuple
  <2>4. k.op = shape.kind /\ k.shape = shape
    BY DEF Frame
  <2>5. Summons(f, k)
    BY <1>3, <2>2, <2>4 DEF Summons
  <2> HIDE DEF shape, size, val
  <2> QED BY <1>3, <2>1, <2>2, <2>3, <2>5, NewServes
<1> HIDE DEF size, k
<1>7. CASE ~size.ok
  BY <1>1, <1>3, <1>5, <1>7, FailTold
<1>8. CASE size.ok
  BY <1>1, <1>3, <1>6, <1>8, CallTold
<1> QED BY <1>7, <1>8

(* An object: its own header, when it is at fault, is told with its type,  *)
(* also the one of operator>> itself.                                      *)
LEMMA OpenObjectTold == IInv /\ DInv /\ OpenObject => DInv'
<1> SUFFICES ASSUME IInv, DInv, OpenObject PROVE DInv'
  OBVIOUS
<1> DEFINE f     == Head(stack)
           shape == Awaited(f)
           size  == ReadSizeHeader(input, pos, "object")
           val   == Storage(f)
           k     == Frame("object", shape, size.value, val)
           e     == WithStage(WithCode(Emplaced(NoError, pos'), size.code), size.stage)
<1>1. /\ Reading({"object"})
      /\ IF size.ok THEN Call(k, pos + size.used)
         ELSE /\ pos' = pos + size.used /\ status' = "failing"
              /\ error' = WithType(e, shape.type) /\ UNCHANGED stack
  BY DEF OpenObject
<1>2. /\ status = "reading" /\ AwaitsValue(f) /\ shape.kind = "object"
      /\ shape \in Shapes
  BY <1>1, ReadingServes
<1>3. input \in Seq(Byte) /\ pos \in 0 .. Len(input) /\ Serving(stack)
  BY <1>2, InProgress
<1>4. Tells(size)
  BY HeadersTell
<1>5. CASE size.ok
  <2>1. size.value \in Nat
    BY <1>3, <1>5, ReadSizeHeaderBounded DEF SizedKind
  <2>2. "object" = CodecOf(shape) /\ "object" \in ValueOp /\ "object" \notin SkipOp
    BY <1>2 DEF CodecOf, MapKind, ValueOp, SkipOp
  <2>3. k.op = "object" /\ k.shape = shape
    BY DEF Frame
  <2>4. Summons(f, k)
    BY <1>2, <2>2, <2>3 DEF Summons
  <2> HIDE DEF shape, size, val
  <2>5. Serves(k)
    BY <1>2, <2>1, <2>2, NewServes
  <2> HIDE DEF k
  <2> QED BY <1>1, <1>2, <1>5, <2>4, <2>5, CallTold
<1>6. CASE ~size.ok
  <2>1. Said(e, pos') /\ e.type = Absent
    BY <1>4, <1>6, RaisedSaid DEF Tells
  <2> HIDE DEF e
  <2>2. /\ Said(WithType(e, shape.type), pos')
        /\ WithType(e, shape.type).type = shape.type
    BY <2>1, PartKeepsSaid
  <2>3. shape.type \in DOMAIN Fields
    BY <1>2, PartShapes, FieldsAssumption, ShapesAssumption
  <2>4. status' = "failing" /\ error' = WithType(e, shape.type) /\ stack' = stack
    BY <1>1, <1>6
  <2>5. Told'
    BY <2>2, <2>3, <2>4 DEF Told, Typed
  <2>6. Serving(stack')
    BY <1>3, <2>4
  <2> QED BY <2>5, <2>6 DEF DInv
<1> QED BY <1>5, <1>6

(* The id of a field: of one of the type's, or of one to be skipped.       *)
LEMMA ReadFieldIdTold == IInv /\ DInv /\ ReadFieldId => DInv'
<1> SUFFICES ASSUME IInv, DInv, ReadFieldId PROVE DInv'
  OBVIOUS
<1> DEFINE f    == Head(stack)
           id   == ReadUint(input, pos)
           zero == Failed("invalid_field_id", "field_id", id.used)
           g    == [f EXCEPT !.field = id.value]
           h    == [f EXCEPT !.field = Skipping]
           k    == SkipFrame("skip", 1)
           known == id.value \in FieldIds(Fields, f.shape.type)
<1>1. /\ status = "reading" /\ f.op = "object" /\ f.field = 0
      /\ \/ ~id.ok /\ Fail(id)
         \/ Fail(zero)
         \/ /\ status' = status /\ error' = error
            /\ \/ known /\ stack' = <<g>> \o Tail(stack)
               \/ stack' = <<k, h>> \o Tail(stack)
  BY DEF ReadFieldId
<1>2. stack # <<>> /\ Nested(stack) /\ Serving(stack) /\ FrameOK(f) /\ Serves(f)
      /\ IsSeq(stack)
  BY <1>1, InProgress
<1>3. Tells(id) /\ Tells(zero) /\ zero.ok = FALSE
  BY PrimitivesTell, OutcomeTells, CodecsTell DEF Failed
<1>4. ~f.present
  BY <1>1, <1>2 DEF Serves, AwaitsValue, InPlaceOp
<1>5. known => Serves(g) /\ g.op = f.op /\ g.shape = f.shape
  <2>1. /\ g.op = f.op /\ g.shape = f.shape /\ g.field = id.value
        /\ g.present = f.present
    BY <1>2 DEF FrameOK
  <2> HIDE DEF g
  <2> QED BY <1>1, <1>2, <1>4, <2>1 DEF Serves
<1>6. Serves(h) /\ h.op = f.op /\ h.shape = f.shape /\ h.field = Skipping
  <2>1. /\ h.op = f.op /\ h.shape = f.shape /\ h.field = Skipping
        /\ h.present = f.present
    BY <1>2 DEF FrameOK
  <2> HIDE DEF h
  <2> QED BY <1>1, <1>2, <1>4, <2>1 DEF Serves
<1>7. Serves(k) /\ k.op = "skip"
  BY NewSkipServes DEF SkipOp
<1>8. Summons(h, k)
  BY <1>1, <1>6, <1>7 DEF Summons, ValueOp, InPlaceOp
<1>9. <<k, h>> \o Tail(stack) = <<k>> \o (<<h>> \o Tail(stack))
  <2> DEFINE S == {stack[i] : i \in DOMAIN stack} \cup {k, h}
  <2>1. stack \in Seq(S) /\ Tail(stack) \in Seq(S) /\ k \in S /\ h \in S
    BY <1>2 DEF IsSeq
  <2> HIDE DEF S, k, h
  <2> QED BY <2>1
<1> HIDE DEF id, zero, g, h, k
<1>10. CASE ~id.ok /\ Fail(id)
  BY <1>1, <1>3, <1>10, FailTold
<1>11. CASE Fail(zero)
  BY <1>1, <1>3, <1>11, FailTold
<1>12. CASE status' = status /\ error' = error /\ known /\ stack' = <<g>> \o Tail(stack)
  <2>1. Serving(stack')
    BY <1>2, <1>5, <1>12, ReplaceServing
  <2> QED BY <1>1, <1>12, <2>1, GoesOn
<1>13. CASE status' = status /\ error' = error /\ stack' = <<k, h>> \o Tail(stack)
  <2>1. stack' = <<k>> \o (<<h>> \o Tail(stack))
    BY <1>9, <1>13
  <2>2. Serving(stack')
    BY <1>2, <1>6, <1>7, <1>8, <2>1, PushOverServing
  <2> QED BY <1>1, <1>13, <2>2, GoesOn
<1> QED BY <1>1, <1>10, <1>11, <1>12, <1>13

(* A frame of skip_reader serves whatever it has still to skip.            *)
LEMMA SkipServes ==
    ASSUME NEW f, f.op \in SkipOp, ~f.present
    PROVE  Serves(f)
BY DEF Serves, SkipOp, ValueOp, InPlaceOp

(* A header that is skipped.                                               *)
LEMMA SkipHeaderTold == IInv /\ DInv /\ SkipHeader => DInv'
<1> SUFFICES ASSUME IInv, DInv, SkipHeader PROVE DInv'
  OBVIOUS
<1> DEFINE f      == Head(stack)
           header == ReadByte(input, pos)
           size   == SkipSize(header.value)
           plan   == SkipPlan(header.value, size.value)
           g      == [f EXCEPT !.left = @ - 1, !.field = 0]
           k      == SkipFrame(plan[1], plan[2])
           bad    == Failed("invalid_header", "skip", 1)
           long   == [size EXCEPT !.used = 1 + @]
<1>1. /\ status = "reading" /\ f.op \in SkipOp
      /\ IF ~header.ok THEN Fail(header)
         ELSE IF header.value \notin Skippable THEN Fail(bad)
         ELSE IF ~size.ok THEN Fail(long)
         ELSE /\ stack' = <<k>> \o (<<g>> \o Tail(stack))
              /\ UNCHANGED <<status, error>>
  BY DEF SkipHeader, SkipOp
<1>2. stack # <<>> /\ Nested(stack) /\ Serving(stack) /\ FrameOK(f) /\ Serves(f)
      /\ IsSeq(stack) /\ input \in Seq(Byte) /\ pos \in 0 .. Len(input)
  BY <1>1, InProgress
<1>3. f.op # "root"
  BY <1>1 DEF SkipOp
<1>4. Tells(header) /\ Tells(bad) /\ bad.ok = FALSE
  BY PrimitivesTell, OutcomeTells, CodecsTell DEF Failed
<1>5. Tells(long) /\ long.ok = size.ok
  <2>1. \E a, b, c, d, e : size = [ok |-> a, value |-> b, used |-> c, code |-> d, stage |-> e]
    BY DEF SkipSize, ReadSizeTail, ReadUint, DecodeUint, WholePayload, Got, Failed
  <2>2. Tells(size)
    BY HeadersTell, OutcomeTells, Zenon DEF SkipSize
  <2> HIDE DEF size
  <2>3. size = [ok |-> size.ok, value |-> size.value, used |-> size.used,
                code |-> size.code, stage |-> size.stage]
    BY <2>1
  <2> QED BY <2>2, <2>3, LongerTells
<1>6. ~f.present
  BY <1>1, <1>2 DEF Serves, AwaitsValue, InPlaceOp, SkipOp
<1>7. Serves(g) /\ g.op = f.op /\ g.shape = f.shape
  <2>1. g.op = f.op /\ g.shape = f.shape /\ g.present = f.present
    BY <1>2 DEF FrameOK
  <2> HIDE DEF g
  <2> QED BY <1>1, <1>6, <2>1, SkipServes
<1>8. header.ok /\ size.ok => Serves(k) /\ Summons(g, k)
  <2> SUFFICES ASSUME header.ok, size.ok PROVE Serves(k) /\ Summons(g, k)
    OBVIOUS
  <2>1. header.value \in Byte /\ header.used = 1 /\ pos + 1 <= Len(input)
    BY <1>2, ReadByteBounded DEF Bounded
  <2>2. size.value \in Nat
    BY <2>1, SkipSizeBounded
  <2>3. plan[1] \in SkipOp
    BY <2>1, <2>2, SkipPlanType
  <2>4. Serves(k) /\ k.op = plan[1]
    BY <2>3, NewSkipServes
  <2> HIDE DEF k, plan, g
  <2> QED BY <1>1, <1>7, <2>3, <2>4 DEF Summons, SkipOp, ValueOp, InPlaceOp
<1> HIDE DEF header, size, long, bad, g, k
<1>9. CASE ~header.ok
  BY <1>1, <1>3, <1>4, <1>9, FailTold
<1>10. CASE header.ok /\ header.value \notin Skippable
  BY <1>1, <1>3, <1>4, <1>10, FailTold
<1>11. CASE header.ok /\ header.value \in Skippable /\ ~size.ok
  BY <1>1, <1>3, <1>5, <1>11, FailTold
<1>12. CASE header.ok /\ header.value \in Skippable /\ size.ok
  <2>1. stack' = <<k>> \o (<<g>> \o Tail(stack)) /\ status' = status /\ error' = error
    BY <1>1, <1>12
  <2>2. Serving(stack')
    BY <1>2, <1>7, <1>8, <1>12, <2>1, PushOverServing
  <2> QED BY <1>1, <2>1, <2>2, GoesOn
<1> QED BY <1>9, <1>10, <1>11, <1>12

(* A field id or a chunk of bytes that is skipped.                         *)
LEMMA SkipPartTold == IInv /\ DInv /\ (SkipFieldId \/ SkipRaw) => DInv'
<1> SUFFICES ASSUME IInv, DInv, SkipFieldId \/ SkipRaw PROVE DInv'
  OBVIOUS
<1> DEFINE f     == Head(stack)
           id    == ReadUint(input, pos)
           chunk == Smaller(f.left, SkipChunk)
           raw   == ReadRaw(input, pos, chunk)
           g     == [f EXCEPT !.field = Skipping]
           h     == [f EXCEPT !.left = @ - chunk]
<1>1. /\ status = "reading" /\ f.op \in SkipOp
      /\ \/ ~id.ok /\ Fail(id)
         \/ ~raw.ok /\ Fail(raw)
         \/ /\ stack' = <<g>> \o Tail(stack) \/ stack' = <<h>> \o Tail(stack)
            /\ UNCHANGED <<status, error>>
  BY DEF SkipFieldId, SkipRaw, SkipOp
<1>2. stack # <<>> /\ Nested(stack) /\ Serving(stack) /\ FrameOK(f) /\ Serves(f)
      /\ IsSeq(stack)
  BY <1>1, InProgress
<1>3. Tells(id) /\ Tells(raw) /\ f.op # "root"
  BY <1>1, PrimitivesTell DEF SkipOp
<1>4. ~f.present
  BY <1>1, <1>2 DEF Serves, AwaitsValue, InPlaceOp, SkipOp
<1> HIDE DEF chunk
<1>5. /\ g.op = f.op /\ g.shape = f.shape /\ g.present = f.present
      /\ h.op = f.op /\ h.shape = f.shape /\ h.present = f.present
  BY <1>2 DEF FrameOK
<1> HIDE DEF g, h, id, raw
<1>6. Serves(g) /\ Serves(h)
  BY <1>1, <1>4, <1>5, SkipServes
<1>7. CASE (~id.ok /\ Fail(id)) \/ (~raw.ok /\ Fail(raw))
  BY <1>1, <1>3, <1>7, FailTold
<1>8. CASE /\ stack' = <<g>> \o Tail(stack) \/ stack' = <<h>> \o Tail(stack)
           /\ UNCHANGED <<status, error>>
  <2>1. Serving(stack')
    BY <1>2, <1>5, <1>6, <1>8, ReplaceServing
  <2> QED BY <1>1, <1>8, <2>1, GoesOn
<1> QED BY <1>1, <1>7, <1>8

(* A finished call and its caller.                                         *)
LEMMA CallerServes ==
    ASSUME IInv, DInv, status \in {"reading", "failing"}, Head(stack).op # "root"
    PROVE  /\ Tail(stack) # <<>> /\ Nested(Tail(stack)) /\ Serving(Tail(stack))
           /\ IsSeq(Tail(stack))
           /\ Serves(Head(stack)) /\ FrameOK(Head(stack))
           /\ Serves(Head(Tail(stack))) /\ FrameOK(Head(Tail(stack)))
           /\ Summons(Head(Tail(stack)), Head(stack))
<1>1. stack # <<>> /\ Nested(stack) /\ Serving(stack)
  BY DEF IInv, DInv, Ended
<1>2. Tail(stack) # <<>> /\ Nested(Tail(stack)) /\ FrameOK(Head(Tail(stack)))
  BY <1>1, PopNested
<1>3. IsSeq(stack) /\ FrameOK(Head(stack)) /\ IsSeq(Tail(stack))
  BY <1>1, <1>2, HeadServes DEF Nested
<1> QED BY <1>1, <1>2, <1>3, PopServing

(* A finished codec hands its value to its caller, which awaits it.        *)
LEMMA ReturnValueTold == IInv /\ DInv /\ ReturnValue => DInv'
<1> SUFFICES ASSUME IInv, DInv, ReturnValue PROVE DInv'
  OBVIOUS
<1> DEFINE f == Head(stack)
           calls == Tail(stack)
<1>1. /\ status = "reading" /\ f.op \in ValueOp /\ Store(calls, f.val, pos)
  BY DEF ReturnValue
<1>2. /\ calls # <<>> /\ Nested(calls) /\ Serving(calls)
      /\ Serves(f) /\ Summons(Head(calls), f)
  BY <1>1, CallerServes DEF ValueOp, InPlaceOp
<1>3. AwaitsValue(Head(calls)) /\ f.shape = Awaited(Head(calls)) /\ f.op = CodecOf(f.shape)
  BY <1>1, <1>2 DEF Summons, Serves
<1>4. Awaited(Head(calls)).kind # "uint"
  BY <1>1, <1>3 DEF CodecOf, ValueOp, InPlaceOp, MapKind
<1> HIDE DEF f, calls
<1> QED BY <1>1, <1>2, <1>3, <1>4, StoreTold

(* A finished skip ends the unknown field of its object.                   *)
LEMMA ReturnSkipTold == IInv /\ DInv /\ ReturnSkip => DInv'
<1> SUFFICES ASSUME IInv, DInv, ReturnSkip PROVE DInv'
  OBVIOUS
<1> DEFINE f == Head(Tail(stack))
           g == [f EXCEPT !.left = @ - 1, !.field = 0]
<1>1. /\ status = "reading" /\ Head(stack).op \in SkipOp
      /\ stack' = IF f.op = "object" THEN <<g>> \o Tail(Tail(stack)) ELSE Tail(stack)
      /\ status' = status /\ error' = error
  BY DEF ReturnSkip
<1>2. /\ Tail(stack) # <<>> /\ Serving(Tail(stack)) /\ IsSeq(Tail(stack))
      /\ Serves(f) /\ FrameOK(f) /\ Summons(f, Head(stack))
  BY <1>1, CallerServes DEF SkipOp
<1>3. ASSUME f.op = "object" PROVE Serves(g) /\ g.op = f.op /\ g.shape = f.shape
  <2>1. f.field = Skipping
    BY <1>1, <1>2, <1>3 DEF Summons, SkipOp
  <2>2. ~f.present
    BY <1>2, <1>3, <2>1 DEF Serves, AwaitsValue, InPlaceOp, Skipping
  <2>3. g.op = f.op /\ g.shape = f.shape /\ g.present = f.present /\ g.field = 0
    BY <1>2 DEF FrameOK
  <2> HIDE DEF g
  <2> QED BY <1>2, <1>3, <2>2, <2>3 DEF Serves
<1> HIDE DEF g
<1>4. CASE f.op = "object"
  <2>1. stack' = <<g>> \o Tail(Tail(stack))
    BY <1>1, <1>4
  <2>2. Serving(stack')
    BY <1>2, <1>3, <1>4, <2>1, ReplaceServing
  <2> QED BY <1>1, <2>2, GoesOn
<1>5. CASE f.op # "object"
  <2>1. Serving(stack')
    BY <1>1, <1>2, <1>5
  <2> QED BY <1>1, <2>1, GoesOn
<1> QED BY <1>4, <1>5

(* A failed call adds what it knows; right above operator>> that is at     *)
(* least the contract type.                                                *)
LEMMA UnwindTold == IInv /\ DInv /\ Unwind => DInv'
<1> SUFFICES ASSUME IInv, DInv, Unwind PROVE DInv'
  OBVIOUS
<1> DEFINE f == Head(stack)
           c == Head(Tail(stack))
           g == Spilled(c, f.val)
           d == Annotated(error, f)
<1>1. /\ status = "failing" /\ f.op # "root" /\ error' = d /\ pos' = pos
      /\ status' = "failing"
      /\ stack' = IF f.op \in SkipOp THEN Tail(stack)
                  ELSE <<g>> \o Tail(Tail(stack))
  BY DEF Unwind
<1>2. /\ Tail(stack) # <<>> /\ Nested(Tail(stack)) /\ Serving(Tail(stack))
      /\ IsSeq(Tail(stack)) /\ Serves(f) /\ FrameOK(f)
      /\ Serves(c) /\ FrameOK(c) /\ Summons(c, f)
  BY <1>1, CallerServes
<1>3. Serves(g) /\ g.op = c.op /\ g.shape = c.shape
  BY <1>2, SpilledServes
<1> HIDE DEF g
<1>4. Serving(stack') /\ Len(stack') = Len(Tail(stack))
  <2>1. CASE f.op \in SkipOp
    BY <1>1, <1>2, <2>1
  <2>2. CASE f.op \notin SkipOp
    <3>1. stack' = <<g>> \o Tail(Tail(stack))
      BY <1>1, <2>2
    <3> QED BY <1>2, <1>3, <3>1, ReplaceServing, ReplaceSeq
  <2> QED BY <2>1, <2>2
<1>5. Said(error, pos) /\ Typed(error, stack)
  BY <1>1 DEF DInv, Told
<1>6. /\ Said(d, pos')
      /\ f.op = "object" => d.type = IF error.type = Absent THEN f.shape.type ELSE error.type
      /\ f.op # "object" => d.type = error.type
  BY <1>1, <1>2, <1>5, AnnotatedSaid
<1>7. f.op = "object" => f.shape.type \in DOMAIN Fields
  <2> SUFFICES ASSUME f.op = "object" PROVE f.shape.type \in DOMAIN Fields
    OBVIOUS
  <2>1. f.shape \in Shapes /\ f.shape.kind = "object"
    BY <1>2 DEF Serves, ValueOp, CodecOf, MapKind
  <2> QED BY <2>1, PartShapes, FieldsAssumption, ShapesAssumption
<1>8. f.op # "object" => Len(Tail(stack)) > 1
  <2> SUFFICES ASSUME f.op # "object" PROVE Len(Tail(stack)) > 1
    OBVIOUS
  <2>1. f.op \in ValueOp \/ f.op \in SkipOp
    BY <1>1, <1>2 DEF FrameOK, Op
  <2>2. c.op # "root"
    <3>1. CASE f.op \in SkipOp
      BY <1>2, <3>1 DEF Summons, SkipOp
    <3>2. CASE f.op \in ValueOp
      <4>1. AwaitsValue(c) /\ f.shape = Awaited(c) /\ f.op = CodecOf(f.shape)
        BY <1>2, <3>2 DEF Summons, Serves
      <4>2. c.op = "root" => f.shape = Object(RootType)
        BY <1>2, <4>1, AwaitedServed
      <4>3. CodecOf(Object(RootType)) = "object"
        BY DEF CodecOf, Object, MapKind
      <4> QED BY <4>1, <4>2, <4>3
    <3> QED BY <2>1, <3>1, <3>2
  <2>3. Len(Tail(stack)) \in Nat \ {0} /\ Len(Tail(stack)) # 1
    BY <1>2, <2>2, HeadServes
  <2>4. \A l \in Nat \ {0} : l # 1 => l > 1
    OBVIOUS
  <2> QED BY <2>3, <2>4, Zenon
<1> HIDE DEF d
<1>9. Typed(error', stack')
  BY <1>1, <1>4, <1>5, <1>6, <1>7, <1>8 DEF Typed
<1>10. Told'
  BY <1>1, <1>6, <1>9 DEF Told
<1> QED BY <1>4, <1>10 DEF DInv

(* operator>> returns, or throws a diagnostic that has its type.           *)
LEMMA EndedTold == IInv /\ DInv /\ (EndRead \/ Throw) => DInv'
<1> SUFFICES ASSUME IInv, DInv, EndRead \/ Throw PROVE DInv'
  OBVIOUS
<1>1. stack' = <<>> /\ Head(stack).op = "root" /\ error' = error /\ pos' = pos
  BY DEF EndRead, Throw
<1>2. Serving(stack')
  <2>1. Len(<<>>) = 0 /\ 1 .. 0 = {}
    OBVIOUS
  <2> QED BY <1>1, <2>1 DEF Serving
<1>3. CASE status = "reading" /\ status' = "ok"
  <2>1. error' = NoError
    BY <1>1, <1>3 DEF DInv, Told
  <2>2. Told'
    BY <1>3, <2>1 DEF Told
  <2> QED BY <1>2, <2>2 DEF DInv
<1>4. CASE status = "failing" /\ status' = "error"
  <2>1. Said(error, pos) /\ Typed(error, stack)
    BY <1>4 DEF DInv, Told
  <2>2. stack # <<>> /\ Nested(stack) /\ Serving(stack)
    BY <1>4 DEF IInv, DInv, Ended
  <2>3. Len(stack) = 1
    BY <1>1, <2>2, HeadServes
  <2>4. error.type \in DOMAIN Fields
    BY <2>1, <2>3 DEF Typed
  <2>5. Told'
    BY <1>1, <1>4, <2>1, <2>4 DEF Told
  <2> QED BY <1>2, <2>5 DEF DInv
<1> QED BY <1>3, <1>4 DEF EndRead, Throw

-----------------------------------------------------------------------------
(* The theorem.                                                            *)

(* One step of any kind, action by action.                                 *)
LEMMA StepTold == IInv /\ DInv /\ [Next]_vars => DInv'
<1> SUFFICES ASSUME IInv, DInv, [Next]_vars PROVE DInv'
  OBVIOUS
<1>1. CASE BeginRead
  BY <1>1, BeginReadTold
<1>2. CASE ReadScalar
  BY <1>2, ReadScalarTold
<1>3. CASE ReadString
  BY <1>3, ReadStringTold
<1>4. CASE ReadOptional
  BY <1>4, ReadOptionalTold
<1>5. CASE OpenVector
  BY <1>5, OpenContainerTold DEF OpenVector
<1>6. CASE OpenMap
  BY <1>6, OpenContainerTold DEF OpenMap
<1>7. CASE ReadBlob
  BY <1>7, ReadBlobTold
<1>8. CASE OpenFixed
  BY <1>8, OpenFixedTold
<1>9. CASE OpenObject
  BY <1>9, OpenObjectTold
<1>10. CASE ReadFieldId
  BY <1>10, ReadFieldIdTold
<1>11. CASE SkipHeader
  BY <1>11, SkipHeaderTold
<1>12. CASE SkipFieldId \/ SkipRaw
  BY <1>12, SkipPartTold
<1>13. CASE ReturnValue
  BY <1>13, ReturnValueTold
<1>14. CASE ReturnSkip
  BY <1>14, ReturnSkipTold
<1>15. CASE EndRead \/ Throw
  BY <1>15, EndedTold
<1>16. CASE Unwind
  BY <1>16, UnwindTold
<1>17. CASE UNCHANGED vars
  <2>1. Serving(stack')
    BY <1>17 DEF vars, DInv
  <2>2. Told'
    BY <1>17 DEF vars, DInv, Told
  <2> QED BY <2>1, <2>2 DEF DInv
<1> QED BY <1>1, <1>2, <1>3, <1>4, <1>5, <1>6, <1>7, <1>8, <1>9, <1>10, <1>11,
           <1>12, <1>13, <1>14, <1>15, <1>16, <1>17 DEF Next, Step

(* Before the first read nothing has failed.                               *)
LEMMA InitTold == Init => DInv
<1> SUFFICES ASSUME Init PROVE DInv
  OBVIOUS
<1>1. stack = <<>> /\ status = "idle" /\ error = NoError
  BY DEF Init
<1>2. Len(<<>>) = 0 /\ 1 .. 0 = {}
  OBVIOUS
<1>3. Serving(stack)
  BY <1>1, <1>2 DEF Serving
<1> QED BY <1>1, <1>3 DEF DInv, Told

(* Each codec serves a type of the program's, the one its caller awaits,   *)
(* and a failure always has a call left that will name a contract type.    *)
THEOREM DiagnosticInductive == Spec => [](IInv /\ DInv)
<1>1. Init => IInv /\ DInv
  BY InitInv, InitTold
<1>2. (IInv /\ DInv) /\ [Next]_vars => (IInv /\ DInv)'
  BY StepInv, StepTold
<1> QED BY <1>1, <1>2, PTL DEF Spec

(* A failed read says where and why, whatever the schema and the bytes: a  *)
(* code, a stage, a contract type, and the offset where the cursor stopped *)
(* and stays while the failure unwinds; a read that goes on or returned    *)
(* has no diagnostic.                                                      *)
THEOREM FailureExplained == Spec => []DiagnosticComplete
<1>1. IInv /\ DInv => DiagnosticComplete
  <2> SUFFICES ASSUME DInv PROVE DiagnosticComplete
    OBVIOUS
  <2>1. status = "error" => /\ error.code \notin {"none", "unknown"}
                            /\ error.stage # Absent
                            /\ error.type \in DOMAIN Fields
    BY StageAssumption DEF DInv, Told, Said, Telling
  <2>2. status \in {"failing", "error"} => error.offset = pos
    BY DEF DInv, Told, Said
  <2>3. status \in {"reading", "ok"} => error = NoError
    BY DEF DInv, Told
  <2> QED BY <2>1, <2>2, <2>3 DEF DiagnosticComplete
<1> QED BY <1>1, DiagnosticInductive, PTL

-----------------------------------------------------------------------------
(* The contract types within a shape.                                      *)

(* One step of looking for contract types: into a shape, and no deeper.    *)
Within(F, s) ==
    IF s.kind = "object" THEN {s.type}
    ELSE UNION {F[part] : part \in Components(Fields, s)}

IsWithin(F) == F = [s \in Shapes |-> Within(F, s)]

(* TypesIn takes that step until it comes to nothing new.                  *)
LEMMA TypesInIsWithin == \A shape : TypesIn(shape) = (CHOOSE F : IsWithin(F))[shape]
BY Zenon DEF TypesIn, IsWithin, Within

(* There is a function that tells the contract types within each shape:    *)
(* the least of those that have them all.                                  *)
LEMMA WithinExists == \E F : IsWithin(F)
<1> DEFINE T == {s.type : s \in Shapes}
           All(F) == /\ F \in [Shapes -> SUBSET T]
                     /\ \A s \in Shapes : Within(F, s) \subseteq F[s]
           L == [s \in Shapes |-> {t \in T : \A F : All(F) => t \in F[s]}]
           M == [s \in Shapes |-> Within(L, s)]
<1>1. ASSUME NEW F, NEW G, \A s \in Shapes : F[s] \subseteq G[s], NEW s \in Shapes
      PROVE  Within(F, s) \subseteq Within(G, s)
  <2>1. Components(Fields, s) \subseteq Shapes
    BY ShapesAssumption DEF ValidShapes
  <2> QED BY <1>1, <2>1, Zenon DEF Within
<1>2. ASSUME NEW F, All(F), NEW s \in Shapes
      PROVE  L[s] \subseteq F[s]
  BY <1>2
<1>3. ASSUME NEW s \in Shapes PROVE M[s] \subseteq L[s]
  <2>1. ASSUME NEW F, All(F) PROVE Within(L, s) \subseteq F[s] /\ F[s] \subseteq T
    <3> HIDE DEF L
    <3>1. Within(L, s) \subseteq Within(F, s)
      BY <1>1, <1>2, <2>1
    <3> QED BY <2>1, <3>1
  <2>2. Within(L, s) \subseteq T
    <3>1. CASE s.kind = "object"
      BY <3>1 DEF Within
    <3>2. CASE s.kind # "object"
      <4>1. Components(Fields, s) \subseteq Shapes
        BY ShapesAssumption DEF ValidShapes
      <4> QED BY <3>2, <4>1 DEF Within
    <3> QED BY <3>1, <3>2
  <2>3. ASSUME NEW t \in Within(L, s) PROVE t \in L[s]
    <3>1. \A F : All(F) => t \in F[s]
      BY <2>1, <2>3
    <3> QED BY <2>2, <2>3, <3>1
  <2> QED BY <2>3
<1>4. All(M)
  <2>1. ASSUME NEW s \in Shapes PROVE Within(M, s) \subseteq M[s] /\ M[s] \subseteq T
    <3>1. L[s] \subseteq T /\ M[s] = Within(L, s)
      OBVIOUS
    <3> HIDE DEF L, M
    <3> QED BY <1>1, <1>3, <3>1
  <2> HIDE DEF L
  <2> QED BY <2>1
<1>5. ASSUME NEW s \in Shapes PROVE L[s] = Within(L, s)
  <2>1. M[s] = Within(L, s)
    OBVIOUS
  <2> HIDE DEF L, M, All
  <2> QED BY <1>2, <1>3, <1>4, <2>1
<1>6. L = [s \in Shapes |-> Within(L, s)]
  <2>1. L = [s \in Shapes |-> L[s]]
    OBVIOUS
  <2> HIDE DEF L
  <2> QED BY <1>5, <2>1
<1> HIDE DEF L
<1> QED BY <1>6 DEF IsWithin

(* The contract types in a shape: its own, or those of its parts.          *)
LEMMA TypesInParts ==
    ASSUME NEW s \in Shapes
    PROVE  /\ s.kind = "object" => TypesIn(s) = {s.type}
           /\ s.kind # "object" =>
                 TypesIn(s) = UNION {TypesIn(part) : part \in Components(Fields, s)}
<1> DEFINE F == CHOOSE F_1 : IsWithin(F_1)
<1>1. IsWithin(F) /\ \A shape : TypesIn(shape) = F[shape]
  BY WithinExists, TypesInIsWithin, Zenon
<1> HIDE DEF F
<1>2. TypesIn(s) = Within(F, s)
  BY <1>1 DEF IsWithin
<1>3. {TypesIn(part) : part \in Components(Fields, s)} = {F[part] : part \in Components(Fields, s)}
  BY <1>1, Zenon
<1> QED BY <1>2, <1>3, Zenon DEF Within

(* What is in a part is in the whole, but for the fields of an object.     *)
LEMMA TypesInPart ==
    ASSUME NEW s \in Shapes, s.kind # "object", NEW part \in Components(Fields, s)
    PROVE  TypesIn(part) \subseteq TypesIn(s)
<1>1. TypesIn(s) = UNION {TypesIn(p) : p \in Components(Fields, s)}
  BY TypesInParts
<1>2. TypesIn(part) \in {TypesIn(p) : p \in Components(Fields, s)}
  BY Zenon
<1> QED BY <1>1, <1>2, Zenon

-----------------------------------------------------------------------------
(* Whose field a diagnostic names.                                         *)

(* Neither a type nor a field has been named.                              *)
Unnamed(e) == e.type = Absent /\ e.field = Absent

(* The field is the type's, or that of a type which holds it.              *)
Named(e) ==
    \/ e.field \in FieldIds(Fields, e.type)
    \/ \E type \in DOMAIN Fields : \E i \in DOMAIN Fields[type] :
          /\ Fields[type][i].id = e.field
          /\ e.type \in TypesIn(Fields[type][i].shape)

(* The call awaits a value that has the contract type in it.               *)
AwaitsType(f, type) ==
    AwaitsValue(f) /\ Awaited(f) \in Shapes /\ type \in TypesIn(Awaited(f))

(* While a failure unwinds, a type that was named without a field is in    *)
(* the value that the innermost call awaits.                               *)
HolderKnown ==
    /\ status = "failing" =>
          \/ Unnamed(error)
          \/ error.type # Absent /\ error.field # Absent /\ Named(error)
          \/ /\ error.type # Absent /\ error.field = Absent
             /\ AwaitsType(Head(stack), error.type)
    /\ status = "error" /\ error.field # Absent => Named(error)

(* A step of a read that goes on, or fails without a name.                 *)
NamesNothing ==
    \/ status' = status /\ error' = error
    \/ \E code, stage, at : Raise(code, stage, at)

(* Such a step keeps what is known of the holder.                          *)
LEMMA NamesNothingKeeps ==
    ASSUME status = "reading", NamesNothing
    PROVE  HolderKnown'
<1>1. CASE status' = status
  BY <1>1 DEF HolderKnown
<1>2. ASSUME NEW code, NEW stage, NEW at, Raise(code, stage, at)
      PROVE  HolderKnown'
  <2>1. status' = "failing" /\ Unnamed(error')
    BY <1>2, RaisedParts DEF Raise, Unnamed
  <2> QED BY <2>1 DEF HolderKnown, Unnamed
<1> QED BY <1>1, <1>2 DEF NamesNothing

(* What the actions share names nothing.                                   *)
LEMMA OutcomesNameNothing ==
    /\ \A r : Fail(r) => NamesNothing
    /\ \A calls, v, at : Store(calls, v, at) => NamesNothing
    /\ \A f, at : Call(f, at) => NamesNothing
    /\ \A code, stage, at : Raise(code, stage, at) => NamesNothing
    /\ UNCHANGED <<status, error>> => NamesNothing
<1>1. \A code, stage, at : Raise(code, stage, at) => NamesNothing
  BY Zenon DEF NamesNothing
<1>2. UNCHANGED <<status, error>> => NamesNothing
  BY DEF NamesNothing
<1>3. \A r : Fail(r) => NamesNothing
  BY <1>1, Zenon DEF Fail
<1>4. \A calls, v, at : Store(calls, v, at) => NamesNothing
  BY <1>1, <1>2, Zenon DEF Store
<1>5. \A f, at : Call(f, at) => NamesNothing
  BY <1>2, Zenon DEF Call
<1> QED BY <1>1, <1>2, <1>3, <1>4, <1>5

(* No step of a read names a type or a field, but that of an object whose  *)
(* header is at fault.                                                     *)
LEMMA CodecsNameNothing ==
    /\ ReadScalar \/ ReadString \/ ReadOptional \/ OpenVector \/ OpenMap \/ ReadBlob
          \/ OpenFixed \/ ReadFieldId \/ SkipHeader \/ SkipFieldId \/ SkipRaw
          \/ ReturnValue \/ ReturnSkip
       => status = "reading" /\ NamesNothing
<1>1. ReadScalar => status = "reading" /\ NamesNothing
  BY OutcomesNameNothing, Zenon DEF ReadScalar, Reading
<1>2. ReadString => status = "reading" /\ NamesNothing
  BY OutcomesNameNothing, Zenon DEF ReadString, Reading
<1>3. ReadOptional => status = "reading" /\ NamesNothing
  <2> SUFFICES ASSUME ReadOptional PROVE status = "reading" /\ NamesNothing
    OBVIOUS
  <2>1. UNCHANGED <<pos, status, error>> => UNCHANGED <<status, error>>
    OBVIOUS
  <2> QED BY <2>1, OutcomesNameNothing, Zenon DEF ReadOptional, Reading
<1>4. OpenVector \/ OpenMap => status = "reading" /\ NamesNothing
  BY OutcomesNameNothing, Zenon DEF OpenVector, OpenMap, OpenContainer, Reading
<1>5. ReadBlob => status = "reading" /\ NamesNothing
  BY OutcomesNameNothing, Zenon DEF ReadBlob, Reading
<1>6. OpenFixed => status = "reading" /\ NamesNothing
  BY OutcomesNameNothing, Zenon DEF OpenFixed, Reading
<1>7. ReadFieldId => status = "reading" /\ NamesNothing
  BY OutcomesNameNothing, Zenon DEF ReadFieldId
<1>8. SkipHeader => status = "reading" /\ NamesNothing
  BY OutcomesNameNothing, Zenon DEF SkipHeader
<1>9. SkipFieldId => status = "reading" /\ NamesNothing
  BY OutcomesNameNothing, Zenon DEF SkipFieldId
<1>10. SkipRaw => status = "reading" /\ NamesNothing
  BY OutcomesNameNothing, Zenon DEF SkipRaw
<1>11. ReturnValue => status = "reading" /\ NamesNothing
  BY OutcomesNameNothing, Zenon DEF ReturnValue
<1>12. ReturnSkip => status = "reading" /\ NamesNothing
  BY DEF ReturnSkip, NamesNothing
<1> QED BY <1>1, <1>2, <1>3, <1>4, <1>5, <1>6, <1>7, <1>8, <1>9, <1>10, <1>11, <1>12

(* An object whose header is at fault names its type, which is awaited.    *)
LEMMA OpenObjectHolder == IInv /\ DInv /\ HolderKnown /\ OpenObject => HolderKnown'
<1> SUFFICES ASSUME IInv, DInv, HolderKnown, OpenObject PROVE HolderKnown'
  OBVIOUS
<1> DEFINE f     == Head(stack)
           shape == Awaited(f)
           size  == ReadSizeHeader(input, pos, "object")
           e     == WithStage(WithCode(Emplaced(NoError, pos'), size.code), size.stage)
<1>1. /\ Reading({"object"})
      /\ \/ status' = status /\ error' = error
         \/ /\ status' = "failing" /\ error' = WithType(e, shape.type)
            /\ stack' = stack
  BY DEF OpenObject, Call
<1>2. /\ status = "reading" /\ AwaitsValue(f) /\ shape.kind = "object"
      /\ shape \in Shapes
  BY <1>1, ReadingServes
<1>3. CASE status' = status /\ error' = error
  BY <1>2, <1>3, NamesNothingKeeps DEF NamesNothing
<1>4. CASE /\ status' = "failing" /\ error' = WithType(e, shape.type)
           /\ stack' = stack
  <2>1. WithType(e, shape.type).type = shape.type /\ WithType(e, shape.type).field = Absent
    BY RaisedParts DEF WithType, FirstWins
  <2> HIDE DEF e
  <2>2. shape.type \in DOMAIN Fields /\ shape.type \in TypesIn(shape)
    BY <1>2, TypesInParts, PartShapes, FieldsAssumption, ShapesAssumption
  <2>3. AwaitsType(f, shape.type) /\ shape.type # Absent
    BY <1>2, <2>2, TypesAssumption DEF AwaitsType
  <2>4. error'.type = shape.type /\ error'.field = Absent /\ Head(stack') = f
    BY <1>4, <2>1
  <2>5. AwaitsType(Head(stack'), error'.type)
    BY <2>3, <2>4
  <2> HIDE DEF f, shape
  <2> QED BY <1>4, <2>3, <2>4, <2>5 DEF HolderKnown, AwaitsType
<1> QED BY <1>1, <1>3, <1>4

(* A call whose storage was touched still awaits what it did.              *)
LEMMA SpilledAwaits ==
    ASSUME NEW f, FrameOK(f), AwaitsValue(f), NEW v
    PROVE  AwaitsValue(Spilled(f, v)) /\ Awaited(Spilled(f, v)) = Awaited(f)
<1> DEFINE g == Spilled(f, v)
<1> SUFFICES AwaitsValue(g) /\ Awaited(g) = Awaited(f)
  OBVIOUS
<1>1. \/ g = f
      \/ g = [f EXCEPT !.val = v]
      \/ g = [f EXCEPT !.val[f.field] = v]
      \/ g = [f EXCEPT !.val[Item(f)] = v]
  BY Zenon DEF Spilled
<1>2. /\ g.op = f.op /\ g.shape = f.shape /\ g.count = f.count /\ g.left = f.left
      /\ g.field = f.field /\ g.key = f.key /\ g.present = f.present
  BY <1>1 DEF FrameOK
<1> HIDE DEF g
<1> QED BY <1>2 DEF AwaitsValue, Awaited, Declared, FieldOf, Item

(* What is in the value that a call awaits is in the one it declared.      *)
LEMMA AwaitedInDeclared ==
    ASSUME NEW f, FrameOK(f), Serves(f), NEW type, AwaitsType(f, type)
    PROVE  Declared(f) \in Shapes /\ type \in TypesIn(Declared(f))
<1>1. CASE f.present
  <2>1. Declared(f).kind = "optional" /\ Declared(f) # Index
    BY <1>1 DEF Serves, Index, Uint
  <2>2. Declared(f) \in Shapes
    BY <2>1, DeclaredServed DEF AwaitsType
  <2>3. Awaited(f) \in Components(Fields, Declared(f))
    BY <1>1, <2>1 DEF Awaited, Components
  <2> QED BY <2>1, <2>2, <2>3, TypesInPart DEF AwaitsType
<1>2. CASE ~f.present
  BY <1>2 DEF AwaitsType, Awaited
<1> QED BY <1>1, <1>2

(* A container awaits a part of what it reads.                             *)
LEMMA DeclaredPart ==
    ASSUME NEW f, FrameOK(f), Serves(f), f.op \in ValueOp, f.op # "object",
           NEW type, AwaitsType(f, type)
    PROVE  type \in TypesIn(f.shape)
<1>1. f.shape \in Shapes /\ f.op = CodecOf(f.shape)
  BY DEF Serves
<1>2. IF f.op = "map" THEN f.shape.kind \in MapKind ELSE f.shape.kind = f.op
  BY <1>1 DEF CodecOf, MapKind
<1>3. Declared(f) \in Shapes /\ type \in TypesIn(Declared(f))
  BY AwaitedInDeclared
<1>4. AwaitsValue(f)
  BY DEF AwaitsType
<1>5. Declared(f) \in Components(Fields, f.shape)
  <2>1. CASE f.op \in {"vector", "array", "span"}
    <3>1. Declared(f) = f.shape.elem
      BY <2>1 DEF Declared
    <3> QED BY <1>2, <2>1, <3>1 DEF Components
  <2>2. CASE f.op = "map"
    <3>1. Declared(f) \in {f.shape.key, f.shape.elem}
      BY <2>2 DEF Declared
    <3>2. Components(Fields, f.shape) = {f.shape.key, f.shape.elem}
      BY <1>2, <2>2 DEF Components, MapKind
    <3> QED BY <3>1, <3>2
  <2>3. CASE f.op = "tuple"
    <3>1. Declared(f) = f.shape.elems[Item(f)]
      BY <2>3 DEF Declared
    <3>2. f.shape.elems \in Seq(Shapes) /\ f.count = Len(f.shape.elems)
      BY <1>1, <1>2, <2>3, PartShapes, FieldsAssumption, ShapesAssumption DEF Serves
    <3>3. Item(f) \in 1 .. f.count
      BY <1>4 DEF FrameOK, Item, AwaitsValue
    <3>4. Components(Fields, f.shape) = {f.shape.elems[i] : i \in DOMAIN f.shape.elems}
      BY <1>2, <2>3 DEF Components, MapKind
    <3> QED BY <3>1, <3>2, <3>3, <3>4
  <2>4. CASE f.op = "variant" /\ f.key # Null
    <3>1. Declared(f) = f.shape.elems[f.key + 1]
      BY <2>4 DEF Declared
    <3>2. f.shape.elems \in Seq(Shapes) /\ f.key \in 0 .. Len(f.shape.elems) - 1
      BY <1>1, <1>2, <2>4, PartShapes, FieldsAssumption, ShapesAssumption DEF Serves
    <3>3. f.key + 1 \in 1 .. Len(f.shape.elems)
      BY <3>2
    <3>4. Components(Fields, f.shape) = {f.shape.elems[i] : i \in DOMAIN f.shape.elems}
      BY <1>2, <2>4 DEF Components, MapKind
    <3> QED BY <3>1, <3>2, <3>3, <3>4
  <2>5. CASE f.op = "variant" /\ f.key = Null
    <3>1. Declared(f) = Index
      BY <2>5 DEF Declared
    <3>2. Index.kind = "uint"
      BY DEF Index, Uint
    <3>3. Components(Fields, Index) = {}
      BY <3>2 DEF Components, MapKind
    <3>4. TypesIn(Index) = UNION {TypesIn(part) : part \in Components(Fields, Index)}
      BY <1>3, <3>1, <3>2, TypesInParts
    <3>5. TypesIn(Index) = {}
      BY <3>3, <3>4
    <3> QED BY <1>3, <3>1, <3>5
  <2> QED BY <2>1, <2>2, <2>3, <2>4, <2>5 DEF ValueOp, InPlaceOp
<1>6. f.shape.kind # "object"
  BY <1>2 DEF MapKind
<1> QED BY <1>1, <1>3, <1>5, <1>6, TypesInPart

(* The field that an object awaits is one of its type's.                   *)
LEMMA OwnField ==
    ASSUME NEW f, FrameOK(f), Serves(f), f.op = "object", f.field > 0
    PROVE  /\ f.shape \in Shapes /\ f.shape.kind = "object"
           /\ f.shape.type \in DOMAIN Fields /\ f.shape.type # Absent
           /\ f.field \in FieldIds(Fields, f.shape.type) /\ f.field # Absent
           /\ \E i \in DOMAIN Fields[f.shape.type] :
                 /\ Fields[f.shape.type][i].id = f.field
                 /\ Fields[f.shape.type][i].shape = Declared(f)
<1>1. f.shape \in Shapes /\ f.shape.kind = "object"
  BY DEF Serves, ValueOp, CodecOf, MapKind
<1>2. f.shape.type \in DOMAIN Fields /\ f.shape.type # Absent
  BY <1>1, PartShapes, FieldsAssumption, ShapesAssumption, TypesAssumption
<1>3. f.field \in FieldIds(Fields, f.shape.type)
  BY DEF Serves, Skipping
<1>4. f.field # Absent
  BY AbsentAssumption DEF FrameOK
<1>5. Declared(f) = DispatchFieldById(Fields, f.shape.type, f.field).shape
  BY DEF Declared, FieldOf
<1>6. \E i \in DOMAIN Fields[f.shape.type] :
         /\ Fields[f.shape.type][i].id = f.field
         /\ Fields[f.shape.type][i] = DispatchFieldById(Fields, f.shape.type, f.field)
  BY <1>3, Zenon DEF FieldIds, DispatchFieldById
<1> QED BY <1>1, <1>2, <1>3, <1>4, <1>5, <1>6

(* The object that a failure passes names its field: of its own type, or   *)
(* of the type that was named within it.                                   *)
LEMMA UnwindHolder == IInv /\ DInv /\ HolderKnown /\ Unwind => HolderKnown'
<1> SUFFICES ASSUME IInv, DInv, HolderKnown, Unwind PROVE HolderKnown'
  OBVIOUS
<1> DEFINE f == Head(stack)
           c == Head(Tail(stack))
           g == Spilled(c, f.val)
           d == Annotated(error, f)
<1>1. /\ status = "failing" /\ f.op # "root" /\ error' = d /\ status' = "failing"
      /\ stack' = IF f.op \in SkipOp THEN Tail(stack)
                  ELSE <<g>> \o Tail(Tail(stack))
  BY DEF Unwind
<1>2. /\ Tail(stack) # <<>> /\ IsSeq(Tail(stack)) /\ Serves(f) /\ FrameOK(f)
      /\ Serves(c) /\ FrameOK(c) /\ Summons(c, f)
  BY <1>1, CallerServes
<1>3. f.op \in SkipOp \/ f.op \in ValueOp
  BY <1>1, <1>2 DEF FrameOK, Op
<1>4. ASSUME f.op \in ValueOp, NEW type, f.shape \in Shapes, type \in TypesIn(f.shape)
      PROVE  AwaitsType(Head(stack'), type)
  <2>1. AwaitsValue(c) /\ Awaited(c) = f.shape
    BY <1>2, <1>4 DEF Summons
  <2>2. AwaitsType(g, type)
    BY <1>2, <1>4, <2>1, SpilledAwaits DEF AwaitsType
  <2>3. f.op \notin SkipOp
    BY <1>4 DEF ValueOp, SkipOp, InPlaceOp
  <2> HIDE DEF g
  <2>4. Head(stack') = g
    BY <1>1, <1>2, <2>3, ReplaceSeq
  <2> QED BY <2>2, <2>4
<1>5. Said(error, pos)
  BY <1>1 DEF DInv, Told
<1>6. /\ f.op = "object" => d.type = IF error.type = Absent THEN f.shape.type ELSE error.type
      /\ f.op # "object" => d.type = error.type
      /\ f.op = "object" /\ f.field > 0 =>
            d.field = IF error.field = Absent THEN f.field ELSE error.field
      /\ ~(f.op = "object" /\ f.field > 0) => d.field = error.field
  BY <1>2, <1>5, AnnotatedSaid
<1>7. f.op = "object" /\ f.field > 0 =>
         /\ f.shape \in Shapes /\ f.shape.kind = "object"
         /\ f.shape.type \in DOMAIN Fields /\ f.shape.type # Absent
         /\ f.field \in FieldIds(Fields, f.shape.type) /\ f.field # Absent
         /\ \E i \in DOMAIN Fields[f.shape.type] :
               /\ Fields[f.shape.type][i].id = f.field
               /\ Fields[f.shape.type][i].shape = Declared(f)
  BY <1>2, OwnField
<1> HIDE DEF d, f, c, g
<1>8. CASE Unnamed(error)
  <2>1. CASE f.op = "object" /\ f.field > 0
    <3>1. d.type = f.shape.type /\ d.field = f.field
      BY <1>6, <1>8, <2>1 DEF Unnamed
    <3>2. Named(error') /\ error'.type # Absent /\ error'.field # Absent
      BY <1>1, <1>7, <2>1, <3>1 DEF Named
    <3> QED BY <1>1, <3>2 DEF HolderKnown, Named
  <2>2. CASE f.op = "object" /\ ~(f.field > 0)
    <3>1. d.type = f.shape.type /\ d.field = Absent
      BY <1>6, <1>8, <2>2 DEF Unnamed
    <3>2. f.shape \in Shapes /\ f.shape.kind = "object" /\ f.op \in ValueOp
      BY <1>2, <2>2 DEF Serves, ValueOp, CodecOf, MapKind
    <3>3. f.shape.type \in DOMAIN Fields /\ f.shape.type \in TypesIn(f.shape)
      BY <3>2, TypesInParts, PartShapes, FieldsAssumption, ShapesAssumption
    <3>4. AwaitsType(Head(stack'), error'.type) /\ error'.type # Absent
      BY <1>1, <1>4, <3>1, <3>2, <3>3, TypesAssumption
    <3> QED BY <1>1, <3>1, <3>4 DEF HolderKnown, AwaitsType
  <2>3. CASE f.op # "object"
    BY <1>1, <1>6, <1>8, <2>3 DEF HolderKnown, Unnamed
  <2> QED BY <2>1, <2>2, <2>3
<1>9. CASE error.type # Absent /\ error.field # Absent /\ Named(error)
  <2>1. d.type = error.type /\ d.field = error.field
    BY <1>6, <1>9
  <2>2. Named(error')
    BY <1>1, <1>9, <2>1 DEF Named
  <2> QED BY <1>1, <1>9, <2>1, <2>2 DEF HolderKnown, Named
<1>10. CASE error.type # Absent /\ error.field = Absent /\ AwaitsType(f, error.type)
  <2>1. CASE f.op = "object"
    <3>1. f.field > 0
      BY <1>10, <2>1 DEF AwaitsType, AwaitsValue, InPlaceOp
    <3>2. d.type = error.type /\ d.field = f.field
      BY <1>6, <1>10, <2>1, <3>1
    <3>3. error.type \in TypesIn(Declared(f))
      BY <1>2, <1>10, AwaitedInDeclared
    <3>4. Named(error') /\ error'.type # Absent /\ error'.field # Absent
      BY <1>1, <1>7, <1>10, <2>1, <3>1, <3>2, <3>3 DEF Named
    <3> QED BY <1>1, <3>4 DEF HolderKnown, Named
  <2>2. CASE f.op # "object"
    <3>1. f.op \in ValueOp
      BY <1>3, <1>10 DEF AwaitsType, AwaitsValue, SkipOp, InPlaceOp
    <3>2. error.type \in TypesIn(f.shape) /\ f.shape \in Shapes
      BY <1>2, <1>10, <2>2, <3>1, DeclaredPart DEF Serves
    <3>3. d.type = error.type /\ d.field = Absent
      BY <1>6, <1>10, <2>2
    <3>4. AwaitsType(Head(stack'), error'.type)
      BY <1>1, <1>4, <3>1, <3>2, <3>3
    <3> QED BY <1>1, <1>10, <3>3, <3>4 DEF HolderKnown, AwaitsType
  <2> QED BY <2>1, <2>2
<1> QED BY <1>1, <1>8, <1>9, <1>10 DEF HolderKnown, f

(* operator>> throws what the calls have told.                             *)
LEMMA EndedHolder == IInv /\ DInv /\ HolderKnown /\ (EndRead \/ Throw) => HolderKnown'
<1> SUFFICES ASSUME IInv, DInv, HolderKnown, EndRead \/ Throw PROVE HolderKnown'
  OBVIOUS
<1>1. CASE EndRead
  BY <1>1 DEF EndRead, HolderKnown
<1>2. CASE Throw
  <2>1. /\ status = "failing" /\ status' = "error" /\ error' = error
        /\ Head(stack).op = "root"
    BY <1>2 DEF Throw
  <2>2. error.field # Absent => Named(error)
    BY <2>1 DEF HolderKnown, Unnamed
  <2> QED BY <2>1, <2>2 DEF HolderKnown, Named
<1> QED BY <1>1, <1>2

(* One step of any kind.                                                   *)
LEMMA HolderStep == IInv /\ DInv /\ HolderKnown /\ [Next]_vars => HolderKnown'
<1> SUFFICES ASSUME IInv, DInv, HolderKnown, [Next]_vars PROVE HolderKnown'
  OBVIOUS
<1>1. CASE BeginRead
  BY <1>1 DEF BeginRead, HolderKnown
<1>2. CASE OpenObject
  BY <1>2, OpenObjectHolder
<1>3. CASE Unwind
  BY <1>3, UnwindHolder
<1>4. CASE EndRead \/ Throw
  BY <1>4, EndedHolder
<1>5. CASE ReadScalar \/ ReadString \/ ReadOptional \/ OpenVector \/ OpenMap \/ ReadBlob
             \/ OpenFixed \/ ReadFieldId \/ SkipHeader \/ SkipFieldId \/ SkipRaw
             \/ ReturnValue \/ ReturnSkip
  BY <1>5, CodecsNameNothing, NamesNothingKeeps
<1>6. CASE UNCHANGED vars
  BY <1>6 DEF vars, HolderKnown, Unnamed, Named, AwaitsType
<1> QED BY <1>1, <1>2, <1>3, <1>4, <1>5, <1>6, Zenon DEF Next, Step

(* Whatever the schema, the bytes and the depth of the failure, the field  *)
(* of a diagnostic is a field of the contract type beside it, or of a type *)
(* that holds that one, directly or in containers.                         *)
THEOREM FieldNamesHolder == Spec => []DiagnosticNamesHolder
<1>1. Init => HolderKnown
  BY DEF Init, HolderKnown
<1>2. (IInv /\ DInv) /\ HolderKnown /\ [Next]_vars => HolderKnown'
  BY HolderStep
<1>3. HolderKnown => DiagnosticNamesHolder
  BY DEF HolderKnown, DiagnosticNamesHolder, Named
<1> QED BY <1>1, <1>2, <1>3, DiagnosticInductive, PTL DEF Spec

-----------------------------------------------------------------------------
(* Sound values.                                                           *)

(* A set of values that are of their types and hold only each other.       *)
Closed(S) ==
    \A x \in S : OneOfItsType(Fields, x) /\ PartNodes(Fields, x, Null) \subseteq S

(* The value is of its type, and so is everything in it, at any depth.     *)
Sound(x) == \E S : x \in S /\ Closed(S)

(* So a sound value is of its type and has sound parts.                    *)
LEMMA SoundParts ==
    ASSUME NEW x, Sound(x)
    PROVE  OneOfItsType(Fields, x) /\ \A y \in PartNodes(Fields, x, Null) : Sound(y)
<1>1. PICK S : x \in S /\ Closed(S)
  BY DEF Sound
<1> QED BY <1>1 DEF Sound, Closed

(* And a value that is of its type and has sound parts is sound.           *)
LEMMA SoundOfParts ==
    ASSUME NEW x, OneOfItsType(Fields, x), \A y \in PartNodes(Fields, x, Null) : Sound(y)
    PROVE  Sound(x)
<1> DEFINE parts == PartNodes(Fields, x, Null)
           Around(y) == CHOOSE S : y \in S /\ Closed(S)
           U == {x} \cup UNION {Around(y) : y \in parts}
<1>1. ASSUME NEW y \in parts PROVE y \in Around(y) /\ Closed(Around(y))
  BY DEF Sound
<1> HIDE DEF Around
<1>2. parts \subseteq U
  BY <1>1
<1>3. ASSUME NEW z \in U
      PROVE  OneOfItsType(Fields, z) /\ PartNodes(Fields, z, Null) \subseteq U
  <2>1. CASE z = x
    BY <1>2, <2>1
  <2>2. CASE z # x
    <3>1. PICK y \in parts : z \in Around(y)
      BY <2>2
    <3>2. OneOfItsType(Fields, z) /\ PartNodes(Fields, z, Null) \subseteq Around(y)
      BY <1>1, <3>1 DEF Closed
    <3> QED BY <3>2
  <2> QED BY <2>1, <2>2
<1> HIDE DEF U, parts
<1>4. Closed(U)
  BY <1>3 DEF Closed
<1> QED BY <1>4, Zenon DEF Sound, U

(* The levels below a value: the first is the value, each the parts of the *)
(* one above.                                                              *)
Levels(level, x, depth) ==
    level = [n \in 0 .. depth |->
                IF n = 0 THEN {x}
                ELSE UNION {PartNodes(Fields, y, Null) : y \in level[n - 1]}]

(* There are levels to any depth.                                          *)
LEMMA LevelsExist ==
    ASSUME NEW x, NEW depth \in Nat
    PROVE  Levels(LevelsBelow(Fields, x, Null, depth), x, depth)
<1> DEFINE Next1(T) == UNION {PartNodes(Fields, y, Null) : y \in T}
           P == {m \in 0 .. depth : \E level : Levels(level, x, m)}
<1>1. 0 \in P
  <2>1. Levels([n \in 0 .. 0 |-> {x}], x, 0)
    BY DEF Levels
  <2> QED BY <2>1
<1>2. ASSUME NEW m \in 1 .. depth, m - 1 \in P PROVE m \in P
  <2>1. PICK level : Levels(level, x, m - 1)
    BY <1>2
  <2> DEFINE longer == [n \in 0 .. m |-> IF n = m THEN Next1(level[m - 1]) ELSE level[n]]
  <2>2. ASSUME NEW n \in 0 .. m
        PROVE  longer[n] = IF n = 0 THEN {x} ELSE Next1(longer[n - 1])
    <3> HIDE DEF Next1
    <3>1. n = 0 => 0 \in 0 .. m - 1 /\ n # m
      OBVIOUS
    <3>2. n # 0 => n - 1 \in 0 .. m - 1 /\ n - 1 \in 0 .. m /\ n - 1 # m
      OBVIOUS
    <3>3. \A k \in 0 .. m - 1 : level[k] = IF k = 0 THEN {x} ELSE Next1(level[k - 1])
      BY <2>1, Zenon DEF Levels, Next1
    <3>4. CASE n = 0
      BY <3>1, <3>3, <3>4
    <3>5. CASE n # 0 /\ n = m
      BY <3>2, <3>5
    <3>6. CASE n # 0 /\ n # m
      <4>1. n \in 0 .. m - 1
        BY <3>6
      <4> QED BY <3>2, <3>3, <3>6, <4>1
    <3> QED BY <3>4, <3>5, <3>6
  <2>3. longer = [n \in 0 .. m |-> longer[n]]
    OBVIOUS
  <2> HIDE DEF longer
  <2>4. Levels(longer, x, m)
    BY <2>2, <2>3 DEF Levels
  <2> QED BY <2>4
<1> HIDE DEF P
<1>3. 0 .. depth \subseteq P
  BY <1>1, <1>2, IntervalInduction, Zenon
<1>4. depth \in P
  BY <1>3
<1>5. \E level : Levels(level, x, depth)
  BY <1>4 DEF P
<1>6. LevelsBelow(Fields, x, Null, depth) = CHOOSE level : Levels(level, x, depth)
  BY Zenon DEF LevelsBelow, Levels
<1> QED BY <1>5, <1>6, Zenon

(* Whatever lies below a sound value is of its type.                       *)
LEMMA SoundIsWellFormed ==
    ASSUME NEW x, Sound(x), NEW depth \in Nat
    PROVE  WellFormed(Fields, x, Null, depth)
<1> DEFINE level == LevelsBelow(Fields, x, Null, depth)
<1>1. Levels(level, x, depth)
  BY LevelsExist
<1> HIDE DEF level
<1>2. PICK S : x \in S /\ Closed(S)
  BY DEF Sound
<1> DEFINE P == {n \in 0 .. depth : level[n] \subseteq S}
<1>3. 0 \in P
  BY <1>1, <1>2 DEF Levels
<1>4. ASSUME NEW n \in 1 .. depth, n - 1 \in P PROVE n \in P
  <2>1. level[n] = UNION {PartNodes(Fields, y, Null) : y \in level[n - 1]}
    BY <1>1 DEF Levels
  <2>2. \A y \in level[n - 1] : PartNodes(Fields, y, Null) \subseteq S
    BY <1>2, <1>4 DEF Closed
  <2> QED BY <2>1, <2>2
<1> HIDE DEF P
<1>5. 0 .. depth \subseteq P
  BY <1>3, <1>4, IntervalInduction, Zenon
<1>6. \A n \in 0 .. depth : \A y \in level[n] : OneOfItsType(Fields, y)
  BY <1>2, <1>5 DEF Closed, P
<1> QED BY <1>6 DEF WellFormed, level

(* A value of which a bounded search finds everything is sound.            *)
LEMMA WellFormedIsSound ==
    ASSUME NEW x, NEW depth \in Nat, WhollyWellFormed(Fields, x, Null, depth)
    PROVE  Sound(x)
<1> DEFINE level == LevelsBelow(Fields, x, Null, depth)
           S == UNION {level[n] : n \in 0 .. depth}
<1>1. Levels(level, x, depth)
  BY LevelsExist
<1>2. /\ \A n \in 0 .. depth : \A y \in level[n] : OneOfItsType(Fields, y)
      /\ \A y \in level[depth] : PartNodes(Fields, y, Null) = {}
  BY DEF WhollyWellFormed, WellFormed
<1> HIDE DEF level
<1>3. ASSUME NEW y \in S
      PROVE  OneOfItsType(Fields, y) /\ PartNodes(Fields, y, Null) \subseteq S
  <2>1. PICK n \in 0 .. depth : y \in level[n]
    OBVIOUS
  <2>2. CASE n = depth
    BY <1>2, <2>1, <2>2
  <2>3. CASE n # depth
    <3>1. n + 1 \in 0 .. depth /\ (n + 1) - 1 = n /\ n + 1 # 0
      BY <2>1, <2>3
    <3>2. level[n + 1] = UNION {PartNodes(Fields, z, Null) : z \in level[n]}
      BY <1>1, <3>1 DEF Levels
    <3> QED BY <1>2, <2>1, <3>1, <3>2
  <2> QED BY <2>2, <2>3
<1>4. x \in S
  <2>1. 0 \in 0 .. depth /\ level[0] = {x}
    BY <1>1 DEF Levels
  <2> QED BY <2>1
<1> QED BY <1>3, <1>4 DEF Sound, Closed

-----------------------------------------------------------------------------
(* Sound values of each kind.                                              *)

(* A function, and nothing else.                                           *)
IsMapping(v) == v = [k \in DOMAIN v |-> v[k]]

(* Sound items, all of one shape; sound keys and what they map to.         *)
ItemsSound(elem, v) == \A i \in DOMAIN v : Sound(Node(elem, v[i], NoLimit))

EntriesSound(shape, v) ==
    \A k \in DOMAIN v : /\ Sound(Node(shape.key, k, NoLimit))
                        /\ Sound(Node(shape.elem, v[k], NoLimit))

(* The kinds that check::max_items bounds.                                 *)
BoundedKind == {"vector"} \cup MapKind

(* Other values are sound whatever the limit beside them.                  *)
LEMMA LimitFree ==
    ASSUME NEW shape, shape.kind \notin BoundedKind, NEW v, NEW k, NEW l,
           Sound(Node(shape, v, k))
    PROVE  Sound(Node(shape, v, l))
<1> DEFINE x == Node(shape, v, k)
           y == Node(shape, v, l)
<1>1. x.shape = shape /\ x.val = v /\ y.shape = shape /\ y.val = v
  BY DEF Node
<1> HIDE DEF x, y
<1>2. OneOfItsType(Fields, x) /\ \A z \in PartNodes(Fields, x, Null) : Sound(z)
  BY SoundParts DEF x
<1>3. PartNodes(Fields, y, Null) = PartNodes(Fields, x, Null)
  BY <1>1, Zenon DEF PartNodes
<1>4. OneOfItsType(Fields, y)
  BY <1>1, <1>2 DEF OneOfItsType, BoundedKind
<1>5. Sound(y)
  BY <1>2, <1>3, <1>4, SoundOfParts
<1> QED BY <1>5 DEF y

(* A value without parts.                                                  *)
LEMMA SoundLeaf ==
    ASSUME NEW shape, NEW v,
           \/ shape.kind = "uint" /\ v \in 0 .. shape.max
           \/ shape.kind = "int" /\ v \in shape.min .. shape.max
           \/ shape.kind = "bool" /\ v \in BOOLEAN
           \/ shape.kind = "float32" /\ v \in [1 .. 4 -> Byte]
           \/ shape.kind = "raw" /\ v \in [1 .. shape.width -> Byte]
           \/ shape.kind = "string" /\ v \in Seq(Byte)
           \/ shape.kind = "bitset" /\ v \in [1 .. shape.size -> {0, 1}],
           NEW l
    PROVE  Sound(Node(shape, v, l))
<1> DEFINE x == Node(shape, v, l)
<1>1. x.shape = shape /\ x.val = v
  BY DEF Node
<1> HIDE DEF x
<1>2. OneOfItsType(Fields, x)
  BY <1>1 DEF OneOfItsType, MapKind
<1>3. PartNodes(Fields, x, Null) = {}
  BY <1>1 DEF PartNodes, MapKind
<1>4. Sound(x)
  BY <1>2, <1>3, SoundOfParts
<1> QED BY <1>4 DEF x

(* A sound string is one.                                                  *)
LEMMA SoundString ==
    ASSUME NEW shape, shape.kind = "string", NEW v, NEW l, Sound(Node(shape, v, l))
    PROVE  v \in Seq(Byte)
<1> DEFINE x == Node(shape, v, l)
<1>1. x.shape = shape /\ x.val = v
  BY DEF Node
<1> HIDE DEF x
<1>2. OneOfItsType(Fields, x)
  BY SoundParts DEF x
<1> QED BY <1>1, <1>2 DEF OneOfItsType, MapKind

(* An optional holds nothing, or a sound value.                            *)
LEMMA SoundOptional ==
    ASSUME NEW shape, shape.kind = "optional", NEW v, NEW l,
           v # Null => Sound(Node(shape.elem, v, NoLimit))
    PROVE  Sound(Node(shape, v, l))
<1> DEFINE x == Node(shape, v, l)
<1>1. x.shape = shape /\ x.val = v
  BY DEF Node
<1> HIDE DEF x
<1>2. OneOfItsType(Fields, x)
  BY <1>1 DEF OneOfItsType, MapKind
<1>3. PartNodes(Fields, x, Null) = IF v = Null THEN {} ELSE {Node(shape.elem, v, NoLimit)}
  BY <1>1 DEF PartNodes, MapKind
<1>4. Sound(x)
  BY <1>2, <1>3, SoundOfParts
<1> QED BY <1>4 DEF x

(* A vector within its limit.                                              *)
LEMMA SoundVector ==
    ASSUME NEW shape, shape.kind = "vector", NEW v, IsSeq(v), NEW l, ~Exceeds(l, Len(v)),
           ItemsSound(shape.elem, v)
    PROVE  Sound(Node(shape, v, l))
<1> DEFINE x == Node(shape, v, l)
<1>1. x.shape = shape /\ x.val = v /\ x.limit = l
  BY DEF Node
<1> HIDE DEF x
<1>2. OneOfItsType(Fields, x)
  BY <1>1 DEF OneOfItsType, MapKind
<1>3. PartNodes(Fields, x, Null) = {Node(shape.elem, v[i], NoLimit) : i \in DOMAIN v}
  BY <1>1 DEF PartNodes, MapKind
<1>4. Sound(x)
  BY <1>2, <1>3, SoundOfParts DEF ItemsSound
<1> QED BY <1>4 DEF x

(* A map within its limit.                                                 *)
LEMMA SoundMap ==
    ASSUME NEW shape, shape.kind \in MapKind, NEW v, IsMapping(v),
           IsFiniteSet(DOMAIN v), NEW l, ~Exceeds(l, Cardinality(DOMAIN v)),
           EntriesSound(shape, v)
    PROVE  Sound(Node(shape, v, l))
<1> DEFINE x == Node(shape, v, l)
<1>1. x.shape = shape /\ x.val = v /\ x.limit = l
  BY DEF Node
<1> HIDE DEF x
<1>2. OneOfItsType(Fields, x)
  BY <1>1 DEF OneOfItsType, MapKind, IsMapping
<1>3. PartNodes(Fields, x, Null) =
         {Node(shape.key, k, NoLimit) : k \in DOMAIN v}
         \cup {Node(shape.elem, v[k], NoLimit) : k \in DOMAIN v}
  BY <1>1 DEF PartNodes, MapKind
<1>4. Sound(x)
  BY <1>2, <1>3, SoundOfParts DEF EntriesSound
<1> QED BY <1>4 DEF x

(* A variant and its alternative.                                          *)
LEMMA SoundVariant ==
    ASSUME NEW shape, shape.kind = "variant", NEW i \in DOMAIN shape.elems, NEW v,
           Sound(Node(shape.elems[i], v, NoLimit)), NEW l
    PROVE  Sound(Node(shape, <<i, v>>, l))
<1> DEFINE w == <<i, v>>
           x == Node(shape, w, l)
<1>1. x.shape = shape /\ x.val = w
  BY DEF Node
<1>2. w[1] = i /\ w[2] = v /\ w = <<w[1], w[2]>>
  OBVIOUS
<1> HIDE DEF x, w
<1>3. OneOfItsType(Fields, x)
  BY <1>1, <1>2 DEF OneOfItsType, MapKind
<1>4. PartNodes(Fields, x, Null) = {Node(shape.elems[w[1]], w[2], NoLimit)}
  BY <1>1 DEF PartNodes, MapKind
<1>5. Sound(x)
  BY <1>2, <1>3, <1>4, SoundOfParts
<1> QED BY <1>5 DEF x, w

(* An array or a span, made of its items.                                  *)
LEMMA SoundBlock ==
    ASSUME NEW shape, shape.kind \in {"array", "span"}, NEW v,
           IsMapping(v), DOMAIN v = 1 .. shape.size,
           ItemsSound(shape.elem, v), NEW l
    PROVE  Sound(Node(shape, v, l))
<1> DEFINE x == Node(shape, v, l)
<1>1. x.shape = shape /\ x.val = v
  BY DEF Node
<1>2. v = [i \in 1 .. shape.size |-> v[i]]
  BY DEF IsMapping
<1> HIDE DEF x
<1>3. OneOfItsType(Fields, x)
  BY <1>1, <1>2 DEF OneOfItsType, MapKind
<1>4. PartNodes(Fields, x, Null) = {Node(shape.elem, v[i], NoLimit) : i \in DOMAIN v}
  BY <1>1, <1>2 DEF PartNodes, MapKind
<1>5. Sound(x)
  BY <1>2, <1>3, <1>4, SoundOfParts DEF ItemsSound
<1> QED BY <1>5 DEF x

(* The items of an array, a span or a tuple, and one of them replaced.     *)
ItemShape(shape, i) == IF shape.kind = "tuple" THEN shape.elems[i] ELSE shape.elem

LEMMA SoundItems ==
    ASSUME NEW shape, shape.kind \in InPlaceOp, NEW v, NEW l, Sound(Node(shape, v, l))
    PROVE  /\ DOMAIN v = IF shape.kind = "tuple" THEN DOMAIN shape.elems ELSE 1 .. shape.size
           /\ \A i \in DOMAIN v :
                 /\ Sound(Node(ItemShape(shape, i), v[i], NoLimit))
                 /\ \A w : Sound(Node(ItemShape(shape, i), w, NoLimit))
                           => Sound(Node(shape, [v EXCEPT ![i] = w], l))
<1> DEFINE x == Node(shape, v, l)
           D == IF shape.kind = "tuple" THEN DOMAIN shape.elems ELSE 1 .. shape.size
<1>1. x.shape = shape /\ x.val = v
  BY DEF Node
<1> HIDE DEF x
<1>2. OneOfItsType(Fields, x) /\ \A z \in PartNodes(Fields, x, Null) : Sound(z)
  BY SoundParts DEF x
<1>3. v = [i \in D |-> v[i]]
  <2>1. CASE shape.kind = "tuple"
    BY <1>1, <1>2, <2>1 DEF OneOfItsType, MapKind
  <2>2. CASE shape.kind \in {"array", "span"}
    BY <1>1, <1>2, <2>2 DEF OneOfItsType, MapKind
  <2> QED BY <2>1, <2>2 DEF InPlaceOp
<1>4. ASSUME NEW u, u = [i \in D |-> u[i]], NEW y, y = Node(shape, u, l)
      PROVE  /\ OneOfItsType(Fields, y)
             /\ PartNodes(Fields, y, Null) = {Node(ItemShape(shape, i), u[i], NoLimit) : i \in D}
  <2>1. y.shape = shape /\ y.val = u /\ DOMAIN u = D
    BY <1>4 DEF Node
  <2>2. CASE shape.kind = "tuple"
    BY <1>4, <2>1, <2>2 DEF OneOfItsType, PartNodes, ItemShape, MapKind
  <2>3. CASE shape.kind \in {"array", "span"}
    <3>1. OneOfItsType(Fields, y)
      BY <1>4, <2>1, <2>3 DEF OneOfItsType, MapKind
    <3>2. PartNodes(Fields, y, Null) = {Node(shape.elem, u[i], NoLimit) : i \in D}
      BY <2>1, <2>3 DEF PartNodes, MapKind
    <3>3. \A i : ItemShape(shape, i) = shape.elem
      BY <2>3 DEF ItemShape
    <3> QED BY <3>1, <3>2, <3>3
  <2> QED BY <2>2, <2>3 DEF InPlaceOp
<1>5. \A i \in D : Sound(Node(ItemShape(shape, i), v[i], NoLimit))
  <2>1. PartNodes(Fields, x, Null) = {Node(ItemShape(shape, i), v[i], NoLimit) : i \in D}
    BY <1>3, <1>4 DEF x
  <2> QED BY <1>2, <2>1
<1>6. DOMAIN v = D
  BY <1>3
<1> HIDE DEF D
<1>7. ASSUME NEW i \in D, NEW w, Sound(Node(ItemShape(shape, i), w, NoLimit))
      PROVE  Sound(Node(shape, [v EXCEPT ![i] = w], l))
  <2> DEFINE u == [v EXCEPT ![i] = w]
             y == Node(shape, u, l)
  <2>1. u = [j \in D |-> u[j]] /\ u[i] = w /\ \A j \in D : j # i => u[j] = v[j]
    BY <1>6
  <2> HIDE DEF u
  <2>2. /\ OneOfItsType(Fields, y)
        /\ PartNodes(Fields, y, Null) = {Node(ItemShape(shape, j), u[j], NoLimit) : j \in D}
    BY <1>4, <2>1
  <2>3. \A j \in D : Sound(Node(ItemShape(shape, j), u[j], NoLimit))
    BY <1>5, <1>7, <2>1
  <2> HIDE DEF y
  <2>4. Sound(y)
    BY <2>2, <2>3, SoundOfParts
  <2> QED BY <2>4 DEF y, u
<1>8. D = IF shape.kind = "tuple" THEN DOMAIN shape.elems ELSE 1 .. shape.size
  BY DEF D
<1> QED BY <1>5, <1>6, <1>7, <1>8

(* The field of an id.                                                     *)
LEMMA DispatchedPlace ==
    ASSUME NEW type \in DOMAIN Fields, NEW id \in FieldIds(Fields, type)
    PROVE  \E i \in DOMAIN Fields[type] :
              /\ DispatchFieldById(Fields, type, id) = Fields[type][i]
              /\ Fields[type][i].id = id
              /\ \A j \in DOMAIN Fields[type] : Fields[type][j].id = id => j = i
<1> DEFINE own == Fields[type]
           k == CHOOSE j \in DOMAIN own : own[j].id = id
<1>1. \E j \in DOMAIN own : own[j].id = id
  BY DEF FieldIds
<1>2. k \in DOMAIN own /\ own[k].id = id
  BY <1>1
<1>3. DispatchFieldById(Fields, type, id) = own[k]
  BY Zenon DEF DispatchFieldById
<1>4. \A i, j \in DOMAIN own : own[i].id = own[j].id => i = j
  BY FieldsAssumption DEF ValidFieldIds
<1> HIDE DEF own, k
<1> QED BY <1>2, <1>3, <1>4 DEF own

(* The fields of an object, and one of them replaced.                      *)
LEMMA SoundFields ==
    ASSUME NEW shape \in Shapes, shape.kind = "object", NEW v, NEW l,
           Sound(Node(shape, v, l)), NEW id \in FieldIds(Fields, shape.type)
    PROVE  LET d == DispatchFieldById(Fields, shape.type, id)
           IN  /\ Sound(Node(d.shape, v[id], d.limit))
               /\ \A w : Sound(Node(d.shape, w, d.limit))
                         => Sound(Node(shape, [v EXCEPT ![id] = w], l))
<1> DEFINE own == Fields[shape.type]
           ids == FieldIds(Fields, shape.type)
           d == DispatchFieldById(Fields, shape.type, id)
           x == Node(shape, v, l)
<1>1. shape.type \in DOMAIN Fields
  BY PartShapes, FieldsAssumption, ShapesAssumption
<1>2. PICK k \in DOMAIN own :
         /\ d = own[k] /\ own[k].id = id
         /\ \A j \in DOMAIN own : own[j].id = id => j = k
  BY <1>1, DispatchedPlace
<1> HIDE DEF d
<1>3. ASSUME NEW u, u = [i \in ids |-> u[i]], NEW y, y = Node(shape, u, l)
      PROVE  /\ OneOfItsType(Fields, y)
             /\ PartNodes(Fields, y, Null) =
                   {Node(own[j].shape, u[own[j].id], own[j].limit) : j \in DOMAIN own}
  <2>1. y.shape = shape /\ y.val = u
    BY <1>3 DEF Node
  <2> QED BY <1>3, <2>1 DEF OneOfItsType, PartNodes, MapKind
<1>4. x.shape = shape /\ x.val = v
  BY DEF Node
<1> HIDE DEF x
<1>5. OneOfItsType(Fields, x) /\ \A z \in PartNodes(Fields, x, Null) : Sound(z)
  BY SoundParts DEF x
<1>6. v = [i \in ids |-> v[i]]
  BY <1>4, <1>5 DEF OneOfItsType, MapKind
<1>7. \A j \in DOMAIN own : Sound(Node(own[j].shape, v[own[j].id], own[j].limit))
  <2>1. PartNodes(Fields, x, Null) =
            {Node(own[j].shape, v[own[j].id], own[j].limit) : j \in DOMAIN own}
    BY <1>3, <1>6 DEF x
  <2> QED BY <1>5, <2>1
<1>8. Sound(Node(d.shape, v[id], d.limit))
  BY <1>2, <1>7
<1>9. ASSUME NEW w, Sound(Node(d.shape, w, d.limit))
      PROVE  Sound(Node(shape, [v EXCEPT ![id] = w], l))
  <2> DEFINE u == [v EXCEPT ![id] = w]
             y == Node(shape, u, l)
  <2>a. DOMAIN v = ids
    BY <1>6
  <2>1. u = [i \in ids |-> u[i]] /\ u[id] = w /\ \A i \in ids : i # id => u[i] = v[i]
    BY <2>a
  <2> HIDE DEF u
  <2>2. /\ OneOfItsType(Fields, y)
        /\ PartNodes(Fields, y, Null) =
              {Node(own[j].shape, u[own[j].id], own[j].limit) : j \in DOMAIN own}
    BY <1>3, <2>1
  <2>3. ASSUME NEW j \in DOMAIN own
        PROVE  Sound(Node(own[j].shape, u[own[j].id], own[j].limit))
    <3>1. own[j].id \in ids
      BY DEF FieldIds
    <3>2. CASE own[j].id = id
      BY <1>2, <1>9, <2>1, <3>2
    <3>3. CASE own[j].id # id
      BY <1>7, <2>1, <3>1, <3>3
    <3> QED BY <3>2, <3>3
  <2> HIDE DEF y
  <2>4. Sound(y)
    BY <2>2, <2>3, SoundOfParts
  <2> QED BY <2>4 DEF y, u
<1> QED BY <1>8, <1>9 DEF d

-----------------------------------------------------------------------------
(* What the codecs of single values make.                                  *)

(* Bytes of the window.                                                    *)
LEMMA RawBytes ==
    ASSUME NEW data \in Seq(Byte), NEW p \in 0 .. Len(data), NEW n \in Nat,
           ReadRaw(data, p, n).ok
    PROVE  ReadRaw(data, p, n).value \in Seq(Byte) /\ Len(ReadRaw(data, p, n).value) = n
<1> DEFINE view == Peek(data, p, n)
<1>1. view \in Seq(Byte)
  BY PeekLength
<1>2. CASE Len(view) = n
  <2>1. ReadRaw(data, p, n) = Got(view, n)
    BY <1>2 DEF ReadRaw
  <2> QED BY <1>1, <1>2, <2>1 DEF Got
<1>3. CASE Len(view) # n
  <2>1. ReadRaw(data, p, n) = Failed("truncated", "raw_bytes", 0)
    BY <1>3 DEF ReadRaw
  <2> QED BY <2>1 DEF Failed
<1> QED BY <1>2, <1>3

(* The bits of a floating point number.                                    *)
LEMMA FloatBytes ==
    ASSUME NEW data \in Seq(Byte), NEW p \in 0 .. Len(data), NEW header, NEW width \in Nat,
           ReadFloat(data, p, header, width).ok
    PROVE  ReadFloat(data, p, header, width).value \in [1 .. width -> Byte]
<1> DEFINE r    == ReadHeader(data, p, {header})
           bits == ReadRaw(data, p + 1, width)
<1>1. Bounded(r, data, p) /\ r.ok \in BOOLEAN /\ (r.ok => r.used = 1)
  BY ReadHeaderBounded
<1>2. r.ok
  BY <1>1 DEF ReadFloat
<1>3. p + 1 \in 0 .. Len(data)
  BY <1>1, <1>2 DEF Bounded
<1>4. ReadFloat(data, p, header, width) = [bits EXCEPT !.used = 1 + @]
  BY <1>2 DEF ReadFloat
<1>5. /\ [bits EXCEPT !.used = 1 + @].ok = bits.ok
      /\ [bits EXCEPT !.used = 1 + @].value = bits.value
  BY DEF ReadRaw, Got, Failed
<1> HIDE DEF bits
<1>6. bits.ok
  BY <1>4, <1>5
<1>7. bits.value \in Seq(Byte) /\ Len(bits.value) = width
  BY <1>3, <1>6, RawBytes DEF bits
<1>8. bits.value \in [1 .. width -> Byte]
  BY <1>7
<1> QED BY <1>4, <1>5, <1>8

(* A signed integer.                                                       *)
LEMMA IntValue ==
    ASSUME NEW data \in Seq(Byte), NEW p \in 0 .. Len(data), ReadInt(data, p).ok
    PROVE  ReadInt(data, p).value \in Int
<1> DEFINE view == Peek(data, p, 9)
<1>1. view \in Seq(Byte)
  BY PeekLength
<1>2. \A code, stage : Failed(code, stage, 0).ok = FALSE
  BY DEF Failed
<1>3. view # <<>> /\ ReadInt(data, p) = DecodeInt(view)
  BY <1>2, Zenon DEF ReadInt
<1> HIDE DEF view
<1>4. Len(view) > 0 /\ view[1] \in Int
  <2>1. Len(view) > 0
    BY <1>1, <1>3
  <2>2. view[1] \in Byte
    BY <1>1, <2>1
  <2>3. view[1] \in Int
    BY <2>2, ByteIsNat
  <2> QED BY <2>1, <2>3
<1>5. \/ DecodeInt(view) = Got(view[1], 1)
      \/ DecodeInt(view) = Got(-(view[1] - SmallNegMin + 1), 1)
      \/ DecodeInt(view) = WholePayload(view, SignedPayload(view))
  BY <1>2, <1>3, Zenon DEF DecodeInt
<1>6. CASE DecodeInt(view) = Got(view[1], 1)
  BY <1>3, <1>4, <1>6 DEF Got
<1>7. CASE DecodeInt(view) = Got(-(view[1] - SmallNegMin + 1), 1)
  BY <1>3, <1>4, <1>7 DEF Got, SmallNegMin
<1>8. CASE DecodeInt(view) = WholePayload(view, SignedPayload(view))
  <2>1. /\ Len(view) >= 1 + PayloadWidth(view[1])
        /\ DecodeInt(view) = SignedPayload(view)
    BY <1>2, <1>3, <1>8, Zenon DEF WholePayload
  <2>2. PayloadValue(view) \in Nat
    BY <1>1, <1>4, <2>1, WholePayloadBounded
  <2>3. SignedPayload(view).value \in Int
    BY <2>2 DEF SignedPayload, Got, Failed
  <2> QED BY <1>3, <2>1, <2>3
<1> QED BY <1>5, <1>6, <1>7, <1>8

(* A scalar is in the range of its type.                                   *)
LEMMA ScalarSound ==
    ASSUME IInv, NEW shape, shape.kind \in ScalarKind, DecodeScalar(shape).ok, NEW l
    PROVE  Sound(Node(shape, DecodeScalar(shape).value, l))
<1> DEFINE w == DecodeWire(shape)
           r == DecodeScalar(shape)
           fits == /\ shape.kind \in {"uint", "int"} => w.value <= shape.max
                   /\ shape.kind = "int" => w.value >= shape.min
<1>1. r = IF w.ok /\ ~fits THEN Failed("invalid_integer", "integer", w.used) ELSE w
  BY Zenon DEF DecodeScalar
<1>2. Failed("invalid_integer", "integer", w.used).ok = FALSE
  BY DEF Failed
<1>3. input \in Seq(Byte) /\ pos \in 0 .. Len(input)
  BY DEF IInv
<1> HIDE DEF r, w, fits
<1>4. r = w /\ w.ok /\ fits
  BY <1>1, <1>2 DEF r
<1>5. CASE shape.kind = "uint"
  <2>1. w = ReadUint(input, pos)
    BY <1>5 DEF DecodeWire, w
  <2>2. w.value \in Nat /\ w.value <= shape.max
    BY <1>3, <1>4, <1>5, <2>1, ReadUintBounded DEF fits
  <2>3. w.value \in 0 .. shape.max
    BY <2>2
  <2> QED BY <1>4, <1>5, <2>3, SoundLeaf DEF r
<1>6. CASE shape.kind = "int"
  <2>1. w = ReadInt(input, pos)
    BY <1>6 DEF DecodeWire, w
  <2>2. w.value \in Int /\ w.value <= shape.max /\ w.value >= shape.min
    BY <1>3, <1>4, <1>6, <2>1, IntValue DEF fits
  <2>3. w.value \in shape.min .. shape.max
    BY <2>2
  <2> QED BY <1>4, <1>6, <2>3, SoundLeaf DEF r
<1>7. CASE shape.kind = "bool"
  <2>1. w = ReadBool(input, pos)
    BY <1>7 DEF DecodeWire, w
  <2>2. w.value \in BOOLEAN
    BY <1>4, <2>1 DEF ReadBool, Got
  <2> QED BY <1>4, <1>7, <2>2, SoundLeaf DEF r
<1>8. CASE shape.kind = "float32"
  <2>1. w = ReadFloat(input, pos, Float32Header, 4)
    BY <1>8 DEF DecodeWire, w
  <2>2. w.value \in [1 .. 4 -> Byte]
    BY <1>3, <1>4, <2>1, FloatBytes
  <2> QED BY <1>4, <1>8, <2>2, SoundLeaf DEF r
<1> QED BY <1>5, <1>6, <1>7, <1>8 DEF ScalarKind

(* A bit is 0 or 1.                                                        *)
LEMMA BitIsBinary == \A byte \in Nat, k \in Nat : Bit(byte, k) \in {0, 1}
BY DEF Bit

(* A bitset or a block of bytes, made of however many bytes there are.     *)
LEMMA BlobSound ==
    ASSUME NEW shape \in Shapes, shape.kind \in FixedKind, IsBlob(shape),
           NEW bytes \in Seq(Byte), NEW l
    PROVE  Sound(Node(shape, BlobValue(shape, bytes), l))
<1>1. shape.kind \in {"bitset", "array", "span"} => shape.size \in Nat
  BY PartShapes, FieldsAssumption, ShapesAssumption
<1>2. ASSUME NEW i \in Nat \ {0} PROVE Digit(bytes, i) \in Byte /\ Digit(bytes, i) \in Nat
  <2>1. i <= Len(bytes) => bytes[i] \in Byte
    OBVIOUS
  <2>2. 0 \in Byte
    BY DEF Byte
  <2>3. Digit(bytes, i) \in Byte
    BY <2>1, <2>2, Zenon DEF Digit
  <2> QED BY <2>3, ByteIsNat
<1>3. CASE shape.kind = "bitset"
  <2> DEFINE v == BlobValue(shape, bytes)
  <2>1. v = [i \in 1 .. shape.size |->
                Bit(Digit(bytes, ((i - 1) \div 8) + 1), (i - 1) % 8)]
    BY <1>3 DEF BlobValue, UnpackedBits
  <2>2. \A i \in 1 .. shape.size :
           Bit(Digit(bytes, ((i - 1) \div 8) + 1), (i - 1) % 8) \in {0, 1}
    <3> SUFFICES ASSUME NEW i \in 1 .. shape.size
                 PROVE  Bit(Digit(bytes, ((i - 1) \div 8) + 1), (i - 1) % 8) \in {0, 1}
      OBVIOUS
    <3>1. ((i - 1) \div 8) + 1 \in Nat \ {0} /\ (i - 1) % 8 \in Nat
      BY <1>1, <1>3
    <3> QED BY <1>2, <3>1, BitIsBinary
  <2> HIDE DEF v
  <2>3. v \in [1 .. shape.size -> {0, 1}]
    BY <2>1, <2>2
  <2> QED BY <1>3, <2>3, SoundLeaf DEF v
<1>4. CASE shape.kind \in {"array", "span"}
  <2> DEFINE v == BlobValue(shape, bytes)
  <2>1. v = [i \in 1 .. shape.size |-> <<Digit(bytes, i)>>]
    BY <1>4 DEF BlobValue
  <2>2. shape.elem.kind = "raw" /\ shape.elem.width = 1
    BY <1>4, PartShapes, FieldsAssumption, ShapesAssumption, RawAssumption DEF IsBlob
  <2>3. ASSUME NEW i \in 1 .. shape.size PROVE Sound(Node(shape.elem, v[i], NoLimit))
    <3>1. i \in Nat \ {0}
      BY <1>1, <1>4
    <3>2. v[i] = <<Digit(bytes, i)>> /\ Digit(bytes, i) \in Byte
      BY <1>2, <2>1, <3>1
    <3>3. v[i] \in [1 .. shape.elem.width -> Byte]
      BY <2>2, <3>2
    <3> QED BY <2>2, <3>3, SoundLeaf
  <2> HIDE DEF v
  <2>4. IsMapping(v) /\ DOMAIN v = 1 .. shape.size
    BY <2>1 DEF IsMapping
  <2>5. Sound(Node(shape, v, l))
    <3>1. ItemsSound(shape.elem, v)
      BY <2>3, <2>4 DEF ItemsSound
    <3> QED BY <1>4, <2>4, <3>1, SoundBlock
  <2> QED BY <2>5 DEF v
<1> QED BY <1>3, <1>4 DEF IsBlob

-----------------------------------------------------------------------------
(* What a call has stored.                                                 *)

(* Codecs whose storage is a value of their type at all times.             *)
WholeOp == {"root", "object", "variant"} \cup InPlaceOp

(* A container has the items, or the keys, that were read into it, and no  *)
(* more of them than its count has been lowered by.                        *)
VectorSound(f) ==
    /\ IsSeq(f.val) /\ Len(f.val) = f.count - f.left
    /\ ItemsSound(f.shape.elem, f.val)

MapSound(f) ==
    /\ IsMapping(f.val) /\ IsFiniteSet(DOMAIN f.val)
    /\ Cardinality(DOMAIN f.val) <= f.count - f.left
    /\ EntriesSound(f.shape, f.val)
    /\ f.key # Null => Sound(Node(f.shape.key, f.key, NoLimit))

HoldsSound(f) ==
    /\ f.op \in WholeOp => Sound(Node(f.shape, f.val, NoLimit))
    /\ f.op \in {"array", "span"} => f.count = f.shape.size
    /\ f.op = "vector" => VectorSound(f)
    /\ f.op = "map" => MapSound(f)

(* The count of a container was held against the limit of its field.       *)
Granted(caller, callee) ==
    callee.op \in {"vector", "map"} => ~Exceeds(Limit(caller), callee.count)

AllSound(s) ==
    \A i \in 1 .. Len(s) : HoldsSound(s[i]) /\ (i > 1 => Granted(s[i], s[i - 1]))

(* A call that goes on with what it has stored.                            *)
LEMMA SameHolds ==
    ASSUME NEW f, HoldsSound(f), NEW g, g.op = f.op, g.shape = f.shape,
           g.count = f.count, g.val = f.val,
           f.op \in {"vector", "map"} => g.left = f.left /\ g.key = f.key
    PROVE  HoldsSound(g)
<1>1. f.op = "vector" => VectorSound(g)
  BY DEF HoldsSound, VectorSound
<1>2. f.op = "map" => MapSound(g)
  BY DEF HoldsSound, MapSound
<1> QED BY <1>1, <1>2 DEF HoldsSound

(* skip_reader stores nothing.                                             *)
LEMMA SkipHolds ==
    ASSUME NEW f, f.op \in SkipOp
    PROVE  HoldsSound(f) /\ \A c : Granted(c, f)
BY DEF HoldsSound, Granted, SkipOp, WholeOp, InPlaceOp

(* The item that a codec of fixed size is at.                              *)
LEMMA ItemPlace ==
    ASSUME NEW f, FrameOK(f), Serves(f), AwaitsValue(f), HoldsSound(f), f.op \in InPlaceOp
    PROVE  /\ f.shape.kind = f.op /\ f.shape.kind \in InPlaceOp
           /\ Item(f) \in DOMAIN f.val
           /\ Declared(f) = ItemShape(f.shape, Item(f))
           /\ Sound(Node(f.shape, f.val, NoLimit))
<1>1. f.shape \in Shapes /\ f.shape.kind = f.op
  BY DEF Serves, ValueOp, InPlaceOp, CodecOf, MapKind
<1>2. Sound(Node(f.shape, f.val, NoLimit))
  BY DEF HoldsSound, WholeOp
<1>3. DOMAIN f.val = IF f.shape.kind = "tuple" THEN DOMAIN f.shape.elems
                     ELSE 1 .. f.shape.size
  BY <1>1, <1>2, SoundItems
<1>4. Item(f) \in 1 .. f.count
  BY DEF FrameOK, AwaitsValue, Item
<1>5. CASE f.op = "tuple"
  <2>1. f.count = Len(f.shape.elems) /\ f.shape.elems \in Seq(Shapes)
    BY <1>1, <1>5, PartShapes, FieldsAssumption, ShapesAssumption DEF Serves
  <2>2. DOMAIN f.shape.elems = 1 .. f.count
    BY <2>1
  <2>3. Declared(f) = f.shape.elems[Item(f)]
    BY <1>5 DEF Declared
  <2> QED BY <1>1, <1>2, <1>3, <1>4, <1>5, <2>2, <2>3 DEF ItemShape
<1>6. CASE f.op \in {"array", "span"}
  <2>1. f.count = f.shape.size
    BY <1>6 DEF HoldsSound
  <2>2. Declared(f) = f.shape.elem
    BY <1>6 DEF Declared
  <2> QED BY <1>1, <1>2, <1>3, <1>4, <1>6, <2>1, <2>2 DEF ItemShape
<1> QED BY <1>5, <1>6 DEF InPlaceOp

(* The limit of the field a codec is at.                                   *)
DeclaredLimit(f) == IF f.op = "object" THEN FieldOf(f).limit ELSE NoLimit

LEMMA LimitType ==
    ASSUME NEW f, Serves(f), AwaitsValue(f)
    PROVE  Limit(f) \in Int /\ (~f.present => Limit(f) = DeclaredLimit(f))
<1>1. NoLimit \in Int
  BY DEF NoLimit
<1>2. CASE f.op = "object" /\ ~f.present
  <2>1. f.shape \in Shapes /\ f.shape.kind = "object"
    BY <1>2 DEF Serves, ValueOp, CodecOf, MapKind
  <2>2. f.field \in FieldIds(Fields, f.shape.type)
    BY <1>2 DEF Serves, AwaitsValue, InPlaceOp, Skipping
  <2>3. f.shape.type \in DOMAIN Fields
    BY <2>1, PartShapes, FieldsAssumption, ShapesAssumption
  <2>4. PICK i \in DOMAIN Fields[f.shape.type] : FieldOf(f) = Fields[f.shape.type][i]
    BY <2>2, <2>3, DispatchedPlace DEF FieldOf
  <2>5. FieldOf(f).limit \in Int
    BY <2>3, <2>4, LimitsAssumption
  <2> QED BY <1>2, <2>5 DEF Limit, DeclaredLimit
<1>3. CASE ~(f.op = "object" /\ ~f.present)
  BY <1>1, <1>3 DEF Limit, DeclaredLimit
<1> QED BY <1>2, <1>3

(* A sound value for what a call awaits is one for what it has declared:   *)
(* behind an optional, it is the value that the optional holds.            *)
LEMMA DeclaredSound ==
    ASSUME NEW f, FrameOK(f), Serves(f), AwaitsValue(f),
           NEW v, Sound(Node(Awaited(f), v, Limit(f)))
    PROVE  Sound(Node(Declared(f), v, DeclaredLimit(f)))
<1>1. CASE f.present
  <2>1. Awaited(f) = Declared(f).elem /\ Declared(f).kind = "optional"
    BY <1>1 DEF Awaited, Serves
  <2>2. Limit(f) = NoLimit
    BY <1>1 DEF Limit
  <2> QED BY <2>1, <2>2, SoundOptional
<1>2. CASE ~f.present
  BY <1>2, LimitType DEF Awaited
<1> QED BY <1>1, <1>2

(* The value that an object holds for the field it is at.                  *)
LEMMA FieldPlace ==
    ASSUME NEW f, Serves(f), AwaitsValue(f), HoldsSound(f), f.op = "object"
    PROVE  /\ Sound(Node(Declared(f), f.val[f.field], DeclaredLimit(f)))
           /\ \A w : Sound(Node(Declared(f), w, DeclaredLimit(f)))
                     => Sound(Node(f.shape, [f.val EXCEPT ![f.field] = w], NoLimit))
<1>1. f.shape \in Shapes /\ f.shape.kind = "object"
  BY DEF Serves, ValueOp, CodecOf, MapKind
<1>2. f.field \in FieldIds(Fields, f.shape.type)
  BY DEF Serves, AwaitsValue, InPlaceOp, Skipping
<1>3. Sound(Node(f.shape, f.val, NoLimit))
  BY DEF HoldsSound, WholeOp
<1>4. /\ Declared(f) = DispatchFieldById(Fields, f.shape.type, f.field).shape
      /\ DeclaredLimit(f) = DispatchFieldById(Fields, f.shape.type, f.field).limit
  BY DEF Declared, DeclaredLimit, FieldOf
<1> QED BY <1>1, <1>2, <1>3, <1>4, SoundFields

(* What a codec is given to read into: a value of the type it serves.      *)
LEMMA StorageSound ==
    ASSUME NEW f, FrameOK(f), Serves(f), AwaitsValue(f), HoldsSound(f),
           Awaited(f) \in Shapes, Awaited(f).kind \notin BoundedKind
    PROVE  Sound(Node(Awaited(f), Storage(f), NoLimit))
<1> DEFINE shape == Awaited(f)
<1>1. CASE ~InPlace(f)
  <2> DEFINE x == Node(shape, Default(Fields, Shapes, shape, Null), NoLimit)
  <2>1. Storage(f) = Default(Fields, Shapes, shape, Null)
    BY <1>1 DEF Storage
  <2>2. WhollyWellFormed(Fields, x, Null, MaxNesting)
    BY DefaultAssumption
  <2> HIDE DEF x
  <2>3. Sound(x)
    BY <2>2, NestingAssumption, WellFormedIsSound
  <2> QED BY <2>1, <2>3 DEF x
<1>2. CASE InPlace(f)
  <2>1. shape = Declared(f)
    BY <1>2 DEF InPlace, Awaited
  <2>2. CASE f.op = "root"
    <3>1. Storage(f) = f.val /\ shape = f.shape
      BY <1>2, <2>1, <2>2 DEF Storage, Declared
    <3> QED BY <2>2, <3>1 DEF HoldsSound, WholeOp
  <2>3. CASE f.op = "object"
    <3>1. Storage(f) = f.val[f.field]
      BY <1>2, <2>3 DEF Storage
    <3>2. Sound(Node(shape, f.val[f.field], DeclaredLimit(f)))
      BY <2>1, <2>3, FieldPlace
    <3> HIDE DEF shape
    <3> QED BY <3>1, <3>2, LimitFree DEF shape
  <2>4. CASE f.op \in InPlaceOp
    <3>1. Storage(f) = f.val[Item(f)]
      BY <1>2, <2>4 DEF Storage, InPlaceOp
    <3>2. Sound(Node(ItemShape(f.shape, Item(f)), f.val[Item(f)], NoLimit))
      BY <2>4, ItemPlace, SoundItems
    <3> QED BY <2>1, <2>4, <3>1, <3>2, ItemPlace
  <2> QED BY <1>2, <2>2, <2>3, <2>4 DEF InPlace
<1> QED BY <1>1, <1>2

(* What a failed codec leaves where it was reading into.                   *)
LEMMA SpilledSound ==
    ASSUME NEW f, FrameOK(f), Serves(f), AwaitsValue(f), HoldsSound(f),
           NEW v, Sound(Node(Awaited(f), v, Limit(f)))
    PROVE  HoldsSound(Spilled(f, v)) /\ Spilled(f, v).count = f.count
<1> DEFINE g == Spilled(f, v)
<1>1. CASE ~InPlace(f)
  BY <1>1 DEF Spilled
<1>2. CASE InPlace(f)
  <2>1. Sound(Node(Declared(f), v, DeclaredLimit(f)))
    BY DeclaredSound
  <2>2. ASSUME NEW w, g = [f EXCEPT !.val = w], Sound(Node(f.shape, w, NoLimit)),
               f.op \in {"root", "object"} \cup InPlaceOp
        PROVE  HoldsSound(g) /\ g.count = f.count
    <3>1. g.op = f.op /\ g.shape = f.shape /\ g.count = f.count /\ g.val = w
      BY <2>2 DEF FrameOK
    <3> HIDE DEF g
    <3> QED BY <2>2, <3>1 DEF HoldsSound, InPlaceOp
  <2>3. CASE f.op = "root"
    <3>1. g = [f EXCEPT !.val = v] /\ Declared(f) = f.shape /\ DeclaredLimit(f) = NoLimit
      BY <1>2, <2>3 DEF Spilled, Declared, DeclaredLimit
    <3> QED BY <2>1, <2>2, <2>3, <3>1
  <2>4. CASE f.op = "object"
    <3> DEFINE w == [f.val EXCEPT ![f.field] = v]
    <3>1. g = [f EXCEPT !.val = w]
      BY <1>2, <2>4 DEF Spilled
    <3>2. Sound(Node(f.shape, w, NoLimit))
      BY <2>1, <2>4, FieldPlace
    <3> HIDE DEF w
    <3> QED BY <2>2, <2>4, <3>1, <3>2
  <2>5. CASE f.op \in InPlaceOp
    <3> DEFINE w == [f.val EXCEPT ![Item(f)] = v]
    <3>1. g = [f EXCEPT !.val = w]
      BY <1>2, <2>5 DEF Spilled, InPlaceOp
    <3>2. DeclaredLimit(f) = NoLimit
      BY <2>5 DEF DeclaredLimit, InPlaceOp
    <3>3. Sound(Node(f.shape, w, NoLimit))
      BY <2>1, <2>5, <3>2, ItemPlace, SoundItems
    <3> HIDE DEF w
    <3> QED BY <2>2, <2>5, <3>1, <3>3
  <2> QED BY <1>2, <2>3, <2>4, <2>5 DEF InPlace
<1> QED BY <1>1, <1>2

(* What a delivered part changes in a call, codec by codec.                *)
Takes(f, v, g) ==
    /\ f.op = "root" => g.val = v
    /\ f.op = "object" => g.val = [f.val EXCEPT ![f.field] = v]
    /\ f.op \in InPlaceOp => g.val = [f.val EXCEPT ![Item(f)] = v]
    /\ f.op = "vector" => g.val = Append(f.val, v) /\ g.left = f.left - 1
    /\ f.op = "variant" => g.val = IF f.key = Null THEN f.val ELSE <<f.key + 1, v>>
    /\ f.op = "map" /\ f.key = Null => g.val = f.val /\ g.left = f.left /\ g.key = v
    /\ f.op = "map" /\ f.key # Null =>
          /\ g.val = [k \in DOMAIN f.val \cup {f.key} |-> IF k = f.key THEN v ELSE f.val[k]]
          /\ g.left = f.left - 1 /\ g.key = Null

LEMMA DeliveredTakes ==
    ASSUME NEW f, FrameOK(f), AwaitsValue(f), NEW v
    PROVE  Takes(f, v, Delivered(f, v))
<1> DEFINE g == [f EXCEPT !.present = FALSE]
           d == Delivered(f, v)
           n == f.left - 1
<1>a. FrameOK(g) /\ g.op = f.op /\ g.val = f.val /\ g.left = f.left /\ g.key = f.key
  BY DEF FrameOK
<1> HIDE DEF g, n
<1>1. /\ g.op = f.op /\ g.val = f.val /\ g.left = f.left /\ g.key = f.key
      /\ g = [op |-> g.op, shape |-> g.shape, count |-> g.count, left |-> g.left,
              field |-> g.field, key |-> g.key, present |-> g.present, val |-> g.val]
  BY <1>a DEF FrameOK
<1>3. CASE f.op = "root"
  <2>1. d = [g EXCEPT !.val = v, !.left = 0]
    BY <1>3 DEF Delivered, g, InPlaceOp
  <2> HIDE DEF d
  <2>2. d.val = v
    BY <1>1, <2>1
  <2> QED BY <1>3, <2>2 DEF Takes, d, InPlaceOp
<1>4. CASE f.op = "object"
  <2> DEFINE w == [f.val EXCEPT ![f.field] = v]
  <2>1. d = [g EXCEPT !.val = w, !.field = 0, !.left = n]
    <3>1. d = [g EXCEPT !.val[f.field] = v, !.field = 0, !.left = @ - 1]
      BY <1>4 DEF Delivered, g, InPlaceOp
    <3> QED BY <1>1, <3>1 DEF n
  <2> HIDE DEF d, w
  <2>2. d.val = w
    BY <1>1, <2>1
  <2> QED BY <1>4, <2>2 DEF Takes, d, w, InPlaceOp
<1>5. CASE f.op = "vector"
  <2>1. d = [g EXCEPT !.val = Append(f.val, v), !.left = n]
    <3>1. d = [g EXCEPT !.val = Append(@, v), !.left = @ - 1]
      BY <1>5 DEF Delivered, g, InPlaceOp
    <3> QED BY <1>1, <3>1 DEF n
  <2> HIDE DEF d
  <2>2. d.val = Append(f.val, v) /\ d.left = n
    BY <1>1, <2>1
  <2> QED BY <1>5, <2>2 DEF Takes, d, n, InPlaceOp
<1>6. CASE f.op \in InPlaceOp
  <2> DEFINE w == [f.val EXCEPT ![Item(f)] = v]
  <2>1. /\ f.op # "root" /\ f.op # "object" /\ f.op # "vector"
        /\ f.op # "variant" /\ f.op # "map" /\ f.op \in InPlaceOp
    BY <1>6 DEF InPlaceOp
  <2>2. d = [g EXCEPT !.val = w, !.left = n]
    <3>1. d = [g EXCEPT !.val[Item(f)] = v, !.left = @ - 1]
      BY <2>1, Zenon DEF Delivered, g
    <3> QED BY <1>1, <3>1 DEF n
  <2> HIDE DEF d, w
  <2>3. d.val = w
    BY <1>1, <2>2
  <2> QED BY <2>1, <2>3 DEF Takes, d, w
<1>7. CASE f.op = "variant" /\ f.key = Null
  <2>1. d = [g EXCEPT !.key = v, !.left = n]
    <3>1. d = [g EXCEPT !.key = v, !.left = @ - 1]
      BY <1>7 DEF Delivered, g, InPlaceOp
    <3> QED BY <1>1, <3>1 DEF n
  <2> HIDE DEF d
  <2>2. d.val = f.val
    BY <1>1, <2>1
  <2> QED BY <1>7, <2>2 DEF Takes, d, InPlaceOp
<1>8. CASE f.op = "variant" /\ f.key # Null
  <2> DEFINE w == <<f.key + 1, v>>
  <2>1. d = [g EXCEPT !.val = w, !.left = n]
    <3>1. d = [g EXCEPT !.val = w, !.left = @ - 1]
      BY <1>8 DEF Delivered, g, InPlaceOp
    <3> QED BY <1>1, <3>1 DEF n
  <2> HIDE DEF d, w
  <2>2. d.val = w
    BY <1>1, <2>1
  <2> QED BY <1>8, <2>2 DEF Takes, d, w, InPlaceOp
<1>9. CASE f.op = "map" /\ f.key = Null
  <2>1. d = [g EXCEPT !.key = v]
    BY <1>9 DEF Delivered, g, InPlaceOp
  <2> HIDE DEF d
  <2>2. d.val = f.val /\ d.left = f.left /\ d.key = v
    BY <1>1, <2>1
  <2> QED BY <1>9, <2>2 DEF Takes, d, InPlaceOp
<1>10. CASE f.op = "map" /\ f.key # Null
  <2> DEFINE w == [k \in DOMAIN f.val \cup {f.key} |-> IF k = f.key THEN v ELSE f.val[k]]
  <2>1. d = [g EXCEPT !.key = Null, !.left = n, !.val = w]
    <3>1. d = [g EXCEPT !.key = Null, !.left = @ - 1,
                 !.val = [k \in DOMAIN @ \cup {f.key} |-> IF k = f.key THEN v ELSE @[k]]]
      BY <1>10 DEF Delivered, g, InPlaceOp
    <3> QED BY <1>1, <3>1 DEF n
  <2> HIDE DEF d, w
  <2>2. d.val = w /\ d.left = n /\ d.key = Null
    BY <1>1, <2>1
  <2> QED BY <1>10, <2>2 DEF Takes, d, n, w, InPlaceOp
<1>11. f.op \in {"root", "object", "vector", "map", "variant"} \cup InPlaceOp
  BY DEF AwaitsValue
<1> QED BY <1>3, <1>4, <1>5, <1>6, <1>7, <1>8, <1>9, <1>10, <1>11

(* A map with one more key, or a key mapped anew.                          *)
LEMMA GrownMap ==
    ASSUME NEW shape, NEW m, IsMapping(m), IsFiniteSet(DOMAIN m), EntriesSound(shape, m),
           NEW key, Sound(Node(shape.key, key, NoLimit)),
           NEW v, Sound(Node(shape.elem, v, NoLimit))
    PROVE  LET w == [k \in DOMAIN m \cup {key} |-> IF k = key THEN v ELSE m[k]]
           IN  /\ IsMapping(w) /\ IsFiniteSet(DOMAIN w) /\ EntriesSound(shape, w)
               /\ Cardinality(DOMAIN w) \in Nat /\ Cardinality(DOMAIN m) \in Nat
               /\ Cardinality(DOMAIN w) <= Cardinality(DOMAIN m) + 1
<1> DEFINE w == [k \in DOMAIN m \cup {key} |-> IF k = key THEN v ELSE m[k]]
<1>1. /\ DOMAIN w = DOMAIN m \cup {key} /\ w[key] = v
      /\ \A k \in DOMAIN m : k # key => w[k] = m[k]
      /\ IsMapping(w)
  BY DEF IsMapping
<1> HIDE DEF w
<1>2. EntriesSound(shape, w)
  BY <1>1 DEF EntriesSound
<1>3. /\ Cardinality(DOMAIN m) \in Nat
      /\ IsFiniteSet(DOMAIN m \cup {key})
      /\ Cardinality(DOMAIN m \cup {key}) \in
            {Cardinality(DOMAIN m), Cardinality(DOMAIN m) + 1}
  BY FS_CardinalityType, FS_AddElement
<1>4. Cardinality(DOMAIN w) \in Nat /\ Cardinality(DOMAIN w) <= Cardinality(DOMAIN m) + 1
  BY <1>1, <1>3
<1> QED BY <1>1, <1>2, <1>3, <1>4 DEF w

(* A vector with one more item.                                            *)
LEMMA GrownVector ==
    ASSUME NEW elem, NEW s, IsSeq(s), ItemsSound(elem, s), NEW v, Sound(Node(elem, v, NoLimit))
    PROVE  LET t == Append(s, v)
           IN  IsSeq(t) /\ Len(t) = Len(s) + 1 /\ Len(s) \in Nat /\ ItemsSound(elem, t)
<1> DEFINE S == {s[i] : i \in DOMAIN s} \cup {v}
           t == Append(s, v)
<1>1. s \in Seq(S) /\ v \in S
  BY DEF IsSeq
<1> HIDE DEF S
<1>2. /\ t \in Seq(S) /\ Len(t) = Len(s) + 1 /\ Len(s) \in Nat
      /\ DOMAIN s = 1 .. Len(s) /\ DOMAIN t = 1 .. Len(s) + 1
      /\ t[Len(s) + 1] = v /\ \A i \in 1 .. Len(s) : t[i] = s[i]
  BY <1>1
<1> HIDE DEF t
<1>3. IsSeq(t)
  <2>1. t \in [1 .. Len(t) -> {t[i] : i \in DOMAIN t}]
    BY <1>2
  <2> QED BY <1>2, <2>1 DEF IsSeq
<1>4. ASSUME NEW i \in DOMAIN t PROVE Sound(Node(elem, t[i], NoLimit))
  <2>1. i \in 1 .. Len(s) \/ i = Len(s) + 1
    BY <1>2
  <2> QED BY <1>2, <2>1 DEF ItemsSound
<1> QED BY <1>2, <1>3, <1>4 DEF ItemsSound, t

(* A part of a value is stored.                                            *)
LEMMA DeliveredHolds ==
    ASSUME NEW f, FrameOK(f), Serves(f), AwaitsValue(f), HoldsSound(f),
           NEW v, Sound(Node(Awaited(f), v, Limit(f))), ~NoAlternative(f, v),
           NEW g, g.op = f.op, g.shape = f.shape, g.count = f.count, Takes(f, v, g)
    PROVE  HoldsSound(g)
<1>1. g.op = f.op /\ g.shape = f.shape /\ g.count = f.count
  OBVIOUS
<1>3. Sound(Node(Declared(f), v, DeclaredLimit(f)))
  BY DeclaredSound
<1>4. f.left \in Nat /\ f.count \in Nat
  BY DEF FrameOK
<1>5. f.op \in {"array", "span"} => g.count = g.shape.size
  BY <1>1 DEF HoldsSound
<1>6. CASE f.op = "root"
  <2>1. g.val = v /\ Declared(f) = f.shape /\ DeclaredLimit(f) = NoLimit
    BY <1>6 DEF Takes, Declared, DeclaredLimit
  <2>2. Sound(Node(g.shape, g.val, NoLimit))
    BY <1>1, <1>3, <2>1
  <2> QED BY <1>1, <1>6, <2>2 DEF HoldsSound, InPlaceOp
<1>7. CASE f.op = "object"
  <2>1. Sound(Node(f.shape, [f.val EXCEPT ![f.field] = v], NoLimit))
    BY <1>3, <1>7, FieldPlace
  <2>2. g.val = [f.val EXCEPT ![f.field] = v]
    BY <1>7, Zenon DEF Takes
  <2> QED BY <1>1, <1>7, <2>1, <2>2 DEF HoldsSound, InPlaceOp
<1>8. CASE f.op \in InPlaceOp
  <2>1. DeclaredLimit(f) = NoLimit
    BY <1>8 DEF DeclaredLimit, InPlaceOp
  <2>2. Sound(Node(f.shape, [f.val EXCEPT ![Item(f)] = v], NoLimit))
    BY <1>3, <1>8, <2>1, ItemPlace, SoundItems
  <2>3. g.val = [f.val EXCEPT ![Item(f)] = v]
    BY <1>8, Zenon DEF Takes
  <2>4. Sound(Node(g.shape, g.val, NoLimit))
    BY <1>1, <2>2, <2>3
  <2> QED BY <1>1, <1>5, <1>8, <2>4 DEF HoldsSound, InPlaceOp
<1>9. CASE f.op = "variant" /\ f.key = Null
  <2>1. g.val = f.val
    BY <1>9, Zenon DEF Takes
  <2>2. Sound(Node(g.shape, g.val, NoLimit))
    BY <1>1, <1>9, <2>1 DEF HoldsSound, WholeOp
  <2> QED BY <1>1, <1>9, <2>2 DEF HoldsSound, InPlaceOp
<1>10. CASE f.op = "variant" /\ f.key # Null
  <2> DEFINE i == f.key + 1
  <2>1. f.shape \in Shapes /\ f.shape.kind = "variant"
    BY <1>10 DEF Serves, ValueOp, CodecOf, MapKind
  <2>2. f.key \in 0 .. Len(f.shape.elems) - 1
    BY <1>10 DEF Serves
  <2>3. f.shape.elems \in Seq(Shapes)
    BY <2>1, PartShapes, FieldsAssumption, ShapesAssumption
  <2>4. i \in DOMAIN f.shape.elems
    BY <2>2, <2>3
  <2>5. Declared(f) = f.shape.elems[i] /\ DeclaredLimit(f) = NoLimit
    BY <1>10 DEF Declared, DeclaredLimit
  <2>6. g.val = <<i, v>>
    BY <1>10, Zenon DEF Takes
  <2> HIDE DEF i
  <2>7. Sound(Node(f.shape, <<i, v>>, NoLimit))
    BY <1>3, <2>1, <2>4, <2>5, SoundVariant
  <2> QED BY <1>1, <1>10, <2>6, <2>7 DEF HoldsSound, InPlaceOp
<1>11. CASE f.op = "vector"
  <2>1. /\ IsSeq(f.val) /\ Len(f.val) = f.count - f.left
        /\ ItemsSound(f.shape.elem, f.val)
    BY <1>11 DEF HoldsSound, VectorSound
  <2>2. Sound(Node(f.shape.elem, v, NoLimit))
    BY <1>3, <1>11 DEF Declared, DeclaredLimit, InPlaceOp
  <2> DEFINE t == Append(f.val, v)
  <2>3. /\ IsSeq(t) /\ Len(t) = Len(f.val) + 1 /\ Len(f.val) \in Nat
        /\ ItemsSound(f.shape.elem, t)
    BY <2>1, <2>2, GrownVector
  <2>4. g.val = t /\ g.left = f.left - 1
    BY <1>11, Zenon DEF Takes
  <2> HIDE DEF t
  <2>5. Len(g.val) = g.count - g.left
    BY <1>1, <1>4, <2>1, <2>3, <2>4
  <2>6. VectorSound(g)
    BY <1>1, <2>3, <2>4, <2>5 DEF VectorSound
  <2> QED BY <1>1, <1>11, <2>6 DEF HoldsSound, WholeOp, InPlaceOp
<1>12. CASE f.op = "map" /\ f.key = Null
  <2>1. Sound(Node(f.shape.key, v, NoLimit))
    BY <1>3, <1>12 DEF Declared, DeclaredLimit
  <2>2. g.val = f.val /\ g.left = f.left /\ g.key = v
    BY <1>12, Zenon DEF Takes
  <2>3. MapSound(f)
    BY <1>12 DEF HoldsSound
  <2>4. MapSound(g)
    BY <1>1, <2>1, <2>2, <2>3 DEF MapSound
  <2> QED BY <1>1, <1>12, <2>4 DEF HoldsSound, WholeOp, InPlaceOp
<1>13. CASE f.op = "map" /\ f.key # Null
  <2>1. /\ IsMapping(f.val) /\ IsFiniteSet(DOMAIN f.val)
        /\ Cardinality(DOMAIN f.val) <= f.count - f.left
        /\ EntriesSound(f.shape, f.val)
        /\ Sound(Node(f.shape.key, f.key, NoLimit))
    BY <1>13 DEF HoldsSound, MapSound
  <2>2. Sound(Node(f.shape.elem, v, NoLimit))
    BY <1>3, <1>13 DEF Declared, DeclaredLimit, InPlaceOp
  <2> DEFINE w == [k \in DOMAIN f.val \cup {f.key} |-> IF k = f.key THEN v ELSE f.val[k]]
  <2>3. /\ IsMapping(w) /\ IsFiniteSet(DOMAIN w) /\ EntriesSound(f.shape, w)
        /\ Cardinality(DOMAIN w) \in Nat /\ Cardinality(DOMAIN f.val) \in Nat
        /\ Cardinality(DOMAIN w) <= Cardinality(DOMAIN f.val) + 1
    BY <2>1, <2>2, GrownMap
  <2>4. g.val = w /\ g.left = f.left - 1 /\ g.key = Null
    BY <1>13, Zenon DEF Takes
  <2> HIDE DEF w
  <2>5. Cardinality(DOMAIN w) <= g.count - g.left
    BY <1>1, <1>4, <2>1, <2>3, <2>4
  <2>6. MapSound(g)
    BY <1>1, <2>3, <2>4, <2>5 DEF MapSound
  <2> QED BY <1>1, <1>13, <2>6 DEF HoldsSound, WholeOp, InPlaceOp
<1>14. f.op \in {"root", "object", "vector", "map", "variant"} \cup InPlaceOp
  BY DEF AwaitsValue
<1> QED BY <1>1, <1>6, <1>7, <1>8, <1>9, <1>10, <1>11, <1>12, <1>13, <1>14

LEMMA DeliveredSound ==
    ASSUME NEW f, FrameOK(f), Serves(f), AwaitsValue(f), HoldsSound(f),
           NEW v, Sound(Node(Awaited(f), v, Limit(f))), ~NoAlternative(f, v)
    PROVE  LET g == Delivered(f, v) IN HoldsSound(g) /\ g.op = f.op /\ g.count = f.count
<1> DEFINE g == Delivered(f, v)
<1>1. g.op = f.op /\ g.shape = f.shape /\ g.count = f.count
  BY DeliveredParts
<1>2. Takes(f, v, g)
  BY DeliveredTakes
<1> HIDE DEF g
<1>3. HoldsSound(g)
  BY <1>1, <1>2, DeliveredHolds
<1> QED BY <1>1, <1>3 DEF g

(* What a call has read, finished or not, is a value for its caller.       *)
LEMMA CalleeSound ==
    ASSUME NEW f, FrameOK(f), Serves(f), HoldsSound(f), f.op \in ValueOp,
           NEW c, Serves(c), Summons(c, f), Granted(c, f)
    PROVE  AwaitsValue(c) /\ Sound(Node(Awaited(c), f.val, Limit(c)))
<1>1. AwaitsValue(c) /\ f.shape = Awaited(c) /\ f.op = CodecOf(f.shape)
  BY DEF Summons, Serves
<1>2. Limit(c) \in Int
  BY <1>1, LimitType
<1>3. f.left \in Nat /\ f.count \in Nat
  BY DEF FrameOK
<1>4. CASE f.op = "vector"
  <2>1. f.shape.kind = "vector"
    BY <1>1, <1>4 DEF CodecOf
  <2>2. IsSeq(f.val) /\ Len(f.val) = f.count - f.left /\ ItemsSound(f.shape.elem, f.val)
    BY <1>4 DEF HoldsSound, VectorSound
  <2>3. ~Exceeds(Limit(c), f.count)
    BY <1>4 DEF Granted
  <2>4. ~Exceeds(Limit(c), Len(f.val))
    BY <1>2, <1>3, <2>2, <2>3 DEF Exceeds
  <2> QED BY <1>1, <2>1, <2>2, <2>4, SoundVector
<1>5. CASE f.op = "map"
  <2>1. f.shape.kind \in MapKind
    BY <1>1, <1>5 DEF CodecOf, MapKind
  <2>2. /\ IsMapping(f.val) /\ IsFiniteSet(DOMAIN f.val)
        /\ Cardinality(DOMAIN f.val) <= f.count - f.left
        /\ EntriesSound(f.shape, f.val)
    BY <1>5 DEF HoldsSound, MapSound
  <2>3. ~Exceeds(Limit(c), f.count) /\ Cardinality(DOMAIN f.val) \in Nat
    BY <1>5, <2>2, FS_CardinalityType DEF Granted
  <2>4. ~Exceeds(Limit(c), Cardinality(DOMAIN f.val))
    BY <1>2, <1>3, <2>2, <2>3 DEF Exceeds
  <2> QED BY <1>1, <2>1, <2>2, <2>4, SoundMap
<1>6. CASE f.op \in {"object", "variant"} \cup InPlaceOp
  <2>1. f.shape.kind \notin BoundedKind
    BY <1>1, <1>6 DEF CodecOf, MapKind, BoundedKind, InPlaceOp
  <2>2. Sound(Node(f.shape, f.val, NoLimit))
    BY <1>6 DEF HoldsSound, WholeOp
  <2> QED BY <1>1, <2>1, <2>2, LimitFree
<1> QED BY <1>4, <1>5, <1>6 DEF ValueOp

(* The storage of a string is resized before its bytes are there.          *)
LEMMA ResizedBytes ==
    ASSUME NEW s \in Seq(Byte), NEW n \in Nat
    PROVE  Resized(s, n) \in Seq(Byte)
<1>1. \A i \in 1 .. n : (IF i <= Len(s) THEN s[i] ELSE 0) \in Byte
  <2>1. 0 \in Byte
    BY DEF Byte
  <2> QED BY <2>1
<1> DEFINE t == [i \in 1 .. n |-> IF i <= Len(s) THEN s[i] ELSE 0]
<1>2. t \in [1 .. n -> Byte]
  BY <1>1
<1> HIDE DEF t
<1>3. t \in Seq(Byte)
  BY <1>2
<1> QED BY <1>3 DEF t, Resized

(* An array or a span is only opened for the items that it has.            *)
LEMMA FixedSizeOfBlock ==
    ASSUME NEW f, Awaited(f).kind \in {"array", "span"}, ~IsBlob(Awaited(f)), FixedSize(f).ok
    PROVE  FixedSize(f).value = Awaited(f).size
<1> DEFINE shape == Awaited(f)
           size  == ReadSizeHeader(input, pos, IF IsBlob(shape) THEN "bytes" ELSE "array")
<1>1. \/ FixedSize(f) = size /\ SizeFits(shape, size.value)
      \/ FixedSize(f) = size /\ ~size.ok
      \/ \E code, stage, n : FixedSize(f) = Failed(code, stage, n)
  BY Zenon DEF FixedSize
<1>2. \A code, stage, n : Failed(code, stage, n).ok = FALSE
  BY DEF Failed
<1> HIDE DEF size
<1>3. FixedSize(f) = size /\ SizeFits(shape, size.value)
  BY <1>1, <1>2
<1>4. Extent(shape) = shape.size
  BY DEF Extent
<1> QED BY <1>3, <1>4 DEF SizeFits

-----------------------------------------------------------------------------
(* The call stack, and what its calls have stored.                         *)

(* A call made by the innermost one.                                       *)
LEMMA PushSound ==
    ASSUME NEW s, IsSeq(s), s # <<>>, AllSound(s),
           NEW f, HoldsSound(f), Granted(Head(s), f)
    PROVE  AllSound(<<f>> \o s)
<1> DEFINE t == <<f>> \o s
<1>1. /\ Len(t) = Len(s) + 1 /\ t[1] = f
      /\ \A i \in 1 .. Len(s) : t[i + 1] = s[i]
      /\ Len(s) \in Nat \ {0} /\ Head(s) = s[1]
  BY PushSeq, PopSeq
<1> HIDE DEF t
<1>2. ASSUME NEW i \in 1 .. Len(t)
      PROVE  HoldsSound(t[i]) /\ (i > 1 => Granted(t[i], t[i - 1]))
  <2>1. CASE i = 1
    BY <1>1, <2>1
  <2>2. CASE i = 2
    <3>1. 1 \in 1 .. Len(s) /\ t[1 + 1] = s[1]
      BY <1>1
    <3>2. t[i] = s[1] /\ t[i - 1] = f
      BY <1>1, <2>2, <3>1
    <3> QED BY <1>1, <2>2, <3>1, <3>2 DEF AllSound
  <2>3. CASE i > 2
    <3>1. i - 1 \in 1 .. Len(s) /\ i - 2 \in 1 .. Len(s) /\ i - 1 > 1
          /\ (i - 1) + 1 = i /\ (i - 2) + 1 = i - 1 /\ (i - 1) - 1 = i - 2
      BY <1>1, <2>3
    <3>2. t[(i - 1) + 1] = s[i - 1] /\ t[(i - 2) + 1] = s[i - 2]
      BY <1>1, <3>1
    <3>3. t[i] = s[i - 1] /\ t[i - 1] = s[(i - 1) - 1]
      BY <3>1, <3>2
    <3>4. HoldsSound(s[i - 1]) /\ Granted(s[i - 1], s[(i - 1) - 1])
      BY <3>1 DEF AllSound
    <3> QED BY <3>3, <3>4
  <2> QED BY <1>1, <2>1, <2>2, <2>3
<1> QED BY <1>2 DEF AllSound, t

(* The innermost call goes on.                                             *)
LEMMA ReplaceSound ==
    ASSUME NEW s, IsSeq(s), s # <<>>, AllSound(s),
           NEW f, HoldsSound(f), f.op = Head(s).op, f.count = Head(s).count
    PROVE  AllSound(<<f>> \o Tail(s))
<1> DEFINE t == <<f>> \o Tail(s)
<1>1. /\ Len(t) = Len(s) /\ Len(s) \in Nat \ {0} /\ t[1] = f /\ Head(s) = s[1]
      /\ \A i \in 2 .. Len(s) : t[i] = s[i]
  BY ReplaceSeq, PopSeq
<1> HIDE DEF t
<1>2. ASSUME NEW i \in 1 .. Len(t)
      PROVE  HoldsSound(t[i]) /\ (i > 1 => Granted(t[i], t[i - 1]))
  <2>1. CASE i = 1
    BY <1>1, <2>1
  <2>2. CASE i > 1
    <3>1. i \in 2 .. Len(s) /\ i \in 1 .. Len(s) /\ i - 1 \in 1 .. Len(s)
      BY <1>1, <2>2
    <3>2. t[i] = s[i] /\ HoldsSound(s[i]) /\ Granted(s[i], s[i - 1])
      BY <1>1, <2>2, <3>1 DEF AllSound
    <3>3. t[i - 1].op = s[i - 1].op /\ t[i - 1].count = s[i - 1].count
      <4>1. CASE i - 1 = 1
        BY <1>1, <4>1
      <4>2. CASE i - 1 # 1
        <5>1. i - 1 \in 2 .. Len(s)
          BY <3>1, <4>2
        <5> QED BY <1>1, <5>1
      <4> QED BY <4>1, <4>2
    <3> QED BY <3>2, <3>3 DEF Granted
  <2> QED BY <1>1, <2>1, <2>2
<1> QED BY <1>2 DEF AllSound, t

(* The innermost call goes on and makes another one.                       *)
LEMMA PushOverSound ==
    ASSUME NEW s, IsSeq(s), s # <<>>, AllSound(s),
           NEW g, HoldsSound(g), g.op = Head(s).op, g.count = Head(s).count,
           NEW k, HoldsSound(k), Granted(g, k)
    PROVE  AllSound(<<k>> \o (<<g>> \o Tail(s)))
<1> DEFINE mid == <<g>> \o Tail(s)
<1>1. AllSound(mid)
  BY ReplaceSound
<1>2. IsSeq(Tail(s))
  BY PopSeq
<1>3. IsSeq(mid) /\ Len(mid) = Len(Tail(s)) + 1 /\ mid[1] = g
  BY <1>2, PushSeq
<1> HIDE DEF mid
<1>4. mid # <<>>
  BY <1>2, <1>3 DEF IsSeq
<1>5. Head(mid) = g
  BY <1>3, <1>4, PopSeq
<1>6. AllSound(<<k>> \o mid)
  BY <1>1, <1>3, <1>4, <1>5, PushSound
<1> QED BY <1>6 DEF mid

(* The innermost call returns.                                             *)
LEMMA PopSound ==
    ASSUME NEW s, IsSeq(s), s # <<>>, AllSound(s)
    PROVE  /\ HoldsSound(Head(s))
           /\ Tail(s) # <<>> =>
                 /\ AllSound(Tail(s)) /\ HoldsSound(Head(Tail(s)))
                 /\ Granted(Head(Tail(s)), Head(s))
<1> DEFINE u == Tail(s)
<1>1. /\ IsSeq(u) /\ Len(s) \in Nat \ {0} /\ Len(u) = Len(s) - 1
      /\ Head(s) = s[1]
      /\ \A i \in 1 .. Len(s) - 1 : u[i] = s[i + 1]
  BY PopSeq
<1> HIDE DEF u
<1>2. HoldsSound(s[1])
  <2>1. 1 \in 1 .. Len(s)
    BY <1>1
  <2> QED BY <2>1 DEF AllSound
<1>3. ASSUME u # <<>>
      PROVE  AllSound(u) /\ HoldsSound(Head(u)) /\ Granted(Head(u), Head(s))
  <2>1. Head(u) = u[1] /\ Len(u) \in Nat \ {0}
    BY <1>1, <1>3, PopSeq
  <2>2. 1 \in 1 .. Len(s) - 1 /\ 1 + 1 = 2 /\ 2 \in 1 .. Len(s) /\ 2 - 1 = 1 /\ 2 > 1
    BY <1>1, <2>1
  <2>3. u[1] = s[2]
    BY <1>1, <2>2
  <2>4. HoldsSound(s[2]) /\ Granted(s[2], s[2 - 1])
    BY <2>2 DEF AllSound
  <2>5. ASSUME NEW i \in 1 .. Len(u)
        PROVE  HoldsSound(u[i]) /\ (i > 1 => Granted(u[i], u[i - 1]))
    <3>1. i + 1 \in 1 .. Len(s) /\ i + 1 > 1 /\ (i + 1) - 1 = i /\ i \in 1 .. Len(s) - 1
      BY <1>1
    <3>2. u[i] = s[i + 1] /\ HoldsSound(s[i + 1]) /\ Granted(s[i + 1], s[(i + 1) - 1])
      BY <1>1, <3>1 DEF AllSound
    <3>3. ASSUME i > 1 PROVE u[i - 1] = s[i]
      <4>1. i - 1 \in 1 .. Len(s) - 1 /\ (i - 1) + 1 = i
        BY <3>1, <3>3
      <4>2. u[i - 1] = s[(i - 1) + 1]
        BY <1>1, <4>1
      <4> QED BY <4>1, <4>2
    <3> QED BY <3>1, <3>2, <3>3
  <2> QED BY <1>1, <2>1, <2>2, <2>3, <2>4, <2>5 DEF AllSound
<1> QED BY <1>1, <1>2, <1>3 DEF u

-----------------------------------------------------------------------------
(* The outcomes that the actions share.                                    *)

XInv == AllSound(stack) /\ Sound(Node(Object(RootType), object, NoLimit))

(* A call that begins with a value of its type.                            *)
LEMMA FrameHolds ==
    ASSUME NEW op \in WholeOp, NEW shape, NEW count, NEW val,
           Sound(Node(shape, val, NoLimit)),
           op \in {"array", "span"} => count = shape.size
    PROVE  /\ HoldsSound(Frame(op, shape, count, val))
           /\ \A c : Granted(c, Frame(op, shape, count, val))
<1> DEFINE f == Frame(op, shape, count, val)
<1>1. f.op = op /\ f.shape = shape /\ f.count = count /\ f.val = val
  BY DEF Frame
<1> HIDE DEF f
<1>2. op \notin {"vector", "map"}
  BY DEF WholeOp, InPlaceOp
<1>3. HoldsSound(f) /\ \A c : Granted(c, f)
  BY <1>1, <1>2 DEF HoldsSound, Granted
<1> QED BY <1>3 DEF f

(* A container begins empty.                                               *)
LEMMA EmptyHolds ==
    ASSUME NEW op \in {"vector", "map"}, NEW shape, NEW count \in Nat
    PROVE  /\ HoldsSound(Frame(op, shape, count, <<>>))
           /\ \A c : ~Exceeds(Limit(c), count) => Granted(c, Frame(op, shape, count, <<>>))
<1> DEFINE f == Frame(op, shape, count, <<>>)
<1>1. f.op = op /\ f.shape = shape /\ f.count = count /\ f.left = count
      /\ f.val = <<>> /\ f.key = Null
  BY DEF Frame
<1> HIDE DEF f
<1>2. /\ IsSeq(<<>>) /\ Len(<<>>) = 0 /\ DOMAIN <<>> = {}
      /\ IsMapping(<<>>) /\ IsFiniteSet({}) /\ Cardinality({}) = 0
  <2>1. DOMAIN <<>> = {} /\ Len(<<>>) = 0 /\ <<>> \in Seq({<<>>[i] : i \in DOMAIN <<>>})
    OBVIOUS
  <2>2. <<>> = [k \in DOMAIN <<>> |-> <<>>[k]]
    BY <2>1
  <2> QED BY <2>1, <2>2, FS_EmptySet DEF IsSeq, IsMapping
<1>3. count - count = 0 /\ 0 <= 0
  OBVIOUS
<1>4. VectorSound(f) /\ MapSound(f)
  BY <1>1, <1>2, <1>3 DEF VectorSound, MapSound, ItemsSound, EntriesSound
<1>5. HoldsSound(f) /\ \A c : ~Exceeds(Limit(c), count) => Granted(c, f)
  BY <1>1, <1>4 DEF HoldsSound, Granted, WholeOp, InPlaceOp
<1> QED BY <1>5 DEF f

(* A primitive fails.                                                      *)
LEMMA FailSound ==
    ASSUME AllSound(stack), NEW r, Fail(r)
    PROVE  AllSound(stack')
<1>1. stack' = stack
  BY DEF Fail
<1> QED BY <1>1

(* A value is handed to a call that awaits it.                             *)
LEMMA StoreSound ==
    ASSUME NEW calls, calls # <<>>, Nested(calls), Serving(calls), AllSound(calls),
           AwaitsValue(Head(calls)),
           NEW v, Sound(Node(Awaited(Head(calls)), v, Limit(Head(calls)))),
           NEW at, Store(calls, v, at)
    PROVE  AllSound(stack')
<1> DEFINE f == Head(calls)
           g == Delivered(f, v)
<1>1. Serves(f) /\ FrameOK(f) /\ IsSeq(calls) /\ HoldsSound(f)
  BY HeadServes, PopSound
<1>2. CASE DuplicateKey(f) \/ NoAlternative(f, v)
  <2>1. stack' = calls
    BY <1>2 DEF Store
  <2> QED BY <2>1
<1>3. CASE ~DuplicateKey(f) /\ ~NoAlternative(f, v)
  <2>1. stack' = <<g>> \o Tail(calls)
    BY <1>3 DEF Store
  <2>2. HoldsSound(g) /\ g.op = f.op /\ g.count = f.count
    BY <1>1, <1>3, DeliveredSound
  <2> HIDE DEF g
  <2> QED BY <1>1, <2>1, <2>2, ReplaceSound
<1> QED BY <1>2, <1>3

(* A codec calls another one.                                              *)
LEMMA CallSound ==
    ASSUME IInv, DInv, status = "reading", AllSound(stack),
           NEW f, HoldsSound(f), Granted(Head(stack), f), NEW at, Call(f, at)
    PROVE  AllSound(stack')
<1>1. stack' = <<f>> \o stack
  BY DEF Call
<1> QED BY <1>1, InProgress, PushSound

(* The innermost call goes on with something else in its storage.          *)
LEMMA SpillSound ==
    ASSUME IInv, DInv, status = "reading", AllSound(stack),
           AwaitsValue(Head(stack)), NEW v,
           Sound(Node(Awaited(Head(stack)), v, Limit(Head(stack)))),
           stack' = <<Spilled(Head(stack), v)>> \o Tail(stack)
    PROVE  AllSound(stack')
<1> DEFINE f == Head(stack)
           g == Spilled(f, v)
<1>1. stack # <<>> /\ IsSeq(stack) /\ FrameOK(f) /\ Serves(f) /\ HoldsSound(f)
  BY InProgress, PopSound
<1>2. HoldsSound(g) /\ g.count = f.count
  BY <1>1, SpilledSound
<1>3. g.op = f.op
  BY <1>1, SpilledServes
<1>4. stack' = <<g>> \o Tail(stack)
  OBVIOUS
<1> HIDE DEF g
<1> QED BY <1>1, <1>2, <1>3, <1>4, ReplaceSound

(* What a codec that reads a value finds.                                  *)
LEMMA ReadingSound ==
    ASSUME IInv, DInv, AllSound(stack), NEW kinds, Reading(kinds)
    PROVE  /\ status = "reading" /\ AwaitsValue(Head(stack))
           /\ Awaited(Head(stack)).kind \in kinds
           /\ "uint" \notin kinds => Awaited(Head(stack)) \in Shapes
           /\ stack # <<>> /\ IsSeq(stack) /\ Nested(stack) /\ Serving(stack)
           /\ FrameOK(Head(stack)) /\ Serves(Head(stack)) /\ HoldsSound(Head(stack))
           /\ input \in Seq(Byte) /\ pos \in 0 .. Len(input)
<1>1. /\ status = "reading" /\ AwaitsValue(Head(stack))
      /\ Awaited(Head(stack)).kind \in kinds
      /\ "uint" \notin kinds => Awaited(Head(stack)) \in Shapes
  BY ReadingServes
<1> QED BY <1>1, InProgress, PopSound

-----------------------------------------------------------------------------
(* Every action preserves it.                                              *)

(* operator>> is called for an object of the root type.                    *)
LEMMA BeginReadSound == XInv /\ BeginRead => AllSound(stack')
<1> SUFFICES ASSUME XInv, BeginRead PROVE AllSound(stack')
  OBVIOUS
<1> DEFINE f == Frame("root", Object(RootType), 1, object)
<1>1. stack' = <<f>>
  BY DEF BeginRead
<1>2. HoldsSound(f)
  BY FrameHolds DEF XInv, WholeOp, InPlaceOp
<1> HIDE DEF f
<1>3. Len(<<f>>) = 1 /\ <<f>>[1] = f
  OBVIOUS
<1>4. \A i \in 1 .. 1 : i = 1 /\ ~(i > 1)
  OBVIOUS
<1> QED BY <1>1, <1>2, <1>3, <1>4 DEF AllSound

(* A scalar.                                                               *)
LEMMA ReadScalarSound == IInv /\ DInv /\ AllSound(stack) /\ ReadScalar => AllSound(stack')
<1> SUFFICES ASSUME IInv, DInv, AllSound(stack), ReadScalar PROVE AllSound(stack')
  OBVIOUS
<1> DEFINE f == Head(stack)
           r == DecodeScalar(Awaited(f))
<1>1. /\ Reading(ScalarKind)
      /\ IF r.ok THEN Store(stack, r.value, pos + r.used) ELSE Fail(r)
  BY DEF ReadScalar
<1>2. /\ stack # <<>> /\ Nested(stack) /\ Serving(stack) /\ AwaitsValue(f)
      /\ Awaited(f).kind \in ScalarKind
  BY <1>1, ReadingSound
<1>3. r.ok => Sound(Node(Awaited(f), r.value, Limit(f)))
  BY <1>2, ScalarSound
<1> HIDE DEF r
<1>4. CASE r.ok
  BY <1>1, <1>2, <1>3, <1>4, StoreSound
<1>5. CASE ~r.ok
  BY <1>1, <1>5, FailSound
<1> QED BY <1>4, <1>5

(* A string, or one as long as announced without its bytes.                *)
LEMMA ReadStringSound == IInv /\ DInv /\ AllSound(stack) /\ ReadString => AllSound(stack')
<1> SUFFICES ASSUME IInv, DInv, AllSound(stack), ReadString PROVE AllSound(stack')
  OBVIOUS
<1> DEFINE f    == Head(stack)
           size == ReadSizeHeader(input, pos, "string")
           at   == pos + size.used
           raw  == ReadRaw(input, at, size.value)
           w    == Resized(Storage(f), size.value)
<1>1. /\ Reading({"string"})
      /\ IF ~size.ok THEN Fail(size)
         ELSE IF raw.ok THEN Store(stack, raw.value, at + raw.used)
         ELSE stack' = <<Spilled(f, w)>> \o Tail(stack)
  BY DEF ReadString
<1>2. /\ stack # <<>> /\ Nested(stack) /\ Serving(stack) /\ AwaitsValue(f)
      /\ Awaited(f).kind = "string" /\ Awaited(f) \in Shapes
      /\ status = "reading" /\ FrameOK(f) /\ Serves(f) /\ HoldsSound(f)
      /\ input \in Seq(Byte) /\ pos \in 0 .. Len(input)
  BY <1>1, ReadingSound
<1>3. ASSUME size.ok
      PROVE  at \in 0 .. Len(input) /\ size.value \in Nat
  BY <1>2, <1>3, ReadSizeHeaderBounded DEF Bounded, SizedKind
<1>4. ASSUME size.ok, raw.ok
      PROVE  Sound(Node(Awaited(f), raw.value, Limit(f)))
  <2>1. raw.value \in Seq(Byte)
    BY <1>2, <1>3, <1>4, RawBytes
  <2> HIDE DEF raw
  <2> QED BY <1>2, <2>1, SoundLeaf
<1>5. ASSUME size.ok
      PROVE  Sound(Node(Awaited(f), w, Limit(f)))
  <2>1. Storage(f) \in Seq(Byte)
    BY <1>2, StorageSound, SoundString DEF BoundedKind, MapKind
  <2>2. w \in Seq(Byte)
    BY <1>3, <1>5, <2>1, ResizedBytes
  <2> HIDE DEF w
  <2> QED BY <1>2, <2>2, SoundLeaf
<1> HIDE DEF size, at, raw, w
<1>6. CASE ~size.ok
  BY <1>1, <1>6, FailSound
<1>7. CASE size.ok /\ raw.ok
  <2>1. Store(stack, raw.value, at + raw.used)
    BY <1>1, <1>7
  <2> QED BY <1>2, <1>4, <1>7, <2>1, StoreSound
<1>8. CASE size.ok /\ ~raw.ok
  <2>1. stack' = <<Spilled(f, w)>> \o Tail(stack)
    BY <1>1, <1>8
  <2> QED BY <1>2, <1>5, <1>8, <2>1, SpillSound
<1> QED BY <1>6, <1>7, <1>8

(* A null, or a value that is left to its codec.                           *)
LEMMA ReadOptionalSound == IInv /\ DInv /\ AllSound(stack) /\ ReadOptional => AllSound(stack')
<1> SUFFICES ASSUME IInv, DInv, AllSound(stack), ReadOptional PROVE AllSound(stack')
  OBVIOUS
<1> DEFINE f      == Head(stack)
           header == ReadByte(input, pos)
           g      == [f EXCEPT !.present = TRUE]
<1>1. /\ Reading({"optional"})
      /\ IF ~header.ok THEN Fail(header)
         ELSE IF header.value = NullHeader THEN Store(stack, Null, pos + 1)
         ELSE stack' = <<g>> \o Tail(stack)
  BY DEF ReadOptional
<1>2. /\ stack # <<>> /\ Nested(stack) /\ Serving(stack) /\ AwaitsValue(f)
      /\ Awaited(f).kind = "optional" /\ IsSeq(stack)
      /\ FrameOK(f) /\ HoldsSound(f)
  BY <1>1, ReadingSound
<1>3. Sound(Node(Awaited(f), Null, Limit(f)))
  BY <1>2, SoundOptional
<1>4. HoldsSound(g) /\ g.op = f.op /\ g.count = f.count
  <2>1. /\ g.op = f.op /\ g.shape = f.shape /\ g.count = f.count /\ g.val = f.val
        /\ g.left = f.left /\ g.key = f.key
    BY <1>2 DEF FrameOK
  <2> HIDE DEF g
  <2> QED BY <1>2, <2>1, SameHolds
<1> HIDE DEF header, g
<1>5. CASE ~header.ok
  BY <1>1, <1>5, FailSound
<1>6. CASE header.ok /\ header.value = NullHeader
  <2>1. Store(stack, Null, pos + 1)
    BY <1>1, <1>6
  <2> QED BY <1>2, <1>3, <2>1, StoreSound
<1>7. CASE header.ok /\ header.value # NullHeader
  <2>1. stack' = <<g>> \o Tail(stack)
    BY <1>1, <1>7
  <2> QED BY <1>2, <1>4, <2>1, ReplaceSound
<1> QED BY <1>5, <1>6, <1>7

(* A container, of no more items than its field allows.                    *)
LEMMA OpenContainerSound ==
    ASSUME IInv, DInv, AllSound(stack), NEW op \in {"vector", "map"}, NEW kinds,
           NEW wire \in {"array", "map"}, OpenContainer(op, kinds, wire)
    PROVE  AllSound(stack')
<1> DEFINE f     == Head(stack)
           size  == ReadSizeHeader(input, pos, wire)
           r     == Failed("max_items_exceeded", wire, size.used)
           k     == Frame(op, Awaited(f), size.value, <<>>)
<1>1. /\ Reading(kinds)
      /\ IF ~size.ok THEN Fail(size)
         ELSE IF Exceeds(Limit(f), size.value) THEN Fail(r)
         ELSE Call(k, pos + size.used)
  BY DEF OpenContainer
<1>2. status = "reading" /\ input \in Seq(Byte) /\ pos \in 0 .. Len(input)
  BY <1>1, ReadingSound
<1>3. ASSUME size.ok PROVE size.value \in Nat
  BY <1>2, <1>3, ReadSizeHeaderBounded DEF SizedKind
<1> HIDE DEF size
<1>4. ASSUME size.ok, ~Exceeds(Limit(f), size.value)
      PROVE  HoldsSound(k) /\ Granted(f, k)
  BY <1>3, <1>4, EmptyHolds
<1> HIDE DEF r, k
<1>5. CASE ~size.ok
  BY <1>1, <1>5, FailSound
<1>6. CASE size.ok /\ Exceeds(Limit(f), size.value)
  BY <1>1, <1>6, FailSound
<1>7. CASE size.ok /\ ~Exceeds(Limit(f), size.value)
  BY <1>1, <1>2, <1>4, <1>7, CallSound
<1> QED BY <1>5, <1>6, <1>7

(* A bitset or a block of bytes; a bitset is reset before its bytes come.  *)
LEMMA ReadBlobSound == IInv /\ DInv /\ AllSound(stack) /\ ReadBlob => AllSound(stack')
<1> SUFFICES ASSUME IInv, DInv, AllSound(stack), ReadBlob PROVE AllSound(stack')
  OBVIOUS
<1> DEFINE f    == Head(stack)
           size == FixedSize(f)
           at   == pos + size.used
           raw  == ReadRaw(input, at, size.value)
           v    == BlobValue(Awaited(f), raw.value)
           w    == BlobValue(Awaited(f), <<>>)
<1>1. /\ Reading(FixedKind) /\ IsBlob(Awaited(f))
      /\ IF ~size.ok THEN Fail(size)
         ELSE IF raw.ok THEN Store(stack, v, at + raw.used)
         ELSE stack' = <<BlobSpilled(f)>> \o Tail(stack)
  BY Zenon DEF ReadBlob
<1>2. "uint" \notin FixedKind
  BY DEF FixedKind, InPlaceOp
<1>3. /\ stack # <<>> /\ Nested(stack) /\ Serving(stack) /\ AwaitsValue(f)
      /\ Awaited(f).kind \in FixedKind /\ Awaited(f) \in Shapes
      /\ status = "reading" /\ IsSeq(stack) /\ HoldsSound(f)
      /\ input \in Seq(Byte) /\ pos \in 0 .. Len(input)
  BY <1>1, <1>2, ReadingSound
<1>4. ASSUME size.ok PROVE at \in 0 .. Len(input) /\ size.value \in Nat
  BY <1>3, <1>4, FixedSizeBounded DEF Bounded
<1>5. ASSUME size.ok, raw.ok PROVE Sound(Node(Awaited(f), v, Limit(f)))
  <2>1. raw.value \in Seq(Byte)
    BY <1>3, <1>4, <1>5, RawBytes
  <2> HIDE DEF raw
  <2> QED BY <1>1, <1>3, <2>1, BlobSound
<1>6. Sound(Node(Awaited(f), w, Limit(f)))
  <2>1. <<>> \in Seq(Byte)
    OBVIOUS
  <2> QED BY <1>1, <1>3, <2>1, BlobSound
<1> HIDE DEF size, at, raw, v, w
<1>7. CASE ~size.ok
  BY <1>1, <1>7, FailSound
<1>8. CASE size.ok /\ raw.ok
  <2>1. Store(stack, v, at + raw.used)
    BY <1>1, <1>8
  <2> QED BY <1>3, <1>5, <1>8, <2>1, StoreSound
<1>9. CASE size.ok /\ ~raw.ok
  <2>1. stack' = <<BlobSpilled(f)>> \o Tail(stack)
    BY <1>1, <1>9
  <2>2. BlobSpilled(f) = f \/ BlobSpilled(f) = Spilled(f, w)
    BY Zenon DEF BlobSpilled, w
  <2>3. CASE BlobSpilled(f) = f
    BY <1>3, <2>1, <2>3, ReplaceSound
  <2>4. CASE BlobSpilled(f) = Spilled(f, w)
    BY <1>3, <1>6, <2>1, <2>4, SpillSound
  <2> QED BY <2>2, <2>3, <2>4
<1> QED BY <1>7, <1>8, <1>9

(* An array, a span, a tuple or a variant begins with what its storage is. *)
LEMMA OpenFixedSound == IInv /\ DInv /\ AllSound(stack) /\ OpenFixed => AllSound(stack')
<1> SUFFICES ASSUME IInv, DInv, AllSound(stack), OpenFixed PROVE AllSound(stack')
  OBVIOUS
<1> DEFINE f     == Head(stack)
           shape == Awaited(f)
           size  == FixedSize(f)
           val   == Storage(f)
           k     == Frame(shape.kind, shape, size.value, val)
<1>1. /\ Reading(FixedKind) /\ ~IsBlob(shape)
      /\ IF ~size.ok THEN Fail(size) ELSE Call(k, pos + size.used)
  BY Zenon DEF OpenFixed
<1>2. "uint" \notin FixedKind
  BY DEF FixedKind, InPlaceOp
<1>3. /\ AwaitsValue(f) /\ shape.kind \in FixedKind /\ shape \in Shapes
      /\ status = "reading" /\ FrameOK(f) /\ Serves(f) /\ HoldsSound(f)
  BY <1>1, <1>2, ReadingSound
<1>4. shape.kind \in WholeOp /\ shape.kind \notin BoundedKind
  BY <1>1, <1>3 DEF FixedKind, WholeOp, BoundedKind, MapKind, InPlaceOp, IsBlob
<1>5. Sound(Node(shape, val, NoLimit))
  BY <1>3, <1>4, StorageSound
<1>6. size.ok /\ shape.kind \in {"array", "span"} => size.value = shape.size
  BY <1>1, FixedSizeOfBlock
<1> HIDE DEF shape, size, val
<1>7. size.ok => HoldsSound(k) /\ Granted(f, k)
  BY <1>4, <1>5, <1>6, FrameHolds
<1> HIDE DEF k
<1>8. CASE ~size.ok
  BY <1>1, <1>8, FailSound
<1>9. CASE size.ok
  BY <1>1, <1>3, <1>7, <1>9, CallSound
<1> QED BY <1>8, <1>9

(* So does an object.                                                      *)
LEMMA OpenObjectSound == IInv /\ DInv /\ AllSound(stack) /\ OpenObject => AllSound(stack')
<1> SUFFICES ASSUME IInv, DInv, AllSound(stack), OpenObject PROVE AllSound(stack')
  OBVIOUS
<1> DEFINE f     == Head(stack)
           shape == Awaited(f)
           size  == ReadSizeHeader(input, pos, "object")
           val   == Storage(f)
           k     == Frame("object", shape, size.value, val)
<1>1. /\ Reading({"object"})
      /\ IF size.ok THEN Call(k, pos + size.used) ELSE stack' = stack
  BY DEF OpenObject
<1>2. /\ AwaitsValue(f) /\ shape.kind = "object" /\ shape \in Shapes
      /\ status = "reading" /\ FrameOK(f) /\ Serves(f) /\ HoldsSound(f)
  BY <1>1, ReadingSound
<1>3. Sound(Node(shape, val, NoLimit))
  BY <1>2, StorageSound DEF BoundedKind, MapKind
<1> HIDE DEF shape, size, val
<1>4. HoldsSound(k) /\ Granted(f, k)
  BY <1>3, FrameHolds DEF WholeOp, InPlaceOp
<1> HIDE DEF k
<1>5. CASE size.ok
  BY <1>1, <1>2, <1>4, <1>5, CallSound
<1>6. CASE ~size.ok
  BY <1>1, <1>6
<1> QED BY <1>5, <1>6

(* The id of a field changes nothing that is stored.                       *)
LEMMA ReadFieldIdSound == IInv /\ DInv /\ AllSound(stack) /\ ReadFieldId => AllSound(stack')
<1> SUFFICES ASSUME IInv, DInv, AllSound(stack), ReadFieldId PROVE AllSound(stack')
  OBVIOUS
<1> DEFINE f    == Head(stack)
           id   == ReadUint(input, pos)
           zero == Failed("invalid_field_id", "field_id", id.used)
           g    == [f EXCEPT !.field = id.value]
           h    == [f EXCEPT !.field = Skipping]
           k    == SkipFrame("skip", 1)
<1>1. /\ status = "reading" /\ f.op = "object"
      /\ \/ Fail(id)
         \/ Fail(zero)
         \/ stack' = <<g>> \o Tail(stack)
         \/ stack' = <<k, h>> \o Tail(stack)
  BY DEF ReadFieldId
<1>2. stack # <<>> /\ IsSeq(stack) /\ FrameOK(f) /\ HoldsSound(f)
  BY <1>1, InProgress, PopSound
<1>3. HoldsSound(g) /\ g.op = f.op /\ g.count = f.count
  <2>1. g.op = f.op /\ g.shape = f.shape /\ g.count = f.count /\ g.val = f.val
    BY <1>2 DEF FrameOK
  <2> HIDE DEF g
  <2> QED BY <1>1, <1>2, <2>1, SameHolds
<1>4. HoldsSound(h) /\ h.op = f.op /\ h.count = f.count
  <2>1. h.op = f.op /\ h.shape = f.shape /\ h.count = f.count /\ h.val = f.val
    BY <1>2 DEF FrameOK
  <2> HIDE DEF h
  <2> QED BY <1>1, <1>2, <2>1, SameHolds
<1>5. HoldsSound(k) /\ Granted(h, k)
  <2>1. k.op \in SkipOp
    BY NewSkipServes DEF SkipOp
  <2> HIDE DEF k
  <2> QED BY <2>1, SkipHolds
<1>6. <<k, h>> \o Tail(stack) = <<k>> \o (<<h>> \o Tail(stack))
  <2> DEFINE S == {stack[i] : i \in DOMAIN stack} \cup {k, h}
  <2>1. stack \in Seq(S) /\ Tail(stack) \in Seq(S) /\ k \in S /\ h \in S
    BY <1>2 DEF IsSeq
  <2> HIDE DEF S, k, h
  <2> QED BY <2>1
<1> HIDE DEF id, zero, g, h, k
<1>7. CASE Fail(id) \/ Fail(zero)
  BY <1>7, FailSound
<1>8. CASE stack' = <<g>> \o Tail(stack)
  BY <1>2, <1>3, <1>8, ReplaceSound
<1>9. CASE stack' = <<k, h>> \o Tail(stack)
  BY <1>2, <1>4, <1>5, <1>6, <1>9, PushOverSound
<1> QED BY <1>1, <1>7, <1>8, <1>9

(* Nor does what is skipped.                                               *)
LEMMA SkipSound ==
    IInv /\ DInv /\ AllSound(stack) /\ (SkipHeader \/ SkipFieldId \/ SkipRaw)
    => AllSound(stack')
<1> SUFFICES ASSUME IInv, DInv, AllSound(stack), SkipHeader \/ SkipFieldId \/ SkipRaw
             PROVE  AllSound(stack')
  OBVIOUS
<1> DEFINE f     == Head(stack)
           chunk == Smaller(f.left, SkipChunk)
           g     == [f EXCEPT !.left = @ - 1, !.field = 0]
           h     == [f EXCEPT !.field = Skipping]
           l     == [f EXCEPT !.left = @ - chunk]
           size  == SkipSize(ReadByte(input, pos).value)
           plan  == SkipPlan(ReadByte(input, pos).value, size.value)
           k     == SkipFrame(plan[1], plan[2])
<1>1. /\ status = "reading" /\ f.op \in SkipOp
      /\ \/ \E r : Fail(r)
         \/ stack' = <<h>> \o Tail(stack)
         \/ stack' = <<l>> \o Tail(stack)
         \/ /\ ReadByte(input, pos).ok /\ size.ok
            /\ stack' = <<k>> \o (<<g>> \o Tail(stack))
  BY DEF SkipHeader, SkipFieldId, SkipRaw, SkipOp
<1>2. stack # <<>> /\ IsSeq(stack) /\ FrameOK(f)
      /\ input \in Seq(Byte) /\ pos \in 0 .. Len(input)
  BY <1>1, InProgress
<1> HIDE DEF chunk
<1>3. /\ g.op = f.op /\ h.op = f.op /\ l.op = f.op
      /\ g.count = f.count /\ h.count = f.count /\ l.count = f.count
  BY <1>2 DEF FrameOK
<1>4. ASSUME ReadByte(input, pos).ok, size.ok PROVE k.op \in SkipOp
  <2>1. /\ ReadByte(input, pos).value \in Byte /\ ReadByte(input, pos).used = 1
        /\ pos + 1 <= Len(input)
    BY <1>2, <1>4, ReadByteBounded DEF Bounded
  <2>2. size.value \in Nat
    BY <1>2, <1>4, <2>1, SkipSizeBounded
  <2>3. plan[1] \in SkipOp
    BY <2>1, <2>2, SkipPlanType
  <2> HIDE DEF plan
  <2> QED BY <2>3, NewSkipServes
<1> HIDE DEF g, h, l, k, size
<1>5. HoldsSound(g) /\ HoldsSound(h) /\ HoldsSound(l)
  BY <1>1, <1>3, SkipHolds
<1>6. CASE \E r : Fail(r)
  BY <1>6, FailSound
<1>7. CASE stack' = <<h>> \o Tail(stack)
  BY <1>2, <1>3, <1>5, <1>7, ReplaceSound
<1>8. CASE stack' = <<l>> \o Tail(stack)
  BY <1>2, <1>3, <1>5, <1>8, ReplaceSound
<1>9. CASE /\ ReadByte(input, pos).ok /\ size.ok
           /\ stack' = <<k>> \o (<<g>> \o Tail(stack))
  <2>1. HoldsSound(k) /\ Granted(g, k)
    BY <1>4, <1>9, SkipHolds
  <2> QED BY <1>2, <1>3, <1>5, <1>9, <2>1, PushOverSound
<1> QED BY <1>1, <1>6, <1>7, <1>8, <1>9

(* A finished codec hands its value to its caller, within its limit.       *)
LEMMA ReturnValueSound == IInv /\ DInv /\ AllSound(stack) /\ ReturnValue => AllSound(stack')
<1> SUFFICES ASSUME IInv, DInv, AllSound(stack), ReturnValue PROVE AllSound(stack')
  OBVIOUS
<1> DEFINE f     == Head(stack)
           calls == Tail(stack)
           c     == Head(calls)
<1>1. /\ status = "reading" /\ f.op \in ValueOp /\ Store(calls, f.val, pos)
  BY DEF ReturnValue
<1>2. /\ calls # <<>> /\ Nested(calls) /\ Serving(calls)
      /\ Serves(f) /\ FrameOK(f) /\ Serves(c) /\ Summons(c, f)
  BY <1>1, CallerServes DEF ValueOp, InPlaceOp
<1>3. AllSound(calls) /\ HoldsSound(f) /\ Granted(c, f)
  BY <1>1, <1>2, InProgress, PopSound
<1>4. AwaitsValue(c) /\ Sound(Node(Awaited(c), f.val, Limit(c)))
  BY <1>1, <1>2, <1>3, CalleeSound
<1> QED BY <1>1, <1>2, <1>3, <1>4, StoreSound

(* A finished skip ends the unknown field of its object.                   *)
LEMMA ReturnSkipSound == IInv /\ DInv /\ AllSound(stack) /\ ReturnSkip => AllSound(stack')
<1> SUFFICES ASSUME IInv, DInv, AllSound(stack), ReturnSkip PROVE AllSound(stack')
  OBVIOUS
<1> DEFINE f == Head(Tail(stack))
           g == [f EXCEPT !.left = @ - 1, !.field = 0]
<1>1. /\ status = "reading" /\ Head(stack).op \in SkipOp
      /\ stack' = IF f.op = "object" THEN <<g>> \o Tail(Tail(stack)) ELSE Tail(stack)
  BY DEF ReturnSkip
<1>2. Tail(stack) # <<>> /\ IsSeq(Tail(stack)) /\ FrameOK(f)
  BY <1>1, CallerServes DEF SkipOp
<1>3. AllSound(Tail(stack)) /\ HoldsSound(f)
  BY <1>1, <1>2, InProgress, PopSound
<1>4. CASE f.op = "object"
  <2>1. g.op = f.op /\ g.shape = f.shape /\ g.count = f.count /\ g.val = f.val
    BY <1>2 DEF FrameOK
  <2>2. stack' = <<g>> \o Tail(Tail(stack))
    BY <1>1, <1>4
  <2> HIDE DEF g
  <2>3. HoldsSound(g)
    BY <1>3, <1>4, <2>1, SameHolds
  <2> QED BY <1>2, <1>3, <2>1, <2>2, <2>3, ReplaceSound
<1>5. CASE f.op # "object"
  BY <1>1, <1>3, <1>5
<1> QED BY <1>4, <1>5

(* A failed codec leaves what it has read in its caller's storage.         *)
LEMMA UnwindSound == IInv /\ DInv /\ AllSound(stack) /\ Unwind => AllSound(stack')
<1> SUFFICES ASSUME IInv, DInv, AllSound(stack), Unwind PROVE AllSound(stack')
  OBVIOUS
<1> DEFINE f == Head(stack)
           c == Head(Tail(stack))
           g == Spilled(c, f.val)
<1>1. /\ status = "failing" /\ f.op # "root"
      /\ stack' = IF f.op \in SkipOp THEN Tail(stack) ELSE <<g>> \o Tail(Tail(stack))
  BY DEF Unwind
<1>2. /\ Tail(stack) # <<>> /\ IsSeq(Tail(stack)) /\ Serves(f) /\ FrameOK(f)
      /\ Serves(c) /\ FrameOK(c) /\ Summons(c, f)
  BY <1>1, CallerServes
<1>3. stack # <<>> /\ IsSeq(stack)
  BY <1>1, HeadServes DEF IInv, DInv, Ended
<1>4. AllSound(Tail(stack)) /\ HoldsSound(f) /\ HoldsSound(c) /\ Granted(c, f)
  BY <1>2, <1>3, PopSound
<1>5. CASE f.op \in SkipOp
  BY <1>1, <1>4, <1>5
<1>6. CASE f.op \notin SkipOp
  <2>1. f.op \in ValueOp
    BY <1>1, <1>2, <1>6 DEF FrameOK, Op
  <2>2. AwaitsValue(c) /\ Sound(Node(Awaited(c), f.val, Limit(c)))
    BY <1>2, <1>4, <2>1, CalleeSound
  <2>3. HoldsSound(g) /\ g.count = c.count
    BY <1>2, <1>4, <2>2, SpilledSound
  <2>4. g.op = c.op
    BY <1>2, SpilledServes
  <2>5. stack' = <<g>> \o Tail(Tail(stack))
    BY <1>1, <1>6
  <2> HIDE DEF g
  <2> QED BY <1>2, <1>4, <2>3, <2>4, <2>5, ReplaceSound
<1> QED BY <1>5, <1>6

(* operator>> leaves in the user's object what its codec has stored.       *)
LEMMA EndedSound == IInv /\ DInv /\ AllSound(stack) /\ (EndRead \/ Throw) => XInv'
<1> SUFFICES ASSUME IInv, DInv, AllSound(stack), EndRead \/ Throw PROVE XInv'
  OBVIOUS
<1> DEFINE f == Head(stack)
<1>1. /\ stack' = <<>> /\ object' = f.val /\ f.op = "root"
      /\ status \in {"reading", "failing"}
  BY DEF EndRead, Throw
<1>2. AllSound(stack')
  <2>1. Len(<<>>) = 0 /\ 1 .. 0 = {}
    OBVIOUS
  <2> QED BY <1>1, <2>1 DEF AllSound
<1>3. stack # <<>> /\ IsSeq(stack) /\ Serves(f)
  BY <1>1, HeadServes DEF IInv, DInv, Ended
<1>4. Sound(Node(f.shape, f.val, NoLimit)) /\ f.shape = Object(RootType)
  BY <1>1, <1>3, PopSound DEF HoldsSound, WholeOp, Serves
<1> HIDE DEF f
<1>5. Sound(Node(Object(RootType), object', NoLimit))
  BY <1>1, <1>4
<1> QED BY <1>2, <1>5 DEF XInv

-----------------------------------------------------------------------------
(* The theorem.                                                            *)

(* One step of any kind, action by action.                                 *)
LEMMA StepSound == IInv /\ DInv /\ XInv /\ [Next]_vars => XInv'
<1> SUFFICES ASSUME IInv, DInv, XInv, [Next]_vars PROVE XInv'
  OBVIOUS
<1>1. AllSound(stack)
  BY DEF XInv
<1>2. CASE EndRead \/ Throw
  BY <1>1, <1>2, EndedSound
<1>3. ASSUME object' = object, AllSound(stack') PROVE XInv'
  BY <1>3 DEF XInv
<1>4. CASE BeginRead
  BY <1>3, <1>4, BeginReadSound DEF BeginRead
<1>5. CASE ReadScalar
  BY <1>1, <1>3, <1>5, ReadScalarSound DEF ReadScalar
<1>6. CASE ReadString
  BY <1>1, <1>3, <1>6, ReadStringSound DEF ReadString
<1>7. CASE ReadOptional
  BY <1>1, <1>3, <1>7, ReadOptionalSound DEF ReadOptional
<1>8. CASE OpenVector \/ OpenMap
  <2>1. object' = object
    BY <1>8 DEF OpenVector, OpenMap, OpenContainer
  <2>2. AllSound(stack')
    BY <1>1, <1>8, OpenContainerSound DEF OpenVector, OpenMap
  <2> QED BY <1>3, <2>1, <2>2
<1>9. CASE ReadBlob
  BY <1>1, <1>3, <1>9, ReadBlobSound DEF ReadBlob
<1>10. CASE OpenFixed
  BY <1>1, <1>3, <1>10, OpenFixedSound DEF OpenFixed
<1>11. CASE OpenObject
  BY <1>1, <1>3, <1>11, OpenObjectSound DEF OpenObject
<1>12. CASE ReadFieldId
  BY <1>1, <1>3, <1>12, ReadFieldIdSound DEF ReadFieldId
<1>13. CASE SkipHeader \/ SkipFieldId \/ SkipRaw
  BY <1>1, <1>3, <1>13, SkipSound DEF SkipHeader, SkipFieldId, SkipRaw
<1>14. CASE ReturnValue
  BY <1>1, <1>3, <1>14, ReturnValueSound DEF ReturnValue
<1>15. CASE ReturnSkip
  BY <1>1, <1>3, <1>15, ReturnSkipSound DEF ReturnSkip
<1>16. CASE Unwind
  BY <1>1, <1>3, <1>16, UnwindSound DEF Unwind
<1>17. CASE UNCHANGED vars
  BY <1>1, <1>3, <1>17 DEF vars
<1> QED BY <1>2, <1>4, <1>5, <1>6, <1>7, <1>8, <1>9, <1>10, <1>11, <1>12, <1>13,
           <1>14, <1>15, <1>16, <1>17 DEF Next, Step

(* The object that the user begins with.                                   *)
LEMMA InitSound == Init => XInv
<1> SUFFICES ASSUME Init PROVE XInv
  OBVIOUS
<1>1. stack = <<>> /\ object = InitialObject
  BY DEF Init
<1>2. AllSound(stack)
  <2>1. Len(<<>>) = 0 /\ 1 .. 0 = {}
    OBVIOUS
  <2> QED BY <1>1, <2>1 DEF AllSound
<1>3. Sound(Node(Object(RootType), InitialObject, NoLimit))
  BY InitialObjectAssumption, NestingAssumption, WellFormedIsSound
<1> QED BY <1>1, <1>2, <1>3 DEF XInv

(* Every call in progress holds what its codec may leave behind: a value   *)
(* of its type, or as many items of a container as its count was lowered   *)
(* by, and the count of a container is within the limit of its field.      *)
THEOREM ObjectInductive == Spec => [](IInv /\ DInv /\ XInv)
<1>1. Init => XInv
  BY InitSound
<1>2. (IInv /\ DInv) /\ XInv /\ [Next]_vars => XInv'
  BY StepSound
<1>3. Spec => [](IInv /\ DInv)
  BY DiagnosticInductive
<1> QED BY <1>1, <1>2, <1>3, PTL DEF Spec

(* The user's object is well formed before, between and after the reads,   *)
(* whatever the schema and the bytes and wherever a read failed: every     *)
(* value in it is of its C++ type, to any depth, containers are within     *)
(* check::max_items, and no field is lost or added.                        *)
THEOREM ObjectStaysWellFormed == Spec => []ObjectWellFormed
<1>1. XInv => ObjectWellFormed
  <2> SUFFICES ASSUME Sound(Node(Object(RootType), object, NoLimit))
               PROVE  ObjectWellFormed
    BY DEF XInv
  <2> DEFINE x == Node(Object(RootType), object, NoLimit)
  <2>1. Sound(x)
    OBVIOUS
  <2> HIDE DEF x
  <2>2. WellFormed(Fields, x, Null, MaxNesting)
    BY <2>1, NestingAssumption, SoundIsWellFormed
  <2> QED BY <2>2 DEF ObjectWellFormed, x
<1> QED BY <1>1, ObjectInductive, PTL

=============================================================================
