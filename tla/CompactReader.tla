---------------------------- MODULE CompactReader ---------------------------
(***************************************************************************)
(* The reader of the compact adapter and its codecs:                       *)
(* src/include/contract/adapters/compact.hpp and the codecs of containers, *)
(* arrays, spans, tuples, bitsets, variants and optional in compact/.      *)
(*                                                                         *)
(* The codecs call each other recursively.  `stack' is that call stack:    *)
(* its head is the innermost codec (or skip_reader) call, its last frame   *)
(* the operator>> that the user called.  A frame holds the storage its     *)
(* codec reads into, so a value is in the user's object only when every    *)
(* frame above it is gone.  A failed status unwinds the stack one call at  *)
(* a time; each call annotates the diagnostic and leaves behind whatever   *)
(* it had already stored.                                                  *)
(*                                                                         *)
(* Sizes in diagnostics, std::string_view (which borrows the input) and    *)
(* exceptions of std::bad_alloc and std::length_error from resize/reserve  *)
(* are left out, as is std::optional directly inside std::optional, whose  *)
(* two null levels share one header.                                       *)
(***************************************************************************)
EXTENDS CompactFormat, ContractSchema, ObjectValues, Diagnostic, FiniteSetsExt

CONSTANTS
    Fields,         \* the field table of the reading program
    Shapes,         \* the value types its fields are made of
    RootType,       \* the contract type of the object given to operator>>
    Inputs,         \* the byte sequences the window may hold
    InitialObject,  \* the object before the first operator>>
    MaxReads,       \* bound: calls of operator>> on one reader
    MaxNesting,     \* bound: how deep ObjectWellFormed looks into an object
    Null            \* std::nullopt; a map frame without a pending key, a
                    \* variant frame without its index

VARIABLES
    input,   \* the bytes behind the window_input
    pos,     \* the window's cursor
    stack,   \* the codec calls in progress, innermost first
    status,  \* idle, reading, failing (unwinding), ok, error
    error,   \* the reader's diagnostic
    object,  \* the user's object
    reads    \* how often operator>> was called

vars == <<input, pos, stack, status, error, object, reads>>

(* read_stage: where a diagnostic says that a read failed.                 *)
ReadStage == {"none", "header", "integer", "size", "raw_bytes", "array", "map",
              "variant", "span", "object", "field_id", "field_value", "skip",
              "float32", "float64"}

ASSUME StageAssumption == Absent \notin ReadStage
ASSUME InputsAssumption == Inputs \subseteq Seq(Byte)
ASSUME MaxReadsAssumption == MaxReads \in Nat
ASSUME TypesAssumption == Absent \notin DOMAIN Fields
ASSUME FieldsAssumption == RootType \in DOMAIN Fields /\ ValidFieldIds(Fields)
ASSUME ShapesAssumption ==
    Object(RootType) \in Shapes /\ ValidShapes(Shapes, Fields)
ASSUME NestingAssumption == MaxNesting \in Nat
ASSUME LimitsAssumption ==
    \A type \in DOMAIN Fields : \A i \in DOMAIN Fields[type] : Fields[type][i].limit \in Int

(* The scalars whose bytes are copied are std::byte and the character types.*)
ASSUME RawAssumption == \A shape \in Shapes : shape.kind = "raw" => shape.width = 1

(* The object the user begins with and the values a codec makes, value{},  *)
(* are values of their C++ types.                                          *)
ASSUME InitialObjectAssumption ==
    WhollyWellFormed(Fields, Node(Object(RootType), InitialObject, NoLimit), Null, MaxNesting)
ASSUME DefaultAssumption ==
    \A shape \in Shapes :
        WhollyWellFormed(Fields, Node(shape, Default(Fields, Shapes, shape, Null), NoLimit),
                         Null, MaxNesting)

Skipping == -1   \* the field of an object frame whose unknown field is skipped

Frame(op, shape, count, val) ==
    [op |-> op, shape |-> shape, count |-> count, left |-> count,
     field |-> 0, key |-> Null, present |-> FALSE, val |-> val]

SkipFrame(op, count) == Frame(op, [kind |-> "none"], count, 0)

-----------------------------------------------------------------------------
(* The value a frame is waiting for.                                       *)

FieldOf(f) == DispatchFieldById(Fields, f.shape.type, f.field)

(* A std::size_t on the wire: an integer of any width.                     *)
Index == Uint(2 * Int64Max + 1)

Item(f) == f.count - f.left + 1

(* The codec the frame has called, before optional looked at the header.   *)
Declared(f) ==
    CASE f.op = "root"                    -> f.shape
      [] f.op = "object"                  -> FieldOf(f).shape
      [] f.op = "map" /\ f.key = Null     -> f.shape.key
      [] f.op = "variant" /\ f.key = Null -> Index
      [] f.op = "variant" /\ f.key # Null -> f.shape.elems[f.key + 1]
      [] f.op = "tuple"                   -> f.shape.elems[Item(f)]
      [] OTHER                            -> f.shape.elem

Awaited(f) == IF f.present THEN Declared(f).elem ELSE Declared(f)

(* Codecs of fixed size, which read their items where they are.            *)
InPlaceOp == {"array", "span", "tuple"}

AwaitsValue(f) ==
    /\ f.left > 0
    /\ \/ f.op \in {"root", "vector", "map", "variant"} \cup InPlaceOp
       \/ f.op = "object" /\ f.field > 0

Reading(kinds) ==
    /\ status = "reading"
    /\ AwaitsValue(Head(stack))
    /\ Awaited(Head(stack)).kind \in kinds

(* Whether the awaited value is read in place: the user's object, a field  *)
(* of it that the adapter may reference, an item of an array, span or      *)
(* tuple.  Items of containers, what an optional or a variant holds, and   *)
(* fields behind set(), are read into a fresh local value.                 *)
InPlace(f) ==
    /\ ~f.present
    /\ \/ f.op \in {"root"} \cup InPlaceOp
       \/ f.op = "object" /\ FieldOf(f).direct

(* Mutant: every codec starts from a fresh value.                          *)
StorageFresh(f) == Default(Fields, Shapes, Awaited(f), Null)

Storage(f) ==
    IF ~InPlace(f) THEN Default(Fields, Shapes, Awaited(f), Null)
    ELSE CASE f.op = "root"   -> f.val
           [] f.op = "object" -> f.val[f.field]
           [] OTHER           -> f.val[Item(f)]

(* What check::max_items bounds: only codecs called with the descriptor.   *)
Limit(f) == IF f.op = "object" /\ ~f.present THEN FieldOf(f).limit ELSE NoLimit

(* A failed codec leaves `v' where it was reading into.                    *)
Spilled(f, v) ==
    IF ~InPlace(f) THEN f
    ELSE CASE f.op = "root"   -> [f EXCEPT !.val = v]
           [] f.op = "object" -> [f EXCEPT !.val[f.field] = v]
           [] OTHER           -> [f EXCEPT !.val[Item(f)] = v]

(* A successful codec's value goes where the frame wants it.               *)
Delivered(f, v) ==
    LET g == [f EXCEPT !.present = FALSE]
    IN  CASE f.op = "root"   -> [g EXCEPT !.val = v, !.left = 0]
          [] f.op = "object" -> [g EXCEPT !.val[f.field] = v,
                                          !.field = 0, !.left = @ - 1]
          [] f.op = "vector" -> [g EXCEPT !.val = Append(@, v), !.left = @ - 1]
          [] f.op \in InPlaceOp -> [g EXCEPT !.val[Item(f)] = v, !.left = @ - 1]
          [] f.op = "variant" /\ f.key = Null -> [g EXCEPT !.key = v, !.left = @ - 1]
          [] f.op = "variant" /\ f.key # Null ->
                [g EXCEPT !.val = <<f.key + 1, v>>, !.left = @ - 1]
          [] f.op = "map" /\ f.key = Null -> [g EXCEPT !.key = v]
          [] OTHER -> [g EXCEPT !.key = Null, !.left = @ - 1,
                         !.val = [k \in DOMAIN @ \cup {f.key} |->
                                    IF k = f.key THEN v ELSE @[k]]]

-----------------------------------------------------------------------------
(* Outcomes shared by the codecs.                                          *)

Raise(code, stage, at) ==
    /\ status' = "failing"
    /\ error' = WithStage(WithCode(Emplaced(NoError, at), code), stage)

(* A primitive failed: the calls in progress are still on the stack.       *)
Fail(r) ==
    /\ pos' = pos + r.used
    /\ Raise(r.code, r.stage, pos')
    /\ UNCHANGED stack

(* emplace() found the key already in the map: the first mapping stays.    *)
DuplicateKey(f) == f.op = "map" /\ f.key # Null /\ f.key \in DOMAIN f.val

(* read_by_index: the index names none of the alternatives.                *)
NoAlternative(f, v) ==
    f.op = "variant" /\ f.key = Null /\ v >= Len(f.shape.elems)

(* The value `v', read up to `at', is handed to the head of `calls'.       *)
Store(calls, v, at) ==
    /\ pos' = at
    /\ IF DuplicateKey(Head(calls))
       THEN stack' = calls /\ Raise("duplicate_key", "map", at)
       ELSE IF NoAlternative(Head(calls), v)
       THEN stack' = calls /\ Raise("variant_index_out_of_range", "variant", at)
       ELSE /\ stack' = <<Delivered(Head(calls), v)>> \o Tail(calls)
            /\ UNCHANGED <<status, error>>

Call(frame, at) ==
    /\ pos' = at
    /\ stack' = <<frame>> \o stack
    /\ UNCHANGED <<status, error>>

-----------------------------------------------------------------------------
(* reader::operator>>                                                      *)

BeginRead ==
    /\ status \in {"idle", "ok", "error"}
    /\ reads < MaxReads
    /\ reads' = reads + 1
    /\ stack' = <<Frame("root", Object(RootType), 1, object)>>
    /\ status' = "reading"
    /\ error' = NoError
    /\ UNCHANGED <<input, pos, object>>

(* codec<bool>, codec<integral>, codec<float>: an integer outside the      *)
(* field's type has been consumed when it is rejected.                     *)
DecodeWire(shape) ==
    CASE shape.kind = "uint"    -> ReadUint(input, pos)
      [] shape.kind = "int"     -> ReadInt(input, pos)
      [] shape.kind = "bool"    -> ReadBool(input, pos)
      [] shape.kind = "float32" -> ReadFloat(input, pos, Float32Header, 4)

DecodeScalar(shape) ==
    LET r    == DecodeWire(shape)
        fits == /\ shape.kind \in {"uint", "int"} => r.value <= shape.max
                /\ shape.kind = "int" => r.value >= shape.min
    IN  IF r.ok /\ ~fits THEN Failed("invalid_integer", "integer", r.used) ELSE r

ReadScalar ==
    /\ Reading(ScalarKind)
    /\ LET r == DecodeScalar(Awaited(Head(stack)))
       IN  IF r.ok THEN Store(stack, r.value, pos + r.used) ELSE Fail(r)
    /\ UNCHANGED <<input, object, reads>>

(* std::string::resize before the payload is known to be there.            *)
Resized(s, size) == [i \in 1 .. size |-> IF i <= Len(s) THEN s[i] ELSE 0]

ReadString ==
    /\ Reading({"string"})
    /\ LET f    == Head(stack)
           size == ReadSizeHeader(input, pos, "string")
           raw  == ReadRaw(input, pos + size.used, size.value)
       IN  IF ~size.ok THEN Fail(size)
           ELSE IF raw.ok THEN Store(stack, raw.value, pos + size.used + raw.used)
           ELSE /\ pos' = pos + size.used
                /\ stack' = <<Spilled(f, Resized(Storage(f), size.value))>>
                            \o Tail(stack)
                /\ Raise(raw.code, raw.stage, pos')
    /\ UNCHANGED <<input, object, reads>>

(* Mutant: a present value is given back to the codec of the optional.     *)
ReadOptionalSelf ==
    /\ Reading({"optional"})
    /\ LET header == ReadByte(input, pos)
       IN  IF ~header.ok THEN Fail(header)
           ELSE IF header.value = NullHeader THEN Store(stack, Null, pos + 1)
           ELSE UNCHANGED <<pos, stack, status, error>>
    /\ UNCHANGED <<input, object, reads>>

(* codec<optional>: null is consumed, anything else is left to codec<T>.   *)
ReadOptional ==
    /\ Reading({"optional"})
    /\ LET header == ReadByte(input, pos)
       IN  IF ~header.ok THEN Fail(header)
           ELSE IF header.value = NullHeader THEN Store(stack, Null, pos + 1)
           ELSE /\ stack' = <<[Head(stack) EXCEPT !.present = TRUE]>> \o Tail(stack)
                /\ UNCHANGED <<pos, status, error>>
    /\ UNCHANGED <<input, object, reads>>

(* codec<vector>, codec<map>, codec<unordered_map>: the storage is cleared *)
(* once the count has passed the field's limit.                            *)
OpenContainer(op, kinds, wire) ==
    /\ Reading(kinds)
    /\ LET size == ReadSizeHeader(input, pos, wire)
       IN  IF ~size.ok THEN Fail(size)
           ELSE IF Exceeds(Limit(Head(stack)), size.value)
           THEN Fail(Failed("max_items_exceeded", wire, size.used))
           ELSE Call(Frame(op, Awaited(Head(stack)), size.value, <<>>),
                     pos + size.used)
    /\ UNCHANGED <<input, object, reads>>

OpenVector == OpenContainer("vector", {"vector"}, "array")
OpenMap    == OpenContainer("map", MapKind, "map")

-----------------------------------------------------------------------------
(* Values of a size the program knows.                                     *)

FixedKind == {"bitset", "variant"} \cup InPlaceOp

(* How many bytes or items the program has room for.                       *)
Extent(shape) ==
    CASE shape.kind = "bitset"            -> (shape.size + 7) \div 8
      [] shape.kind \in {"array", "span"} -> shape.size
      [] shape.kind = "tuple"             -> Len(shape.elems)
      [] shape.kind = "variant"           -> 2

(* An array of bytes may come short of its trailing zeros.                 *)
SizeFits(shape, count) ==
    IF IsBlob(shape) /\ shape.kind = "array"
    THEN count <= Extent(shape) ELSE count = Extent(shape)

FixedStage == [bitset |-> "size", array |-> "array", span |-> "span",
               tuple |-> "array", variant |-> "variant"]

(* The size header, checked: an array's own size is held against the       *)
(* field's limit before anything is read, a span's only behind the header. *)
FixedSize(f) ==
    LET shape == Awaited(f)
        stage == FixedStage[shape.kind]
        size  == ReadSizeHeader(input, pos, IF IsBlob(shape) THEN "bytes" ELSE "array")
    IN  IF shape.kind = "array" /\ Exceeds(Limit(f), shape.size)
        THEN Failed("max_items_exceeded", stage, 0)
        ELSE IF ~size.ok THEN size
        ELSE IF shape.kind = "span" /\ Exceeds(Limit(f), size.value)
        THEN Failed("max_items_exceeded", stage, size.used)
        ELSE IF SizeFits(shape, size.value) THEN size
        ELSE Failed(IF shape.kind = "span" THEN "span_size_mismatch"
                    ELSE "invalid_size", stage, size.used)

BlobValue(shape, bytes) ==
    IF shape.kind = "bitset" THEN UnpackedBits(bytes, shape.size)
    ELSE [i \in 1 .. shape.size |-> <<Digit(bytes, i)>>]

(* A bitset is reset before its bytes are read.                            *)
BlobSpilled(f) ==
    IF Awaited(f).kind = "bitset"
    THEN Spilled(f, BlobValue(Awaited(f), <<>>)) ELSE f

ReadBlob ==
    /\ Reading(FixedKind)
    /\ IsBlob(Awaited(Head(stack)))
    /\ \E f \in {Head(stack)} : \E size \in {FixedSize(f)} :
       \E raw \in {ReadRaw(input, pos + size.used, size.value)} :
           IF ~size.ok THEN Fail(size)
           ELSE IF raw.ok
           THEN Store(stack, BlobValue(Awaited(f), raw.value),
                      pos + size.used + raw.used)
           ELSE /\ pos' = pos + size.used
                /\ stack' = <<BlobSpilled(f)>> \o Tail(stack)
                /\ Raise(raw.code, raw.stage, pos')
    /\ UNCHANGED <<input, object, reads>>

OpenFixed ==
    /\ Reading(FixedKind)
    /\ ~IsBlob(Awaited(Head(stack)))
    /\ \E f \in {Head(stack)} : \E size \in {FixedSize(f)} :
           IF ~size.ok THEN Fail(size)
           ELSE Call(Frame(Awaited(f).kind, Awaited(f), size.value, Storage(f)),
                     pos + size.used)
    /\ UNCHANGED <<input, object, reads>>

-----------------------------------------------------------------------------
(* codec<object>::read                                                     *)

OpenObject ==
    /\ Reading({"object"})
    /\ LET f    == Head(stack)
           size == ReadSizeHeader(input, pos, "object")
       IN  IF size.ok
           THEN Call(Frame("object", Awaited(f), size.value, Storage(f)),
                     pos + size.used)
           ELSE /\ pos' = pos + size.used
                /\ status' = "failing"
                /\ error' = WithType(WithStage(WithCode(
                       Emplaced(NoError, pos'), size.code), size.stage),
                       Awaited(f).type)
                /\ UNCHANGED stack
    /\ UNCHANGED <<input, object, reads>>

(* Mutant: an unknown field is counted when it is met, and when skipped.   *)
ReadFieldIdCounting ==
    /\ status = "reading"
    /\ LET f  == Head(stack)
           id == ReadUint(input, pos)
       IN  /\ f.op = "object" /\ f.left > 0 /\ f.field = 0 /\ id.ok
           /\ pos' = pos + id.used
           /\ stack' =
                IF id.value \in FieldIds(Fields, f.shape.type)
                THEN <<[f EXCEPT !.field = id.value]>> \o Tail(stack)
                ELSE <<SkipFrame("skip", 1),
                       [f EXCEPT !.field = Skipping, !.left = @ - 1]>> \o Tail(stack)
    /\ UNCHANGED <<input, status, error, object, reads>>

ReadFieldId ==
    /\ status = "reading"
    /\ LET f    == Head(stack)
           id   == ReadUint(input, pos)
           known == id.value \in FieldIds(Fields, f.shape.type)
       IN  /\ f.op = "object" /\ f.left > 0 /\ f.field = 0
           /\ IF ~id.ok THEN Fail(id)
              ELSE IF id.value = 0
              THEN Fail(Failed("invalid_field_id", "field_id", id.used))
              ELSE /\ pos' = pos + id.used
                   /\ stack' =
                        IF known
                        THEN <<[f EXCEPT !.field = id.value]>> \o Tail(stack)
                        ELSE <<SkipFrame("skip", 1),
                               [f EXCEPT !.field = Skipping]>> \o Tail(stack)
                   /\ UNCHANGED <<status, error>>
    /\ UNCHANGED <<input, object, reads>>

-----------------------------------------------------------------------------
(* detail::skip_reader                                                     *)

SkipChunk == 64    \* sizeof(scratch)

SkipOp == {"skip", "skipfields", "raw"}

(* What is still to be skipped after a header: <<op, how many>>, or none.  *)
SkipPlan(header, size) ==
    CASE header \in 80 .. 95    -> <<"raw", PayloadWidth(header)>>
      [] header \in 96 .. 127   -> <<"raw", size>>
      [] header \in 128 .. 143  -> <<"skip", size>>
      [] header \in 144 .. 159  -> <<"skip", 2 * size>>
      [] header \in 160 .. 175  -> <<"skipfields", size>>
      [] header = Float32Header -> <<"raw", 4>>
      [] header = Float64Header -> <<"raw", 8>>
      [] OTHER                  -> <<"skip", 0>>

Skippable == (0 .. 175) \cup {BoolFalseHeader, BoolTrueHeader, NullHeader,
                              Float32Header, Float64Header}

SkipSize(header) ==
    IF header \in 96 .. 175
    THEN ReadSizeTail(input, pos + 1, header,
            CHOOSE kind \in SizedKind : IsSizedHeader(header, kind))
    ELSE Got(0, 0)

(* skip_reader::read and read_from_header                                  *)
SkipHeader ==
    /\ status = "reading"
    /\ LET f      == Head(stack)
           header == ReadByte(input, pos)
           size   == SkipSize(header.value)
           plan   == SkipPlan(header.value, size.value)
           rest   == <<[f EXCEPT !.left = @ - 1, !.field = 0]>> \o Tail(stack)
       IN  /\ f.left > 0
           /\ f.op = "skip" \/ (f.op = "skipfields" /\ f.field # 0)
           /\ IF ~header.ok THEN Fail(header)
              ELSE IF header.value \notin Skippable
              THEN Fail(Failed("invalid_header", "skip", 1))
              ELSE IF ~size.ok THEN Fail([size EXCEPT !.used = 1 + @])
              ELSE /\ pos' = pos + 1 + size.used
                   /\ stack' = <<SkipFrame(plan[1], plan[2])>> \o rest
                   /\ UNCHANGED <<status, error>>
    /\ UNCHANGED <<input, object, reads>>

(* skip_reader::object reads the id of each field, whatever it is.         *)
SkipFieldId ==
    /\ status = "reading"
    /\ LET f  == Head(stack)
           id == ReadUint(input, pos)
       IN  /\ f.op = "skipfields" /\ f.left > 0 /\ f.field = 0
           /\ IF ~id.ok THEN Fail(id)
              ELSE /\ pos' = pos + id.used
                   /\ stack' = <<[f EXCEPT !.field = Skipping]>> \o Tail(stack)
                   /\ UNCHANGED <<status, error>>
    /\ UNCHANGED <<input, object, reads>>

(* skip_reader::raw: one scratch buffer at a time.                         *)
SkipRaw ==
    /\ status = "reading"
    /\ LET f     == Head(stack)
           chunk == Smaller(f.left, SkipChunk)
           raw   == ReadRaw(input, pos, chunk)
       IN  /\ f.op = "raw" /\ f.left > 0
           /\ IF ~raw.ok THEN Fail(raw)
              ELSE /\ pos' = pos + chunk
                   /\ stack' = <<[f EXCEPT !.left = @ - chunk]>> \o Tail(stack)
                   /\ UNCHANGED <<status, error>>
    /\ UNCHANGED <<input, object, reads>>

-----------------------------------------------------------------------------
(* The innermost call returns ok.                                          *)

Finished(f) == f.left = 0

ValueOp == {"object", "vector", "map", "variant"} \cup InPlaceOp

ReturnValue ==
    /\ status = "reading"
    /\ Finished(Head(stack))
    /\ Head(stack).op \in ValueOp
    /\ Store(Tail(stack), Head(stack).val, pos)
    /\ UNCHANGED <<input, object, reads>>

(* The skip of an unknown field ends that field of the object.             *)
ReturnSkip ==
    /\ status = "reading"
    /\ Finished(Head(stack))
    /\ Head(stack).op \in SkipOp
    /\ LET f == Head(Tail(stack))
       IN  stack' = IF f.op = "object"
                    THEN <<[f EXCEPT !.left = @ - 1, !.field = 0]>>
                         \o Tail(Tail(stack))
                    ELSE Tail(stack)
    /\ UNCHANGED <<input, pos, status, error, object, reads>>

EndRead ==
    /\ status = "reading"
    /\ Finished(Head(stack))
    /\ Head(stack).op = "root"
    /\ object' = Head(stack).val
    /\ stack' = <<>>
    /\ status' = "ok"
    /\ UNCHANGED <<input, pos, error, reads>>

-----------------------------------------------------------------------------
(* The innermost call returns the failed status.                           *)

(* Mutant: a field is named by its position among those on the wire.       *)
AnnotatedByPosition(e, f) ==
    CASE f.op = "object" /\ f.field > 0 ->
           WithType(WithStage(WithField(e, f.count - f.left + 1), "field_value"),
                    f.shape.type)
      [] f.op = "object" /\ f.field <= 0 ->
           WithStage(WithType(e, f.shape.type), "field_id")
      [] OTHER           -> e

(* Mutant: the contract type is only added where a field is known.         *)
AnnotatedFieldOnly(e, f) ==
    IF f.op = "object" /\ f.field > 0
    THEN WithType(WithStage(WithField(e, f.field), "field_value"), f.shape.type)
    ELSE e

Annotated(e, f) ==
    CASE f.op = "object" /\ f.field > 0 ->
           WithType(WithStage(WithField(e, f.field), "field_value"), f.shape.type)
      [] f.op = "object" /\ f.field <= 0 ->
           WithStage(WithType(e, f.shape.type),
                     IF f.field = 0 THEN "field_id" ELSE "skip")
      [] f.op \in {"vector", "array"} ->
           WithStage(WithIndex(e, f.count - f.left), "array")
      [] f.op \in {"map", "span"} -> WithStage(WithIndex(e, f.count - f.left), f.op)
      [] f.op = "tuple"   -> WithStage(e, "array")
      [] f.op = "variant" ->
           WithStage(IF f.key = Null THEN e ELSE WithIndex(e, 1), "variant")
      [] OTHER           -> e

Unwind ==
    /\ status = "failing"
    /\ Head(stack).op # "root"
    /\ error' = Annotated(error, Head(stack))
    /\ stack' = IF Head(stack).op \in SkipOp THEN Tail(stack)
                ELSE <<Spilled(Head(Tail(stack)), Head(stack).val)>>
                     \o Tail(Tail(stack))
    /\ UNCHANGED <<input, pos, status, object, reads>>

(* operator>> throws; the object keeps what was stored in it.              *)
Throw ==
    /\ status = "failing"
    /\ Head(stack).op = "root"
    /\ object' = Head(stack).val
    /\ stack' = <<>>
    /\ status' = "error"
    /\ UNCHANGED <<input, pos, error, reads>>

-----------------------------------------------------------------------------
Init ==
    /\ input \in Inputs
    /\ pos = 0
    /\ stack = <<>>
    /\ status = "idle"
    /\ error = NoError
    /\ object = InitialObject
    /\ reads = 0

Step ==
    \/ ReadScalar \/ ReadString \/ ReadOptional \/ OpenVector \/ OpenMap
    \/ ReadBlob \/ OpenFixed \/ OpenObject \/ ReadFieldId
    \/ SkipHeader \/ SkipFieldId \/ SkipRaw
    \/ ReturnValue \/ ReturnSkip \/ EndRead
    \/ Unwind \/ Throw

Next == BeginRead \/ Step

Spec == Init /\ [][Next]_vars

(* A read runs on its caller's thread until it returns or throws.          *)
FairSpec == Spec /\ WF_vars(Step)

-----------------------------------------------------------------------------
(* Properties for any schema and any bytes.                                *)

Op == {"root"} \cup ValueOp \cup SkipOp

FrameOK(f) ==
    /\ f \in [op : Op, shape : {f.shape}, count : Nat, left : Nat, field : Int,
              key : {f.key}, present : BOOLEAN, val : {f.val}]
    /\ f.left <= f.count

(* The variables have their types: the stack is a sequence of calls with   *)
(* no more parts left than they were opened with.                          *)
TypeOK ==
    /\ input \in Seq(Byte)
    /\ pos \in Nat
    /\ stack \in Seq({stack[i] : i \in DOMAIN stack})
    /\ \A i \in DOMAIN stack : FrameOK(stack[i])
    /\ status \in {"idle", "reading", "failing", "ok", "error"}
    /\ reads \in 0 .. MaxReads

(* The calls nest as the codecs make them: operator>> is the outermost     *)
(* call and only that, a read in progress has it, every codec that has     *)
(* called another one is still owed the part it called it for, and         *)
(* skip_reader calls nothing but itself.                                   *)
MayCall(caller, callee) ==
    IF caller.op \in SkipOp THEN callee.op \in SkipOp ELSE caller.left > 0

CallsNest ==
    /\ stack = <<>> <=> status \in {"idle", "ok", "error"}
    /\ \A i \in DOMAIN stack :
          /\ stack[i].op = "root" <=> i = Len(stack)
          /\ i > 1 => MayCall(stack[i], stack[i - 1])

(* Whatever the bytes, the reader never moves its cursor past the end of   *)
(* the window: the precondition window_input::consume asserts holds at     *)
(* every call, also after a size or payload width taken from the wire.     *)
WithinWindow == pos \in 0 .. Len(input)

(* Recursion is paid for: each nested codec or skip_reader call beyond     *)
(* operator>> has consumed at least one byte of the window, so the depth   *)
(* of the C++ call stack is bounded by the bytes received (compact has no  *)
(* other bound on it).                                                     *)
DepthBounded == Len(stack) <= pos + 1

(* Work is paid for: every item a container, object or skip has completed  *)
(* cost at least one byte, so a declared count cannot make the reader      *)
(* produce more items than there are bytes.                                *)
Work(f) == (f.count - f.left) + (IF f.op \in SkipOp THEN 0 ELSE 1)

WorkPaidFor ==
    MapThenSumSet(LAMBDA i : Work(stack[i]), DOMAIN stack) <= pos + 1

(* A failed read says where and why: a specific code, a stage and a        *)
(* contract type are attached before operator>> throws, and the offset is  *)
(* where the cursor stopped, since nothing is consumed while the failure   *)
(* unwinds.  A read that returned leaves no diagnostic.                    *)
DiagnosticComplete ==
    /\ status = "error" =>
          /\ error.code \notin {"none", "unknown"}
          /\ error.stage # Absent
          /\ error.type \in DOMAIN Fields
    /\ status \in {"failing", "error"} => error.offset = pos
    /\ status \in {"reading", "ok"} => error = NoError

(* What the field of a diagnostic is a field of: of the contract type      *)
(* beside it, or, when that type's own header or field id was at fault, of *)
(* the type that holds it, directly or in containers.  No other pair is    *)
(* ever named, however deep the failure was.                               *)
TypesIn(shape) ==
    LET within[s \in Shapes] ==
            IF s.kind = "object" THEN {s.type}
            ELSE UNION {within[part] : part \in Components(Fields, s)}
    IN  within[shape]

DiagnosticNamesHolder ==
    status = "error" /\ error.field # Absent =>
        \/ error.field \in FieldIds(Fields, error.type)
        \/ \E type \in DOMAIN Fields : \E i \in DOMAIN Fields[type] :
              /\ Fields[type][i].id = error.field
              /\ error.type \in TypesIn(Fields[type][i].shape)

(* The user's object is well formed whatever was read into it, also when   *)
(* the read failed half way: every value in it is one of its C++ type,     *)
(* containers are within check::max_items, no field is lost or added.      *)
ObjectWellFormed ==
    WellFormed(Fields, Node(Object(RootType), object, NoLimit), Null, MaxNesting)

(* Every read that is begun returns or throws.                             *)
ReadTerminates == status \in {"reading", "failing"} ~> status \in {"ok", "error"}

=============================================================================
