--------------------------- MODULE ProtobufReader ---------------------------
(***************************************************************************)
(* The reader of the protobuf adapter and its codecs:                      *)
(* src/include/contract/adapters/protobuf.hpp and protobuf/*.hpp.          *)
(*                                                                         *)
(* `stack' is the call stack of the codecs, innermost first; a frame holds *)
(* the storage its codec reads into.  A length-delimited value is read by  *)
(* a reader of its own over a window of the outer one's bytes; here every  *)
(* position counts from the start of the input, and a frame knows where    *)
(* the window of its reader begins (`base') and ends (`end').  The outer   *)
(* reader has consumed the window before the nested one starts.            *)
(*                                                                         *)
(* A codec is called for a field, with the wire type of its key, or for a  *)
(* bare value, in a packed block or as the alternative of a variant; then  *)
(* its wire is Null.                                                       *)
(***************************************************************************)
EXTENDS ProtobufFormat, Diagnostic, FiniteSets

CONSTANTS Fields, Shapes, RootType, Inputs, InitialObject, MaxReads, Null

VARIABLES
    input,   \* the bytes of the window_input
    pos,     \* how many of them the innermost reader has come to
    stack,   \* the codec calls in progress, innermost first
    status,  \* idle, reading, failing (unwinding), ok, error
    error,   \* the diagnostic of the innermost reader
    object,  \* the user's object
    reads    \* how often operator>> was called

vars == <<input, pos, stack, status, error, object, reads>>

ASSUME InputsAssumption == Inputs \subseteq Seq(Byte)
ASSUME MaxReadsAssumption == MaxReads \in Nat
ASSUME FieldsAssumption == RootType \in DOMAIN Fields /\ ValidFieldIds(Fields)
ASSUME ShapesAssumption ==
    Object(RootType) \in Shapes /\ ValidShapes(Shapes, Fields)
ASSUME NullAssumption == Null \notin Int

ASSUME CodecsAssumption == \A shape \in Shapes : shape.kind \in CodecKind

(* `at' is the field or position being read, or how many were read; `todo' *)
(* says that a value is awaited; `seen' are the positions a tuple or the  *)
(* keys a variant has had;                                                 *)
(* `nested' that the codec reads through a reader of its own.              *)
Frame(op, shape, wire, base, end, nested, val) ==
    [op |-> op, shape |-> shape, wire |-> wire, base |-> base, end |-> end,
     nested |-> nested, val |-> val,
     at |-> 0, todo |-> op \in {"vector", "optional"}, seen |-> {}]

(* value_type{}, T{}: a value a codec was not given.                       *)
Fresh == [shape \in Shapes |-> Default(Fields, Shapes, shape, Null)]

-----------------------------------------------------------------------------
Keyed == {"message", "tuple", "entry"}
Block == {"packed", "array"}

FieldOf(f) == DispatchFieldById(Fields, f.shape.type, f.at)

(* The field numbers a reader of keys knows.                               *)
Known(f) ==
    CASE f.op = "message" -> FieldIds(Fields, f.shape.type)
      [] f.op = "tuple"   -> DOMAIN f.shape.elems
      [] f.op = "entry"   -> {1, 2}

(* The value a frame is waiting for.                                       *)
Awaited(f) ==
    CASE f.op = "message"     -> FieldOf(f).shape
      [] f.op = "tuple"       -> f.shape.elems[f.at]
      [] f.op = "entry"       -> IF f.at = 1 THEN f.shape.key ELSE f.shape.elem
      [] f.op = "alternative" -> f.shape.elems[f.at]
      [] OTHER                -> f.shape.elem

Waiting ==
    /\ status = "reading"
    /\ LET f == Head(stack)
       IN  IF f.op \in Block
           THEN pos < f.end /\ (f.op = "array" => f.at < f.shape.size)
           ELSE f.op # "variant" /\ f.todo

(* The wire type the awaited codec is given.                               *)
WireFor(f) == IF f.op \in Keyed \cup {"vector", "optional"} THEN f.wire ELSE Null

WireFits(f) == WireFor(f) \in {Null, WireOf(Awaited(f))}

(* Whether the awaited value is read into live storage, else into a fresh  *)
(* value that is stored when it has been read.                             *)
Live(f) == f.op \in {"tuple", "entry", "optional", "alternative"}
           \/ (f.op = "message" /\ FieldOf(f).direct)

(* Mutant: every codec starts from a fresh value.                          *)
StorageFresh(f) == Fresh[Awaited(f)]

Storage(f) ==
    IF ~Live(f) THEN Fresh[Awaited(f)]
    ELSE IF f.op \in Keyed THEN f.val[f.at] ELSE f.val

(* A failed codec leaves `v' where it was reading into.                    *)
Spilled(f, v) ==
    IF f.op = "variant" THEN [f EXCEPT !.val = <<f.at, v>>]
    ELSE IF f.op = "map" \/ ~Live(f) THEN f
    ELSE IF f.op \in Keyed THEN [f EXCEPT !.val[f.at] = v]
    ELSE [f EXCEPT !.val = v]

Inserted(map, k, v) ==
    [x \in DOMAIN map \cup {k} |-> IF x = k THEN v ELSE map[x]]

(* Mutant: the first entry of a key stays.                                 *)
DeliveredOnce(f, v) ==
    LET g == [f EXCEPT !.todo = FALSE]
    IN  CASE f.op = "tuple"   -> [g EXCEPT !.val[f.at] = v, !.seen = @ \cup {f.at}]
          [] f.op \in Keyed \ {"tuple"} -> [g EXCEPT !.val[f.at] = v]
          [] f.op = "vector"  -> [g EXCEPT !.val = Append(@, v)]
          [] f.op = "packed"  -> [g EXCEPT !.val = Append(@, v), !.at = @ + 1]
          [] f.op = "array"   -> [g EXCEPT !.val[f.at + 1] = v, !.at = @ + 1]
          [] f.op = "map"     -> [g EXCEPT !.at = @ + 1, !.val =
                IF v[1] \in DOMAIN @ THEN @ ELSE Inserted(@, v[1], v[2])]
          [] f.op = "variant" -> [g EXCEPT !.val = <<f.at, v>>]
          [] OTHER            -> [g EXCEPT !.val = v]

(* A successful codec's value goes where the frame wants it.               *)
Delivered(f, v) ==
    LET g == [f EXCEPT !.todo = FALSE]
    IN  CASE f.op = "tuple"   -> [g EXCEPT !.val[f.at] = v, !.seen = @ \cup {f.at}]
          [] f.op \in Keyed \ {"tuple"} -> [g EXCEPT !.val[f.at] = v]
          [] f.op = "vector"  -> [g EXCEPT !.val = Append(@, v)]
          [] f.op = "packed"  -> [g EXCEPT !.val = Append(@, v), !.at = @ + 1]
          [] f.op = "array"   -> [g EXCEPT !.val[f.at + 1] = v, !.at = @ + 1]
          [] f.op = "map"     -> [g EXCEPT !.val = Inserted(@, v[1], v[2]), !.at = @ + 1]
          [] f.op = "variant" -> [g EXCEPT !.val = <<f.at, v>>]
          [] OTHER            -> [g EXCEPT !.val = v]

-----------------------------------------------------------------------------
(* Outcomes shared by the codecs.                                          *)

(* A diagnostic made by the reader whose window begins at `base'.          *)
Raised(code, stage, base) ==
    LET e == WithCode(Emplaced(NoError, pos' - base), code)
    IN  IF stage = "none" THEN e ELSE WithStage(e, stage)

Fail(r) ==
    /\ pos' = pos + r.used
    /\ status' = "failing"
    /\ error' = Raised(r.code, r.stage, Head(stack).base)

(* The storage of the failing codec is left as `v'.                        *)
Spill(v) == stack' = <<Spilled(Head(stack), v)>> \o Tail(stack)

Store(v, used) ==
    /\ pos' = pos + used
    /\ stack' = <<Delivered(Head(stack), v)>> \o Tail(stack)
    /\ UNCHANGED <<status, error>>

Call(frame, used) ==
    /\ pos' = pos + used
    /\ stack' = <<frame>> \o stack
    /\ UNCHANGED <<status, error>>

-----------------------------------------------------------------------------
(* operator>>                                                              *)

BeginRead ==
    /\ status \in {"idle", "ok", "error"}
    /\ reads < MaxReads
    /\ reads' = reads + 1
    /\ stack' = <<Frame("message", Object(RootType), Null, 0, Len(input), FALSE, object)>>
    /\ status' = "reading"
    /\ error' = NoError
    /\ UNCHANGED <<input, pos, object>>

(* Mutant: any field number is taken.                                      *)
KeyCodeAny(f, number) == IF number = 0 THEN "field_number_zero" ELSE "none"

(* What is wrong with a field number.                                      *)
KeyCode(f, number) ==
    IF number = 0 THEN "field_number_zero"
    ELSE IF number \notin Known(f) THEN "unknown_field"
    ELSE IF f.op = "tuple" /\ number \in f.seen THEN "duplicate_field"
    ELSE "none"

(* The loop of read_message, of a tuple and of a map entry: a key, as long *)
(* as the window has bytes.                                                *)
ReadKey ==
    /\ status = "reading"
    /\ Head(stack).op \in Keyed
    /\ ~Head(stack).todo
    /\ pos < Head(stack).end
    /\ LET f      == Head(stack)
           key    == ReadVarint(input, pos, f.end)
           number == NumberIn(key.value)
           code   == KeyCode(f, number)
           stage  == IF f.op = "message" THEN "field_key" ELSE "none"
       IN  IF ~key.ok THEN Fail([key EXCEPT !.stage = stage]) /\ UNCHANGED stack
           ELSE IF code # "none"
           THEN /\ Fail(Failed(code, IF f.op = "entry" THEN "none" ELSE "field_key", key.used))
                /\ UNCHANGED stack
           ELSE /\ pos' = pos + key.used
                /\ stack' = <<[f EXCEPT !.at = number, !.wire = WireIn(key.value),
                                        !.todo = TRUE]>> \o Tail(stack)
                /\ UNCHANGED <<status, error>>
    /\ UNCHANGED <<input, object, reads>>

(* An optional and a vector hand the wire type on to the codec they call.  *)
Mismatch ==
    /\ Waiting
    /\ Awaited(Head(stack)).kind \notin {"optional", "vector"}
    /\ ~WireFits(Head(stack))
    /\ Fail(Failed("wire_type_mismatch", "none", 0))
    /\ UNCHANGED <<input, stack, object, reads>>

(* The codecs of bool, integers, enums (their underlying integer), float   *)
(* and double.                                                             *)
ReadScalarValue ==
    /\ Waiting
    /\ IsScalar(Awaited(Head(stack)))
    /\ WireFits(Head(stack))
    /\ LET r == ReadScalar(Awaited(Head(stack)), input, pos, Head(stack).end)
       IN  IF r.ok THEN Store(r.value, r.used) ELSE Fail(r) /\ UNCHANGED stack
    /\ UNCHANGED <<input, object, reads>>

(* A bitset has an exact size, an array of bytes a greatest one.           *)
SizeRefused(shape, size) ==
    \/ shape.kind = "bitset" /\ size # BitsetBytes(shape.size)
    \/ IsByteArray(shape) /\ size > shape.size

(* Mutant: a view shows its length, too.                                   *)
BlobValueFromLength(shape, bytes, start) ==
    CASE shape.kind = "bitset" -> UnpackedBits(bytes, shape.size)
      [] shape.kind = "array"  -> [i \in 1 .. shape.size |-> <<Digit(bytes, i)>>]
      [] shape.kind = "view"   ->
           [scratch |-> FALSE, at |-> IF bytes = <<>> THEN 0 ELSE start - 1, size |-> Len(bytes)]
      [] OTHER                 -> bytes

(* The value of the bytes at `start', what an array of bytes misses filled *)
(* up with zeros; a view points into the input.                            *)
BlobValue(shape, bytes, start) ==
    CASE shape.kind = "bitset" -> UnpackedBits(bytes, shape.size)
      [] shape.kind = "array"  -> [i \in 1 .. shape.size |-> <<Digit(bytes, i)>>]
      [] shape.kind = "view"   ->
           [scratch |-> FALSE, at |-> IF bytes = <<>> THEN 0 ELSE start, size |-> Len(bytes)]
      [] OTHER                 -> bytes

(* The codecs of strings, string views, bitsets and arrays of bytes.  A    *)
(* bitset is reset before anything is read.                                *)
ReadBlob ==
    /\ Waiting
    /\ IsBlob(Awaited(Head(stack)))
    /\ WireFits(Head(stack))
    /\ LET f      == Head(stack)
           shape  == Awaited(f)
           length == ReadVarint(input, pos, f.end)
           r      == ReadDelimited(input, pos, f.end, "length", "field_value")
       IN  IF r.ok /\ ~SizeRefused(shape, length.value)
           THEN Store(BlobValue(shape, r.value, pos + length.used), r.used)
           ELSE /\ IF length.ok /\ SizeRefused(shape, length.value)
                   THEN Fail(Failed("invalid_size", "length", length.used))
                   ELSE Fail(r)
                /\ IF shape.kind = "bitset"
                   THEN Spill([i \in 1 .. shape.size |-> 0])
                   ELSE UNCHANGED stack
    /\ UNCHANGED <<input, object, reads>>

-----------------------------------------------------------------------------
(* Codecs that call others.                                                *)

IsPacked(f) ==
    LET shape == Awaited(f)
    IN  shape.kind = "vector" /\ IsScalar(shape.elem) /\ WireFor(f) = DelimitedWire

(* Composites that are read by the reader they are met with: an optional,  *)
(* one item of a vector, a map, whose entries are delimited, and what a    *)
(* variant holds without a length of its own.                              *)
InPlace(f) ==
    LET shape == Awaited(f)
    IN  \/ shape.kind \in {"optional"} \cup MapKind
        \/ shape.kind = "vector" /\ ~IsPacked(f)
        \/ shape.kind \in {"object", "tuple", "variant"} /\ WireFor(f) = Null

Composite(shape) == ~IsScalar(shape) /\ ~IsBlob(shape)

OpOf(f) ==
    LET shape == Awaited(f)
    IN  CASE shape.kind = "object"     -> "message"
          [] shape.kind \in MapKind    -> "map"
          [] IsPacked(f)               -> "packed"
          [] OTHER                     -> shape.kind

(* An optional is emplaced before its value is read.                       *)
OpenInPlace ==
    /\ Waiting
    /\ Composite(Awaited(Head(stack)))
    /\ InPlace(Head(stack))
    /\ LET f     == Head(stack)
           shape == Awaited(f)
       IN  /\ shape.kind \in {"optional", "vector"} \/ WireFits(f)
           /\ Call(Frame(OpOf(f), shape, WireFor(f), f.base, f.end, FALSE,
                         IF shape.kind = "optional"
                         THEN Fresh[shape.elem]
                         ELSE Storage(f)), 0)
    /\ UNCHANGED <<input, object, reads>>

(* A length, a window of that many bytes, and a reader of it.              *)
OpenNested ==
    /\ Waiting
    /\ Composite(Awaited(Head(stack)))
    /\ ~InPlace(Head(stack))
    /\ WireFits(Head(stack))
    /\ LET f      == Head(stack)
           shape  == Awaited(f)
           stages == CASE shape.kind = "object"            -> <<"none", "none">>
                       [] shape.kind \in {"vector", "array"} -> <<"length", "length">>
                       [] OTHER                              -> <<"length", "field_value">>
           r      == ReadDelimited(input, pos, f.end, stages[1], stages[2])
           length == ReadVarint(input, pos, f.end)
           begin  == pos + length.used
       IN  IF r.ok
           THEN Call(Frame(OpOf(f), shape, Null, begin, begin + length.value, TRUE,
                           Storage(f)), length.used)
           ELSE Fail(r) /\ UNCHANGED stack
    /\ UNCHANGED <<input, object, reads>>

(* A map field has one entry; without a field there are entries up to the  *)
(* end.  The key and the mapped value are fresh.                           *)
OpenEntry ==
    /\ status = "reading"
    /\ Head(stack).op = "map"
    /\ IF Head(stack).wire = Null THEN pos < Head(stack).end ELSE Head(stack).at = 0
    /\ LET f      == Head(stack)
           r      == ReadDelimited(input, pos, f.end, "length", "field_value")
           length == ReadVarint(input, pos, f.end)
           begin  == pos + length.used
           fresh  == <<Fresh[f.shape.key], Fresh[f.shape.elem]>>
       IN  IF r.ok
           THEN Call(Frame("entry", f.shape, Null, begin, begin + length.value, TRUE, fresh),
                     length.used)
           ELSE Fail(r) /\ UNCHANGED stack
    /\ UNCHANGED <<input, object, reads>>

(* codec<std::variant>: key 1 and the index of the alternative, then key 2 *)
(* and the payload.  A key must have its number and its wire type.         *)
ReadFixedKey(f, number, wire) ==
    LET key == ReadVarint(input, pos, f.end)
    IN  IF ~key.ok THEN key
        ELSE IF NumberIn(key.value) = 0 THEN Failed("field_number_zero", "field_key", key.used)
        ELSE IF NumberIn(key.value) # number THEN Failed("unknown_field", "field_key", key.used)
        ELSE IF WireIn(key.value) # wire THEN Failed("wire_type_mismatch", "none", key.used)
        ELSE key

ReadVariantKey ==
    /\ status = "reading"
    /\ Head(stack).op = "variant"
    /\ \/ Head(stack).seen = {}
       \/ Head(stack).seen = {1} /\ Head(stack).at # 0
    /\ LET f   == Head(stack)
           key == IF f.seen = {} THEN ReadFixedKey(f, 1, VarintWire)
                  ELSE ReadFixedKey(f, 2, DelimitedWire)
       IN  IF ~key.ok THEN Fail(key) /\ UNCHANGED stack
           ELSE /\ pos' = pos + key.used
                /\ stack' = <<[f EXCEPT !.seen = @ \cup {NumberIn(key.value)}]>> \o Tail(stack)
                /\ UNCHANGED <<status, error>>
    /\ UNCHANGED <<input, object, reads>>

ReadIndex ==
    /\ status = "reading"
    /\ Head(stack).op = "variant"
    /\ Head(stack).seen = {1} /\ Head(stack).at = 0
    /\ LET f     == Head(stack)
           index == ReadVarint(input, pos, f.end)
       IN  IF ~index.ok THEN Fail(index) /\ UNCHANGED stack
           ELSE /\ pos' = pos + index.used
                /\ stack' = <<[f EXCEPT !.at = index.value + 1, !.todo = TRUE]>> \o Tail(stack)
                /\ UNCHANGED <<status, error>>
    /\ UNCHANGED <<input, object, reads>>

(* The payload is read by a nested reader, into an alternative that was    *)
(* emplaced.  A bad index is that reader's failure, and its diagnostic is  *)
(* not handed on.                                                          *)
OpenAlternative ==
    /\ status = "reading"
    /\ Head(stack).op = "variant"
    /\ Head(stack).seen = {1, 2} /\ Head(stack).todo
    /\ LET f      == Head(stack)
           r      == ReadDelimited(input, pos, f.end, "none", "none")
           length == ReadVarint(input, pos, f.end)
           begin  == pos + length.used
       IN  IF ~r.ok THEN Fail(r) /\ UNCHANGED stack
           ELSE IF f.at \notin DOMAIN f.shape.elems
           THEN /\ pos' = begin + length.value
                /\ status' = "failing"
                /\ error' = NoError
                /\ UNCHANGED stack
           ELSE Call([Frame("alternative", f.shape, Null, begin, begin + length.value, TRUE,
                            Fresh[f.shape.elems[f.at]])
                        EXCEPT !.at = f.at, !.todo = TRUE], length.used)
    /\ UNCHANGED <<input, object, reads>>

-----------------------------------------------------------------------------
(* The innermost call returns.                                             *)

Caller == Head(Tail(stack))

(* What the outer reader's position is once the innermost call is over.    *)
Behind(f) == IF f.nested THEN f.end ELSE pos

(* Mutant: a map field waits for more entries, like a map without one.     *)
FinishedAtEnd(f) ==
    CASE f.op \in Keyed       -> ~f.todo /\ pos = f.end
      [] f.op = "alternative" -> ~f.todo
      [] f.op \in Block \cup {"map"} -> pos = f.end
      [] f.op = "variant"     -> f.at # 0 /\ ~f.todo
      [] OTHER                -> ~f.todo

Finished(f) ==
    CASE f.op \in Keyed       -> ~f.todo /\ pos = f.end
      [] f.op = "alternative" -> ~f.todo
      [] f.op \in Block       -> pos = f.end
      [] f.op = "variant"     -> f.at # 0 /\ ~f.todo
      [] f.op = "map"         -> IF f.wire = Null THEN pos = f.end ELSE f.at = 1
      [] OTHER                -> ~f.todo

(* Mutant: the number of elements of an array is not checked.              *)
CompleteAnyCount(f) ==
    CASE f.op = "tuple"       -> f.seen = DOMAIN f.shape.elems
      [] f.op = "alternative" -> pos = f.end
      [] OTHER                -> TRUE

(* What a codec still demands when its bytes have been read.               *)
Complete(f) ==
    CASE f.op = "tuple"       -> f.seen = DOMAIN f.shape.elems
      [] f.op = "array"       -> f.at = f.shape.size
      [] f.op = "alternative" -> pos = f.end
      [] OTHER                -> TRUE

ReturnValue ==
    /\ status = "reading"
    /\ Len(stack) > 1
    /\ Finished(Head(stack))
    /\ Complete(Head(stack))
    /\ pos' = Behind(Head(stack))
    /\ stack' = <<Delivered(Caller, Head(stack).val)>> \o Tail(Tail(stack))
    /\ UNCHANGED <<input, status, error, object, reads>>

(* A tuple of which a position is missing: its own reader's failure.       *)
MissesElement ==
    /\ status = "reading"
    /\ Head(stack).op = "tuple"
    /\ Finished(Head(stack))
    /\ ~Complete(Head(stack))
    /\ Fail(Failed("invalid_size", "field_value", 0))
    /\ UNCHANGED <<input, stack, object, reads>>

(* An array with too many elements, or too few, and a payload that is      *)
(* longer than the alternative: failures of the outer reader.              *)
WrongSize ==
    /\ status = "reading"
    /\ LET f == Head(stack)
       IN  /\ \/ f.op = "array" /\ (pos < f.end <=> f.at = f.shape.size)
              \/ f.op = "alternative" /\ Finished(f) /\ ~Complete(f)
           /\ pos' = f.end
           /\ status' = "failing"
           /\ stack' = <<Spilled(Caller, f.val)>> \o Tail(Tail(stack))
           /\ LET e == Raised("invalid_size", "field_value", Caller.base)
              IN  error' = IF f.op = "array" THEN WithIndex(e, f.at) ELSE e
    /\ UNCHANGED <<input, object, reads>>

EndRead ==
    /\ status = "reading"
    /\ Len(stack) = 1
    /\ Finished(Head(stack))
    /\ object' = Head(stack).val
    /\ stack' = <<>>
    /\ status' = "ok"
    /\ UNCHANGED <<input, pos, error, reads>>

(* Mutant: a message does not say which field it was reading.              *)
AnnotatedType(e, f) ==
    CASE f.op = "message" -> WithType(e, f.shape.type)
      [] f.op = "tuple"   -> IF f.todo THEN WithField(e, f.at) ELSE e
      [] f.op = "entry"   -> IF f.todo THEN WithName(WithField(e, f.at), f.at) ELSE e
      [] OTHER            -> e

(* What the failing call's caller adds.  The key of a map entry and a      *)
(* field have a number and a name, the position of a tuple a number only.  *)
Annotated(e, f) ==
    CASE f.op = "message" ->
           WithType(IF ~f.todo THEN e
                    ELSE IF FieldOf(f).direct THEN WithName(WithField(e, f.at), f.at)
                    ELSE WithStage(WithName(WithField(e, f.at), f.at), "field_value"),
                    f.shape.type)
      [] f.op = "tuple"   -> IF f.todo THEN WithField(e, f.at) ELSE e
      [] f.op = "entry"   -> IF f.todo THEN WithName(WithField(e, f.at), f.at) ELSE e
      [] f.op = "vector"  -> WithIndex(e, Len(f.val))
      [] f.op \in Block   -> WithIndex(e, f.at)
      [] OTHER            -> e

(* Mutant: the position of a nested failure is not corrected.              *)
HandedOverRaw(e, f) ==
    IF f.op = "alternative" THEN NoError
    ELSE IF f.nested THEN Emplaced(e, pos - f.base) ELSE e

(* The diagnostic as the caller's reader has it: transferred and corrected *)
(* from a nested reader, which makes one now if it has none; dropped by a  *)
(* variant.                                                                *)
HandedOver(e, f) ==
    IF f.op = "alternative" THEN NoError
    ELSE IF f.nested THEN Transferred(Emplaced(e, pos - f.base), f.base - Caller.base)
    ELSE e

Unwind ==
    /\ status = "failing"
    /\ Len(stack) > 1
    /\ LET f == Head(stack)
       IN  /\ error' = HandedOver(IF error = NoError THEN error ELSE Annotated(error, f), f)
           /\ pos' = Behind(f)
           /\ stack' = <<Spilled(Caller, f.val)>> \o Tail(Tail(stack))
    /\ UNCHANGED <<input, status, object, reads>>

Throw ==
    /\ status = "failing"
    /\ Len(stack) = 1
    /\ error' = Annotated(error, Head(stack))
    /\ object' = Head(stack).val
    /\ stack' = <<>>
    /\ status' = "error"
    /\ UNCHANGED <<input, pos, reads>>

-----------------------------------------------------------------------------
Init ==
    /\ input \in Inputs
    /\ pos = 0
    /\ stack = <<>>
    /\ status = "idle"
    /\ error = NoError
    /\ object = InitialObject
    /\ reads = 0

Step ==
    \/ ReadKey \/ Mismatch \/ ReadScalarValue \/ ReadBlob
    \/ OpenInPlace \/ OpenNested \/ OpenEntry
    \/ ReadVariantKey \/ ReadIndex \/ OpenAlternative
    \/ ReturnValue \/ MissesElement \/ WrongSize \/ EndRead \/ Unwind \/ Throw

Next == BeginRead \/ Step

Spec == Init /\ [][Next]_vars

(* operator>> runs until it returns or throws.                             *)
FairSpec == Spec /\ WF_vars(Step)

-----------------------------------------------------------------------------
(* Properties for any schema and any bytes.                                *)

ErrorCodes == {"truncated", "invalid_varint", "field_number_zero", "unknown_field",
               "duplicate_field", "wire_type_mismatch", "invalid_size", "unknown"}

(* The variables have their types; operator>> is the outermost call while  *)
(* a read is in progress, and a reader that awaits a field's value awaits  *)
(* one of a number it knows.                                               *)
TypeOK ==
    /\ input \in Seq(Byte)
    /\ pos \in 0 .. Len(input)
    /\ status \in {"idle", "reading", "failing", "ok", "error"}
    /\ stack = <<>> <=> status \in {"idle", "ok", "error"}
    /\ \A i \in DOMAIN stack :
          /\ stack[i].shape \in Shapes
          /\ stack[i].op \in Keyed /\ stack[i].todo => stack[i].at \in Known(stack[i])
          /\ i = Len(stack) => stack[i].shape = Object(RootType) /\ ~stack[i].nested
    /\ error = NoError \/ error.code \in ErrorCodes
    /\ reads \in 0 .. MaxReads

(* docs/adapters/protobuf.md: "embedded CONTRACT values are always read    *)
(* through a nested bounded reader created from the enclosing              *)
(* length-delimited payload": the windows of the calls in progress lie in  *)
(* one another, and nothing is read beyond the innermost, whatever the     *)
(* lengths in the bytes say.                                               *)
WindowsNest ==
    /\ \A i \in 1 .. Len(stack) - 1 :
          /\ stack[i + 1].base <= stack[i].base /\ stack[i].end <= stack[i + 1].end
          /\ stack[i].base <= stack[i].end
    /\ stack # <<>> => pos \in Head(stack).base .. Head(stack).end

(* The place a diagnostic names, counted from the start of the input.      *)
Place(e, calls) == e.offset + (IF calls = <<>> THEN 0 ELSE Head(calls).base)

(* "nested payload errors are reattached to the outer error context with a *)
(* position correction": through however many readers a diagnostic is      *)
(* handed, it goes on naming the byte at which the innermost of them was,  *)
(* and its code and what was known of the failure do not change.  (What a  *)
(* variant does to it is another matter.)                                  *)
DiagnosticKept ==
    [][status = "failing" /\ error # NoError /\ error' # NoError =>
            /\ Place(error', stack') = Place(error, stack)
            /\ \A part \in {"code", "stage", "type", "field", "index"} :
                  error[part] \in {Absent, error'[part]}]_vars

(* docs/rationale/errors.md: a read that throws says what failed, in which *)
(* type, at which field or at a key that is none, at a byte of the input,  *)
(* even where a variant has dropped the diagnostic of its alternative.  A  *)
(* read that has not failed has no diagnostic.                             *)
FailureTold ==
    /\ status = "error" =>
          /\ error.code \in ErrorCodes
          /\ error.type \in DOMAIN Fields
          /\ error.field # Absent \/ error.stage = "field_key"
          /\ error.offset \in 0 .. Len(input)
    /\ status \in {"idle", "reading", "ok"} => error = NoError

(* Whatever the bytes are, an operator>> that was called returns or throws.*)
ReadTerminates == status \in {"reading", "failing"} ~> status \in {"ok", "error"}

=============================================================================
