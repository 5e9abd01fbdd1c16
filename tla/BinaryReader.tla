---------------------------- MODULE BinaryReader ----------------------------
(***************************************************************************)
(* The reader of the binary adapter and its codecs, over a checked_input:  *)
(* src/include/contract/adapters/binary.hpp and binary/*.hpp.              *)
(*                                                                         *)
(* `stack' is the call stack of the codecs, innermost first, as in         *)
(* CompactReader: a frame holds the storage its codec reads into.  Objects *)
(* have no header and fields no id: they follow each other in the order    *)
(* they are declared.  `offset' is how far the key stream of the           *)
(* decrypting_input has come that an encrypted field, and everything read  *)
(* for it, goes through; the object frame that made it remembers where.    *)
(*                                                                         *)
(* A std::string_view value is where it points: into the input, or into    *)
(* the scratch buffer of a decrypting_input, which is gone once the field  *)
(* has been read.  resize() and reserve() throw when asked for more than   *)
(* there is; an element that is not raw is counted as one byte of memory.  *)
(***************************************************************************)
EXTENDS BinaryFormat, ContractSchema, Diagnostic, FiniteSets

CONSTANTS
    Fields, Shapes, RootType, Inputs, InitialObject, MaxReads, Null,
    Memory          \* bytes that resize() and reserve() can get

VARIABLES
    input,   \* the bytes behind the checked_input
    pos,     \* how many of them have been read
    offset,  \* decrypting_input::offset_, or Clear
    stack,   \* the codec calls in progress, innermost first
    status,  \* idle, reading, failing or throwing (unwinding), ok, error, thrown
    error,   \* the reader's diagnostic
    object,  \* the user's object
    reads    \* how often operator>> was called

vars == <<input, pos, offset, stack, status, error, object, reads>>

ReadStage == {"none", "raw", "view", "size", "field_value", "attribute_guard",
              "container", "variant", "span"}

ASSUME StageAssumption == Absent \notin ReadStage
ASSUME InputsAssumption == Inputs \subseteq Seq(Byte)
ASSUME MaxReadsAssumption == MaxReads \in Nat
ASSUME FieldsAssumption == RootType \in DOMAIN Fields /\ ValidFieldIds(Fields)
ASSUME ShapesAssumption ==
    Object(RootType) \in Shapes /\ ValidShapes(Shapes, Fields)

(* max_size() of the containers is PTRDIFF_MAX bytes.                      *)
ASSUME MemoryAssumption == Memory \in Nat /\ 2 * Memory < 256 ^ SizeBytes

(* `count' parts, `left' of them not read yet; `key' is the pending key of *)
(* a map or the alternative of a variant; `sealed' is where the encrypted  *)
(* field began that an object frame is reading.                            *)
Frame(op, shape, count, val) ==
    [op |-> op, shape |-> shape, count |-> count, left |-> count,
     key |-> Null, sealed |-> Clear, val |-> val]

-----------------------------------------------------------------------------
(* The value a frame is waiting for.                                       *)

Part(f) == f.count - f.left + 1

FieldOf(f) == Fields[f.shape.type][Part(f)]

InMap(f) == f.op \in MapKind

Awaited(f) ==
    CASE f.op = "root"                -> f.shape
      [] f.op = "object"              -> FieldOf(f).shape
      [] f.op = "tuple"               -> f.shape.elems[Part(f)]
      [] f.op = "variant"             -> f.shape.elems[f.key]
      [] InMap(f) /\ f.key = Null     -> f.shape.key
      [] OTHER                        -> f.shape.elem

(* Mutant: every encrypted field makes a decrypting_input of its own.      *)
MustSealAgain(f) == f.op = "object" /\ FieldOf(f).encrypt /\ f.sealed = Clear

(* reader::field makes a decrypting_input first, once per nesting.         *)
MustSeal(f) == f.op = "object" /\ FieldOf(f).encrypt /\ offset = Clear

Reading(kinds) ==
    /\ status = "reading"
    /\ Head(stack).left > 0
    /\ ~MustSeal(Head(stack))
    /\ Awaited(Head(stack)).kind \in kinds

(* Where the awaited value is read: the live storage of the user's object  *)
(* as long as every level down to it is one, else a fresh local value.     *)
Live(f) == f.op \in {"root", "array", "span", "tuple"}
           \/ (f.op = "object" /\ FieldOf(f).direct)

(* Mutant: every codec starts from a fresh value.                          *)
StorageFresh(f) == Default(Fields, Shapes, Awaited(f), Null)

Storage(f) ==
    IF ~Live(f) THEN Default(Fields, Shapes, Awaited(f), Null)
    ELSE CASE f.op = "root"   -> f.val
           [] f.op = "object" -> f.val[FieldOf(f).id]
           [] OTHER           -> f.val[Part(f)]

(* A failed codec leaves `v' where it was reading into.                    *)
Spilled(f, v) ==
    IF ~Live(f) THEN f
    ELSE CASE f.op = "root"   -> [f EXCEPT !.val = v]
           [] f.op = "object" -> [f EXCEPT !.val[FieldOf(f).id] = v]
           [] OTHER           -> [f EXCEPT !.val[Part(f)] = v]

(* A successful codec's value goes where the frame wants it.               *)
Delivered(f, v) ==
    IF InMap(f) /\ f.key = Null THEN [f EXCEPT !.key = v]
    ELSE [f EXCEPT
            !.left = @ - 1,
            !.key = IF InMap(f) THEN Null ELSE @,
            !.sealed = Clear,
            !.val = CASE f.op \in {"root", "optional"} -> v
                      [] f.op = "object"  -> [@ EXCEPT ![FieldOf(f).id] = v]
                      [] f.op = "vector"  -> Append(@, v)
                      [] f.op = "variant" -> <<f.key, v>>
                      [] InMap(f) -> [k \in DOMAIN @ \cup {f.key} |->
                                         IF k = f.key THEN v ELSE @[k]]
                      [] OTHER    -> [@ EXCEPT ![Part(f)] = v]]

-----------------------------------------------------------------------------
(* Outcomes shared by the codecs; `used' bytes have been read so far.      *)

Read(used) == /\ pos' = pos + used
              /\ offset' = Advance(offset, used)

Raise(code, stage) ==
    /\ status' = "failing"
    /\ error' = WithStage(WithCode(Emplaced(NoError, Absent), code), stage)

Fail(r) == Read(r.used) /\ Raise(r.code, r.stage) /\ UNCHANGED stack

(* The storage of the failing codec is left as `v'.                        *)
Spill(v) == stack' = <<Spilled(Head(stack), v)>> \o Tail(stack)

(* resize() or reserve() throws; no codec catches it.                      *)
Abandon(used) == Read(used) /\ status' = "throwing" /\ UNCHANGED error

Call(frame, used) ==
    /\ Read(used)
    /\ stack' = <<frame>> \o stack
    /\ UNCHANGED <<status, error>>

(* emplace() found the key already in the map: the first mapping stays.    *)
DuplicateKey(f) == InMap(f) /\ f.key # Null /\ f.key \in DOMAIN f.val

(* The value `v' is handed to the head of `calls'; a field's own           *)
(* decrypting_input ends with the field.                                   *)
Store(calls, v, used) ==
    /\ pos' = pos + used
    /\ IF DuplicateKey(Head(calls))
       THEN /\ stack' = calls
            /\ offset' = Advance(offset, used)
            /\ Raise("duplicate_key", "container")
       ELSE /\ stack' = <<Delivered(Head(calls), v)>> \o Tail(calls)
            /\ offset' = IF Head(calls).sealed # Clear THEN Clear
                         ELSE Advance(offset, used)
            /\ UNCHANGED <<status, error>>

-----------------------------------------------------------------------------
(* check::max_length, max_items and max_bytes, for the codecs that are     *)
(* given the descriptor: those a field is read with directly.              *)

(* Mutant: the byte size is compared before anything is known to fit.      *)
AllocatesAlways(size) == TRUE

Allocates(size) == size <= Memory

(* The code of the guard a value of `count' elements violates, `width'     *)
(* bytes each when they are copied as raw bytes.                           *)
Violated(f, count, width) ==
    IF f.op # "object" THEN "none"
    ELSE IF Exceeds(FieldOf(f).limit, count)
    THEN IF Awaited(f).kind \in {"string", "view"}
         THEN "max_length_exceeded" ELSE "max_items_exceeded"
    ELSE IF width > 0 /\ Exceeds(FieldOf(f).bytes, Product(count, width))
    THEN "max_bytes_exceeded"
    ELSE "none"

(* A size, then the guards.  (The field a guard adds to the diagnostic is  *)
(* the one reader::field adds next.)                                       *)
Guarded(size, width) ==
    LET code == Violated(Head(stack), size.value, width)
    IN  IF ~size.ok \/ code = "none" THEN size
        ELSE Failed(code, "attribute_guard", size.used)

Size == ReadSize(input, pos, offset)

(* `bytes' more bytes behind `used' ones that have been read.              *)
ReadBehind(used, bytes) ==
    ReadExactly(input, pos + used, Advance(offset, used), bytes)

RawWidth(shape) == IF shape.kind = "raw" THEN shape.width ELSE 0

Resized(s, size, fill) ==
    [i \in 1 .. size |-> IF i <= Len(s) THEN s[i] ELSE fill]

-----------------------------------------------------------------------------
(* reader::operator>>                                                      *)

BeginRead ==
    /\ status \in {"idle", "ok", "error", "thrown"}
    /\ reads < MaxReads
    /\ reads' = reads + 1
    /\ stack' = <<Frame("root", Object(RootType), 1, object)>>
    /\ status' = "reading"
    /\ error' = NoError
    /\ UNCHANGED <<input, pos, offset, object>>

(* codec<object>, codec<tuple>: nothing but their parts.                   *)
OpenParts ==
    /\ Reading({"object", "tuple"})
    /\ LET f     == Head(stack)
           shape == Awaited(f)
           parts == IF shape.kind = "tuple" THEN shape.elems ELSE Fields[shape.type]
       IN  Call(Frame(shape.kind, shape, Len(parts), Storage(f)), 0)
    /\ UNCHANGED <<input, object, reads>>

(* reader::field of an encrypted field: a reader over a decrypting_input.  *)
Seal ==
    /\ status = "reading"
    /\ Head(stack).left > 0
    /\ MustSeal(Head(stack))
    /\ offset' = 0
    /\ stack' = <<[Head(stack) EXCEPT !.sealed = pos]>> \o Tail(stack)
    /\ UNCHANGED <<input, pos, status, error, object, reads>>

(* The codec of arithmetic types, enums and std::byte.                     *)
ReadRawValue ==
    /\ Reading({"raw"})
    /\ LET r == ReadBehind(0, Awaited(Head(stack)).width)
       IN  IF r.ok THEN Store(stack, r.value, r.used) ELSE Fail(r)
    /\ UNCHANGED <<input, object, reads>>

(* codec<std::bitset>: reset first; more than 64 bits come byte by byte.   *)
ReadBitset ==
    /\ Reading({"bitset"})
    /\ LET n     == Awaited(Head(stack)).size
           width == BitsetBytes(n)
           here  == Smaller(width, Available(Len(input), pos))
           taken == IF n <= 64 /\ here < width THEN 0 ELSE here
           bits  == UnpackedBits(ReadBehind(0, taken).value, n)
       IN  IF taken = width THEN Store(stack, bits, width)
           ELSE Read(taken) /\ Spill(bits) /\ Raise("truncated", "raw")
    /\ UNCHANGED <<input, object, reads>>

(* codec<std::string>: resized before the characters are known to come.    *)
ReadString ==
    /\ Reading({"string"})
    /\ LET size == Guarded(Size, 1)
           raw  == ReadBehind(size.used, size.value)
       IN  IF ~size.ok THEN Fail(size)
           ELSE IF ~Allocates(size.value) THEN Abandon(size.used) /\ UNCHANGED stack
           ELSE IF raw.ok THEN Store(stack, raw.value, size.used + raw.used)
           ELSE /\ Read(size.used)
                /\ Spill(Resized(Storage(Head(stack)), size.value, 0))
                /\ Raise(raw.code, raw.stage)
    /\ UNCHANGED <<input, object, reads>>

(* Mutant: the view starts at the size in front of the characters.         *)
BorrowedAtSize(size) ==
    IF size = 0 THEN [scratch |-> FALSE, at |-> 0, size |-> 0]
    ELSE [scratch |-> offset # Clear, at |-> pos, size |-> size]

(* codec<std::string_view>: borrowed from whatever read_view() returns.    *)
Borrowed(size) ==
    IF size = 0 THEN [scratch |-> FALSE, at |-> 0, size |-> 0]
    ELSE [scratch |-> offset # Clear, at |-> pos + SizeBytes, size |-> size]

ReadStringView ==
    /\ Reading({"view"})
    /\ LET size == Guarded(Size, 1)
           raw  == ReadBehind(size.used, size.value)
       IN  IF ~size.ok THEN Fail(size)
           ELSE IF raw.ok THEN Store(stack, Borrowed(size.value), size.used + raw.used)
           ELSE Fail(Failed("truncated", "view", size.used))
    /\ UNCHANGED <<input, object, reads>>

(* codec<std::vector>: of raw elements in one copy; of others one by one   *)
(* into a vector that was cleared before it reserved the declared size.    *)
ReadRawVector ==
    /\ Reading({"vector"})
    /\ LET f     == Head(stack)
           elem  == Awaited(f).elem
           width == RawWidth(elem)
           size  == Guarded(Size, width)
           raw   == ReadBehind(size.used, Product(size.value, width))
           blank == [i \in 1 .. width |-> 0]
       IN  /\ elem.kind = "raw"
           /\ IF ~size.ok THEN Fail(size)
              ELSE IF ~Allocates(size.value * width)
              THEN Abandon(size.used) /\ UNCHANGED stack
              ELSE IF raw.ok
              THEN Store(stack, Resized(Elements(raw.value, width), size.value, blank),
                         size.used + raw.used)
              ELSE /\ Read(size.used)
                   /\ Spill(Resized(Storage(f), size.value, blank))
                   /\ Raise(raw.code, raw.stage)
    /\ UNCHANGED <<input, object, reads>>

(* value.clear(): what the container of the head frame begins with.        *)
Cleared(f) == <<>>

(* codec<std::map>, codec<std::unordered_map>: a map reserves nothing.     *)
OpenSequence ==
    /\ Reading({"vector"} \cup MapKind)
    /\ LET shape == Awaited(Head(stack))
           size  == Guarded(Size, 0)
       IN  /\ shape.kind = "vector" => shape.elem.kind # "raw"
           /\ IF ~size.ok THEN Fail(size)
              ELSE IF shape.kind # "map" /\ ~Allocates(size.value)
              THEN Abandon(size.used) /\ Spill(Cleared(Head(stack)))
              ELSE Call(Frame(shape.kind, shape, size.value, Cleared(Head(stack))),
                        size.used)
    /\ UNCHANGED <<input, object, reads>>

(* codec<std::array>, codec<T[N]>, codec<std::span>: into storage of a     *)
(* fixed size, which a span's size on the wire must equal.                 *)
FixedSize(shape) ==
    IF shape.kind = "array" THEN Got(shape.size, 0)
    ELSE IF Size.ok /\ Size.value # shape.size
    THEN Failed("span_size_mismatch", "span", SizeBytes) ELSE Size

ReadFixed ==
    /\ Reading({"array", "span"})
    /\ LET f     == Head(stack)
           shape == Awaited(f)
           width == RawWidth(shape.elem)
           size  == Guarded(FixedSize(shape), width)
           raw   == ReadBehind(size.used, shape.size * width)
       IN  IF ~size.ok THEN Fail(size)
           ELSE IF shape.elem.kind # "raw"
           THEN Call(Frame(shape.kind, shape, shape.size, Storage(f)), size.used)
           ELSE IF raw.ok
           THEN Store(stack, Elements(raw.value, width), size.used + raw.used)
           ELSE Fail(Failed(raw.code, raw.stage, size.used))
    /\ UNCHANGED <<input, object, reads>>

(* codec<std::optional>: a bool copied from a byte that is neither 0 nor 1 *)
(* may read as either.                                                     *)
Presence(byte) == IF byte \in {0, 1} THEN {byte = 1} ELSE BOOLEAN

ReadOptional ==
    /\ Reading({"optional"})
    /\ LET r == ReadBehind(0, 1)
           f == Head(stack)
       IN  IF ~r.ok THEN Fail(r)
           ELSE \E has_value \in Presence(r.value[1]) :
                  IF has_value
                  THEN Call(Frame("optional", Awaited(f), 1, Storage(f)), 1)
                  ELSE Store(stack, Null, 1)
    /\ UNCHANGED <<input, object, reads>>

(* codec<std::variant>: the index of the alternative, then its value.      *)
ReadVariant ==
    /\ Reading({"variant"})
    /\ LET f     == Head(stack)
           shape == Awaited(f)
       IN  IF ~Size.ok THEN Fail(Size)
           ELSE IF Size.value >= Len(shape.elems)
           THEN Fail(Failed("variant_index_out_of_range", "variant", SizeBytes))
           ELSE Call([Frame("variant", shape, 1, Storage(f))
                        EXCEPT !.key = Size.value + 1], SizeBytes)
    /\ UNCHANGED <<input, object, reads>>

-----------------------------------------------------------------------------
(* The innermost call returns.                                             *)

ReturnValue ==
    /\ status = "reading"
    /\ Head(stack).left = 0
    /\ Head(stack).op # "root"
    /\ Store(Tail(stack), Head(stack).val, 0)
    /\ UNCHANGED <<input, object, reads>>

EndRead ==
    /\ status = "reading"
    /\ Head(stack).left = 0
    /\ Head(stack).op = "root"
    /\ object' = Head(stack).val
    /\ stack' = <<>>
    /\ status' = "ok"
    /\ UNCHANGED <<input, pos, offset, error, reads>>

(* Mutant: the diagnostic of a decrypting reader is passed on as it is.    *)
AnnotatedInClear(e, f) ==
    CASE f.op = "object" /\ f.sealed = Clear ->
           WithStage(WithField(e, FieldOf(f).id), "field_value")
      [] OTHER -> e

Annotated(e, f) ==
    CASE f.op = "object"  -> WithStage(WithField(e, FieldOf(f).id), "field_value")
      [] f.op = "variant" -> WithStage(WithIndex(e, f.key - 1), "variant")
      [] f.op \in {"vector", "array", "span"} \cup MapKind ->
           WithStage(WithIndex(e, Part(f) - 1), "container")
      [] OTHER            -> e

(* A failed status is annotated by each call it leaves, an exception is    *)
(* not; either way a decrypting_input goes with the field it was made for. *)
Unwind ==
    /\ status \in {"failing", "throwing"}
    /\ Head(stack).op # "root"
    /\ LET f == Head(stack)
       IN  /\ error' = IF status = "failing" THEN Annotated(error, f) ELSE error
           /\ offset' = IF f.sealed # Clear THEN Clear ELSE offset
           /\ stack' = <<Spilled(Head(Tail(stack)), f.val)>> \o Tail(Tail(stack))
    /\ UNCHANGED <<input, pos, status, object, reads>>

(* operator>> throws its own diagnostic, or lets the exception pass.       *)
Throw ==
    /\ status \in {"failing", "throwing"}
    /\ Head(stack).op = "root"
    /\ object' = Head(stack).val
    /\ stack' = <<>>
    /\ status' = IF status = "failing" THEN "error" ELSE "thrown"
    /\ UNCHANGED <<input, pos, offset, error, reads>>

-----------------------------------------------------------------------------
Init ==
    /\ input \in Inputs
    /\ pos = 0
    /\ offset = Clear
    /\ stack = <<>>
    /\ status = "idle"
    /\ error = NoError
    /\ object = InitialObject
    /\ reads = 0

Step ==
    \/ OpenParts \/ Seal \/ ReadRawValue \/ ReadBitset \/ ReadString
    \/ ReadStringView \/ ReadRawVector \/ OpenSequence \/ ReadFixed
    \/ ReadOptional \/ ReadVariant
    \/ ReturnValue \/ EndRead \/ Unwind \/ Throw

Next == BeginRead \/ Step

Spec == Init /\ [][Next]_vars

-----------------------------------------------------------------------------
(* Properties for any schema and any bytes.                                *)

Op == {"root", "object", "tuple", "vector", "array", "span", "optional",
       "variant"} \cup MapKind

(* The variables have their types: whatever sizes the bytes declare, the   *)
(* reader never moves past the end of its input, no call has more parts    *)
(* left than it has parts, and there are calls exactly while a read is in  *)
(* progress.                                                               *)
TypeOK ==
    /\ input \in Seq(Byte)
    /\ pos \in 0 .. Len(input)
    /\ offset \in Nat \cup {Clear}
    /\ \A i \in DOMAIN stack :
          /\ stack[i].op \in Op
          /\ stack[i].left \in 0 .. stack[i].count
    /\ status \in {"idle", "reading", "failing", "throwing", "ok", "error", "thrown"}
    /\ stack # <<>> <=> status \in {"reading", "failing", "throwing"}
    /\ reads \in 0 .. MaxReads

(* The key stream is in step with the bytes: at most one field, however    *)
(* deep, is read through a decrypting_input, an encrypted field inside it  *)
(* does not start another one, the key has advanced by exactly the bytes   *)
(* read since that field began, and nothing is left of it when a read ends *)
(* or fails.                                                               *)
SealedCalls == {i \in DOMAIN stack : stack[i].sealed # Clear}

KeyInStep ==
    \/ SealedCalls = {} /\ offset = Clear
    \/ \E i \in DOMAIN stack :
          SealedCalls = {i} /\ offset = pos - stack[i].sealed

(* docs/adapters/binary.md, "Zero-Copy Capability": a std::string_view     *)
(* "points into input storage" once it has been read.                      *)
ViewsBorrowInput ==
    status = "ok" => \A i \in DOMAIN Fields[RootType] :
        LET field == Fields[RootType][i]
        IN  field.shape.kind = "view" => ~object[field.id].scratch

(* docs/adapters/binary.md, "Error Flow": a failed read has a code, a      *)
(* stage and the field it was met in when operator>> throws; a read that   *)
(* returned, or that an exception of the library passed through, leaves no *)
(* diagnostic behind.                                                      *)
DiagnosticComplete ==
    /\ status = "error" =>
          /\ error.code \notin {"none", "unknown"}
          /\ error.stage # Absent
          /\ error.field # Absent
    /\ status \notin {"failing", "error"} => error = NoError

=============================================================================
