---------------------------- MODULE BinaryWriter ----------------------------
(***************************************************************************)
(* The writer of the binary adapter and its codecs, over a checked_output: *)
(* src/include/contract/adapters/binary.hpp and binary/*.hpp.              *)
(*                                                                         *)
(* `stack' is the call stack of the codecs, innermost first.  Every write  *)
(* puts all its bytes into the output or none; a codec that makes several  *)
(* may fail between two of them, and what was written stays.  An encrypted *)
(* field goes through an encrypting_output whose key stream has come to    *)
(* `offset'.  A string_view is written like the string it shows; const     *)
(* char*, which has no codec to read it back, is left out.                 *)
(***************************************************************************)
EXTENDS BinaryFormat, ContractSchema, Diagnostic, SequencesExt

CONSTANTS Fields, RootType, Objects, Capacities, MaxWrites, Null

VARIABLES
    capacity,  \* the size of the output
    out,       \* the bytes written to it
    offset,    \* encrypting_output::offset_, or Clear
    stack,     \* the codec calls in progress, innermost first
    status,    \* idle, writing, failing (unwinding), ok, error
    error,     \* the writer's diagnostic
    object,    \* the object being written, or written last
    start,     \* how many bytes were out when its operator<< began
    writes     \* how often operator<< was called

vars == <<capacity, out, offset, stack, status, error, object, start, writes>>

(* What the module that composes the writer assumes of the constants.      *)
ValidParameters ==
    /\ Objects # {}
    /\ Capacities \subseteq Nat
    /\ MaxWrites \in Nat
    /\ RootType \in DOMAIN Fields /\ ValidFieldIds(Fields)

-----------------------------------------------------------------------------
(* A call hands its `parts' to other codecs, one after the other; `next'   *)
(* is the one it is at.  `sealed' says that an object frame has made the   *)
(* encrypting_output its current field goes through.                       *)

Part(shape, val) == [shape |-> shape, val |-> val]

Frame(op, shape, parts) ==
    [op |-> op, shape |-> shape, parts |-> parts, next |-> 1, sealed |-> FALSE]

Finished(f) == f.next > Len(f.parts)

FieldOf(f) == Fields[f.shape.type][f.next]

Current == Head(stack).parts[Head(stack).next]

FieldParts(type, val) ==
    [i \in DOMAIN Fields[type] |->
        Part(Fields[type][i].shape, val[Fields[type][i].id])]

ItemParts(elem, val) == [i \in DOMAIN val |-> Part(elem, val[i])]

EntryParts(shape, val, keys) ==
    [i \in 1 .. 2 * Len(keys) |->
        IF i % 2 = 1 THEN Part(shape.key, keys[(i + 1) \div 2])
        ELSE Part(shape.elem, val[keys[i \div 2]])]

(* std::map visits its keys in order, std::unordered_map in any.           *)
KeyOrders(kind, keys) ==
    IF kind = "map"
    THEN {SetToSortSeq(keys, LAMBDA a, b : LoadLittleUint(a) < LoadLittleUint(b))}
    ELSE SetToSeqs(keys)

(* writer::field makes an encrypting_output first, once per nesting.       *)
MustSeal(f) == f.op = "object" /\ FieldOf(f).encrypt /\ offset = Clear

Writing(kinds) ==
    /\ status = "writing"
    /\ ~Finished(Head(stack))
    /\ ~MustSeal(Head(stack))
    /\ Current.shape.kind \in kinds

(* The calls once the innermost of them has written its current part.      *)
Advanced(calls) ==
    <<[Head(calls) EXCEPT !.next = @ + 1, !.sealed = FALSE]>> \o Tail(calls)

(* Mutant: the encrypting_output outlives its field.                       *)
OffsetKept(calls, at) == at

(* The encrypting_output of a field ends with the field.                   *)
OffsetBehind(calls, at) == IF Head(calls).sealed THEN Clear ELSE at

-----------------------------------------------------------------------------
(* Outcomes shared by the codecs.                                          *)

(* writer::write: all of it or nothing.  The encrypting_output advances    *)
(* its key before it knows.                                                *)
Wrote(w, chunk) ==
    LET fits == Prepared(capacity, Len(w.out), Len(chunk)) = Len(chunk)
    IN  IF ~w.ok THEN w
        ELSE [out    |-> IF fits THEN w.out \o Ciphered(chunk, w.offset) ELSE w.out,
              offset |-> Advance(w.offset, Len(chunk)),
              ok     |-> fits]

Written(chunks) ==
    FoldLeft(Wrote, [out |-> out, offset |-> offset, ok |-> TRUE], chunks)

Raise(code, stage) ==
    /\ status' = "failing"
    /\ error' = WithStage(WithCode(Emplaced(NoError, Absent), code), stage)

(* The result `w' of some writes: all of them, then the part is done.      *)
Emit(chunks) ==
    LET w == Written(chunks)
    IN  /\ out' = w.out
        /\ IF w.ok
           THEN /\ stack' = Advanced(stack)
                /\ offset' = OffsetBehind(stack, w.offset)
                /\ UNCHANGED <<status, error>>
           ELSE /\ offset' = w.offset
                /\ Raise("output_error", "raw")
                /\ UNCHANGED stack

(* ... then the codec calls others.                                        *)
EmitCall(chunks, frame) ==
    LET w == Written(chunks)
    IN  /\ out' = w.out
        /\ offset' = w.offset
        /\ IF w.ok THEN stack' = <<frame>> \o stack /\ UNCHANGED <<status, error>>
           ELSE Raise("output_error", "raw") /\ UNCHANGED stack

RawWidth(shape) == IF shape.kind = "raw" THEN shape.width ELSE 0

(* The code of the guard a value of `count' elements violates, before      *)
(* anything is written; the codec must have been given the descriptor.     *)
Violated(count, width) ==
    LET f == Head(stack)
    IN  IF f.op # "object" THEN "none"
        ELSE IF Exceeds(FieldOf(f).limit, count)
        THEN IF Current.shape.kind \in {"string", "view"}
             THEN "max_length_exceeded" ELSE "max_items_exceeded"
        ELSE IF width > 0 /\ Exceeds(FieldOf(f).bytes, Product(count, width))
        THEN "max_bytes_exceeded"
        ELSE "none"

Refuse(code) ==
    /\ Raise(code, "attribute_guard")
    /\ UNCHANGED <<out, offset, stack>>

-----------------------------------------------------------------------------
(* writer::operator<<                                                      *)

BeginWrite ==
    /\ status \in {"idle", "ok", "error"}
    /\ writes < MaxWrites
    /\ object' \in Objects
    /\ start' = Len(out)
    /\ writes' = writes + 1
    /\ stack' = <<Frame("root", [kind |-> "none"],
                        <<Part(Object(RootType), object')>>)>>
    /\ status' = "writing"
    /\ error' = NoError
    /\ UNCHANGED <<capacity, out, offset>>

Seal ==
    /\ status = "writing"
    /\ ~Finished(Head(stack))
    /\ MustSeal(Head(stack))
    /\ offset' = 0
    /\ stack' = <<[Head(stack) EXCEPT !.sealed = TRUE]>> \o Tail(stack)
    /\ UNCHANGED <<capacity, out, status, error, object, start, writes>>

(* codec<object>, codec<tuple>: nothing but their parts.                   *)
OpenParts ==
    /\ Writing({"object", "tuple"})
    /\ LET shape == Current.shape
           parts == IF shape.kind = "object" THEN FieldParts(shape.type, Current.val)
                    ELSE [i \in DOMAIN shape.elems |->
                             Part(shape.elems[i], Current.val[i])]
       IN  EmitCall(<<>>, Frame(shape.kind, shape, parts))
    /\ UNCHANGED <<capacity, object, start, writes>>

WriteRawValue ==
    /\ Writing({"raw"})
    /\ Emit(<<Current.val>>)
    /\ UNCHANGED <<capacity, object, start, writes>>

(* codec<std::bitset>: one number up to 64 bits, else byte by byte.        *)
WriteBitset ==
    /\ Writing({"bitset"})
    /\ LET bytes == PackedBits(Current.val)
       IN  Emit(IF Len(Current.val) <= 64 THEN <<bytes>>
                ELSE [i \in DOMAIN bytes |-> <<bytes[i]>>])
    /\ UNCHANGED <<capacity, object, start, writes>>

(* codec<std::string>, codec<std::string_view>: the size, the characters.  *)
WriteText ==
    /\ Writing({"string", "view"})
    /\ LET size == Len(Current.val)
           code == Violated(size, 1)
       IN  IF code # "none" THEN Refuse(code)
           ELSE Emit(<<WriteSize(size), Current.val>>)
    /\ UNCHANGED <<capacity, object, start, writes>>

(* codec<std::vector>, codec<std::array>, codec<T[N]>, codec<std::span>:   *)
(* raw elements in one write.                                              *)
WriteSequence ==
    /\ Writing({"vector", "array", "span"})
    /\ LET shape == Current.shape
           count == Len(Current.val)
           width == RawWidth(shape.elem)
           code  == Violated(count, width)
           size  == IF shape.kind = "array" THEN <<>> ELSE WriteSize(count)
       IN  IF code # "none" THEN Refuse(code)
           ELSE IF width > 0 THEN Emit(<<size, FlattenSeq(Current.val)>>)
           ELSE EmitCall(<<size>>,
                    Frame(shape.kind, shape, ItemParts(shape.elem, Current.val)))
    /\ UNCHANGED <<capacity, object, start, writes>>

(* codec<std::map>, codec<std::unordered_map>                              *)
WriteMap ==
    /\ Writing(MapKind)
    /\ LET shape == Current.shape
           keys  == DOMAIN Current.val
           code  == Violated(Cardinality(keys), 0)
       IN  IF code # "none" THEN Refuse(code)
           ELSE \E order \in KeyOrders(shape.kind, keys) :
                  EmitCall(<<WriteSize(Len(order))>>,
                      Frame(shape.kind, shape, EntryParts(shape, Current.val, order)))
    /\ UNCHANGED <<capacity, object, start, writes>>

(* codec<std::optional>: a bool, and the value if there is one.            *)
WriteOptional ==
    /\ Writing({"optional"})
    /\ IF Current.val = Null THEN Emit(<< <<0>> >>)
       ELSE EmitCall(<< <<1>> >>, Frame("optional", Current.shape,
                <<Part(Current.shape.elem, Current.val)>>))
    /\ UNCHANGED <<capacity, object, start, writes>>

(* codec<std::variant>: the index, and the value of that alternative.      *)
WriteVariant ==
    /\ Writing({"variant"})
    /\ LET index == Current.val[1]
       IN  EmitCall(<<WriteSize(index - 1)>>, Frame("variant", Current.shape,
               <<Part(Current.shape.elems[index], Current.val[2])>>))
    /\ UNCHANGED <<capacity, object, start, writes>>

-----------------------------------------------------------------------------
(* The innermost call returns.                                             *)

Return ==
    /\ status = "writing"
    /\ Finished(Head(stack))
    /\ Head(stack).op # "root"
    /\ stack' = Advanced(Tail(stack))
    /\ offset' = OffsetBehind(Tail(stack), offset)
    /\ UNCHANGED <<capacity, out, status, error, object, start, writes>>

EndWrite ==
    /\ status = "writing"
    /\ Finished(Head(stack))
    /\ Head(stack).op = "root"
    /\ stack' = <<>>
    /\ status' = "ok"
    /\ UNCHANGED <<capacity, out, offset, error, object, start, writes>>

Annotated(e, f) ==
    CASE f.op = "object"  -> WithStage(WithField(e, FieldOf(f).id), "field_value")
      [] f.op \in {"vector", "array", "span"} ->
           WithStage(WithIndex(e, f.next - 1), "container")
      [] f.op \in MapKind -> WithStage(WithIndex(e, (f.next - 1) \div 2), "container")
      [] OTHER            -> e

Unwind ==
    /\ status = "failing"
    /\ Head(stack).op # "root"
    /\ error' = Annotated(error, Head(stack))
    /\ offset' = OffsetBehind(stack, offset)
    /\ stack' = Tail(stack)
    /\ UNCHANGED <<capacity, out, status, object, start, writes>>

Throw ==
    /\ status = "failing"
    /\ Head(stack).op = "root"
    /\ stack' = <<>>
    /\ status' = "error"
    /\ UNCHANGED <<capacity, out, offset, error, object, start, writes>>

-----------------------------------------------------------------------------
Init ==
    /\ capacity \in Capacities
    /\ out = <<>>
    /\ offset = Clear
    /\ stack = <<>>
    /\ status = "idle"
    /\ error = NoError
    /\ object = CHOOSE o \in Objects : TRUE
    /\ start = 0
    /\ writes = 0

Step ==
    \/ Seal \/ OpenParts \/ WriteRawValue \/ WriteBitset \/ WriteText
    \/ WriteSequence \/ WriteMap \/ WriteOptional \/ WriteVariant
    \/ Return \/ EndWrite \/ Unwind \/ Throw

Next == BeginWrite \/ Step

Spec == Init /\ [][Next]_vars

=============================================================================
