---------------------------- MODULE CompactWriter ---------------------------
(***************************************************************************)
(* The writer of the compact adapter and its codecs:                       *)
(* src/include/contract/adapters/compact.hpp and the codecs of containers, *)
(* arrays, spans, tuples, bitsets, variants and optional in compact/.      *)
(*                                                                         *)
(* `stack' is the call stack of the codecs, innermost first, as in         *)
(* CompactReader.  Every primitive write asks the output window for all    *)
(* its bytes at once and commits them or none; a codec that needs several  *)
(* may fail between two of them, and what was committed stays.  The same   *)
(* codecs as in CompactReader are left out.                                *)
(***************************************************************************)
EXTENDS CompactFormat, ContractSchema, Diagnostic, SequencesExt

CONSTANTS
    Fields,         \* the field table of the writing program
    RootType,       \* the contract type of the objects given to operator<<
    Objects,        \* the objects that may be written
    Capacities,     \* the sizes the output window may have
    MaxWrites,      \* bound: calls of operator<< on one writer
    Null            \* std::nullopt

VARIABLES
    capacity,  \* the size of the output window
    out,       \* the bytes committed to it
    stack,     \* the codec calls in progress, innermost first
    status,    \* idle, writing, failing (unwinding), ok, error
    error,     \* the writer's diagnostic
    object,    \* the object being written, or written last
    start,     \* how many bytes were committed when its operator<< began
    writes     \* how often operator<< was called

vars == <<capacity, out, stack, status, error, object, start, writes>>

(* What the module that composes the writer assumes of the constants.      *)
ValidParameters ==
    /\ Objects # {}
    /\ Capacities \subseteq Nat
    /\ MaxWrites \in Nat
    /\ RootType \in DOMAIN Fields /\ ValidFieldIds(Fields)

-----------------------------------------------------------------------------
(* A call hands its `parts' to other codecs, one after the other; `next'   *)
(* is the one it is at, `keyed' says that the field id in front of it is   *)
(* already out.                                                            *)

Part(shape, val) == [shape |-> shape, val |-> val]

Frame(op, shape, parts) ==
    [op |-> op, shape |-> shape, parts |-> parts, next |-> 1, keyed |-> FALSE]

Finished(f) == f.next > Len(f.parts)

FieldOf(f) == Fields[f.shape.type][f.next]

FieldParts(type, val) ==
    [i \in DOMAIN Fields[type] |->
        Part(Fields[type][i].shape, val[Fields[type][i].id])]

EntryParts(shape, val, keys) ==
    [i \in 1 .. 2 * Len(keys) |->
        IF i % 2 = 1 THEN Part(shape.key, keys[(i + 1) \div 2])
        ELSE Part(shape.elem, val[keys[i \div 2]])]

(* std::map visits its keys in order, std::unordered_map in any.           *)
KeyOrders(kind, keys) ==
    IF kind = "map" THEN {SetToSortSeq(keys, LAMBDA a, b : a < b)}
    ELSE SetToSeqs(keys)

(* A std::size_t on the wire: an integer of any width.                     *)
Index == Uint(2 * Int64Max + 1)

ItemKind   == {"vector", "array", "span"}
CountedKind == ItemKind \cup MapKind
PartsKind  == CountedKind \cup {"tuple", "variant"}

(* What the codec of a composite value hands on: its items, its entries in *)
(* an order its map may visit them in, or an index and what it selects.    *)
PartLists(shape, val) ==
    CASE shape.kind \in ItemKind -> {[i \in DOMAIN val |-> Part(shape.elem, val[i])]}
      [] shape.kind \in MapKind  ->
           {EntryParts(shape, val, keys) : keys \in KeyOrders(shape.kind, DOMAIN val)}
      [] shape.kind = "tuple"    -> {[i \in DOMAIN val |-> Part(shape.elems[i], val[i])]}
      [] shape.kind = "variant"  ->
           {<<Part(Index, val[1] - 1), Part(shape.elems[val[1]], val[2])>>}

(* codec<optional>::write: null, or whatever codec<T> writes.              *)
Unwrapped(part) ==
    IF part.shape.kind # "optional" THEN part
    ELSE IF part.val = Null THEN Part([kind |-> "null"], Null)
    ELSE Part(part.shape.elem, part.val)

Current == Unwrapped(Head(stack).parts[Head(stack).next])

(* What check::max_items bounds: only codecs called with the descriptor.   *)
Limit(f) ==
    IF f.op = "object" /\ FieldOf(f).shape.kind \in CountedKind
    THEN FieldOf(f).limit ELSE NoLimit

Writing(kinds) ==
    /\ status = "writing"
    /\ ~Finished(Head(stack))
    /\ Head(stack).op = "object" => Head(stack).keyed
    /\ Current.shape.kind \in kinds

-----------------------------------------------------------------------------
(* Outcomes shared by the codecs.                                          *)

(* writer::write and write_little_uint: prepare all of it, or fail.        *)
Commit(w, chunk) ==
    IF w.ok /\ Prepared(capacity, Len(w.out), Len(chunk)) = Len(chunk)
    THEN [w EXCEPT !.out = @ \o chunk] ELSE [w EXCEPT !.ok = FALSE]

Committed(first, second, third) ==
    Commit(Commit(Commit([out |-> out, ok |-> TRUE], first), second), third)

Raise(code, stage, at) ==
    /\ status' = "failing"
    /\ error' = WithStage(WithCode(Emplaced(NoError, at), code), stage)

(* The result `w' of some writes: all of them, then the calls are `done';  *)
(* or those up to the one that failed.                                     *)
Settle(w, stage, done) ==
    /\ out' = w.out
    /\ IF w.ok THEN stack' = done /\ UNCHANGED <<status, error>>
       ELSE Raise("output_error", stage, Len(w.out)) /\ UNCHANGED stack

Emit(chunk, stage, done) == Settle(Committed(chunk, <<>>, <<>>), stage, done)

(* A sized value: its header, which may take two writes, and its bytes.    *)
EmitSized(kind, size, bytes, done) ==
    LET header == WriteSizeHeader(kind, size)
    IN  Settle(Committed(header[1], header[2], bytes), "raw_bytes", done)

(* The calls once the innermost of them has written its current part.      *)
Advanced(calls) ==
    <<[Head(calls) EXCEPT !.next = @ + 1, !.keyed = FALSE]>> \o Tail(calls)

-----------------------------------------------------------------------------
(* writer::operator<<                                                      *)

BeginWrite ==
    /\ status \in {"idle", "ok", "error"}
    /\ writes < MaxWrites
    /\ object' \in Objects
    /\ start' = Len(out)
    /\ writes' = writes + 1
    /\ stack' = <<Frame("root", [kind |-> "none"],
                        <<Part(Object(RootType), object')>>)>>
    /\ status' = "writing"
    /\ error' = NoError
    /\ UNCHANGED <<capacity, out>>

(* codec<bool>, codec<integral>, codec<float>, and a missing optional.     *)
ScalarBytes(part) ==
    CASE part.shape.kind = "uint"    -> WriteUint(part.val)
      [] part.shape.kind = "int"     -> WriteInt(part.val)
      [] part.shape.kind = "bool"    -> WriteBool(part.val)
      [] part.shape.kind = "float32" -> <<Float32Header>> \o part.val
      [] part.shape.kind = "null"    -> <<NullHeader>>

WriteScalar ==
    /\ Writing(ScalarKind \cup {"null"})
    /\ Emit(ScalarBytes(Current),
            IF Current.shape.kind = "float32" THEN "float32" ELSE "raw_bytes",
            Advanced(stack))
    /\ UNCHANGED <<capacity, object, start, writes>>

(* codec<std::string>: the size first, then the characters.                *)
WriteString ==
    /\ Writing({"string"})
    /\ EmitSized("string", Len(Current.val), Current.val, Advanced(stack))
    /\ UNCHANGED <<capacity, object, start, writes>>

Stage == [vector |-> "array", array |-> "array", tuple |-> "array",
          span |-> "span", variant |-> "variant",
          map |-> "map", unordered_map |-> "map"]

RefuseCount(shape) ==
    /\ Raise("max_items_exceeded", Stage[shape.kind], Len(out))
    /\ UNCHANGED <<out, stack>>

(* An array of bytes is sent without its trailing zeros, a span with them. *)
BlobBytes(shape, val) ==
    IF shape.kind = "bitset" THEN PackedInto(val, (shape.size + 7) \div 8)
    ELSE LET nonzero == {i \in DOMAIN val : val[i] # <<0>>}
             count   == IF shape.kind = "array" THEN Max({0} \cup nonzero) ELSE Len(val)
         IN  FlattenSeq(SubSeq(val, 1, count))

(* codec<array>, codec<span> of bytes and codec<bitset>: the number of     *)
(* bytes, then the bytes.  What is bounded is the size in memory.          *)
WriteBlob ==
    /\ Writing({"bitset", "array", "span"})
    /\ IsBlob(Current.shape)
    /\ LET bytes == BlobBytes(Current.shape, Current.val)
       IN  IF Exceeds(Limit(Head(stack)), Len(Current.val)) THEN RefuseCount(Current.shape)
           ELSE EmitSized("bytes", Len(bytes), bytes, Advanced(stack))
    /\ UNCHANGED <<capacity, object, start, writes>>

WireKind(shape) == IF shape.kind \in MapKind THEN "map" ELSE "array"

(* How many entries or items the parts are.                                *)
Count(shape, parts) == IF shape.kind \in MapKind THEN Len(parts) \div 2 ELSE Len(parts)

(* Mutant: the items are counted after the header is out.                  *)
OpenContainerLate ==
    /\ Writing(PartsKind)
    /\ ~IsBlob(Current.shape)
    /\ LET shape == Current.shape
       IN  \E parts \in PartLists(shape, Current.val) :
             IF Exceeds(Limit(Head(stack)), Count(shape, parts))
             THEN /\ Raise("max_items_exceeded", Stage[shape.kind], Len(out))
                  /\ out' = out \o WriteSizeHeader(WireKind(shape), Limit(Head(stack)))[1]
                  /\ UNCHANGED stack
             ELSE EmitSized(WireKind(shape), Count(shape, parts), <<>>,
                      <<Frame(shape.kind, shape, parts)>> \o stack)
    /\ UNCHANGED <<capacity, object, start, writes>>

(* The other codecs of containers, arrays, spans, tuples and variants: the *)
(* limit is checked before the header is written, but after the id of the  *)
(* field.                                                                  *)
OpenContainer ==
    /\ Writing(PartsKind)
    /\ ~IsBlob(Current.shape)
    /\ LET shape == Current.shape
       IN  \E parts \in PartLists(shape, Current.val) :
             IF Exceeds(Limit(Head(stack)), Count(shape, parts)) THEN RefuseCount(shape)
             ELSE EmitSized(WireKind(shape), Count(shape, parts), <<>>,
                      <<Frame(shape.kind, shape, parts)>> \o stack)
    /\ UNCHANGED <<capacity, object, start, writes>>

(* codec<object>::write: the number of fields, then each of them.          *)
OpenObject ==
    /\ Writing({"object"})
    /\ LET type == Current.shape.type
           size == WriteSizeHeader("object", Len(Fields[type]))
           w    == Committed(size[1], size[2], <<>>)
       IN  /\ out' = w.out
           /\ IF w.ok
              THEN /\ stack' = <<Frame("object", Current.shape,
                                       FieldParts(type, Current.val))>> \o stack
                   /\ UNCHANGED <<status, error>>
              ELSE /\ status' = "failing"
                   /\ error' = WithType(WithStage(WithCode(Emplaced(NoError,
                          Len(w.out)), "output_error"), "raw_bytes"), type)
                   /\ UNCHANGED stack
    /\ UNCHANGED <<capacity, object, start, writes>>

WriteFieldId ==
    /\ status = "writing"
    /\ LET f == Head(stack)
       IN  /\ f.op = "object" /\ ~Finished(f) /\ ~f.keyed
           /\ Emit(WriteUint(FieldOf(f).id), "raw_bytes",
                   <<[f EXCEPT !.keyed = TRUE]>> \o Tail(stack))
    /\ UNCHANGED <<capacity, object, start, writes>>

-----------------------------------------------------------------------------
(* The innermost call returns.                                             *)

Return ==
    /\ status = "writing"
    /\ Finished(Head(stack))
    /\ Head(stack).op # "root"
    /\ stack' = Advanced(Tail(stack))
    /\ UNCHANGED <<capacity, out, status, error, object, start, writes>>

EndWrite ==
    /\ status = "writing"
    /\ Finished(Head(stack))
    /\ Head(stack).op = "root"
    /\ stack' = <<>>
    /\ status' = "ok"
    /\ UNCHANGED <<capacity, out, error, object, start, writes>>

Annotated(e, f) ==
    CASE f.op = "object" ->
           WithType(WithStage(WithField(e, FieldOf(f).id),
                        IF f.keyed THEN "field_value" ELSE "field_id"), f.shape.type)
      [] f.op \in ItemKind -> WithStage(WithIndex(e, f.next - 1), Stage[f.op])
      [] f.op \in MapKind  -> WithStage(WithIndex(e, (f.next - 1) \div 2), "map")
      [] f.op \in {"tuple", "variant"} -> WithStage(e, Stage[f.op])
      [] OTHER             -> e

Unwind ==
    /\ status = "failing"
    /\ Head(stack).op # "root"
    /\ error' = Annotated(error, Head(stack))
    /\ stack' = Tail(stack)
    /\ UNCHANGED <<capacity, out, status, object, start, writes>>

Throw ==
    /\ status = "failing"
    /\ Head(stack).op = "root"
    /\ stack' = <<>>
    /\ status' = "error"
    /\ UNCHANGED <<capacity, out, error, object, start, writes>>

-----------------------------------------------------------------------------
Init ==
    /\ capacity \in Capacities
    /\ out = <<>>
    /\ stack = <<>>
    /\ status = "idle"
    /\ error = NoError
    /\ object = CHOOSE o \in Objects : TRUE
    /\ start = 0
    /\ writes = 0

Step ==
    \/ WriteScalar \/ WriteString \/ WriteBlob \/ OpenContainer \/ OpenObject
    \/ WriteFieldId \/ Return \/ EndWrite \/ Unwind \/ Throw

Next == BeginWrite \/ Step

Spec == Init /\ [][Next]_vars

=============================================================================
