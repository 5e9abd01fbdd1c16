------------------------------ MODULE JsonWriter ----------------------------
(***************************************************************************)
(* The JSON writer and its codecs: src/include/contract/adapters/json.hpp  *)
(* and json/*.hpp.                                                         *)
(*                                                                         *)
(* Text is a sequence of atoms: characters JSON treats specially, and      *)
(* runs of others, whose spelling does not matter.  `todo' is what the     *)
(* codec calls in progress have still to do, innermost first.  Every       *)
(* insertion into the output may fail: an output of the program's own      *)
(* throws, an std::ostream goes bad without a word and swallows what is    *)
(* inserted from then on.  An insertion is all or nothing.                 *)
(*                                                                         *)
(* Codecs of the program's own that take the field descriptor, and floats  *)
(* that are no numbers, are left out.                                      *)
(***************************************************************************)
EXTENDS ContractSchema, SequencesExt

CONSTANTS
    Null,        \* std::nullopt, nullptr
    Modes,       \* the json::options the program may have chosen
    MaxFaults    \* bound: how often the output fails

VARIABLES
    out,      \* the atoms in the output
    output,   \* throwing: a failing insertion throws; stream: it sets badbit
    bad,      \* the stream's badbit
    opt,      \* the writer's options
    stack,    \* writer::stack_: for each open object or array, whether its
              \* next member or item is its first
    todo,     \* what the codecs have still to do
    thrown,   \* an exception is on its way out of the codecs
    faults    \* history: how often the output failed

writerVars == <<out, output, bad, opt, stack, todo, thrown, faults>>

(* security_mode, for each of the security attributes.                     *)
Marks == {"no_log", "secret", "sensitive"}

ASSUME ModesAssumption == Modes \subseteq [Marks -> {"ignore", "omit", "redact"}]
ASSUME MaxFaultsAssumption == MaxFaults \in Nat

(* An object's shape lists its members; `marks' are the security           *)
(* attributes of a field.                                                  *)
Member(name, shape, marks) == [name |-> name, shape |-> shape, marks |-> marks]
ObjectOf(members)          == [kind |-> "object", members |-> members]
Char                       == [kind |-> "char"]
CString                    == [kind |-> "cstring"]

-----------------------------------------------------------------------------
(* What a codec does, in order.                                            *)

Put(text)         == [op |-> "put", text |-> text, frame |-> "same"]
Open(bracket)     == [op |-> "put", text |-> <<bracket>>, frame |-> "push"]
Close(bracket)    == [op |-> "put", text |-> <<bracket>>, frame |-> "pop"]
Item              == [op |-> "item"]
Value(shape, val) == [op |-> "value", shape |-> shape, val |-> val]
Field(member, val) == [op |-> "field", member |-> member, val |-> val]

(* escape_json_string: what stands for a character.                        *)
Escape(char) ==
    CASE char = "\"" -> <<"\\", "\"">>
      [] char = "\\" -> <<"\\", "\\">>
      [] char = "\n" -> <<"\\", "n">>
      [] char = "\r" -> <<"\\", "r">>
      [] char = "\t" -> <<"\\", "t">>
      [] char = "NUL" -> <<"\\", "u0000">>
      [] char = "DEL" -> <<"\\", "u007f">>
      [] OTHER -> <<char>>

Escaped(text) == FlattenSeq([i \in DOMAIN text |-> Escape(text[i])])

WriteString(text) == <<Put(<<"\"">>), Put(Escaped(text)), Put(<<"\"">>)>>

WriteNumber(n) == <<Put(<<ToString(n)>>)>>

WriteNull == <<Put(<<"null">>)>>

BeginMember(name) == <<Item>> \o WriteString(<<name>>) \o <<Put(<<":">>)>>

(* The codecs: what each of them does with a value.                        *)

WriteObject(shape, val) ==
    <<Open("{")>> \o [i \in DOMAIN val |-> Field(shape.members[i], val[i])] \o <<Close("}")>>

WriteBool(val) == <<Put(<<IF val THEN "true" ELSE "false">>)>>

WriteCString(val) == IF val = Null THEN WriteNull ELSE WriteString(val)

(* std::bitset::to_string begins with the highest bit.                     *)
WriteBitset(val) == WriteString([i \in DOMAIN val |-> ToString(val[Len(val) + 1 - i])])

WriteOptional(shape, val) == IF val = Null THEN WriteNull ELSE <<Value(shape.elem, val)>>

WriteItems(values) ==
    <<Open("[")>> \o FlattenSeq([i \in DOMAIN values |-> <<Item, values[i]>>])
    \o <<Close("]")>>

WriteVector(shape, val) == WriteItems([i \in DOMAIN val |-> Value(shape.elem, val[i])])

WriteTuple(shape, val) == WriteItems([i \in DOMAIN val |-> Value(shape.elems[i], val[i])])

WriteVariant(shape, val) ==
    WriteItems(WriteNumber(val[1] - 1) \o <<Value(shape.elems[val[1]], val[2])>>)

(* trim_trailing_zeros                                                     *)
Trimmed(text) ==
    SubSeq(text, 1, Cardinality({i \in DOMAIN text : \E j \in i .. Len(text) : text[j] # "NUL"}))

(* An array of characters is a text.                                       *)
WriteArray(shape, val) ==
    IF shape.elem = Char THEN WriteString(Trimmed(val)) ELSE WriteVector(shape, val)

(* A map is an array of its entries, which are arrays.                     *)
WriteMap(shape, val, keys) ==
    LET entry(k) == WriteItems(<<Value(shape.key, k), Value(shape.elem, val[k])>>)
    IN  <<Open("[")>> \o FlattenSeq([i \in DOMAIN keys |-> <<Item>> \o entry(keys[i])])
        \o <<Close("]")>>

(* A map is visited in the order of its keys, an unordered one in any.     *)
KeyOrders(kind, keys) ==
    {order \in SetToSeqs(keys) :
        kind = "map" => \A i \in 2 .. Len(order) : order[i - 1] < order[i]}

(* What codec<T>::write does: one of these.                                *)
Codec(shape, val) ==
    CASE shape.kind = "object"   -> {WriteObject(shape, val)}
      [] shape.kind \in {"uint", "int"} -> {WriteNumber(val)}
      [] shape.kind = "bool"     -> {WriteBool(val)}
      [] shape.kind = "string"   -> {WriteString(val)}
      [] shape.kind = "char"     -> {WriteString(<<val>>)}
      [] shape.kind = "cstring"  -> {WriteCString(val)}
      [] shape.kind = "bitset"   -> {WriteBitset(val)}
      [] shape.kind = "optional" -> {WriteOptional(shape, val)}
      [] shape.kind = "vector"   -> {WriteVector(shape, val)}
      [] shape.kind = "array"    -> {WriteArray(shape, val)}
      [] shape.kind = "tuple"    -> {WriteTuple(shape, val)}
      [] shape.kind = "variant"  -> {WriteVariant(shape, val)}
      [] shape.kind \in MapKind  ->
           {WriteMap(shape, val, keys) : keys \in KeyOrders(shape.kind, DOMAIN val)}

-----------------------------------------------------------------------------
Doing(op) == ~thrown /\ todo # <<>> /\ Head(todo).op = op

(* The head of `todo' is replaced by these steps.                          *)
Replace(steps) ==
    /\ todo' = steps \o Tail(todo)
    /\ UNCHANGED <<out, output, bad, opt, thrown, faults>>

WriteValue ==
    /\ Doing("value")
    /\ \E steps \in Codec(Head(todo).shape, Head(todo).val) : Replace(steps)
    /\ UNCHANGED stack

(* Mutant: one of a field's attributes decides.                            *)
HidingOne(marks) ==
    IF "no_log" \in marks THEN {opt.no_log} ELSE {opt[m] : m \in marks}

(* The modes the options give a field's attributes.                        *)
Hiding(marks) == {opt[m] : m \in marks}

(* writer::field: an omitted field leaves no trace, not even a comma.      *)
WriteMember(member, val) ==
    IF "omit" \in Hiding(member.marks) THEN <<>>
    ELSE BeginMember(member.name) \o
         IF "redact" \in Hiding(member.marks) THEN WriteString(<<"<redacted>">>)
         ELSE <<Value(member.shape, val)>>

WriteField ==
    /\ Doing("field")
    /\ Replace(WriteMember(Head(todo).member, Head(todo).val))
    /\ UNCHANGED stack

(* writer::begin_value                                                     *)
BeginValue ==
    /\ Doing("item")
    /\ IF stack # <<>> /\ ~Head(stack)
       THEN Replace(<<Put(<<",">>)>>) /\ UNCHANGED stack
       ELSE Replace(<<>>) /\ stack' = [i \in DOMAIN stack |-> i > 1 /\ stack[i]]

(* out_ << text, and what the writer does to its stack behind it.          *)
Inserted ==
    /\ todo' = Tail(todo)
    /\ stack' = CASE Head(todo).frame = "push" -> <<TRUE>> \o stack
                  [] Head(todo).frame = "pop"  -> Tail(stack)
                  [] Head(todo).frame = "same" -> stack
    /\ UNCHANGED <<output, opt, thrown>>

Insert ==
    /\ Doing("put")
    /\ out' = IF bad THEN out ELSE out \o Head(todo).text
    /\ Inserted
    /\ UNCHANGED <<bad, faults>>

(* The stream fails: what is inserted is lost, and nobody is told.         *)
InsertBad ==
    /\ Doing("put")
    /\ output = "stream" /\ ~bad /\ faults < MaxFaults
    /\ bad' = TRUE
    /\ faults' = faults + 1
    /\ Inserted
    /\ UNCHANGED out

(* An output that throws: the codecs are left where they were.             *)
InsertThrows ==
    /\ Doing("put")
    /\ output = "throwing" /\ faults < MaxFaults
    /\ faults' = faults + 1
    /\ thrown' = TRUE
    /\ todo' = <<>>
    /\ UNCHANGED <<out, output, bad, opt, stack>>

WriterInit ==
    /\ out = <<>>
    /\ output \in {"throwing", "stream"}
    /\ bad = FALSE
    /\ opt \in Modes
    /\ stack = <<>>
    /\ todo = <<>>
    /\ thrown = FALSE
    /\ faults = 0

WriterStep ==
    WriteValue \/ WriteField \/ BeginValue \/ Insert \/ InsertBad \/ InsertThrows

=============================================================================
