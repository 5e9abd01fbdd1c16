--------------------------- MODULE ContractSchema ---------------------------
(***************************************************************************)
(* What a CONTRACT definition tells an adapter: for each contract type the *)
(* sequence of its flattened field descriptors, in declaration order       *)
(* (src/include/contract/field.hpp, definition.hpp and visit.hpp).         *)
(*                                                                         *)
(* A table of fields is a function from type names to sequences of         *)
(* descriptors                                                             *)
(*   [id      |-> the effective field id,                                  *)
(*    shape   |-> the shape of the field's value,                          *)
(*    direct  |-> whether the adapter reads into the live field            *)
(*                (can_direct_ref) or into a temporary it hands to set(),  *)
(*    limit   |-> its check::max_items or check::max_length, or NoLimit,   *)
(*    bytes   |-> its check::max_bytes, or NoLimit,                        *)
(*    encrypt |-> whether it has security::encrypt]                        *)
(* and a shape is a record whose kind says which codec<T> serves it; a     *)
(* composite shape holds the shapes of its parts.  `raw' are the scalars   *)
(* of an adapter that copies their bytes.                                  *)
(***************************************************************************)
EXTENDS Integers, Sequences

(* A sequence, of whatever elements.                                       *)
IsSeq(s) == s \in Seq({s[i] : i \in DOMAIN s})

NoLimit == -1

(* Mutant: a container that holds exactly as many as allowed is refused.   *)
ExceedsOrMeets(limit, count) == limit # NoLimit /\ count >= limit

Exceeds(limit, count) == limit # NoLimit /\ count > limit

Uint(max)       == [kind |-> "uint", max |-> max]
Sint(min, max)  == [kind |-> "int", min |-> min, max |-> max]
Bool            == [kind |-> "bool"]
Float           == [kind |-> "float32"]
Raw(width)      == [kind |-> "raw", width |-> width]
String          == [kind |-> "string"]
View            == [kind |-> "view"]
Bitset(size)    == [kind |-> "bitset", size |-> size]
Vector(elem)    == [kind |-> "vector", elem |-> elem]
Array(elem, size) == [kind |-> "array", elem |-> elem, size |-> size]
Span(elem, size)  == [kind |-> "span", elem |-> elem, size |-> size]
Map(key, elem)  == [kind |-> "map", key |-> key, elem |-> elem]
UnorderedMap(key, elem) == [kind |-> "unordered_map", key |-> key, elem |-> elem]
Optional(elem)  == [kind |-> "optional", elem |-> elem]
Tuple(elems)    == [kind |-> "tuple", elems |-> elems]
Variant(elems)  == [kind |-> "variant", elems |-> elems]
Object(type)    == [kind |-> "object", type |-> type]

ScalarKind == {"uint", "int", "bool", "float32"}
MapKind    == {"map", "unordered_map"}

Descriptor(id, shape, direct, limit) ==
    [id |-> id, shape |-> shape, direct |-> direct, limit |-> limit,
     bytes |-> NoLimit, encrypt |-> FALSE]

Encrypted(descriptor)         == [descriptor EXCEPT !.encrypt = TRUE]
WithMaxBytes(descriptor, max) == [descriptor EXCEPT !.bytes = max]

FieldIds(fields, type) == {fields[type][i].id : i \in DOMAIN fields[type]}

(* dispatch_field_by_id: the declared field with this effective id.        *)
DispatchFieldById(fields, type, id) ==
    fields[type][CHOOSE i \in DOMAIN fields[type] : fields[type][i].id = id]

(* What a definition and its field-id validation guarantee before any      *)
(* adapter runs: fields follow each other, ids are positive and no two     *)
(* fields of a type share one.                                             *)
ValidFieldIds(fields) ==
    \A type \in DOMAIN fields :
        /\ IsSeq(fields[type])
        /\ \A i, j \in DOMAIN fields[type] :
              /\ fields[type][i].id \in Nat \ {0}
              /\ fields[type][i].id = fields[type][j].id => i = j

-----------------------------------------------------------------------------
(* The value types a program has codecs for: those of its fields, and the  *)
(* types these are made of.                                                *)
Components(fields, shape) ==
    CASE shape.kind \in {"vector", "optional", "array", "span"} -> {shape.elem}
      [] shape.kind \in MapKind -> {shape.key, shape.elem}
      [] shape.kind \in {"tuple", "variant"} -> {shape.elems[i] : i \in DOMAIN shape.elems}
      [] shape.kind = "object"  -> {fields[shape.type][i].shape : i \in DOMAIN fields[shape.type]}
      [] OTHER                  -> {}

ValidShapes(shapes, fields) ==
    \A shape \in shapes :
        /\ shape.kind = "object" => shape.type \in DOMAIN fields
        /\ shape.kind \in {"tuple", "variant"} => shape.elems \in Seq(shapes)
        /\ shape.kind \in {"bitset", "array", "span"} => shape.size \in Nat
        /\ shape.kind = "raw" => shape.width \in Nat \ {0}
        /\ Components(fields, shape) \subseteq shapes

(* value_type{}: the value a codec reads into when it is not given a live  *)
(* field.  `none' stands for std::nullopt.  A span is never made this way: *)
(* the user's object comes with the storage its spans refer to.            *)
Default(fields, shapes, shape, none) ==
    LET leaf == [uint |-> 0, int |-> 0, bool |-> FALSE,
                 float32 |-> <<0, 0, 0, 0>>, string |-> <<>>, vector |-> <<>>,
                 enum |-> 0, double |-> 0, nullptr |-> none,
                 map |-> <<>>, unordered_map |-> <<>>, optional |-> none,
                 view |-> [scratch |-> FALSE, at |-> 0, size |-> 0]]
        value[s \in shapes] ==
            CASE s.kind = "raw"     -> [i \in 1 .. s.width |-> 0]
              [] s.kind = "bitset"  -> [i \in 1 .. s.size |-> 0]
              [] s.kind \in {"array", "span"} -> [i \in 1 .. s.size |-> value[s.elem]]
              [] s.kind = "tuple"   -> [i \in DOMAIN s.elems |-> value[s.elems[i]]]
              [] s.kind = "variant" -> <<1, value[s.elems[1]]>>
              [] s.kind = "object"  ->
                   [id \in FieldIds(fields, s.type) |->
                       value[DispatchFieldById(fields, s.type, id).shape]]
              [] OTHER              -> leaf[s.kind]
    IN  value[shape]

=============================================================================
