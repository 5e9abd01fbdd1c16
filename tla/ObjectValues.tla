---------------------------- MODULE ObjectValues ----------------------------
(***************************************************************************)
(* When an object of a contract type is well formed: every value in it, at *)
(* whatever depth, is one of its C++ type, and every container field is    *)
(* within its check::max_items.                                            *)
(*                                                                         *)
(* A node is a value with the shape it has and the limit it is held to.    *)
(***************************************************************************)
EXTENDS ContractSchema, ByteWindow, FiniteSets

Node(shape, val, limit) == [shape |-> shape, val |-> val, limit |-> limit]

(* The parts of a composite value.  A limit is that of a field.            *)
PartNodes(fields, x, none) ==
    LET s == x.shape
        v == x.val
    IN  CASE s.kind \in {"vector", "array", "span"} ->
               {Node(s.elem, v[i], NoLimit) : i \in DOMAIN v}
          [] s.kind \in MapKind ->
               {Node(s.key, k, NoLimit) : k \in DOMAIN v}
               \cup {Node(s.elem, v[k], NoLimit) : k \in DOMAIN v}
          [] s.kind = "optional" -> IF v = none THEN {} ELSE {Node(s.elem, v, NoLimit)}
          [] s.kind = "tuple" -> {Node(s.elems[i], v[i], NoLimit) : i \in DOMAIN s.elems}
          [] s.kind = "variant" -> {Node(s.elems[v[1]], v[2], NoLimit)}
          [] s.kind = "object" ->
               {Node(fields[s.type][i].shape, v[fields[s.type][i].id],
                     fields[s.type][i].limit) : i \in DOMAIN fields[s.type]}
          [] OTHER -> {}

(* The value is one of its type, its parts aside: a number is in range, a  *)
(* block of fixed size has that size, a container is within its limit, a   *)
(* variant holds one of its alternatives, no field is lost or added.       *)
OneOfItsType(fields, x) ==
    LET s == x.shape
        v == x.val
    IN  CASE s.kind = "uint"    -> v \in 0 .. s.max
          [] s.kind = "int"     -> v \in s.min .. s.max
          [] s.kind = "bool"    -> v \in BOOLEAN
          [] s.kind = "float32" -> v \in [1 .. 4 -> Byte]
          [] s.kind = "raw"     -> v \in [1 .. s.width -> Byte]
          [] s.kind = "string"  -> v \in Seq(Byte)
          [] s.kind = "bitset"  -> v \in [1 .. s.size -> {0, 1}]
          [] s.kind = "vector"  -> IsSeq(v) /\ ~Exceeds(x.limit, Len(v))
          [] s.kind \in {"array", "span"} -> v = [i \in 1 .. s.size |-> v[i]]
          [] s.kind = "tuple"   -> v = [i \in DOMAIN s.elems |-> v[i]]
          [] s.kind \in MapKind ->
               /\ v = [k \in DOMAIN v |-> v[k]]
               /\ IsFiniteSet(DOMAIN v)
               /\ ~Exceeds(x.limit, Cardinality(DOMAIN v))
          [] s.kind = "variant" -> v = <<v[1], v[2]>> /\ v[1] \in DOMAIN s.elems
          [] s.kind = "object"  -> v = [id \in FieldIds(fields, s.type) |-> v[id]]
          [] OTHER              -> TRUE

(* The nodes that lie 0, 1, ... `depth' levels below a node.               *)
LevelsBelow(fields, x, none, depth) ==
    LET level[n \in 0 .. depth] ==
            IF n = 0 THEN {x}
            ELSE UNION {PartNodes(fields, y, none) : y \in level[n - 1]}
    IN  level

WellFormed(fields, x, none, depth) ==
    \A n \in 0 .. depth :
        \A y \in LevelsBelow(fields, x, none, depth)[n] : OneOfItsType(fields, y)

(* Well formed, and nothing lies deeper.                                   *)
WhollyWellFormed(fields, x, none, depth) ==
    /\ WellFormed(fields, x, none, depth)
    /\ \A y \in LevelsBelow(fields, x, none, depth)[depth] :
          PartNodes(fields, y, none) = {}

=============================================================================
