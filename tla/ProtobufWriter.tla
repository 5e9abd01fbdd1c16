--------------------------- MODULE ProtobufWriter ---------------------------
(***************************************************************************)
(* The writer of the protobuf adapter and its codecs:                      *)
(* src/include/contract/adapters/protobuf.hpp and protobuf/*.hpp.          *)
(*                                                                         *)
(* `agenda' is what the calls in progress still have to do, in order.  A   *)
(* length goes in front of what it measures: the codec first writes the    *)
(* value with a sizing writer into a counting_output, which has default    *)
(* options, then the length, then the value again.  While `counters' is    *)
(* not empty, a sizing writer is at work; a sizing writer that needs a     *)
(* length starts another.                                                  *)
(*                                                                         *)
(* A window output takes what fits of a run of bytes, and the writer       *)
(* fails; a write-style output takes all or nothing, and how much it took  *)
(* is not looked at.  A string_view or a const char* is written like the   *)
(* string it shows.                                                        *)
(***************************************************************************)
EXTENDS ProtobufFormat, Diagnostic, SequencesExt

CONSTANTS
    Fields, RootType, Objects, Capacities, MaxWrites, Null,
    Values,    \* the values it has codecs for: pairs of a type and a value
    Packings,  \* the settings of options::pack_repeated_scalars
    Sinks      \* the kinds of output: window, write

VARIABLES
    pack,      \* options::pack_repeated_scalars of this writer
    sink,      \* the kind of its output
    capacity,  \* the size of that
    out,       \* the bytes in it
    agenda,    \* what is left of the write in progress
    counters,  \* the counting_outputs in use, innermost first
    status,    \* idle, writing, ok, error
    error,     \* the writer's diagnostic
    object,    \* the object being written, or written last
    start,     \* how many bytes were out when its operator<< began
    writes     \* how often operator<< was called

setup == <<pack, sink, capacity>>
vars == <<setup, out, agenda, counters, status, error, object, start, writes>>

ASSUME CapacitiesAssumption == Capacities \subseteq Nat
ASSUME MaxWritesAssumption == MaxWrites \in Nat
ASSUME FieldsAssumption == RootType \in DOMAIN Fields /\ ValidFieldIds(Fields)
ASSUME PackingsAssumption == Packings \subseteq BOOLEAN
ASSUME SinksAssumption == Sinks \subseteq {"window", "write"}

(* The stages a failed write may name.                                     *)
WriteStage ==
    {"message_root", "field_value", "tag", "length", "varint", "fixed32", "fixed64"}

ASSUME StageAssumption == Absent \notin WriteStage

(* The objects and all they are made of have a codec.                      *)
ASSUME ValuesAssumption ==
    \A v \in Values :
        /\ WellTyped(Fields, v[1], v[2])
        /\ Parts(Fields, v[1], v[2], Null) \subseteq Values
ASSUME ObjectsAssumption ==
    Objects # {} /\ \A o \in Objects : <<Object(RootType), o>> \in Values

-----------------------------------------------------------------------------
(* The tasks of an agenda.  `who' is the field a failure is put down to.   *)

Put(bytes, stage, who) == [do |-> "put", bytes |-> bytes, stage |-> stage, who |-> who]

(* The codec of a value, with the field it is for or without.              *)
Keyed(id, shape, val, who) ==
    [do |-> "keyed", id |-> id, shape |-> shape, val |-> val, who |-> who]

Bare(shape, val, who) == [do |-> "bare", shape |-> shape, val |-> val, who |-> who]

(* `body' is measured; then `head', the length and `body' are written.     *)
Sized(head, body, who) == [do |-> "sized", head |-> head, body |-> body, who |-> who]

Measured(task) == [task EXCEPT !.do = "measured"]

PutTag(id, wire, who) == Put(Tag(id, wire), "tag", who)
PutVarint(word, who)  == Put(Varint(word), "varint", who)

(* writer::write_message_by_index                                          *)
MessageTasks(type, val) ==
    [i \in DOMAIN Fields[type] |->
        LET id == Fields[type][i].id
        IN  Keyed(id, Fields[type][i].shape, val[id], id)]

(* The codecs of containers name the field they are given also when it is  *)
(* the position of a tuple or a part of a map entry; the others do not.    *)
PartTask(id, shape, val, who) ==
    Keyed(id, shape, val,
          IF shape.kind \in {"vector", "array", "bitset", "tuple", "variant"} \cup MapKind
          THEN id ELSE who)

EntryTasks(shape, val, key, who) ==
    << PartTask(1, shape.key, key, who), PartTask(2, shape.elem, val[key], who) >>

ItemTasks(elem, val, who) == [i \in DOMAIN val |-> Bare(elem, val[i], who)]

(* Whether repeated scalars are packed; a sizing writer has no options.    *)
Packs == counters # <<>> \/ pack

PacksVector(shape) == shape.kind = "vector" /\ IsScalar(shape.elem) /\ Packs

Ascending(keys) == \A i, j \in DOMAIN keys : i < j => keys[i] < keys[j]

(* std::map visits its keys in order, std::unordered_map in any.           *)
Orders(task) ==
    CASE task.shape.kind = "map"           -> {keys \in SetToSeqs(DOMAIN task.val) : Ascending(keys)}
      [] task.shape.kind = "unordered_map" -> SetToSeqs(DOMAIN task.val)
      [] OTHER                             -> {<<>>}

-----------------------------------------------------------------------------
(* The index of the alternative, and its payload behind a length.          *)
VariantTasks(t) ==
    << Sized(<<PutTag(1, VarintWire, t.who), PutVarint(t.val[1] - 1, t.who),
               PutTag(2, DelimitedWire, t.who)>>,
             <<Bare(t.shape.elems[t.val[1]], t.val[2], t.who)>>, t.who) >>

(* An empty optional is not written.                                       *)
OptionalTasks(t, task) == IF t.val = Null THEN <<>> ELSE <<task>>

(* What the codec of a bare value does.                                    *)
BareTasks(t, order) ==
    LET shape == t.shape
    IN  CASE IsScalar(shape) ->
               <<Put(ScalarBytes(shape, t.val),
                     IF shape.kind # "raw" THEN "varint"
                     ELSE IF shape.width = 4 THEN "fixed32" ELSE "fixed64", t.who)>>
          [] IsBlob(shape) ->
               LET bytes == BlobBytes(shape, t.val)
               IN  <<PutVarint(Len(bytes), t.who), Put(bytes, "field_value", t.who)>>
          [] shape.kind = "object" -> MessageTasks(shape.type, t.val)
          [] shape.kind = "tuple"  ->
               [i \in DOMAIN shape.elems |-> PartTask(i, shape.elems[i], t.val[i], t.who)]
          [] shape.kind = "variant"  -> VariantTasks(t)
          [] shape.kind = "optional" -> OptionalTasks(t, Bare(shape.elem, t.val, t.who))
          [] shape.kind \in {"vector", "array"} /\ ~IsBlob(shape) ->
               LET items == ItemTasks(shape.elem, t.val, t.who)
               IN  IF shape.kind = "array" \/ (PacksVector(shape) /\ t.val # <<>>)
                   THEN <<Sized(<<>>, items, t.who)>> ELSE items
          [] shape.kind \in MapKind ->
               [i \in DOMAIN order |->
                   Sized(<<>>, EntryTasks(shape, t.val, order[i], t.who), t.who)]

(* What it does for a field: a key, and a length for what has none.        *)
KeyedTasks(t, order) ==
    LET shape == t.shape
        tag   == <<PutTag(t.id, WireOf(shape), t.who)>>
        bare  == <<Bare(shape, t.val, t.who)>>
    IN  CASE shape.kind \in {"object", "tuple", "variant"} -> <<Sized(tag, bare, t.who)>>
          [] shape.kind = "optional" ->
               OptionalTasks(t, Keyed(t.id, shape.elem, t.val, t.who))
          [] shape.kind = "vector" /\ ~PacksVector(shape) ->
               [i \in DOMAIN t.val |-> Keyed(t.id, shape.elem, t.val[i], t.who)]
          [] shape.kind \in MapKind ->
               [i \in DOMAIN order |->
                   Sized(tag, EntryTasks(shape, t.val, order[i], t.who), t.who)]
          [] OTHER -> tag \o bare

-----------------------------------------------------------------------------
(* operator<<                                                              *)

BeginWrite ==
    /\ status \in {"idle", "ok", "error"}
    /\ writes < MaxWrites
    /\ object' \in Objects
    /\ start' = Len(out)
    /\ writes' = writes + 1
    /\ agenda' = MessageTasks(RootType, object')
    /\ status' = "writing"
    /\ error' = NoError
    /\ UNCHANGED <<setup, out, counters>>

Doing(kinds) ==
    /\ status = "writing"
    /\ agenda # <<>>
    /\ Head(agenda).do \in kinds

CallCodec ==
    /\ Doing({"keyed", "bare"})
    /\ \E order \in Orders(Head(agenda)) :
          agenda' = (IF Head(agenda).do = "keyed" THEN KeyedTasks(Head(agenda), order)
                     ELSE BareTasks(Head(agenda), order)) \o Tail(agenda)
    /\ UNCHANGED <<setup, out, counters, status, error, object, start, writes>>

(* A sizing writer with a counting_output of its own: measure_encoded_size *)
Measure ==
    /\ Doing({"sized"})
    /\ counters' = <<0>> \o counters
    /\ agenda' = Head(agenda).body \o <<Measured(Head(agenda))>> \o Tail(agenda)
    /\ UNCHANGED <<setup, out, status, error, object, start, writes>>

WriteMeasured ==
    /\ Doing({"measured"})
    /\ counters' = Tail(counters)
    /\ LET task == Head(agenda)
       IN  agenda' = task.head \o <<PutVarint(Head(counters), task.who)>>
                     \o task.body \o Tail(agenda)
    /\ UNCHANGED <<setup, out, status, error, object, start, writes>>

(* counting_output::write: only how much it is.                            *)
CountBytes ==
    /\ Doing({"put"})
    /\ counters # <<>>
    /\ counters' = <<Head(counters) + Len(Head(agenda).bytes)>> \o Tail(counters)
    /\ agenda' = Tail(agenda)
    /\ UNCHANGED <<setup, out, status, error, object, start, writes>>

(* Mutant: room for the longest varint is asked for, and nothing tried     *)
(* without it.                                                             *)
RoomReserved(bytes) ==
    LET room == Prepared(capacity, Len(out), Smaller(MaxVarint, Len(bytes) + 9))
    IN  IF room < MaxVarint THEN 0 ELSE Prepared(capacity, Len(out), Len(bytes))

(* How many of the bytes the output takes.                                 *)
Room(bytes) ==
    LET room == Prepared(capacity, Len(out), Len(bytes))
    IN  IF sink = "write" /\ room < Len(bytes) THEN 0 ELSE room

(* Mutant: nothing but the code is known of a failure.                     *)
DiagnosedBarely(task) == WithCode(Emplaced(NoError, Len(out')), "output_error")

(* The diagnostic of a failed write, with what each caller adds.           *)
Diagnosed(task) ==
    LET made == WithCode(Emplaced(NoError, Len(out')), "output_error")
    IN  WithType(WithField(WithStage(made, task.stage), task.who), RootType)

(* writer::write_bytes, and what write_varint_payload commits directly.    *)
WriteBytes ==
    /\ Doing({"put"})
    /\ counters = <<>>
    /\ LET bytes == Head(agenda).bytes
       IN  /\ out' = out \o SubSeq(bytes, 1, Room(bytes))
           /\ IF sink = "write" \/ Room(bytes) = Len(bytes)
              THEN agenda' = Tail(agenda) /\ UNCHANGED <<status, error>>
              ELSE /\ agenda' = <<>>
                   /\ status' = "error"
                   /\ error' = Diagnosed(Head(agenda))
    /\ UNCHANGED <<setup, counters, object, start, writes>>

EndWrite ==
    /\ status = "writing"
    /\ agenda = <<>>
    /\ status' = "ok"
    /\ UNCHANGED <<setup, out, agenda, counters, error, object, start, writes>>

-----------------------------------------------------------------------------
Init ==
    /\ pack \in Packings
    /\ sink \in Sinks
    /\ capacity \in Capacities
    /\ out = <<>>
    /\ agenda = <<>>
    /\ counters = <<>>
    /\ status = "idle"
    /\ error = NoError
    /\ object = CHOOSE o \in Objects : TRUE
    /\ start = 0
    /\ writes = 0

Step == CallCodec \/ Measure \/ WriteMeasured \/ CountBytes \/ WriteBytes \/ EndWrite

Next == BeginWrite \/ Step

Spec == Init /\ [][Next]_vars

-----------------------------------------------------------------------------
(* Properties for any schema and any objects.                              *)

(* The variables have their types; a counting_output is in use for each    *)
(* length that is still to be written, and for nothing else.               *)
TypeOK ==
    /\ capacity \in Capacities
    /\ out \in Seq(Byte) /\ Len(out) <= capacity
    /\ \A i \in DOMAIN agenda :
          agenda[i].do \in {"put", "keyed", "bare", "sized", "measured"}
    /\ counters \in Seq(Nat)
    /\ Len(counters) = Cardinality({i \in DOMAIN agenda : agenda[i].do = "measured"})
    /\ status \in {"idle", "writing", "ok", "error"}
    /\ agenda # <<>> => status = "writing"
    /\ object \in Objects
    /\ start \in 0 .. Len(out)
    /\ writes \in 0 .. MaxWrites

(* docs/adapters/protobuf.md: "`reader` and `writer` keep detailed failure *)
(* data": a failed write has a code, a stage, a field and the type when    *)
(* operator<< throws, and names the end of the output; only a failed write *)
(* leaves a diagnostic.                                                    *)
DiagnosticComplete ==
    /\ status = "error" =>
          /\ error.code = "output_error"
          /\ error.stage # Absent /\ error.field # Absent /\ error.type = RootType
          /\ error.offset = Len(out)
    /\ status # "error" => error = NoError

=============================================================================
