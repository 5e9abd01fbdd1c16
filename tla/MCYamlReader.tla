---------------------------- MODULE MCYamlReader ----------------------------
(***************************************************************************)
(* YamlReader on a configuration of which a line was changed, dropped,     *)
(* doubled, moved or indented, and on every short document for the small   *)
(* root types; with an independent definition of what a document denotes.  *)
(***************************************************************************)
EXTENDS YamlReader

Values == "0" :> 0 @@ "7" :> 7 @@ "300" :> 300

Limits == Object("Limits")
Hint   == Object("Hint")

ConfigFields ==
    [Config |-> <<
        Descriptor(1, String, TRUE, NoLimit),
        Descriptor(2, Bool, FALSE, NoLimit),
        Descriptor(3, Limits, TRUE, NoLimit),
        Descriptor(4, Optional(Vector(String)), TRUE, NoLimit),
        Descriptor(5, Tuple(<<Uint(255), View>>), TRUE, NoLimit),
        Descriptor(6, Optional(String), FALSE, NoLimit),
        Descriptor(7, Vector(Limits), TRUE, NoLimit),
        Descriptor(8, Optional(Hint), TRUE, NoLimit),
        Descriptor(9, Array(Enum(255), 2), FALSE, NoLimit) >>,
     Limits |-> <<
        Descriptor(1, Sint(-128, 127), TRUE, NoLimit),
        Descriptor(2, Double, TRUE, NoLimit) >>,
     Hint |-> <<
        Descriptor(1, Optional(Nullptr), TRUE, NoLimit),
        Descriptor(2, Optional(Uint(255)), TRUE, NoLimit) >>]

(* Fields of two types have the same name.                                 *)
FieldNames ==
    [Config |-> << <<"service">>, <<"enabled">>, <<"limits">>, <<"tags">>, <<"stage">>,
                   <<"note">>, <<"all">>, <<"hint">>, <<"modes">> >>,
     Limits |-> << <<"max">>, <<"ratio">> >>,
     Hint   |-> << <<"note">>, <<"max">> >>]

SmallRoots == {String, Uint(255), Optional(Uint(255)), Optional(Hint), Vector(Uint(255)), Hint}

ConfigShapes ==
    FoldLeft(LAMBDA shapes, level :
                shapes \cup UNION {Components(ConfigFields, s) : s \in shapes},
             {Object("Config")} \cup SmallRoots, [level \in 1 .. 8 |-> level])

MCOptions == [{"fail_on_unknown_keys", "fail_on_duplicate_keys"} -> BOOLEAN]

-----------------------------------------------------------------------------
Line(indent, text) == [indent |-> indent, text |-> text]

Whole ==
    << Line(0, <<"service", ":", " ", "'", "x", " ", "#", "y", "'", " ", "#", "z">>),
       Line(0, <<"limits", ":">>),
       Line(2, <<"max", " ", ":", "-", "7">>),
       Line(2, <<"ratio", ":", " ", "300">>),
       Line(0, <<"enabled", ":", " ", "true">>),
       Line(0, <<"tags", ":">>),
       Line(2, <<"-", " ", "x">>),
       Line(2, <<"-", "\"", "\\", "n", "\"">>),
       Line(0, <<"stage", ":">>),
       Line(2, <<"-", " ", "7">>),
       Line(2, <<"-", " ", "x", ":">>),
       Line(0, <<"all", ":">>),
       Line(2, <<"-">>),
       Line(4, <<"ratio", ":", "0">>),
       Line(4, <<"max", ":", "0">>),
       Line(0, <<"modes", ":">>),
       Line(2, <<"-", " ", "7">>),
       Line(2, <<"-", " ", "0">>),
       Line(0, <<"hint", ":">>),
       Line(2, <<"max", ":", " ", "7">>) >>

(* Texts to be put in the place of a line, or between two.                 *)
Texts ==
    { <<>>, <<"#", " ", "x">>, <<"x">>, <<"~">>, <<"7">>, <<"-">>, <<"-", " ", "7">>,
      <<"-", "\"", "\\", "x", "\"">>, <<"\t", "x">>, <<"\t">>, <<"\"", "a", ":", "b", "\"">>,
      <<"service", ":", "y">>, <<"service", ":", "\"", "y", "\\", "?", "\"">>,
      <<"note", ":", " ", "null">>, <<"note", ":">>, <<"tags", ":", " ", "~">>,
      <<"max", ":", "300">>, <<"max", ":">>, <<"ratio", ":">>, <<"limits", ":">>,
      <<"hint", ":">>, <<"x", ":">> }

Spliced(lines, i, j, middle) == SubSeq(lines, 1, i) \o middle \o SubSeq(lines, j, Len(lines))

Changed ==
    LET places == DOMAIN Whole
        at(i, lines) == Spliced(Whole, i - 1, i + 1, lines)
    IN  {Whole}
        \cup {at(i, <<>>) : i \in places}
        \cup {SubSeq(Whole, 1, i) : i \in places}
        \cup {at(i, <<Line(n, Whole[i].text)>>) : i \in places, n \in {0, 1, 2, 4}}
        \cup {at(i, <<Line(Whole[i].indent, text)>>) : i \in places, text \in Texts}
        \cup {at(i, <<Whole[i], Line(Whole[i].indent, text)>>) : i \in places, text \in Texts}
        \cup {at(i, <<Whole[i], Line(Whole[i].indent + 2, text)>>) : i \in places, text \in Texts}
        \cup {at(i, <<Whole[i], Whole[j]>>) : i \in places, j \in places}

SmallLines ==
    {Line(n, text) : n \in {0, 2},
        text \in { <<>>, <<"7">>, <<"-", "7">>, <<"~">>, <<"\t">>, <<"\"", "a", ":", "b", "\"">>,
                   <<"note", ":", "~">>, <<"max", ":", "7">>, <<"max", ":">> }}

Short == UNION {[1 .. n -> SmallLines] : n \in 0 .. 2}

Documents == Object("Config") :> Changed @@ [shape \in SmallRoots |-> Short]

(* Values no document has.                                                 *)
OldLimits == <<9, 9>>
OldObjects ==
    Object("Config") :>
        [id \in 1 .. 9 |->
            CASE id = 1 -> <<"old">> [] id = 2 -> FALSE [] id = 3 -> OldLimits
              [] id = 4 -> << <<"old">> >> [] id = 5 -> <<9, <<"old">> >> [] id = 6 -> <<"old">>
              [] id = 7 -> <<OldLimits>> [] id = 8 -> <<Null, 9>> [] id = 9 -> <<9, 9>>]
    @@ String :> <<"old">> @@ Uint(255) :> 9 @@ Optional(Uint(255)) :> 9
    @@ Optional(Hint) :> <<Null, 9>> @@ Vector(Uint(255)) :> <<9>> @@ Hint :> <<Null, 9>>

MCNumerals      == Values
MCFields        == ConfigFields
MCNames         == FieldNames
MCShapes        == ConfigShapes
MCInputs        == Documents
MCInitialObject == OldObjects

-----------------------------------------------------------------------------
(* What a document denotes, by its structure: a block is the lines of one  *)
(* indentation, each with the deeper lines behind it.                      *)

(* The lines of a block that begin an entry or an item, and what belongs   *)
(* to the one at n.                                                        *)
Heads(block, base) == {n \in block : input[n].indent = base}
Below(block, base, n) == {m \in block : m > n /\ \A k \in Heads(block, base) : k > n => m < k}

InOrder(lines) ==
    [i \in 1 .. Cardinality(lines) |->
        CHOOSE n \in lines : Cardinality({m \in lines : m <= n}) = i]

(* Every line is one of the block, and the first begins it.                *)
InBlock(block, base) ==
    /\ \A n \in block : input[n].indent >= base
    /\ block # {} => input[Min(block)].indent = base

Wrong == [ok |-> FALSE, value |-> Null]
Right(v) == [ok |-> TRUE, value |-> v]

Both(results) == IF \A i \in DOMAIN results : results[i].ok
                 THEN Right([i \in DOMAIN results |-> results[i].value]) ELSE Wrong

RECURSIVE Denoted(_, _, _, _)

(* The value with this text behind its key, and these lines below it.      *)
Denoted(shape, text, block, base) ==
    LET heads  == InOrder(Heads(block, base))
        item(n, elem) == Denoted(elem, Trim(Tail(Text(n))), Below(block, base, n), base + 2)
        entry(n, elem) == Denoted(elem, ValueOf(Text(n)), Below(block, base, n), base + 2)
        list(elems) == Both([i \in DOMAIN heads |-> item(heads[i], elems[i])])
        isList == InBlock(block, base) /\ \A i \in DOMAIN heads : Head(Text(heads[i])) = "-"
    IN  IF shape.kind = "optional"
        THEN IF block = {} /\ (text = <<>> \/ IsNull(text)) THEN Right(Null)
             ELSE IF text = <<>> /\ ~IsBlock(shape.elem) THEN Wrong
             ELSE Denoted(shape.elem, text, block, base)
        ELSE IF IsScalar(shape)
        THEN LET r == ParseScalar(shape, text, Null)
             IN  IF block = {} /\ r.ok THEN Right(r.value) ELSE Wrong
        ELSE IF text # <<>> \/ (block = {} /\ base > 0) THEN Wrong
        ELSE IF shape.kind = "vector"
        THEN IF isList THEN list([i \in DOMAIN heads |-> shape.elem]) ELSE Wrong
        ELSE IF shape.kind = "array"
        THEN IF isList /\ Len(heads) = shape.size THEN list([i \in DOMAIN heads |-> shape.elem]) ELSE Wrong
        ELSE IF shape.kind = "tuple"
        THEN IF isList /\ Len(heads) = Len(shape.elems) THEN list(shape.elems) ELSE Wrong
        ELSE LET ids     == FieldIds(Fields, shape.type)
                 isEntry == \A i \in DOMAIN heads : Head(Text(heads[i])) # "-" /\ Contains(Text(heads[i]), ":")
                 of(id)  == {n \in Heads(block, base) : KeyOf(Text(n)) = Names[shape.type][id]}
                 fieldShape(id) == DispatchFieldById(Fields, shape.type, id).shape
                 known   == UNION {of(id) : id \in ids}
                 value(id) == IF of(id) = {} THEN Right(Null) ELSE entry(Max(of(id)), fieldShape(id))
             IN  IF /\ InBlock(block, base) /\ isEntry
                    /\ \A n \in Heads(block, base) \ known :
                          ~opt.fail_on_unknown_keys /\ Below(block, base, n) = {}
                    /\ \A id \in ids :
                          /\ of(id) = {} => fieldShape(id).kind = "optional"
                          /\ opt.fail_on_duplicate_keys => Cardinality(of(id)) <= 1
                          /\ \A n \in of(id) : entry(n, fieldShape(id)).ok
                 THEN Right([id \in ids |-> value(id).value]) ELSE Wrong

(* A document that is a scalar is one line; one that is an optional may be *)
(* empty or say null.                                                      *)
IsScalarLine(n) ==
    /\ input[n].indent = 0 /\ Head(Text(n)) # "-"
    /\ IsQuoted(Text(n)) \/ ~Contains(Text(n), ":")

Bare(shape, rest) ==
    IF ~IsScalar(shape) THEN Denoted(shape, <<>>, rest, 0)
    ELSE IF Cardinality(rest) = 1 /\ IsScalarLine(Min(rest))
    THEN Denoted(shape, Text(Min(rest)), {}, 0) ELSE Wrong

Document(rest) ==
    IF root.kind # "optional" THEN Bare(root, rest)
    ELSE IF rest = {} \/ \E n \in rest : rest = {n} /\ input[n].indent = 0 /\ IsNull(Text(n))
    THEN Right(Null) ELSE Bare(root.elem, rest)

(* The lines that are left when a read begins: none behind a tab that was  *)
(* met, else those that were not consumed.                                 *)
Rest ==
    IF start.scanner.cached = None THEN {} ELSE {n \in Inked : n > start.scanner.last}

(* What the rest denotes: a document, or the value of the entry at which   *)
(* an earlier read ended.                                                  *)
Meant ==
    IF Rest \ Contents # {} THEN Wrong
    ELSE IF ~start.current.active THEN Document(Rest)
    ELSE Denoted(root, start.current.text, Rest, start.current.indent + 2)

WholeConfig ==
    << <<"x", " ", "#", "y">>, TRUE, <<-7, 300>>, << <<"x">>, <<"\n">> >>, <<7, <<"x", ":">> >>,
       Null, << <<0, 0>> >>, <<Null, 7>>, <<7, 0>> >>

(* What a program relies on when it reads a configuration: every read,     *)
(* also one after another on the same reader, succeeds exactly if what is  *)
(* left of the document denotes a value, which is then the object; and the *)
(* whole document is read as it is meant.                                  *)
DocumentRead ==
    status \in {"ok", "error"} =>
        /\ status = "ok" <=> Meant.ok
        /\ status = "ok" => object = Meant.value
        /\ input = Whole /\ reads = 1 => status = "ok" /\ object = WholeConfig

(* The entry at n, with what is below it, holds the line k.                *)
Holds(n, k) == n <= k /\ \A m \in Contents : n < m /\ m <= k => input[m].indent > input[n].indent

(* What a user relies on to find the fault: the diagnostic of a failed     *)
(* read is complete, the field it names is that of an entry which holds    *)
(* the line it names (the very line, if the fault is a scalar, or an item  *)
(* of it), and without a field it names a line of the outermost block, if  *)
(* any of it was read.  Only a scalar that is the document is consumed     *)
(* before it is refused: the line behind it is named, if there is one.  A  *)
(* line with a tab is itself not named, unless there is nothing else.      *)
DiagnosticLocated ==
    status = "error" /\ reads = 1 =>
        LET named  == error.field # Absent
            entry  == {n \in Contents : KeyOf(Text(n)) = Names[error.type][error.field]}
        IN  /\ error.code # Absent /\ error.stage # Absent
            /\ error.offset \in 1 .. Max({1, Len(input)})
            /\ named <=> error.type # Absent
            /\ named => \E n \in entry : Holds(n, error.offset)
            /\ named /\ error.stage = "scalar" =>
                  error.offset \in entry \/ Head(Text(error.offset)) = "-"
            /\ ~named /\ current.active => input[error.offset].indent = 0
            /\ ~current.active /\ scanner.last # None =>
                  error.offset = Min({n \in Contents : n > scanner.last} \cup {Max(Contents)})
            /\ error.code = "tabs_not_supported" /\ Contents # {} => ~Tabbed(error.offset)

(* What a program may still use after a failed read: a field whose key did *)
(* not come up is as it was, or reset where the fault is not in a field;   *)
(* one behind set() is as it was or has the whole value of an entry, as far*)
(* as that was read.                                                       *)
DamageConfined ==
    status = "error" /\ reads = 1 /\ root = Object("Config") =>
        \A i \in DOMAIN Fields.Config :
            LET field == Fields.Config[i]
                old   == InitialObject[root][field.id]
                mine  == {n \in Heads(Contents, 0) : KeyOf(Text(n)) = Names.Config[field.id]}
                value(n, k) == Denoted(field.shape, ValueOf(Text(n)), Below(Contents, 0, n) \cap 1 .. k, 2)
            IN  \/ object[field.id] = old
                \/ /\ mine = {} /\ object[field.id] = Null
                   /\ field.shape.kind = "optional" /\ error.field = Absent
                \/ mine # {} /\ field.direct
                \/ \E n \in mine : \E k \in Inked : value(n, k) = Right(object[field.id])

=============================================================================
