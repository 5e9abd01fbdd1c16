------------------------------ MODULE YamlText ------------------------------
(***************************************************************************)
(* The text helpers and the scalars of the YAML reader: namespace detail   *)
(* of src/include/contract/adapters/yaml.hpp.                              *)
(*                                                                         *)
(* Text is a sequence of atoms: the characters the reader looks at, and    *)
(* runs of others, which are words.                                        *)
(***************************************************************************)
EXTENDS ContractSchema, SequencesExt

CONSTANTS
    Numerals,    \* the words that are numbers, with their values
    Null         \* std::nullopt, nullptr

(* An enum is the integer it is cast from; double counts whole numbers.    *)
Enum(max) == [kind |-> "enum", max |-> max]
Double == [kind |-> "double"]
Nullptr == [kind |-> "nullptr"]

ScalarCode ==
    [string |-> "invalid_string_scalar", view |-> "invalid_string_scalar",
     bool |-> "expected_boolean_scalar", nullptr |-> "expected_null_scalar",
     uint |-> "expected_integral_scalar", int |-> "expected_integral_scalar",
     double |-> "expected_floating_point_scalar", enum |-> "expected_enum_scalar"]

-----------------------------------------------------------------------------
IsSpace(ch) == ch \in {" ", "\t"}

Trim(text) ==
    LET ink == {i \in DOMAIN text : ~IsSpace(text[i])}
    IN  IF ink = {} THEN <<>> ELSE SubSeq(text, Min(ink), Max(ink))

(* The quotation mark that is open behind the first i atoms, if any.       *)
OpenQuote(text) ==
    LET open[i \in 0 .. Len(text)] ==
            IF i = 0 THEN "none"
            ELSE CASE text[i] = "'" /\ open[i - 1] # "\""  -> IF open[i - 1] = "'" THEN "none" ELSE "'"
                   [] text[i] = "\"" /\ open[i - 1] # "'" -> IF open[i - 1] = "\"" THEN "none" ELSE "\""
                   [] OTHER -> open[i - 1]
    IN  open

(* Mutant: a number sign is a comment wherever it stands.                  *)
StripAnyComment(text) ==
    LET signs == {i \in DOMAIN text : text[i] = "#"}
    IN  IF signs = {} THEN text ELSE SubSeq(text, 1, Min(signs) - 1)

(* strip_trailing_comment                                                  *)
StripComment(text) ==
    LET signs == {i \in DOMAIN text :
                    /\ text[i] = "#" /\ OpenQuote(text)[i - 1] = "none"
                    /\ i = 1 \/ IsSpace(text[i - 1])}
    IN  IF signs = {} THEN text ELSE SubSeq(text, 1, Min(signs) - 1)

Normalized(text) == Trim(StripComment(text))

IsQuoted(token) ==
    /\ Len(token) >= 2
    /\ Head(token) = Last(token) /\ Head(token) \in {"\"", "'"}

Body(token) == SubSeq(token, 2, Len(token) - 1)

WholeIn(token) ==
    CASE Len(token) = 1 /\ token[1] \in DOMAIN Numerals -> {Numerals[token[1]]}
      [] Len(token) = 2 /\ token[1] = "-" /\ token[2] \in DOMAIN Numerals -> {-Numerals[token[2]]}
      [] OTHER -> {}

(* parse_integral; nothing but a signed type may have a sign.              *)
NumberIn(token, min, max) ==
    {n \in WholeIn(token) : n \in min .. max /\ (Head(token) = "-" => min < 0)}

(* strtod, which takes no text at all for zero.                            *)
DoubleIn(token) == IF token = <<>> THEN {0} ELSE WholeIn(token)

Escapes == "\\" :> "\\" @@ "\"" :> "\"" @@ "n" :> "\n" @@ "r" :> "\r" @@ "t" :> "\t"

(* unescape_double_quoted: the text, and how many atoms of `body' made it; *)
(* a bad escape leaves what was in front of it.                            *)
Unescaped(body) ==
    LET upto[i \in 0 .. Len(body)] ==
            IF i = 0 THEN [text |-> <<>>, escape |-> FALSE, ok |-> TRUE]
            ELSE LET r  == upto[i - 1]
                     ch == body[i]
                 IN  CASE ~r.ok -> r
                       [] r.ok /\ r.escape -> IF ch \in DOMAIN Escapes
                                      THEN [r EXCEPT !.text = Append(@, Escapes[ch]), !.escape = FALSE]
                                      ELSE [r EXCEPT !.ok = FALSE]
                       [] r.ok /\ ~r.escape /\ ch = "\\" -> [r EXCEPT !.escape = TRUE]
                       [] OTHER -> [r EXCEPT !.text = Append(@, ch)]
        all == upto[Len(body)]
    IN  [ok |-> all.ok /\ ~all.escape, value |-> all.text]

Parsed(v) == [ok |-> TRUE, value |-> v]
Unparsed(v) == [ok |-> FALSE, value |-> v]

OneOf(values, old) == IF values = {} THEN Unparsed(old) ELSE Parsed(CHOOSE v \in values : TRUE)

(* parse_string                                                            *)
ParseString(token) ==
    IF ~IsQuoted(token) THEN Parsed(token)
    ELSE IF Head(token) = "\"" THEN Unescaped(Body(token)) ELSE Parsed(Body(token))

(* unquote_string_view; a view shows a line that the reader keeps.         *)
ParseView(token, old) ==
    LET forbidden == IF Head(token) = "\"" THEN "\\" ELSE "'"
    IN  IF ~IsQuoted(token) THEN Parsed(token)
        ELSE IF Contains(Body(token), forbidden) THEN Unparsed(old) ELSE Parsed(Body(token))

(* What the codec of a scalar makes of a token, when `old' is what it reads*)
(* into.                                                                   *)
ParseScalar(shape, token, old) ==
    CASE shape.kind = "string"  -> ParseString(token)
      [] shape.kind = "view"    -> ParseView(token, old)
      [] shape.kind = "bool"    -> OneOf({b \in BOOLEAN : token = <<IF b THEN "true" ELSE "false">>}, old)
      [] shape.kind = "nullptr" -> OneOf({n \in {Null} : token \in {<<"null">>, <<"~">>}}, old)
      [] shape.kind = "uint"    -> OneOf(NumberIn(token, 0, shape.max), old)
      [] shape.kind = "int"     -> OneOf(NumberIn(token, shape.min, shape.max), old)
      [] shape.kind = "enum"    -> OneOf(NumberIn(token, 0, shape.max), old)
      [] shape.kind = "double"  -> OneOf(DoubleIn(token), old)

=============================================================================
