------------------------------- MODULE MCLogger -----------------------------
(***************************************************************************)
(* Logger with calls whose attributes take every codec, and outputs that   *)
(* fail at every insertion.                                                *)
(***************************************************************************)
EXTENDS Logger

(* Values under each security attribute, one of them at the front of its   *)
(* object, one alone in it, and one under two attributes.                  *)
Token   == [shape |-> ObjectOf(<<Member("token", String, {"secret"}),
                                 Member("order", Uint(255), {})>>),
            val |-> << <<"s3cret">>, 17>>]
Contact == [shape |-> ObjectOf(<<Member("email", CString, {"sensitive"})>>),
            val |-> << <<"m@il">> >>]
Session == [shape |-> ObjectOf(<<Member("id", Char, {}),
                                 Member("trace", String, {"no_log", "secret"}),
                                 Member("host", CString, {})>>),
            val |-> << "\"", <<"tr@ce">>, Null>>]

Arg(name, shape, val) == [name |-> <<name>>, shape |-> shape, val |-> val]

Nested == Tuple(<<Optional(Token.shape), Map(Uint(255), Vector(Contact.shape)), Optional(Bool)>>)

Loose == UnorderedMap(Uint(255), Bitset(2))

(* A call without arguments, and one with a value for every codec.         *)
MCCalls ==
    { [level |-> "info", name |-> <<"started">>, body |-> Null, context |-> Null,
       attributes |-> <<>>],
      [level |-> "error", name |-> <<"failed">>, body |-> <<"a", "\n", "\"", "NUL">>,
       context |-> Session,
       attributes |-> <<
          Arg("nested", Nested, <<Token.val, 3 :> <<Contact.val>> @@ 12 :> <<>>, Null>>),
          Arg("loose", Loose, [k \in {1, 2} |-> <<0, 1>>]),
          Arg("text", Array(Char, 3), <<"NUL", "\\", "NUL">>),
          Arg("pick", Variant(<<Bool, Array(Sint(-9, 9), 2)>>), <<2, <<-1, 1>> >>)>>] }

ModesOf(noLog, secret, sensitive) ==
    [no_log |-> noLog, secret |-> secret, sensitive |-> sensitive]

MCModes ==
    {ModesOf("omit", "redact", "omit"), ModesOf("ignore", "redact", "ignore")}

-----------------------------------------------------------------------------
(* The JSON text of a value, from the grammar: what an object or array     *)
(* holds, joined by commas.                                                *)

Joined(texts) ==
    FoldLeft(LAMBDA a, b : a \o (IF a = <<>> THEN <<>> ELSE <<",">>) \o b, <<>>, texts)

Quoted(text) == <<"\"">> \o FoldLeft(LAMBDA a, c : a \o Escaped(<<c>>), <<>>, text) \o <<"\"">>

Bracketed(texts) == <<"[">> \o Joined(texts) \o <<"]">>

Shown(member, modes) == \A m \in member.marks : modes[m] # "omit"

Masked(member, modes) == \E m \in member.marks : modes[m] = "redact"

(* `loose' is the order in which the unordered map is visited.             *)
JsonText(call, modes, loose) ==
    LET text[n \in Exposed[call][modes]] ==
        LET s == n[1]
            v == n[2]
            pairs(keys) ==
                Bracketed([i \in DOMAIN keys |->
                    Bracketed(<<text[<<s.key, keys[i]>>], text[<<s.elem, v[keys[i]]>>]>>)])
        IN  CASE s.kind = "object" ->
                   LET shown == SelectSeq([i \in DOMAIN v |-> i],
                                          LAMBDA i : Shown(s.members[i], modes))
                   IN  <<"{">> \o Joined([j \in DOMAIN shown |->
                           LET m == s.members[shown[j]]
                           IN  Quoted(<<m.name>>) \o <<":">> \o
                               (IF Masked(m, modes) THEN Quoted(<<"<redacted>">>)
                                ELSE text[<<m.shape, v[shown[j]]>>])])
                       \o <<"}">>
              [] s.kind \in {"uint", "int"} -> <<ToString(v)>>
              [] s.kind = "bool"    -> <<ToString(v)>>
              [] s.kind = "string"  -> Quoted(v)
              [] s.kind = "char"    -> Quoted(<<v>>)
              [] s.kind = "cstring" -> IF v = Null THEN <<"null">> ELSE Quoted(v)
              [] s.kind = "bitset"  -> Quoted([i \in DOMAIN v |-> ToString(Reverse(v)[i])])
              [] s.kind = "optional" -> IF v = Null THEN <<"null">> ELSE text[<<s.elem, v>>]
              [] s.kind = "array" /\ s.elem = Char -> Quoted(<<"NUL", "\\">>)
              [] s.kind = "vector" \/ (s.kind = "array" /\ s.elem # Char) ->
                   Bracketed([i \in DOMAIN v |-> text[<<s.elem, v[i]>>]])
              [] s.kind = "tuple"   -> Bracketed([i \in DOMAIN v |-> text[<<s.elems[i], v[i]>>]])
              [] s.kind = "variant" ->
                   Bracketed(<< <<ToString(v[1] - 1)>>, text[<<s.elems[v[1]], v[2]>>]>>)
              [] s.kind = "map"           -> pairs(SetToSortSeq(DOMAIN v, <))
              [] s.kind = "unordered_map" -> pairs(loose)
    IN  text[Root(call)]

(* The records a call may be written as.                                   *)
Records ==
    [call \in MCCalls, modes \in MCModes |->
        {Append(JsonText(call, modes, loose), "\n") : loose \in SetToSeqs({1, 2})}]

-----------------------------------------------------------------------------
(* What each call left in the output is its record, whole or cut off: whole*)
(* exactly when the call ended well.  No call's text has a newline except  *)
(* at the end of a whole record, and a failure that was thrown is reported *)
(* to the handler once.  A stream that goes bad loses the rest of a record *)
(* and every later one until it is cleared, and no handler hears of that.  *)
PartOf(i) ==
    SubSeq(out, made[i].from + 1, IF i = Len(made) THEN Len(out) ELSE made[i + 1].from)

RecordsDelimited ==
    /\ \A i \in DOMAIN made :
          \E record \in Records[made[i].call, opt] :
             /\ IsPrefix(PartOf(i), record)
             /\ made[i].outcome # "none" => (made[i].outcome = "ok" <=> PartOf(i) = record)
    /\ LinesDelimited

=============================================================================
