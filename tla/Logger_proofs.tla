---------------------------- MODULE Logger_proofs ---------------------------
(***************************************************************************)
(* Theorems of Logger for every call, every value in it, every choice of   *)
(* options and every output that fails: what the options hide never gets   *)
(* into the output, and a call leaves a newline exactly if it ended well.  *)
(*                                                                         *)
(* Both rest on what the codecs in progress have still to do: nothing but  *)
(* values that the call may show and text without a newline, and then the  *)
(* newline that ends the record.                                           *)
(***************************************************************************)
EXTENDS Logger, ReaderLemmas

-----------------------------------------------------------------------------
(* Sequences.                                                              *)

(* Sequences of sequences, one behind the other.                           *)
LEMMA FlattenSeqType ==
    ASSUME NEW S, NEW ss \in Seq(Seq(S))
    PROVE  FlattenSeq(ss) \in Seq(S)
<1> DEFINE n == Len(ss)
           Flat(f) == f = [i \in 1 .. n |-> IF i = 1 THEN ss[i] ELSE f[i - 1] \o ss[i]]
           Upto(f, m) == /\ f \in [1 .. m -> Seq(S)]
                         /\ \A i \in 1 .. m : f[i] = IF i = 1 THEN ss[i] ELSE f[i - 1] \o ss[i]
           P == {m \in 0 .. n : \E f : Upto(f, m)}
<1>1. n \in Nat /\ \A i \in 1 .. n : ss[i] \in Seq(S)
  OBVIOUS
<1>2. CASE n = 0
  <2>1. FlattenSeq(ss) = ss /\ ss = <<>>
    BY <1>2 DEF FlattenSeq
  <2> QED BY <2>1
<1>3. CASE n # 0
  <2> HIDE DEF n
  <2>1. 0 \in P
    <3>1. Upto([i \in 1 .. 0 |-> <<>>], 0)
      OBVIOUS
    <3> HIDE DEF Upto
    <3> QED BY <1>1, <3>1
  <2>2. ASSUME NEW m \in 1 .. n, m - 1 \in P PROVE m \in P
    <3>1. PICK f : Upto(f, m - 1)
      BY <2>2
    <3> DEFINE g == [i \in 1 .. m |-> IF i < m THEN f[i]
                                      ELSE IF i = 1 THEN ss[i] ELSE f[i - 1] \o ss[i]]
    <3>2. ASSUME NEW i \in 1 .. m
          PROVE  g[i] \in Seq(S) /\ g[i] = IF i = 1 THEN ss[i] ELSE g[i - 1] \o ss[i]
      <4>1. ss[i] \in Seq(S)
        BY <1>1
      <4>2. CASE i < m
        <5>1. i \in 1 .. m - 1 /\ g[i] = f[i]
          BY <4>2
        <5>2. f[i] \in Seq(S) /\ f[i] = IF i = 1 THEN ss[i] ELSE f[i - 1] \o ss[i]
          BY <3>1, <5>1
        <5>3. i # 1 => i - 1 \in 1 .. m /\ i - 1 < m
          BY <4>2
        <5>4. i # 1 => g[i - 1] = f[i - 1]
          BY <5>3
        <5> QED BY <5>1, <5>2, <5>4
      <4>3. CASE i = m
        <5>1. g[i] = IF i = 1 THEN ss[i] ELSE f[i - 1] \o ss[i]
          BY <4>3
        <5>2. i # 1 => i - 1 \in 1 .. m - 1 /\ i - 1 \in 1 .. m /\ i - 1 < m
          BY <4>3
        <5>3. i # 1 => g[i - 1] = f[i - 1] /\ f[i - 1] \in Seq(S)
          BY <3>1, <5>2
        <5> HIDE DEF g
        <5>4. i # 1 => f[i - 1] \o ss[i] \in Seq(S)
          BY <4>1, <5>3
        <5> QED BY <4>1, <5>1, <5>3, <5>4
      <4> QED BY <4>2, <4>3
    <3>3. Upto(g, m)
      BY <3>2
    <3> HIDE DEF Upto, g
    <3> QED BY <3>3
  <2> HIDE DEF P
  <2>3. 0 .. n \subseteq P
    BY <1>1, <2>1, <2>2, IntervalInduction, Zenon
  <2>4. PICK f : Upto(f, n)
    <3>1. n \in P
      BY <1>1, <2>3
    <3> QED BY <3>1 DEF P
  <2>5. Flat(f)
    <3>1. f = [i \in 1 .. n |-> f[i]]
      BY <2>4
    <3>2. \A i \in 1 .. n : f[i] = IF i = 1 THEN ss[i] ELSE f[i - 1] \o ss[i]
      BY <2>4
    <3> QED BY <3>1, <3>2
  <2> HIDE DEF Upto, Flat
  <2>6. Flat(CHOOSE h : Flat(h))
    BY <2>5
  <2>7. FlattenSeq(ss) = (CHOOSE h : Flat(h))[n]
    BY <1>3, Zenon DEF FlattenSeq, Flat, n
  <2>8. PICK h : Flat(h) /\ FlattenSeq(ss) = h[n]
    BY <2>6, <2>7
  <2> DEFINE Q == {m \in 0 .. n : m # 0 => h[m] \in Seq(S)}
  <2>9. ASSUME NEW m \in 1 .. n, m - 1 \in Q PROVE m \in Q
    <3>1. h[m] = IF m = 1 THEN ss[m] ELSE h[m - 1] \o ss[m]
      BY <2>8 DEF Flat
    <3>2. m # 1 => h[m - 1] \in Seq(S)
      BY <2>9
    <3>3. h[m] \in Seq(S)
      BY <1>1, <3>1, <3>2
    <3> QED BY <3>3
  <2>10. 0 \in Q
    BY <1>1
  <2> HIDE DEF Q
  <2>11. 0 .. n \subseteq Q
    BY <1>1, <2>9, <2>10, IntervalInduction, Zenon
  <2>12. h[n] \in Seq(S)
    BY <1>1, <1>3, <2>11 DEF Q
  <2> QED BY <2>8, <2>12
<1> QED BY <1>2, <1>3

(* Short sequences, and those that are given by their elements.            *)
LEMMA OneStep == ASSUME NEW S, NEW t \in S PROVE <<t>> \in Seq(S)
OBVIOUS

(* Sequences of a set, one behind the other.                               *)
LEMMA ThreeSeqs ==
    ASSUME NEW S, NEW a \in Seq(S), NEW b \in Seq(S), NEW c \in Seq(S)
    PROVE  a \o b \in Seq(S) /\ a \o b \o c \in Seq(S)
OBVIOUS

(* The last of a sequence.                                                 *)
LEMMA LastOfSeq ==
    ASSUME NEW S, NEW s \in Seq(S), s # <<>>
    PROVE  Len(s) \in DOMAIN s /\ Len(s) \in Nat \ {0} /\ s[Len(s)] \in S
OBVIOUS

(* A function of the first positive integers.                              *)
LEMMA FunctionSeq ==
    ASSUME NEW n \in Nat, NEW S, NEW f \in [1 .. n -> S]
    PROVE  f \in Seq(S)
OBVIOUS

-----------------------------------------------------------------------------
(* What the codecs have to do, as steps of a set S.                        *)

(* What JSON is written with, but for the newline between records.         *)
Plain == Syntax \ {"\n"}

Puts(A) == [op : {"put"}, text : Seq(A), frame : {"same", "push", "pop"}]

(* Text of the atoms A may be put out, and members and items begun.        *)
Allows(S, A) == Plain \subseteq A /\ "\n" \notin A /\ Puts(A) \subseteq S /\ Item \in S

(* The characters JSON is written with.                                    *)
LEMMA PlainAtoms ==
    /\ {"{", "}", "[", "]", ":", ",", "\"", "null", "true", "false"} \subseteq Plain
    /\ {"<redacted>", "\\", "n", "r", "t", "u0000", "u007f"} \subseteq Plain
BY DEF Plain, Syntax

(* The characters that are escaped, and what stands for them.              *)
LEMMA EscapeType ==
    ASSUME NEW A, Plain \subseteq A, NEW char \in A \cup {"\n"}
    PROVE  Escape(char) \in Seq(A)
<1>1. /\ "\\" \in A /\ "\"" \in A /\ "n" \in A /\ "r" \in A /\ "t" \in A
      /\ "u0000" \in A /\ "u007f" \in A
  BY PlainAtoms
<1>2. \/ \E a \in A : Escape(char) = <<"\\", a>>
      \/ Escape(char) = <<char>> /\ char # "\n"
  BY <1>1 DEF Escape
<1>3. (\A a, b \in A : <<a, b>> \in Seq(A)) /\ \A a \in A : <<a>> \in Seq(A)
  OBVIOUS
<1> QED BY <1>1, <1>2, <1>3

(* No text has a newline in it once it is escaped.                         *)
LEMMA EscapedType ==
    ASSUME NEW A, Plain \subseteq A, NEW text \in Seq(A \cup {"\n"})
    PROVE  Escaped(text) \in Seq(A)
<1> DEFINE ss == [i \in DOMAIN text |-> Escape(text[i])]
<1>1. DOMAIN text = 1 .. Len(text) /\ Len(text) \in Nat
  OBVIOUS
<1>2. \A i \in DOMAIN text : Escape(text[i]) \in Seq(A)
  BY EscapeType
<1>3. ss \in Seq(Seq(A))
  BY <1>1, <1>2
<1> QED BY <1>3, FlattenSeqType, Zenon DEF Escaped, ss

(* Text that is put out.                                                   *)
LEMMA PutType ==
    ASSUME NEW S, NEW A, Allows(S, A)
    PROVE  /\ \A text \in Seq(A) : Put(text) \in S /\ <<Put(text)>> \in Seq(S)
           /\ \A a \in Plain : <<Put(<<a>>)>> \in Seq(S)
           /\ \A a \in Plain : <<Open(a)>> \in Seq(S) /\ <<Close(a)>> \in Seq(S)
           /\ WriteNull \in Seq(S)
<1>1. \A text \in Seq(A) : Put(text) \in S
  BY DEF Allows, Puts, Put
<1>2. \A a \in Plain : <<a>> \in Seq(A)
  BY DEF Allows
<1>3. \A a \in Plain : Open(a) \in S /\ Close(a) \in S
  BY <1>2 DEF Allows, Puts, Open, Close
<1>4. \A t \in S : <<t>> \in Seq(S)
  OBVIOUS
<1>5. WriteNull \in Seq(S)
  BY <1>1, <1>2, <1>4, PlainAtoms DEF WriteNull
<1> QED BY <1>1, <1>2, <1>3, <1>4, <1>5

(* A string.                                                               *)
LEMMA WriteStringType ==
    ASSUME NEW S, NEW A, Allows(S, A), NEW text \in Seq(A \cup {"\n"})
    PROVE  WriteString(text) \in Seq(S)
<1>1. Escaped(text) \in Seq(A)
  BY EscapedType DEF Allows
<1>2. <<"\"">> \in Seq(A)
  <2>1. "\"" \in A
    BY PlainAtoms DEF Allows
  <2>2. \A a \in A : <<a>> \in Seq(A)
    OBVIOUS
  <2> QED BY <2>1, <2>2, Zenon
<1>3. Put(Escaped(text)) \in S /\ Put(<<"\"">>) \in S
  BY <1>1, <1>2, PutType
<1>4. \A p, q \in S : <<p, q, p>> \in Seq(S)
  OBVIOUS
<1> QED BY <1>3, <1>4 DEF WriteString

(* Values between brackets, each behind what separates it from the last.   *)
LEMMA WriteItemsType ==
    ASSUME NEW S, NEW A, Allows(S, A), NEW values \in Seq(S)
    PROVE  WriteItems(values) \in Seq(S)
<1> DEFINE ss == [i \in DOMAIN values |-> <<Item, values[i]>>]
<1>1. ss \in Seq(Seq(S))
  <2>1. \A i \in DOMAIN values : <<Item, values[i]>> \in Seq(S)
    BY DEF Allows
  <2>2. DOMAIN values = 1 .. Len(values) /\ Len(values) \in Nat
    OBVIOUS
  <2> QED BY <2>1, <2>2
<1> HIDE DEF ss
<1>2. FlattenSeq(ss) \in Seq(S)
  BY <1>1, FlattenSeqType
<1>3. <<Open("[")>> \in Seq(S) /\ <<Close("]")>> \in Seq(S)
  BY PutType, PlainAtoms
<1>4. \A a, b, c \in Seq(S) : a \o b \o c \in Seq(S)
  OBVIOUS
<1>5. <<Open("[")>> \o FlattenSeq(ss) \o <<Close("]")>> \in Seq(S)
  BY <1>2, <1>3, <1>4
<1> QED BY <1>5, Zenon DEF WriteItems, ss

-----------------------------------------------------------------------------
(* The codecs of the values that a call may show.                          *)

(* The atoms that a call may put out before its newline.                   *)
Atoms(call, modes) == (Syntax \cup Words[call][modes]) \ {"\n"}

Values(nodes) == {Value(node[1], node[2]) : node \in nodes}

(* The members of an object, those that the options hide among them.       *)
Members(node) == {Field(node[1].members[i], node[2][i]) : i \in DOMAIN node[2]}

Fields(nodes) == UNION {Members(node) : node \in {n \in nodes : n[1].kind = "object"}}

(* What the codecs of a call have to do before the newline.                *)
Steps(call, modes) ==
    Puts(Atoms(call, modes)) \cup {Item} \cup Values(Exposed[call][modes])
    \cup Fields(Exposed[call][modes])

(* They may put out any of their atoms.                                    *)
LEMMA StepsAllow ==
    ASSUME NEW call, NEW modes
    PROVE  /\ Allows(Steps(call, modes), Atoms(call, modes))
           /\ Values(Exposed[call][modes]) \subseteq Steps(call, modes)
           /\ Fields(Exposed[call][modes]) \subseteq Steps(call, modes)
BY DEF Allows, Steps, Atoms, Plain

(* The codec of each kind of value.                                        *)
LEMMA CodecOf ==
    ASSUME NEW s, NEW v, NEW steps \in Codec(s, v)
    PROVE  /\ s.kind = "object" => steps = WriteObject(s, v)
           /\ s.kind \in {"uint", "int"} => steps = WriteNumber(v)
           /\ s.kind = "bool" => steps = WriteBool(v)
           /\ s.kind = "string" => steps = WriteString(v)
           /\ s.kind = "char" => steps = WriteString(<<v>>)
           /\ s.kind = "cstring" => steps = WriteCString(v)
           /\ s.kind = "bitset" => steps = WriteBitset(v)
           /\ s.kind = "optional" => steps = WriteOptional(s, v)
           /\ s.kind = "vector" => steps = WriteVector(s, v)
           /\ s.kind = "array" => steps = WriteArray(s, v)
           /\ s.kind = "tuple" => steps = WriteTuple(s, v)
           /\ s.kind = "variant" => steps = WriteVariant(s, v)
           /\ s.kind \in MapKind => \E keys \in KeyOrders(s.kind, DOMAIN v) : steps = WriteMap(s, v, keys)
BY DEF Codec, MapKind

(* What each kind of value is made of.                                     *)
LEMMA InnerOf ==
    ASSUME NEW node, NEW modes
    PROVE  LET s == node[1]
               v == node[2]
           IN  /\ s.kind = "object" => Inner(node, modes) =
                     {<<s.members[i].shape, v[i]>>
                        : i \in {j \in DOMAIN v : Visible(s.members[j], modes)}}
               /\ s.kind \in {"vector", "array"} =>
                     Inner(node, modes) = {<<s.elem, v[i]>> : i \in DOMAIN v}
               /\ s.kind = "tuple" =>
                     Inner(node, modes) = {<<s.elems[i], v[i]>> : i \in DOMAIN v}
               /\ s.kind = "variant" => Inner(node, modes) = {<<s.elems[v[1]], v[2]>>}
               /\ s.kind \in MapKind => Inner(node, modes) =
                     {<<s.key, k>> : k \in DOMAIN v} \cup {<<s.elem, v[k]>> : k \in DOMAIN v}
               /\ s.kind = "optional" /\ v # Null => Inner(node, modes) = {<<s.elem, v>>}
BY DEF Inner, MapKind

(* What each kind of value says.                                           *)
LEMMA SaidOf ==
    ASSUME NEW node, NEW modes
    PROVE  LET s == node[1]
               v == node[2]
           IN  /\ s.kind = "object" => Said(node, modes) =
                     {s.members[i].name
                        : i \in {j \in DOMAIN v :
                                   \A m \in s.members[j].marks : modes[m] # "omit"}}
               /\ s.kind = "char" => Said(node, modes) = {v}
               /\ s.kind = "string" => Said(node, modes) = Range(v)
               /\ s.kind = "cstring" /\ v # Null => Said(node, modes) = Range(v)
               /\ s.kind \in {"uint", "int"} =>
                     Said(node, modes) = {ToString(v)} /\ Spelled(node) = {v}
               /\ s.kind = "bitset" =>
                     /\ Said(node, modes) = {ToString(n) : n \in Range(v)}
                     /\ Spelled(node) = Range(v)
               /\ s.kind = "variant" =>
                     /\ Said(node, modes) = {ToString(v[1] - 1)}
                     /\ Spelled(node) = {v[1] - 1}
BY DEF Said, Spelled

(* What is known of each kind of value.                                    *)
LEMMA TypedOf ==
    ASSUME NEW node, Typed(node)
    PROVE  LET s == node[1]
               v == node[2]
           IN  /\ s.kind = "object" =>
                     /\ Listed(v) /\ DOMAIN v = DOMAIN s.members
                     /\ \A i \in DOMAIN v : s.members[i].marks \subseteq Marks
               /\ s.kind \in {"string", "bitset", "vector", "array", "tuple"} => Listed(v)
               /\ s.kind = "cstring" => v = Null \/ Listed(v)
               /\ s.kind \in MapKind => IsFiniteSet(DOMAIN v)
               /\ s.kind \in {"object", "string", "bitset", "vector", "array", "tuple",
                              "cstring", "uint", "int", "bool", "char", "optional", "variant"}
                             \cup MapKind
BY DEF Typed, MapKind

(* The values of a call that are known of.                                 *)
LEMMA ExposedValues ==
    ASSUME NEW call \in Calls, NEW modes \in Modes, NEW node \in Exposed[call][modes]
    PROVE  /\ Typed(node)
           /\ \A part \in Inner(node, modes) :
                 Value(part[1], part[2]) \in Steps(call, modes)
           /\ Said(node, modes) \subseteq Words[call][modes]
           /\ \A n \in Spelled(node) : ToString(n) # "\n"
<1>1. Typed(node) /\ Inner(node, modes) \subseteq Exposed[call][modes]
      /\ \A n \in Spelled(node) : ToString(n) # "\n"
  BY CallsAssumption
<1>2. Said(node, modes) \subseteq Words[call][modes]
  <2>1. Words[call][modes] = UNION {Said(n, modes) : n \in Exposed[call][modes]}
    BY Zenon DEF Words
  <2> QED BY <2>1
<1>3. \A part \in Exposed[call][modes] : Value(part[1], part[2]) \in Steps(call, modes)
  BY StepsAllow DEF Values
<1> QED BY <1>1, <1>2, <1>3

(* The indices of a list of values.                                        *)
LEMMA ListedDomain ==
    ASSUME NEW v, Listed(v)
    PROVE  Len(v) \in Nat /\ DOMAIN v = 1 .. Len(v) /\ v = [i \in 1 .. Len(v) |-> v[i]]
<1>1. Len(v) \in Nat /\ v = [i \in 1 .. Len(v) |-> v[i]]
  BY DEF Listed
<1>2. ASSUME NEW n, v = [i \in 1 .. n |-> v[i]] PROVE DOMAIN v = 1 .. n
  BY <1>2
<1> QED BY <1>1, <1>2, Zenon

(* A list of values of a set.                                              *)
LEMMA ListedSeq ==
    ASSUME NEW v, Listed(v), NEW S, \A i \in DOMAIN v : v[i] \in S
    PROVE  v \in Seq(S)
<1>1. Len(v) \in Nat /\ DOMAIN v = 1 .. Len(v) /\ v = [i \in 1 .. Len(v) |-> v[i]]
  BY ListedDomain
<1>2. ASSUME NEW n, DOMAIN v = 1 .. n, v = [i \in 1 .. n |-> v[i]] PROVE v \in [1 .. n -> S]
  BY <1>2
<1> QED BY <1>1, <1>2, FunctionSeq

(* A list that is made of another one, item by item.                       *)
LEMMA ListedImage ==
    ASSUME NEW v, Listed(v), NEW S, NEW f, f = [i \in DOMAIN v |-> f[i]],
           \A i \in DOMAIN v : f[i] \in S
    PROVE  f \in Seq(S)
<1>1. Len(v) \in Nat /\ DOMAIN v = 1 .. Len(v)
  BY ListedDomain
<1>2. f \in [DOMAIN v -> S]
  OBVIOUS
<1> QED BY <1>1, <1>2, FunctionSeq

(* Text that a value has in it may be put out, escaped.                    *)
LEMMA SaidText ==
    ASSUME NEW call \in Calls, NEW modes \in Modes, NEW node \in Exposed[call][modes],
           NEW text, Listed(text), Range(text) \subseteq Said(node, modes)
    PROVE  /\ text \in Seq(Atoms(call, modes) \cup {"\n"})
           /\ WriteString(text) \in Seq(Steps(call, modes))
<1>1. Said(node, modes) \subseteq Words[call][modes]
  BY ExposedValues
<1>2. \A i \in DOMAIN text : text[i] \in Atoms(call, modes) \cup {"\n"}
  BY <1>1 DEF Range, Atoms
<1>3. text \in Seq(Atoms(call, modes) \cup {"\n"})
  BY <1>2, ListedSeq
<1> QED BY <1>3, StepsAllow, WriteStringType

(* So may the spelling of an integer.                                      *)
LEMMA SpelledText ==
    ASSUME NEW call \in Calls, NEW modes \in Modes, NEW node \in Exposed[call][modes],
           NEW n \in Spelled(node), ToString(n) \in Said(node, modes)
    PROVE  /\ ToString(n) \in Atoms(call, modes)
           /\ WriteNumber(n) \in Seq(Steps(call, modes))
<1>1. ToString(n) \in Atoms(call, modes)
  BY ExposedValues DEF Atoms
<1> DEFINE A == Atoms(call, modes)
           t == ToString(n)
<1>2. <<t>> \in Seq(A)
  BY <1>1, OneStep
<1>3. <<Put(<<t>>)>> \in Seq(Steps(call, modes))
  BY <1>2, StepsAllow, PutType
<1> QED BY <1>1, <1>3 DEF WriteNumber

(* Objects.                                                                *)
LEMMA WriteObjectType ==
    ASSUME NEW call \in Calls, NEW modes \in Modes, NEW node \in Exposed[call][modes],
           node[1].kind = "object"
    PROVE  WriteObject(node[1], node[2]) \in Seq(Steps(call, modes))
<1> DEFINE s == node[1]
           v == node[2]
           S == Steps(call, modes)
           fs == [i \in DOMAIN v |-> Field(s.members[i], v[i])]
<1>1. Listed(v)
  BY ExposedValues, TypedOf
<1>2. Members(node) \subseteq Fields(Exposed[call][modes])
  BY DEF Fields
<1>3. \A i \in DOMAIN v : Field(s.members[i], v[i]) \in S
  <2>1. \A i \in DOMAIN v : Field(s.members[i], v[i]) \in Members(node)
    BY DEF Members
  <2> QED BY <1>2, <2>1, StepsAllow
<1>4. fs \in Seq(S)
  <2>1. fs = [i \in DOMAIN v |-> fs[i]] /\ \A i \in DOMAIN v : fs[i] \in S
    BY <1>3
  <2> HIDE DEF fs, v, S
  <2> QED BY <1>1, <2>1, ListedImage
<1>5. <<Open("{")>> \in Seq(S) /\ <<Close("}")>> \in Seq(S)
  BY StepsAllow, PutType, PlainAtoms
<1> HIDE DEF S, fs
<1>7. <<Open("{")>> \o fs \o <<Close("}")>> \in Seq(S)
  BY <1>4, <1>5, ThreeSeqs
<1> QED BY <1>7, Zenon DEF WriteObject, fs, S

(* Values that follow each other in an array.                              *)
LEMMA WriteListType ==
    ASSUME NEW call \in Calls, NEW modes \in Modes, NEW node \in Exposed[call][modes],
           node[1].kind \in {"vector", "array", "tuple"}
    PROVE  /\ node[1].kind \in {"vector", "array"} =>
                 WriteVector(node[1], node[2]) \in Seq(Steps(call, modes))
           /\ node[1].kind = "tuple" =>
                 WriteTuple(node[1], node[2]) \in Seq(Steps(call, modes))
<1> DEFINE s == node[1]
           v == node[2]
           S == Steps(call, modes)
           es == [i \in DOMAIN v |-> Value(s.elem, v[i])]
           ts == [i \in DOMAIN v |-> Value(s.elems[i], v[i])]
<1>1. Listed(v)
  BY ExposedValues, TypedOf
<1>3. Allows(S, Atoms(call, modes))
  BY StepsAllow
<1>4. CASE s.kind \in {"vector", "array"}
  <2>1. \A i \in DOMAIN v : <<s.elem, v[i]>> \in Inner(node, modes)
    <3>1. Inner(node, modes) = {<<s.elem, v[i]>> : i \in DOMAIN v}
      BY <1>4, InnerOf
    <3> HIDE DEF s, v
    <3> QED BY <3>1
  <2>2. \A i \in DOMAIN v : Value(s.elem, v[i]) \in S
    <3>1. \A part \in Inner(node, modes) : Value(part[1], part[2]) \in S
      BY ExposedValues
    <3> HIDE DEF S, s, v
    <3> QED BY <2>1, <3>1
  <2>3. es \in Seq(S)
    <3>1. es = [i \in DOMAIN v |-> es[i]] /\ \A i \in DOMAIN v : es[i] \in S
      BY <2>2
    <3> HIDE DEF es, v, S
    <3> QED BY <1>1, <3>1, ListedImage
  <2>4. WriteItems(es) \in Seq(S)
    <3> HIDE DEF S, es
    <3> QED BY <1>3, <2>3, WriteItemsType
  <2> QED BY <1>4, <2>4, Zenon DEF WriteVector
<1>5. CASE s.kind = "tuple"
  <2>1. \A i \in DOMAIN v : <<s.elems[i], v[i]>> \in Inner(node, modes)
    <3>1. Inner(node, modes) = {<<s.elems[i], v[i]>> : i \in DOMAIN v}
      BY <1>5, InnerOf
    <3> HIDE DEF s, v
    <3> QED BY <3>1
  <2>2. \A i \in DOMAIN v : Value(s.elems[i], v[i]) \in S
    <3>1. \A part \in Inner(node, modes) : Value(part[1], part[2]) \in S
      BY ExposedValues
    <3> HIDE DEF S, s, v
    <3> QED BY <2>1, <3>1
  <2>3. ts \in Seq(S)
    <3>1. ts = [i \in DOMAIN v |-> ts[i]] /\ \A i \in DOMAIN v : ts[i] \in S
      BY <2>2
    <3> HIDE DEF ts, v, S
    <3> QED BY <1>1, <3>1, ListedImage
  <2>4. WriteItems(ts) \in Seq(S)
    <3> HIDE DEF S, ts
    <3> QED BY <1>3, <2>3, WriteItemsType
  <2> QED BY <1>5, <2>4, Zenon DEF WriteTuple
<1> QED BY <1>4, <1>5

(* A variant is an array of its index and its value.                       *)
LEMMA WriteVariantType ==
    ASSUME NEW call \in Calls, NEW modes \in Modes, NEW node \in Exposed[call][modes],
           node[1].kind = "variant"
    PROVE  WriteVariant(node[1], node[2]) \in Seq(Steps(call, modes))
<1> DEFINE s == node[1]
           v == node[2]
           S == Steps(call, modes)
           e == Value(s.elems[v[1]], v[2])
<1>1. WriteNumber(v[1] - 1) \in Seq(S)
  <2>1. Spelled(node) = {v[1] - 1} /\ Said(node, modes) = {ToString(v[1] - 1)}
    BY SaidOf
  <2> DEFINE n == v[1] - 1
  <2> HIDE DEF n
  <2>2. n \in Spelled(node) /\ ToString(n) \in Said(node, modes)
    BY <2>1 DEF n
  <2>3. WriteNumber(n) \in Seq(S)
    BY <2>2, SpelledText
  <2> QED BY <2>3 DEF n
<1>2. e \in S
  <2>1. Inner(node, modes) = {<<s.elems[v[1]], v[2]>>}
    BY InnerOf
  <2>2. \A part \in Inner(node, modes) : Value(part[1], part[2]) \in S
    BY ExposedValues
  <2> HIDE DEF s, v, S
  <2> QED BY <2>1, <2>2
<1>3. Allows(S, Atoms(call, modes))
  BY StepsAllow
<1> HIDE DEF S, e
<1>4. WriteItems(WriteNumber(v[1] - 1) \o <<e>>) \in Seq(S)
  <2>1. WriteNumber(v[1] - 1) \o <<e>> \in Seq(S)
    BY <1>1, <1>2, OneStep, ThreeSeqs
  <2> QED BY <1>3, <2>1, WriteItemsType
<1> QED BY <1>4, Zenon DEF WriteVariant, e, S

(* A map is visited key by key.                                            *)
LEMMA KeyOrdersType ==
    ASSUME NEW kind, NEW keys, IsFiniteSet(keys), NEW order \in KeyOrders(kind, keys)
    PROVE  order \in Seq(keys)
<1>1. order \in SetToSeqs(keys)
  BY DEF KeyOrders
<1>2. order \in [1 .. Cardinality(keys) -> keys]
  BY <1>1 DEF SetToSeqs
<1>3. Cardinality(keys) \in Nat
  BY FS_CardinalityType
<1> QED BY <1>2, <1>3, FunctionSeq

(* A map is an array of its entries.                                       *)
LEMMA WriteMapType ==
    ASSUME NEW call \in Calls, NEW modes \in Modes, NEW node \in Exposed[call][modes],
           node[1].kind \in MapKind, NEW keys \in Seq(DOMAIN node[2])
    PROVE  WriteMap(node[1], node[2], keys) \in Seq(Steps(call, modes))
<1> DEFINE s == node[1]
           v == node[2]
           S == Steps(call, modes)
           entry(k) == WriteItems(<<Value(s.key, k), Value(s.elem, v[k])>>)
           es == [i \in DOMAIN keys |-> <<Item>> \o entry(keys[i])]
<1>1. Allows(S, Atoms(call, modes))
  BY StepsAllow
<1>2. ASSUME NEW k \in DOMAIN v PROVE <<Item>> \o entry(k) \in Seq(S)
  <2>1. Inner(node, modes) =
            {<<s.key, j>> : j \in DOMAIN v} \cup {<<s.elem, v[j]>> : j \in DOMAIN v}
    BY InnerOf
  <2>2. \A part \in Inner(node, modes) : Value(part[1], part[2]) \in S
    BY ExposedValues
  <2>3. Value(s.key, k) \in S /\ Value(s.elem, v[k]) \in S
    <3> HIDE DEF s, v, S
    <3>1. <<s.key, k>> \in Inner(node, modes) /\ <<s.elem, v[k]>> \in Inner(node, modes)
      BY <1>2, <2>1
    <3> QED BY <2>2, <3>1
  <2>4. Item \in S
    BY <1>1 DEF Allows
  <2>5. \A a, b \in S : <<a, b>> \in Seq(S)
    <3> HIDE DEF S
    <3> QED OBVIOUS
  <2> DEFINE pair == <<Value(s.key, k), Value(s.elem, v[k])>>
  <2>6. pair \in Seq(S)
    BY <2>3, <2>5, Zenon
  <2>7. WriteItems(pair) \in Seq(S)
    <3> HIDE DEF S, pair
    <3> QED BY <1>1, <2>6, WriteItemsType
  <2>8. <<Item>> \in Seq(S)
    BY <2>4, OneStep
  <2> QED BY <2>7, <2>8, ThreeSeqs
<1>3. es \in Seq(Seq(S))
  <2>1. Len(keys) \in Nat /\ DOMAIN keys = 1 .. Len(keys)
        /\ \A i \in DOMAIN keys : keys[i] \in DOMAIN v
    OBVIOUS
  <2>2. \A i \in DOMAIN keys : <<Item>> \o entry(keys[i]) \in Seq(S)
    BY <1>2, <2>1
  <2>3. es \in [DOMAIN keys -> Seq(S)]
    <3> HIDE DEF S, entry
    <3> QED BY <2>2
  <2> HIDE DEF es, S
  <2> QED BY <2>1, <2>3, FunctionSeq
<1>4. <<Open("[")>> \in Seq(S) /\ <<Close("]")>> \in Seq(S)
  BY <1>1, PutType, PlainAtoms
<1> HIDE DEF S, es
<1>5. FlattenSeq(es) \in Seq(S)
  BY <1>3, FlattenSeqType
<1>6. <<Open("[")>> \o FlattenSeq(es) \o <<Close("]")>> \in Seq(S)
  BY <1>4, <1>5, ThreeSeqs
<1> QED BY <1>6, Zenon DEF WriteMap, es, S

(* Text without the zeros at its end.                                      *)
LEMMA TrimmedType ==
    ASSUME NEW S, NEW text \in Seq(S)
    PROVE  Trimmed(text) \in Seq(S)
<1> DEFINE I == {i \in DOMAIN text : \E j \in i .. Len(text) : text[j] # "NUL"}
           n == Cardinality(I)
<1>1. Len(text) \in Nat /\ DOMAIN text = 1 .. Len(text)
  OBVIOUS
<1>2. IsFiniteSet(1 .. Len(text)) /\ Cardinality(1 .. Len(text)) = Len(text)
  BY <1>1, FS_Interval
<1>3. I \subseteq 1 .. Len(text)
  BY <1>1
<1>4. n \in Nat /\ n <= Len(text)
  <2> HIDE DEF I
  <2> QED BY <1>2, <1>3, FS_Subset, FS_CardinalityType
<1>5. SubSeq(text, 1, n) \in Seq(S)
  <2> HIDE DEF n
  <2> QED BY <1>1, <1>4
<1> QED BY <1>5, Zenon DEF Trimmed, I, n

(* An array of characters is a text of them.                               *)
LEMMA WriteArrayType ==
    ASSUME NEW call \in Calls, NEW modes \in Modes, NEW node \in Exposed[call][modes],
           node[1].kind = "array"
    PROVE  WriteArray(node[1], node[2]) \in Seq(Steps(call, modes))
<1> DEFINE s == node[1]
           v == node[2]
           A == Atoms(call, modes)
<1>1. CASE s.elem = Char
  <2>1. Listed(v)
    BY ExposedValues, TypedOf
  <2>2. Inner(node, modes) = {<<s.elem, v[i]>> : i \in DOMAIN v}
    BY InnerOf
  <2>3. Inner(node, modes) \subseteq Exposed[call][modes]
    BY CallsAssumption
  <2>4. ASSUME NEW i \in DOMAIN v PROVE v[i] \in A \cup {"\n"}
    <3> DEFINE part == <<s.elem, v[i]>>
    <3>1. part \in Exposed[call][modes]
      BY <2>2, <2>3
    <3>2. part[1].kind = "char" /\ part[2] = v[i]
      BY <1>1 DEF Char
    <3> HIDE DEF part
    <3>3. Said(part, modes) = {v[i]}
      BY <3>2, SaidOf
    <3>4. Said(part, modes) \subseteq Words[call][modes]
      BY <3>1, ExposedValues
    <3> QED BY <3>3, <3>4 DEF Atoms
  <2> HIDE DEF A
  <2>5. v \in Seq(A \cup {"\n"})
    BY <2>1, <2>4, ListedSeq
  <2>6. Trimmed(v) \in Seq(A \cup {"\n"})
    BY <2>5, TrimmedType
  <2>7. WriteString(Trimmed(v)) \in Seq(Steps(call, modes))
    BY <2>6, StepsAllow, WriteStringType DEF A
  <2> QED BY <1>1, <2>7, Zenon DEF WriteArray
<1>2. CASE s.elem # Char
  <2>1. WriteVector(s, v) \in Seq(Steps(call, modes))
    BY WriteListType
  <2> QED BY <1>2, <2>1, Zenon DEF WriteArray
<1> QED BY <1>1, <1>2

(* The bits of a bitset, the highest first.                                *)
LEMMA WriteBitsetType ==
    ASSUME NEW call \in Calls, NEW modes \in Modes, NEW node \in Exposed[call][modes],
           node[1].kind = "bitset"
    PROVE  WriteBitset(node[2]) \in Seq(Steps(call, modes))
<1> DEFINE v == node[2]
           A == Atoms(call, modes)
           t == [i \in DOMAIN v |-> ToString(v[Len(v) + 1 - i])]
<1>1. Listed(v)
  BY ExposedValues, TypedOf
<1>2. Said(node, modes) = {ToString(n) : n \in Range(v)} /\ Spelled(node) = Range(v)
  BY SaidOf
<1>3. Len(v) \in Nat /\ DOMAIN v = 1 .. Len(v)
  BY <1>1, ListedDomain
<1>4. ASSUME NEW i \in DOMAIN v PROVE ToString(v[Len(v) + 1 - i]) \in A \cup {"\n"}
  <2>1. Len(v) + 1 - i \in DOMAIN v
    <3> HIDE DEF v
    <3> QED BY <1>3
  <2>2. \A j \in DOMAIN v : v[j] \in Range(v)
    BY DEF Range
  <2> DEFINE n == v[Len(v) + 1 - i]
  <2>3. n \in Range(v)
    BY <2>1, <2>2
  <2> HIDE DEF n, v
  <2>4. n \in Spelled(node) /\ ToString(n) \in Said(node, modes)
    BY <1>2, <2>3
  <2>5. ToString(n) \in Atoms(call, modes)
    BY <2>4, SpelledText
  <2> QED BY <2>5 DEF n
<1>5. t \in Seq(A \cup {"\n"})
  <2>1. t = [i \in DOMAIN v |-> t[i]] /\ \A i \in DOMAIN v : t[i] \in A \cup {"\n"}
    BY <1>4
  <2> HIDE DEF t, v, A
  <2> QED BY <1>1, <2>1, ListedImage
<1> HIDE DEF t
<1>6. WriteString(t) \in Seq(Steps(call, modes))
  BY <1>5, StepsAllow, WriteStringType
<1> QED BY <1>6, Zenon DEF WriteBitset, t

(* Whatever the codec of a value does is a step of its call.               *)
LEMMA CodecType ==
    ASSUME NEW call \in Calls, NEW modes \in Modes, NEW node \in Exposed[call][modes],
           NEW steps \in Codec(node[1], node[2])
    PROVE  steps \in Seq(Steps(call, modes))
<1> DEFINE s == node[1]
           v == node[2]
           S == Steps(call, modes)
<1>1. Allows(S, Atoms(call, modes))
  BY StepsAllow
<1>2. CASE s.kind = "object"
  <2>1. steps = WriteObject(s, v)
    BY <1>2, CodecOf
  <2> QED BY <1>2, <2>1, WriteObjectType
<1>3. CASE s.kind \in {"uint", "int"}
  <2>1. steps = WriteNumber(v)
    BY <1>3, CodecOf
  <2>2. v \in Spelled(node) /\ ToString(v) \in Said(node, modes)
    BY <1>3, SaidOf
  <2> QED BY <2>1, <2>2, SpelledText
<1>4. CASE s.kind = "bool"
  <2>1. steps = <<Put(<<IF v THEN "true" ELSE "false">>)>>
    BY <1>4, CodecOf DEF WriteBool
  <2>2. (IF v THEN "true" ELSE "false") \in Plain
    BY PlainAtoms
  <2>3. \A a \in Plain : <<Put(<<a>>)>> \in Seq(S)
    BY <1>1, PutType
  <2> QED BY <2>1, <2>2, <2>3
<1>5. CASE s.kind = "string"
  <2>1. steps = WriteString(v) /\ Listed(v) /\ Range(v) \subseteq Said(node, modes)
    BY <1>5, CodecOf, SaidOf, ExposedValues, TypedOf
  <2> QED BY <2>1, SaidText
<1>6. CASE s.kind = "char"
  <2>1. steps = WriteString(<<v>>) /\ v \in Said(node, modes)
    BY <1>6, CodecOf, SaidOf
  <2>2. Said(node, modes) \subseteq Words[call][modes]
    BY ExposedValues
  <2>3. <<v>> \in Seq(Atoms(call, modes) \cup {"\n"})
    <3>1. v \in Atoms(call, modes) \cup {"\n"}
      BY <2>1, <2>2 DEF Atoms
    <3> QED BY <3>1, OneStep
  <2> QED BY <1>1, <2>1, <2>3, WriteStringType
<1>7. CASE s.kind = "cstring"
  <2>1. steps = WriteCString(v) /\ (v = Null \/ Listed(v))
        /\ (v # Null => Range(v) \subseteq Said(node, modes))
    BY <1>7, CodecOf, SaidOf, ExposedValues, TypedOf
  <2>2. CASE v = Null
    BY <1>1, <2>1, <2>2, PutType DEF WriteCString
  <2>3. CASE v # Null
    <3>1. WriteString(v) \in Seq(S)
      BY <2>1, <2>3, SaidText
    <3> QED BY <2>1, <2>3, <3>1, Zenon DEF WriteCString
  <2> QED BY <2>2, <2>3
<1>8. CASE s.kind = "bitset"
  <2>1. steps = WriteBitset(v)
    BY <1>8, CodecOf
  <2> QED BY <1>8, <2>1, WriteBitsetType
<1>9. CASE s.kind = "optional"
  <2>1. steps = WriteOptional(s, v)
    BY <1>9, CodecOf
  <2>2. CASE v = Null
    BY <1>1, <2>1, <2>2, PutType DEF WriteOptional
  <2>3. CASE v # Null
    <3>1. Inner(node, modes) = {<<s.elem, v>>}
      BY <1>9, <2>3, InnerOf
    <3>2. \A part \in Inner(node, modes) : Value(part[1], part[2]) \in S
      BY ExposedValues
    <3> HIDE DEF s, v, S
    <3>3. Value(s.elem, v) \in S
      BY <3>1, <3>2
    <3>4. <<Value(s.elem, v)>> \in Seq(S)
      BY <3>3, OneStep
    <3>5. steps = <<Value(s.elem, v)>>
      BY <2>1, <2>3, Zenon DEF WriteOptional
    <3> QED BY <3>4, <3>5 DEF S
  <2> QED BY <2>2, <2>3
<1>10. CASE s.kind = "vector"
  <2>1. steps = WriteVector(s, v)
    BY <1>10, CodecOf
  <2> QED BY <1>10, <2>1, WriteListType
<1>11. CASE s.kind = "array"
  <2>1. steps = WriteArray(s, v)
    BY <1>11, CodecOf
  <2> QED BY <1>11, <2>1, WriteArrayType
<1>12. CASE s.kind = "tuple"
  <2>1. steps = WriteTuple(s, v)
    BY <1>12, CodecOf
  <2> QED BY <1>12, <2>1, WriteListType
<1>13. CASE s.kind = "variant"
  <2>1. steps = WriteVariant(s, v)
    BY <1>13, CodecOf
  <2> QED BY <1>13, <2>1, WriteVariantType
<1>14. CASE s.kind \in MapKind
  <2>2. PICK keys \in KeyOrders(s.kind, DOMAIN v) : steps = WriteMap(s, v, keys)
    BY <1>14, CodecOf
  <2>3. IsFiniteSet(DOMAIN v)
    BY <1>14, ExposedValues, TypedOf
  <2>4. keys \in Seq(DOMAIN v)
    BY <2>3, KeyOrdersType
  <2> QED BY <1>14, <2>2, <2>4, WriteMapType
<1>15. s.kind \in {"object", "string", "bitset", "vector", "array", "tuple", "cstring",
                   "uint", "int", "bool", "char", "optional", "variant"} \cup MapKind
  BY ExposedValues, TypedOf
<1> QED BY <1>2, <1>3, <1>4, <1>5, <1>6, <1>7, <1>8, <1>9, <1>10, <1>11, <1>12, <1>13,
           <1>14, <1>15

(* So is what writer::field does with a member: the name of one that is    *)
(* not omitted, and the value of one that nothing hides.                   *)
LEMMA WriteMemberType ==
    ASSUME NEW call \in Calls, opt \in Modes, NEW node \in Exposed[call][opt],
           node[1].kind = "object", NEW i \in DOMAIN node[2]
    PROVE  WriteMember(node[1].members[i], node[2][i]) \in Seq(Steps(call, opt))
<1> DEFINE member == node[1].members[i]
           val == node[2][i]
           S == Steps(call, opt)
           A == Atoms(call, opt)
           rest == IF "redact" \in Hiding(member.marks) THEN WriteString(<<"<redacted>">>)
                   ELSE <<Value(member.shape, val)>>
<1>1. Allows(S, A)
  BY StepsAllow
<1>2. member.marks \subseteq Marks
  BY ExposedValues, TypedOf
<1>3. CASE "omit" \in Hiding(member.marks)
  BY <1>3 DEF WriteMember
<1>4. CASE "omit" \notin Hiding(member.marks)
  <2>1. \A m \in member.marks : opt[m] # "omit"
    BY <1>4 DEF Hiding
  <2>2. member.name \in Said(node, opt)
    <3>1. Said(node, opt) =
             {node[1].members[j].name
                : j \in {k \in DOMAIN node[2] :
                           \A m \in node[1].members[k].marks : opt[m] # "omit"}}
      BY SaidOf
    <3> QED BY <2>1, <3>1
  <2>3. BeginMember(member.name) \in Seq(S)
    <3>1. member.name \in A \cup {"\n"}
      BY <2>2, ExposedValues DEF Atoms
    <3> DEFINE name == member.name
    <3> HIDE DEF name, A, S
    <3>2. <<name>> \in Seq(A \cup {"\n"})
      BY <3>1, OneStep DEF name
    <3>3. WriteString(<<name>>) \in Seq(S)
      BY <1>1, <3>2, WriteStringType
    <3>4. <<Put(<<":">>)>> \in Seq(S)
      BY <1>1, PutType, PlainAtoms
    <3>5. <<Item>> \in Seq(S)
      BY <1>1, OneStep DEF Allows
    <3> QED BY <3>3, <3>4, <3>5, ThreeSeqs DEF BeginMember, name
  <2>4. rest \in Seq(S)
    <3>1. CASE "redact" \in Hiding(member.marks)
      <4>1. <<"<redacted>">> \in Seq(A \cup {"\n"})
        <5>1. "<redacted>" \in A \cup {"\n"}
          BY <1>1, PlainAtoms DEF Allows
        <5> HIDE DEF A
        <5> QED BY <5>1, OneStep
      <4>2. WriteString(<<"<redacted>">>) \in Seq(S)
        BY <1>1, <4>1, WriteStringType
      <4> QED BY <3>1, <4>2
    <3>2. CASE "redact" \notin Hiding(member.marks)
      <4>1. \A m \in member.marks : opt[m] \in {"ignore", "omit", "redact"}
        BY <1>2, ModesAssumption
      <4>2. Visible(member, opt)
        BY <2>1, <3>2, <4>1 DEF Hiding, Visible
      <4>3. Inner(node, opt) =
               {<<node[1].members[j].shape, node[2][j]>>
                  : j \in {k \in DOMAIN node[2] : Visible(node[1].members[k], opt)}}
        BY InnerOf
      <4>4. <<member.shape, val>> \in Inner(node, opt)
        BY <4>2, <4>3
      <4>5. \A part \in Inner(node, opt) : Value(part[1], part[2]) \in S
        BY ExposedValues
      <4>6. Value(member.shape, val) \in S
        <5> HIDE DEF member, val, S
        <5> QED BY <4>4, <4>5
      <4> QED BY <3>2, <4>6, OneStep
    <3> QED BY <3>1, <3>2
  <2> HIDE DEF rest
  <2>5. BeginMember(member.name) \o rest \in Seq(S)
    BY <2>3, <2>4, ThreeSeqs
  <2> QED BY <1>4, <2>5, Zenon DEF WriteMember, rest
<1> QED BY <1>3, <1>4

(* Each step is one of these.                                              *)
LEMMA StepKinds ==
    ASSUME NEW call \in Calls, NEW modes \in Modes, NEW t \in Steps(call, modes)
    PROVE  /\ t.op = "put" => t.text \in Seq(Atoms(call, modes))
           /\ t.op = "value" =>
                 \E node \in Exposed[call][modes] : t.shape = node[1] /\ t.val = node[2]
           /\ t.op = "field" =>
                 \E node \in Exposed[call][modes] : \E i \in DOMAIN node[2] :
                    /\ node[1].kind = "object"
                    /\ t.member = node[1].members[i] /\ t.val = node[2][i]
<1>1. CASE t \in Puts(Atoms(call, modes))
  BY <1>1 DEF Puts
<1>2. CASE t = Item
  BY <1>2 DEF Item
<1>3. CASE t \in Values(Exposed[call][modes])
  <2>1. PICK node \in Exposed[call][modes] : t = Value(node[1], node[2])
    BY <1>3 DEF Values
  <2>2. t.op = "value" /\ t.shape = node[1] /\ t.val = node[2]
    BY <2>1 DEF Value
  <2> QED BY <2>2
<1>4. CASE t \in Fields(Exposed[call][modes])
  <2>1. PICK node \in Exposed[call][modes] : node[1].kind = "object" /\ t \in Members(node)
    BY <1>4 DEF Fields
  <2>2. PICK i \in DOMAIN node[2] : t = Field(node[1].members[i], node[2][i])
    BY <2>1 DEF Members
  <2>3. t.op = "field" /\ t.member = node[1].members[i] /\ t.val = node[2][i]
    BY <2>2 DEF Field
  <2> QED BY <2>1, <2>2, <2>3
<1> QED BY <1>1, <1>2, <1>3, <1>4 DEF Steps

-----------------------------------------------------------------------------
(* The inductive invariant.                                                *)

Newline == Put(<<"\n">>)

Current == made[Len(made)].call

(* The rest of a record: what its codecs have to do, and its newline.      *)
Rest(call, modes) == {tasks \o <<Newline>> : tasks \in Seq(Steps(call, modes))}

Record == [call : Calls, from : Nat, outcome : {"none", "ok", "lost", "thrown"}]

(* A call in progress has the rest of its record to write; one whose last  *)
(* insertion threw, or that is through, has nothing left to do.            *)
CallTyped ==
    /\ opt \in Modes /\ handler \in BOOLEAN /\ bad \in BOOLEAN /\ thrown \in BOOLEAN
    /\ made \in Seq(Record)
    /\ \/ status = "idle" /\ todo = <<>> /\ ~thrown
       \/ /\ status = "logging" /\ made # <<>> /\ made[Len(made)].outcome = "none"
          /\ \/ todo = <<>>
             \/ ~thrown /\ todo \in Rest(Current, opt)

(* All that the calls made so far may put into the output.                 *)
Sayable == Syntax \cup UNION {Words[made[i].call][opt] : i \in DOMAIN made}

Newlines(text) == {i \in DOMAIN text : text[i] = "\n"}

With(outcome) == {i \in DOMAIN made : made[i].outcome = outcome}

(* A call that is through, and lost nothing, has written its newline.      *)
Through == status = "logging" /\ ~thrown /\ todo = <<>> /\ ~bad

LinesCounted ==
    Cardinality(Newlines(out)) =
        IF Through THEN Cardinality(With("ok")) + 1 ELSE Cardinality(With("ok"))

FailuresReported ==
    /\ reports \in Seq(Nat) /\ IsInjective(reports)
    /\ Range(reports) = IF handler THEN With("thrown") ELSE {}

LInv == CallTyped /\ out \in Seq(Sayable) /\ LinesCounted /\ FailuresReported

(* What is first in the rest of a record.                                  *)
LEMMA RestHead ==
    ASSUME NEW call, NEW modes, NEW tasks \in Rest(call, modes)
    PROVE  /\ tasks # <<>>
           /\ \/ Head(tasks) = Newline /\ Tail(tasks) = <<>>
              \/ Head(tasks) \in Steps(call, modes) /\ Tail(tasks) \in Rest(call, modes)
<1> DEFINE S == Steps(call, modes)
<1>1. PICK front \in Seq(S) : tasks = front \o <<Newline>>
  BY DEF Rest
<1> HIDE DEF S
<1>2. CASE front = <<>>
  BY <1>1, <1>2
<1>3. CASE front # <<>>
  <2> DEFINE U == S \cup {Newline}
  <2>1. front \in Seq(U) /\ <<Newline>> \in Seq(U)
    OBVIOUS
  <2>2. Head(front) \in S /\ Tail(front) \in Seq(S)
    BY <1>3
  <2>3. tasks # <<>> /\ Head(tasks) = Head(front) /\ Tail(tasks) = Tail(front) \o <<Newline>>
    <3> HIDE DEF U
    <3> QED BY <1>1, <1>3, <2>1
  <2> QED BY <2>2, <2>3 DEF Rest, S
<1> QED BY <1>2, <1>3

(* More steps in front of the rest of a record.                            *)
LEMMA RestMore ==
    ASSUME NEW call, NEW modes, NEW tasks \in Rest(call, modes),
           NEW steps \in Seq(Steps(call, modes))
    PROVE  steps \o tasks \in Rest(call, modes)
<1> DEFINE S == Steps(call, modes)
<1>1. PICK front \in Seq(S) : tasks = front \o <<Newline>>
  BY DEF Rest
<1> HIDE DEF S
<1>2. steps \in Seq(S)
  BY DEF S
<1>3. steps \o (front \o <<Newline>>) = (steps \o front) \o <<Newline>>
  <2> DEFINE U == S \cup {Newline}
  <2>1. front \in Seq(U) /\ <<Newline>> \in Seq(U) /\ steps \in Seq(U)
    BY <1>2
  <2> HIDE DEF U
  <2> QED BY <2>1
<1>4. steps \o front \in Seq(S)
  BY <1>2, ThreeSeqs
<1> QED BY <1>1, <1>3, <1>4 DEF Rest, S

(* Text without a newline.                                                 *)
LEMMA NewlinesKept ==
    ASSUME NEW A, NEW o \in Seq(A), NEW B, NEW t \in Seq(B), "\n" \notin B
    PROVE  Newlines(o \o t) = Newlines(o)
<1> DEFINE u == o \o t
<1>1. u \in Seq(A \cup B) /\ Len(u) = Len(o) + Len(t)
  OBVIOUS
<1>2. /\ \A i \in 1 .. Len(o) : u[i] = o[i]
      /\ \A i \in 1 .. Len(u) : i > Len(o) => u[i] = t[i - Len(o)]
  OBVIOUS
<1>3. DOMAIN u = 1 .. Len(u) /\ DOMAIN o = 1 .. Len(o) /\ DOMAIN t = 1 .. Len(t)
      /\ Len(o) \in Nat /\ Len(t) \in Nat
  BY <1>1
<1> HIDE DEF u
<1>4. ASSUME NEW i \in 1 .. Len(u), i > Len(o) PROVE u[i] # "\n"
  <2>1. i - Len(o) \in 1 .. Len(t)
    BY <1>1, <1>3, <1>4
  <2>2. t[i - Len(o)] \in B
    BY <2>1
  <2> QED BY <1>2, <1>4, <2>2
<1>5. ASSUME NEW i \in 1 .. Len(o) PROVE i \in 1 .. Len(u) /\ u[i] = o[i]
  BY <1>1, <1>2, <1>3
<1>6. \A i \in 1 .. Len(u) : i > Len(o) \/ i \in 1 .. Len(o)
  BY <1>3
<1>7. Newlines(u) = Newlines(o)
  BY <1>3, <1>4, <1>5, <1>6 DEF Newlines
<1> QED BY <1>7 DEF u

(* The newlines of a text can be counted, and one more is one more.        *)
LEMMA NewlineAdded ==
    ASSUME NEW A, NEW o \in Seq(A)
    PROVE  /\ Cardinality(Newlines(o)) \in Nat
           /\ Cardinality(Newlines(o \o <<"\n">>)) = Cardinality(Newlines(o)) + 1
<1>1. IsFiniteSet(Newlines(o)) /\ Len(o) + 1 \notin Newlines(o) /\ Len(o) \in Nat
  <2>1. Len(o) \in Nat /\ DOMAIN o = 1 .. Len(o)
    OBVIOUS
  <2>2. Newlines(o) \subseteq 1 .. Len(o)
    BY <2>1 DEF Newlines
  <2>3. IsFiniteSet(1 .. Len(o))
    BY <2>1, FS_Interval
  <2>4. IsFiniteSet(Newlines(o))
    BY <2>2, <2>3, FS_Subset
  <2> QED BY <2>1, <2>2, <2>4
<1>2. Newlines(o \o <<"\n">>) = Newlines(o) \cup {Len(o) + 1}
  <2> DEFINE u == o \o <<"\n">>
  <2>1. /\ Len(u) = Len(o) + 1 /\ DOMAIN u = 1 .. Len(u) /\ DOMAIN o = 1 .. Len(o)
        /\ u[Len(o) + 1] = "\n" /\ \A i \in 1 .. Len(o) : u[i] = o[i]
    OBVIOUS
  <2> HIDE DEF u
  <2>2. \A i \in 1 .. Len(u) : i \in 1 .. Len(o) \/ i = Len(o) + 1
    BY <1>1, <2>1
  <2>3. \A i \in 1 .. Len(o) : i \in 1 .. Len(u)
    BY <1>1, <2>1
  <2>4. Len(o) + 1 \in 1 .. Len(u)
    BY <1>1, <2>1
  <2>5. Newlines(u) = Newlines(o) \cup {Len(o) + 1}
    BY <2>1, <2>2, <2>3, <2>4 DEF Newlines
  <2> QED BY <2>5 DEF u
<1>3. Cardinality(Newlines(o)) \in Nat
  BY <1>1, FS_CardinalityType
<1> QED BY <1>1, <1>2, <1>3, FS_AddElement

-----------------------------------------------------------------------------
(* Every action preserves it.                                              *)

(* A call that has something to do writes the rest of its record.          *)
LEMMA InRecord ==
    ASSUME LInv, todo # <<>>
    PROVE  /\ status = "logging" /\ ~thrown /\ made # <<>>
           /\ Current \in Calls /\ opt \in Modes
           /\ todo \in Rest(Current, opt)
           /\ \/ Head(todo) = Newline /\ Tail(todo) = <<>>
              \/ /\ Head(todo) \in Steps(Current, opt)
                 /\ Tail(todo) # <<>> /\ Tail(todo) \in Rest(Current, opt)
<1>1. status = "logging" /\ ~thrown /\ made # <<>> /\ todo \in Rest(Current, opt)
  BY DEF LInv, CallTyped
<1>2. made \in Seq(Record)
  BY DEF LInv, CallTyped
<1>3. made[Len(made)] \in Record
  BY <1>1, <1>2, LastOfSeq
<1>4. Current \in Calls /\ opt \in Modes
  BY <1>3 DEF Current, Record, LInv, CallTyped
<1>5. \/ Head(todo) = Newline /\ Tail(todo) = <<>>
      \/ Head(todo) \in Steps(Current, opt) /\ Tail(todo) \in Rest(Current, opt)
  BY <1>1, RestHead
<1>6. Tail(todo) \in Rest(Current, opt) => Tail(todo) # <<>>
  BY RestHead
<1> QED BY <1>1, <1>4, <1>5, <1>6

(* A step of a codec that puts out nothing.                                *)
LEMMA ReplaceKeeps ==
    ASSUME LInv, todo # <<>>, Head(todo).op # "put",
           NEW steps \in Seq(Steps(Current, opt)), Replace(steps),
           UNCHANGED <<handler, status, made, reports>>
    PROVE  LInv'
<1>1. Tail(todo) \in Rest(Current, opt) /\ status = "logging" /\ ~thrown
  <2>1. Newline.op = "put"
    BY DEF Newline, Put
  <2> QED BY <2>1, InRecord
<1>2. todo' \in Rest(Current, opt) /\ todo' # <<>>
  <2>1. steps \o Tail(todo) \in Rest(Current, opt)
    BY <1>1, RestMore
  <2>2. todo' = steps \o Tail(todo)
    BY DEF Replace
  <2> QED BY <2>1, <2>2, RestHead
<1>3. /\ out' = out /\ opt' = opt /\ bad' = bad /\ thrown' = thrown /\ handler' = handler
      /\ status' = status /\ made' = made /\ reports' = reports
  BY DEF Replace
<1>4. CallTyped'
  BY <1>1, <1>2, <1>3 DEF LInv, CallTyped, Current
<1>5. out' \in Seq(Sayable')
  BY <1>3 DEF LInv, Sayable
<1>6. LinesCounted'
  BY <1>1, <1>2, <1>3 DEF LInv, LinesCounted, Through, With
<1>7. FailuresReported'
  BY <1>3 DEF LInv, FailuresReported, With
<1> QED BY <1>4, <1>5, <1>6, <1>7 DEF LInv

(* A value's codec does what it does.                                      *)
LEMMA WriteValueKeeps == LInv /\ WriteValue /\ UNCHANGED <<handler, status, made, reports>> => LInv'
<1> SUFFICES ASSUME LInv, WriteValue, UNCHANGED <<handler, status, made, reports>>
             PROVE  LInv'
  OBVIOUS
<1>1. todo # <<>> /\ Head(todo).op = "value"
  BY DEF WriteValue, Doing
<1>2. PICK steps \in Codec(Head(todo).shape, Head(todo).val) : Replace(steps)
  BY DEF WriteValue
<1>3. Head(todo) \in Steps(Current, opt) /\ Current \in Calls /\ opt \in Modes
  <2>1. Newline.op = "put"
    BY DEF Newline, Put
  <2> QED BY <1>1, <2>1, InRecord
<1>4. PICK node \in Exposed[Current][opt] :
          Head(todo).shape = node[1] /\ Head(todo).val = node[2]
  BY <1>1, <1>3, StepKinds
<1>5. steps \in Codec(node[1], node[2])
  BY <1>2, <1>4
<1>6. steps \in Seq(Steps(Current, opt))
  BY <1>3, <1>5, CodecType
<1>7. Head(todo).op # "put"
  BY <1>1
<1> QED BY <1>1, <1>2, <1>6, <1>7, ReplaceKeeps

(* A member is written, or hidden.                                         *)
LEMMA WriteFieldKeeps == LInv /\ WriteField /\ UNCHANGED <<handler, status, made, reports>> => LInv'
<1> SUFFICES ASSUME LInv, WriteField, UNCHANGED <<handler, status, made, reports>>
             PROVE  LInv'
  OBVIOUS
<1>1. todo # <<>> /\ Head(todo).op = "field"
  BY DEF WriteField, Doing
<1> DEFINE steps == WriteMember(Head(todo).member, Head(todo).val)
<1>2. Replace(steps)
  BY DEF WriteField
<1>3. Head(todo) \in Steps(Current, opt) /\ Current \in Calls /\ opt \in Modes
  <2>1. Newline.op = "put"
    BY DEF Newline, Put
  <2> QED BY <1>1, <2>1, InRecord
<1>4. PICK node \in Exposed[Current][opt] : \E i \in DOMAIN node[2] :
          /\ node[1].kind = "object"
          /\ Head(todo).member = node[1].members[i] /\ Head(todo).val = node[2][i]
  BY <1>1, <1>3, StepKinds
<1> PICK i \in DOMAIN node[2] :
          /\ node[1].kind = "object"
          /\ Head(todo).member = node[1].members[i] /\ Head(todo).val = node[2][i]
  BY <1>4
<1>5. steps \in Seq(Steps(Current, opt))
  <2>1. WriteMember(node[1].members[i], node[2][i]) \in Seq(Steps(Current, opt))
    BY <1>3, WriteMemberType
  <2> QED BY <2>1
<1>6. Head(todo).op # "put"
  BY <1>1
<1> HIDE DEF steps
<1> QED BY <1>1, <1>2, <1>5, <1>6, ReplaceKeeps

(* A comma, or none.                                                       *)
LEMMA BeginValueKeeps == LInv /\ BeginValue /\ UNCHANGED <<handler, status, made, reports>> => LInv'
<1> SUFFICES ASSUME LInv, BeginValue, UNCHANGED <<handler, status, made, reports>>
             PROVE  LInv'
  OBVIOUS
<1>1. todo # <<>> /\ Head(todo).op = "item"
  BY DEF BeginValue, Doing
<1>2. Replace(<<Put(<<",">>)>>) \/ Replace(<<>>)
  BY DEF BeginValue
<1>3. <<Put(<<",">>)>> \in Seq(Steps(Current, opt))
  BY StepsAllow, PutType, PlainAtoms
<1>4. <<>> \in Seq(Steps(Current, opt))
  OBVIOUS
<1>5. Head(todo).op # "put"
  BY <1>1
<1> QED BY <1>1, <1>2, <1>3, <1>4, <1>5, ReplaceKeeps

(* What is inserted is an atom of the call, or its newline; a stream that  *)
(* is bad, or goes bad, swallows it.                                       *)
LEMMA InsertKeeps ==
    LInv /\ (Insert \/ InsertBad) /\ UNCHANGED <<handler, status, made, reports>> => LInv'
<1> SUFFICES ASSUME LInv, Insert \/ InsertBad, UNCHANGED <<handler, status, made, reports>>
             PROVE  LInv'
  OBVIOUS
<1>1. /\ todo # <<>> /\ Head(todo).op = "put" /\ todo' = Tail(todo)
      /\ opt' = opt /\ thrown' = thrown /\ handler' = handler /\ status' = status
      /\ made' = made /\ reports' = reports
  BY DEF Insert, InsertBad, Inserted, Doing
<1>2. /\ status = "logging" /\ ~thrown /\ made # <<>> /\ Current \in Calls /\ opt \in Modes
      /\ \/ Head(todo) = Newline /\ Tail(todo) = <<>>
         \/ /\ Head(todo) \in Steps(Current, opt)
            /\ Tail(todo) # <<>> /\ Tail(todo) \in Rest(Current, opt)
  BY <1>1, InRecord
<1>3. \/ out' = out /\ bad' = TRUE
      \/ out' = out \o Head(todo).text /\ bad' = FALSE
  BY DEF Insert, InsertBad, LInv, CallTyped
<1>4. CallTyped'
  <2>1. Current' = Current /\ made' # <<>> /\ made'[Len(made')].outcome = "none"
    BY <1>1, <1>2 DEF Current, LInv, CallTyped
  <2>2. \/ todo' = <<>>
        \/ ~thrown' /\ todo' \in Rest(Current', opt')
    BY <1>1, <1>2, <2>1
  <2>3. /\ opt' \in Modes /\ handler' \in BOOLEAN /\ bad' \in BOOLEAN /\ thrown' \in BOOLEAN
        /\ made' \in Seq(Record) /\ status' = "logging"
    BY <1>1, <1>2, <1>3 DEF LInv, CallTyped
  <2> QED BY <2>1, <2>2, <2>3 DEF CallTyped
<1>5. Sayable' = Sayable /\ With("ok")' = With("ok") /\ With("thrown")' = With("thrown")
  BY <1>1 DEF Sayable, With
<1>6. FailuresReported'
  BY <1>1, <1>5 DEF LInv, FailuresReported
<1>7. ~Through /\ Cardinality(Newlines(out)) = Cardinality(With("ok"))
  BY <1>1 DEF LInv, LinesCounted, Through
<1>8. out \in Seq(Sayable)
  BY DEF LInv
<1>9. CASE out' = out /\ bad' = TRUE
  <2>1. LinesCounted'
    BY <1>5, <1>7, <1>9 DEF LinesCounted, Through
  <2> QED BY <1>4, <1>5, <1>6, <1>8, <1>9, <2>1 DEF LInv
<1>10. CASE out' = out \o Head(todo).text /\ bad' = FALSE
  <2>1. CASE Head(todo) = Newline /\ Tail(todo) = <<>>
    <3>1. out' = out \o <<"\n">>
      BY <1>10, <2>1 DEF Newline, Put
    <3>2. out' \in Seq(Sayable)
      <4>1. "\n" \in Sayable
        BY DEF Sayable, Syntax
      <4>2. <<"\n">> \in Seq(Sayable)
        BY <4>1, OneStep
      <4> QED BY <1>8, <3>1, <4>2, ThreeSeqs
    <3>3. Through'
      BY <1>1, <1>2, <1>10, <2>1 DEF Through
    <3>4. /\ Cardinality(Newlines(out')) = Cardinality(Newlines(out)) + 1
          /\ Cardinality(Newlines(out)) \in Nat
      BY <1>8, <3>1, NewlineAdded
    <3>5. Cardinality(Newlines(out')) = Cardinality(With("ok")') + 1
      BY <1>5, <1>7, <3>4
    <3>6. LinesCounted'
      BY <3>3, <3>5 DEF LinesCounted, Newlines
    <3> QED BY <1>4, <1>5, <1>6, <3>2, <3>6 DEF LInv
  <2>2. CASE Head(todo) \in Steps(Current, opt) /\ Tail(todo) # <<>>
    <3>1. Head(todo).text \in Seq(Atoms(Current, opt))
      BY <1>1, <1>2, <2>2, StepKinds
    <3>2. "\n" \notin Atoms(Current, opt) /\ Atoms(Current, opt) \subseteq Sayable
      <4>1. made \in Seq(Record)
        BY DEF LInv, CallTyped
      <4>2. Len(made) \in DOMAIN made
        BY <1>2, <4>1
      <4>3. Words[Current][opt] \in {Words[made[i].call][opt] : i \in DOMAIN made}
        BY <4>2 DEF Current
      <4> QED BY <4>3 DEF Atoms, Sayable
    <3>3. out' \in Seq(Sayable)
      <4>1. Head(todo).text \in Seq(Sayable)
        BY <3>1, <3>2
      <4> QED BY <1>8, <1>10, <4>1, ThreeSeqs
    <3>4. Newlines(out') = Newlines(out)
      BY <1>8, <1>10, <3>1, <3>2, NewlinesKept
    <3>5. ~Through'
      BY <1>1, <2>2 DEF Through
    <3>6. LinesCounted'
      BY <1>5, <1>7, <3>4, <3>5 DEF LinesCounted, Newlines
    <3> QED BY <1>4, <1>5, <1>6, <3>3, <3>6 DEF LInv
  <2> QED BY <1>2, <2>1, <2>2
<1> QED BY <1>3, <1>9, <1>10

(* Something is thrown: nothing is left to do, whatever there was.         *)
LEMMA ThrowsKeeps ==
    ASSUME LInv, todo # <<>>, thrown' = TRUE, todo' = <<>>,
           UNCHANGED <<out, bad, opt, handler, status, made, reports>>
    PROVE  LInv'
<1>1. status = "logging" /\ made # <<>> /\ made[Len(made)].outcome = "none"
  BY DEF LInv, CallTyped
<1>2. CallTyped'
  BY <1>1 DEF LInv, CallTyped
<1>3. out' \in Seq(Sayable')
  BY DEF LInv, Sayable
<1>4. LinesCounted'
  BY DEF LInv, LinesCounted, Through, With
<1>5. FailuresReported'
  BY DEF LInv, FailuresReported, With
<1> QED BY <1>2, <1>3, <1>4, <1>5 DEF LInv

(* The calls so far, and one more.                                         *)
LEMMA CallsBegun ==
    ASSUME NEW s \in Seq(Record), NEW r \in Record
    PROVE  /\ Append(s, r) \in Seq(Record) /\ Append(s, r) # <<>>
           /\ Append(s, r)[Len(Append(s, r))] = r
           /\ Len(Append(s, r)) = Len(s) + 1 /\ Len(s) \in Nat
           /\ \A i \in DOMAIN s : i \in DOMAIN Append(s, r) /\ Append(s, r)[i] = s[i]
           /\ \A i \in DOMAIN Append(s, r) : i \in DOMAIN s \/ i = Len(Append(s, r))
<1> HIDE DEF Record
<1> QED OBVIOUS

(* A call begins.                                                          *)
LEMMA LogKeeps == LInv /\ Log => LInv'
<1> SUFFICES ASSUME LInv, Log PROVE LInv'
  OBVIOUS
<1>1. PICK call \in Calls :
          /\ todo' = <<Event(call), Put(<<"\n">>)>>
          /\ made' = Append(made, [call |-> call, from |-> Len(out), outcome |-> "none"])
  BY DEF Log
<1> DEFINE r == [call |-> call, from |-> Len(out), outcome |-> "none"]
<1>2. /\ status = "idle" /\ status' = "logging" /\ todo = <<>> /\ ~thrown
      /\ out' = out /\ bad' = bad /\ opt' = opt /\ thrown' = thrown /\ handler' = handler
      /\ reports' = reports
  BY DEF Log, LInv, CallTyped
<1>3. made \in Seq(Record) /\ opt \in Modes /\ out \in Seq(Sayable)
  BY DEF LInv, CallTyped
<1>4. r \in Record
  <2>1. Len(out) \in Nat
    BY <1>3
  <2> QED BY <2>1 DEF Record
<1> HIDE DEF r
<1>5. /\ made' \in Seq(Record) /\ made' # <<>> /\ made'[Len(made')] = r
      /\ \A i \in DOMAIN made : i \in DOMAIN made' /\ made'[i] = made[i]
      /\ \A i \in DOMAIN made' : i \in DOMAIN made \/ i = Len(made')
  BY <1>1, <1>3, <1>4, CallsBegun DEF r
<1>6. r.call = call /\ r.outcome = "none"
  BY DEF r
<1>7. Current' = call
  BY <1>5, <1>6 DEF Current
<1>8. Event(call) \in Steps(call, opt)
  <2>1. Exposed[call][opt] = Exposed[call][opt] \cup {Root(call)}
    BY <1>3, Zenon DEF Exposed
  <2>2. Root(call) \in Exposed[call][opt]
    BY <2>1
  <2>3. Value(Root(call)[1], Root(call)[2]) \in Steps(call, opt)
    BY <2>2, StepsAllow DEF Values
  <2>4. Event(call) = Value(Root(call)[1], Root(call)[2])
    BY DEF Event, Root, Value
  <2> QED BY <2>3, <2>4
<1>9. todo' \in Rest(Current', opt')
  <2> DEFINE S == Steps(call, opt)
             e == Event(call)
  <2>1. e \in S
    BY <1>8
  <2>2. todo' = <<e, Newline>>
    BY <1>1 DEF Newline
  <2> HIDE DEF S, e
  <2>3. <<e>> \in Seq(S)
    BY <2>1, OneStep
  <2>4. <<e, Newline>> = <<e>> \o <<Newline>>
    OBVIOUS
  <2>5. todo' \in Rest(call, opt)
    BY <2>2, <2>3, <2>4 DEF Rest, S
  <2> QED BY <1>2, <1>7, <2>5
<1>10. CallTyped'
  BY <1>2, <1>5, <1>6, <1>9 DEF LInv, CallTyped
<1>11. With("ok")' = With("ok") /\ With("thrown")' = With("thrown")
  BY <1>5, <1>6 DEF With
<1>12. LinesCounted'
  <2>1. ~Through /\ ~Through'
    BY <1>1, <1>2 DEF Through
  <2> QED BY <1>2, <1>11, <2>1 DEF LInv, LinesCounted
<1>13. FailuresReported'
  BY <1>2, <1>11 DEF LInv, FailuresReported
<1>14. out' \in Seq(Sayable')
  <2>1. Sayable \subseteq Sayable'
    <3>1. \A i \in DOMAIN made : Words[made[i].call][opt] = Words[made'[i].call][opt']
      BY <1>2, <1>5
    <3> QED BY <1>5, <3>1 DEF Sayable
  <2> QED BY <1>2, <1>3, <2>1
<1> QED BY <1>10, <1>12, <1>13, <1>14 DEF LInv

(* An insertion throws, or the program's clock does.                       *)
LEMMA FailureKeeps ==
    /\ LInv
    /\ \/ InsertThrows /\ UNCHANGED <<handler, status, made, reports>>
       \/ TimestampThrows
    => LInv'
<1> SUFFICES ASSUME LInv,
                    \/ InsertThrows /\ UNCHANGED <<handler, status, made, reports>>
                    \/ TimestampThrows
             PROVE  LInv'
  OBVIOUS
<1>1. todo # <<>> /\ thrown' = TRUE /\ todo' = <<>>
  BY DEF InsertThrows, TimestampThrows, Doing
<1>2. UNCHANGED <<out, bad, opt, handler, status, made, reports>>
  BY DEF InsertThrows, TimestampThrows
<1> QED BY <1>1, <1>2, ThrowsKeeps

(* How a call ends.                                                        *)
LEMMA EndedOf ==
    ASSUME made \in Seq(Record), made # <<>>, made[Len(made)].outcome = "none",
           NEW o \in {"ok", "lost", "thrown"}, Ended(o)
    PROVE  /\ made' \in Seq(Record) /\ DOMAIN made' = DOMAIN made
           /\ Len(made) \in Nat
           /\ \A i \in DOMAIN made : made'[i].call = made[i].call
           /\ With(o)' = With(o) \cup {Len(made)} /\ Len(made) \notin With(o)
           /\ \A p \in {"ok", "lost", "thrown"} \ {o} : With(p)' = With(p)
<1> DEFINE n == Len(made)
           r == [made[n] EXCEPT !.outcome = o]
<1>1. made' = [made EXCEPT ![n] = r]
  BY DEF Ended
<1>2. n \in DOMAIN made /\ made[n] \in Record /\ n \in Nat
  BY LastOfSeq
<1>3. r \in Record /\ r.outcome = o /\ r.call = made[n].call
  BY <1>2 DEF Record
<1> HIDE DEF r
<1>4. made' \in Seq(Record) /\ DOMAIN made' = DOMAIN made
  BY <1>1, <1>2, <1>3
<1>5. \A i \in DOMAIN made : made'[i] = IF i = n THEN r ELSE made[i]
  BY <1>1, <1>2
<1>6. \A i \in DOMAIN made : made'[i].call = made[i].call
  BY <1>3, <1>5
<1> DEFINE W(p) == {i \in DOMAIN made : made[i].outcome = p}
           V(p) == {i \in DOMAIN made : made'[i].outcome = p}
<1>7. n \notin W(o) /\ V(o) = W(o) \cup {n}
  BY <1>2, <1>3, <1>5
<1>8. \A p \in {"ok", "lost", "thrown"} \ {o} : V(p) = W(p)
  BY <1>2, <1>3, <1>5
<1>9. \A p \in {"ok", "lost", "thrown"} : With(p)' = V(p) /\ With(p) = W(p)
  BY <1>4 DEF With
<1>10. With(o)' = With(o) \cup {n} /\ n \notin With(o)
  BY <1>7, <1>9
<1>11. \A p \in {"ok", "lost", "thrown"} \ {o} : With(p)' = With(p)
  BY <1>8, <1>9
<1> QED BY <1>2, <1>4, <1>6, <1>10, <1>11

(* What the calls may put into the output does not depend on how they end. *)
LEMMA SayableKept ==
    ASSUME DOMAIN made' = DOMAIN made, \A i \in DOMAIN made : made'[i].call = made[i].call,
           opt' = opt
    PROVE  Sayable' = Sayable
BY DEF Sayable

(* A set of calls can be counted.                                          *)
LEMMA CallsCounted ==
    ASSUME made \in Seq(Record), NEW o
    PROVE  IsFiniteSet(With(o)) /\ Cardinality(With(o)) \in Nat
<1>1. Len(made) \in Nat /\ DOMAIN made = 1 .. Len(made)
  OBVIOUS
<1>2. IsFiniteSet(1 .. Len(made))
  BY <1>1, FS_Interval
<1>3. IsFiniteSet(With(o))
  BY <1>1, <1>2, FS_Subset DEF With
<1> QED BY <1>3, FS_CardinalityType

(* A call returns: it ended well, or its stream was bad.                   *)
LEMMA ReturnKeeps == LInv /\ Return => LInv'
<1> SUFFICES ASSUME LInv, Return PROVE LInv'
  OBVIOUS
<1>1. /\ status = "logging" /\ status' = "idle" /\ ~thrown /\ todo = <<>>
      /\ Ended(IF bad THEN "lost" ELSE "ok")
      /\ out' = out /\ bad' = bad /\ opt' = opt /\ thrown' = thrown /\ todo' = todo
      /\ handler' = handler /\ reports' = reports
  BY DEF Return, writerVars
<1>2. /\ made \in Seq(Record) /\ made # <<>> /\ made[Len(made)].outcome = "none"
      /\ opt \in Modes /\ handler \in BOOLEAN /\ bad \in BOOLEAN /\ thrown \in BOOLEAN
      /\ out \in Seq(Sayable)
  BY <1>1 DEF LInv, CallTyped
<1>3. CASE bad
  <2>1. Ended("lost")
    BY <1>1, <1>3
  <2>2. /\ made' \in Seq(Record) /\ Sayable' = Sayable
        /\ With("ok")' = With("ok") /\ With("thrown")' = With("thrown")
    BY <1>1, <1>2, <2>1, EndedOf, SayableKept
  <2>3. CallTyped'
    BY <1>1, <1>2, <2>2 DEF CallTyped
  <2>4. LinesCounted'
    BY <1>1, <1>3, <2>2 DEF LInv, LinesCounted, Through
  <2>5. FailuresReported'
    BY <1>1, <2>2 DEF LInv, FailuresReported
  <2> QED BY <1>1, <1>2, <2>2, <2>3, <2>4, <2>5 DEF LInv
<1>4. CASE ~bad
  <2>1. Ended("ok")
    BY <1>1, <1>4
  <2>2. /\ made' \in Seq(Record) /\ Sayable' = Sayable
        /\ With("ok")' = With("ok") \cup {Len(made)} /\ Len(made) \notin With("ok")
        /\ With("thrown")' = With("thrown")
    BY <1>1, <1>2, <2>1, EndedOf, SayableKept
  <2>3. CallTyped'
    BY <1>1, <1>2, <2>2 DEF CallTyped
  <2>4. LinesCounted'
    <3>1. Cardinality(With("ok")') = Cardinality(With("ok")) + 1
      BY <1>2, <2>2, CallsCounted, FS_AddElement
    <3>2. Cardinality(Newlines(out)) = Cardinality(With("ok")) + 1
      BY <1>1, <1>4 DEF LInv, LinesCounted, Through
    <3>3. ~Through' /\ Newlines(out)' = Newlines(out)
      BY <1>1 DEF Through, Newlines
    <3> QED BY <3>1, <3>2, <3>3 DEF LinesCounted
  <2>5. FailuresReported'
    BY <1>1, <2>2 DEF LInv, FailuresReported
  <2> QED BY <1>1, <1>2, <2>2, <2>3, <2>4, <2>5 DEF LInv
<1> QED BY <1>3, <1>4

(* One more report.                                                        *)
LEMMA ReportAdded ==
    ASSUME NEW s \in Seq(Nat), IsInjective(s), NEW n \in Nat, n \notin Range(s)
    PROVE  /\ Append(s, n) \in Seq(Nat) /\ IsInjective(Append(s, n))
           /\ Range(Append(s, n)) = Range(s) \cup {n}
<1> DEFINE u == Append(s, n)
<1>1. /\ u \in Seq(Nat) /\ Len(u) = Len(s) + 1 /\ DOMAIN u = 1 .. Len(u)
      /\ DOMAIN s = 1 .. Len(s) /\ Len(s) \in Nat
      /\ u[Len(s) + 1] = n /\ \A i \in 1 .. Len(s) : u[i] = s[i]
  OBVIOUS
<1> HIDE DEF u
<1>2. \A i \in DOMAIN s : s[i] # n
  BY DEF Range
<1>3. \A i \in DOMAIN u : i \in DOMAIN s \/ i = Len(s) + 1
  BY <1>1
<1>4. DOMAIN s \subseteq DOMAIN u /\ Len(s) + 1 \in DOMAIN u
  BY <1>1
<1>5. IsInjective(u)
  BY <1>1, <1>2, <1>3 DEF IsInjective
<1>6. Range(u) = Range(s) \cup {n}
  BY <1>1, <1>3, <1>4 DEF Range
<1> QED BY <1>1, <1>5, <1>6 DEF u

(* A call that threw is reported, once, to a handler that is there.        *)
LEMMA ReportErrorKeeps == LInv /\ ReportError => LInv'
<1> SUFFICES ASSUME LInv, ReportError PROVE LInv'
  OBVIOUS
<1>1. /\ status = "logging" /\ status' = "idle" /\ thrown /\ thrown' = FALSE
      /\ Ended("thrown")
      /\ reports' = IF handler THEN Append(reports, Len(made)) ELSE reports
      /\ out' = out /\ bad' = bad /\ opt' = opt /\ todo' = todo /\ handler' = handler
  BY DEF ReportError
<1>2. /\ made \in Seq(Record) /\ made # <<>> /\ made[Len(made)].outcome = "none"
      /\ opt \in Modes /\ handler \in BOOLEAN /\ bad \in BOOLEAN
      /\ out \in Seq(Sayable) /\ todo = <<>>
  BY <1>1 DEF LInv, CallTyped
<1>3. /\ made' \in Seq(Record) /\ Sayable' = Sayable /\ Len(made) \in Nat
      /\ With("thrown")' = With("thrown") \cup {Len(made)}
      /\ Len(made) \notin With("thrown") /\ With("ok")' = With("ok")
  BY <1>1, <1>2, EndedOf, SayableKept
<1>4. CallTyped'
  BY <1>1, <1>2, <1>3 DEF CallTyped
<1>5. LinesCounted'
  BY <1>1, <1>3 DEF LInv, LinesCounted, Through
<1>6. FailuresReported'
  <2>1. reports \in Seq(Nat) /\ IsInjective(reports)
        /\ Range(reports) = IF handler THEN With("thrown") ELSE {}
    BY DEF LInv, FailuresReported
  <2>2. CASE handler
    <3>1. reports' = Append(reports, Len(made)) /\ Len(made) \notin Range(reports)
      BY <1>1, <1>3, <2>1, <2>2
    <3>2. /\ reports' \in Seq(Nat) /\ IsInjective(reports')
          /\ Range(reports') = Range(reports) \cup {Len(made)}
      BY <1>3, <2>1, <3>1, ReportAdded
    <3> QED BY <1>1, <1>3, <2>1, <2>2, <3>2 DEF FailuresReported
  <2>3. CASE ~handler
    BY <1>1, <2>1, <2>3 DEF FailuresReported
  <2> QED BY <2>2, <2>3
<1> QED BY <1>1, <1>2, <1>3, <1>4, <1>5, <1>6 DEF LInv

(* Between two calls the stream may be cleared.                            *)
LEMMA ClearKeeps == LInv /\ Clear => LInv'
<1> SUFFICES ASSUME LInv, Clear PROVE LInv'
  OBVIOUS
<1>1. /\ status = "idle" /\ status' = status /\ bad' = FALSE /\ out' = out /\ opt' = opt
      /\ thrown' = thrown /\ todo' = todo /\ handler' = handler /\ made' = made
      /\ reports' = reports
  BY DEF Clear
<1> QED BY <1>1 DEF LInv, CallTyped, Sayable, LinesCounted, Through, FailuresReported, With

(* No call has been made yet.                                              *)
LEMMA InitKeeps == Init => LInv
<1> SUFFICES ASSUME Init PROVE LInv
  OBVIOUS
<1>1. /\ made = <<>> /\ out = <<>> /\ todo = <<>> /\ reports = <<>> /\ status = "idle"
      /\ opt \in Modes /\ handler \in BOOLEAN /\ bad = FALSE /\ thrown = FALSE
  BY DEF Init, WriterInit
<1>2. With("ok") = {} /\ With("thrown") = {} /\ Newlines(out) = {}
  BY <1>1 DEF With, Newlines
<1>3. LinesCounted
  BY <1>1, <1>2 DEF LinesCounted, Through
<1>4. FailuresReported
  <2>1. Range(reports) = {} /\ IsInjective(reports) /\ reports \in Seq(Nat)
    BY <1>1 DEF Range, IsInjective
  <2> QED BY <1>2, <2>1 DEF FailuresReported
<1>5. CallTyped
  <2>1. made \in Seq(Record)
    BY <1>1
  <2> QED BY <1>1, <2>1 DEF CallTyped
<1>6. out \in Seq(Sayable)
  BY <1>1
<1> QED BY <1>3, <1>4, <1>5, <1>6 DEF LInv

(* Every step preserves it.                                                *)
LEMMA LInvKept == LInv /\ [Next]_vars => LInv'
<1> SUFFICES ASSUME LInv, [Next]_vars PROVE LInv'
  OBVIOUS
<1>1. CASE Log
  BY <1>1, LogKeeps
<1>2. CASE TimestampThrows
  BY <1>2, FailureKeeps
<1>3. CASE WriteEvent
  <2>1. UNCHANGED <<handler, status, made, reports>>
    BY <1>3 DEF WriteEvent
  <2>2. WriteValue \/ WriteField \/ BeginValue \/ Insert \/ InsertBad \/ InsertThrows
    BY <1>3 DEF WriteEvent, WriterStep
  <2> QED BY <2>1, <2>2, WriteValueKeeps, WriteFieldKeeps, BeginValueKeeps, InsertKeeps,
             FailureKeeps
<1>4. CASE ReportError
  BY <1>4, ReportErrorKeeps
<1>5. CASE Return
  BY <1>5, ReturnKeeps
<1>6. CASE Clear
  BY <1>6, ClearKeeps
<1>7. CASE UNCHANGED vars
  <2>1. /\ out' = out /\ bad' = bad /\ opt' = opt /\ todo' = todo /\ thrown' = thrown
        /\ handler' = handler /\ status' = status /\ made' = made /\ reports' = reports
    BY <1>7 DEF vars, writerVars
  <2> QED BY <2>1 DEF LInv, CallTyped, Current, Sayable, LinesCounted, Through,
                      FailuresReported, With
<1> QED BY <1>1, <1>2, <1>3, <1>4, <1>5, <1>6, <1>7 DEF Next

-----------------------------------------------------------------------------
(* A value under an attribute that the options omit or redact is never in  *)
(* the output, nor the name of a member that they omit: logger and         *)
(* json::writer::field, of every call, at every depth, whatever fails.     *)
THEOREM HiddenNeverWritten == Spec => []HiddenStaysHidden
<1>1. LInv => HiddenStaysHidden
  <2> SUFFICES ASSUME LInv PROVE Range(out) \subseteq Sayable
    BY DEF HiddenStaysHidden, Sayable
  <2>1. out \in Seq(Sayable)
    BY DEF LInv
  <2> HIDE DEF Sayable
  <2> QED BY <2>1 DEF Range
<1> QED BY <1>1, InitKeeps, LInvKept, PTL DEF Spec

(* The output has as many newlines as calls have ended well, and each call *)
(* that threw is reported once to a handler that is there:                 *)
(* logger::write_with_context and logger::report_error.                    *)
THEOREM LinesEndRecords == Spec => []LinesDelimited
<1>1. LInv => LinesDelimited
  <2> SUFFICES ASSUME LInv, status = "idle" PROVE LinesDelimited
    BY DEF LinesDelimited
  <2>1. Cardinality(Newlines(out)) = Cardinality(With("ok"))
    BY DEF LInv, LinesCounted, Through
  <2>2. Range(reports) = (IF handler THEN With("thrown") ELSE {}) /\ IsInjective(reports)
    BY DEF LInv, FailuresReported
  <2>3. Range(reports) = {i \in DOMAIN made : handler /\ made[i].outcome = "thrown"}
    BY <2>2 DEF With
  <2> QED BY <2>1, <2>2, <2>3 DEF LinesDelimited, Newlines, With
<1> QED BY <1>1, InitKeeps, LInvKept, PTL DEF Spec

=============================================================================
