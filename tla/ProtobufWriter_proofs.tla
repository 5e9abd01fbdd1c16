------------------------ MODULE ProtobufWriter_proofs ------------------------
(***************************************************************************)
(* Theorems of ProtobufWriter for every schema, every objects, every       *)
(* output and every number of writes: what is out never exceeds the        *)
(* output, and a failed write says what failed, in which field and where.  *)
(***************************************************************************)
EXTENDS ProtobufWriter, FiniteSetTheorems, TLAPS

-----------------------------------------------------------------------------
(* The agenda.                                                             *)

(* A task that puts out some bytes or calls a codec for a value it can     *)
(* write, and names the field it is for.                                   *)
Plain(t) ==
    /\ t.do \in {"put", "keyed", "bare"}
    /\ t.who # Absent
    /\ t.do = "put" => t.stage # Absent /\ IsSeq(t.bytes)
    /\ t.do \in {"keyed", "bare"} => <<t.shape, t.val>> \in Values

Plains(tasks) == IsSeq(tasks) /\ \A i \in 1 .. Len(tasks) : Plain(tasks[i])

(* So does one that puts a length in front; lengths are not in lengths     *)
(* before the codec of the inner value is called.                          *)
Task(t) ==
    \/ Plain(t)
    \/ /\ t = [do |-> t.do, head |-> t.head, body |-> t.body, who |-> t.who]
       /\ t.do \in {"sized", "measured"}
       /\ t.who # Absent
       /\ Plains(t.head) /\ Plains(t.body)

Tasks(tasks) == IsSeq(tasks) /\ \A i \in 1 .. Len(tasks) : Task(tasks[i])

IInv ==
    /\ status \in {"idle", "writing", "ok", "error"}
    /\ capacity \in Nat
    /\ IsSeq(out) /\ Len(out) <= capacity
    /\ Tasks(agenda)
    /\ DiagnosticComplete

-----------------------------------------------------------------------------
(* Sequences of tasks.                                                     *)

(* What is written as a function on 1 .. n is a sequence.                  *)
LEMMA FunctionSeq ==
    ASSUME NEW n \in Nat, NEW f, f = [i \in 1 .. n |-> f[i]]
    PROVE  IsSeq(f) /\ Len(f) = n
<1>1. f \in [1 .. n -> {f[i] : i \in 1 .. n}]
  OBVIOUS
<1>2. DOMAIN f = 1 .. n
  BY <1>1
<1>3. f \in Seq({f[i] : i \in 1 .. n}) /\ Len(f) = n
  BY <1>1
<1> QED BY <1>2, <1>3 DEF IsSeq

(* A sequence's elements are numbered from one.                            *)
LEMMA SeqDomain ==
    ASSUME NEW s, IsSeq(s)
    PROVE  Len(s) \in Nat /\ DOMAIN s = 1 .. Len(s)
BY DEF IsSeq

(* A sequence is one over the set of its own elements.                     *)
LEMMA SeqIsSeq ==
    ASSUME NEW S, NEW s \in Seq(S)
    PROVE  IsSeq(s)
<1>1. Len(s) \in Nat /\ s = [i \in 1 .. Len(s) |-> s[i]]
  OBVIOUS
<1> QED BY <1>1, FunctionSeq

(* One sequence behind another has the elements of both.                   *)
LEMMA JoinSeq ==
    ASSUME NEW a, NEW b, IsSeq(a), IsSeq(b)
    PROVE  /\ IsSeq(a \o b) /\ Len(a \o b) = Len(a) + Len(b)
           /\ \A i \in 1 .. Len(a \o b) :
                 \/ \E j \in 1 .. Len(a) : (a \o b)[i] = a[j]
                 \/ \E j \in 1 .. Len(b) : (a \o b)[i] = b[j]
<1> DEFINE S == {a[i] : i \in DOMAIN a} \cup {b[i] : i \in DOMAIN b}
<1>1. a \in Seq(S) /\ b \in Seq(S)
  BY DEF IsSeq
<1> HIDE DEF S
<1>2. a \o b \in Seq(S) /\ Len(a \o b) = Len(a) + Len(b)
  BY <1>1
<1>3. \A i \in 1 .. Len(a \o b) :
         (a \o b)[i] = IF i <= Len(a) THEN a[i] ELSE b[i - Len(a)]
  BY <1>1, <1>2
<1>4. Len(a) \in Nat /\ Len(b) \in Nat
  BY <1>1
<1>5. ASSUME NEW i \in 1 .. Len(a \o b)
      PROVE  \/ \E j \in 1 .. Len(a) : (a \o b)[i] = a[j]
             \/ \E j \in 1 .. Len(b) : (a \o b)[i] = b[j]
  <2>1. CASE i <= Len(a)
    BY <1>3, <1>4, <2>1
  <2>2. CASE ~(i <= Len(a))
    <3>1. i - Len(a) \in 1 .. Len(b)
      BY <1>2, <1>4, <2>2
    <3>2. (a \o b)[i] = b[i - Len(a)]
      BY <1>3, <2>2
    <3> QED BY <3>1, <3>2
  <2> QED BY <2>1, <2>2
<1> QED BY <1>2, <1>5, SeqIsSeq

(* One task.                                                               *)
LEMMA OneTask ==
    ASSUME NEW t
    PROVE  /\ Plain(t) => Plains(<<t>>)
           /\ Task(t) => Tasks(<<t>>)
<1>1. <<t>> \in Seq({t}) /\ Len(<<t>>) = 1 /\ <<t>>[1] = t
  OBVIOUS
<1>2. IsSeq(<<t>>)
  BY <1>1, SeqIsSeq
<1>3. \A i \in 1 .. Len(<<t>>) : <<t>>[i] = t
  BY <1>1
<1> QED BY <1>2, <1>3 DEF Plains, Tasks

(* Two sequences of tasks behind one another.                              *)
LEMMA JoinTasks ==
    ASSUME NEW a, NEW b
    PROVE  /\ Plains(a) /\ Plains(b) => Plains(a \o b)
           /\ Tasks(a) /\ Tasks(b) => Tasks(a \o b)
<1>1. ASSUME Plains(a), Plains(b) PROVE Plains(a \o b)
  BY <1>1, JoinSeq DEF Plains
<1>2. ASSUME Tasks(a), Tasks(b) PROVE Tasks(a \o b)
  BY <1>2, JoinSeq DEF Tasks
<1> QED BY <1>1, <1>2

(* Tasks without a length are tasks.                                       *)
LEMMA PlainTasks ==
    ASSUME NEW a, Plains(a)
    PROVE  Tasks(a)
BY DEF Plains, Tasks, Task

(* Nothing to do.                                                          *)
LEMMA NoTasks == Plains(<<>>) /\ Tasks(<<>>)
<1>1. <<>> \in Seq({}) /\ Len(<<>>) = 0
  OBVIOUS
<1>2. IsSeq(<<>>)
  BY <1>1, SeqIsSeq
<1> QED BY <1>1, <1>2 DEF Plains, Tasks

(* One task less.                                                          *)
LEMMA RestTasks ==
    ASSUME NEW a, Tasks(a), a # <<>>
    PROVE  Task(Head(a)) /\ Tasks(Tail(a))
<1> DEFINE S == {a[i] : i \in DOMAIN a}
<1>1. a \in Seq(S)
  BY DEF Tasks, IsSeq
<1> HIDE DEF S
<1>2. /\ Len(a) \in Nat \ {0} /\ Head(a) = a[1]
      /\ Tail(a) \in Seq(S) /\ Len(Tail(a)) = Len(a) - 1
      /\ \A i \in 1 .. Len(a) - 1 : Tail(a)[i] = a[i + 1]
  BY <1>1
<1>3. IsSeq(Tail(a))
  BY <1>2, SeqIsSeq
<1>4. \A l \in Nat \ {0} : 1 \in 1 .. l /\ \A i \in 1 .. l - 1 : i + 1 \in 1 .. l
  OBVIOUS
<1>5. \A i \in 1 .. Len(Tail(a)) : Task(Tail(a)[i])
  BY <1>2, <1>4 DEF Tasks
<1> QED BY <1>2, <1>3, <1>4, <1>5 DEF Tasks

-----------------------------------------------------------------------------
(* Bytes.                                                                  *)

(* Counting the numbers of a range that have some property.                *)
LEMMA CountType ==
    ASSUME NEW n \in Int, NEW S, S \subseteq 1 .. n
    PROVE  Cardinality(S) \in Nat /\ (n \in Nat => Cardinality(S) <= n)
<1>1. /\ IsFiniteSet(1 .. n)
      /\ Cardinality(1 .. n) = IF 1 > n THEN 0 ELSE n - 1 + 1
  BY FS_Interval
<1>2. /\ IsFiniteSet(S) /\ Cardinality(S) <= Cardinality(1 .. n)
      /\ Cardinality(S) \in Nat
  BY <1>1, FS_Subset, FS_CardinalityType
<1> QED BY <1>1, <1>2

(* A varint is a sequence of bytes.                                        *)
LEMMA VarintSeq ==
    ASSUME NEW word
    PROVE  IsSeq(Varint(word))
<1>1. MaxVarint - 1 \in Int
  BY WordBitsAssumption DEF MaxVarint
<1> DEFINE S == {n \in 1 .. MaxVarint - 1 : word >= 128 ^ n}
<1>2. Cardinality(S) \in Nat
  BY <1>1, CountType
<1>3. VarintSize(word) = 1 + Cardinality(S)
  BY Zenon DEF VarintSize
<1> HIDE DEF S
<1>4. VarintSize(word) \in Nat
  BY <1>2, <1>3
<1>5. DOMAIN Varint(word) = 1 .. VarintSize(word)
  BY DEF Varint
<1>6. Varint(word) = [i \in 1 .. VarintSize(word) |-> Varint(word)[i]]
  BY <1>5 DEF Varint
<1> QED BY <1>4, <1>6, FunctionSeq

(* The first few elements of a sequence.                                   *)
LEMMA PrefixSeq ==
    ASSUME NEW s, IsSeq(s), NEW n \in 0 .. Len(s)
    PROVE  IsSeq(SubSeq(s, 1, n)) /\ Len(SubSeq(s, 1, n)) = n
<1> DEFINE S == {s[i] : i \in DOMAIN s}
<1>1. s \in Seq(S)
  BY DEF IsSeq
<1> HIDE DEF S
<1>2. SubSeq(s, 1, n) \in Seq(S) /\ Len(SubSeq(s, 1, n)) = n
  BY <1>1
<1> QED BY <1>2, SeqIsSeq

(* What is left of bytes without the zeros at their end.                   *)
LEMMA TrimmedSeq ==
    ASSUME NEW bytes, IsSeq(bytes)
    PROVE  IsSeq(Trimmed(bytes))
<1> DEFINE S == {i \in DOMAIN bytes : \E j \in i .. Len(bytes) : bytes[j] # 0}
<1>1. Len(bytes) \in Nat /\ S \subseteq 1 .. Len(bytes)
  BY SeqDomain
<1>2. Trimmed(bytes) = SubSeq(bytes, 1, Cardinality(S))
  BY Zenon DEF Trimmed
<1> HIDE DEF S
<1>3. /\ Cardinality(S) \in Nat
      /\ Len(bytes) \in Nat => Cardinality(S) <= Len(bytes)
  <2>1. Len(bytes) \in Int
    BY <1>1
  <2> QED BY <1>1, <2>1, CountType, Zenon
<1>4. Cardinality(S) \in 0 .. Len(bytes)
  BY <1>1, <1>3
<1> QED BY <1>2, <1>4, PrefixSeq

(* A blob's bytes.                                                         *)
LEMMA BlobSeq ==
    ASSUME NEW shape, NEW val, WellTyped(Fields, shape, val), IsBlob(shape)
    PROVE  IsSeq(BlobBytes(shape, val))
<1>1. CASE shape.kind = "bitset"
  <2>1. BitsetBytes(shape.size) \in Nat
    BY <1>1 DEF WellTyped, BitsetBytes
  <2> DEFINE bytes == PackedInto(val, BitsetBytes(shape.size))
  <2>2. DOMAIN bytes = 1 .. BitsetBytes(shape.size)
    BY DEF PackedInto
  <2>3. bytes = [i \in 1 .. BitsetBytes(shape.size) |-> bytes[i]]
    BY <2>2 DEF PackedInto
  <2>4. BlobBytes(shape, val) = bytes
    BY <1>1 DEF BlobBytes
  <2> HIDE DEF bytes
  <2> QED BY <2>1, <2>3, <2>4, FunctionSeq
<1>2. CASE shape.kind = "array"
  <2>1. Len(val) \in Nat /\ DOMAIN val = 1 .. Len(val)
    BY <1>2, SeqDomain DEF WellTyped
  <2> DEFINE bytes == [i \in DOMAIN val |-> val[i][1]]
  <2>2. bytes = [i \in 1 .. Len(val) |-> bytes[i]]
    BY <2>1
  <2>3. BlobBytes(shape, val) = Trimmed(bytes)
    BY <1>2 DEF BlobBytes
  <2> HIDE DEF bytes
  <2> QED BY <2>1, <2>2, <2>3, FunctionSeq, TrimmedSeq
<1>3. CASE shape.kind \in {"string", "view"}
  BY <1>3 DEF WellTyped, BlobBytes
<1> QED BY <1>1, <1>2, <1>3 DEF IsBlob, IsByteArray

(* A scalar's bytes.                                                       *)
LEMMA ScalarSeq ==
    ASSUME NEW shape, NEW val, WellTyped(Fields, shape, val)
    PROVE  IsSeq(ScalarBytes(shape, val))
BY VarintSeq DEF ScalarBytes, WellTyped

-----------------------------------------------------------------------------
(* Single tasks.                                                           *)

(* The stages the code names are none of them Absent, nor is the number of *)
(* a field or a position.                                                  *)
LEMMA Told ==
    /\ \A stage \in WriteStage : stage # Absent
    /\ \A id \in Int : id # Absent
BY StageAssumption, AbsentAssumption

(* Bytes to be put out.                                                    *)
LEMMA PutPlain ==
    ASSUME NEW bytes, IsSeq(bytes), NEW stage \in WriteStage, NEW who, who # Absent
    PROVE  Plain(Put(bytes, stage, who))
<1>1. stage # Absent
  BY Told
<1> QED BY <1>1 DEF Plain, Put

(* A key.                                                                  *)
LEMMA TagPlain ==
    ASSUME NEW id, NEW wire, NEW who, who # Absent
    PROVE  Plain(PutTag(id, wire, who))
<1>1. IsSeq(Tag(id, wire)) /\ "tag" \in WriteStage
  BY VarintSeq DEF Tag, WriteStage
<1> QED BY <1>1, PutPlain DEF PutTag

(* A number.                                                               *)
LEMMA VarintPlain ==
    ASSUME NEW word, NEW who, who # Absent
    PROVE  Plain(PutVarint(word, who))
<1>1. IsSeq(Varint(word)) /\ "varint" \in WriteStage
  BY VarintSeq DEF WriteStage
<1> QED BY <1>1, PutPlain DEF PutVarint

(* A value to be written.                                                  *)
LEMMA ValuePlain ==
    ASSUME NEW shape, NEW val, <<shape, val>> \in Values, NEW who, who # Absent
    PROVE  Plain(Bare(shape, val, who)) /\ \A id : Plain(Keyed(id, shape, val, who))
BY DEF Plain, Bare, Keyed

(* A part of a value, under its position.                                  *)
LEMMA PartPlain ==
    ASSUME NEW shape, NEW val, <<shape, val>> \in Values, NEW who, who # Absent,
           NEW id \in Int
    PROVE  Plain(PartTask(id, shape, val, who))
<1>1. id # Absent
  BY Told
<1> QED BY <1>1 DEF Plain, PartTask, Keyed

(* Two tasks.                                                              *)
LEMMA PairPlains ==
    ASSUME NEW a, NEW b, Plain(a), Plain(b)
    PROVE  Plains(<<a, b>>)
<1>1. /\ <<a, b>> \in Seq({a, b}) /\ Len(<<a, b>>) = 2
      /\ <<a, b>>[1] = a /\ <<a, b>>[2] = b
  OBVIOUS
<1>2. IsSeq(<<a, b>>)
  BY <1>1, SeqIsSeq
<1> QED BY <1>1, <1>2 DEF Plains

(* A length, what it measures, and what is in front.                       *)
LEMMA SizedTask ==
    ASSUME NEW head, NEW body, Plains(head), Plains(body), NEW who, who # Absent
    PROVE  Task(Sized(head, body, who))
BY DEF Task, Sized

-----------------------------------------------------------------------------
(* What a codec has to do.                                                 *)

(* A function on 1 .. n all of whose values are plain tasks.               *)
LEMMA EachPlain ==
    ASSUME NEW n \in Nat, NEW f, f = [i \in 1 .. n |-> f[i]],
           \A i \in 1 .. n : Plain(f[i])
    PROVE  Plains(f)
BY FunctionSeq DEF Plains

(* The same for tasks with a length.                                       *)
LEMMA EachTask ==
    ASSUME NEW n \in Nat, NEW f, f = [i \in 1 .. n |-> f[i]],
           \A i \in 1 .. n : Task(f[i])
    PROVE  Tasks(f)
BY FunctionSeq DEF Tasks

(* The fields of an object.                                                *)
LEMMA MessagePlains ==
    ASSUME NEW shape, NEW val, <<shape, val>> \in Values, shape.kind = "object"
    PROVE  Plains(MessageTasks(shape.type, val))
<1> DEFINE own == Fields[shape.type]
           tasks == MessageTasks(shape.type, val)
<1>1. WellTyped(Fields, shape, val) /\ Parts(Fields, shape, val, Null) \subseteq Values
  BY ValuesAssumption
<1>2. shape.type \in DOMAIN Fields
  BY <1>1 DEF WellTyped
<1>3. IsSeq(own) /\ \A i \in DOMAIN own : own[i].id \in Nat \ {0}
  BY <1>2, FieldsAssumption DEF ValidFieldIds
<1>4. Len(own) \in Nat /\ DOMAIN own = 1 .. Len(own)
  BY <1>3, SeqDomain
<1>5. Parts(Fields, shape, val, Null) = {<<own[i].shape, val[own[i].id]>> : i \in DOMAIN own}
  BY DEF Parts, MapKind
<1>6. tasks = [i \in DOMAIN own |->
                  Keyed(own[i].id, own[i].shape, val[own[i].id], own[i].id)]
  BY DEF MessageTasks
<1> HIDE DEF own, tasks
<1>7. ASSUME NEW i \in DOMAIN own
      PROVE  Plain(tasks[i])
  <2>1. <<own[i].shape, val[own[i].id]>> \in Values
    BY <1>1, <1>5
  <2>2. own[i].id # Absent
    BY <1>3, Told
  <2>3. tasks[i] = Keyed(own[i].id, own[i].shape, val[own[i].id], own[i].id)
    BY <1>6
  <2> QED BY <2>1, <2>2, <2>3, ValuePlain
<1>8. tasks = [i \in 1 .. Len(own) |-> tasks[i]]
  BY <1>4, <1>6
<1>9. Plains(tasks)
  BY <1>4, <1>7, <1>8, EachPlain
<1> QED BY <1>9 DEF tasks

(* The items of a vector or an array.                                      *)
LEMMA ItemPlains ==
    ASSUME NEW shape, NEW val, <<shape, val>> \in Values,
           shape.kind \in {"vector", "array"}, ~IsByteArray(shape), NEW who, who # Absent
    PROVE  /\ Plains(ItemTasks(shape.elem, val, who))
           /\ \A id : Plains([i \in DOMAIN val |-> Keyed(id, shape.elem, val[i], who)])
<1>1. WellTyped(Fields, shape, val) /\ Parts(Fields, shape, val, Null) \subseteq Values
  BY ValuesAssumption
<1>2. Len(val) \in Nat /\ DOMAIN val = 1 .. Len(val)
  BY <1>1, SeqDomain DEF WellTyped
<1>3. Parts(Fields, shape, val, Null) = {<<shape.elem, val[i]>> : i \in DOMAIN val}
  BY DEF Parts, MapKind
<1>4. \A i \in DOMAIN val : <<shape.elem, val[i]>> \in Values
  BY <1>1, <1>3
<1>5. Plains(ItemTasks(shape.elem, val, who))
  <2> DEFINE tasks == ItemTasks(shape.elem, val, who)
  <2>1. tasks = [i \in DOMAIN val |-> Bare(shape.elem, val[i], who)]
    BY DEF ItemTasks
  <2> HIDE DEF tasks
  <2>2. \A i \in DOMAIN val : Plain(tasks[i])
    BY <1>4, <2>1, ValuePlain
  <2>3. tasks = [i \in 1 .. Len(val) |-> tasks[i]]
    BY <1>2, <2>1
  <2>4. Plains(tasks)
    BY <1>2, <2>2, <2>3, EachPlain
  <2> QED BY <2>4 DEF tasks
<1>6. ASSUME NEW id
      PROVE  Plains([i \in DOMAIN val |-> Keyed(id, shape.elem, val[i], who)])
  <2> DEFINE tasks == [i \in DOMAIN val |-> Keyed(id, shape.elem, val[i], who)]
  <2>1. tasks = [i \in DOMAIN val |-> Keyed(id, shape.elem, val[i], who)]
    OBVIOUS
  <2> HIDE DEF tasks
  <2>2. \A i \in DOMAIN val : Plain(tasks[i])
    BY <1>4, <2>1, ValuePlain
  <2>3. tasks = [i \in 1 .. Len(val) |-> tasks[i]]
    BY <1>2, <2>1
  <2>4. Plains(tasks)
    BY <1>2, <2>2, <2>3, EachPlain
  <2> QED BY <2>4 DEF tasks
<1> QED BY <1>5, <1>6

(* The positions of a tuple.                                               *)
LEMMA TuplePlains ==
    ASSUME NEW shape, NEW val, <<shape, val>> \in Values, shape.kind = "tuple",
           NEW who, who # Absent
    PROVE  Plains([i \in DOMAIN shape.elems |-> PartTask(i, shape.elems[i], val[i], who)])
<1> DEFINE tasks == [i \in DOMAIN shape.elems |-> PartTask(i, shape.elems[i], val[i], who)]
<1>1. WellTyped(Fields, shape, val) /\ Parts(Fields, shape, val, Null) \subseteq Values
  BY ValuesAssumption
<1>2. Len(shape.elems) \in Nat /\ DOMAIN shape.elems = 1 .. Len(shape.elems)
  BY <1>1, SeqDomain DEF WellTyped
<1>3. Parts(Fields, shape, val, Null) = {<<shape.elems[i], val[i]>> : i \in DOMAIN shape.elems}
  BY DEF Parts, MapKind
<1>4. tasks = [i \in DOMAIN shape.elems |-> PartTask(i, shape.elems[i], val[i], who)]
  OBVIOUS
<1> HIDE DEF tasks
<1>5. ASSUME NEW i \in DOMAIN shape.elems
      PROVE  Plain(tasks[i])
  <2>1. <<shape.elems[i], val[i]>> \in Values /\ i \in Int
    BY <1>1, <1>2, <1>3
  <2> QED BY <1>4, <2>1, PartPlain
<1>6. tasks = [i \in 1 .. Len(shape.elems) |-> tasks[i]]
  BY <1>2, <1>4
<1>7. Plains(tasks)
  BY <1>2, <1>5, <1>6, EachPlain
<1> QED BY <1>7 DEF tasks

(* The entries of a map, in any order that visits nothing but its keys.    *)
LEMMA EntriesTasks ==
    ASSUME NEW t, <<t.shape, t.val>> \in Values, t.shape.kind \in MapKind,
           NEW who, who # Absent, NEW head, Plains(head), NEW order \in Orders(t)
    PROVE  Tasks([i \in DOMAIN order |->
                     Sized(head, EntryTasks(t.shape, t.val, order[i], who), who)])
<1> DEFINE n == Cardinality(DOMAIN t.val)
           tasks == [i \in DOMAIN order |->
                        Sized(head, EntryTasks(t.shape, t.val, order[i], who), who)]
<1>1. /\ WellTyped(Fields, t.shape, t.val) /\ Parts(Fields, t.shape, t.val, Null) \subseteq Values
  BY ValuesAssumption
<1>2. n \in Nat
  BY <1>1, FS_CardinalityType DEF WellTyped
<1>3. order \in SetToSeqs(DOMAIN t.val)
  BY DEF Orders, MapKind
<1>4. order \in [1 .. n -> DOMAIN t.val]
  BY <1>3 DEF SetToSeqs
<1>5. Parts(Fields, t.shape, t.val, Null) =
         {<<t.shape.key, key>> : key \in DOMAIN t.val}
         \cup {<<t.shape.elem, t.val[key]>> : key \in DOMAIN t.val}
  BY DEF Parts, MapKind
<1>6. tasks = [i \in DOMAIN order |->
                  Sized(head, EntryTasks(t.shape, t.val, order[i], who), who)]
  OBVIOUS
<1> HIDE DEF n, tasks
<1>7. ASSUME NEW i \in 1 .. n
      PROVE  Task(tasks[i])
  <2> DEFINE key == PartTask(1, t.shape.key, order[i], who)
             elem == PartTask(2, t.shape.elem, t.val[order[i]], who)
  <2>1. order[i] \in DOMAIN t.val
    BY <1>4
  <2>2. <<t.shape.key, order[i]>> \in Values /\ <<t.shape.elem, t.val[order[i]]>> \in Values
    BY <1>1, <1>5, <2>1
  <2>3. Plain(key) /\ Plain(elem)
    BY <2>2, PartPlain
  <2>4. EntryTasks(t.shape, t.val, order[i], who) = <<key, elem>>
    BY DEF EntryTasks
  <2> HIDE DEF key, elem
  <2>5. Plains(<<key, elem>>)
    BY <2>3, PairPlains
  <2>6. tasks[i] = Sized(head, <<key, elem>>, who)
    BY <1>4, <1>6, <2>4
  <2> QED BY <2>5, <2>6, SizedTask
<1>8. tasks = [i \in 1 .. n |-> tasks[i]]
  BY <1>4, <1>6
<1>9. Tasks(tasks)
  BY <1>2, <1>7, <1>8, EachTask
<1> QED BY <1>9 DEF tasks

(* The alternative of a variant: a length of its own, and in it the index  *)
(* and the value.                                                          *)
LEMMA VariantDone ==
    ASSUME NEW t, <<t.shape, t.val>> \in Values, t.who # Absent, t.shape.kind = "variant"
    PROVE  Tasks(VariantTasks(t))
<1> DEFINE one == PutTag(1, VarintWire, t.who)
           index == PutVarint(t.val[1] - 1, t.who)
           two == PutTag(2, DelimitedWire, t.who)
           bare == Bare(t.shape.elems[t.val[1]], t.val[2], t.who)
           head == <<one, index, two>>
<1>1. Parts(Fields, t.shape, t.val, Null) \subseteq Values
  BY ValuesAssumption
<1>2. Parts(Fields, t.shape, t.val, Null) = {<<t.shape.elems[t.val[1]], t.val[2]>>}
  BY DEF Parts, MapKind
<1>3. Plain(bare)
  BY <1>1, <1>2, ValuePlain
<1>4. Plain(one) /\ Plain(index) /\ Plain(two)
  BY TagPlain, VarintPlain
<1>5. VariantTasks(t) = <<Sized(head, <<bare>>, t.who)>>
  BY DEF VariantTasks
<1> HIDE DEF one, index, two, bare
<1>6. /\ head \in Seq({one, index, two}) /\ Len(head) = 3
      /\ head[1] = one /\ head[2] = index /\ head[3] = two
  OBVIOUS
<1>7. IsSeq(head)
  BY <1>6, SeqIsSeq
<1> HIDE DEF head
<1>8. Plains(head)
  BY <1>4, <1>6, <1>7 DEF Plains
<1>9. Plains(<<bare>>)
  BY <1>3, OneTask
<1>10. Task(Sized(head, <<bare>>, t.who))
  BY <1>8, <1>9, SizedTask
<1> QED BY <1>5, <1>10, OneTask

(* What an optional holds, if it holds anything.                           *)
LEMMA OptionalDone ==
    ASSUME NEW t, <<t.shape, t.val>> \in Values, t.who # Absent, t.shape.kind = "optional"
    PROVE  /\ Tasks(OptionalTasks(t, Bare(t.shape.elem, t.val, t.who)))
           /\ \A id : Tasks(OptionalTasks(t, Keyed(id, t.shape.elem, t.val, t.who)))
<1>1. CASE t.val = Null
  BY <1>1, NoTasks DEF OptionalTasks
<1>2. CASE t.val # Null
  <2>1. Parts(Fields, t.shape, t.val, Null) \subseteq Values
    BY ValuesAssumption
  <2>2. Parts(Fields, t.shape, t.val, Null) = {<<t.shape.elem, t.val>>}
    BY <1>2 DEF Parts, MapKind
  <2>3. <<t.shape.elem, t.val>> \in Values
    BY <2>1, <2>2
  <2>4. /\ Task(Bare(t.shape.elem, t.val, t.who))
        /\ \A id : Task(Keyed(id, t.shape.elem, t.val, t.who))
    BY <2>3, ValuePlain, Zenon DEF Task
  <2> QED BY <1>2, <2>4, OneTask, Zenon DEF OptionalTasks
<1> QED BY <1>1, <1>2

(* What the codec of a bare value leaves to do is as good as its call.     *)
LEMMA BareDone ==
    ASSUME NEW t, <<t.shape, t.val>> \in Values, t.who # Absent, NEW order \in Orders(t)
    PROVE  Tasks(BareTasks(t, order))
<1> DEFINE shape == t.shape
<1>1. WellTyped(Fields, shape, t.val)
  BY ValuesAssumption
<1>2. shape.kind \in CodecKind /\ ~IsByte(shape)
  BY <1>1 DEF WellTyped
<1>3. CASE IsScalar(shape)
  <2> DEFINE stage == IF shape.kind # "raw" THEN "varint"
                      ELSE IF shape.width = 4 THEN "fixed32" ELSE "fixed64"
  <2>1. stage \in WriteStage
    BY DEF WriteStage
  <2>2. BareTasks(t, order) = <<Put(ScalarBytes(shape, t.val), stage, t.who)>>
    BY <1>3 DEF BareTasks, IsScalar, IsBlob, IsByteArray, MapKind
  <2> HIDE DEF stage
  <2>3. Plain(Put(ScalarBytes(shape, t.val), stage, t.who))
    BY <1>1, <2>1, ScalarSeq, PutPlain
  <2> QED BY <2>2, <2>3, OneTask, PlainTasks
<1>4. CASE IsBlob(shape)
  <2> DEFINE bytes == BlobBytes(shape, t.val)
  <2>1. IsSeq(bytes) /\ "field_value" \in WriteStage
    BY <1>1, <1>4, BlobSeq DEF WriteStage
  <2>2. BareTasks(t, order) = <<PutVarint(Len(bytes), t.who), Put(bytes, "field_value", t.who)>>
    BY <1>4 DEF BareTasks, IsScalar, IsBlob, IsByteArray, MapKind
  <2> HIDE DEF bytes
  <2>3. Plain(PutVarint(Len(bytes), t.who)) /\ Plain(Put(bytes, "field_value", t.who))
    BY <2>1, PutPlain, VarintPlain
  <2>4. Plains(<<PutVarint(Len(bytes), t.who), Put(bytes, "field_value", t.who)>>)
    BY <2>3, PairPlains
  <2> QED BY <2>2, <2>4, PlainTasks
<1>5. CASE shape.kind = "object"
  <2>1. BareTasks(t, order) = MessageTasks(shape.type, t.val)
    BY <1>5 DEF BareTasks, IsScalar, IsBlob, IsByteArray, MapKind
  <2> QED BY <1>5, <2>1, MessagePlains, PlainTasks
<1>6. CASE shape.kind = "tuple"
  <2>1. BareTasks(t, order) =
           [i \in DOMAIN shape.elems |-> PartTask(i, shape.elems[i], t.val[i], t.who)]
    BY <1>6 DEF BareTasks, IsScalar, IsBlob, IsByteArray, MapKind
  <2> QED BY <1>6, <2>1, TuplePlains, PlainTasks
<1>7. CASE shape.kind = "variant"
  <2>1. BareTasks(t, order) = VariantTasks(t)
    BY <1>7 DEF BareTasks, IsScalar, IsBlob, IsByteArray, MapKind
  <2> QED BY <1>7, <2>1, VariantDone
<1>8. CASE shape.kind = "optional"
  <2>1. BareTasks(t, order) = OptionalTasks(t, Bare(shape.elem, t.val, t.who))
    BY <1>8 DEF BareTasks, IsScalar, IsBlob, IsByteArray, MapKind
  <2> QED BY <1>8, <2>1, OptionalDone
<1>9. CASE shape.kind \in {"vector", "array"} /\ ~IsBlob(shape)
  <2> DEFINE items == ItemTasks(shape.elem, t.val, t.who)
  <2>1. Plains(items)
    BY <1>9, ItemPlains DEF IsBlob
  <2>2. BareTasks(t, order) =
           IF shape.kind = "array" \/ (PacksVector(shape) /\ t.val # <<>>)
           THEN <<Sized(<<>>, items, t.who)>> ELSE items
    BY <1>9 DEF BareTasks, IsScalar, IsBlob, IsByteArray, MapKind
  <2> HIDE DEF items
  <2>3. Tasks(items) /\ Tasks(<<Sized(<<>>, items, t.who)>>)
    BY <2>1, NoTasks, SizedTask, OneTask, PlainTasks, Zenon
  <2> QED BY <2>2, <2>3
<1>10. CASE shape.kind \in MapKind
  <2>1. BareTasks(t, order) =
           [i \in DOMAIN order |->
               Sized(<<>>, EntryTasks(shape, t.val, order[i], t.who), t.who)]
    BY <1>10 DEF BareTasks, IsScalar, IsBlob, IsByteArray, MapKind
  <2>2. Tasks([i \in DOMAIN order |->
                  Sized(<<>>, EntryTasks(shape, t.val, order[i], t.who), t.who)])
    BY <1>10, NoTasks, EntriesTasks, Zenon
  <2> QED BY <2>1, <2>2, Zenon
<1>11. \/ IsScalar(shape) \/ IsBlob(shape)
       \/ shape.kind \in {"object", "tuple", "variant", "optional"}
       \/ shape.kind \in {"vector", "array"} /\ ~IsBlob(shape)
       \/ shape.kind \in MapKind
  BY <1>2 DEF CodecKind, IsScalar, IsBlob
<1> QED BY <1>3, <1>4, <1>5, <1>6, <1>7, <1>8, <1>9, <1>10, <1>11

(* So is what the codec of a field leaves.                                 *)
LEMMA KeyedDone ==
    ASSUME NEW t, <<t.shape, t.val>> \in Values, t.who # Absent, NEW order \in Orders(t)
    PROVE  Tasks(KeyedTasks(t, order))
<1> DEFINE shape == t.shape
           tag == <<PutTag(t.id, WireOf(shape), t.who)>>
           bare == <<Bare(shape, t.val, t.who)>>
<1>1. WellTyped(Fields, shape, t.val)
  BY ValuesAssumption
<1>2. Plains(tag) /\ Plains(bare)
  BY TagPlain, ValuePlain, OneTask
<1>3. KeyedTasks(t, order) =
         CASE shape.kind \in {"object", "tuple", "variant"} -> <<Sized(tag, bare, t.who)>>
           [] shape.kind = "optional" -> OptionalTasks(t, Keyed(t.id, shape.elem, t.val, t.who))
           [] shape.kind = "vector" /\ ~PacksVector(shape) ->
                [i \in DOMAIN t.val |-> Keyed(t.id, shape.elem, t.val[i], t.who)]
           [] shape.kind \in MapKind ->
                [i \in DOMAIN order |->
                    Sized(tag, EntryTasks(shape, t.val, order[i], t.who), t.who)]
           [] OTHER -> tag \o bare
  BY Zenon DEF KeyedTasks
<1> HIDE DEF tag, bare
<1>4. CASE shape.kind \in {"object", "tuple", "variant"}
  <2>1. KeyedTasks(t, order) = <<Sized(tag, bare, t.who)>>
    BY <1>3, <1>4 DEF MapKind
  <2> QED BY <1>2, <2>1, SizedTask, OneTask
<1>5. CASE shape.kind = "optional"
  <2>1. KeyedTasks(t, order) = OptionalTasks(t, Keyed(t.id, shape.elem, t.val, t.who))
    BY <1>3, <1>5 DEF MapKind
  <2> QED BY <1>5, <2>1, OptionalDone
<1>6. CASE shape.kind = "vector" /\ ~PacksVector(shape)
  <2>1. KeyedTasks(t, order) =
           [i \in DOMAIN t.val |-> Keyed(t.id, shape.elem, t.val[i], t.who)]
    BY <1>3, <1>6 DEF MapKind
  <2>2. ~IsByteArray(shape)
    BY <1>6 DEF IsByteArray
  <2> QED BY <1>6, <2>1, <2>2, ItemPlains, PlainTasks
<1>7. CASE shape.kind \in MapKind
  <2>1. KeyedTasks(t, order) =
           [i \in DOMAIN order |->
               Sized(tag, EntryTasks(shape, t.val, order[i], t.who), t.who)]
    BY <1>3, <1>7 DEF MapKind
  <2>2. Tasks([i \in DOMAIN order |->
                  Sized(tag, EntryTasks(shape, t.val, order[i], t.who), t.who)])
    BY <1>2, <1>7, EntriesTasks, Zenon
  <2> QED BY <2>1, <2>2, Zenon
<1>8. CASE ~ \/ shape.kind \in {"object", "tuple", "variant", "optional"} \cup MapKind
             \/ shape.kind = "vector" /\ ~PacksVector(shape)
  <2>1. KeyedTasks(t, order) = tag \o bare
    BY <1>3, <1>8
  <2> QED BY <1>2, <2>1, JoinTasks, PlainTasks
<1> QED BY <1>4, <1>5, <1>6, <1>7, <1>8

-----------------------------------------------------------------------------
(* The steps.                                                              *)

(* The parts of the diagnostic of a failed write.                          *)
LEMMA DiagnosedParts ==
    ASSUME NEW task, task.stage # Absent, task.who # Absent
    PROVE  /\ Diagnosed(task).code = "output_error"
           /\ Diagnosed(task).stage # Absent /\ Diagnosed(task).field # Absent
           /\ Diagnosed(task).type = RootType /\ Diagnosed(task).offset = Len(out')
BY DEF Diagnosed, WithCode, Emplaced, NoError, WithStage, WithField, WithType, FirstWins

(* The output takes no more than it is given, nor than it has room for.    *)
LEMMA RoomBounds ==
    ASSUME NEW bytes, IsSeq(bytes), IInv
    PROVE  Room(bytes) \in 0 .. Len(bytes) /\ Len(out) + Room(bytes) <= capacity
<1>1. Len(bytes) \in Nat /\ Len(out) \in Nat /\ capacity \in Nat /\ Len(out) <= capacity
  BY SeqDomain DEF IInv
<1> QED BY <1>1 DEF Room, Prepared, Available, Smaller

(* Before the first write there is nothing to do.                          *)
LEMMA InitHolds == Init => IInv
<1>1. ASSUME Init
      PROVE  /\ status = "idle" /\ capacity \in Nat /\ out = <<>> /\ agenda = <<>>
             /\ error = NoError
  BY <1>1, CapacitiesAssumption DEF Init
<1>2. IsSeq(<<>>) /\ Len(<<>>) = 0
  BY NoTasks DEF Tasks
<1> QED BY <1>1, <1>2, NoTasks DEF IInv, DiagnosticComplete

(* operator<< has the fields of its object to write.                       *)
LEMMA BeginWriteHolds == IInv /\ BeginWrite => IInv'
<1> SUFFICES ASSUME IInv, BeginWrite PROVE IInv'
  OBVIOUS
<1>1. /\ object' \in Objects /\ agenda' = MessageTasks(RootType, object')
      /\ status' = "writing" /\ error' = NoError /\ out' = out /\ capacity' = capacity
  BY DEF BeginWrite, setup
<1>2. <<Object(RootType), object'>> \in Values
  BY <1>1, ObjectsAssumption
<1>3. Object(RootType).kind = "object" /\ Object(RootType).type = RootType
  BY DEF Object
<1>4. Plains(MessageTasks(RootType, object'))
  BY <1>2, <1>3, MessagePlains
<1>5. Tasks(agenda')
  BY <1>1, <1>4, PlainTasks
<1>6. Tasks(agenda)'
  BY <1>5 DEF Tasks, Task, Plains, Plain
<1> QED BY <1>1, <1>6 DEF IInv, DiagnosticComplete

(* A codec replaces its call by what it does.                              *)
LEMMA CallCodecHolds == IInv /\ CallCodec => IInv'
<1> SUFFICES ASSUME IInv, CallCodec PROVE IInv'
  OBVIOUS
<1> DEFINE t == Head(agenda)
<1>1. /\ agenda # <<>> /\ t.do \in {"keyed", "bare"}
      /\ status' = status /\ error' = error /\ out' = out /\ capacity' = capacity
  BY DEF CallCodec, Doing, setup
<1>2. PICK order \in Orders(t) :
         agenda' = (IF t.do = "keyed" THEN KeyedTasks(t, order) ELSE BareTasks(t, order))
                   \o Tail(agenda)
  BY DEF CallCodec
<1>3. Task(t) /\ Tasks(Tail(agenda))
  BY <1>1, RestTasks DEF IInv
<1>4. <<t.shape, t.val>> \in Values /\ t.who # Absent
  BY <1>1, <1>3 DEF Task, Plain
<1>5. Tasks(KeyedTasks(t, order)) /\ Tasks(BareTasks(t, order))
  BY <1>4, KeyedDone, BareDone
<1> HIDE DEF t
<1>6. Tasks(agenda')
  BY <1>2, <1>3, <1>5, JoinTasks
<1>7. Tasks(agenda)'
  BY <1>6 DEF Tasks, Task, Plains, Plain
<1> QED BY <1>1, <1>7 DEF IInv, DiagnosticComplete

(* A sizing writer has the body to measure, then the rest to do.           *)
LEMMA MeasureHolds == IInv /\ Measure => IInv'
<1> SUFFICES ASSUME IInv, Measure PROVE IInv'
  OBVIOUS
<1> DEFINE t == Head(agenda)
<1>1. /\ agenda # <<>> /\ t.do = "sized"
      /\ agenda' = t.body \o <<Measured(t)>> \o Tail(agenda)
      /\ status' = status /\ error' = error /\ out' = out /\ capacity' = capacity
  BY DEF Measure, Doing, setup
<1>2. Task(t) /\ Tasks(Tail(agenda))
  BY <1>1, RestTasks DEF IInv
<1> HIDE DEF t
<1>3. /\ t = [do |-> t.do, head |-> t.head, body |-> t.body, who |-> t.who]
      /\ t.who # Absent /\ Plains(t.head) /\ Plains(t.body)
  BY <1>1, <1>2 DEF Task, Plain
<1>4. Measured(t) = [do |-> "measured", head |-> t.head, body |-> t.body, who |-> t.who]
  BY <1>3 DEF Measured
<1>5. Task(Measured(t))
  BY <1>3, <1>4 DEF Task
<1>6. Tasks(agenda')
  BY <1>1, <1>2, <1>3, <1>5, OneTask, PlainTasks, JoinTasks
<1>7. Tasks(agenda)'
  BY <1>6 DEF Tasks, Task, Plains, Plain
<1> QED BY <1>1, <1>7 DEF IInv, DiagnosticComplete

(* Behind the measuring: what is in front, the length, and the body again. *)
LEMMA WriteMeasuredHolds == IInv /\ WriteMeasured => IInv'
<1> SUFFICES ASSUME IInv, WriteMeasured PROVE IInv'
  OBVIOUS
<1> DEFINE t == Head(agenda)
           length == PutVarint(Head(counters), t.who)
<1>1. /\ agenda # <<>> /\ t.do = "measured"
      /\ agenda' = t.head \o <<length>> \o t.body \o Tail(agenda)
      /\ status' = status /\ error' = error /\ out' = out /\ capacity' = capacity
  BY DEF WriteMeasured, Doing, setup
<1>2. Task(t) /\ Tasks(Tail(agenda))
  BY <1>1, RestTasks DEF IInv
<1>3. t.who # Absent /\ Plains(t.head) /\ Plains(t.body)
  BY <1>1, <1>2 DEF Task, Plain
<1>4. Plain(length)
  BY <1>3, VarintPlain
<1> HIDE DEF t, length
<1>5. Tasks(t.head \o <<length>> \o t.body)
  BY <1>3, <1>4, OneTask, PlainTasks, JoinTasks
<1>6. Tasks(agenda')
  BY <1>1, <1>2, <1>5, JoinTasks
<1>7. Tasks(agenda)'
  BY <1>6 DEF Tasks, Task, Plains, Plain
<1> QED BY <1>1, <1>7 DEF IInv, DiagnosticComplete

(* A counting_output takes every byte.                                     *)
LEMMA CountBytesHolds == IInv /\ CountBytes => IInv'
<1> SUFFICES ASSUME IInv, CountBytes PROVE IInv'
  OBVIOUS
<1>1. /\ agenda # <<>> /\ agenda' = Tail(agenda)
      /\ status' = status /\ error' = error /\ out' = out /\ capacity' = capacity
  BY DEF CountBytes, Doing, setup
<1>2. Tasks(agenda')
  BY <1>1, RestTasks DEF IInv
<1>3. Tasks(agenda)'
  BY <1>2 DEF Tasks, Task, Plains, Plain
<1> QED BY <1>1, <1>3 DEF IInv, DiagnosticComplete

(* write_bytes: the output takes what it has room for; a failure names the *)
(* task's stage and field.                                                 *)
LEMMA WriteBytesHolds == IInv /\ WriteBytes => IInv'
<1> SUFFICES ASSUME IInv, WriteBytes PROVE IInv'
  OBVIOUS
<1> DEFINE t == Head(agenda)
           taken == SubSeq(t.bytes, 1, Room(t.bytes))
<1>1. /\ status = "writing" /\ agenda # <<>> /\ t.do = "put"
      /\ out' = out \o taken /\ capacity' = capacity
      /\ \/ agenda' = Tail(agenda) /\ status' = status /\ error' = error
         \/ agenda' = <<>> /\ status' = "error" /\ error' = Diagnosed(t)
  BY Zenon DEF WriteBytes, Doing, setup
<1>2. Task(t) /\ Tasks(Tail(agenda))
  BY <1>1, RestTasks DEF IInv
<1>3. t.stage # Absent /\ t.who # Absent /\ IsSeq(t.bytes)
  BY <1>1, <1>2 DEF Task, Plain
<1>4. Room(t.bytes) \in 0 .. Len(t.bytes) /\ Len(out) + Room(t.bytes) <= capacity
  BY <1>3, RoomBounds
<1>5. IsSeq(taken) /\ Len(taken) = Room(t.bytes)
  BY <1>3, <1>4, PrefixSeq
<1> HIDE DEF t, taken
<1>6. IsSeq(out') /\ Len(out') <= capacity'
  BY <1>1, <1>4, <1>5, JoinSeq DEF IInv
<1>7. Tasks(agenda')
  BY <1>1, <1>2, NoTasks
<1>8. Tasks(agenda)'
  BY <1>7 DEF Tasks, Task, Plains, Plain
<1>9. DiagnosticComplete'
  BY <1>1, <1>3, DiagnosedParts DEF IInv, DiagnosticComplete
<1> QED BY <1>1, <1>6, <1>8, <1>9 DEF IInv, IsSeq

(* operator<< returns and leaves no diagnostic.                            *)
LEMMA EndWriteHolds == IInv /\ EndWrite => IInv'
<1> SUFFICES ASSUME IInv, EndWrite PROVE IInv'
  OBVIOUS
<1>1. /\ status = "writing" /\ status' = "ok" /\ agenda' = agenda
      /\ error' = error /\ out' = out /\ capacity' = capacity
  BY DEF EndWrite, setup
<1>2. Tasks(agenda')
  BY <1>1 DEF IInv
<1>3. Tasks(agenda)'
  BY <1>2 DEF Tasks, Task, Plains, Plain
<1>4. DiagnosticComplete'
  BY <1>1 DEF IInv, DiagnosticComplete
<1> QED BY <1>1, <1>3, <1>4 DEF IInv

(* Between the steps nothing changes.                                      *)
LEMMA StutterHolds == IInv /\ UNCHANGED vars => IInv'
<1> SUFFICES ASSUME IInv, UNCHANGED vars PROVE IInv'
  OBVIOUS
<1>1. /\ status' = status /\ agenda' = agenda /\ error' = error
      /\ out' = out /\ capacity' = capacity /\ sink' = sink
  BY DEF vars, setup
<1>2. Tasks(agenda')
  BY <1>1 DEF IInv
<1>3. Tasks(agenda)'
  BY <1>2 DEF Tasks, Task, Plains, Plain
<1>4. DiagnosticComplete'
  BY <1>1 DEF IInv, DiagnosticComplete
<1> QED BY <1>1, <1>3, <1>4 DEF IInv

-----------------------------------------------------------------------------
(* The tasks of an agenda name a field and a stage, call codecs only for   *)
(* values these can write, and what is out fits the output.                *)
THEOREM AgendaInductive == Spec => []IInv
<1>1. IInv /\ [Next]_vars => IInv'
  <2> SUFFICES ASSUME IInv, [Next]_vars PROVE IInv'
    OBVIOUS
  <2>1. CASE BeginWrite    BY <2>1, BeginWriteHolds
  <2>2. CASE CallCodec     BY <2>2, CallCodecHolds
  <2>3. CASE Measure       BY <2>3, MeasureHolds
  <2>4. CASE WriteMeasured BY <2>4, WriteMeasuredHolds
  <2>5. CASE CountBytes    BY <2>5, CountBytesHolds
  <2>6. CASE WriteBytes    BY <2>6, WriteBytesHolds
  <2>7. CASE EndWrite      BY <2>7, EndWriteHolds
  <2>8. CASE UNCHANGED vars BY <2>8, StutterHolds
  <2> QED BY <2>1, <2>2, <2>3, <2>4, <2>5, <2>6, <2>7, <2>8 DEF Next, Step
<1> QED BY <1>1, InitHolds, PTL DEF Spec

(* A failed write has a code, a stage, a field and the type, and names the *)
(* end of the output; only a failed write has a diagnostic.                *)
THEOREM FailureExplained == Spec => []DiagnosticComplete
<1>1. IInv => DiagnosticComplete
  BY DEF IInv
<1> QED BY <1>1, AgendaInductive, PTL

(* write_bytes: whatever the objects, the output is never given more than  *)
(* it has room for.                                                        *)
THEOREM StaysWithinOutput == Spec => [](Len(out) <= capacity)
<1>1. IInv => Len(out) <= capacity
  BY DEF IInv
<1> QED BY <1>1, AgendaInductive, PTL

=============================================================================
