------------------------- MODULE BinaryReader_proofs -------------------------
(***************************************************************************)
(* Theorems of BinaryReader for every schema, every bytes, every key and   *)
(* every number of reads: it never moves past its input, the key stream of *)
(* an encrypted field is in step with the bytes, and a failed read says    *)
(* what failed and in which field.                                         *)
(***************************************************************************)
EXTENDS BinaryReader, ReaderLemmas

-----------------------------------------------------------------------------
(* The primitives of BinaryFormat.                                         *)

(* A code and a stage that a diagnostic can be made of.                    *)
Telling(code, stage) ==
    code \notin {"none", "unknown"} /\ stage \in ReadStage \ {"none"}

(* What every primitive read at p leaves true: it consumed bytes that the  *)
(* input has, or fewer and says why.                                       *)
Outcome(r, data, p) ==
    /\ Bounded(r, data, p)
    /\ r.ok \in BOOLEAN
    /\ ~r.ok => Telling(r.code, r.stage)

(* The codes and stages of the codecs tell something.                      *)
LEMMA CodecsTell ==
    /\ Telling("truncated", "raw") /\ Telling("truncated", "view")
    /\ Telling("max_length_exceeded", "attribute_guard")
    /\ Telling("max_items_exceeded", "attribute_guard")
    /\ Telling("max_bytes_exceeded", "attribute_guard")
    /\ Telling("span_size_mismatch", "span")
    /\ Telling("variant_index_out_of_range", "variant")
    /\ Telling("duplicate_key", "container")
BY DEF Telling, ReadStage

(* The exclusive or of bytes is a byte.                                    *)
LEMMA XorIsByte ==
    ASSUME NEW a \in Byte, NEW b \in Byte
    PROVE  Xor(a, b) \in Byte
<1> DEFINE bit(k) == (Bit(a, k) + Bit(b, k)) % 2
<1>1. ASSUME NEW m \in Nat \ {0}
      PROVE  (((a \div m) % 2) + ((b \div m) % 2)) % 2 \in {0, 1}
  <2>1. a \div m \in Nat /\ b \div m \in Nat
    BY DEF Byte
  <2> QED BY <2>1
<1>2. /\ bit(0) \in {0, 1} /\ bit(1) \in {0, 1} /\ bit(2) \in {0, 1} /\ bit(3) \in {0, 1}
      /\ bit(4) \in {0, 1} /\ bit(5) \in {0, 1} /\ bit(6) \in {0, 1} /\ bit(7) \in {0, 1}
  <2>1. /\ 2 ^ 0 \in Nat \ {0} /\ 2 ^ 1 \in Nat \ {0} /\ 2 ^ 2 \in Nat \ {0}
        /\ 2 ^ 3 \in Nat \ {0} /\ 2 ^ 4 \in Nat \ {0} /\ 2 ^ 5 \in Nat \ {0}
        /\ 2 ^ 6 \in Nat \ {0} /\ 2 ^ 7 \in Nat \ {0}
    OBVIOUS
  <2> QED BY <1>1, <2>1, Zenon DEF Bit
<1> HIDE DEF bit
<1>3. Xor(a, b) = (2 ^ 0) * bit(0) + (2 ^ 1) * bit(1) + (2 ^ 2) * bit(2) + (2 ^ 3) * bit(3)
                  + (2 ^ 4) * bit(4) + (2 ^ 5) * bit(5) + (2 ^ 6) * bit(6) + (2 ^ 7) * bit(7)
  BY Zenon DEF Xor, bit
<1>4. /\ 2 ^ 0 = 1 /\ 2 ^ 1 = 2 /\ 2 ^ 2 = 4 /\ 2 ^ 3 = 8
      /\ 2 ^ 4 = 16 /\ 2 ^ 5 = 32 /\ 2 ^ 6 = 64 /\ 2 ^ 7 = 128
  OBVIOUS
<1>5. ASSUME NEW b0 \in {0, 1}, NEW b1 \in {0, 1}, NEW b2 \in {0, 1}, NEW b3 \in {0, 1},
             NEW b4 \in {0, 1}, NEW b5 \in {0, 1}, NEW b6 \in {0, 1}, NEW b7 \in {0, 1}
      PROVE  1 * b0 + 2 * b1 + 4 * b2 + 8 * b3 + 16 * b4 + 32 * b5 + 64 * b6 + 128 * b7
             \in 0 .. 255
  OBVIOUS
<1>6. Xor(a, b) = 1 * bit(0) + 2 * bit(1) + 4 * bit(2) + 8 * bit(3) + 16 * bit(4)
                  + 32 * bit(5) + 64 * bit(6) + 128 * bit(7)
  BY <1>3, <1>4, Zenon
<1>7. Xor(a, b) \in 0 .. 255
  BY <1>2, <1>6
<1> QED BY <1>7 DEF Byte

(* Decrypted bytes are bytes.                                              *)
LEMMA CipheredType ==
    ASSUME NEW bytes \in Seq(Byte), NEW off \in Nat \cup {Clear}
    PROVE  Ciphered(bytes, off) \in Seq(Byte)
<1>1. CASE off = Clear
  BY <1>1 DEF Ciphered
<1>2. CASE off # Clear
  <2>1. ASSUME NEW i \in 1 .. Len(bytes)
        PROVE  Xor(bytes[i], Key[((off + i - 1) % 4) + 1]) \in Byte
    <3>1. ((off + i - 1) % 4) + 1 \in 1 .. 4
      <4>1. off + i - 1 \in Nat
        BY <1>2
      <4>2. (off + i - 1) % 4 \in 0 .. 3
        BY <4>1
      <4> QED BY <4>2
    <3>2. Key[((off + i - 1) % 4) + 1] \in Byte /\ bytes[i] \in Byte
      BY <3>1, KeyAssumption
    <3> QED BY <3>2, XorIsByte
  <2>2. Ciphered(bytes, off) = [i \in 1 .. Len(bytes) |-> Xor(bytes[i], Key[((off + i - 1) % 4) + 1])]
    BY <1>2 DEF Ciphered
  <2> QED BY <2>1, <2>2
<1> QED BY <1>1, <1>2

(* reader::read takes what it was asked for, or nothing.                   *)
LEMMA ReadExactlyOutcome ==
    ASSUME NEW data \in Seq(Byte), NEW p \in 0 .. Len(data),
           NEW off \in Nat \cup {Clear}, NEW size \in Nat
    PROVE  LET r == ReadExactly(data, p, off, size)
           IN  /\ Outcome(r, data, p)
               /\ r.ok => r.used = size /\ r.value \in Seq(Byte)
<1> DEFINE view == Peek(data, p, size)
           r    == ReadExactly(data, p, off, size)
<1>1. view \in Seq(Byte) /\ Len(view) = Smaller(size, Len(data) - p)
  BY PeekLength
<1>2. CASE Len(view) = size
  <2>1. r = Got(Ciphered(view, off), size)
    BY <1>2 DEF ReadExactly
  <2>2. size <= Len(data) - p
    BY <1>1, <1>2 DEF Smaller
  <2>3. Ciphered(view, off) \in Seq(Byte)
    BY <1>1, CipheredType
  <2> QED BY <2>1, <2>2, <2>3 DEF Outcome, Bounded, Got
<1>3. CASE Len(view) # size
  <2>1. r = Failed("truncated", "raw", 0)
    BY <1>3 DEF ReadExactly
  <2>2. Telling("truncated", "raw")
    BY CodecsTell
  <2> QED BY <2>1, <2>2 DEF Outcome, Bounded, Failed
<1> QED BY <1>2, <1>3

(* A std::size_t is SizeBytes bytes and a natural number.                  *)
LEMMA ReadSizeOutcome ==
    ASSUME NEW data \in Seq(Byte), NEW p \in 0 .. Len(data),
           NEW off \in Nat \cup {Clear}
    PROVE  LET r == ReadSize(data, p, off)
           IN  /\ Outcome(r, data, p)
               /\ r.ok => r.used = SizeBytes /\ r.value \in Nat
<1> DEFINE r == ReadExactly(data, p, off, SizeBytes)
<1>1. /\ Outcome(r, data, p)
      /\ r.ok => r.used = SizeBytes /\ r.value \in Seq(Byte)
  BY ReadExactlyOutcome, SizeBytesAssumption
<1> HIDE DEF r
<1>2. CASE r.ok
  <2>1. ReadSize(data, p, off) = Got(LoadLittleUint(r.value), SizeBytes)
    BY <1>2 DEF ReadSize, r
  <2>2. LoadLittleUint(r.value) \in Nat
    BY <1>1, <1>2, LoadLittleUintType
  <2>3. Bounded(r, data, p) /\ r.used = SizeBytes
    BY <1>1, <1>2 DEF Outcome
  <2> QED BY <2>1, <2>2, <2>3 DEF Outcome, Bounded, Got
<1>3. CASE ~r.ok
  <2>1. ReadSize(data, p, off) = r
    BY <1>3 DEF ReadSize, r
  <2> QED BY <1>1, <1>3, <2>1
<1> QED BY <1>2, <1>3

(* A product of sizes is a size.                                           *)
LEMMA ProductType ==
    ASSUME NEW a \in Nat, NEW b \in Nat
    PROVE  Product(a, b) \in Nat
<1>1. a * b \in Nat
  OBVIOUS
<1>2. ASSUME NEW n \in Nat, NEW m \in Nat \ {0} PROVE n % m \in Nat
  OBVIOUS
<1> QED BY <1>1, <1>2, SizeRangeAssumption, Zenon DEF Product

-----------------------------------------------------------------------------
(* The calls in progress.                                                  *)

(* A call reads a value of a type the program has a codec for, with the    *)
(* parts that type has; it seals only a field it is still reading.         *)
FrameOK(f) ==
    /\ f = [op |-> f.op, shape |-> f.shape, count |-> f.count, left |-> f.left,
            key |-> f.key, sealed |-> f.sealed, val |-> f.val]
    /\ f.op \in Op /\ f.shape \in Shapes /\ f.count \in Nat /\ f.left \in Nat
    /\ f.sealed \in Nat \cup {Clear}
    /\ f.left <= f.count
    /\ f.op = "root" => f.shape = Object(RootType)
    /\ f.op # "root" => f.op = f.shape.kind
    /\ f.op = "object" => f.count = Len(Fields[f.shape.type])
    /\ f.op = "tuple" => f.count = Len(f.shape.elems)
    /\ f.op = "variant" => f.key \in DOMAIN f.shape.elems
    /\ f.sealed # Clear => f.op = "object" /\ f.left > 0

(* operator>> is outermost, under it the object, and every call but the    *)
(* innermost is waiting for a part.                                        *)
Nested(s) ==
    /\ IsSeq(s)
    /\ \A i \in 1 .. Len(s) :
          /\ FrameOK(s[i])
          /\ s[i].op = "root" <=> i = Len(s)
          /\ i > 1 => s[i].left > 0
          /\ i = Len(s) - 1 => s[i].op = "object"

(* The innermost call.                                                     *)
LEMMA NestHead ==
    ASSUME NEW s, Nested(s), s # <<>>
    PROVE  /\ FrameOK(Head(s)) /\ Head(s) = s[1]
           /\ Len(s) \in Nat \ {0}
           /\ Head(s).op = "root" <=> Len(s) = 1
           /\ Len(s) = 2 => Head(s).op = "object"
<1>1. Len(s) \in Nat \ {0} /\ Head(s) = s[1]
  BY PopSeq DEF Nested
<1>2. 1 \in 1 .. Len(s) /\ (Len(s) = 2 => 1 = Len(s) - 1)
  BY <1>1
<1>3. /\ FrameOK(s[1]) /\ (s[1].op = "root" <=> 1 = Len(s))
      /\ 1 = Len(s) - 1 => s[1].op = "object"
  BY <1>2 DEF Nested
<1> QED BY <1>1, <1>2, <1>3

(* A call made by the innermost one nests under it.                        *)
LEMMA NestPush ==
    ASSUME NEW s, Nested(s), s # <<>>, Head(s).left > 0,
           NEW f, FrameOK(f), f.op # "root",
           Head(s).op = "root" => f.op = "object"
    PROVE  Nested(<<f>> \o s) /\ Len(<<f>> \o s) = Len(s) + 1
<1> DEFINE t == <<f>> \o s
<1>1. /\ IsSeq(t) /\ Len(t) = Len(s) + 1 /\ t[1] = f
      /\ \A i \in 1 .. Len(s) : t[i + 1] = s[i]
      /\ Len(s) \in Nat \ {0} /\ Head(s) = s[1]
      /\ Head(s).op = "root" <=> Len(s) = 1
  BY PushSeq, NestHead DEF Nested
<1> HIDE DEF t
<1>2. ASSUME NEW i \in 1 .. Len(t)
      PROVE  /\ FrameOK(t[i])
             /\ t[i].op = "root" <=> i = Len(t)
             /\ i > 1 => t[i].left > 0
             /\ i = Len(t) - 1 => t[i].op = "object"
  <2>1. CASE i = 1
    BY <1>1, <2>1
  <2>2. CASE i > 1
    <3>1. i - 1 \in 1 .. Len(s) /\ (i - 1) + 1 = i
      BY <1>1, <2>2
    <3>2. t[i] = s[i - 1]
      BY <1>1, <3>1
    <3>3. /\ FrameOK(s[i - 1]) /\ (s[i - 1].op = "root" <=> i - 1 = Len(s))
          /\ i - 1 > 1 => s[i - 1].left > 0
          /\ i - 1 = Len(s) - 1 => s[i - 1].op = "object"
      BY <3>1 DEF Nested
    <3>4. s[i - 1].left > 0
      <4>1. CASE i - 1 = 1
        BY <1>1, <4>1
      <4>2. CASE i - 1 > 1
        BY <3>3, <4>2
      <4> QED BY <3>1, <4>1, <4>2
    <3> QED BY <1>1, <2>2, <3>2, <3>3, <3>4
  <2> QED BY <1>1, <2>1, <2>2
<1> QED BY <1>1, <1>2 DEF Nested, t

(* The innermost call may change its state, but not its kind.              *)
LEMMA NestReplace ==
    ASSUME NEW s, Nested(s), s # <<>>,
           NEW f, FrameOK(f), f.op = Head(s).op
    PROVE  /\ Nested(<<f>> \o Tail(s)) /\ Len(<<f>> \o Tail(s)) = Len(s)
           /\ <<f>> \o Tail(s) # <<>> /\ Head(<<f>> \o Tail(s)) = f
<1> DEFINE t == <<f>> \o Tail(s)
<1>1. /\ IsSeq(t) /\ Len(t) = Len(s) /\ Len(s) \in Nat \ {0} /\ t[1] = f
      /\ \A i \in 2 .. Len(s) : t[i] = s[i]
  BY ReplaceSeq DEF Nested
<1>2. Head(s) = s[1]
  BY NestHead
<1> HIDE DEF t
<1>3. ASSUME NEW i \in 1 .. Len(t)
      PROVE  /\ FrameOK(t[i])
             /\ t[i].op = "root" <=> i = Len(t)
             /\ i > 1 => t[i].left > 0
             /\ i = Len(t) - 1 => t[i].op = "object"
  <2>1. /\ FrameOK(s[i]) /\ (s[i].op = "root" <=> i = Len(s))
        /\ i > 1 => s[i].left > 0
        /\ i = Len(s) - 1 => s[i].op = "object"
    BY <1>1 DEF Nested
  <2>2. CASE i = 1
    BY <1>1, <1>2, <2>1, <2>2
  <2>3. CASE i > 1
    <3>1. t[i] = s[i]
      BY <1>1, <2>3
    <3> QED BY <1>1, <2>1, <3>1
  <2> QED BY <1>1, <2>2, <2>3
<1>4. Nested(t)
  BY <1>1, <1>3 DEF Nested
<1>5. t # <<>> /\ Head(t) = t[1]
  BY <1>1, PopSeq
<1> QED BY <1>1, <1>4, <1>5 DEF t

(* Any call but operator>> has a caller, which waits for its value.        *)
LEMMA NestPop ==
    ASSUME NEW s, Nested(s), s # <<>>, Head(s).op # "root"
    PROVE  /\ Nested(Tail(s)) /\ Tail(s) # <<>> /\ Len(Tail(s)) = Len(s) - 1
           /\ Head(Tail(s)).left > 0
<1> DEFINE u == Tail(s)
<1>1. /\ IsSeq(u) /\ Len(s) \in Nat \ {0} /\ Len(u) = Len(s) - 1
      /\ \A i \in 1 .. Len(s) - 1 : u[i] = s[i + 1]
  BY PopSeq DEF Nested
<1>2. Len(s) > 1
  <2>1. Head(s).op = "root" <=> Len(s) = 1
    BY NestHead
  <2> QED BY <1>1, <2>1
<1> HIDE DEF u
<1>3. u # <<>>
  BY <1>1, <1>2
<1>4. Head(u) = u[1] /\ u[1] = s[2]
  BY <1>1, <1>2, <1>3, PopSeq
<1>5. ASSUME NEW i \in 1 .. Len(u)
      PROVE  /\ FrameOK(u[i])
             /\ u[i].op = "root" <=> i = Len(u)
             /\ u[i].left > 0
             /\ i = Len(u) - 1 => u[i].op = "object"
  <2>1. i + 1 \in 1 .. Len(s) /\ u[i] = s[i + 1] /\ i + 1 > 1
    BY <1>1
  <2>2. /\ FrameOK(s[i + 1]) /\ (s[i + 1].op = "root" <=> i + 1 = Len(s))
        /\ i + 1 > 1 => s[i + 1].left > 0
        /\ i + 1 = Len(s) - 1 => s[i + 1].op = "object"
    BY <2>1 DEF Nested
  <2> QED BY <1>1, <2>1, <2>2
<1>6. Nested(u) /\ u[1].left > 0
  BY <1>1, <1>2, <1>5 DEF Nested
<1> QED BY <1>1, <1>3, <1>4, <1>6 DEF u

(* A call that reads operator>>'s object, alone.                           *)
LEMMA NestSingle ==
    ASSUME NEW f, FrameOK(f), f.op = "root"
    PROVE  Nested(<<f>>) /\ <<f>> # <<>> /\ Len(<<f>>) = 1 /\ <<f>>[1] = f
<1>1. IsSeq(<<f>>) /\ Len(<<f>>) = 1 /\ <<f>>[1] = f
  BY DEF IsSeq
<1> QED BY <1>1 DEF Nested

-----------------------------------------------------------------------------
(* The key stream, of the one call that began it.                          *)

OnlyAt(s, k) == \A i \in 1 .. Len(s) : i # k => s[i].sealed = Clear

(* What the offset is at position p.                                       *)
KeyAt(s, p, off) ==
    \/ off = Clear /\ OnlyAt(s, 0)
    \/ \E k \in 1 .. Len(s) :
          OnlyAt(s, k) /\ s[k].sealed \in 0 .. p /\ off = p - s[k].sealed

(* The offset once the sealed field of the call f has been left.           *)
Unsealed(f, off) == IF f.sealed # Clear THEN Clear ELSE off

(* An offset is a natural number, or Clear.                                *)
LEMMA KeyOffset ==
    ASSUME NEW s, NEW p \in Nat, NEW off, KeyAt(s, p, off)
    PROVE  off \in Nat \cup {Clear}
BY DEF KeyAt

(* Reading advances the key with the bytes.                                *)
LEMMA KeyRead ==
    ASSUME NEW s, NEW p \in Nat, NEW off, KeyAt(s, p, off), NEW used \in Nat
    PROVE  KeyAt(s, p + used, Advance(off, used))
<1>1. CASE off = Clear /\ OnlyAt(s, 0)
  BY <1>1 DEF KeyAt, Advance
<1>2. CASE \E k \in 1 .. Len(s) :
              OnlyAt(s, k) /\ s[k].sealed \in 0 .. p /\ off = p - s[k].sealed
  <2>1. PICK k \in 1 .. Len(s) :
              OnlyAt(s, k) /\ s[k].sealed \in 0 .. p /\ off = p - s[k].sealed
    BY <1>2
  <2>2. off # Clear /\ Advance(off, used) = off + used
    BY <2>1 DEF Advance, Clear
  <2>3. s[k].sealed \in 0 .. p + used /\ off + used = (p + used) - s[k].sealed
    BY <2>1
  <2> QED BY <2>1, <2>2, <2>3 DEF KeyAt
<1> QED BY <1>1, <1>2 DEF KeyAt

(* Calls that seal the same fields have the same key.                      *)
LEMMA KeySame ==
    ASSUME NEW s, NEW p, NEW off, KeyAt(s, p, off),
           NEW t, Len(t) = Len(s), \A i \in 1 .. Len(s) : t[i].sealed = s[i].sealed
    PROVE  KeyAt(t, p, off)
BY DEF KeyAt, OnlyAt

(* The innermost call in another state, its field still sealed or not.     *)
LEMMA KeyReplace ==
    ASSUME NEW s, IsSeq(s), s # <<>>, NEW p, NEW off, KeyAt(s, p, off),
           NEW f, f.sealed = Head(s).sealed
    PROVE  KeyAt(<<f>> \o Tail(s), p, off)
<1> DEFINE t == <<f>> \o Tail(s)
<1>1. /\ Len(t) = Len(s) /\ Len(s) \in Nat \ {0} /\ t[1] = f /\ Head(s) = s[1]
      /\ \A i \in 2 .. Len(s) : t[i] = s[i]
  BY ReplaceSeq, PopSeq
<1> HIDE DEF t
<1>2. \A i \in 1 .. Len(s) : t[i].sealed = s[i].sealed
  BY <1>1
<1>3. KeyAt(t, p, off)
  BY <1>1, <1>2, KeySame
<1> QED BY <1>3 DEF t

(* A call that seals nothing.                                              *)
LEMMA KeyPush ==
    ASSUME NEW s, IsSeq(s), NEW p, NEW off, KeyAt(s, p, off),
           NEW f, f.sealed = Clear
    PROVE  KeyAt(<<f>> \o s, p, off)
<1> DEFINE t == <<f>> \o s
<1>1. /\ Len(t) = Len(s) + 1 /\ t[1] = f /\ Len(s) \in Nat
      /\ \A i \in 1 .. Len(s) : t[i + 1] = s[i]
  BY PushSeq DEF IsSeq
<1> HIDE DEF t
<1>2. ASSUME NEW k \in 0 .. Len(s), OnlyAt(s, k)
      PROVE  IF k = 0 THEN OnlyAt(t, 0) ELSE OnlyAt(t, k + 1)
  <2>1. ASSUME NEW i \in 1 .. Len(t), i > 1
        PROVE  i - 1 \in 1 .. Len(s) /\ t[i] = s[i - 1]
    <3>1. i - 1 \in 1 .. Len(s) /\ (i - 1) + 1 = i
      BY <1>1, <2>1
    <3> QED BY <1>1, <3>1
  <2>2. ASSUME NEW i \in 1 .. Len(t), i # k + 1 \/ k = 0
        PROVE  t[i].sealed = Clear
    <3>1. CASE i = 1
      BY <1>1, <3>1
    <3>2. CASE i > 1
      <4>1. i - 1 \in 1 .. Len(s) /\ i - 1 # k /\ t[i] = s[i - 1]
        BY <2>1, <2>2, <3>2
      <4> QED BY <1>2, <4>1 DEF OnlyAt
    <3> QED BY <3>1, <3>2
  <2> QED BY <2>2 DEF OnlyAt
<1>3. CASE off = Clear /\ OnlyAt(s, 0)
  <2>1. OnlyAt(t, 0)
    BY <1>1, <1>2, <1>3
  <2> QED BY <1>3, <2>1 DEF KeyAt, t
<1>4. CASE \E k \in 1 .. Len(s) :
              OnlyAt(s, k) /\ s[k].sealed \in 0 .. p /\ off = p - s[k].sealed
  <2>1. PICK k \in 1 .. Len(s) :
              OnlyAt(s, k) /\ s[k].sealed \in 0 .. p /\ off = p - s[k].sealed
    BY <1>4
  <2>2. OnlyAt(t, k + 1) /\ t[k + 1] = s[k] /\ k + 1 \in 1 .. Len(t)
    BY <1>1, <1>2, <2>1
  <2> QED BY <2>1, <2>2 DEF KeyAt, t
<1> QED BY <1>3, <1>4 DEF KeyAt

(* The innermost call ends, and what it sealed with it.                    *)
LEMMA KeyPop ==
    ASSUME NEW s, IsSeq(s), s # <<>>, NEW p \in Nat, NEW off, KeyAt(s, p, off)
    PROVE  KeyAt(Tail(s), p, Unsealed(Head(s), off))
<1> DEFINE u == Tail(s)
<1>1. /\ Len(s) \in Nat \ {0} /\ Len(u) = Len(s) - 1 /\ Head(s) = s[1]
      /\ \A i \in 1 .. Len(s) - 1 : u[i] = s[i + 1]
  BY PopSeq
<1> HIDE DEF u
<1>2. CASE off = Clear /\ OnlyAt(s, 0)
  <2>1. \A i \in 1 .. Len(u) : i + 1 \in 1 .. Len(s) /\ i + 1 # 0
    BY <1>1
  <2>2. OnlyAt(u, 0)
    BY <1>1, <1>2, <2>1 DEF OnlyAt
  <2> QED BY <1>2, <2>2 DEF KeyAt, Unsealed, u
<1>3. CASE \E k \in 1 .. Len(s) :
              OnlyAt(s, k) /\ s[k].sealed \in 0 .. p /\ off = p - s[k].sealed
  <2>1. PICK k \in 1 .. Len(s) :
              OnlyAt(s, k) /\ s[k].sealed \in 0 .. p /\ off = p - s[k].sealed
    BY <1>3
  <2>2. ASSUME NEW i \in 1 .. Len(u), i + 1 # k
        PROVE  u[i].sealed = Clear
    <3>1. i + 1 \in 1 .. Len(s) /\ u[i] = s[i + 1]
      BY <1>1
    <3> QED BY <2>1, <2>2, <3>1 DEF OnlyAt
  <2>3. CASE k = 1
    <3>1. s[1].sealed # Clear
      BY <2>1, <2>3 DEF Clear
    <3>2. OnlyAt(u, 0)
      BY <1>1, <2>2, <2>3 DEF OnlyAt
    <3> QED BY <1>1, <3>1, <3>2 DEF KeyAt, Unsealed, u
  <2>4. CASE k # 1
    <3>1. k - 1 \in 1 .. Len(u) /\ (k - 1) + 1 = k
      BY <1>1, <2>1, <2>4
    <3>2. u[k - 1] = s[k] /\ s[1].sealed = Clear
      BY <1>1, <2>1, <2>4, <3>1 DEF OnlyAt
    <3>3. OnlyAt(u, k - 1)
      BY <2>2, <3>1 DEF OnlyAt
    <3> QED BY <1>1, <2>1, <3>1, <3>2, <3>3 DEF KeyAt, Unsealed, u
  <2> QED BY <2>3, <2>4
<1> QED BY <1>2, <1>3 DEF KeyAt

(* The innermost call begins, or goes on to the next of, its fields.       *)
LEMMA KeyNextField ==
    ASSUME NEW s, IsSeq(s), s # <<>>, NEW p \in Nat, NEW off, KeyAt(s, p, off),
           NEW f, f.sealed = Clear
    PROVE  KeyAt(<<f>> \o Tail(s), p, Unsealed(Head(s), off))
<1>1. KeyAt(Tail(s), p, Unsealed(Head(s), off)) /\ IsSeq(Tail(s))
  BY KeyPop, PopSeq
<1> QED BY <1>1, KeyPush

(* An encrypted field begins, and the key with it.                         *)
LEMMA KeySeal ==
    ASSUME NEW s, IsSeq(s), s # <<>>, NEW p \in Nat, KeyAt(s, p, Clear),
           NEW f, f.sealed = p
    PROVE  KeyAt(<<f>> \o Tail(s), p, 0)
<1> DEFINE t == <<f>> \o Tail(s)
<1>1. /\ Len(t) = Len(s) /\ Len(s) \in Nat \ {0} /\ t[1] = f
      /\ \A i \in 2 .. Len(s) : t[i] = s[i]
  BY ReplaceSeq
<1> HIDE DEF t
<1>2. OnlyAt(s, 0)
  BY DEF KeyAt, Clear
<1>3. OnlyAt(t, 1)
  BY <1>1, <1>2 DEF OnlyAt
<1>4. 1 \in 1 .. Len(t) /\ t[1].sealed \in 0 .. p /\ 0 = p - t[1].sealed
  BY <1>1
<1>5. KeyAt(t, p, 0)
  BY <1>3, <1>4 DEF KeyAt
<1> QED BY <1>5 DEF t

-----------------------------------------------------------------------------
(* Frames.                                                                 *)

(* A frame starts out with all its parts owed and nothing sealed.          *)
LEMMA FrameType ==
    ASSUME NEW op \in Op, NEW shape \in Shapes, NEW count \in Nat, NEW val,
           op = "root" => shape = Object(RootType),
           op # "root" => op = shape.kind,
           op = "object" => count = Len(Fields[shape.type]),
           op = "tuple" => count = Len(shape.elems),
           op # "variant",
           NEW f, f = Frame(op, shape, count, val)
    PROVE  FrameOK(f) /\ f.op = op /\ f.sealed = Clear /\ f.left = count
<1>1. f = [op |-> op, shape |-> shape, count |-> count, left |-> count,
           key |-> Null, sealed |-> Clear, val |-> val]
  BY DEF Frame
<1>2. /\ f.op = op /\ f.shape = shape /\ f.count = count /\ f.left = count
      /\ f.key = Null /\ f.sealed = Clear /\ f.val = val
  BY <1>1
<1>3. f = [op |-> f.op, shape |-> f.shape, count |-> f.count, left |-> f.left,
           key |-> f.key, sealed |-> f.sealed, val |-> f.val]
  BY <1>1, <1>2, Zenon
<1> QED BY <1>2, <1>3 DEF FrameOK

(* A call that is waiting for a part waits for one the program has a codec *)
(* for; operator>> waits for an object.                                    *)
LEMMA AwaitedType ==
    ASSUME NEW f, FrameOK(f), f.left > 0
    PROVE  /\ Part(f) \in 1 .. f.count
           /\ Awaited(f) \in Shapes
           /\ f.op = "root" => Awaited(f).kind = "object"
           /\ f.op = "object" => FieldOf(f).id \in Nat \ {0}
<1>1. /\ f.op \in Op /\ f.shape \in Shapes /\ f.left \in Nat /\ f.count \in Nat
      /\ f.left <= f.count
      /\ f.op = "root" => f.shape = Object(RootType)
      /\ f.op # "root" => f.op = f.shape.kind
      /\ f.op = "object" => f.count = Len(Fields[f.shape.type])
      /\ f.op = "tuple" => f.count = Len(f.shape.elems)
      /\ f.op = "variant" => f.key \in DOMAIN f.shape.elems
  BY DEF FrameOK
<1>2. Part(f) \in 1 .. f.count
  BY <1>1 DEF Part
<1>3. /\ f.shape.kind \in {"vector", "optional", "array", "span"} => f.shape.elem \in Shapes
      /\ f.shape.kind \in MapKind => f.shape.key \in Shapes /\ f.shape.elem \in Shapes
      /\ f.shape.kind \in {"tuple", "variant"} => f.shape.elems \in Seq(Shapes)
      /\ f.shape.kind = "object" =>
            \A i \in 1 .. Len(Fields[f.shape.type]) :
               /\ Fields[f.shape.type][i].shape \in Shapes
               /\ Fields[f.shape.type][i].id \in Nat \ {0}
  BY <1>1, PartShapes, FieldsAssumption, ShapesAssumption
<1>4. CASE f.op = "root"
  <2>1. Awaited(f) = Object(RootType)
    BY <1>1, <1>4 DEF Awaited, InMap, MapKind
  <2> QED BY <1>2, <1>4, <2>1, ShapesAssumption DEF Object
<1>5. CASE f.op = "object"
  <2>1. Awaited(f) = FieldOf(f).shape
    BY <1>5 DEF Awaited, InMap, MapKind
  <2> QED BY <1>1, <1>2, <1>3, <1>5, <2>1 DEF FieldOf
<1>6. CASE f.op = "tuple"
  <2>1. Awaited(f) = f.shape.elems[Part(f)]
    BY <1>6 DEF Awaited, InMap, MapKind
  <2>2. f.shape.elems \in Seq(Shapes)
    BY <1>1, <1>3, <1>6
  <2> QED BY <1>1, <1>2, <1>6, <2>1, <2>2
<1>7. CASE f.op = "variant"
  <2>1. Awaited(f) = f.shape.elems[f.key]
    BY <1>7 DEF Awaited, InMap, MapKind
  <2>2. f.shape.elems \in Seq(Shapes)
    BY <1>1, <1>3, <1>7
  <2> QED BY <1>1, <1>2, <1>7, <2>1, <2>2
<1>8. CASE f.op \in MapKind
  <2>1. Awaited(f) \in {f.shape.key, f.shape.elem}
    BY <1>8 DEF Awaited, MapKind, InMap
  <2>2. f.op # "root" /\ f.op # "object"
    BY <1>8 DEF MapKind
  <2> QED BY <1>1, <1>2, <1>3, <1>8, <2>1, <2>2
<1>9. CASE f.op \in {"vector", "array", "span", "optional"}
  <2>1. Awaited(f) = f.shape.elem
    BY <1>9 DEF Awaited, InMap, MapKind
  <2>2. f.op # "root" /\ f.op # "object" /\ f.shape.kind \in {"vector", "optional", "array", "span"}
    BY <1>1, <1>9
  <2> QED BY <1>2, <1>3, <2>1, <2>2
<1> QED BY <1>1, <1>4, <1>5, <1>6, <1>7, <1>8, <1>9 DEF Op

(* A call that got a part owes one less, or has its map key pending; what  *)
(* it sealed has ended.                                                    *)
LEMMA DeliveredType ==
    ASSUME NEW f, FrameOK(f), f.left > 0, NEW v
    PROVE  /\ FrameOK(Delivered(f, v)) /\ Delivered(f, v).op = f.op
           /\ Delivered(f, v).sealed = Clear
<1>1. CASE InMap(f) /\ f.key = Null
  <2>1. Delivered(f, v) = [f EXCEPT !.key = v]
    BY <1>1 DEF Delivered
  <2>2. f.op # "variant" /\ f.op # "object"
    BY <1>1 DEF InMap, MapKind
  <2> QED BY <2>1, <2>2 DEF FrameOK
<1>2. CASE ~(InMap(f) /\ f.key = Null)
  <2> DEFINE n == f.left - 1
             k == IF InMap(f) THEN Null ELSE f.key
  <2>1. \E w : Delivered(f, v) = [f EXCEPT !.left = n, !.key = k, !.sealed = Clear, !.val = w]
    BY <1>2, Zenon DEF Delivered, n, k
  <2>2. n \in Nat /\ n <= f.count
    BY DEF FrameOK
  <2>3. f.op = "variant" => k = f.key
    BY DEF InMap, MapKind
  <2> HIDE DEF n, k
  <2>4. ASSUME NEW w, NEW g,
               g = [f EXCEPT !.left = n, !.key = k, !.sealed = Clear, !.val = w]
        PROVE  FrameOK(g) /\ g.op = f.op /\ g.sealed = Clear
    BY <2>2, <2>3, <2>4 DEF FrameOK
  <2> QED BY <2>1, <2>4
<1> QED BY <1>1, <1>2

(* What a failed codec leaves in its caller's storage changes no call.     *)
LEMMA SpilledType ==
    ASSUME NEW f, FrameOK(f), NEW v
    PROVE  /\ FrameOK(Spilled(f, v)) /\ Spilled(f, v).op = f.op
           /\ Spilled(f, v).left = f.left /\ Spilled(f, v).sealed = f.sealed
<1>1. \/ Spilled(f, v) = f
      \/ \E w : Spilled(f, v) = [f EXCEPT !.val = w]
  <2>1. \/ Spilled(f, v) = f
        \/ Spilled(f, v) = [f EXCEPT !.val = v]
        \/ Spilled(f, v) = [f EXCEPT !.val[FieldOf(f).id] = v]
        \/ Spilled(f, v) = [f EXCEPT !.val[Part(f)] = v]
    BY Zenon DEF Spilled
  <2> QED BY <2>1
<1>2. ASSUME NEW w, NEW g, g = [f EXCEPT !.val = w]
      PROVE  FrameOK(g) /\ g.op = f.op /\ g.left = f.left /\ g.sealed = f.sealed
  BY <1>2 DEF FrameOK
<1> QED BY <1>1, <1>2

-----------------------------------------------------------------------------
(* The diagnostic.                                                         *)

(* A diagnostic that says what failed.                                     *)
Said(e) ==
    /\ e = [code |-> e.code, stage |-> e.stage, type |-> e.type, field |-> e.field,
            name |-> e.name, index |-> e.index, offset |-> e.offset]
    /\ Telling(e.code, e.stage)

(* The diagnostic a codec raises says so.                                  *)
LEMMA RaisedType ==
    ASSUME NEW code, NEW stage, Telling(code, stage)
    PROVE  Said(WithStage(WithCode(Emplaced(NoError, Absent), code), stage))
<1> DEFINE e == WithCode(Emplaced(NoError, Absent), code)
<1>1. e = [code |-> code, stage |-> Absent, type |-> Absent, field |-> Absent,
           name |-> Absent, index |-> Absent, offset |-> Absent]
  <2>1. Emplaced(NoError, Absent) =
            [code |-> "unknown", stage |-> Absent, type |-> Absent, field |-> Absent,
             name |-> Absent, index |-> Absent, offset |-> Absent]
    <3>1. Emplaced(NoError, Absent) = [NoError EXCEPT !.code = "unknown", !.offset = Absent]
      BY Zenon DEF Emplaced
    <3> QED BY <3>1 DEF NoError
  <2> QED BY <2>1 DEF WithCode
<1> HIDE DEF e
<1>2. WithStage(e, stage) =
          [code |-> code, stage |-> stage, type |-> Absent, field |-> Absent,
           name |-> Absent, index |-> Absent, offset |-> Absent]
  BY <1>1 DEF WithStage, FirstWins
<1> QED BY <1>2 DEF Said, e

(* No layer that annotates a diagnostic takes anything back, and the field *)
(* is known once the codec of an object has been left.                     *)
LEMMA AnnotatedType ==
    ASSUME NEW e, Said(e), NEW f, FrameOK(f), f.left > 0
    PROVE  /\ Said(Annotated(e, f))
           /\ f.op = "object" \/ e.field # Absent => Annotated(e, f).field # Absent
<1>1. ASSUME NEW d, Said(d), NEW stage
      PROVE  WithStage(d, stage) = d
  BY <1>1, StageAssumption DEF Said, Telling, WithStage, FirstWins
<1>2. ASSUME NEW index
      PROVE  Said(WithIndex(e, index)) /\ WithIndex(e, index).field = e.field
  BY DEF Said, WithIndex, FirstWins
<1>3. ASSUME NEW id \in Nat
      PROVE  Said(WithField(e, id)) /\ WithField(e, id).field # Absent
  <2>1. id # Absent
    BY AbsentAssumption
  <2>2. CASE e.field = Absent
    <3>1. WithField(e, id) = [e EXCEPT !.field = id]
      BY <2>2 DEF WithField, FirstWins
    <3> QED BY <2>1, <3>1 DEF Said
  <2>3. CASE e.field # Absent
    <3>1. WithField(e, id) = e
      BY <2>3 DEF WithField, FirstWins
    <3> QED BY <2>3, <3>1
  <2> QED BY <2>2, <2>3
<1>4. CASE f.op = "object"
  <2>1. FieldOf(f).id \in Nat
    BY <1>4, AwaitedType
  <2>2. Annotated(e, f) = WithStage(WithField(e, FieldOf(f).id), "field_value")
    BY <1>4 DEF Annotated, MapKind
  <2> QED BY <1>1, <1>3, <2>1, <2>2
<1>5. CASE f.op # "object"
  <2>1. \/ Annotated(e, f) = e
        \/ \E index, stage : Annotated(e, f) = WithStage(WithIndex(e, index), stage)
    <3>1. CASE f.op = "variant"
      BY <3>1 DEF Annotated, MapKind
    <3>2. CASE f.op \in {"vector", "array", "span"} \cup MapKind
      BY <3>2 DEF Annotated, MapKind
    <3>3. CASE f.op \notin {"object", "variant", "vector", "array", "span"} \cup MapKind
      BY <3>3 DEF Annotated, MapKind
    <3> QED BY <1>5, <3>1, <3>2, <3>3
  <2> QED BY <1>1, <1>2, <1>5, <2>1
<1> QED BY <1>4, <1>5

-----------------------------------------------------------------------------
(* The inductive invariant.                                                *)

Ended == {"idle", "ok", "error", "thrown"}

(* What is told of a failure when the calls s have been left so far: the   *)
(* field is told, or the codec of the outermost object will add it.        *)
DiagnosticOK(st, e, s) ==
    /\ st \notin {"failing", "error"} => e = NoError
    /\ st \in {"failing", "error"} => Said(e)
    /\ st = "failing" => Head(s).left > 0 /\ (e.field # Absent \/ Len(s) > 1)
    /\ st = "error" => e.field # Absent

IInv ==
    /\ input \in Seq(Byte)
    /\ pos \in 0 .. Len(input)
    /\ Nested(stack)
    /\ stack = <<>> <=> status \in Ended
    /\ status \in {"reading", "failing", "throwing"} \cup Ended
    /\ reads \in 0 .. MaxReads
    /\ KeyAt(stack, pos, offset)
    /\ DiagnosticOK(status, error, stack)

(* During a read there is an innermost call, and it is a frame.            *)
LEMMA Innermost ==
    ASSUME IInv, status \notin Ended
    PROVE  /\ stack # <<>> /\ Nested(stack) /\ IsSeq(stack)
           /\ Len(stack) \in Nat \ {0} /\ FrameOK(Head(stack))
           /\ input \in Seq(Byte) /\ pos \in 0 .. Len(input) /\ pos \in Nat
           /\ offset \in Nat \cup {Clear} /\ KeyAt(stack, pos, offset)
<1>1. /\ stack # <<>> /\ Nested(stack)
      /\ input \in Seq(Byte) /\ pos \in 0 .. Len(input) /\ KeyAt(stack, pos, offset)
  BY DEF IInv
<1>2. FrameOK(Head(stack)) /\ Len(stack) \in Nat \ {0} /\ IsSeq(stack)
  BY <1>1, NestHead DEF Nested
<1>3. pos \in Nat
  BY <1>1
<1> QED BY <1>1, <1>2, <1>3, KeyOffset

(* Without calls there is no key.                                          *)
LEMMA NoCalls == Nested(<<>>) /\ \A p : KeyAt(<<>>, p, Clear)
BY DEF Nested, IsSeq, KeyAt, OnlyAt

(* Once operator>> has returned there are no calls and there is no key.    *)
LEMMA LastCall ==
    ASSUME IInv, status \notin Ended, Head(stack).op = "root"
    PROVE  Nested(<<>>) /\ KeyAt(<<>>, pos, offset)
<1>1. /\ stack # <<>> /\ Nested(stack) /\ IsSeq(stack) /\ FrameOK(Head(stack))
      /\ pos \in Nat /\ KeyAt(stack, pos, offset)
  BY Innermost
<1>2. Len(stack) = 1
  BY <1>1, NestHead
<1>3. Tail(stack) = <<>>
  <2> DEFINE u == Tail(stack)
  <2>1. IsSeq(u) /\ Len(u) = 0
    BY <1>1, <1>2, PopSeq
  <2> HIDE DEF u
  <2>2. u = <<>>
    BY <2>1 DEF IsSeq
  <2> QED BY <2>2 DEF u
<1>4. Unsealed(Head(stack), offset) = offset
  BY <1>1 DEF FrameOK, Unsealed
<1>5. KeyAt(Tail(stack), pos, offset)
  BY <1>1, <1>4, KeyPop
<1> QED BY <1>3, <1>5, NoCalls

(* A codec fails, and the calls stay as they are.                          *)
LEMMA RaiseInv ==
    ASSUME IInv, UNCHANGED <<input, reads>>, pos' \in 0 .. Len(input),
           Nested(stack'), stack' # <<>>, Len(stack') > 1, Head(stack').left > 0,
           KeyAt(stack', pos', offset'),
           NEW code, NEW stage, Telling(code, stage), Raise(code, stage)
    PROVE  IInv'
<1>1. Said(error') /\ status' = "failing"
  BY RaisedType DEF Raise
<1>2. DiagnosticOK(status', error', stack')
  BY <1>1 DEF DiagnosticOK
<1> QED BY <1>1, <1>2 DEF IInv, Ended

(* A codec calls another one, or returns to its caller.                    *)
LEMMA CarryOnInv ==
    ASSUME IInv, status = "reading", UNCHANGED <<input, reads, status, error>>,
           pos' \in 0 .. Len(input), Nested(stack'), stack' # <<>>,
           KeyAt(stack', pos', offset')
    PROVE  IInv'
<1>1. DiagnosticOK(status', error', stack')
  BY DEF IInv, DiagnosticOK
<1> QED BY <1>1 DEF IInv, Ended

(* A codec's value is handed to the innermost of the remaining calls.      *)
LEMMA StoreInv ==
    ASSUME IInv, status = "reading", UNCHANGED <<input, reads>>,
           NEW calls, Nested(calls), calls # <<>>, Head(calls).left > 0,
           KeyAt(calls, pos, offset),
           NEW v, NEW used \in Nat, pos + used <= Len(input), Store(calls, v, used)
    PROVE  IInv'
<1>1. /\ FrameOK(Head(calls)) /\ Len(calls) \in Nat \ {0} /\ IsSeq(calls)
      /\ Head(calls).op = "root" <=> Len(calls) = 1
  BY NestHead DEF Nested
<1>2. pos' = pos + used /\ pos \in Nat /\ pos' \in 0 .. Len(input)
  BY Innermost DEF Store, Ended
<1>3. KeyAt(calls, pos', Advance(offset, used))
  BY <1>2, KeyRead
<1>4. CASE DuplicateKey(Head(calls))
  <2>1. /\ stack' = calls /\ offset' = Advance(offset, used)
        /\ Raise("duplicate_key", "container")
    BY <1>4 DEF Store
  <2>2. Len(calls) > 1
    <3>1. Head(calls).op \in MapKind
      BY <1>4 DEF DuplicateKey, InMap
    <3>2. Head(calls).op # "root"
      BY <3>1 DEF MapKind
    <3>3. Len(calls) # 1
      BY <1>1, <3>2
    <3>4. \A n \in Nat \ {0} : n # 1 => n > 1
      OBVIOUS
    <3> QED BY <1>1, <3>3, <3>4, Zenon
  <2> QED BY <1>2, <1>3, <2>1, <2>2, RaiseInv, CodecsTell
<1>5. CASE ~DuplicateKey(Head(calls))
  <2> DEFINE f == Delivered(Head(calls), v)
  <2>1. /\ stack' = <<f>> \o Tail(calls) /\ UNCHANGED <<status, error>>
        /\ offset' = Unsealed(Head(calls), Advance(offset, used))
    BY <1>5 DEF Store, Unsealed
  <2>2. FrameOK(f) /\ f.op = Head(calls).op /\ f.sealed = Clear
    BY <1>1, DeliveredType
  <2> HIDE DEF f
  <2>3. Nested(stack') /\ stack' # <<>>
    BY <2>1, <2>2, NestReplace
  <2>4. KeyAt(stack', pos', offset')
    <3>1. pos' \in Nat
      BY <1>2
    <3> QED BY <1>1, <1>3, <2>1, <2>2, <3>1, KeyNextField
  <2> QED BY <1>2, <2>1, <2>3, <2>4, CarryOnInv
<1> QED BY <1>4, <1>5

(* A codec that awaits a value other than an object is not the first call. *)
LEMMA Awaiting ==
    ASSUME IInv, NEW kinds, Reading(kinds)
    PROVE  /\ status = "reading" /\ status \notin Ended /\ Head(stack).left > 0
           /\ Awaited(Head(stack)) \in Shapes /\ Awaited(Head(stack)).kind \in kinds
           /\ "object" \notin kinds => Head(stack).op # "root" /\ Len(stack) > 1
<1>1. /\ status = "reading" /\ status \notin Ended /\ Head(stack).left > 0
      /\ Awaited(Head(stack)).kind \in kinds
  BY DEF Reading, Ended
<1>2. /\ Awaited(Head(stack)) \in Shapes
      /\ Head(stack).op = "root" => Awaited(Head(stack)).kind = "object"
  BY <1>1, Innermost, AwaitedType
<1>3. Len(stack) \in Nat \ {0} /\ (Head(stack).op = "root" <=> Len(stack) = 1)
  BY <1>1, Innermost, NestHead
<1>4. ASSUME "object" \notin kinds
      PROVE  Head(stack).op # "root" /\ Len(stack) > 1
  <2>1. Awaited(Head(stack)).kind # "object"
    BY <1>1, <1>4
  <2>2. Head(stack).op # "root"
    BY <1>2, <2>1
  <2> QED BY <1>3, <2>2
<1> QED BY <1>1, <1>2, <1>4

(* A primitive fails: nothing is delivered.                                *)
LEMMA FailInv ==
    ASSUME IInv, NEW kinds, Reading(kinds), "object" \notin kinds,
           UNCHANGED <<input, reads>>,
           NEW r, Outcome(r, input, pos), ~r.ok, Fail(r)
    PROVE  IInv'
<1>1. /\ pos' = pos + r.used /\ offset' = Advance(offset, r.used) /\ stack' = stack
      /\ Raise(r.code, r.stage)
  BY DEF Fail, Read
<1>2. Bounded(r, input, pos) /\ Telling(r.code, r.stage)
  BY DEF Outcome
<1>3. /\ Nested(stack) /\ stack # <<>> /\ KeyAt(stack, pos, offset) /\ pos \in Nat
      /\ Head(stack).left > 0 /\ Len(stack) > 1
  BY Awaiting, Innermost
<1>4. pos' \in 0 .. Len(input)
  BY <1>1, <1>2, <1>3 DEF Bounded
<1>5. KeyAt(stack', pos', offset')
  BY <1>1, <1>2, <1>3, KeyRead DEF Bounded
<1> QED BY <1>1, <1>2, <1>3, <1>4, <1>5, RaiseInv

(* A codec fails and leaves something in the storage it was reading into.  *)
LEMMA SpillInv ==
    ASSUME IInv, NEW kinds, Reading(kinds), "object" \notin kinds,
           UNCHANGED <<input, reads>>,
           NEW used \in Nat, pos + used <= Len(input), Read(used),
           NEW v, Spill(v),
           NEW code, NEW stage, Telling(code, stage), Raise(code, stage)
    PROVE  IInv'
<1> DEFINE f == Spilled(Head(stack), v)
<1>1. /\ pos' = pos + used /\ offset' = Advance(offset, used)
      /\ stack' = <<f>> \o Tail(stack)
  BY DEF Read, Spill
<1>2. /\ Nested(stack) /\ IsSeq(stack) /\ stack # <<>> /\ KeyAt(stack, pos, offset)
      /\ FrameOK(Head(stack)) /\ pos \in Nat
      /\ Head(stack).left > 0 /\ Len(stack) > 1
  BY Awaiting, Innermost
<1>3. /\ FrameOK(f) /\ f.op = Head(stack).op /\ f.left = Head(stack).left
      /\ f.sealed = Head(stack).sealed
  BY <1>2, SpilledType
<1> HIDE DEF f
<1>4. /\ Nested(stack') /\ Len(stack') = Len(stack) /\ stack' # <<>>
      /\ Head(stack') = f
  BY <1>1, <1>2, <1>3, NestReplace
<1>5. pos' \in 0 .. Len(input)
  BY <1>1, <1>2
<1>6. KeyAt(stack', pos', offset')
  <2>1. KeyAt(stack, pos', offset')
    BY <1>1, <1>2, KeyRead
  <2> QED BY <1>1, <1>2, <1>3, <2>1, KeyReplace
<1> QED BY <1>2, <1>3, <1>4, <1>5, <1>6, RaiseInv

(* resize() or reserve() throws: the calls stay, whatever their storage.   *)
LEMMA AbandonInv ==
    ASSUME IInv, NEW kinds, Reading(kinds), UNCHANGED <<input, reads>>,
           NEW used \in Nat, pos + used <= Len(input), Abandon(used),
           \/ UNCHANGED stack
           \/ \E v : Spill(v)
    PROVE  IInv'
<1>1. /\ pos' = pos + used /\ offset' = Advance(offset, used)
      /\ status' = "throwing" /\ error' = error
  BY DEF Abandon, Read
<1>2. /\ Nested(stack) /\ IsSeq(stack) /\ stack # <<>> /\ KeyAt(stack, pos, offset)
      /\ FrameOK(Head(stack)) /\ pos \in Nat /\ status = "reading"
  BY Awaiting, Innermost
<1>3. KeyAt(stack, pos', offset')
  BY <1>1, <1>2, KeyRead
<1>4. Nested(stack') /\ stack' # <<>> /\ KeyAt(stack', pos', offset')
  <2>1. CASE stack' = stack
    BY <1>2, <1>3, <2>1
  <2>2. CASE \E v : Spill(v)
    <3>1. PICK v : Spill(v)
      BY <2>2
    <3> DEFINE f == Spilled(Head(stack), v)
    <3>2. /\ FrameOK(f) /\ f.op = Head(stack).op /\ f.sealed = Head(stack).sealed
          /\ stack' = <<f>> \o Tail(stack)
      BY <1>2, <3>1, SpilledType DEF Spill
    <3> HIDE DEF f
    <3> QED BY <1>2, <1>3, <3>2, NestReplace, KeyReplace
  <2> QED BY <2>1, <2>2
<1>5. pos' \in 0 .. Len(input)
  BY <1>1, <1>2
<1>6. DiagnosticOK(status', error', stack')
  BY <1>1, <1>2 DEF IInv, DiagnosticOK
<1> QED BY <1>1, <1>4, <1>5, <1>6 DEF IInv, Ended

(* A codec calls another one for a part of its value.                      *)
LEMMA CallInv ==
    ASSUME IInv, NEW kinds, Reading(kinds), UNCHANGED <<input, reads>>,
           NEW used \in Nat, pos + used <= Len(input),
           NEW f, FrameOK(f), f.op # "root", f.sealed = Clear,
           Head(stack).op = "root" => f.op = "object",
           Call(f, used)
    PROVE  IInv'
<1>1. /\ pos' = pos + used /\ offset' = Advance(offset, used)
      /\ stack' = <<f>> \o stack /\ UNCHANGED <<status, error>>
  BY DEF Call, Read
<1>2. /\ Nested(stack) /\ IsSeq(stack) /\ stack # <<>> /\ KeyAt(stack, pos, offset)
      /\ pos \in Nat /\ status = "reading" /\ Head(stack).left > 0
      /\ Len(stack) \in Nat \ {0}
  BY Awaiting, Innermost
<1>3. Nested(stack') /\ Len(stack') = Len(stack) + 1
  BY <1>1, <1>2, NestPush
<1>4. stack' # <<>>
  BY <1>2, <1>3
<1>5. KeyAt(stack', pos', offset')
  <2>1. KeyAt(stack, pos', offset')
    BY <1>1, <1>2, KeyRead
  <2> QED BY <1>1, <1>2, <2>1, KeyPush
<1>6. pos' \in 0 .. Len(input)
  BY <1>1, <1>2
<1> QED BY <1>1, <1>2, <1>3, <1>4, <1>5, <1>6, CarryOnInv

-----------------------------------------------------------------------------
(* What the codecs read.                                                   *)

(* Bytes behind those a codec has read already.                            *)
LEMMA ReadBehindOutcome ==
    ASSUME IInv, status \notin Ended,
           NEW used \in Nat, pos + used <= Len(input), NEW bytes \in Nat
    PROVE  LET r == ReadBehind(used, bytes)
           IN  /\ Outcome(r, input, pos + used)
               /\ r.ok => r.used = bytes /\ r.value \in Seq(Byte)
<1>1. input \in Seq(Byte) /\ pos \in Nat /\ offset \in Nat \cup {Clear}
  BY Innermost
<1>2. pos + used \in 0 .. Len(input)
  BY <1>1
<1>3. Advance(offset, used) \in Nat \cup {Clear}
  BY <1>1 DEF Advance
<1> QED BY <1>1, <1>2, <1>3, ReadExactlyOutcome DEF ReadBehind

(* Bytes at the position.                                                  *)
LEMMA ReadHereOutcome ==
    ASSUME IInv, status \notin Ended, NEW bytes \in Nat
    PROVE  LET r == ReadBehind(0, bytes)
           IN  /\ Outcome(r, input, pos)
               /\ r.ok => r.used = bytes /\ r.value \in Seq(Byte)
<1>1. pos \in 0 .. Len(input) /\ pos \in Nat /\ input \in Seq(Byte)
  BY Innermost
<1>2. pos + 0 = pos /\ pos + 0 <= Len(input)
  BY <1>1
<1> QED BY <1>2, ReadBehindOutcome

(* The size in front of a value.                                           *)
LEMMA SizeOutcome ==
    ASSUME IInv, status \notin Ended
    PROVE  /\ Outcome(Size, input, pos)
           /\ Size.ok => Size.value \in Nat /\ Size.used = SizeBytes /\ SizeBytes \in Nat
<1>1. input \in Seq(Byte) /\ pos \in 0 .. Len(input) /\ offset \in Nat \cup {Clear}
  BY Innermost
<1>2. SizeBytes \in Nat
  BY SizeBytesAssumption
<1> QED BY <1>1, <1>2, ReadSizeOutcome DEF Size

(* A guard refuses a size, or leaves it as it is.                          *)
LEMMA GuardedOutcome ==
    ASSUME NEW size, Outcome(size, input, pos), NEW width
    PROVE  /\ Outcome(Guarded(size, width), input, pos)
           /\ Guarded(size, width).ok => Guarded(size, width) = size /\ size.ok
<1> DEFINE code == Violated(Head(stack), size.value, width)
<1>1. code = "none" \/ Telling(code, "attribute_guard")
  BY CodecsTell DEF Violated
<1> HIDE DEF code
<1>2. CASE ~size.ok \/ code = "none"
  <2>1. Guarded(size, width) = size
    BY <1>2 DEF Guarded, code
  <2> QED BY <2>1
<1>3. CASE size.ok /\ code # "none"
  <2>1. Guarded(size, width) = Failed(code, "attribute_guard", size.used)
    BY <1>3 DEF Guarded, code
  <2> QED BY <1>1, <1>3, <2>1 DEF Outcome, Bounded, Failed
<1> QED BY <1>2, <1>3 DEF Outcome

(* A size that passed its guard.                                           *)
LEMMA GuardedSizeOutcome ==
    ASSUME IInv, status \notin Ended, NEW width
    PROVE  LET size == Guarded(Size, width)
           IN  /\ Outcome(size, input, pos)
               /\ size.ok => /\ size.value \in Nat /\ size.used \in Nat
                             /\ pos + size.used <= Len(input)
<1>1. /\ Outcome(Size, input, pos)
      /\ Size.ok => Size.value \in Nat
  BY SizeOutcome
<1>2. /\ Outcome(Guarded(Size, width), input, pos)
      /\ Guarded(Size, width).ok => Guarded(Size, width) = Size /\ Size.ok
  BY <1>1, GuardedOutcome
<1> QED BY <1>1, <1>2 DEF Outcome, Bounded

(* The size of an array, or of a span, on the wire.                        *)
LEMMA FixedSizeOutcome ==
    ASSUME IInv, status \notin Ended, NEW shape \in Shapes,
           shape.kind \in {"array", "span"}, NEW width
    PROVE  LET size == Guarded(FixedSize(shape), width)
           IN  /\ Outcome(size, input, pos)
               /\ size.ok => size.used \in Nat /\ pos + size.used <= Len(input)
<1>1. /\ Outcome(Size, input, pos)
      /\ Size.ok => Size.value \in Nat /\ Size.used = SizeBytes /\ SizeBytes \in Nat
  BY SizeOutcome
<1>2. pos \in 0 .. Len(input) /\ pos \in Nat /\ input \in Seq(Byte)
  BY Innermost
<1>3. Outcome(FixedSize(shape), input, pos)
  <2>1. CASE shape.kind = "array"
    <3>1. FixedSize(shape) = Got(shape.size, 0)
      BY <2>1 DEF FixedSize
    <3> QED BY <1>2, <3>1 DEF Outcome, Bounded, Got
  <2>2. CASE shape.kind # "array" /\ Size.ok /\ Size.value # shape.size
    <3>1. FixedSize(shape) = Failed("span_size_mismatch", "span", SizeBytes)
      BY <2>2 DEF FixedSize
    <3> QED BY <1>1, <2>2, <3>1, CodecsTell DEF Outcome, Bounded, Failed
  <2>3. CASE shape.kind # "array" /\ ~(Size.ok /\ Size.value # shape.size)
    <3>1. FixedSize(shape) = Size
      BY <2>3 DEF FixedSize
    <3> QED BY <1>1, <3>1
  <2> QED BY <2>1, <2>2, <2>3
<1>4. /\ Outcome(Guarded(FixedSize(shape), width), input, pos)
      /\ Guarded(FixedSize(shape), width).ok =>
            Guarded(FixedSize(shape), width) = FixedSize(shape)
  BY <1>3, GuardedOutcome
<1> QED BY <1>4 DEF Outcome, Bounded

-----------------------------------------------------------------------------
(* Every action preserves the invariant.                                   *)

(* operator>> is called: one call, no key, no diagnostic.                  *)
LEMMA BeginReadInv == IInv /\ BeginRead => IInv'
<1> SUFFICES ASSUME IInv, BeginRead PROVE IInv'
  OBVIOUS
<1> DEFINE f == Frame("root", Object(RootType), 1, object)
<1>1. FrameOK(f) /\ f.op = "root" /\ f.sealed = Clear
  BY FrameType, ShapesAssumption DEF Op
<1>2. /\ stack' = <<f>> /\ status' = "reading" /\ error' = NoError
      /\ reads' = reads + 1 /\ reads < MaxReads /\ UNCHANGED <<input, pos, offset>>
  BY DEF BeginRead
<1>3. stack = <<>> /\ pos \in 0 .. Len(input)
  BY DEF IInv, BeginRead, Ended
<1> HIDE DEF f
<1>4. Nested(stack') /\ stack' # <<>>
  BY <1>1, <1>2, NestSingle
<1>5. reads' \in 0 .. MaxReads
  BY <1>2, MaxReadsAssumption DEF IInv
<1>6. KeyAt(stack', pos', offset')
  <2>1. <<f>> = <<f>> \o stack /\ IsSeq(stack)
    BY <1>3 DEF IsSeq
  <2>2. KeyAt(stack, pos, offset)
    BY DEF IInv
  <2>3. KeyAt(<<f>> \o stack, pos, offset)
    BY <1>1, <2>1, <2>2, KeyPush
  <2> QED BY <1>2, <2>1, <2>3
<1>7. DiagnosticOK(status', error', stack')
  BY <1>2 DEF DiagnosticOK
<1> QED BY <1>2, <1>4, <1>5, <1>6, <1>7 DEF IInv, Ended

(* An object or a tuple is nothing but its parts.                          *)
LEMMA OpenPartsInv == IInv /\ OpenParts => IInv'
<1> SUFFICES ASSUME IInv, OpenParts PROVE IInv'
  OBVIOUS
<1> DEFINE shape == Awaited(Head(stack))
           parts == IF shape.kind = "tuple" THEN shape.elems ELSE Fields[shape.type]
           f     == Frame(shape.kind, shape, Len(parts), Storage(Head(stack)))
<1>1. /\ Reading({"object", "tuple"}) /\ Call(f, 0) /\ UNCHANGED <<input, object, reads>>
  BY DEF OpenParts
<1>2. /\ shape \in Shapes /\ shape.kind \in {"object", "tuple"} /\ status \notin Ended
      /\ Head(stack).left > 0
  BY <1>1, Awaiting
<1>3. /\ shape.kind = "tuple" => shape.elems \in Seq(Shapes)
      /\ shape.kind = "object" => Len(Fields[shape.type]) \in Nat
  BY <1>2, PartShapes, FieldsAssumption, ShapesAssumption
<1>4. Head(stack).op = "root" => shape.kind = "object"
  BY <1>2, Innermost, AwaitedType
<1>5. Len(parts) \in Nat
  BY <1>2, <1>3
<1>6. FrameOK(f) /\ f.op = shape.kind /\ f.sealed = Clear
  BY <1>2, <1>5, FrameType DEF Op
<1>7. pos + 0 <= Len(input)
  BY <1>2, Innermost
<1> HIDE DEF shape, f
<1> QED BY <1>1, <1>2, <1>4, <1>6, <1>7, CallInv

(* The key of an encrypted field begins where its bytes do.                *)
LEMMA SealInv == IInv /\ Seal => IInv'
<1> SUFFICES ASSUME IInv, Seal PROVE IInv'
  OBVIOUS
<1> DEFINE f == [Head(stack) EXCEPT !.sealed = pos]
<1>1. /\ status = "reading" /\ status \notin Ended /\ Head(stack).left > 0
      /\ Head(stack).op = "object" /\ offset = Clear /\ offset' = 0
      /\ stack' = <<f>> \o Tail(stack)
      /\ UNCHANGED <<input, pos, status, error, reads>>
  BY DEF Seal, MustSeal, Ended
<1>2. /\ Nested(stack) /\ IsSeq(stack) /\ stack # <<>> /\ FrameOK(Head(stack))
      /\ pos \in Nat /\ pos \in 0 .. Len(input) /\ KeyAt(stack, pos, offset)
  BY <1>1, Innermost
<1>3. FrameOK(f) /\ f.op = Head(stack).op /\ f.sealed = pos
  BY <1>1, <1>2 DEF FrameOK
<1> HIDE DEF f
<1>4. Nested(stack') /\ stack' # <<>>
  BY <1>1, <1>2, <1>3, NestReplace
<1>5. KeyAt(stack', pos', offset')
  BY <1>1, <1>2, <1>3, KeySeal
<1> QED BY <1>1, <1>2, <1>4, <1>5, CarryOnInv

(* A scalar is there whole, or the read fails.                             *)
LEMMA ReadRawValueInv == IInv /\ ReadRawValue => IInv'
<1> SUFFICES ASSUME IInv, ReadRawValue PROVE IInv'
  OBVIOUS
<1> DEFINE shape == Awaited(Head(stack))
           r     == ReadBehind(0, shape.width)
<1>1. /\ Reading({"raw"}) /\ UNCHANGED <<input, reads>>
      /\ IF r.ok THEN Store(stack, r.value, r.used) ELSE Fail(r)
  BY DEF ReadRawValue
<1>2. /\ shape \in Shapes /\ shape.kind = "raw" /\ status = "reading" /\ status \notin Ended
      /\ Head(stack).left > 0
  BY <1>1, Awaiting
<1>3. shape.width \in Nat
  BY <1>2, PartShapes, FieldsAssumption, ShapesAssumption
<1>4. Outcome(r, input, pos)
  BY <1>2, <1>3, ReadHereOutcome
<1> HIDE DEF r
<1>5. CASE r.ok
  <2>1. r.used \in Nat /\ pos + r.used <= Len(input)
    BY <1>4 DEF Outcome, Bounded
  <2> QED BY <1>1, <1>2, <1>5, <2>1, Innermost, StoreInv
<1>6. CASE ~r.ok
  BY <1>1, <1>4, <1>6, FailInv
<1> QED BY <1>5, <1>6

(* A bitset takes no more bytes than there are.                            *)
LEMMA ReadBitsetInv == IInv /\ ReadBitset => IInv'
<1> SUFFICES ASSUME IInv, ReadBitset PROVE IInv'
  OBVIOUS
<1> DEFINE n     == Awaited(Head(stack)).size
           width == BitsetBytes(n)
           here  == Smaller(width, Available(Len(input), pos))
           taken == IF n <= 64 /\ here < width THEN 0 ELSE here
           bits  == UnpackedBits(ReadBehind(0, taken).value, n)
<1>1. /\ Reading({"bitset"}) /\ UNCHANGED <<input, reads>>
      /\ IF taken = width THEN Store(stack, bits, width)
         ELSE Read(taken) /\ Spill(bits) /\ Raise("truncated", "raw")
  BY DEF ReadBitset
<1>2. /\ Awaited(Head(stack)) \in Shapes /\ Awaited(Head(stack)).kind = "bitset"
      /\ status = "reading" /\ status \notin Ended /\ Head(stack).left > 0
  BY <1>1, Awaiting
<1>3. n \in Nat
  BY <1>2, PartShapes, FieldsAssumption, ShapesAssumption
<1>4. pos \in 0 .. Len(input) /\ input \in Seq(Byte)
  BY <1>2, Innermost
<1> HIDE DEF n
<1>5. width \in Nat
  BY <1>3 DEF BitsetBytes
<1> HIDE DEF width
<1>6. taken \in Nat /\ pos + taken <= Len(input)
  BY <1>4, <1>5 DEF Smaller, Available
<1> HIDE DEF taken, bits
<1>7. CASE taken = width
  BY <1>1, <1>2, <1>6, <1>7, Innermost, StoreInv
<1>8. CASE taken # width
  BY <1>1, <1>6, <1>8, CodecsTell, SpillInv
<1> QED BY <1>7, <1>8

(* The size of a string passes its guard and fits in memory before the     *)
(* characters are read.                                                    *)
LEMMA ReadStringInv == IInv /\ ReadString => IInv'
<1> SUFFICES ASSUME IInv, ReadString PROVE IInv'
  OBVIOUS
<1> DEFINE size == Guarded(Size, 1)
           raw  == ReadBehind(size.used, size.value)
           left == Resized(Storage(Head(stack)), size.value, 0)
<1>1. /\ Reading({"string"}) /\ UNCHANGED <<input, reads>>
      /\ IF ~size.ok THEN Fail(size)
         ELSE IF ~Allocates(size.value) THEN Abandon(size.used) /\ UNCHANGED stack
         ELSE IF raw.ok THEN Store(stack, raw.value, size.used + raw.used)
         ELSE Read(size.used) /\ Spill(left) /\ Raise(raw.code, raw.stage)
  BY DEF ReadString
<1>2. status = "reading" /\ status \notin Ended /\ Head(stack).left > 0 /\ pos \in Nat
  BY <1>1, Awaiting, Innermost
<1>3. /\ Outcome(size, input, pos)
      /\ size.ok => /\ size.value \in Nat /\ size.used \in Nat
                    /\ pos + size.used <= Len(input)
  BY <1>2, GuardedSizeOutcome
<1> HIDE DEF size
<1>4. CASE ~size.ok
  BY <1>1, <1>3, <1>4, FailInv
<1>5. CASE size.ok /\ ~Allocates(size.value)
  BY <1>1, <1>3, <1>5, AbandonInv
<1>6. CASE size.ok /\ Allocates(size.value)
  <2>1. Outcome(raw, input, pos + size.used)
    BY <1>2, <1>3, <1>6, ReadBehindOutcome
  <2> HIDE DEF raw, left
  <2>2. CASE raw.ok
    <3>1. size.used + raw.used \in Nat /\ pos + (size.used + raw.used) <= Len(input)
      BY <1>2, <1>3, <1>6, <2>1 DEF Outcome, Bounded
    <3> QED BY <1>1, <1>2, <1>6, <2>2, <3>1, Innermost, StoreInv
  <2>3. CASE ~raw.ok
    <3>1. Telling(raw.code, raw.stage)
      BY <2>1, <2>3 DEF Outcome
    <3> QED BY <1>1, <1>3, <1>6, <2>3, <3>1, SpillInv
  <2> QED BY <2>2, <2>3
<1> QED BY <1>4, <1>5, <1>6

(* A borrowed string needs no memory, but its characters must be there.    *)
LEMMA ReadStringViewInv == IInv /\ ReadStringView => IInv'
<1> SUFFICES ASSUME IInv, ReadStringView PROVE IInv'
  OBVIOUS
<1> DEFINE size  == Guarded(Size, 1)
           raw   == ReadBehind(size.used, size.value)
           v     == Borrowed(size.value)
           short == Failed("truncated", "view", size.used)
<1>1. /\ Reading({"view"}) /\ UNCHANGED <<input, reads>>
      /\ IF ~size.ok THEN Fail(size)
         ELSE IF raw.ok THEN Store(stack, v, size.used + raw.used)
         ELSE Fail(short)
  BY DEF ReadStringView
<1>2. status = "reading" /\ status \notin Ended /\ Head(stack).left > 0 /\ pos \in Nat
  BY <1>1, Awaiting, Innermost
<1>3. /\ Outcome(size, input, pos)
      /\ size.ok => /\ size.value \in Nat /\ size.used \in Nat
                    /\ pos + size.used <= Len(input)
  BY <1>2, GuardedSizeOutcome
<1> HIDE DEF size
<1>4. CASE ~size.ok
  BY <1>1, <1>3, <1>4, FailInv
<1>5. CASE size.ok
  <2>1. Outcome(raw, input, pos + size.used)
    BY <1>2, <1>3, <1>5, ReadBehindOutcome
  <2>2. Outcome(short, input, pos) /\ ~short.ok
    BY <1>3, <1>5, CodecsTell DEF Outcome, Bounded, Failed
  <2> HIDE DEF raw, v, short
  <2>3. CASE raw.ok
    <3>1. size.used + raw.used \in Nat /\ pos + (size.used + raw.used) <= Len(input)
      BY <1>2, <1>3, <1>5, <2>1 DEF Outcome, Bounded
    <3> QED BY <1>1, <1>2, <1>5, <2>3, <3>1, Innermost, StoreInv
  <2>4. CASE ~raw.ok
    BY <1>1, <1>5, <2>2, <2>4, FailInv
  <2> QED BY <2>3, <2>4
<1> QED BY <1>4, <1>5

(* A vector of raw elements: the bytes of all of them, in one copy.        *)
LEMMA ReadRawVectorInv == IInv /\ ReadRawVector => IInv'
<1> SUFFICES ASSUME IInv, ReadRawVector PROVE IInv'
  OBVIOUS
<1> DEFINE elem  == Awaited(Head(stack)).elem
           width == RawWidth(elem)
           size  == Guarded(Size, width)
           raw   == ReadBehind(size.used, Product(size.value, width))
           blank == [i \in 1 .. width |-> 0]
           v     == Resized(Elements(raw.value, width), size.value, blank)
           left  == Resized(Storage(Head(stack)), size.value, blank)
<1>1. /\ Reading({"vector"}) /\ UNCHANGED <<input, reads>>
      /\ IF ~size.ok THEN Fail(size)
         ELSE IF ~Allocates(size.value * width)
         THEN Abandon(size.used) /\ UNCHANGED stack
         ELSE IF raw.ok THEN Store(stack, v, size.used + raw.used)
         ELSE Read(size.used) /\ Spill(left) /\ Raise(raw.code, raw.stage)
  BY DEF ReadRawVector
<1>2. /\ status = "reading" /\ status \notin Ended /\ Head(stack).left > 0 /\ pos \in Nat
      /\ Awaited(Head(stack)) \in Shapes /\ Awaited(Head(stack)).kind = "vector"
  BY <1>1, Awaiting, Innermost
<1>3. width \in Nat
  <2>1. elem \in Shapes
    BY <1>2, PartShapes, FieldsAssumption, ShapesAssumption
  <2>2. elem.kind = "raw" => elem.width \in Nat
    BY <2>1, PartShapes, FieldsAssumption, ShapesAssumption
  <2> QED BY <2>2 DEF RawWidth
<1> HIDE DEF elem, width
<1>4. /\ Outcome(size, input, pos)
      /\ size.ok => /\ size.value \in Nat /\ size.used \in Nat
                    /\ pos + size.used <= Len(input)
  BY <1>2, GuardedSizeOutcome
<1> HIDE DEF size
<1>5. CASE ~size.ok
  BY <1>1, <1>4, <1>5, FailInv
<1>6. CASE size.ok /\ ~Allocates(size.value * width)
  BY <1>1, <1>4, <1>6, AbandonInv
<1>7. CASE size.ok /\ Allocates(size.value * width)
  <2>1. Outcome(raw, input, pos + size.used)
    <3>1. Product(size.value, width) \in Nat
      BY <1>3, <1>4, <1>7, ProductType
    <3> QED BY <1>2, <1>4, <1>7, <3>1, ReadBehindOutcome
  <2> HIDE DEF raw, v, left
  <2>2. CASE raw.ok
    <3>1. size.used + raw.used \in Nat /\ pos + (size.used + raw.used) <= Len(input)
      BY <1>2, <1>4, <1>7, <2>1 DEF Outcome, Bounded
    <3> QED BY <1>1, <1>2, <1>7, <2>2, <3>1, Innermost, StoreInv
  <2>3. CASE ~raw.ok
    <3>1. Telling(raw.code, raw.stage)
      BY <2>1, <2>3 DEF Outcome
    <3> QED BY <1>1, <1>4, <1>7, <2>3, <3>1, SpillInv
  <2> QED BY <2>2, <2>3
<1> QED BY <1>5, <1>6, <1>7

(* A vector or a map of anything else: as many parts as the size says.     *)
LEMMA OpenSequenceInv == IInv /\ OpenSequence => IInv'
<1> SUFFICES ASSUME IInv, OpenSequence PROVE IInv'
  OBVIOUS
<1> DEFINE shape == Awaited(Head(stack))
           size  == Guarded(Size, 0)
           empty == Cleared(Head(stack))
           f     == Frame(shape.kind, shape, size.value, empty)
<1>1. /\ Reading({"vector"} \cup MapKind) /\ UNCHANGED <<input, object, reads>>
      /\ IF ~size.ok THEN Fail(size)
         ELSE IF shape.kind # "map" /\ ~Allocates(size.value)
         THEN Abandon(size.used) /\ Spill(empty)
         ELSE Call(f, size.used)
  BY DEF OpenSequence
<1>2. /\ status \notin Ended /\ shape \in Shapes /\ shape.kind \in {"vector"} \cup MapKind
      /\ Head(stack).op # "root"
  BY <1>1, Awaiting DEF MapKind
<1>3. /\ Outcome(size, input, pos)
      /\ size.ok => /\ size.value \in Nat /\ size.used \in Nat
                    /\ pos + size.used <= Len(input)
  BY <1>2, GuardedSizeOutcome
<1> HIDE DEF size, shape, empty
<1>4. CASE ~size.ok
  <2>1. "object" \notin {"vector"} \cup MapKind
    BY DEF MapKind
  <2> QED BY <1>1, <1>3, <1>4, <2>1, FailInv
<1>5. CASE size.ok /\ shape.kind # "map" /\ ~Allocates(size.value)
  BY <1>1, <1>3, <1>5, AbandonInv
<1>6. CASE size.ok /\ ~(shape.kind # "map" /\ ~Allocates(size.value))
  <2>1. shape.kind \in Op /\ shape.kind \notin {"root", "object", "tuple", "variant"}
    BY <1>2 DEF Op, MapKind
  <2>2. FrameOK(f) /\ f.op = shape.kind /\ f.sealed = Clear
    BY <1>2, <1>3, <1>6, <2>1, FrameType
  <2> HIDE DEF f
  <2> QED BY <1>1, <1>2, <1>3, <1>6, <2>1, <2>2, CallInv
<1> QED BY <1>4, <1>5, <1>6

(* An array or a span: as many parts as its type or the user's object has. *)
LEMMA ReadFixedInv == IInv /\ ReadFixed => IInv'
<1> SUFFICES ASSUME IInv, ReadFixed PROVE IInv'
  OBVIOUS
<1> DEFINE shape == Awaited(Head(stack))
           width == RawWidth(shape.elem)
           size  == Guarded(FixedSize(shape), width)
           raw   == ReadBehind(size.used, shape.size * width)
           f     == Frame(shape.kind, shape, shape.size, Storage(Head(stack)))
           v     == Elements(raw.value, width)
           short == Failed(raw.code, raw.stage, size.used)
<1>1. /\ Reading({"array", "span"}) /\ UNCHANGED <<input, object, reads>>
      /\ IF ~size.ok THEN Fail(size)
         ELSE IF shape.elem.kind # "raw" THEN Call(f, size.used)
         ELSE IF raw.ok THEN Store(stack, v, size.used + raw.used)
         ELSE Fail(short)
  BY DEF ReadFixed
<1>2. /\ status = "reading" /\ status \notin Ended /\ Head(stack).left > 0 /\ pos \in Nat
      /\ shape \in Shapes /\ shape.kind \in {"array", "span"} /\ Head(stack).op # "root"
  BY <1>1, Awaiting, Innermost
<1>3. shape.size \in Nat /\ width \in Nat
  <2>1. shape.elem \in Shapes /\ shape.size \in Nat
    BY <1>2, PartShapes, FieldsAssumption, ShapesAssumption
  <2>2. shape.elem.kind = "raw" => shape.elem.width \in Nat
    BY <2>1, PartShapes, FieldsAssumption, ShapesAssumption
  <2> QED BY <2>1, <2>2 DEF RawWidth
<1>4. /\ Outcome(size, input, pos)
      /\ size.ok => size.used \in Nat /\ pos + size.used <= Len(input)
  BY <1>2, FixedSizeOutcome
<1> HIDE DEF shape, width, size
<1>5. CASE ~size.ok
  BY <1>1, <1>4, <1>5, FailInv
<1>6. CASE size.ok /\ shape.elem.kind # "raw"
  <2>1. FrameOK(f) /\ f.op = shape.kind /\ f.sealed = Clear
    BY <1>2, <1>3, FrameType DEF Op
  <2> HIDE DEF f
  <2> QED BY <1>1, <1>2, <1>4, <1>6, <2>1, CallInv
<1>7. CASE size.ok /\ shape.elem.kind = "raw"
  <2>1. Outcome(raw, input, pos + size.used)
    <3>1. shape.size * width \in Nat
      BY <1>3
    <3> QED BY <1>2, <1>4, <1>7, <3>1, ReadBehindOutcome
  <2>2. ~raw.ok => Outcome(short, input, pos) /\ ~short.ok
    BY <1>4, <1>7, <2>1 DEF Outcome, Bounded, Failed
  <2> HIDE DEF raw, v, short
  <2>3. CASE raw.ok
    <3>1. size.used + raw.used \in Nat /\ pos + (size.used + raw.used) <= Len(input)
      BY <1>2, <1>4, <1>7, <2>1 DEF Outcome, Bounded
    <3> QED BY <1>1, <1>2, <1>7, <2>3, <3>1, Innermost, StoreInv
  <2>4. CASE ~raw.ok
    BY <1>1, <1>7, <2>2, <2>4, FailInv
  <2> QED BY <2>3, <2>4
<1> QED BY <1>5, <1>6, <1>7

(* An optional: its flag, then its value if the flag says so.              *)
LEMMA ReadOptionalInv == IInv /\ ReadOptional => IInv'
<1> SUFFICES ASSUME IInv, ReadOptional PROVE IInv'
  OBVIOUS
<1> DEFINE shape == Awaited(Head(stack))
           r     == ReadBehind(0, 1)
           f     == Frame("optional", shape, 1, Storage(Head(stack)))
<1>1. /\ Reading({"optional"}) /\ UNCHANGED <<input, object, reads>>
      /\ \/ ~r.ok /\ Fail(r)
         \/ r.ok /\ Call(f, 1)
         \/ r.ok /\ Store(stack, Null, 1)
  BY DEF ReadOptional
<1>2. /\ status = "reading" /\ status \notin Ended /\ Head(stack).left > 0
      /\ shape \in Shapes /\ shape.kind = "optional" /\ Head(stack).op # "root"
  BY <1>1, Awaiting
<1>3. Outcome(r, input, pos) /\ (r.ok => r.used = 1)
  BY <1>2, ReadHereOutcome
<1>4. FrameOK(f) /\ f.op = "optional" /\ f.sealed = Clear
  BY <1>2, FrameType DEF Op
<1> HIDE DEF shape, r, f
<1>5. CASE ~r.ok /\ Fail(r)
  BY <1>1, <1>3, <1>5, FailInv
<1>6. CASE r.ok /\ Call(f, 1)
  <2>1. pos + 1 <= Len(input)
    BY <1>3, <1>6 DEF Outcome, Bounded
  <2> QED BY <1>1, <1>2, <1>4, <1>6, <2>1, CallInv
<1>7. CASE r.ok /\ Store(stack, Null, 1)
  <2>1. pos + 1 <= Len(input)
    BY <1>3, <1>7 DEF Outcome, Bounded
  <2> QED BY <1>1, <1>2, <1>7, <2>1, Innermost, StoreInv
<1> QED BY <1>1, <1>5, <1>6, <1>7

(* A variant: an index of one of its alternatives, then that one's value.  *)
LEMMA ReadVariantInv == IInv /\ ReadVariant => IInv'
<1> SUFFICES ASSUME IInv, ReadVariant PROVE IInv'
  OBVIOUS
<1> DEFINE shape == Awaited(Head(stack))
           size  == Size
           wrong == Failed("variant_index_out_of_range", "variant", SizeBytes)
           f     == [Frame("variant", shape, 1, Storage(Head(stack)))
                        EXCEPT !.key = size.value + 1]
<1>1. /\ Reading({"variant"}) /\ UNCHANGED <<input, object, reads>>
      /\ IF ~size.ok THEN Fail(size)
         ELSE IF size.value >= Len(shape.elems) THEN Fail(wrong)
         ELSE Call(f, SizeBytes)
  BY DEF ReadVariant
<1>2. /\ status \notin Ended /\ Head(stack).left > 0
      /\ shape \in Shapes /\ shape.kind = "variant" /\ Head(stack).op # "root"
  BY <1>1, Awaiting
<1>3. /\ Outcome(size, input, pos)
      /\ size.ok => /\ size.value \in Nat /\ SizeBytes \in Nat
                    /\ pos + SizeBytes <= Len(input)
  BY <1>2, SizeOutcome DEF Outcome, Bounded
<1> HIDE DEF size
<1>4. CASE ~size.ok
  BY <1>1, <1>3, <1>4, FailInv
<1>5. CASE size.ok /\ size.value >= Len(shape.elems)
  <2>1. Outcome(wrong, input, pos) /\ ~wrong.ok
    BY <1>3, <1>5, CodecsTell DEF Outcome, Bounded, Failed
  <2> HIDE DEF wrong, shape
  <2> QED BY <1>1, <1>5, <2>1, FailInv
<1>6. CASE size.ok /\ ~(size.value >= Len(shape.elems))
  <2>1. shape.elems \in Seq(Shapes)
    BY <1>2, PartShapes, FieldsAssumption, ShapesAssumption
  <2> HIDE DEF shape
  <2>2. size.value + 1 \in DOMAIN shape.elems
    BY <1>3, <1>6, <2>1
  <2> DEFINE val == Storage(Head(stack))
             key == size.value + 1
  <2>3. f = [op |-> "variant", shape |-> shape, count |-> 1, left |-> 1,
             key |-> key, sealed |-> Clear, val |-> val]
    BY DEF Frame
  <2> HIDE DEF f, val
  <2>4. /\ f.op = "variant" /\ f.shape = shape /\ f.count = 1 /\ f.left = 1
        /\ f.key = key /\ f.sealed = Clear /\ f.val = val
    BY <2>3
  <2>5. f = [op |-> f.op, shape |-> f.shape, count |-> f.count, left |-> f.left,
             key |-> f.key, sealed |-> f.sealed, val |-> f.val]
    BY <2>3, <2>4, Zenon
  <2>6. FrameOK(f)
    BY <1>2, <2>2, <2>4, <2>5 DEF FrameOK, Op
  <2> QED BY <1>1, <1>2, <1>3, <1>6, <2>4, <2>6, CallInv
<1> QED BY <1>4, <1>5, <1>6

(* A codec returns: its caller has one part more.                          *)
LEMMA ReturnValueInv == IInv /\ ReturnValue => IInv'
<1> SUFFICES ASSUME IInv, ReturnValue PROVE IInv'
  OBVIOUS
<1> DEFINE v == Head(stack).val
<1>1. /\ status = "reading" /\ status \notin Ended
      /\ Head(stack).left = 0 /\ Head(stack).op # "root"
      /\ Store(Tail(stack), v, 0) /\ UNCHANGED <<input, reads>>
  BY DEF ReturnValue, Ended
<1>2. /\ stack # <<>> /\ Nested(stack) /\ IsSeq(stack) /\ FrameOK(Head(stack))
      /\ pos \in Nat /\ pos \in 0 .. Len(input) /\ KeyAt(stack, pos, offset)
  BY <1>1, Innermost
<1>3. Nested(Tail(stack)) /\ Tail(stack) # <<>> /\ Head(Tail(stack)).left > 0
  BY <1>1, <1>2, NestPop
<1>4. KeyAt(Tail(stack), pos, offset)
  <2>1. Head(stack).sealed = Clear
    BY <1>1, <1>2 DEF FrameOK
  <2>2. Unsealed(Head(stack), offset) = offset
    BY <2>1 DEF Unsealed
  <2> QED BY <1>2, <2>2, KeyPop
<1>5. pos + 0 <= Len(input)
  BY <1>2
<1> DEFINE s == Tail(stack)
<1>6. Nested(s) /\ s # <<>> /\ Head(s).left > 0 /\ KeyAt(s, pos, offset) /\ Store(s, v, 0)
  BY <1>1, <1>3, <1>4
<1> HIDE DEF v, s
<1> QED BY <1>1, <1>5, <1>6, StoreInv

(* operator>> has its object: no call is left, and no key.                 *)
LEMMA EndReadInv == IInv /\ EndRead => IInv'
<1> SUFFICES ASSUME IInv, EndRead PROVE IInv'
  OBVIOUS
<1>1. /\ status = "reading" /\ status \notin Ended /\ Head(stack).op = "root"
      /\ stack' = <<>> /\ status' = "ok" /\ UNCHANGED <<input, pos, offset, error, reads>>
  BY DEF EndRead, Ended
<1>2. Nested(stack') /\ KeyAt(stack', pos', offset')
  BY <1>1, LastCall
<1>3. DiagnosticOK(status', error', stack')
  BY <1>1 DEF IInv, DiagnosticOK
<1> QED BY <1>1, <1>2, <1>3 DEF IInv, Ended

(* A failed call is left: its caller's storage and the diagnostic learn of *)
(* it, and the key of its field is gone.                                   *)
LEMMA UnwindInv == IInv /\ Unwind => IInv'
<1> SUFFICES ASSUME IInv, Unwind PROVE IInv'
  OBVIOUS
<1> DEFINE f == Head(stack)
           s == Tail(stack)
           g == Spilled(Head(s), f.val)
<1>1. /\ status \in {"failing", "throwing"} /\ status \notin Ended /\ f.op # "root"
      /\ error' = IF status = "failing" THEN Annotated(error, f) ELSE error
      /\ offset' = Unsealed(f, offset)
      /\ stack' = <<g>> \o Tail(s)
      /\ UNCHANGED <<input, pos, status, reads>>
  BY DEF Unwind, Ended, Unsealed
<1>2. /\ stack # <<>> /\ Nested(stack) /\ IsSeq(stack) /\ FrameOK(f)
      /\ pos \in Nat /\ KeyAt(stack, pos, offset) /\ Len(stack) \in Nat \ {0}
  BY <1>1, Innermost
<1>3. /\ Nested(s) /\ s # <<>> /\ Head(s).left > 0 /\ Len(s) = Len(stack) - 1
      /\ IsSeq(s)
  BY <1>1, <1>2, NestPop DEF Nested
<1>4. KeyAt(s, pos, offset')
  BY <1>1, <1>2, KeyPop
<1>5. /\ FrameOK(g) /\ g.op = Head(s).op /\ g.left = Head(s).left
      /\ g.sealed = Head(s).sealed
  BY <1>3, NestHead, SpilledType
<1>6. Len(stack) = 2 => f.op = "object"
  BY <1>2, NestHead
<1> HIDE DEF f, s, g
<1>7. /\ Nested(stack') /\ Len(stack') = Len(s) /\ stack' # <<>>
      /\ Head(stack') = g
  BY <1>1, <1>3, <1>5, NestReplace
<1>8. KeyAt(stack', pos, offset')
  BY <1>1, <1>3, <1>4, <1>5, KeyReplace
<1>9. DiagnosticOK(status', error', stack')
  <2>1. CASE status = "throwing"
    BY <1>1, <2>1 DEF IInv, DiagnosticOK
  <2>2. CASE status = "failing"
    <3>1. /\ Said(error) /\ f.left > 0 /\ (error.field # Absent \/ Len(stack) > 1)
      BY <2>2 DEF IInv, DiagnosticOK, f
    <3>2. /\ error' = Annotated(error, f) /\ status' = "failing"
      BY <1>1, <2>2
    <3>3. /\ Said(error')
          /\ f.op = "object" \/ error.field # Absent => error'.field # Absent
      BY <1>2, <3>1, <3>2, AnnotatedType
    <3>4. Len(stack') = Len(stack) - 1
      BY <1>3, <1>7
    <3>5. error'.field # Absent \/ Len(stack') > 1
      <4>1. CASE Len(stack) = 2
        BY <1>6, <3>3, <4>1
      <4>2. CASE Len(stack) # 2
        <5>1. \A n \in Nat \ {0} : n > 1 /\ n # 2 => n - 1 > 1
          OBVIOUS
        <5>2. CASE Len(stack) > 1
          BY <1>2, <3>4, <4>2, <5>1, <5>2
        <5>3. CASE error.field # Absent
          BY <3>3, <5>3
        <5> QED BY <3>1, <5>2, <5>3
      <4> QED BY <4>1, <4>2
    <3>6. Head(stack').left > 0
      BY <1>3, <1>5, <1>7
    <3> QED BY <3>2, <3>3, <3>5, <3>6 DEF DiagnosticOK
  <2> QED BY <1>1, <2>1, <2>2
<1> QED BY <1>1, <1>7, <1>8, <1>9 DEF IInv, Ended

(* operator>> throws: no call is left, no key, and the diagnostic that is  *)
(* thrown names the field.                                                 *)
LEMMA ThrowInv == IInv /\ Throw => IInv'
<1> SUFFICES ASSUME IInv, Throw PROVE IInv'
  OBVIOUS
<1>1. /\ status \in {"failing", "throwing"} /\ status \notin Ended
      /\ Head(stack).op = "root" /\ stack' = <<>>
      /\ status' = IF status = "failing" THEN "error" ELSE "thrown"
      /\ UNCHANGED <<input, pos, offset, error, reads>>
  BY DEF Throw, Ended
<1>2. Nested(stack') /\ KeyAt(stack', pos', offset')
  BY <1>1, LastCall
<1>3. Len(stack) = 1
  BY <1>1, Innermost, NestHead
<1>4. DiagnosticOK(status', error', stack')
  BY <1>1, <1>3 DEF IInv, DiagnosticOK
<1> QED BY <1>1, <1>2, <1>4 DEF IInv, Ended

(* Before the first read nothing is in progress.                           *)
LEMMA InitInv == Init => IInv
<1> SUFFICES ASSUME Init PROVE IInv
  OBVIOUS
<1>1. /\ input \in Seq(Byte) /\ pos = 0 /\ offset = Clear /\ stack = <<>>
      /\ status = "idle" /\ error = NoError /\ reads = 0
  BY InputsAssumption DEF Init
<1>2. Nested(stack) /\ KeyAt(stack, pos, offset)
  BY <1>1, NoCalls
<1>3. DiagnosticOK(status, error, stack)
  BY <1>1 DEF DiagnosticOK
<1>4. reads \in 0 .. MaxReads /\ pos \in 0 .. Len(input)
  BY <1>1, MaxReadsAssumption
<1> QED BY <1>1, <1>2, <1>3, <1>4 DEF IInv, Ended

(* Every step keeps it.                                                    *)
LEMMA StepInv == IInv /\ [Next]_vars => IInv'
<1> SUFFICES ASSUME IInv, [Next]_vars PROVE IInv'
  OBVIOUS
<1>1. CASE UNCHANGED vars
  BY <1>1 DEF IInv, vars
<1>2. CASE BeginRead
  BY <1>2, BeginReadInv
<1>3. CASE OpenParts
  BY <1>3, OpenPartsInv
<1>4. CASE Seal
  BY <1>4, SealInv
<1>5. CASE ReadRawValue
  BY <1>5, ReadRawValueInv
<1>6. CASE ReadBitset
  BY <1>6, ReadBitsetInv
<1>7. CASE ReadString
  BY <1>7, ReadStringInv
<1>8. CASE ReadStringView
  BY <1>8, ReadStringViewInv
<1>9. CASE ReadRawVector
  BY <1>9, ReadRawVectorInv
<1>10. CASE OpenSequence
  BY <1>10, OpenSequenceInv
<1>11. CASE ReadFixed
  BY <1>11, ReadFixedInv
<1>12. CASE ReadOptional
  BY <1>12, ReadOptionalInv
<1>13. CASE ReadVariant
  BY <1>13, ReadVariantInv
<1>14. CASE ReturnValue
  BY <1>14, ReturnValueInv
<1>15. CASE EndRead
  BY <1>15, EndReadInv
<1>16. CASE Unwind
  BY <1>16, UnwindInv
<1>17. CASE Throw
  BY <1>17, ThrowInv
<1> QED BY <1>1, <1>2, <1>3, <1>4, <1>5, <1>6, <1>7, <1>8, <1>9, <1>10, <1>11,
           <1>12, <1>13, <1>14, <1>15, <1>16, <1>17 DEF Next, Step

-----------------------------------------------------------------------------
(* Theorems.                                                               *)

(* The invariant holds at every moment of every run.                       *)
THEOREM Inductive == Spec => []IInv
BY InitInv, StepInv, PTL DEF Spec

(* The variables have their types, for any schema and any bytes: whatever  *)
(* the sizes in them declare, reader::read and the codecs never move past  *)
(* the end of the input and never count more parts down than there are.    *)
THEOREM TypeCorrect == Spec => []TypeOK
<1>1. ASSUME IInv PROVE TypeOK
  <2>1. offset \in Nat \cup {Clear}
    <3>1. pos \in Nat /\ KeyAt(stack, pos, offset)
      BY <1>1 DEF IInv
    <3> QED BY <3>1, KeyOffset
  <2>2. ASSUME NEW i \in DOMAIN stack
        PROVE  stack[i].op \in Op /\ stack[i].left \in 0 .. stack[i].count
    <3>1. i \in 1 .. Len(stack) /\ FrameOK(stack[i])
      BY <1>1, <2>2 DEF IInv, Nested, IsSeq
    <3> QED BY <3>1 DEF FrameOK
  <2> QED BY <1>1, <2>1, <2>2 DEF IInv, TypeOK, Ended
<1> QED BY <1>1, Inductive, PTL

(* reader::field of an encrypted field, decrypting_input: the key stream   *)
(* belongs to at most one field, is in step with the bytes read for it,    *)
(* and is gone when the read ends or fails.                                *)
THEOREM KeyStreamInStep == Spec => []KeyInStep
<1>1. ASSUME IInv PROVE KeyInStep
  <2>1. stack \in Seq({stack[i] : i \in DOMAIN stack}) /\ KeyAt(stack, pos, offset)
        /\ pos \in Nat
    BY <1>1 DEF IInv, Nested, IsSeq
  <2>2. DOMAIN stack = 1 .. Len(stack) /\ Len(stack) \in Nat
    BY <2>1
  <2>3. CASE offset = Clear /\ OnlyAt(stack, 0)
    BY <2>2, <2>3 DEF OnlyAt, KeyInStep, SealedCalls
  <2>4. CASE \E k \in 1 .. Len(stack) :
                /\ OnlyAt(stack, k) /\ stack[k].sealed \in 0 .. pos
                /\ offset = pos - stack[k].sealed
    <3>1. PICK k \in 1 .. Len(stack) :
                /\ OnlyAt(stack, k) /\ stack[k].sealed \in 0 .. pos
                /\ offset = pos - stack[k].sealed
      BY <2>4
    <3>2. stack[k].sealed # Clear
      BY <3>1 DEF Clear
    <3>3. SealedCalls = {k}
      BY <2>2, <3>1, <3>2 DEF SealedCalls, OnlyAt
    <3> QED BY <2>2, <3>1, <3>3 DEF KeyInStep
  <2> QED BY <2>1, <2>3, <2>4 DEF KeyAt
<1> QED BY <1>1, Inductive, PTL

(* "Error Flow": a read that throws says what failed, at which stage and   *)
(* in which field; any other leaves no diagnostic.                         *)
THEOREM FailureExplained == Spec => []DiagnosticComplete
<1>1. ASSUME IInv PROVE DiagnosticComplete
  BY <1>1, StageAssumption DEF IInv, DiagnosticOK, Said, Telling, DiagnosticComplete
<1> QED BY <1>1, Inductive, PTL

=============================================================================
