------------------------ MODULE CompactReader_proofs ------------------------
(***************************************************************************)
(* Theorems of CompactReader for every schema, every window of bytes and   *)
(* every number of reads: the cursor stays in the window, the codec calls  *)
(* nest, their depth is paid for in bytes, and so is their work: what the  *)
(* calls in progress have completed, added up over the stack.              *)
(***************************************************************************)
EXTENDS CompactReader, ReaderLemmas

-----------------------------------------------------------------------------
(* The primitives of CompactFormat.                                        *)

(* A payload width is that of one to eight bytes.                          *)
LEMMA PayloadWidthRange ==
    ASSUME NEW header \in Byte
    PROVE  PayloadWidth(header) \in 1 .. 8
BY DEF PayloadWidth, Byte

(* A byte is read only if the window still has one.                        *)
LEMMA ReadByteBounded ==
    ASSUME NEW data \in Seq(Byte), NEW p \in 0 .. Len(data)
    PROVE  LET r == ReadByte(data, p)
           IN  /\ Bounded(r, data, p)
               /\ r.ok \in BOOLEAN
               /\ r.ok => r.used = 1 /\ r.value \in Byte
<1>1. Peek(data, p, 1) \in Seq(Byte) /\ Len(Peek(data, p, 1)) = Smaller(1, Len(data) - p)
  BY PeekLength
<1> QED BY <1>1 DEF ReadByte, Bounded, Got, Failed, Smaller

(* An integer of a header and its payload is consumed whole or not at all. *)
LEMMA WholePayloadBounded ==
    ASSUME NEW view \in Seq(Byte), Len(view) > 0
    PROVE  /\ PayloadWidth(view[1]) \in 1 .. 8
           /\ Len(view) >= 1 + PayloadWidth(view[1]) => PayloadValue(view) \in Nat
<1>1. PayloadWidth(view[1]) \in 1 .. 8
  BY PayloadWidthRange
<1>2. ASSUME Len(view) >= 1 + PayloadWidth(view[1])
      PROVE  SubSeq(view, 2, 1 + PayloadWidth(view[1])) \in Seq(Byte)
  BY <1>1, <1>2
<1> QED BY <1>1, <1>2, LoadLittleUintType DEF PayloadValue

(* An unsigned integer is decoded from the bytes seen, and no others.      *)
LEMMA DecodeUintBounded ==
    ASSUME NEW view \in Seq(Byte), Len(view) > 0
    PROVE  LET r == DecodeUint(view)
           IN  /\ r.used \in 0 .. Len(view)
               /\ r.ok \in BOOLEAN
               /\ r.ok => r.used > 0 /\ r.value \in Nat
<1>1. view[1] \in Byte
  OBVIOUS
<1>2. CASE view[1] \in SmallUint
  <2>1. DecodeUint(view) = Got(view[1], 1)
    BY <1>2, Zenon DEF DecodeUint
  <2>2. view[1] \in Nat
    BY <1>1, ByteIsNat, Zenon
  <2> QED BY <2>1, <2>2 DEF Got
<1>3. CASE view[1] \notin SmallUint /\ view[1] \in UintPayload
  <2> DEFINE got == Got(PayloadValue(view), 1 + PayloadWidth(view[1]))
  <2>1. DecodeUint(view) = WholePayload(view, got)
    BY <1>3 DEF DecodeUint
  <2> QED BY <2>1, WholePayloadBounded DEF WholePayload, Got, Failed
<1>4. CASE view[1] \notin SmallUint /\ view[1] \notin UintPayload
  BY <1>4 DEF DecodeUint, Failed
<1> QED BY <1>2, <1>3, <1>4

(* read_uint consumes an integer whole or not at all.                      *)
LEMMA ReadUintBounded ==
    ASSUME NEW data \in Seq(Byte), NEW p \in 0 .. Len(data)
    PROVE  LET r == ReadUint(data, p)
           IN  /\ Bounded(r, data, p)
               /\ r.ok \in BOOLEAN
               /\ r.ok => r.used > 0 /\ r.value \in Nat
<1> DEFINE view == Peek(data, p, 9)
<1>1. view \in Seq(Byte) /\ Len(view) <= Len(data) - p
  <2>1. view \in Seq(Byte) /\ Len(view) = Smaller(9, Len(data) - p)
    BY PeekLength
  <2>2. Smaller(9, Len(data) - p) <= Len(data) - p
    BY DEF Smaller
  <2> QED BY <2>1, <2>2
<1>2. CASE view = <<>>
  BY <1>2 DEF ReadUint, Bounded, Failed
<1>3. CASE view # <<>>
  <2>1. Len(view) > 0 /\ ReadUint(data, p) = DecodeUint(view)
    BY <1>1, <1>3 DEF ReadUint
  <2> QED BY <1>1, <2>1, DecodeUintBounded DEF Bounded
<1> QED BY <1>2, <1>3

(* A signed integer is decoded from the bytes seen, and no others.         *)
LEMMA DecodeIntBounded ==
    ASSUME NEW view \in Seq(Byte), Len(view) > 0
    PROVE  LET r == DecodeInt(view)
           IN  /\ r.used \in 0 .. Len(view) /\ r.ok \in BOOLEAN
               /\ r.ok => r.used > 0
<1>1. CASE view[1] \in SmallUint
  <2>1. DecodeInt(view) = Got(view[1], 1)
    BY <1>1, Zenon DEF DecodeInt
  <2> QED BY <2>1 DEF Got
<1>2. CASE view[1] \notin SmallUint /\ view[1] \in SmallNeg
  <2>1. DecodeInt(view) = Got(-(view[1] - SmallNegMin + 1), 1)
    BY <1>2, Zenon DEF DecodeInt
  <2> QED BY <2>1 DEF Got
<1>3. CASE view[1] \notin SmallUint /\ view[1] \notin SmallNeg /\ view[1] \in IntPayload
  <2>1. DecodeInt(view) = WholePayload(view, SignedPayload(view))
    BY <1>3, Zenon DEF DecodeInt
  <2>2. /\ SignedPayload(view).used \in {0, 1 + PayloadWidth(view[1])}
        /\ SignedPayload(view).ok => SignedPayload(view).used = 1 + PayloadWidth(view[1])
    BY DEF SignedPayload, Got, Failed
  <2>3. SignedPayload(view).ok \in BOOLEAN
    BY DEF SignedPayload, Got, Failed
  <2>4. PayloadWidth(view[1]) \in 1 .. 8
    BY WholePayloadBounded
  <2>5. CASE Len(view) >= 1 + PayloadWidth(view[1])
    <3>1. DecodeInt(view) = SignedPayload(view)
      BY <2>1, <2>5 DEF WholePayload
    <3> QED BY <2>2, <2>3, <2>4, <2>5, <3>1
  <2>6. CASE ~(Len(view) >= 1 + PayloadWidth(view[1]))
    <3>1. DecodeInt(view) = Failed("truncated", "raw_bytes", 0)
      BY <2>1, <2>6 DEF WholePayload
    <3> QED BY <3>1 DEF Failed
  <2> QED BY <2>5, <2>6
<1>4. CASE view[1] \notin SmallUint /\ view[1] \notin SmallNeg /\ view[1] \notin IntPayload
  <2>1. DecodeInt(view) = Failed("invalid_header", "header", 0)
    BY <1>4, Zenon DEF DecodeInt
  <2> QED BY <2>1 DEF Failed
<1> QED BY <1>1, <1>2, <1>3, <1>4

(* read_int consumes an integer whole or not at all.                       *)
LEMMA ReadIntBounded ==
    ASSUME NEW data \in Seq(Byte), NEW p \in 0 .. Len(data)
    PROVE  LET r == ReadInt(data, p)
           IN  Bounded(r, data, p) /\ (r.ok => r.used > 0)
<1> DEFINE view == Peek(data, p, 9)
<1>1. view \in Seq(Byte) /\ Len(view) <= Len(data) - p
  <2>1. view \in Seq(Byte) /\ Len(view) = Smaller(9, Len(data) - p)
    BY PeekLength
  <2>2. Smaller(9, Len(data) - p) <= Len(data) - p
    BY DEF Smaller
  <2> QED BY <2>1, <2>2
<1>2. CASE view = <<>>
  BY <1>2 DEF ReadInt, Bounded, Failed
<1>3. CASE view # <<>>
  <2>1. Len(view) > 0 /\ ReadInt(data, p) = DecodeInt(view)
    BY <1>1, <1>3 DEF ReadInt
  <2> QED BY <1>1, <2>1, DecodeIntBounded DEF Bounded
<1> QED BY <1>2, <1>3

(* A header that is not one of those accepted has still been consumed.     *)
LEMMA ReadHeaderBounded ==
    ASSUME NEW data \in Seq(Byte), NEW p \in 0 .. Len(data), NEW accepted
    PROVE  LET r == ReadHeader(data, p, accepted)
           IN  /\ Bounded(r, data, p)
               /\ r.ok \in BOOLEAN
               /\ r.ok => r.used = 1 /\ r.value \in Byte /\ r.value \in accepted
<1> DEFINE b == ReadByte(data, p)
<1>1. /\ Bounded(b, data, p)
      /\ b.ok \in BOOLEAN
      /\ b.ok => b.used = 1 /\ b.value \in Byte
  BY ReadByteBounded
<1>2. CASE b.ok /\ b.value \notin accepted
  <2>1. ReadHeader(data, p, accepted) = Failed("invalid_header", "header", 1)
    BY <1>2 DEF ReadHeader
  <2> QED BY <1>1, <1>2, <2>1 DEF Bounded, Failed
<1>3. CASE ~(b.ok /\ b.value \notin accepted)
  <2>1. ReadHeader(data, p, accepted) = b
    BY <1>3 DEF ReadHeader
  <2> QED BY <1>1, <1>3, <2>1
<1> QED BY <1>2, <1>3

(* read_bool consumes one byte, also one that it refuses.                  *)
LEMMA ReadBoolBounded ==
    ASSUME NEW data \in Seq(Byte), NEW p \in 0 .. Len(data)
    PROVE  LET r == ReadBool(data, p)
           IN  Bounded(r, data, p) /\ (r.ok => r.used > 0)
BY ReadHeaderBounded DEF ReadBool, Bounded, Got

(* Only the payload that is there is consumed.                             *)
LEMMA ReadRawBounded ==
    ASSUME NEW data \in Seq(Byte), NEW p \in 0 .. Len(data), NEW n \in Nat
    PROVE  LET r == ReadRaw(data, p, n)
           IN  /\ Bounded(r, data, p)
               /\ r.ok \in BOOLEAN
               /\ r.ok => r.used = n
<1> DEFINE view == Peek(data, p, n)
<1>1. view \in Seq(Byte) /\ Len(view) = Smaller(n, Len(data) - p)
  BY PeekLength
<1>2. CASE Len(view) = n
  <2>1. ReadRaw(data, p, n) = Got(view, n)
    BY <1>2 DEF ReadRaw
  <2>2. n <= Len(data) - p
    BY <1>1, <1>2 DEF Smaller
  <2> QED BY <2>1, <2>2 DEF Bounded, Got
<1>3. CASE Len(view) # n
  <2>1. ReadRaw(data, p, n) = Failed("truncated", "raw_bytes", 0)
    BY <1>3 DEF ReadRaw
  <2> QED BY <2>1 DEF Bounded, Failed
<1> QED BY <1>2, <1>3

(* read_float consumes its header, and its bits only if all are there.     *)
LEMMA ReadFloatBounded ==
    ASSUME NEW data \in Seq(Byte), NEW p \in 0 .. Len(data),
           NEW header, NEW width \in Nat
    PROVE  LET r == ReadFloat(data, p, header, width)
           IN  Bounded(r, data, p) /\ (r.ok => r.used > 0)
<1> DEFINE r    == ReadHeader(data, p, {header})
           bits == ReadRaw(data, p + 1, width)
<1>1. Bounded(r, data, p) /\ r.ok \in BOOLEAN /\ (r.ok => r.used = 1)
  BY ReadHeaderBounded
<1>2. CASE r.ok
  <2>1. p + 1 \in 0 .. Len(data)
    BY <1>1, <1>2 DEF Bounded
  <2>2. Bounded(bits, data, p + 1)
    BY <2>1, ReadRawBounded
  <2>3. ReadFloat(data, p, header, width) = [bits EXCEPT !.used = 1 + @]
    BY <1>2 DEF ReadFloat
  <2>4. [bits EXCEPT !.used = 1 + @].used = 1 + bits.used
    BY DEF ReadRaw, Got, Failed
  <2> QED BY <2>1, <2>2, <2>3, <2>4 DEF Bounded
<1>3. CASE ~r.ok
  BY <1>1, <1>3 DEF ReadFloat
<1> QED BY <1>1, <1>2, <1>3

(* The size of a sized value is in its header or in the integer behind it. *)
LEMMA ReadSizeTailBounded ==
    ASSUME NEW data \in Seq(Byte), NEW p \in 0 .. Len(data),
           NEW kind \in SizedKind, NEW header \in Byte, IsSizedHeader(header, kind)
    PROVE  LET r == ReadSizeTail(data, p, header, kind)
           IN  /\ Bounded(r, data, p)
               /\ r.ok \in BOOLEAN
               /\ r.ok => r.value \in Nat
               /\ [r EXCEPT !.used = 1 + @].used = 1 + r.used
               /\ [r EXCEPT !.used = 1 + @].ok = r.ok
               /\ [r EXCEPT !.used = 1 + @].value = r.value
<1> DEFINE low == header - SizeBase[kind]
<1>1. low \in Nat
  BY DEF IsSizedHeader, SizeBase, SizedKind, Byte
<1>2. CASE low < SizedExtended
  <2>1. ReadSizeTail(data, p, header, kind) = Got(low, 0)
    BY <1>2 DEF ReadSizeTail
  <2> QED BY <1>1, <2>1 DEF Bounded, Got
<1>3. CASE ~(low < SizedExtended)
  <2>1. ReadSizeTail(data, p, header, kind) = ReadUint(data, p)
    BY <1>3 DEF ReadSizeTail
  <2>2. \E a, b, c, d, e : ReadUint(data, p) =
            [ok |-> a, value |-> b, used |-> c, code |-> d, stage |-> e]
    BY DEF ReadUint, DecodeUint, WholePayload, Got, Failed
  <2> QED BY <2>1, <2>2, ReadUintBounded
<1> QED BY <1>2, <1>3

(* A size header is at least one byte and gives a natural number.          *)
LEMMA ReadSizeHeaderBounded ==
    ASSUME NEW data \in Seq(Byte), NEW p \in 0 .. Len(data), NEW kind \in SizedKind
    PROVE  LET r == ReadSizeHeader(data, p, kind)
           IN  /\ Bounded(r, data, p)
               /\ r.ok \in BOOLEAN
               /\ r.ok => r.used > 0 /\ r.value \in Nat
<1> DEFINE r    == ReadHeader(data, p, SizeBase[kind] .. SizeBase[kind] + SizedExtended)
           tail == ReadSizeTail(data, p + 1, r.value, kind)
<1>1. /\ Bounded(r, data, p)
      /\ r.ok \in BOOLEAN
      /\ r.ok => /\ r.used = 1 /\ r.value \in Byte
                 /\ r.value \in SizeBase[kind] .. SizeBase[kind] + SizedExtended
  BY ReadHeaderBounded
<1> HIDE DEF r
<1>2. CASE r.ok
  <2>1. p + 1 \in 0 .. Len(data)
    BY <1>1, <1>2 DEF Bounded
  <2>2. IsSizedHeader(r.value, kind)
    BY <1>1, <1>2 DEF IsSizedHeader
  <2>3. /\ Bounded(tail, data, p + 1) /\ tail.ok \in BOOLEAN
        /\ tail.ok => tail.value \in Nat
        /\ [tail EXCEPT !.used = 1 + @].used = 1 + tail.used
        /\ [tail EXCEPT !.used = 1 + @].ok = tail.ok
        /\ [tail EXCEPT !.used = 1 + @].value = tail.value
    BY <1>1, <1>2, <2>1, <2>2, ReadSizeTailBounded
  <2>4. ReadSizeHeader(data, p, kind) = [tail EXCEPT !.used = 1 + @]
    BY <1>2 DEF ReadSizeHeader, r
  <2> HIDE DEF tail
  <2> QED BY <2>1, <2>3, <2>4 DEF Bounded
<1>3. CASE ~r.ok
  <2>1. ReadSizeHeader(data, p, kind) = r
    BY <1>3 DEF ReadSizeHeader, r
  <2> QED BY <1>1, <1>3, <2>1
<1> QED BY <1>1, <1>2, <1>3

-----------------------------------------------------------------------------
(* The calls in progress: typed, operator>> outermost, parts still owed.   *)
Nested(s) ==
    /\ IsSeq(s)
    /\ \A i \in 1 .. Len(s) :
          /\ FrameOK(s[i])
          /\ s[i].op = "root" <=> i = Len(s)
          /\ i > 1 => MayCall(s[i], s[i - 1])

(* A call made by the innermost one nests under it.                        *)
LEMMA PushNested ==
    ASSUME NEW s, Nested(s), s # <<>>,
           NEW f, FrameOK(f), f.op # "root", MayCall(Head(s), f)
    PROVE  Nested(<<f>> \o s) /\ Len(<<f>> \o s) = Len(s) + 1
<1> DEFINE t == <<f>> \o s
<1>1. /\ IsSeq(t) /\ Len(t) = Len(s) + 1 /\ t[1] = f
      /\ \A i \in 1 .. Len(s) : t[i + 1] = s[i]
      /\ Len(s) \in Nat \ {0} /\ Head(s) = s[1]
  BY PushSeq, PopSeq DEF Nested
<1> HIDE DEF t
<1>2. ASSUME NEW i \in 1 .. Len(t)
      PROVE  /\ FrameOK(t[i])
             /\ t[i].op = "root" <=> i = Len(t)
             /\ i > 1 => MayCall(t[i], t[i - 1])
  <2>1. CASE i = 1
    BY <1>1, <2>1
  <2>2. CASE i = 2
    <3>1. t[i] = s[1]
      BY <1>1, <2>2
    <3> QED BY <1>1, <2>2, <3>1 DEF Nested
  <2>3. CASE i > 2
    <3>1. i - 1 \in 1 .. Len(s) /\ i - 2 \in 1 .. Len(s) /\ i - 1 > 1
          /\ (i - 1) + 1 = i /\ (i - 2) + 1 = i - 1 /\ (i - 1) - 1 = i - 2
      BY <1>1, <2>3
    <3>2. t[(i - 1) + 1] = s[i - 1] /\ t[(i - 2) + 1] = s[i - 2]
      BY <1>1, <3>1
    <3>3. t[i] = s[i - 1] /\ t[i - 1] = s[i - 2]
      BY <3>1, <3>2
    <3>4. MayCall(s[i - 1], s[i - 2])
      <4>1. \A j \in 1 .. Len(s) : j > 1 => MayCall(s[j], s[j - 1])
        BY DEF Nested
      <4>2. MayCall(s[i - 1], s[(i - 1) - 1])
        BY <3>1, <4>1
      <4> QED BY <3>1, <4>2
    <3> QED BY <1>1, <2>3, <3>1, <3>3, <3>4 DEF Nested
  <2> QED BY <1>1, <2>1, <2>2, <2>3
<1> QED BY <1>1, <1>2 DEF Nested, t

(* The innermost call may change its state, but not its kind.              *)
LEMMA ReplaceNested ==
    ASSUME NEW s, Nested(s), s # <<>>,
           NEW f, FrameOK(f), f.op = Head(s).op
    PROVE  Nested(<<f>> \o Tail(s)) /\ Len(<<f>> \o Tail(s)) = Len(s)
<1> DEFINE u == Tail(s)
           t == <<f>> \o u
<1>1. /\ IsSeq(u) /\ Len(s) \in Nat \ {0} /\ Len(u) = Len(s) - 1
      /\ Head(s) = s[1]
      /\ \A i \in 1 .. Len(s) - 1 : u[i] = s[i + 1]
  BY PopSeq DEF Nested
<1> HIDE DEF u
<1>2. /\ IsSeq(t) /\ Len(t) = Len(u) + 1 /\ t[1] = f
      /\ \A i \in 1 .. Len(u) : t[i + 1] = u[i]
  BY <1>1, PushSeq
<1> HIDE DEF t
<1>3. ASSUME NEW i \in 1 .. Len(t)
      PROVE  /\ FrameOK(t[i])
             /\ t[i].op = "root" <=> i = Len(t)
             /\ i > 1 => MayCall(t[i], t[i - 1])
  <2>1. CASE i = 1
    BY <1>1, <1>2, <2>1 DEF Nested
  <2>2. CASE i > 1
    <3>1. i - 1 \in 1 .. Len(u) /\ (i - 1) + 1 = i
      BY <1>1, <1>2, <2>2
    <3>2. t[(i - 1) + 1] = u[i - 1] /\ u[i - 1] = s[(i - 1) + 1]
      BY <1>1, <1>2, <3>1
    <3>3. t[i] = s[i] /\ i \in 1 .. Len(s) /\ i - 1 \in 1 .. Len(s)
      BY <1>1, <1>2, <3>1, <3>2
    <3>4. MayCall(s[i], s[i - 1])
      BY <2>2, <3>3 DEF Nested
    <3>5. t[i - 1].op = s[i - 1].op
      <4>1. CASE i = 2
        BY <1>1, <1>2, <4>1
      <4>2. CASE i > 2
        <5>1. i - 2 \in 1 .. Len(u) /\ (i - 2) + 1 = i - 1
          BY <1>1, <1>2, <4>2
        <5>2. t[(i - 2) + 1] = u[i - 2] /\ u[i - 2] = s[(i - 2) + 1]
          BY <1>1, <1>2, <5>1
        <5> QED BY <5>1, <5>2
      <4> QED BY <2>2, <4>1, <4>2
    <3> QED BY <1>1, <1>2, <2>2, <3>3, <3>4, <3>5 DEF Nested, MayCall
  <2> QED BY <1>2, <2>1, <2>2
<1>4. Nested(t) /\ Len(t) = Len(s)
  BY <1>1, <1>2, <1>3 DEF Nested
<1> QED BY <1>4 DEF t, u

(* Any call but operator>> has a caller, and that one nests without it.    *)
LEMMA PopNested ==
    ASSUME NEW s, Nested(s), s # <<>>, Head(s).op # "root"
    PROVE  /\ Nested(Tail(s)) /\ Tail(s) # <<>> /\ Len(Tail(s)) = Len(s) - 1
           /\ MayCall(Head(Tail(s)), Head(s)) /\ FrameOK(Head(Tail(s)))
<1> DEFINE u == Tail(s)
<1>1. /\ IsSeq(u) /\ Len(s) \in Nat \ {0} /\ Len(u) = Len(s) - 1
      /\ Head(s) = s[1]
      /\ \A i \in 1 .. Len(s) - 1 : u[i] = s[i + 1]
  BY PopSeq DEF Nested
<1>2. Len(s) > 1
  <2>1. s[1].op # "root"
    BY <1>1
  <2>2. 1 \in 1 .. Len(s)
    BY <1>1
  <2>3. s[1].op = "root" <=> 1 = Len(s)
    BY <2>2 DEF Nested
  <2> QED BY <1>1, <2>1, <2>3
<1> HIDE DEF u
<1>3. u # <<>>
  BY <1>1, <1>2
<1>4. Head(u) = u[1] /\ u[1] = s[2]
  BY <1>1, <1>2, <1>3, PopSeq
<1>5. ASSUME NEW i \in 1 .. Len(u)
      PROVE  /\ FrameOK(u[i])
             /\ u[i].op = "root" <=> i = Len(u)
             /\ i > 1 => MayCall(u[i], u[i - 1])
  <2>1. i + 1 \in 1 .. Len(s) /\ u[i] = s[i + 1] /\ (i + 1) - 1 = i
    BY <1>1
  <2>2. i > 1 => u[i - 1] = s[i]
    <3> SUFFICES ASSUME i > 1 PROVE u[i - 1] = s[i]
      OBVIOUS
    <3>1. i - 1 \in 1 .. Len(s) - 1 /\ (i - 1) + 1 = i
      BY <1>1
    <3>2. u[i - 1] = s[(i - 1) + 1]
      BY <1>1, <3>1
    <3> QED BY <3>1, <3>2
  <2>3. MayCall(s[i + 1], s[i])
    <3>1. \A j \in 1 .. Len(s) : j > 1 => MayCall(s[j], s[j - 1])
      BY DEF Nested
    <3>2. MayCall(s[i + 1], s[(i + 1) - 1])
      BY <2>1, <3>1
    <3> QED BY <2>1, <3>2
  <2> QED BY <1>1, <2>1, <2>2, <2>3 DEF Nested
<1>6. MayCall(s[2], s[1]) /\ FrameOK(s[2])
  BY <1>1, <1>2 DEF Nested
<1> QED BY <1>1, <1>3, <1>4, <1>5, <1>6 DEF Nested, u

-----------------------------------------------------------------------------
(* Frames.                                                                 *)

(* A frame starts out with all its parts owed.                             *)
LEMMA FrameType ==
    ASSUME NEW op \in Op, NEW shape, NEW count \in Nat, NEW val
    PROVE  FrameOK(Frame(op, shape, count, val)) /\ Frame(op, shape, count, val).op = op
BY DEF FrameOK, Frame

(* A codec that stored a part owes one less, or has its map key pending.   *)
LEMMA DeliveredType ==
    ASSUME NEW f, FrameOK(f), f.left > 0, f.op \notin SkipOp, NEW v
    PROVE  FrameOK(Delivered(f, v)) /\ Delivered(f, v).op = f.op
<1> DEFINE g == [f EXCEPT !.present = FALSE]
           n == g.left - 1
<1>1. FrameOK(g) /\ g.op = f.op /\ g.left = f.left /\ g.count = f.count
  BY DEF FrameOK
<1>2. f.op \in {"root", "object", "vector", "map", "variant"} \cup InPlaceOp
  BY DEF FrameOK, Op, ValueOp
<1>3. n \in Nat /\ n <= g.count /\ 0 <= g.count
  BY <1>1 DEF FrameOK
<1> HIDE DEF g, n
<1>4. ASSUME NEW w, NEW h, h = [g EXCEPT !.val = w, !.left = n]
      PROVE  FrameOK(h) /\ h.op = g.op
  BY <1>1, <1>3, <1>4 DEF FrameOK
<1>9. CASE f.op = "root"
  <2>1. Delivered(f, v) = [g EXCEPT !.val = v, !.left = 0]
    BY <1>9 DEF Delivered, g, InPlaceOp
  <2>2. ASSUME NEW h, h = [g EXCEPT !.val = v, !.left = 0]
        PROVE  FrameOK(h) /\ h.op = g.op
    BY <1>1, <1>3, <2>2 DEF FrameOK
  <2> QED BY <1>1, <2>1, <2>2
<1>5. CASE f.op = "object"
  <2>1. Delivered(f, v) =
            [g EXCEPT !.val[f.field] = v, !.field = 0, !.left = @ - 1]
    BY <1>5 DEF Delivered, g, InPlaceOp
  <2>2. Delivered(f, v) =
            [g EXCEPT !.val = [g.val EXCEPT ![f.field] = v], !.field = 0, !.left = n]
    BY <1>1, <2>1 DEF FrameOK, n
  <2>3. ASSUME NEW w, NEW h, h = [g EXCEPT !.val = w, !.field = 0, !.left = n]
        PROVE  FrameOK(h) /\ h.op = g.op
    <3>1. PICK k : k = [g EXCEPT !.field = 0]
      OBVIOUS
    <3>2. FrameOK(k) /\ k.op = g.op /\ k.count = g.count
      BY <1>1, <3>1 DEF FrameOK
    <3>3. h = [k EXCEPT !.val = w, !.left = n]
      BY <1>1, <2>3, <3>1 DEF FrameOK
    <3> QED BY <1>3, <3>2, <3>3 DEF FrameOK
  <2> QED BY <1>1, <2>2, <2>3
<1>6. CASE f.op = "vector"
  <2>1. Delivered(f, v) = [g EXCEPT !.val = Append(g.val, v), !.left = n]
    BY <1>6 DEF Delivered, g, n, InPlaceOp
  <2> QED BY <1>1, <1>4, <2>1
<1>10. CASE f.op \in InPlaceOp
  <2>1. /\ f.op # "root" /\ f.op # "object" /\ f.op # "vector"
        /\ f.op # "variant" /\ f.op # "map" /\ f.op \in InPlaceOp
    BY <1>10 DEF InPlaceOp
  <2>2. Delivered(f, v) = [g EXCEPT !.val[Item(f)] = v, !.left = @ - 1]
    BY <2>1, Zenon DEF Delivered, g
  <2>3. Delivered(f, v) =
            [g EXCEPT !.val = [g.val EXCEPT ![Item(f)] = v], !.left = n]
    BY <1>1, <2>2 DEF FrameOK, n
  <2> QED BY <1>1, <1>4, <2>3
<1>11. CASE f.op = "variant" /\ f.key = Null
  <2>1. Delivered(f, v) = [g EXCEPT !.key = v, !.left = n]
    BY <1>11 DEF Delivered, g, n, InPlaceOp
  <2>2. PICK k : k = [g EXCEPT !.key = v]
    OBVIOUS
  <2>3. FrameOK(k) /\ k.op = g.op /\ k.count = g.count
    BY <1>1, <2>2 DEF FrameOK
  <2>4. Delivered(f, v) = [k EXCEPT !.left = n]
    BY <1>1, <2>1, <2>2 DEF FrameOK
  <2> QED BY <1>1, <1>3, <2>3, <2>4 DEF FrameOK
<1>12. CASE f.op = "variant" /\ f.key # Null
  <2>1. Delivered(f, v) = [g EXCEPT !.val = <<f.key + 1, v>>, !.left = n]
    BY <1>12 DEF Delivered, g, n, InPlaceOp
  <2> QED BY <1>1, <1>4, <2>1
<1>7. CASE f.op = "map" /\ f.key = Null
  <2>1. Delivered(f, v) = [g EXCEPT !.key = v]
    BY <1>7 DEF Delivered, g, InPlaceOp
  <2> QED BY <1>1, <2>1 DEF FrameOK
<1>8. CASE f.op = "map" /\ f.key # Null
  <2>1. \E w : Delivered(f, v) = [g EXCEPT !.key = Null, !.left = n, !.val = w]
    BY <1>8 DEF Delivered, g, n, InPlaceOp
  <2>2. ASSUME NEW w, NEW h, h = [g EXCEPT !.key = Null, !.left = n, !.val = w]
        PROVE  FrameOK(h) /\ h.op = g.op
    <3>1. PICK k : k = [g EXCEPT !.key = Null]
      OBVIOUS
    <3>2. FrameOK(k) /\ k.op = g.op /\ k.count = g.count
      BY <1>1, <3>1 DEF FrameOK
    <3>3. h = [k EXCEPT !.val = w, !.left = n]
      BY <1>1, <2>2, <3>1 DEF FrameOK
    <3> QED BY <1>3, <3>2, <3>3 DEF FrameOK
  <2> QED BY <1>1, <2>1, <2>2
<1> QED BY <1>2, <1>5, <1>6, <1>7, <1>8, <1>9, <1>10, <1>11, <1>12

(* What a failed codec leaves in its caller's storage changes no call.     *)
LEMMA SpilledType ==
    ASSUME NEW f, FrameOK(f), NEW v
    PROVE  FrameOK(Spilled(f, v)) /\ Spilled(f, v).op = f.op
<1>1. \/ Spilled(f, v) = f
      \/ Spilled(f, v) = [f EXCEPT !.val = v]
      \/ Spilled(f, v) = [f EXCEPT !.val[f.field] = v]
      \/ Spilled(f, v) = [f EXCEPT !.val[Item(f)] = v]
  BY Zenon DEF Spilled
<1> QED BY <1>1 DEF FrameOK

-----------------------------------------------------------------------------
(* The inductive invariant.                                                *)

Ended == {"idle", "ok", "error"}

IInv ==
    /\ input \in Seq(Byte)
    /\ pos \in 0 .. Len(input)
    /\ Nested(stack)
    /\ stack = <<>> <=> status \in Ended
    /\ status \in {"reading", "failing"} \cup Ended
    /\ reads \in 0 .. MaxReads
    /\ Len(stack) <= pos + 1

(* The outcomes the codecs share each preserve it.                         *)
LEMMA FailInv ==
    ASSUME IInv, status = "reading", NEW r, Bounded(r, input, pos), Fail(r),
           UNCHANGED <<input, object, reads>>
    PROVE  IInv'
<1>1. pos' = pos + r.used /\ stack' = stack /\ status' = "failing"
  BY DEF Fail, Raise
<1>2. Len(stack) \in Nat
  BY DEF IInv, Nested, IsSeq
<1> QED BY <1>1, <1>2 DEF IInv, Bounded, Ended, Nested

(* A value handed to the innermost of the remaining calls.                 *)
LEMMA StoreInv ==
    ASSUME IInv, status = "reading",
           NEW calls, Nested(calls), calls # <<>>,
           Head(calls).left > 0, Head(calls).op \notin SkipOp,
           NEW v, NEW at \in pos .. Len(input), Len(calls) <= at + 1,
           Store(calls, v, at), UNCHANGED <<input, object, reads>>
    PROVE  IInv'
<1>1. FrameOK(Head(calls)) /\ calls \in Seq({calls[i] : i \in DOMAIN calls})
  <2>1. Head(calls) = calls[1] /\ Len(calls) \in Nat \ {0}
    BY PopSeq DEF Nested
  <2> QED BY <2>1 DEF Nested, IsSeq
<1>2. pos' = at /\ input' = input /\ reads' = reads /\ at \in 0 .. Len(input)
  BY DEF Store, IInv
<1>3. CASE DuplicateKey(Head(calls))
  <2>1. stack' = calls /\ status' = "failing"
    BY <1>3 DEF Store, Raise
  <2> QED BY <1>2, <2>1 DEF IInv, Ended
<1>5. CASE ~DuplicateKey(Head(calls)) /\ NoAlternative(Head(calls), v)
  <2>1. stack' = calls /\ status' = "failing"
    BY <1>5 DEF Store, Raise
  <2> QED BY <1>2, <2>1 DEF IInv, Ended
<1>4. CASE ~DuplicateKey(Head(calls)) /\ ~NoAlternative(Head(calls), v)
  <2> DEFINE g == Delivered(Head(calls), v)
  <2>1. stack' = <<g>> \o Tail(calls) /\ status' = status
    BY <1>4 DEF Store
  <2>2. FrameOK(g) /\ g.op = Head(calls).op
    BY <1>1, DeliveredType
  <2>3. Nested(stack') /\ Len(stack') = Len(calls)
    BY <2>1, <2>2, ReplaceNested
  <2>4. stack' # <<>>
    <3>1. Len(calls) \in Nat \ {0}
      BY PopSeq DEF Nested
    <3> QED BY <2>3, <3>1
  <2> QED BY <1>2, <2>1, <2>3, <2>4 DEF IInv, Ended
<1> QED BY <1>3, <1>4, <1>5

(* A codec that consumed its header calls for its parts.                   *)
LEMMA CallInv ==
    ASSUME IInv, status = "reading",
           NEW f, FrameOK(f), f.op # "root", MayCall(Head(stack), f),
           NEW at \in pos + 1 .. Len(input),
           Call(f, at), UNCHANGED <<input, object, reads>>
    PROVE  IInv'
<1>1. stack # <<>>
  BY DEF IInv, Ended
<1>2. pos' = at /\ stack' = <<f>> \o stack /\ status' = status
  BY DEF Call
<1>3. Nested(stack') /\ Len(stack') = Len(stack) + 1
  BY <1>1, <1>2, PushNested DEF IInv
<1>4. Len(stack) \in Nat /\ pos \in Nat
  BY DEF IInv, Nested, IsSeq
<1>5. stack' # <<>>
  BY <1>3, <1>4
<1> QED BY <1>2, <1>3, <1>4, <1>5 DEF IInv, Ended

(* The innermost call is replaced by one that has done more.               *)
LEMMA ReplaceInv ==
    ASSUME IInv, status = "reading" \/ status = "failing",
           NEW f, FrameOK(f), f.op = Head(stack).op,
           stack' = <<f>> \o Tail(stack), pos' \in pos .. Len(input),
           status' \in {"reading", "failing"}, UNCHANGED <<input, reads>>
    PROVE  IInv'
<1>1. stack # <<>>
  BY DEF IInv, Ended
<1>2. Nested(stack') /\ Len(stack') = Len(stack)
  BY <1>1, ReplaceNested DEF IInv
<1>3. Len(stack) \in Nat \ {0}
  BY <1>1, PopSeq DEF IInv, Nested
<1>4. stack' # <<>>
  BY <1>2, <1>3
<1> QED BY <1>2, <1>3, <1>4 DEF IInv, Ended

(* The innermost call makes progress and calls another one.                *)
LEMMA PushOverInv ==
    ASSUME IInv, status = "reading",
           NEW g, FrameOK(g), g.op = Head(stack).op,
           NEW k, FrameOK(k), k.op # "root", MayCall(g, k),
           stack' = <<k>> \o (<<g>> \o Tail(stack)),
           pos' \in pos + 1 .. Len(input), status' = "reading",
           UNCHANGED <<input, reads>>
    PROVE  IInv'
<1> DEFINE mid == <<g>> \o Tail(stack)
<1>1. stack # <<>> /\ Nested(stack) /\ Len(stack) <= pos + 1 /\ pos \in 0 .. Len(input)
  BY DEF IInv, Ended
<1>2. Nested(mid) /\ Len(mid) = Len(stack)
  BY <1>1, ReplaceNested
<1>3. IsSeq(Tail(stack)) /\ Len(stack) \in Nat \ {0}
  BY <1>1, PopSeq DEF Nested
<1>4. IsSeq(mid) /\ mid[1] = g
  BY <1>3, PushSeq
<1> HIDE DEF mid
<1>5. mid # <<>>
  BY <1>2, <1>3
<1>6. MayCall(Head(mid), k)
  BY <1>4, <1>5, PopSeq
<1>7. stack' = <<k>> \o mid
  BY DEF mid
<1>8. Nested(stack') /\ Len(stack') = Len(mid) + 1
  BY <1>2, <1>5, <1>6, <1>7, PushNested
<1>9. Len(stack') <= pos' + 1 /\ pos' \in 0 .. Len(input') /\ stack' # <<>>
  BY <1>1, <1>2, <1>3, <1>8
<1> QED BY <1>8, <1>9 DEF IInv, Ended

(* The innermost call returns, and its caller is annotated or updated.     *)
LEMMA PopInv ==
    ASSUME IInv, status \in {"reading", "failing"}, Head(stack).op # "root",
           NEW f, FrameOK(f), f.op = Head(Tail(stack)).op,
           stack' = <<f>> \o Tail(Tail(stack)),
           UNCHANGED <<input, pos, status, reads>>
    PROVE  IInv'
<1>1. stack # <<>>
  BY DEF IInv, Ended
<1>2. /\ Nested(Tail(stack)) /\ Tail(stack) # <<>>
      /\ Len(Tail(stack)) = Len(stack) - 1
  BY <1>1, PopNested DEF IInv
<1>3. Nested(stack') /\ Len(stack') = Len(Tail(stack))
  BY <1>2, ReplaceNested
<1>4. Len(stack) \in Nat /\ Len(Tail(stack)) \in Nat \ {0}
  BY <1>2, PopSeq DEF IInv, Nested, IsSeq
<1>5. stack' # <<>>
  BY <1>3, <1>4
<1> QED BY <1>2, <1>3, <1>4, <1>5 DEF IInv, Ended

-----------------------------------------------------------------------------
(* Every action preserves the invariant.                                   *)

(* During a read there is an innermost call, and it is a frame.            *)
LEMMA HeadType ==
    ASSUME IInv, status \notin Ended
    PROVE  /\ stack # <<>> /\ Len(stack) \in Nat \ {0}
           /\ Nested(stack) /\ FrameOK(Head(stack))
           /\ input \in Seq(Byte) /\ pos \in 0 .. Len(input)
           /\ Len(stack) <= pos + 1
<1>1. stack # <<>> /\ Nested(stack)
  BY DEF IInv
<1>2. Head(stack) = stack[1] /\ Len(stack) \in Nat \ {0}
  BY <1>1, PopSeq DEF Nested
<1> QED BY <1>1, <1>2 DEF IInv, Nested

(* A codec that awaits a value owes a part and is not skip_reader.         *)
LEMMA ReadingOwes ==
    ASSUME IInv, NEW kinds, Reading(kinds)
    PROVE  /\ status = "reading" /\ Head(stack).left > 0
           /\ Head(stack).op \notin SkipOp
           /\ \A f : MayCall(Head(stack), f)
BY DEF Reading, AwaitsValue, SkipOp, MayCall, InPlaceOp

(* operator>> is called: a single frame, nothing consumed.                 *)
LEMMA BeginReadInv == IInv /\ BeginRead => IInv'
<1> SUFFICES ASSUME IInv, BeginRead PROVE IInv'
  OBVIOUS
<1> DEFINE f == Frame("root", Object(RootType), 1, object)
<1>1. FrameOK(f) /\ f.op = "root"
  BY FrameType DEF Op, ValueOp
<1>2. stack' = <<f>> /\ status' = "reading" /\ reads' = reads + 1 /\ reads < MaxReads
      /\ pos' = pos /\ input' = input
  BY DEF BeginRead
<1> HIDE DEF f
<1>3. Len(stack') = 1 /\ stack'[1] = f /\ stack' \in Seq({stack'[i] : i \in DOMAIN stack'})
  BY <1>2
<1>4. Nested(stack')
  BY <1>1, <1>3 DEF Nested, IsSeq
<1>5. reads' \in 0 .. MaxReads
  BY <1>2, MaxReadsAssumption DEF IInv
<1>6. stack' # <<>>
  BY <1>2
<1>7. Len(stack') <= pos' + 1 /\ pos' \in 0 .. Len(input') /\ input' \in Seq(Byte)
  BY <1>2, <1>3 DEF IInv
<1> QED BY <1>2, <1>4, <1>5, <1>6, <1>7 DEF IInv, Ended

(* A scalar is decoded from bytes the window has.                          *)
LEMMA DecodeScalarBounded ==
    ASSUME IInv, NEW shape, shape.kind \in ScalarKind
    PROVE  LET r == DecodeScalar(shape)
           IN  Bounded(r, input, pos) /\ (r.ok => r.used > 0)
<1>1. input \in Seq(Byte) /\ pos \in 0 .. Len(input)
  BY DEF IInv
<1>2. /\ Bounded(DecodeWire(shape), input, pos)
      /\ DecodeWire(shape).ok => DecodeWire(shape).used > 0
  <2>1. CASE shape.kind = "uint"
    BY <1>1, <2>1, ReadUintBounded DEF DecodeWire
  <2>2. CASE shape.kind = "int"
    BY <1>1, <2>2, ReadIntBounded DEF DecodeWire
  <2>3. CASE shape.kind = "bool"
    BY <1>1, <2>3, ReadBoolBounded DEF DecodeWire
  <2>4. CASE shape.kind = "float32"
    BY <1>1, <2>4, ReadFloatBounded DEF DecodeWire
  <2> QED BY <2>1, <2>2, <2>3, <2>4 DEF ScalarKind
<1> QED BY <1>2 DEF DecodeScalar, Bounded, Failed

(* A scalar is stored, or its decoding fails.                              *)
LEMMA ReadScalarInv == IInv /\ ReadScalar => IInv'
<1> SUFFICES ASSUME IInv, ReadScalar PROVE IInv'
  OBVIOUS
<1> DEFINE r == DecodeScalar(Awaited(Head(stack)))
<1>1. /\ Reading(ScalarKind) /\ UNCHANGED <<input, object, reads>>
      /\ IF r.ok THEN Store(stack, r.value, pos + r.used) ELSE Fail(r)
  BY DEF ReadScalar
<1>2. Awaited(Head(stack)).kind \in ScalarKind
  BY <1>1 DEF Reading
<1>3. Bounded(r, input, pos)
  BY <1>2, DecodeScalarBounded
<1>4. /\ status = "reading" /\ Head(stack).left > 0 /\ Head(stack).op \notin SkipOp
  BY <1>1, ReadingOwes
<1>5. stack # <<>> /\ Nested(stack) /\ Len(stack) <= pos + 1
      /\ Len(stack) \in Nat /\ pos \in 0 .. Len(input) /\ input \in Seq(Byte)
  BY <1>4, HeadType DEF Ended
<1> HIDE DEF r
<1>6. CASE r.ok
  <2>1. pos + r.used \in pos .. Len(input) /\ Len(stack) <= pos + r.used + 1
    BY <1>3, <1>5 DEF Bounded
  <2> QED BY <1>1, <1>4, <1>5, <1>6, <2>1, StoreInv
<1>7. CASE ~r.ok
  BY <1>1, <1>3, <1>4, <1>7, FailInv
<1> QED BY <1>6, <1>7

(* A string is stored, or fails after its size header.                     *)
LEMMA ReadStringInv == IInv /\ ReadString => IInv'
<1> SUFFICES ASSUME IInv, ReadString PROVE IInv'
  OBVIOUS
<1> DEFINE f    == Head(stack)
           size == ReadSizeHeader(input, pos, "string")
           raw  == ReadRaw(input, pos + size.used, size.value)
           g    == Spilled(f, Resized(Storage(f), size.value))
<1>1. /\ Reading({"string"}) /\ UNCHANGED <<input, object, reads>>
      /\ IF ~size.ok THEN Fail(size)
         ELSE IF raw.ok THEN Store(stack, raw.value, pos + size.used + raw.used)
         ELSE /\ pos' = pos + size.used
              /\ stack' = <<g>> \o Tail(stack)
              /\ Raise(raw.code, raw.stage, pos')
  BY DEF ReadString
<1>2. /\ status = "reading" /\ Head(stack).left > 0 /\ Head(stack).op \notin SkipOp
  BY <1>1, ReadingOwes
<1>3. stack # <<>> /\ Nested(stack) /\ Len(stack) <= pos + 1 /\ FrameOK(f)
      /\ Len(stack) \in Nat /\ pos \in 0 .. Len(input) /\ input \in Seq(Byte)
  BY <1>2, HeadType DEF Ended
<1>4. /\ Bounded(size, input, pos) /\ size.ok \in BOOLEAN
      /\ size.ok => size.used > 0 /\ size.value \in Nat
  BY <1>3, ReadSizeHeaderBounded DEF SizedKind
<1>5. size.ok => Bounded(raw, input, pos + size.used)
  <2>1. pos + size.used \in 0 .. Len(input)
    BY <1>3, <1>4 DEF Bounded
  <2> QED BY <1>3, <1>4, <2>1, ReadRawBounded
<1>6. FrameOK(g) /\ g.op = f.op
  BY <1>3, SpilledType
<1> HIDE DEF f, g, size, raw
<1>7. CASE ~size.ok
  BY <1>1, <1>2, <1>4, <1>7, FailInv
<1>8. CASE size.ok /\ raw.ok
  <2>1. /\ pos + size.used + raw.used \in pos .. Len(input)
        /\ Len(stack) <= pos + size.used + raw.used + 1
    BY <1>3, <1>4, <1>5, <1>8 DEF Bounded
  <2> QED BY <1>1, <1>2, <1>3, <1>8, <2>1, StoreInv
<1>9. CASE size.ok /\ ~raw.ok
  <2>1. pos' \in pos .. Len(input)
    BY <1>1, <1>3, <1>4, <1>9 DEF Bounded
  <2>2. status' = "failing" /\ stack' = <<g>> \o Tail(stack)
    BY <1>1, <1>9 DEF Raise
  <2> QED BY <1>1, <1>2, <1>6, <2>1, <2>2, ReplaceInv DEF f
<1> QED BY <1>7, <1>8, <1>9

(* A null is stored; any other header is left to the next codec.           *)
LEMMA ReadOptionalInv == IInv /\ ReadOptional => IInv'
<1> SUFFICES ASSUME IInv, ReadOptional PROVE IInv'
  OBVIOUS
<1> DEFINE header == ReadByte(input, pos)
           g      == [Head(stack) EXCEPT !.present = TRUE]
<1>1. /\ Reading({"optional"}) /\ UNCHANGED <<input, object, reads>>
      /\ IF ~header.ok THEN Fail(header)
         ELSE IF header.value = NullHeader THEN Store(stack, Null, pos + 1)
         ELSE stack' = <<g>> \o Tail(stack) /\ UNCHANGED <<pos, status, error>>
  BY DEF ReadOptional
<1>2. /\ status = "reading" /\ Head(stack).left > 0 /\ Head(stack).op \notin SkipOp
  BY <1>1, ReadingOwes
<1>3. stack # <<>> /\ Nested(stack) /\ Len(stack) <= pos + 1 /\ FrameOK(Head(stack))
      /\ Len(stack) \in Nat /\ pos \in 0 .. Len(input) /\ input \in Seq(Byte)
  BY <1>2, HeadType DEF Ended
<1>4. Bounded(header, input, pos) /\ (header.ok => header.used = 1)
  BY <1>3, ReadByteBounded
<1>5. FrameOK(g) /\ g.op = Head(stack).op
  BY <1>3 DEF FrameOK
<1> HIDE DEF g, header
<1>6. CASE ~header.ok
  BY <1>1, <1>2, <1>4, <1>6, FailInv
<1>7. CASE header.ok /\ header.value = NullHeader
  <2>1. pos + 1 \in pos .. Len(input) /\ Len(stack) <= pos + 1 + 1
    BY <1>3, <1>4, <1>7 DEF Bounded
  <2> QED BY <1>1, <1>2, <1>3, <1>7, <2>1, StoreInv
<1>8. CASE header.ok /\ header.value # NullHeader
  BY <1>1, <1>2, <1>3, <1>5, <1>8, ReplaceInv
<1> QED BY <1>6, <1>7, <1>8

(* A container's frame is paid for by its size header.                     *)
LEMMA OpenContainerInv ==
    ASSUME IInv, NEW op \in {"vector", "map"}, NEW kinds, NEW wire \in SizedKind,
           OpenContainer(op, kinds, wire)
    PROVE  IInv'
<1> DEFINE size == ReadSizeHeader(input, pos, wire)
           r    == Failed("max_items_exceeded", wire, size.used)
           f    == Frame(op, Awaited(Head(stack)), size.value, <<>>)
<1>1. /\ Reading(kinds) /\ UNCHANGED <<input, object, reads>>
      /\ IF ~size.ok THEN Fail(size)
         ELSE IF Exceeds(Limit(Head(stack)), size.value) THEN Fail(r)
         ELSE Call(f, pos + size.used)
  BY DEF OpenContainer
<1>2. /\ status = "reading" /\ \A g : MayCall(Head(stack), g)
  BY <1>1, ReadingOwes
<1>3. pos \in 0 .. Len(input) /\ input \in Seq(Byte)
  BY <1>2, HeadType DEF Ended
<1>4. /\ Bounded(size, input, pos) /\ size.ok \in BOOLEAN
      /\ size.ok => size.used > 0 /\ size.value \in Nat
  BY <1>3, ReadSizeHeaderBounded
<1>5. Bounded(r, input, pos)
  BY <1>4 DEF Bounded, Failed
<1>6. size.ok => FrameOK(f) /\ f.op # "root"
  BY <1>4, FrameType DEF Op, ValueOp
<1> HIDE DEF size, r, f
<1>7. CASE ~size.ok
  BY <1>1, <1>2, <1>4, <1>7, FailInv
<1>8. CASE size.ok /\ Exceeds(Limit(Head(stack)), size.value)
  BY <1>1, <1>2, <1>5, <1>8, FailInv
<1>9. CASE size.ok /\ ~Exceeds(Limit(Head(stack)), size.value)
  <2>1. pos + size.used \in pos + 1 .. Len(input)
    BY <1>3, <1>4, <1>9 DEF Bounded
  <2> QED BY <1>1, <1>2, <1>6, <1>9, <2>1, CallInv
<1> QED BY <1>7, <1>8, <1>9

(* A size header that passed its checks gives a natural number; one that   *)
(* did not has consumed no more than the window has.                       *)
LEMMA FixedSizeBounded ==
    ASSUME NEW f, input \in Seq(Byte), pos \in 0 .. Len(input)
    PROVE  LET r == FixedSize(f)
           IN  /\ Bounded(r, input, pos)
               /\ r.ok \in BOOLEAN
               /\ r.ok => r.used > 0 /\ r.value \in Nat
<1> DEFINE shape == Awaited(f)
           stage == FixedStage[shape.kind]
           wire  == IF IsBlob(shape) THEN "bytes" ELSE "array"
           size  == ReadSizeHeader(input, pos, wire)
<1>1. /\ Bounded(size, input, pos) /\ size.ok \in BOOLEAN
      /\ size.ok => size.used > 0 /\ size.value \in Nat
  BY ReadSizeHeaderBounded DEF SizedKind
<1>2. \/ FixedSize(f) = size
      \/ \E code, n : n \in {0, size.used} /\ FixedSize(f) = Failed(code, stage, n)
  BY Zenon DEF FixedSize
<1> HIDE DEF size, stage
<1>3. CASE FixedSize(f) = size
  BY <1>1, <1>3
<1>4. ASSUME NEW code, NEW n \in {0, size.used}, FixedSize(f) = Failed(code, stage, n)
      PROVE  Bounded(FixedSize(f), input, pos) /\ FixedSize(f).ok = FALSE
  BY <1>1, <1>4 DEF Bounded, Failed
<1> QED BY <1>2, <1>3, <1>4

(* A blob is stored, or its bytes are missing behind its size header.      *)
LEMMA ReadBlobInv == IInv /\ ReadBlob => IInv'
<1> SUFFICES ASSUME IInv, ReadBlob PROVE IInv'
  OBVIOUS
<1> DEFINE f    == Head(stack)
           size == FixedSize(f)
           raw  == ReadRaw(input, pos + size.used, size.value)
           v    == BlobValue(Awaited(f), raw.value)
           g    == BlobSpilled(f)
<1>1. /\ Reading(FixedKind) /\ UNCHANGED <<input, object, reads>>
      /\ IF ~size.ok THEN Fail(size)
         ELSE IF raw.ok THEN Store(stack, v, pos + size.used + raw.used)
         ELSE /\ pos' = pos + size.used
              /\ stack' = <<g>> \o Tail(stack)
              /\ Raise(raw.code, raw.stage, pos')
  BY Zenon DEF ReadBlob
<1>2. /\ status = "reading" /\ Head(stack).left > 0 /\ Head(stack).op \notin SkipOp
  BY <1>1, ReadingOwes
<1>3. stack # <<>> /\ Nested(stack) /\ Len(stack) <= pos + 1 /\ FrameOK(f)
      /\ Len(stack) \in Nat /\ pos \in 0 .. Len(input) /\ input \in Seq(Byte)
  BY <1>2, HeadType DEF Ended
<1>4. /\ Bounded(size, input, pos) /\ size.ok \in BOOLEAN
      /\ size.ok => size.used > 0 /\ size.value \in Nat
  BY <1>3, FixedSizeBounded
<1>5. size.ok => Bounded(raw, input, pos + size.used)
  <2>1. pos + size.used \in 0 .. Len(input)
    BY <1>3, <1>4 DEF Bounded
  <2> QED BY <1>3, <1>4, <2>1, ReadRawBounded
<1>6. FrameOK(g) /\ g.op = f.op
  BY <1>3, SpilledType DEF BlobSpilled
<1> HIDE DEF f, g, v, size, raw
<1>7. CASE ~size.ok
  BY <1>1, <1>2, <1>4, <1>7, FailInv
<1>8. CASE size.ok /\ raw.ok
  <2>1. /\ pos + size.used + raw.used \in pos .. Len(input)
        /\ Len(stack) <= pos + size.used + raw.used + 1
    BY <1>3, <1>4, <1>5, <1>8 DEF Bounded
  <2> QED BY <1>1, <1>2, <1>3, <1>8, <2>1, StoreInv
<1>9. CASE size.ok /\ ~raw.ok
  <2>1. pos' \in pos .. Len(input)
    BY <1>1, <1>3, <1>4, <1>9 DEF Bounded
  <2>2. status' = "failing" /\ stack' = <<g>> \o Tail(stack)
    BY <1>1, <1>9 DEF Raise
  <2> QED BY <1>1, <1>2, <1>6, <2>1, <2>2, ReplaceInv DEF f
<1> QED BY <1>7, <1>8, <1>9

(* The frame of a value of fixed size is paid for by its size header.      *)
LEMMA OpenFixedInv == IInv /\ OpenFixed => IInv'
<1> SUFFICES ASSUME IInv, OpenFixed PROVE IInv'
  OBVIOUS
<1> DEFINE f    == Head(stack)
           size == FixedSize(f)
           k    == Frame(Awaited(f).kind, Awaited(f), size.value, Storage(f))
<1>1. /\ Reading(FixedKind) /\ ~IsBlob(Awaited(f)) /\ UNCHANGED <<input, object, reads>>
      /\ IF ~size.ok THEN Fail(size) ELSE Call(k, pos + size.used)
  BY Zenon DEF OpenFixed
<1>2. /\ status = "reading" /\ \A g : MayCall(Head(stack), g)
  BY <1>1, ReadingOwes
<1>3. pos \in 0 .. Len(input) /\ input \in Seq(Byte)
  BY <1>2, HeadType DEF Ended
<1>4. /\ Bounded(size, input, pos) /\ size.ok \in BOOLEAN
      /\ size.ok => size.used > 0 /\ size.value \in Nat
  BY <1>3, FixedSizeBounded
<1>5. Awaited(f).kind \in ValueOp
  BY <1>1 DEF Reading, FixedKind, IsBlob, ValueOp, InPlaceOp
<1>6. size.ok => FrameOK(k) /\ k.op # "root"
  <2>1. Awaited(f).kind \in Op /\ Awaited(f).kind # "root"
    BY <1>5 DEF Op, ValueOp, InPlaceOp
  <2> QED BY <1>4, <2>1, FrameType
<1> HIDE DEF size, k
<1>7. CASE ~size.ok
  BY <1>1, <1>2, <1>4, <1>7, FailInv
<1>8. CASE size.ok
  <2>1. pos + size.used \in pos + 1 .. Len(input)
    BY <1>3, <1>4, <1>8 DEF Bounded
  <2> QED BY <1>1, <1>2, <1>6, <1>8, <2>1, CallInv
<1> QED BY <1>7, <1>8

(* An object's frame is paid for by its size header.                       *)
LEMMA OpenObjectInv == IInv /\ OpenObject => IInv'
<1> SUFFICES ASSUME IInv, OpenObject PROVE IInv'
  OBVIOUS
<1> DEFINE size == ReadSizeHeader(input, pos, "object")
           f    == Frame("object", Awaited(Head(stack)), size.value,
                         Storage(Head(stack)))
<1>1. /\ Reading({"object"}) /\ UNCHANGED <<input, object, reads>>
      /\ IF size.ok THEN Call(f, pos + size.used)
         ELSE pos' = pos + size.used /\ status' = "failing" /\ UNCHANGED stack
  BY DEF OpenObject
<1>2. /\ status = "reading" /\ \A g : MayCall(Head(stack), g)
  BY <1>1, ReadingOwes
<1>3. stack # <<>> /\ Len(stack) \in Nat /\ Len(stack) <= pos + 1 /\ Nested(stack)
      /\ pos \in 0 .. Len(input) /\ input \in Seq(Byte)
  BY <1>2, HeadType DEF Ended
<1>4. /\ Bounded(size, input, pos) /\ size.ok \in BOOLEAN
      /\ size.ok => size.used > 0 /\ size.value \in Nat
  BY <1>3, ReadSizeHeaderBounded DEF SizedKind
<1>5. size.ok => FrameOK(f) /\ f.op # "root"
  BY <1>4, FrameType DEF Op, ValueOp
<1> HIDE DEF size, f
<1>6. CASE size.ok
  <2>1. pos + size.used \in pos + 1 .. Len(input)
    BY <1>3, <1>4, <1>6 DEF Bounded
  <2> QED BY <1>1, <1>2, <1>5, <1>6, <2>1, CallInv
<1>7. CASE ~size.ok
  BY <1>1, <1>3, <1>4, <1>7 DEF IInv, Bounded, Ended
<1> QED BY <1>6, <1>7

(* An id that is not declared puts a skip_reader call on the stack; its    *)
(* own bytes pay for it.                                                   *)
LEMMA ReadFieldIdInv == IInv /\ ReadFieldId => IInv'
<1> SUFFICES ASSUME IInv, ReadFieldId PROVE IInv'
  OBVIOUS
<1> DEFINE f  == Head(stack)
           id == ReadUint(input, pos)
           g  == [f EXCEPT !.field = id.value]
           h  == [f EXCEPT !.field = Skipping]
           k  == SkipFrame("skip", 1)
<1>1. /\ status = "reading" /\ UNCHANGED <<input, object, reads>>
      /\ f.op = "object" /\ f.left > 0
      /\ \/ Fail(id)
         \/ Fail(Failed("invalid_field_id", "field_id", id.used))
         \/ /\ id.ok /\ pos' = pos + id.used /\ UNCHANGED <<status, error>>
            /\ stack' = <<g>> \o Tail(stack) \/ stack' = <<k, h>> \o Tail(stack)
  BY DEF ReadFieldId
<1>2. stack # <<>> /\ Len(stack) \in Nat /\ Len(stack) <= pos + 1 /\ Nested(stack)
      /\ pos \in 0 .. Len(input) /\ input \in Seq(Byte) /\ FrameOK(f)
  BY <1>1, HeadType DEF Ended
<1>3. /\ Bounded(id, input, pos) /\ id.ok \in BOOLEAN
      /\ id.ok => id.used > 0 /\ id.value \in Nat
  BY <1>2, ReadUintBounded
<1>4. Bounded(Failed("invalid_field_id", "field_id", id.used), input, pos)
  BY <1>3 DEF Bounded, Failed
<1>5. id.ok => FrameOK(g) /\ g.op = f.op
  BY <1>2, <1>3 DEF FrameOK
<1>6. FrameOK(h) /\ h.op = f.op /\ h.left = f.left
  BY <1>2 DEF FrameOK, Skipping
<1>7. FrameOK(k) /\ k.op # "root"
  BY FrameType DEF SkipFrame, Op, SkipOp, ValueOp
<1>8. <<k, h>> \o Tail(stack) = <<k>> \o (<<h>> \o Tail(stack))
  <2> DEFINE S == {stack[i] : i \in DOMAIN stack} \cup {k, h}
  <2>1. stack \in Seq(S) /\ Tail(stack) \in Seq(S) /\ k \in S /\ h \in S
    BY <1>2 DEF Nested, IsSeq
  <2> HIDE DEF S, k, h
  <2> QED BY <2>1
<1> HIDE DEF id, g, h, k
<1>9. CASE Fail(id)
  BY <1>1, <1>3, <1>9, FailInv
<1>10. CASE Fail(Failed("invalid_field_id", "field_id", id.used))
  BY <1>1, <1>4, <1>10, FailInv
<1>11. CASE id.ok /\ pos' = pos + id.used /\ UNCHANGED status
            /\ stack' = <<g>> \o Tail(stack)
  <2>1. pos' \in pos .. Len(input)
    BY <1>2, <1>3, <1>11 DEF Bounded
  <2> QED BY <1>1, <1>5, <1>11, <2>1, ReplaceInv DEF f
<1>12. CASE id.ok /\ pos' = pos + id.used /\ UNCHANGED status
            /\ stack' = <<k, h>> \o Tail(stack)
  <2>1. MayCall(h, k)
    BY <1>1, <1>6 DEF MayCall, SkipOp
  <2>2. pos' \in pos + 1 .. Len(input)
    BY <1>2, <1>3, <1>12 DEF Bounded
  <2>3. stack' = <<k>> \o (<<h>> \o Tail(stack)) /\ status' = "reading"
    BY <1>1, <1>8, <1>12
  <2> QED BY <1>1, <1>6, <1>7, <2>1, <2>2, <2>3, PushOverInv DEF f
<1> QED BY <1>1, <1>9, <1>10, <1>11, <1>12

-----------------------------------------------------------------------------
(* skip_reader, and the calls that return.                                 *)

(* What a header says is to be skipped behind it is a number of bytes, of  *)
(* values or of fields, and the call for it is one of skip_reader's own.   *)
LEMMA SkipPlanType ==
    ASSUME NEW header \in Byte, NEW size \in Nat
    PROVE  /\ SkipPlan(header, size)[1] \in SkipOp
           /\ SkipPlan(header, size)[2] \in Nat
<1>1. PayloadWidth(header) \in Nat
  BY PayloadWidthRange
<1> QED BY <1>1 DEF SkipPlan, SkipOp

(* The size behind a skipped header lies in the window.                    *)
LEMMA SkipSizeBounded ==
    ASSUME IInv, NEW header \in Byte, pos + 1 <= Len(input)
    PROVE  LET r == SkipSize(header)
           IN  /\ Bounded(r, input, pos + 1)
               /\ r.ok \in BOOLEAN
               /\ r.ok => r.value \in Nat
               /\ Bounded([r EXCEPT !.used = 1 + @], input, pos)
<1> DEFINE kind == CHOOSE k \in SizedKind : IsSizedHeader(header, k)
<1>1. input \in Seq(Byte) /\ pos + 1 \in 0 .. Len(input) /\ pos \in Nat
  BY DEF IInv
<1>2. CASE header \in 96 .. 175
  <2>1. \E k \in SizedKind : IsSizedHeader(header, k)
    BY <1>2 DEF SizedKind, IsSizedHeader, SizeBase, SizedExtended
  <2>2. kind \in SizedKind /\ IsSizedHeader(header, kind)
    BY <2>1
  <2>3. SkipSize(header) = ReadSizeTail(input, pos + 1, header, kind)
    BY <1>2 DEF SkipSize
  <2> HIDE DEF kind
  <2> QED BY <1>1, <2>2, <2>3, ReadSizeTailBounded DEF Bounded
<1>3. CASE header \notin 96 .. 175
  <2>1. SkipSize(header) = Got(0, 0)
    BY <1>3 DEF SkipSize
  <2> QED BY <1>1, <2>1 DEF Bounded, Got
<1> QED BY <1>2, <1>3

(* A frame of skip_reader with one item less to go.                        *)
LEMMA SkipProgress ==
    ASSUME NEW f, FrameOK(f), NEW n \in 1 .. f.left, NEW field \in Int
    PROVE  LET g == [f EXCEPT !.left = @ - n, !.field = field]
           IN  FrameOK(g) /\ g.op = f.op
<1>1. f.left \in Nat /\ f.left - n \in Nat /\ f.left - n <= f.count
  BY DEF FrameOK
<1>2. ASSUME NEW h, h = [f EXCEPT !.field = field]
      PROVE  FrameOK(h) /\ h.op = f.op /\ h.left = f.left /\ h.count = f.count
  BY <1>2 DEF FrameOK
<1>3. PICK h : h = [f EXCEPT !.field = field]
  OBVIOUS
<1>4. ASSUME NEW m \in Nat, m <= h.count, NEW g, g = [h EXCEPT !.left = m]
      PROVE  FrameOK(g) /\ g.op = h.op
  BY <1>2, <1>3, <1>4 DEF FrameOK
<1>5. [f EXCEPT !.left = @ - n, !.field = field] = [h EXCEPT !.left = f.left - n]
  BY <1>3 DEF FrameOK
<1> QED BY <1>1, <1>2, <1>3, <1>4, <1>5

(* The frame of a skipped value is paid for by its header.                 *)
LEMMA SkipHeaderInv == IInv /\ SkipHeader => IInv'
<1> SUFFICES ASSUME IInv, SkipHeader PROVE IInv'
  OBVIOUS
<1> DEFINE f      == Head(stack)
           header == ReadByte(input, pos)
           size   == SkipSize(header.value)
           plan   == SkipPlan(header.value, size.value)
           g      == [f EXCEPT !.left = @ - 1, !.field = 0]
           k      == SkipFrame(plan[1], plan[2])
           bad    == Failed("invalid_header", "skip", 1)
           long   == [size EXCEPT !.used = 1 + @]
<1>1. /\ status = "reading" /\ UNCHANGED <<input, object, reads>>
      /\ f.left > 0 /\ f.op \in SkipOp
      /\ IF ~header.ok THEN Fail(header)
         ELSE IF header.value \notin Skippable THEN Fail(bad)
         ELSE IF ~size.ok THEN Fail(long)
         ELSE /\ pos' = pos + 1 + size.used
              /\ stack' = <<k>> \o (<<g>> \o Tail(stack))
              /\ UNCHANGED <<status, error>>
  BY DEF SkipHeader, SkipOp
<1>2. /\ pos \in 0 .. Len(input) /\ input \in Seq(Byte) /\ FrameOK(f)
  BY <1>1, HeadType DEF Ended
<1>3. /\ Bounded(header, input, pos) /\ header.ok \in BOOLEAN
      /\ header.ok => header.used = 1 /\ header.value \in Byte
  BY <1>2, ReadByteBounded
<1>4. header.ok => pos + 1 <= Len(input)
  BY <1>2, <1>3 DEF Bounded
<1>5. header.ok => /\ Bounded(size, input, pos + 1) /\ Bounded(long, input, pos)
                   /\ size.ok \in BOOLEAN
                   /\ size.ok => size.value \in Nat
  BY <1>3, <1>4, SkipSizeBounded
<1>6. header.ok /\ size.ok => FrameOK(k) /\ k.op # "root" /\ k.op \in SkipOp
  <2> SUFFICES ASSUME header.ok, size.ok
               PROVE  FrameOK(k) /\ k.op # "root" /\ k.op \in SkipOp
    OBVIOUS
  <2>1. plan[1] \in SkipOp /\ plan[2] \in Nat
    BY <1>3, <1>5, SkipPlanType DEF SkipOp
  <2>2. plan[1] \in Op /\ plan[1] # "root"
    BY <2>1 DEF Op, SkipOp
  <2>3. FrameOK(k) /\ k.op = plan[1]
    BY <2>1, <2>2, FrameType DEF SkipFrame
  <2> QED BY <2>1, <2>2, <2>3
<1>7. FrameOK(g) /\ g.op = f.op
  <2>1. 1 \in 1 .. f.left /\ 0 \in Int
    BY <1>1, <1>2 DEF FrameOK
  <2> QED BY <1>2, <2>1, SkipProgress
<1>8. header.ok => Bounded(bad, input, pos)
  BY <1>2, <1>4 DEF Bounded, Failed
<1>9. header.ok /\ size.ok => MayCall(g, k)
  BY <1>1, <1>6, <1>7 DEF MayCall
<1> HIDE DEF header, size, long, bad, g, k
<1>10. CASE ~header.ok
  BY <1>1, <1>3, <1>10, FailInv
<1>11. CASE header.ok /\ header.value \notin Skippable
  BY <1>1, <1>8, <1>11, FailInv
<1>12. CASE header.ok /\ header.value \in Skippable /\ ~size.ok
  BY <1>1, <1>5, <1>12, FailInv
<1>13. CASE header.ok /\ header.value \in Skippable /\ size.ok
  <2>1. pos' \in pos + 1 .. Len(input)
    BY <1>1, <1>2, <1>5, <1>13 DEF Bounded
  <2>2. stack' = <<k>> \o (<<g>> \o Tail(stack)) /\ status' = "reading"
    BY <1>1, <1>13
  <2> QED BY <1>1, <1>6, <1>7, <1>9, <1>13, <2>1, <2>2, PushOverInv DEF f
<1> QED BY <1>10, <1>11, <1>12, <1>13

(* A skipped field id adds no call.                                        *)
LEMMA SkipFieldIdInv == IInv /\ SkipFieldId => IInv'
<1> SUFFICES ASSUME IInv, SkipFieldId PROVE IInv'
  OBVIOUS
<1> DEFINE f  == Head(stack)
           id == ReadUint(input, pos)
           g  == [f EXCEPT !.field = Skipping]
<1>1. /\ status = "reading" /\ UNCHANGED <<input, object, reads>>
      /\ IF ~id.ok THEN Fail(id)
         ELSE /\ pos' = pos + id.used /\ stack' = <<g>> \o Tail(stack)
              /\ UNCHANGED <<status, error>>
  BY DEF SkipFieldId
<1>2. pos \in 0 .. Len(input) /\ input \in Seq(Byte) /\ FrameOK(f)
  BY <1>1, HeadType DEF Ended
<1>3. Bounded(id, input, pos) /\ id.ok \in BOOLEAN
  BY <1>2, ReadUintBounded
<1>4. FrameOK(g) /\ g.op = f.op
  BY <1>2 DEF FrameOK, Skipping
<1> HIDE DEF id, g
<1>5. CASE ~id.ok
  BY <1>1, <1>3, <1>5, FailInv
<1>6. CASE id.ok
  <2>1. pos' \in pos .. Len(input) /\ status' = "reading"
    BY <1>1, <1>2, <1>3, <1>6 DEF Bounded
  <2> QED BY <1>1, <1>4, <1>6, <2>1, ReplaceInv DEF f
<1> QED BY <1>5, <1>6

(* Skipping a chunk of raw bytes adds no call.                             *)
LEMMA SkipRawInv == IInv /\ SkipRaw => IInv'
<1> SUFFICES ASSUME IInv, SkipRaw PROVE IInv'
  OBVIOUS
<1> DEFINE f     == Head(stack)
           chunk == Smaller(f.left, SkipChunk)
           raw   == ReadRaw(input, pos, chunk)
           g     == [f EXCEPT !.left = @ - chunk]
<1>1. /\ status = "reading" /\ UNCHANGED <<input, object, reads>> /\ f.left > 0
      /\ IF ~raw.ok THEN Fail(raw)
         ELSE /\ pos' = pos + chunk /\ stack' = <<g>> \o Tail(stack)
              /\ UNCHANGED <<status, error>>
  BY DEF SkipRaw
<1>2. pos \in 0 .. Len(input) /\ input \in Seq(Byte) /\ FrameOK(f)
  BY <1>1, HeadType DEF Ended
<1>3. chunk \in 1 .. f.left /\ f.left \in Nat
  BY <1>1, <1>2 DEF FrameOK, Smaller, SkipChunk
<1>4. Bounded(raw, input, pos) /\ raw.ok \in BOOLEAN /\ (raw.ok => raw.used = chunk)
  BY <1>2, <1>3, ReadRawBounded
<1> HIDE DEF chunk
<1>5. FrameOK(g) /\ g.op = f.op
  BY <1>2, <1>3 DEF FrameOK
<1> HIDE DEF raw, g
<1>6. CASE ~raw.ok
  BY <1>1, <1>4, <1>6, FailInv
<1>7. CASE raw.ok
  <2>1. pos' \in pos .. Len(input) /\ status' = "reading"
    BY <1>1, <1>2, <1>3, <1>4, <1>7 DEF Bounded
  <2> QED BY <1>1, <1>5, <1>7, <2>1, ReplaceInv DEF f
<1> QED BY <1>6, <1>7

(* A finished codec hands its value to its caller.                         *)
LEMMA ReturnValueInv == IInv /\ ReturnValue => IInv'
<1> SUFFICES ASSUME IInv, ReturnValue PROVE IInv'
  OBVIOUS
<1>1. /\ status = "reading" /\ Head(stack).op \in ValueOp
      /\ Store(Tail(stack), Head(stack).val, pos)
      /\ UNCHANGED <<input, object, reads>>
  BY DEF ReturnValue
<1>2. /\ stack # <<>> /\ Nested(stack) /\ pos \in 0 .. Len(input)
      /\ Len(stack) <= pos + 1 /\ Len(stack) \in Nat
  BY <1>1, HeadType DEF Ended
<1>3. /\ Nested(Tail(stack)) /\ Tail(stack) # <<>>
      /\ Len(Tail(stack)) = Len(stack) - 1
      /\ MayCall(Head(Tail(stack)), Head(stack))
  BY <1>1, <1>2, PopNested DEF ValueOp, InPlaceOp
<1>4. pos \in pos .. Len(input) /\ Len(Tail(stack)) <= pos + 1
  BY <1>2, <1>3
<1>5. Head(Tail(stack)).op \notin SkipOp /\ Head(Tail(stack)).left > 0
  BY <1>1, <1>3 DEF MayCall, SkipOp, ValueOp, InPlaceOp
<1> QED BY <1>1, <1>3, <1>4, <1>5, StoreInv

(* A finished skip ends the unknown field of its object.                   *)
LEMMA ReturnSkipInv == IInv /\ ReturnSkip => IInv'
<1> SUFFICES ASSUME IInv, ReturnSkip PROVE IInv'
  OBVIOUS
<1> DEFINE f == Head(Tail(stack))
           g == [f EXCEPT !.left = @ - 1, !.field = 0]
<1>1. /\ status = "reading" /\ Head(stack).op \in SkipOp
      /\ stack' = IF f.op = "object" THEN <<g>> \o Tail(Tail(stack)) ELSE Tail(stack)
      /\ UNCHANGED <<input, pos, status, error, object, reads>>
  BY DEF ReturnSkip
<1>2. /\ stack # <<>> /\ Nested(stack) /\ pos \in 0 .. Len(input)
      /\ Len(stack) <= pos + 1 /\ Len(stack) \in Nat
  BY <1>1, HeadType DEF Ended
<1>3. /\ Nested(Tail(stack)) /\ Tail(stack) # <<>>
      /\ Len(Tail(stack)) = Len(stack) - 1 /\ MayCall(f, Head(stack)) /\ FrameOK(f)
  BY <1>1, <1>2, PopNested DEF SkipOp
<1>4. CASE f.op = "object"
  <2>1. 1 \in 1 .. f.left /\ 0 \in Int
    BY <1>3, <1>4 DEF MayCall, SkipOp, FrameOK
  <2>3. FrameOK(g) /\ g.op = f.op
    BY <1>3, <2>1, SkipProgress
  <2>4. stack' = <<g>> \o Tail(Tail(stack)) /\ Head(stack).op # "root"
    BY <1>1, <1>4 DEF SkipOp
  <2> HIDE DEF g
  <2> QED BY <1>1, <2>3, <2>4, PopInv
<1>5. CASE f.op # "object"
  <2>1. stack' = Tail(stack) /\ Len(stack') <= pos' + 1
    BY <1>1, <1>2, <1>3, <1>5
  <2> QED BY <1>1, <1>3, <2>1 DEF IInv, Ended
<1> QED BY <1>4, <1>5

(* operator>> returns or throws: no call is left.                          *)
LEMMA EndedInv == IInv /\ (EndRead \/ Throw) => IInv'
<1> SUFFICES ASSUME IInv, EndRead \/ Throw PROVE IInv'
  OBVIOUS
<1>1. stack' = <<>> /\ status' \in Ended /\ UNCHANGED <<input, pos, reads>>
  BY DEF EndRead, Throw, Ended
<1>2. Nested(stack')
  BY <1>1 DEF Nested, IsSeq
<1>3. Len(stack') <= pos' + 1
  BY <1>1 DEF IInv
<1> QED BY <1>1, <1>2, <1>3 DEF IInv

(* A failed call returns; what it stored is left in its caller.            *)
LEMMA UnwindInv == IInv /\ Unwind => IInv'
<1> SUFFICES ASSUME IInv, Unwind PROVE IInv'
  OBVIOUS
<1> DEFINE f == Head(Tail(stack))
           g == Spilled(f, Head(stack).val)
<1>1. /\ status = "failing" /\ Head(stack).op # "root"
      /\ stack' = IF Head(stack).op \in SkipOp THEN Tail(stack)
                  ELSE <<g>> \o Tail(Tail(stack))
      /\ UNCHANGED <<input, pos, status, object, reads>>
  BY DEF Unwind
<1>2. /\ stack # <<>> /\ Nested(stack) /\ pos \in 0 .. Len(input)
      /\ Len(stack) <= pos + 1 /\ Len(stack) \in Nat
  BY <1>1, HeadType DEF Ended
<1>3. /\ Nested(Tail(stack)) /\ Tail(stack) # <<>>
      /\ Len(Tail(stack)) = Len(stack) - 1 /\ FrameOK(f)
  BY <1>1, <1>2, PopNested
<1>4. FrameOK(g) /\ g.op = f.op
  BY <1>3, SpilledType
<1> HIDE DEF g
<1>5. CASE Head(stack).op \notin SkipOp
  BY <1>1, <1>4, <1>5, PopInv
<1>6. CASE Head(stack).op \in SkipOp
  <2>1. stack' = Tail(stack) /\ Len(stack') <= pos' + 1
    BY <1>1, <1>2, <1>3, <1>6
  <2> QED BY <1>1, <1>3, <2>1 DEF IInv, Ended
<1> QED BY <1>5, <1>6

-----------------------------------------------------------------------------
(* The theorems.                                                           *)

(* Before the first read nothing is consumed and nothing in progress.      *)
LEMMA InitInv == Init => IInv
<1> SUFFICES ASSUME Init PROVE IInv
  OBVIOUS
<1>1. stack = <<>> /\ pos = 0 /\ status = "idle" /\ reads = 0 /\ input \in Seq(Byte)
  BY InputsAssumption DEF Init
<1>2. Nested(stack)
  BY <1>1 DEF Nested, IsSeq
<1> QED BY <1>1, <1>2, MaxReadsAssumption DEF IInv, Ended

(* One step of any kind, action by action.                                 *)
LEMMA StepInv == IInv /\ [Next]_vars => IInv'
<1> SUFFICES ASSUME IInv, [Next]_vars PROVE IInv'
  OBVIOUS
<1>1. CASE BeginRead
  BY <1>1, BeginReadInv
<1>2. CASE ReadScalar
  BY <1>2, ReadScalarInv
<1>3. CASE ReadString
  BY <1>3, ReadStringInv
<1>4. CASE ReadOptional
  BY <1>4, ReadOptionalInv
<1>5. CASE OpenVector
  BY <1>5, OpenContainerInv DEF OpenVector, SizedKind
<1>6. CASE OpenMap
  BY <1>6, OpenContainerInv DEF OpenMap, SizedKind
<1>7. CASE OpenObject
  BY <1>7, OpenObjectInv
<1>8. CASE ReadFieldId
  BY <1>8, ReadFieldIdInv
<1>9. CASE SkipHeader
  BY <1>9, SkipHeaderInv
<1>10. CASE SkipFieldId
  BY <1>10, SkipFieldIdInv
<1>11. CASE SkipRaw
  BY <1>11, SkipRawInv
<1>12. CASE ReturnValue
  BY <1>12, ReturnValueInv
<1>13. CASE ReturnSkip
  BY <1>13, ReturnSkipInv
<1>14. CASE EndRead \/ Throw
  BY <1>14, EndedInv
<1>15. CASE Unwind
  BY <1>15, UnwindInv
<1>17. CASE ReadBlob
  BY <1>17, ReadBlobInv
<1>18. CASE OpenFixed
  BY <1>18, OpenFixedInv
<1>16. CASE UNCHANGED vars
  BY <1>16 DEF vars, IInv, Nested
<1> QED BY <1>1, <1>2, <1>3, <1>4, <1>5, <1>6, <1>7, <1>8, <1>9, <1>10, <1>11,
           <1>12, <1>13, <1>14, <1>15, <1>16, <1>17, <1>18 DEF Next, Step

(* The reader's state always satisfies the inductive invariant: its calls  *)
(* nest, and each beyond operator>> has consumed a byte.                   *)
THEOREM Inductive == Spec => []IInv
<1>1. Init => IInv
  BY InitInv
<1>2. IInv /\ [Next]_vars => IInv'
  BY StepInv
<1> QED BY <1>1, <1>2, PTL DEF Spec

(* Type correctness of the reader, for every schema and input.             *)
THEOREM TypeCorrect == Spec => [](TypeOK /\ CallsNest)
<1>1. IInv => TypeOK /\ CallsNest
  <2> SUFFICES ASSUME IInv PROVE TypeOK /\ CallsNest
    OBVIOUS
  <2>1. stack \in Seq({stack[i] : i \in DOMAIN stack})
    BY DEF IInv, Nested, IsSeq
  <2>2. DOMAIN stack = 1 .. Len(stack)
    BY <2>1
  <2>3. pos \in Nat
    BY DEF IInv
  <2> QED BY <2>1, <2>2, <2>3 DEF IInv, Nested, Ended, TypeOK, CallsNest
<1> QED BY <1>1, Inductive, PTL

(* The cursor of the window never passes the end of its bytes, whatever    *)
(* the bytes say about sizes that follow.                                  *)
THEOREM StaysWithinWindow == Spec => []WithinWindow
<1>1. IInv => WithinWindow
  BY DEF IInv, WithinWindow
<1> QED BY <1>1, Inductive, PTL

(* The depth of the codec recursion never exceeds the bytes consumed by    *)
(* more than operator>> itself.                                            *)
THEOREM DepthIsBounded == Spec => []DepthBounded
<1>1. IInv => DepthBounded
  BY DEF IInv, DepthBounded
<1> QED BY <1>1, Inductive, PTL

-----------------------------------------------------------------------------
(* The work of a stack of calls.                                           *)

TotalWork(s) == MapThenSumSet(LAMBDA i : Work(s[i]), DOMAIN s)

Weights(s) == [i \in 1 .. Len(s) |-> Work(s[i])]

Weighed(s) == IsSeq(s) /\ \A i \in 1 .. Len(s) : Work(s[i]) \in Int

(* The sum over the indices of a stack is the running total of its work.   *)
LEMMA TotalWorkIsTotal ==
    ASSUME NEW s, Weighed(s), NEW g, RunningTotal(g, Weights(s), Len(s))
    PROVE  TotalWork(s) = g[Len(s)]
<1> DEFINE n == Len(s)
           w == Weights(s)
           pick(S) == CHOOSE x \in S : TRUE
           Works(sum) == sum = [S \in SUBSET (1 .. n) |->
               IF S = {} THEN 0 ELSE Work(s[pick(S)]) + sum[S \ {pick(S)}]]
<1>1. n \in Nat /\ DOMAIN s = 1 .. n /\ w \in [1 .. n -> Int]
  BY DEF Weighed, IsSeq, Weights
<1>2. TotalWork(s) = (CHOOSE sum : Works(sum))[1 .. n]
  BY <1>1, Zenon DEF TotalWork, MapThenSumSet, MapThenFoldSet
<1>3. (\E sum : AddsUp(sum, w, n)) /\ \A sum : AddsUp(sum, w, n) => sum[1 .. n] = g[n]
  <2>1. n \in Nat /\ RunningTotal(g, w, n)
    BY <1>1
  <2> HIDE DEF w, n
  <2> QED BY <2>1, SumIsRunningTotal
<1>4. ASSUME NEW sum PROVE AddsUp(sum, w, n) <=> Works(sum)
  <2>1. ASSUME NEW S \in SUBSET (1 .. n), S # {}
        PROVE  w[pick(S)] = Work(s[pick(S)])
    <3>1. pick(S) \in S
      BY <2>1, Zenon
    <3> HIDE DEF pick
    <3> QED BY <3>1 DEF Weights
  <2> HIDE DEF pick, w
  <2>2. ASSUME NEW S \in SUBSET (1 .. n)
        PROVE  (IF S = {} THEN 0 ELSE w[pick(S)] + sum[S \ {pick(S)}])
             = (IF S = {} THEN 0 ELSE Work(s[pick(S)]) + sum[S \ {pick(S)}])
    BY <2>1
  <2>3. [S \in SUBSET (1 .. n) |->
            IF S = {} THEN 0 ELSE w[pick(S)] + sum[S \ {pick(S)}]]
      = [S \in SUBSET (1 .. n) |->
            IF S = {} THEN 0 ELSE Work(s[pick(S)]) + sum[S \ {pick(S)}]]
    BY <2>2
  <2> QED BY <2>3, Zenon DEF AddsUp, pick
<1> HIDE DEF Works
<1>5. Works(CHOOSE sum : Works(sum))
  BY <1>3, <1>4, Zenon
<1> QED BY <1>2, <1>3, <1>4, <1>5, Zenon DEF n

(* A new innermost call adds its own work to that of the others.           *)
LEMMA PushTotal ==
    ASSUME NEW s, Weighed(s), NEW f, Work(f) \in Int
    PROVE  /\ Weighed(<<f>> \o s) /\ TotalWork(s) \in Int
           /\ TotalWork(<<f>> \o s) = TotalWork(s) + Work(f)
<1> DEFINE t == <<f>> \o s
           n == Len(s)
<1>1. /\ IsSeq(t) /\ Len(t) = n + 1 /\ t[1] = f
      /\ \A i \in 1 .. n : t[i + 1] = s[i]
  BY PushSeq DEF Weighed
<1>2. n \in Nat /\ Weights(s) \in [1 .. n -> Int]
  BY DEF Weighed, IsSeq, Weights
<1> HIDE DEF t, n
<1>3. ASSUME NEW i \in 1 .. n + 1
      PROVE  Work(t[i]) \in Int /\ (i > 1 => Work(t[i]) = Weights(s)[i - 1])
  <2>1. CASE i = 1
    BY <1>1, <2>1
  <2>2. CASE i > 1
    <3>1. i - 1 \in 1 .. n /\ (i - 1) + 1 = i
      BY <1>2, <2>2
    <3>2. t[i] = s[i - 1]
      BY <1>1, <3>1
    <3> QED BY <1>2, <3>1, <3>2 DEF Weighed, Weights, n
  <2> QED BY <1>2, <2>1, <2>2
<1>4. Weighed(t) /\ Weights(t) \in [1 .. n + 1 -> Int]
  BY <1>1, <1>3 DEF Weighed, Weights
<1>5. ASSUME NEW i \in 1 .. n PROVE Weights(t)[i + 1] = Weights(s)[i]
  <2>1. i + 1 \in 1 .. n + 1 /\ i + 1 > 1 /\ (i + 1) - 1 = i
    BY <1>2
  <2> QED BY <1>1, <1>3, <2>1 DEF Weights
<1>6. Weights(t)[1] = Work(f)
  BY <1>1, <1>2 DEF Weights
<1>7. PICK g : RunningTotal(g, Weights(s), n)
  BY <1>2, RunningTotalExists
<1>8. PICK h : RunningTotal(h, Weights(t), n + 1)
  BY <1>2, <1>4, RunningTotalExists
<1>9. h[n + 1] = g[n] + Work(f)
  <2> DEFINE w == Weights(s)
             v == Weights(t)
  <2>1. /\ n \in Nat /\ w \in [1 .. n -> Int] /\ v \in [1 .. n + 1 -> Int]
        /\ \A i \in 1 .. n : v[i + 1] = w[i]
        /\ RunningTotal(g, w, n) /\ RunningTotal(h, v, n + 1) /\ v[1] = Work(f)
    BY <1>2, <1>4, <1>5, <1>6, <1>7, <1>8
  <2> HIDE DEF w, v
  <2>2. h[n + 1] = g[n] + v[1]
    BY <2>1, RunningTotalShift, SMTT(60)
  <2> QED BY <2>1, <2>2
<1>10. TotalWork(s) = g[n] /\ TotalWork(t) = h[n + 1]
  BY <1>1, <1>4, <1>7, <1>8, TotalWorkIsTotal DEF n
<1>11. g[n] \in Int
  BY <1>2, <1>7 DEF RunningTotal
<1> QED BY <1>4, <1>9, <1>10, <1>11 DEF t

(* Without calls there is no work.                                         *)
LEMMA EmptyTotal == TotalWork(<<>>) = 0
<1>1. Weighed(<<>>) /\ Len(<<>>) = 0
  BY DEF Weighed, IsSeq
<1>2. Weights(<<>>) \in [1 .. 0 -> Int]
  BY <1>1 DEF Weights
<1>3. PICK g : RunningTotal(g, Weights(<<>>), 0)
  BY <1>2, RunningTotalExists
<1>4. TotalWork(<<>>) = g[0]
  BY <1>1, <1>3, TotalWorkIsTotal
<1> QED BY <1>3, <1>4 DEF RunningTotal

(* The work of the innermost call and of the others.                       *)
LEMMA PopTotal ==
    ASSUME NEW s, Weighed(s), s # <<>>
    PROVE  /\ Weighed(Tail(s)) /\ Work(Head(s)) \in Int /\ TotalWork(Tail(s)) \in Int
           /\ TotalWork(s) = TotalWork(Tail(s)) + Work(Head(s))
<1>1. /\ IsSeq(Tail(s)) /\ Len(s) \in Nat \ {0} /\ Len(Tail(s)) = Len(s) - 1
      /\ Head(s) = s[1]
      /\ \A i \in 1 .. Len(s) - 1 : Tail(s)[i] = s[i + 1]
  BY PopSeq DEF Weighed
<1>2. Work(Head(s)) \in Int
  BY <1>1 DEF Weighed
<1>3. Weighed(Tail(s))
  <2>1. ASSUME NEW i \in 1 .. Len(s) - 1 PROVE Work(Tail(s)[i]) \in Int
    <3>1. i + 1 \in 1 .. Len(s)
      BY <1>1
    <3> QED BY <1>1, <3>1 DEF Weighed
  <2> QED BY <1>1, <2>1 DEF Weighed
<1>4. s = <<Head(s)>> \o Tail(s)
  <2> DEFINE S == {s[i] : i \in DOMAIN s}
  <2>1. s \in Seq(S)
    BY DEF Weighed, IsSeq
  <2> HIDE DEF S
  <2> QED BY <2>1
<1>5. /\ TotalWork(Tail(s)) \in Int
      /\ TotalWork(<<Head(s)>> \o Tail(s)) = TotalWork(Tail(s)) + Work(Head(s))
  BY <1>2, <1>3, PushTotal
<1> QED BY <1>2, <1>3, <1>4, <1>5

-----------------------------------------------------------------------------
(* The work of a frame.                                                    *)

(* The same call, with parts done or not.                                  *)
Same(g, f) == g.op = f.op /\ g.count = f.count

(* Work is a natural number, and every call of a codec is some.            *)
LEMMA WorkType ==
    ASSUME NEW f, FrameOK(f)
    PROVE  /\ Work(f) \in Nat
           /\ f.op \notin SkipOp => Work(f) >= 1
           /\ f.left = 0 /\ f.op \in SkipOp => Work(f) = f.count
BY DEF FrameOK, Work

(* A part less to go is one more done.                                     *)
LEMMA WorkGrows ==
    ASSUME NEW f, FrameOK(f), NEW g, FrameOK(g), Same(g, f)
    PROVE  /\ Work(g) = Work(f) + (f.left - g.left)
           /\ f.left \in Nat /\ g.left \in Nat
BY DEF FrameOK, Work, Same

(* A call whose storage was touched is the same call, as far as it was.    *)
LEMMA SpilledWork ==
    ASSUME NEW f, FrameOK(f), NEW v
    PROVE  Same(Spilled(f, v), f) /\ Work(Spilled(f, v)) = Work(f)
<1>1. \/ Spilled(f, v) = f
      \/ Spilled(f, v) = [f EXCEPT !.val = v]
      \/ Spilled(f, v) = [f EXCEPT !.val[f.field] = v]
      \/ Spilled(f, v) = [f EXCEPT !.val[Item(f)] = v]
  BY Zenon DEF Spilled
<1> DEFINE g == Spilled(f, v)
<1>2. g.op = f.op /\ g.count = f.count /\ g.left = f.left
  BY <1>1 DEF FrameOK
<1>3. FrameOK(g)
  BY SpilledType
<1>4. f.left \in Nat /\ Work(f) \in Nat
  BY WorkType DEF FrameOK
<1> HIDE DEF g
<1>5. Same(g, f) /\ Work(g) = Work(f) + (f.left - g.left)
  BY <1>2, <1>3, WorkGrows DEF Same
<1>6. f.left - g.left = 0
  BY <1>2, <1>4
<1> QED BY <1>4, <1>5, <1>6 DEF g

(* A delivered value ends at most one part; operator>> has only one.       *)
LEMMA DeliveredWork ==
    ASSUME NEW f, FrameOK(f), f.left > 0, f.op \notin SkipOp,
           f.op = "root" => f.count = 1, NEW v
    PROVE  Same(Delivered(f, v), f) /\ Work(Delivered(f, v)) <= Work(f) + 1
<1> DEFINE d == Delivered(f, v)
           g == [f EXCEPT !.present = FALSE]
           n == g.left - 1
<1>1. FrameOK(d) /\ d.op = f.op
  BY DeliveredType
<1>2. FrameOK(g) /\ g.op = f.op /\ g.left = f.left /\ g.count = f.count
  BY DEF FrameOK
<1>3. f.op \in {"root", "object", "vector", "map", "variant"} \cup InPlaceOp
  BY DEF FrameOK, Op, ValueOp
<1>4. n = f.left - 1 /\ f.left \in Nat
  BY <1>2 DEF FrameOK
<1>5. f.op = "root" => f.left = 1
  BY DEF FrameOK
<1> HIDE DEF g, n
<1>6. d.count = f.count /\ d.left \in {f.left, f.left - 1}
  <2>1. CASE f.op = "root"
    <3>1. d = [g EXCEPT !.val = v, !.left = 0]
      BY <2>1 DEF Delivered, g, InPlaceOp
    <3> QED BY <1>2, <1>4, <1>5, <2>1, <3>1 DEF FrameOK
  <2>2. CASE f.op = "object"
    <3>1. \E w : d = [g EXCEPT !.val = w, !.field = 0, !.left = n]
      <4>1. d = [g EXCEPT !.val[f.field] = v, !.field = 0, !.left = @ - 1]
        BY <2>2 DEF Delivered, g, InPlaceOp
      <4>2. d = [g EXCEPT !.val = [g.val EXCEPT ![f.field] = v], !.field = 0, !.left = n]
        BY <1>2, <4>1 DEF FrameOK, n
      <4> QED BY <4>2
    <3> QED BY <1>2, <1>4, <3>1 DEF FrameOK
  <2>3. CASE f.op = "vector"
    <3>1. d = [g EXCEPT !.val = Append(g.val, v), !.left = n]
      BY <2>3 DEF Delivered, g, n, InPlaceOp
    <3> QED BY <1>2, <1>4, <3>1 DEF FrameOK
  <2>4. CASE f.op \in InPlaceOp
    <3>1. /\ f.op # "root" /\ f.op # "object" /\ f.op # "vector"
          /\ f.op # "variant" /\ f.op # "map" /\ f.op \in InPlaceOp
      BY <2>4 DEF InPlaceOp
    <3>2. d = [g EXCEPT !.val[Item(f)] = v, !.left = @ - 1]
      BY <3>1, Zenon DEF Delivered, g
    <3>3. d = [g EXCEPT !.val = [g.val EXCEPT ![Item(f)] = v], !.left = n]
      BY <1>2, <3>2 DEF FrameOK, n
    <3> QED BY <1>2, <1>4, <3>3 DEF FrameOK
  <2>5. CASE f.op = "variant" /\ f.key = Null
    <3>1. d = [g EXCEPT !.key = v, !.left = n]
      BY <2>5 DEF Delivered, g, n, InPlaceOp
    <3> QED BY <1>2, <1>4, <3>1 DEF FrameOK
  <2>6. CASE f.op = "variant" /\ f.key # Null
    <3>1. d = [g EXCEPT !.val = <<f.key + 1, v>>, !.left = n]
      BY <2>6 DEF Delivered, g, n, InPlaceOp
    <3> QED BY <1>2, <1>4, <3>1 DEF FrameOK
  <2>7. CASE f.op = "map" /\ f.key = Null
    <3>1. d = [g EXCEPT !.key = v]
      BY <2>7 DEF Delivered, g, InPlaceOp
    <3> QED BY <1>2, <1>4, <3>1 DEF FrameOK
  <2>8. CASE f.op = "map" /\ f.key # Null
    <3>1. \E w : d = [g EXCEPT !.key = Null, !.left = n, !.val = w]
      BY <2>8 DEF Delivered, g, n, InPlaceOp
    <3> QED BY <1>2, <1>4, <3>1 DEF FrameOK
  <2> HIDE DEF d
  <2> QED BY <1>3, <2>1, <2>2, <2>3, <2>4, <2>5, <2>6, <2>7, <2>8
<1> HIDE DEF d
<1>7. Same(d, f) /\ Work(d) = Work(f) + (f.left - d.left) /\ Work(f) \in Nat
  BY <1>1, <1>6, WorkGrows, WorkType DEF Same
<1> QED BY <1>4, <1>6, <1>7 DEF d

-----------------------------------------------------------------------------
(* The strengthened invariant: operator>> reads one value, the skip of an  *)
(* unknown field skips at least one, and the work is paid for up to `p'.   *)
Paid(s, p) ==
    /\ \A i \in 1 .. Len(s) : s[i].op = "root" => s[i].count = 1
    /\ \A i \in 1 .. Len(s) :
          i > 1 /\ s[i].op = "object" /\ s[i - 1].op \in SkipOp => s[i - 1].count > 0
    /\ TotalWork(s) <= p + 1

(* Calls that nest have work that can be added up.                         *)
LEMMA NestedWeighed ==
    ASSUME NEW s, Nested(s)
    PROVE  Weighed(s) /\ TotalWork(s) \in Int
<1>1. Weighed(s)
  <2>1. ASSUME NEW i \in 1 .. Len(s) PROVE Work(s[i]) \in Int
    BY WorkType DEF Nested
  <2> QED BY <2>1 DEF Weighed, Nested
<1>2. Work(SkipFrame("skip", 0)) \in Int
  BY DEF Work, SkipFrame, Frame
<1> QED BY <1>1, <1>2, PushTotal

(* Bytes consumed for nothing.                                             *)
LEMMA LaterPaid ==
    ASSUME NEW s, Nested(s), NEW p \in Int, Paid(s, p), NEW q \in Int, p <= q
    PROVE  Paid(s, q)
<1>1. TotalWork(s) \in Int
  BY NestedWeighed
<1> QED BY <1>1 DEF Paid

(* The innermost call did some work, for the bytes from p to q.            *)
LEMMA ReplacePaid ==
    ASSUME NEW s, Nested(s), s # <<>>, NEW p \in Int, Paid(s, p),
           NEW f, FrameOK(f), Same(f, Head(s)),
           NEW q \in Int, Work(f) <= Work(Head(s)) + (q - p)
    PROVE  Paid(<<f>> \o Tail(s), q)
<1> DEFINE t == <<f>> \o Tail(s)
<1>1. /\ IsSeq(t) /\ Len(t) = Len(s) /\ Len(s) \in Nat \ {0} /\ t[1] = f
      /\ \A i \in 2 .. Len(s) : t[i] = s[i]
      /\ Head(s) = s[1]
  BY ReplaceSeq, PopSeq DEF Nested
<1>2. /\ Weighed(Tail(s)) /\ Work(Head(s)) \in Int /\ TotalWork(Tail(s)) \in Int
      /\ TotalWork(s) = TotalWork(Tail(s)) + Work(Head(s))
  BY NestedWeighed, PopTotal
<1>3. Work(f) \in Int
  BY WorkType
<1>4. TotalWork(t) = TotalWork(Tail(s)) + Work(f)
  BY <1>2, <1>3, PushTotal
<1> HIDE DEF t
<1>5. TotalWork(t) <= q + 1
  BY <1>2, <1>3, <1>4 DEF Paid
<1>6. ASSUME NEW i \in 1 .. Len(t)
      PROVE  /\ t[i].op = s[i].op /\ t[i].count = s[i].count
             /\ i \in 1 .. Len(s) /\ (i > 1 => i - 1 \in 1 .. Len(t))
  <2>1. CASE i = 1
    BY <1>1, <2>1 DEF Same
  <2>2. CASE i > 1
    BY <1>1, <2>2
  <2> QED BY <1>1, <2>1, <2>2
<1>7. ASSUME NEW i \in 1 .. Len(t)
      PROVE  /\ t[i].op = "root" => t[i].count = 1
             /\ i > 1 /\ t[i].op = "object" /\ t[i - 1].op \in SkipOp
                   => t[i - 1].count > 0
  BY <1>6 DEF Paid
<1> QED BY <1>5, <1>7 DEF Paid, t

(* A codec was called, its work paid for by the bytes from p to q.         *)
LEMMA PushPaid ==
    ASSUME NEW s, Nested(s), s # <<>>, NEW p \in Int, Paid(s, p),
           NEW f, FrameOK(f), f.op # "root",
           Head(s).op = "object" /\ f.op \in SkipOp => f.count > 0,
           NEW q \in Int, Work(f) <= q - p
    PROVE  Paid(<<f>> \o s, q)
<1> DEFINE t == <<f>> \o s
<1>1. /\ IsSeq(t) /\ Len(t) = Len(s) + 1 /\ t[1] = f
      /\ \A i \in 1 .. Len(s) : t[i + 1] = s[i]
      /\ Len(s) \in Nat \ {0} /\ Head(s) = s[1]
  BY PushSeq, PopSeq DEF Nested
<1>2. TotalWork(t) = TotalWork(s) + Work(f) /\ TotalWork(s) \in Int /\ Work(f) \in Int
  <2>1. Weighed(s) /\ Work(f) \in Int
    BY NestedWeighed, WorkType
  <2> QED BY <2>1, PushTotal
<1> HIDE DEF t
<1>3. TotalWork(t) <= q + 1
  BY <1>2 DEF Paid
<1>4. ASSUME NEW i \in 1 .. Len(t)
      PROVE  /\ t[i].op = "root" => t[i].count = 1
             /\ i > 1 /\ t[i].op = "object" /\ t[i - 1].op \in SkipOp
                   => t[i - 1].count > 0
  <2>1. CASE i = 1
    BY <1>1, <2>1
  <2>2. CASE i > 1
    <3>1. i - 1 \in 1 .. Len(s) /\ (i - 1) + 1 = i
      BY <1>1, <2>2
    <3>2. t[i] = s[i - 1]
      BY <1>1, <3>1
    <3>3. CASE i = 2
      BY <1>1, <3>1, <3>2, <3>3 DEF Paid
    <3>4. CASE i > 2
      <4>1. (i - 1) - 1 \in 1 .. Len(s) /\ ((i - 1) - 1) + 1 = i - 1 /\ i - 1 > 1
        BY <3>1, <3>4
      <4>2. t[i - 1] = s[(i - 1) - 1]
        BY <1>1, <4>1
      <4> QED BY <3>1, <3>2, <4>1, <4>2 DEF Paid
    <3> QED BY <2>2, <3>3, <3>4
  <2> QED BY <1>1, <2>1, <2>2
<1> QED BY <1>3, <1>4 DEF Paid, t

(* The innermost call is gone, and what it did need not be paid for.       *)
LEMMA PopPaid ==
    ASSUME NEW s, Nested(s), s # <<>>, NEW p \in Int, Paid(s, p),
           Head(s).op # "root"
    PROVE  /\ Nested(Tail(s)) /\ Tail(s) # <<>> /\ Work(Head(s)) \in Nat
           /\ Paid(Tail(s), p - Work(Head(s)))
<1> DEFINE u == Tail(s)
<1>1. Nested(u) /\ u # <<>> /\ FrameOK(Head(s))
  BY PopNested, PopSeq DEF Nested
<1>2. /\ Len(u) = Len(s) - 1 /\ Len(s) \in Nat \ {0}
      /\ \A i \in 1 .. Len(s) - 1 : u[i] = s[i + 1]
  BY PopSeq DEF Nested
<1>3. /\ TotalWork(u) \in Int /\ TotalWork(s) = TotalWork(u) + Work(Head(s))
  BY NestedWeighed, PopTotal
<1>4. Work(Head(s)) \in Nat
  BY <1>1, WorkType
<1> HIDE DEF u
<1>5. TotalWork(u) <= (p - Work(Head(s))) + 1
  BY <1>3, <1>4 DEF Paid
<1>6. ASSUME NEW i \in 1 .. Len(u)
      PROVE  /\ u[i].op = "root" => u[i].count = 1
             /\ i > 1 /\ u[i].op = "object" /\ u[i - 1].op \in SkipOp
                   => u[i - 1].count > 0
  <2>1. i + 1 \in 1 .. Len(s) /\ i + 1 > 1 /\ (i + 1) - 1 = i /\ u[i] = s[i + 1]
    BY <1>2
  <2>2. i > 1 => u[i - 1] = s[i]
    <3>1. i > 1 => i - 1 \in 1 .. Len(s) - 1 /\ (i - 1) + 1 = i
      BY <1>2
    <3> QED BY <1>2, <3>1
  <2>3. s[i + 1].op = "object" /\ s[(i + 1) - 1].op \in SkipOp => s[(i + 1) - 1].count > 0
    BY <2>1 DEF Paid
  <2> QED BY <2>1, <2>2, <2>3 DEF Paid
<1> QED BY <1>1, <1>4, <1>5, <1>6 DEF Paid, u

-----------------------------------------------------------------------------
(* Every action pays for its work.                                         *)

(* What the innermost call is, and where the window stands.                *)
LEMMA PaidHead ==
    ASSUME IInv, Paid(stack, pos), status \notin Ended
    PROVE  /\ stack # <<>> /\ Nested(stack) /\ FrameOK(Head(stack))
           /\ input \in Seq(Byte) /\ pos \in 0 .. Len(input) /\ pos \in Int
           /\ Work(Head(stack)) \in Nat
BY HeadType, WorkType

(* A primitive that failed has only consumed bytes.                        *)
LEMMA FailPaid ==
    ASSUME IInv, Paid(stack, pos), NEW r, Bounded(r, input, pos), Fail(r)
    PROVE  Paid(stack', pos')
<1>1. pos' = pos + r.used /\ stack' = stack /\ r.used \in Nat
  BY DEF Fail, Bounded
<1>2. Nested(stack) /\ pos \in Int /\ pos + r.used \in Int /\ pos <= pos + r.used
  BY <1>1 DEF IInv
<1> QED BY <1>1, <1>2, LaterPaid

(* A value that is stored costs a byte.                                    *)
LEMMA StorePaid ==
    ASSUME NEW calls, Nested(calls), calls # <<>>,
           Head(calls).left > 0, Head(calls).op \notin SkipOp,
           NEW p \in Int, Paid(calls, p), NEW v, NEW at \in Int, p + 1 <= at,
           Store(calls, v, at)
    PROVE  Paid(stack', pos')
<1> DEFINE f == Head(calls)
           g == Delivered(f, v)
<1>1. FrameOK(f) /\ (f.op = "root" => f.count = 1)
  BY PopSeq DEF Nested, Paid
<1>2. /\ pos' = at
      /\ stack' = calls \/ stack' = <<g>> \o Tail(calls)
  BY DEF Store
<1>3. CASE stack' = calls
  BY <1>2, <1>3, LaterPaid
<1>4. CASE stack' = <<g>> \o Tail(calls)
  <2>1. FrameOK(g) /\ Same(g, f) /\ Work(g) <= Work(f) + 1
    BY <1>1, DeliveredType, DeliveredWork
  <2>2. Work(g) \in Int /\ Work(f) \in Int
    BY <1>1, <2>1, WorkType
  <2> HIDE DEF g
  <2>3. Work(g) <= Work(f) + (at - p)
    BY <2>1, <2>2
  <2>4. Paid(<<g>> \o Tail(calls), at)
    BY <2>1, <2>3, ReplacePaid
  <2> QED BY <1>2, <1>4, <2>4
<1> QED BY <1>2, <1>3, <1>4

(* A codec that calls for its parts has consumed its header.               *)
LEMMA CallPaid ==
    ASSUME IInv, Paid(stack, pos), status = "reading",
           NEW f, FrameOK(f), f.op \notin {"root"} \cup SkipOp, f.left = f.count,
           NEW at \in pos + 1 .. Len(input), Call(f, at)
    PROVE  Paid(stack', pos')
<1>1. stack # <<>> /\ Nested(stack) /\ pos \in Int
  BY PaidHead DEF Ended
<1>2. Work(f) = 1
  BY DEF Work, FrameOK
<1>3. pos' = at /\ stack' = <<f>> \o stack
  BY DEF Call
<1>4. at \in Int /\ Work(f) <= at - pos
  BY <1>1, <1>2
<1> QED BY <1>1, <1>3, <1>4, PushPaid

(* operator>> is called for one value, before any byte is consumed.        *)
LEMMA BeginReadPaid == IInv /\ BeginRead => Paid(stack', pos')
<1> SUFFICES ASSUME IInv, BeginRead PROVE Paid(stack', pos')
  OBVIOUS
<1> DEFINE f == Frame("root", Object(RootType), 1, object)
<1>1. stack' = <<f>> /\ pos' = pos /\ pos \in Nat
  BY DEF BeginRead, IInv
<1>2. f.op = "root" /\ f.count = 1 /\ Work(f) = 1
  BY DEF Frame, Work, SkipOp
<1> HIDE DEF f
<1>3. <<f>> = <<f>> \o <<>> /\ Len(<<f>>) = 1 /\ <<f>>[1] = f
  OBVIOUS
<1>4. Weighed(<<>>)
  BY DEF Weighed, IsSeq
<1>5. TotalWork(<<f>>) = 1
  <2>1. Work(f) \in Int
    BY <1>2
  <2>2. TotalWork(<<f>> \o <<>>) = TotalWork(<<>>) + Work(f)
    BY <1>4, <2>1, PushTotal, Zenon
  <2>3. TotalWork(<<f>>) = TotalWork(<<>>) + Work(f)
    BY <1>3, <2>2, Zenon
  <2> QED BY <1>2, <2>3, EmptyTotal
<1> QED BY <1>1, <1>2, <1>3, <1>5 DEF Paid

(* A scalar is stored from the bytes it is made of.                        *)
LEMMA ReadScalarPaid == IInv /\ Paid(stack, pos) /\ ReadScalar => Paid(stack', pos')
<1> SUFFICES ASSUME IInv, Paid(stack, pos), ReadScalar PROVE Paid(stack', pos')
  OBVIOUS
<1> DEFINE r == DecodeScalar(Awaited(Head(stack)))
<1>1. /\ Reading(ScalarKind)
      /\ IF r.ok THEN Store(stack, r.value, pos + r.used) ELSE Fail(r)
  BY DEF ReadScalar
<1>2. Awaited(Head(stack)).kind \in ScalarKind
  BY <1>1 DEF Reading
<1>3. Bounded(r, input, pos) /\ (r.ok => r.used > 0)
  BY <1>2, DecodeScalarBounded
<1>4. /\ status = "reading" /\ Head(stack).left > 0 /\ Head(stack).op \notin SkipOp
  BY <1>1, ReadingOwes
<1>5. stack # <<>> /\ Nested(stack) /\ pos \in Int
  BY <1>4, PaidHead DEF Ended
<1> HIDE DEF r
<1>6. CASE r.ok
  <2>1. pos + r.used \in Int /\ pos + 1 <= pos + r.used
    BY <1>3, <1>5, <1>6 DEF Bounded
  <2> QED BY <1>1, <1>4, <1>5, <1>6, <2>1, StorePaid
<1>7. CASE ~r.ok
  BY <1>1, <1>3, <1>7, FailPaid
<1> QED BY <1>6, <1>7

(* A codec that failed behind its size header touched only storage.        *)
LEMMA SpillPaid ==
    ASSUME IInv, Paid(stack, pos), status \notin Ended,
           NEW g, FrameOK(g), Same(g, Head(stack)), Work(g) = Work(Head(stack)),
           stack' = <<g>> \o Tail(stack), pos' \in Int, pos <= pos'
    PROVE  Paid(stack', pos')
<1>1. stack # <<>> /\ Nested(stack) /\ pos \in Int /\ Work(Head(stack)) \in Nat
  BY PaidHead
<1>2. Work(g) <= Work(Head(stack)) + (pos' - pos)
  BY <1>1
<1> QED BY <1>1, <1>2, ReplacePaid

(* A string is stored behind its size header.                              *)
LEMMA ReadStringPaid == IInv /\ Paid(stack, pos) /\ ReadString => Paid(stack', pos')
<1> SUFFICES ASSUME IInv, Paid(stack, pos), ReadString PROVE Paid(stack', pos')
  OBVIOUS
<1> DEFINE f    == Head(stack)
           size == ReadSizeHeader(input, pos, "string")
           raw  == ReadRaw(input, pos + size.used, size.value)
           g    == Spilled(f, Resized(Storage(f), size.value))
<1>1. /\ Reading({"string"})
      /\ IF ~size.ok THEN Fail(size)
         ELSE IF raw.ok THEN Store(stack, raw.value, pos + size.used + raw.used)
         ELSE /\ pos' = pos + size.used
              /\ stack' = <<g>> \o Tail(stack)
  BY DEF ReadString
<1>2. /\ status = "reading" /\ Head(stack).left > 0 /\ Head(stack).op \notin SkipOp
  BY <1>1, ReadingOwes
<1>3. /\ stack # <<>> /\ Nested(stack) /\ FrameOK(f) /\ pos \in Int
      /\ pos \in 0 .. Len(input) /\ input \in Seq(Byte)
  BY <1>2, PaidHead DEF Ended
<1>4. /\ Bounded(size, input, pos) /\ size.ok \in BOOLEAN
      /\ size.ok => size.used > 0 /\ size.value \in Nat
  BY <1>3, ReadSizeHeaderBounded DEF SizedKind
<1>5. size.ok => raw.used \in Nat
  <2>1. size.ok => pos + size.used \in 0 .. Len(input)
    BY <1>3, <1>4 DEF Bounded
  <2> QED BY <1>3, <1>4, <2>1, ReadRawBounded DEF Bounded
<1>6. FrameOK(g) /\ Same(g, f) /\ Work(g) = Work(f)
  BY <1>3, SpilledType, SpilledWork
<1> HIDE DEF g, size, raw
<1>7. CASE ~size.ok
  BY <1>1, <1>4, <1>7, FailPaid
<1>8. CASE size.ok /\ raw.ok
  <2>1. /\ pos + size.used + raw.used \in Int
        /\ pos + 1 <= pos + size.used + raw.used
    BY <1>3, <1>4, <1>5, <1>8 DEF Bounded
  <2> QED BY <1>1, <1>2, <1>3, <1>8, <2>1, StorePaid
<1>9. CASE size.ok /\ ~raw.ok
  <2>1. pos' \in Int /\ pos <= pos' /\ stack' = <<g>> \o Tail(stack)
    BY <1>1, <1>3, <1>4, <1>9 DEF Bounded
  <2> QED BY <1>2, <1>6, <2>1, SpillPaid DEF Ended
<1> QED BY <1>7, <1>8, <1>9

(* A null costs its header; a value that is there is not counted yet.      *)
LEMMA ReadOptionalPaid == IInv /\ Paid(stack, pos) /\ ReadOptional => Paid(stack', pos')
<1> SUFFICES ASSUME IInv, Paid(stack, pos), ReadOptional PROVE Paid(stack', pos')
  OBVIOUS
<1> DEFINE header == ReadByte(input, pos)
           g      == [Head(stack) EXCEPT !.present = TRUE]
<1>1. /\ Reading({"optional"})
      /\ IF ~header.ok THEN Fail(header)
         ELSE IF header.value = NullHeader THEN Store(stack, Null, pos + 1)
         ELSE stack' = <<g>> \o Tail(stack) /\ pos' = pos
  BY DEF ReadOptional
<1>2. /\ status = "reading" /\ Head(stack).left > 0 /\ Head(stack).op \notin SkipOp
  BY <1>1, ReadingOwes
<1>3. /\ stack # <<>> /\ Nested(stack) /\ FrameOK(Head(stack)) /\ pos \in Int
      /\ pos \in 0 .. Len(input) /\ input \in Seq(Byte)
  BY <1>2, PaidHead DEF Ended
<1>4. Bounded(header, input, pos)
  BY <1>3, ReadByteBounded
<1>5. FrameOK(g) /\ Same(g, Head(stack)) /\ Work(g) = Work(Head(stack))
  BY <1>3 DEF FrameOK, Same, Work
<1> HIDE DEF g, header
<1>6. CASE ~header.ok
  BY <1>1, <1>4, <1>6, FailPaid
<1>7. CASE header.ok /\ header.value = NullHeader
  <2>1. pos + 1 \in Int /\ pos + 1 <= pos + 1
    BY <1>3
  <2> QED BY <1>1, <1>2, <1>3, <1>7, <2>1, StorePaid
<1>8. CASE header.ok /\ header.value # NullHeader
  <2>1. pos' \in Int /\ pos <= pos' /\ stack' = <<g>> \o Tail(stack)
    BY <1>1, <1>3, <1>8
  <2> QED BY <1>2, <1>5, <2>1, SpillPaid DEF Ended
<1> QED BY <1>6, <1>7, <1>8

(* The count of a container is not work, its size header pays for the call.*)
LEMMA OpenContainerPaid ==
    ASSUME IInv, Paid(stack, pos),
           NEW op \in {"vector", "map"}, NEW kinds, NEW wire \in SizedKind,
           OpenContainer(op, kinds, wire)
    PROVE  Paid(stack', pos')
<1> DEFINE size == ReadSizeHeader(input, pos, wire)
           r    == Failed("max_items_exceeded", wire, size.used)
           f    == Frame(op, Awaited(Head(stack)), size.value, <<>>)
<1>1. /\ Reading(kinds)
      /\ Fail(size) \/ Fail(r) \/ (size.ok /\ Call(f, pos + size.used))
  BY DEF OpenContainer
<1>2. status = "reading"
  BY <1>1 DEF Reading
<1>3. pos \in 0 .. Len(input) /\ input \in Seq(Byte)
  BY <1>2, PaidHead DEF Ended
<1>4. /\ Bounded(size, input, pos) /\ size.ok \in BOOLEAN
      /\ size.ok => size.used > 0 /\ size.value \in Nat
  BY <1>3, ReadSizeHeaderBounded
<1>5. Bounded(r, input, pos)
  BY <1>4 DEF Bounded, Failed
<1>6. size.ok => /\ FrameOK(f) /\ f.op \notin {"root"} \cup SkipOp
                 /\ f.left = f.count
  <2>1. op \in Op /\ op \notin {"root"} \cup SkipOp
    BY DEF Op, ValueOp, SkipOp
  <2>2. f.op = op /\ f.left = f.count
    BY DEF Frame
  <2> QED BY <1>4, <2>1, <2>2, FrameType
<1> HIDE DEF size, r, f
<1>7. CASE Fail(size)
  BY <1>4, <1>7, FailPaid
<1>8. CASE Fail(r)
  BY <1>5, <1>8, FailPaid
<1>9. CASE size.ok /\ Call(f, pos + size.used)
  <2>1. pos + size.used \in pos + 1 .. Len(input)
    BY <1>3, <1>4, <1>9 DEF Bounded
  <2> QED BY <1>2, <1>6, <1>9, <2>1, CallPaid
<1> QED BY <1>1, <1>7, <1>8, <1>9

(* A blob is one value, paid for by its size header.                       *)
LEMMA ReadBlobPaid == IInv /\ Paid(stack, pos) /\ ReadBlob => Paid(stack', pos')
<1> SUFFICES ASSUME IInv, Paid(stack, pos), ReadBlob PROVE Paid(stack', pos')
  OBVIOUS
<1> DEFINE f    == Head(stack)
           size == FixedSize(f)
           raw  == ReadRaw(input, pos + size.used, size.value)
           v    == BlobValue(Awaited(f), raw.value)
           g    == BlobSpilled(f)
<1>1. /\ Reading(FixedKind)
      /\ IF ~size.ok THEN Fail(size)
         ELSE IF raw.ok THEN Store(stack, v, pos + size.used + raw.used)
         ELSE /\ pos' = pos + size.used
              /\ stack' = <<g>> \o Tail(stack)
              /\ Raise(raw.code, raw.stage, pos')
  BY Zenon DEF ReadBlob
<1>2. /\ status = "reading" /\ Head(stack).left > 0 /\ Head(stack).op \notin SkipOp
  BY <1>1, ReadingOwes
<1>3. /\ stack # <<>> /\ Nested(stack) /\ FrameOK(f) /\ pos \in Int
      /\ pos \in 0 .. Len(input) /\ input \in Seq(Byte) /\ Work(f) \in Nat
  BY <1>2, PaidHead DEF Ended
<1>4. /\ Bounded(size, input, pos) /\ size.ok \in BOOLEAN
      /\ size.ok => size.used > 0 /\ size.value \in Nat
  BY <1>3, FixedSizeBounded
<1>5. size.ok => raw.used \in Nat
  <2>1. size.ok => pos + size.used \in 0 .. Len(input)
    BY <1>3, <1>4 DEF Bounded
  <2> QED BY <1>3, <1>4, <2>1, ReadRawBounded DEF Bounded
<1>6. FrameOK(g) /\ Same(g, f) /\ Work(g) = Work(f)
  BY <1>3, SpilledType, SpilledWork DEF BlobSpilled, Same
<1> HIDE DEF f, g, v, size, raw
<1>7. CASE ~size.ok
  BY <1>1, <1>4, <1>7, FailPaid
<1>8. CASE size.ok /\ raw.ok
  <2>1. /\ pos + size.used + raw.used \in Int
        /\ pos + 1 <= pos + size.used + raw.used
    BY <1>3, <1>4, <1>5, <1>8 DEF Bounded
  <2> QED BY <1>1, <1>2, <1>3, <1>8, <2>1, StorePaid
<1>9. CASE size.ok /\ ~raw.ok
  <2>1. pos' \in Int /\ pos <= pos' /\ stack' = <<g>> \o Tail(stack)
    BY <1>1, <1>3, <1>4, <1>9 DEF Bounded
  <2> QED BY <1>2, <1>6, <2>1, SpillPaid DEF Ended, f
<1> QED BY <1>7, <1>8, <1>9

(* A value of fixed size is called for behind its size header.             *)
LEMMA OpenFixedPaid == IInv /\ Paid(stack, pos) /\ OpenFixed => Paid(stack', pos')
<1> SUFFICES ASSUME IInv, Paid(stack, pos), OpenFixed PROVE Paid(stack', pos')
  OBVIOUS
<1> DEFINE f    == Head(stack)
           size == FixedSize(f)
           k    == Frame(Awaited(f).kind, Awaited(f), size.value, Storage(f))
<1>1. /\ Reading(FixedKind) /\ ~IsBlob(Awaited(f))
      /\ IF ~size.ok THEN Fail(size) ELSE Call(k, pos + size.used)
  BY Zenon DEF OpenFixed
<1>2. status = "reading"
  BY <1>1 DEF Reading
<1>3. pos \in 0 .. Len(input) /\ input \in Seq(Byte)
  BY <1>2, PaidHead DEF Ended
<1>4. /\ Bounded(size, input, pos) /\ size.ok \in BOOLEAN
      /\ size.ok => size.used > 0 /\ size.value \in Nat
  BY <1>3, FixedSizeBounded
<1>5. Awaited(f).kind \in ValueOp
  BY <1>1 DEF Reading, FixedKind, IsBlob, ValueOp, InPlaceOp
<1>6. size.ok => /\ FrameOK(k) /\ k.op \notin {"root"} \cup SkipOp
                 /\ k.left = k.count
  <2>1. /\ Awaited(f).kind \in Op
        /\ Awaited(f).kind \notin {"root"} \cup SkipOp
    BY <1>5 DEF Op, ValueOp, InPlaceOp, SkipOp
  <2>2. k.op = Awaited(f).kind /\ k.left = k.count
    BY DEF Frame
  <2> QED BY <1>4, <2>1, <2>2, FrameType
<1> HIDE DEF size, k
<1>7. CASE ~size.ok
  BY <1>1, <1>4, <1>7, FailPaid
<1>8. CASE size.ok
  <2>1. pos + size.used \in pos + 1 .. Len(input)
    BY <1>3, <1>4, <1>8 DEF Bounded
  <2> QED BY <1>1, <1>2, <1>6, <1>8, <2>1, CallPaid
<1> QED BY <1>7, <1>8

(* So is an object, however many fields it claims.                         *)
LEMMA OpenObjectPaid == IInv /\ Paid(stack, pos) /\ OpenObject => Paid(stack', pos')
<1> SUFFICES ASSUME IInv, Paid(stack, pos), OpenObject PROVE Paid(stack', pos')
  OBVIOUS
<1> DEFINE size == ReadSizeHeader(input, pos, "object")
           f    == Frame("object", Awaited(Head(stack)), size.value,
                         Storage(Head(stack)))
<1>1. /\ Reading({"object"})
      /\ IF size.ok THEN Call(f, pos + size.used)
         ELSE pos' = pos + size.used /\ UNCHANGED stack
  BY DEF OpenObject
<1>2. status = "reading"
  BY <1>1 DEF Reading
<1>3. /\ pos \in 0 .. Len(input) /\ input \in Seq(Byte) /\ Nested(stack) /\ pos \in Int
  BY <1>2, PaidHead DEF Ended
<1>4. /\ Bounded(size, input, pos) /\ size.ok \in BOOLEAN
      /\ size.ok => size.used > 0 /\ size.value \in Nat
  BY <1>3, ReadSizeHeaderBounded DEF SizedKind
<1>5. size.ok => /\ FrameOK(f) /\ f.op \notin {"root"} \cup SkipOp
                 /\ f.left = f.count
  <2>1. "object" \in Op
    BY DEF Op, ValueOp
  <2>2. f.op = "object" /\ f.left = f.count /\ "object" \notin {"root"} \cup SkipOp
    BY DEF Frame, SkipOp
  <2> QED BY <1>4, <2>1, <2>2, FrameType
<1> HIDE DEF size, f
<1>6. CASE size.ok
  <2>1. pos + size.used \in pos + 1 .. Len(input)
    BY <1>3, <1>4, <1>6 DEF Bounded
  <2> QED BY <1>1, <1>2, <1>5, <1>6, <2>1, CallPaid
<1>7. CASE ~size.ok
  <2>1. stack' = stack /\ pos' \in Int /\ pos <= pos'
    BY <1>1, <1>3, <1>4, <1>7 DEF Bounded
  <2> QED BY <1>3, <2>1, LaterPaid
<1> QED BY <1>6, <1>7

(* A call that made progress calls another: both are paid for together.    *)
LEMMA PushOverPaid ==
    ASSUME IInv, Paid(stack, pos), status = "reading",
           NEW g, FrameOK(g), Same(g, Head(stack)),
           NEW k, FrameOK(k), k.op # "root", Work(k) = 0,
           g.op = "object" /\ k.op \in SkipOp => k.count > 0,
           NEW q \in Int, pos' = q, Work(g) <= Work(Head(stack)) + (q - pos),
           stack' = <<k>> \o (<<g>> \o Tail(stack))
    PROVE  Paid(stack', pos')
<1> DEFINE mid == <<g>> \o Tail(stack)
<1>1. stack # <<>> /\ Nested(stack) /\ pos \in Int
  BY PaidHead DEF Ended
<1>2. Nested(mid) /\ Len(mid) = Len(stack) /\ mid[1] = g /\ Len(stack) \in Nat \ {0}
  BY <1>1, ReplaceNested, ReplaceSeq DEF Nested, Same
<1>3. Paid(mid, q)
  BY <1>1, ReplacePaid
<1> HIDE DEF mid
<1>4. mid # <<>> /\ Head(mid) = g
  <2>1. mid # <<>>
    BY <1>2
  <2> QED BY <1>2, <2>1, PopSeq DEF Nested
<1>5. Work(k) <= q - q
  OBVIOUS
<1>6. Paid(<<k>> \o mid, q)
  BY <1>2, <1>3, <1>4, <1>5, PushPaid
<1> QED BY <1>6 DEF mid

(* The id of a field is no work; an unknown field is one value to skip.    *)
LEMMA ReadFieldIdPaid == IInv /\ Paid(stack, pos) /\ ReadFieldId => Paid(stack', pos')
<1> SUFFICES ASSUME IInv, Paid(stack, pos), ReadFieldId PROVE Paid(stack', pos')
  OBVIOUS
<1> DEFINE f  == Head(stack)
           id == ReadUint(input, pos)
           g  == [f EXCEPT !.field = id.value]
           h  == [f EXCEPT !.field = Skipping]
           k  == SkipFrame("skip", 1)
<1>1. /\ status = "reading"
      /\ \/ Fail(id)
         \/ Fail(Failed("invalid_field_id", "field_id", id.used))
         \/ /\ id.ok /\ pos' = pos + id.used
            /\ stack' = <<g>> \o Tail(stack) \/ stack' = <<k, h>> \o Tail(stack)
  BY DEF ReadFieldId
<1>2. /\ stack # <<>> /\ Nested(stack) /\ FrameOK(f) /\ pos \in Int
      /\ pos \in 0 .. Len(input) /\ input \in Seq(Byte) /\ Work(f) \in Nat
  BY <1>1, PaidHead DEF Ended
<1>3. /\ Bounded(id, input, pos) /\ id.ok \in BOOLEAN
      /\ id.ok => id.used > 0 /\ id.value \in Nat
  BY <1>2, ReadUintBounded
<1>4. Bounded(Failed("invalid_field_id", "field_id", id.used), input, pos)
  BY <1>3 DEF Bounded, Failed
<1>5. id.ok => FrameOK(g) /\ Same(g, f) /\ Work(g) = Work(f)
  BY <1>2, <1>3 DEF FrameOK, Same, Work
<1>6. FrameOK(h) /\ Same(h, f) /\ Work(h) = Work(f)
  BY <1>2 DEF FrameOK, Same, Work, Skipping
<1>7. FrameOK(k) /\ k.op # "root" /\ k.count > 0 /\ Work(k) = 0
  <2>1. FrameOK(k)
    BY FrameType DEF SkipFrame, Op, SkipOp
  <2> QED BY <2>1 DEF SkipFrame, Frame, Work, SkipOp
<1>8. <<k, h>> \o Tail(stack) = <<k>> \o (<<h>> \o Tail(stack))
  <2> DEFINE S == {stack[i] : i \in DOMAIN stack} \cup {k, h}
  <2>1. stack \in Seq(S) /\ Tail(stack) \in Seq(S) /\ k \in S /\ h \in S
    BY <1>2 DEF Nested, IsSeq
  <2> HIDE DEF S, k, h
  <2> QED BY <2>1
<1> HIDE DEF id, g, h, k
<1>9. CASE Fail(id)
  BY <1>3, <1>9, FailPaid
<1>10. CASE Fail(Failed("invalid_field_id", "field_id", id.used))
  BY <1>4, <1>10, FailPaid
<1>11. ASSUME id.ok, pos' = pos + id.used PROVE pos' \in Int /\ pos <= pos'
  BY <1>2, <1>3, <1>11 DEF Bounded
<1>12. CASE id.ok /\ pos' = pos + id.used /\ stack' = <<g>> \o Tail(stack)
  BY <1>1, <1>5, <1>11, <1>12, SpillPaid DEF Ended
<1>13. CASE id.ok /\ pos' = pos + id.used /\ stack' = <<k, h>> \o Tail(stack)
  <2>1. stack' = <<k>> \o (<<h>> \o Tail(stack))
    BY <1>8, <1>13
  <2>2. pos' \in Int /\ Work(h) <= Work(Head(stack)) + (pos' - pos)
    BY <1>2, <1>6, <1>11, <1>13
  <2> QED BY <1>1, <1>6, <1>7, <2>1, <2>2, PushOverPaid
<1> QED BY <1>1, <1>9, <1>10, <1>12, <1>13

(* A frame with one or more parts less to go has done so much more.        *)
LEMMA ProgressWork ==
    ASSUME NEW f, FrameOK(f), NEW n \in 1 .. f.left, NEW field \in Int
    PROVE  LET g == [f EXCEPT !.left = @ - n, !.field = field]
           IN  FrameOK(g) /\ Same(g, f) /\ Work(g) = Work(f) + n
<1> DEFINE g == [f EXCEPT !.left = @ - n, !.field = field]
<1>1. FrameOK(g) /\ g.op = f.op
  BY SkipProgress
<1>2. g.count = f.count /\ g.left = f.left - n /\ f.left \in Nat
  BY DEF FrameOK
<1> HIDE DEF g
<1>3. Same(g, f) /\ Work(g) = Work(f) + (f.left - g.left) /\ Work(f) \in Nat
  BY <1>1, <1>2, WorkGrows, WorkType DEF Same
<1>4. f.left - g.left = n
  BY <1>2
<1> QED BY <1>1, <1>3, <1>4 DEF g

(* A skipped value is paid for by its header.                              *)
LEMMA SkipHeaderPaid == IInv /\ Paid(stack, pos) /\ SkipHeader => Paid(stack', pos')
<1> SUFFICES ASSUME IInv, Paid(stack, pos), SkipHeader PROVE Paid(stack', pos')
  OBVIOUS
<1> DEFINE f      == Head(stack)
           header == ReadByte(input, pos)
           size   == SkipSize(header.value)
           plan   == SkipPlan(header.value, size.value)
           g      == [f EXCEPT !.left = @ - 1, !.field = 0]
           k      == SkipFrame(plan[1], plan[2])
           bad    == Failed("invalid_header", "skip", 1)
           long   == [size EXCEPT !.used = 1 + @]
<1>1. /\ status = "reading" /\ f.left > 0 /\ f.op \in SkipOp
      /\ IF ~header.ok THEN Fail(header)
         ELSE IF header.value \notin Skippable THEN Fail(bad)
         ELSE IF ~size.ok THEN Fail(long)
         ELSE /\ pos' = pos + 1 + size.used
              /\ stack' = <<k>> \o (<<g>> \o Tail(stack))
  BY DEF SkipHeader, SkipOp
<1>2. /\ pos \in 0 .. Len(input) /\ input \in Seq(Byte) /\ FrameOK(f) /\ pos \in Int
      /\ Work(f) \in Nat
  BY <1>1, PaidHead DEF Ended
<1>3. /\ Bounded(header, input, pos) /\ header.ok \in BOOLEAN
      /\ header.ok => header.used = 1 /\ header.value \in Byte
  BY <1>2, ReadByteBounded
<1>4. header.ok => pos + 1 <= Len(input)
  BY <1>2, <1>3 DEF Bounded
<1>5. header.ok => /\ Bounded(size, input, pos + 1) /\ Bounded(long, input, pos)
                   /\ size.ok \in BOOLEAN
                   /\ size.ok => size.value \in Nat
  BY <1>3, <1>4, SkipSizeBounded
<1>6. header.ok /\ size.ok => FrameOK(k) /\ k.op # "root" /\ Work(k) = 0
  <2> SUFFICES ASSUME header.ok, size.ok
               PROVE  FrameOK(k) /\ k.op # "root" /\ Work(k) = 0
    OBVIOUS
  <2>1. plan[1] \in SkipOp /\ plan[2] \in Nat
    BY <1>3, <1>5, SkipPlanType DEF SkipOp
  <2>2. plan[1] \in Op /\ plan[1] # "root"
    BY <2>1 DEF Op, SkipOp
  <2>3. FrameOK(k) /\ k.op = plan[1]
    BY <2>1, <2>2, FrameType DEF SkipFrame
  <2>4. k.left = k.count /\ k.count \in Nat
    BY <2>3 DEF SkipFrame, Frame, FrameOK
  <2> HIDE DEF k, plan
  <2> QED BY <2>1, <2>2, <2>3, <2>4 DEF Work
<1>7. FrameOK(g) /\ Same(g, f) /\ Work(g) = Work(f) + 1
  <2>1. 1 \in 1 .. f.left /\ 0 \in Int
    BY <1>1, <1>2 DEF FrameOK
  <2> QED BY <1>2, <2>1, ProgressWork
<1>8. header.ok => Bounded(bad, input, pos)
  BY <1>2, <1>4 DEF Bounded, Failed
<1>9. g.op # "object"
  BY <1>1, <1>7 DEF Same, SkipOp
<1> HIDE DEF header, size, long, bad, g, k
<1>10. CASE ~header.ok
  BY <1>1, <1>3, <1>10, FailPaid
<1>11. CASE header.ok /\ header.value \notin Skippable
  BY <1>1, <1>8, <1>11, FailPaid
<1>12. CASE header.ok /\ header.value \in Skippable /\ ~size.ok
  BY <1>1, <1>5, <1>12, FailPaid
<1>13. CASE header.ok /\ header.value \in Skippable /\ size.ok
  <2> DEFINE q == pos + 1 + size.used
  <2>1. q \in Int /\ Work(g) <= Work(f) + (q - pos)
    BY <1>2, <1>5, <1>7, <1>13 DEF Bounded
  <2>2. stack' = <<k>> \o (<<g>> \o Tail(stack)) /\ pos' = q
    BY <1>1, <1>13
  <2> HIDE DEF q
  <2> QED BY <1>1, <1>6, <1>7, <1>9, <1>13, <2>1, <2>2, PushOverPaid
<1> QED BY <1>10, <1>11, <1>12, <1>13

(* The id of a skipped field is no work of its own.                        *)
LEMMA SkipFieldIdPaid == IInv /\ Paid(stack, pos) /\ SkipFieldId => Paid(stack', pos')
<1> SUFFICES ASSUME IInv, Paid(stack, pos), SkipFieldId PROVE Paid(stack', pos')
  OBVIOUS
<1> DEFINE f  == Head(stack)
           id == ReadUint(input, pos)
           g  == [f EXCEPT !.field = Skipping]
<1>1. /\ status = "reading"
      /\ IF ~id.ok THEN Fail(id)
         ELSE pos' = pos + id.used /\ stack' = <<g>> \o Tail(stack)
  BY DEF SkipFieldId
<1>2. /\ pos \in 0 .. Len(input) /\ input \in Seq(Byte) /\ FrameOK(f) /\ pos \in Int
  BY <1>1, PaidHead DEF Ended
<1>3. Bounded(id, input, pos)
  BY <1>2, ReadUintBounded
<1>4. FrameOK(g) /\ Same(g, f) /\ Work(g) = Work(f)
  BY <1>2 DEF FrameOK, Same, Work, Skipping
<1> HIDE DEF id, g
<1>5. CASE ~id.ok
  BY <1>1, <1>3, <1>5, FailPaid
<1>6. CASE id.ok
  <2>1. pos' \in Int /\ pos <= pos' /\ stack' = <<g>> \o Tail(stack)
    BY <1>1, <1>2, <1>3, <1>6 DEF Bounded
  <2> QED BY <1>1, <1>4, <2>1, SpillPaid DEF Ended
<1> QED BY <1>5, <1>6

(* Raw bytes are skipped one for one.                                      *)
LEMMA SkipRawPaid == IInv /\ Paid(stack, pos) /\ SkipRaw => Paid(stack', pos')
<1> SUFFICES ASSUME IInv, Paid(stack, pos), SkipRaw PROVE Paid(stack', pos')
  OBVIOUS
<1> DEFINE f     == Head(stack)
           chunk == Smaller(f.left, SkipChunk)
           raw   == ReadRaw(input, pos, chunk)
           g     == [f EXCEPT !.left = @ - chunk]
<1>1. /\ status = "reading" /\ f.left > 0
      /\ IF ~raw.ok THEN Fail(raw)
         ELSE pos' = pos + chunk /\ stack' = <<g>> \o Tail(stack)
  BY DEF SkipRaw
<1>2. /\ pos \in 0 .. Len(input) /\ input \in Seq(Byte) /\ FrameOK(f) /\ pos \in Int
      /\ stack # <<>> /\ Nested(stack)
  BY <1>1, PaidHead DEF Ended
<1>3. chunk \in 1 .. f.left /\ f.left \in Nat
  BY <1>1, <1>2 DEF FrameOK, Smaller, SkipChunk
<1>4. Bounded(raw, input, pos)
  BY <1>2, <1>3, ReadRawBounded
<1> HIDE DEF chunk
<1>5. FrameOK(g) /\ Same(g, f) /\ Work(g) = Work(f) + chunk /\ Work(f) \in Nat
  <2>1. FrameOK(g) /\ g.op = f.op /\ g.count = f.count /\ g.left = f.left - chunk
    BY <1>2, <1>3 DEF FrameOK
  <2> HIDE DEF f, g
  <2>2. Same(g, f) /\ Work(g) = Work(f) + (f.left - g.left) /\ Work(f) \in Nat
    BY <1>2, <2>1, WorkGrows, WorkType DEF Same
  <2>3. f.left - g.left = chunk
    BY <1>3, <2>1
  <2> QED BY <2>1, <2>2, <2>3
<1> HIDE DEF raw, g
<1>6. CASE ~raw.ok
  BY <1>1, <1>4, <1>6, FailPaid
<1>7. CASE raw.ok
  <2>1. pos + chunk \in Int /\ Work(g) <= Work(f) + ((pos + chunk) - pos)
    BY <1>2, <1>3, <1>5
  <2>2. Paid(<<g>> \o Tail(stack), pos + chunk)
    BY <1>2, <1>5, <2>1, ReplacePaid
  <2> QED BY <1>1, <1>7, <2>2
<1> QED BY <1>6, <1>7

(* A finished codec is at least the work that its value is to its caller.  *)
LEMMA ReturnValuePaid == IInv /\ Paid(stack, pos) /\ ReturnValue => Paid(stack', pos')
<1> SUFFICES ASSUME IInv, Paid(stack, pos), ReturnValue PROVE Paid(stack', pos')
  OBVIOUS
<1> DEFINE calls == Tail(stack)
           w     == Work(Head(stack))
           v     == Head(stack).val
<1>1. /\ status = "reading" /\ Head(stack).op \in ValueOp
      /\ Store(calls, v, pos)
  BY DEF ReturnValue
<1>2. stack # <<>> /\ Nested(stack) /\ FrameOK(Head(stack)) /\ pos \in Int
  BY <1>1, PaidHead DEF Ended
<1>3. Head(stack).op # "root" /\ Head(stack).op \notin SkipOp
  BY <1>1 DEF ValueOp, InPlaceOp, SkipOp
<1>4. Nested(calls) /\ calls # <<>> /\ w \in Nat /\ w >= 1 /\ Paid(calls, pos - w)
  BY <1>2, <1>3, PopPaid, WorkType
<1>5. Head(calls).op \notin SkipOp /\ Head(calls).left > 0
  <2>1. MayCall(Head(calls), Head(stack))
    BY <1>2, <1>3, PopNested
  <2> QED BY <1>3, <2>1 DEF MayCall
<1> HIDE DEF calls, w, v
<1>6. pos - w \in Int /\ (pos - w) + 1 <= pos
  BY <1>2, <1>4
<1> QED BY <1>1, <1>2, <1>4, <1>5, <1>6, StorePaid

(* The finished skip of an unknown field is the work of that field.        *)
LEMMA ReturnSkipPaid == IInv /\ Paid(stack, pos) /\ ReturnSkip => Paid(stack', pos')
<1> SUFFICES ASSUME IInv, Paid(stack, pos), ReturnSkip PROVE Paid(stack', pos')
  OBVIOUS
<1> DEFINE calls == Tail(stack)
           w     == Work(Head(stack))
           f     == Head(calls)
           g     == [f EXCEPT !.left = @ - 1, !.field = 0]
<1>1. /\ status = "reading" /\ Head(stack).op \in SkipOp /\ Head(stack).left = 0
      /\ stack' = IF f.op = "object" THEN <<g>> \o Tail(calls) ELSE calls
      /\ pos' = pos
  BY DEF ReturnSkip, Finished
<1>2. stack # <<>> /\ Nested(stack) /\ FrameOK(Head(stack)) /\ pos \in Int
  BY <1>1, PaidHead DEF Ended
<1>3. Head(stack).op # "root"
  BY <1>1 DEF SkipOp
<1>4. Nested(calls) /\ calls # <<>> /\ w \in Nat /\ Paid(calls, pos - w)
  BY <1>2, <1>3, PopPaid
<1>5. FrameOK(f) /\ MayCall(f, Head(stack))
  BY <1>2, <1>3, PopNested
<1>6. CASE f.op = "object"
  <2>1. 1 \in 1 .. f.left /\ 0 \in Int
    <3> HIDE DEF f
    <3>1. f.left > 0
      BY <1>5, <1>6 DEF MayCall, SkipOp
    <3>2. f.left \in Nat
      BY <1>5 DEF FrameOK
    <3> QED BY <3>1, <3>2
  <2>2. FrameOK(g) /\ Same(g, f) /\ Work(g) = Work(f) + 1 /\ Work(f) \in Nat
    BY <1>5, <2>1, ProgressWork, WorkType
  <2>3. w = Head(stack).count
    BY <1>1, <1>2, WorkType
  <2>4. Head(stack).count > 0
    <3>1. /\ Len(stack) \in Nat \ {0} /\ Len(calls) = Len(stack) - 1
          /\ \A i \in 1 .. Len(stack) - 1 : calls[i] = stack[i + 1]
          /\ Head(stack) = stack[1]
      BY <1>2, PopSeq DEF Nested
    <3>2. Len(calls) \in Nat \ {0} /\ f = calls[1]
      BY <1>4, PopSeq DEF Nested
    <3>3. f = stack[2] /\ 2 \in 1 .. Len(stack)
      BY <3>1, <3>2
    <3> QED BY <1>1, <1>6, <3>1, <3>3 DEF Paid
  <2> HIDE DEF g, w, calls
  <2>5. pos - w \in Int /\ Work(g) <= Work(f) + (pos - (pos - w))
    BY <1>2, <1>4, <2>2, <2>3, <2>4
  <2>6. Paid(<<g>> \o Tail(calls), pos)
    BY <1>2, <1>4, <2>2, <2>5, ReplacePaid
  <2> QED BY <1>1, <1>6, <2>6
<1>7. CASE f.op # "object"
  <2> HIDE DEF w, calls
  <2>1. pos - w \in Int /\ pos - w <= pos
    BY <1>2, <1>4
  <2>2. Paid(calls, pos)
    BY <1>2, <1>4, <2>1, LaterPaid
  <2> QED BY <1>1, <1>7, <2>2
<1> QED BY <1>6, <1>7

(* operator>> returns or throws: what was done no longer counts.           *)
LEMMA EndedPaid == IInv /\ (EndRead \/ Throw) => Paid(stack', pos')
<1> SUFFICES ASSUME IInv, EndRead \/ Throw PROVE Paid(stack', pos')
  OBVIOUS
<1>1. stack' = <<>> /\ pos' = pos /\ pos \in Nat
  BY DEF EndRead, Throw, IInv
<1>2. TotalWork(<<>>) <= pos + 1
  BY <1>1, EmptyTotal
<1> QED BY <1>1, <1>2 DEF Paid

(* A failed call leaves its storage to its caller, and no work.            *)
LEMMA UnwindPaid == IInv /\ Paid(stack, pos) /\ Unwind => Paid(stack', pos')
<1> SUFFICES ASSUME IInv, Paid(stack, pos), Unwind PROVE Paid(stack', pos')
  OBVIOUS
<1> DEFINE calls == Tail(stack)
           w     == Work(Head(stack))
           f     == Head(calls)
           g     == Spilled(f, Head(stack).val)
<1>1. /\ status = "failing" /\ Head(stack).op # "root" /\ pos' = pos
      /\ stack' = IF Head(stack).op \in SkipOp THEN calls ELSE <<g>> \o Tail(calls)
  BY DEF Unwind
<1>2. stack # <<>> /\ Nested(stack) /\ pos \in Int
  BY <1>1, PaidHead DEF Ended
<1>3. Nested(calls) /\ calls # <<>> /\ w \in Nat /\ Paid(calls, pos - w)
  BY <1>1, <1>2, PopPaid
<1>4. FrameOK(f)
  BY <1>1, <1>2, PopNested
<1>5. FrameOK(g) /\ Same(g, f) /\ Work(g) = Work(f) /\ Work(f) \in Nat
  BY <1>4, SpilledType, SpilledWork, WorkType
<1> HIDE DEF calls, w, g
<1>6. pos - w \in Int /\ pos - w <= pos /\ Work(g) <= Work(f) + (pos - (pos - w))
  BY <1>2, <1>3, <1>5
<1>7. Paid(calls, pos)
  BY <1>2, <1>3, <1>6, LaterPaid
<1>8. Paid(<<g>> \o Tail(calls), pos)
  BY <1>2, <1>3, <1>5, <1>6, ReplacePaid
<1> QED BY <1>1, <1>7, <1>8

-----------------------------------------------------------------------------
(* The theorem.                                                            *)

(* One step of any kind, action by action.                                 *)
LEMMA PaidStep == IInv /\ Paid(stack, pos) /\ [Next]_vars => Paid(stack', pos')
<1> SUFFICES ASSUME IInv, Paid(stack, pos), [Next]_vars PROVE Paid(stack', pos')
  OBVIOUS
<1>1. CASE BeginRead
  BY <1>1, BeginReadPaid
<1>2. CASE ReadScalar
  BY <1>2, ReadScalarPaid
<1>3. CASE ReadString
  BY <1>3, ReadStringPaid
<1>4. CASE ReadOptional
  BY <1>4, ReadOptionalPaid
<1>5. CASE OpenVector
  BY <1>5, OpenContainerPaid DEF OpenVector, SizedKind
<1>6. CASE OpenMap
  BY <1>6, OpenContainerPaid DEF OpenMap, SizedKind
<1>7. CASE OpenObject
  BY <1>7, OpenObjectPaid
<1>8. CASE ReadFieldId
  BY <1>8, ReadFieldIdPaid
<1>9. CASE SkipHeader
  BY <1>9, SkipHeaderPaid
<1>10. CASE SkipFieldId
  BY <1>10, SkipFieldIdPaid
<1>11. CASE SkipRaw
  BY <1>11, SkipRawPaid
<1>12. CASE ReturnValue
  BY <1>12, ReturnValuePaid
<1>13. CASE ReturnSkip
  BY <1>13, ReturnSkipPaid
<1>14. CASE EndRead \/ Throw
  BY <1>14, EndedPaid
<1>15. CASE Unwind
  BY <1>15, UnwindPaid
<1>16. CASE ReadBlob
  BY <1>16, ReadBlobPaid
<1>17. CASE OpenFixed
  BY <1>17, OpenFixedPaid
<1>18. CASE UNCHANGED vars
  BY <1>18 DEF vars
<1> QED BY <1>1, <1>2, <1>3, <1>4, <1>5, <1>6, <1>7, <1>8, <1>9, <1>10, <1>11,
           <1>12, <1>13, <1>14, <1>15, <1>16, <1>17, <1>18 DEF Next, Step

(* Whatever counts the wire declares, the items the reader has completed   *)
(* and the calls it has in progress never outnumber the bytes it consumed  *)
(* and operator>> itself.                                                  *)
THEOREM WorkIsPaidFor == Spec => []WorkPaidFor
<1>1. Init => Paid(stack, pos)
  <2> SUFFICES ASSUME Init PROVE Paid(stack, pos)
    OBVIOUS
  <2>1. stack = <<>> /\ pos = 0
    BY DEF Init
  <2>2. TotalWork(<<>>) <= 0 + 1
    BY EmptyTotal
  <2> QED BY <2>1, <2>2 DEF Paid
<1>2. IInv /\ Paid(stack, pos) /\ [Next]_vars => Paid(stack, pos)'
  BY PaidStep
<1>3. Paid(stack, pos) => WorkPaidFor
  BY DEF Paid, WorkPaidFor, TotalWork
<1> QED BY <1>1, <1>2, <1>3, Inductive, PTL DEF Spec

=============================================================================
