---------------------------- MODULE ReaderLemmas ----------------------------
(***************************************************************************)
(* Lemmas that the proofs about the readers of the byte adapters share:    *)
(* what a window gives, the integers in it, a call stack as a sequence     *)
(* whose head is the innermost call, and the value types of a program.     *)
(***************************************************************************)
EXTENDS WireFormat, ContractSchema, FiniteSetTheorems, TLAPS

-----------------------------------------------------------------------------
(* Bytes of a window.                                                      *)

(* What every primitive read at pos leaves true: it consumed bytes that    *)
(* the window has.                                                         *)
Bounded(r, data, pos_) == r.used \in Nat /\ pos_ + r.used <= Len(data)

(* peek: no more bytes than were asked for or than are left.               *)
LEMMA PeekLength ==
    ASSUME NEW data \in Seq(Byte), NEW p \in 0 .. Len(data), NEW n \in Nat
    PROVE  /\ Peek(data, p, n) \in Seq(Byte)
           /\ Len(Peek(data, p, n)) = Smaller(n, Len(data) - p)
<1> DEFINE m == Smaller(n, Len(data) - p)
<1>1. m \in Nat /\ p + m <= Len(data)
  BY DEF Smaller
<1>2. \A i \in 1 .. m : data[i + p] \in Byte
  BY <1>1
<1>3. SubSeq(data, p + 1, p + m) = [i \in 1 .. m |-> data[i + p]]
  BY <1>1
<1> QED BY <1>1, <1>2, <1>3 DEF Peek, Available

(* Bytes are natural numbers.                                              *)
LEMMA ByteIsNat == \A b \in Byte : b \in Nat
BY DEF Byte

(* The integer of up to eight bytes is a natural number.                   *)
LEMMA LoadLittleUintType ==
    ASSUME NEW bytes \in Seq(Byte)
    PROVE  LoadLittleUint(bytes) \in Nat
<1>1. ASSUME NEW i \in 1 .. 8
      PROVE  Digit(bytes, i) \in Nat
  <2>1. CASE i <= Len(bytes)
    <3>1. bytes[i] \in Byte
      BY <2>1
    <3>2. Digit(bytes, i) = bytes[i]
      BY <2>1, Zenon DEF Digit
    <3> QED BY <3>1, <3>2, ByteIsNat, Zenon
  <2>2. CASE ~(i <= Len(bytes))
    BY <2>2, Zenon DEF Digit
  <2> QED BY <2>1, <2>2
<1>2. /\ Digit(bytes, 1) \in Nat /\ Digit(bytes, 2) \in Nat
      /\ Digit(bytes, 3) \in Nat /\ Digit(bytes, 4) \in Nat
      /\ Digit(bytes, 5) \in Nat /\ Digit(bytes, 6) \in Nat
      /\ Digit(bytes, 7) \in Nat /\ Digit(bytes, 8) \in Nat
  BY <1>1
<1>3. ASSUME NEW m \in Nat, NEW n \in Nat PROVE m + 256 * n \in Nat
  OBVIOUS
<1> DEFINE h == Digit(bytes, 7) + 256 * Digit(bytes, 8)
           g == Digit(bytes, 6) + 256 * h
           f == Digit(bytes, 5) + 256 * g
           e == Digit(bytes, 4) + 256 * f
           d == Digit(bytes, 3) + 256 * e
           c == Digit(bytes, 2) + 256 * d
<1>4. h \in Nat BY <1>2, <1>3, Zenon
<1> HIDE DEF h
<1>5. g \in Nat BY <1>2, <1>3, <1>4, Zenon
<1> HIDE DEF g
<1>6. f \in Nat BY <1>2, <1>3, <1>5, Zenon
<1> HIDE DEF f
<1>7. e \in Nat BY <1>2, <1>3, <1>6, Zenon
<1> HIDE DEF e
<1>8. d \in Nat BY <1>2, <1>3, <1>7, Zenon
<1> HIDE DEF d
<1>9. c \in Nat BY <1>2, <1>3, <1>8, Zenon
<1> HIDE DEF c
<1>10. Digit(bytes, 1) + 256 * c \in Nat BY <1>2, <1>3, <1>9, Zenon
<1> QED BY <1>10, Zenon DEF LoadLittleUint, c, d, e, f, g, h

-----------------------------------------------------------------------------
(* The call stack as a sequence: pushing a call, replacing or popping the  *)
(* innermost one.                                                          *)

(* A sequence is one over the set of its own elements.                     *)
LEMMA SeqOfItself ==
    ASSUME NEW S, NEW t \in Seq(S)
    PROVE  t \in Seq({t[i] : i \in DOMAIN t})
<1>1. Len(t) \in Nat /\ DOMAIN t = 1 .. Len(t)
  OBVIOUS
<1>2. \A i \in 1 .. Len(t) : t[i] \in {t[j] : j \in DOMAIN t}
  BY <1>1
<1>3. t = [i \in 1 .. Len(t) |-> t[i]]
  BY <1>1
<1> QED BY <1>1, <1>2, <1>3

(* One more call in front: the others move back by one place.              *)
LEMMA PushSeq ==
    ASSUME NEW s, IsSeq(s), NEW f
    PROVE  /\ IsSeq(<<f>> \o s)
           /\ Len(<<f>> \o s) = Len(s) + 1
           /\ (<<f>> \o s)[1] = f
           /\ \A i \in 1 .. Len(s) : (<<f>> \o s)[i + 1] = s[i]
<1> DEFINE S == {s[i] : i \in DOMAIN s} \cup {f}
           t == <<f>> \o s
<1>1. s \in Seq(S) /\ <<f>> \in Seq(S)
  BY DEF IsSeq
<1>2. t \in Seq(S) /\ Len(t) = Len(s) + 1
  BY <1>1
<1>3. t[1] = f /\ \A i \in 1 .. Len(s) : t[i + 1] = s[i]
  BY <1>1
<1>4. t \in Seq({t[i] : i \in DOMAIN t})
  BY <1>2, SeqOfItself
<1> QED BY <1>2, <1>3, <1>4 DEF IsSeq

(* One call less: the others move forward by one place.                    *)
LEMMA PopSeq ==
    ASSUME NEW s, IsSeq(s), s # <<>>
    PROVE  /\ IsSeq(Tail(s))
           /\ Len(s) \in Nat \ {0}
           /\ Len(Tail(s)) = Len(s) - 1
           /\ Head(s) = s[1]
           /\ \A i \in 1 .. Len(s) - 1 : Tail(s)[i] = s[i + 1]
<1> DEFINE S == {s[i] : i \in DOMAIN s}
           t == Tail(s)
<1>1. s \in Seq(S) /\ Len(s) \in Nat \ {0}
  BY DEF IsSeq
<1>2. /\ t \in Seq(S) /\ Len(t) = Len(s) - 1
      /\ \A i \in 1 .. Len(s) - 1 : t[i] = s[i + 1]
  BY <1>1
<1>3. t \in Seq({t[i] : i \in DOMAIN t})
  BY <1>2, SeqOfItself
<1> QED BY <1>1, <1>2, <1>3 DEF IsSeq

(* The innermost call in another state: the others stay where they are.    *)
LEMMA ReplaceSeq ==
    ASSUME NEW s, IsSeq(s), s # <<>>, NEW f
    PROVE  /\ IsSeq(<<f>> \o Tail(s))
           /\ Len(<<f>> \o Tail(s)) = Len(s) /\ Len(s) \in Nat \ {0}
           /\ (<<f>> \o Tail(s))[1] = f
           /\ \A i \in 2 .. Len(s) : (<<f>> \o Tail(s))[i] = s[i]
<1> DEFINE u == Tail(s)
           t == <<f>> \o u
<1>1. /\ IsSeq(u) /\ Len(s) \in Nat \ {0} /\ Len(u) = Len(s) - 1
      /\ \A i \in 1 .. Len(s) - 1 : u[i] = s[i + 1]
  BY PopSeq
<1> HIDE DEF u
<1>2. /\ IsSeq(t) /\ Len(t) = Len(u) + 1 /\ t[1] = f
      /\ \A i \in 1 .. Len(u) : t[i + 1] = u[i]
  BY <1>1, PushSeq
<1> HIDE DEF t
<1>3. ASSUME NEW i \in 2 .. Len(s)
      PROVE  t[i] = s[i]
  <2>1. i - 1 \in 1 .. Len(u) /\ (i - 1) + 1 = i
    BY <1>1
  <2>2. t[(i - 1) + 1] = u[i - 1] /\ u[i - 1] = s[(i - 1) + 1]
    BY <1>1, <1>2, <2>1
  <2> QED BY <2>1, <2>2
<1> QED BY <1>1, <1>2, <1>3 DEF t, u

-----------------------------------------------------------------------------
(* What the value types of a program are made of.                          *)

(* The parts of a value have a codec too, and an object has the fields of  *)
(* a definition.                                                           *)
LEMMA PartShapes ==
    ASSUME NEW fields, NEW shapes, ValidFieldIds(fields), ValidShapes(shapes, fields),
           NEW shape \in shapes
    PROVE  /\ shape.kind \in {"vector", "optional", "array", "span"} => shape.elem \in shapes
           /\ shape.kind \in MapKind => shape.key \in shapes /\ shape.elem \in shapes
           /\ shape.kind \in {"tuple", "variant"} => shape.elems \in Seq(shapes)
           /\ shape.kind \in {"bitset", "array", "span"} => shape.size \in Nat
           /\ shape.kind = "raw" => shape.width \in Nat \ {0}
           /\ shape.kind = "object" =>
                 /\ shape.type \in DOMAIN fields
                 /\ Len(fields[shape.type]) \in Nat
                 /\ DOMAIN fields[shape.type] = 1 .. Len(fields[shape.type])
                 /\ \A i \in 1 .. Len(fields[shape.type]) :
                       /\ fields[shape.type][i].shape \in shapes
                       /\ fields[shape.type][i].id \in Nat \ {0}
<1>1. /\ shape.kind = "object" => shape.type \in DOMAIN fields
      /\ shape.kind \in {"tuple", "variant"} => shape.elems \in Seq(shapes)
      /\ shape.kind \in {"bitset", "array", "span"} => shape.size \in Nat
      /\ shape.kind = "raw" => shape.width \in Nat \ {0}
      /\ Components(fields, shape) \subseteq shapes
  BY DEF ValidShapes
<1>2. ASSUME shape.kind \in {"vector", "optional", "array", "span"}
      PROVE  shape.elem \in shapes
  <2>1. Components(fields, shape) = {shape.elem}
    BY <1>2 DEF Components, MapKind
  <2> QED BY <1>1, <2>1
<1>3. ASSUME shape.kind \in MapKind
      PROVE  shape.key \in shapes /\ shape.elem \in shapes
  <2>1. Components(fields, shape) = {shape.key, shape.elem}
    BY <1>3 DEF Components, MapKind
  <2> QED BY <1>1, <2>1
<1>4. ASSUME shape.kind = "object"
      PROVE  /\ Len(fields[shape.type]) \in Nat
             /\ DOMAIN fields[shape.type] = 1 .. Len(fields[shape.type])
             /\ \A i \in 1 .. Len(fields[shape.type]) :
                   /\ fields[shape.type][i].shape \in shapes
                   /\ fields[shape.type][i].id \in Nat \ {0}
  <2> DEFINE own == fields[shape.type]
  <2>1. shape.type \in DOMAIN fields
    BY <1>1, <1>4
  <2>2. /\ own \in Seq({own[i] : i \in DOMAIN own})
        /\ \A i \in DOMAIN own : own[i].id \in Nat \ {0}
    BY <2>1 DEF ValidFieldIds, IsSeq
  <2>3. Components(fields, shape) = {own[i].shape : i \in DOMAIN own}
    BY <1>4 DEF Components, MapKind
  <2> HIDE DEF own
  <2>4. Len(own) \in Nat /\ DOMAIN own = 1 .. Len(own)
    BY <2>2
  <2>5. \A i \in DOMAIN own : own[i].shape \in shapes
    BY <1>1, <2>3
  <2> QED BY <2>2, <2>4, <2>5 DEF own
<1> QED BY <1>1, <1>2, <1>3, <1>4

(* What dispatch_field_by_id finds for an id the type has.                 *)
LEMMA DispatchedField ==
    ASSUME NEW fields, NEW shapes, ValidFieldIds(fields), ValidShapes(shapes, fields),
           NEW shape \in shapes, shape.kind = "object",
           NEW id \in FieldIds(fields, shape.type)
    PROVE  DispatchFieldById(fields, shape.type, id).shape \in shapes /\ id \in Nat \ {0}
<1> DEFINE own == fields[shape.type]
<1>1. /\ shape.type \in DOMAIN fields
      /\ DOMAIN own = 1 .. Len(own)
      /\ \A i \in 1 .. Len(own) : own[i].shape \in shapes /\ own[i].id \in Nat \ {0}
  BY PartShapes
<1>2. PICK i \in DOMAIN own : own[i].id = id
  BY DEF FieldIds
<1> DEFINE k == CHOOSE i_1 \in DOMAIN own : own[i_1].id = id
<1>3. k \in DOMAIN own
  BY <1>2
<1>4. DispatchFieldById(fields, shape.type, id) = own[k]
  BY Zenon DEF DispatchFieldById
<1> HIDE DEF own, k
<1> QED BY <1>1, <1>2, <1>3, <1>4

-----------------------------------------------------------------------------
(* Induction, for a set: what is in it is what holds.                      *)

(* Induction over the natural numbers, for a set of them.                  *)
LEMMA NatSetInduction ==
    ASSUME NEW P, 0 \in P, \A n \in Nat : n \in P => n + 1 \in P
    PROVE  Nat \subseteq P
<1> DEFINE T == Nat \ P
<1> SUFFICES ASSUME T # {} PROVE FALSE
  OBVIOUS
<1>1. PICK n \in T : \A m \in T : ~(<<m, n>> \in OpToRel(<, Nat))
  <2> HIDE DEF T
  <2>1. T \subseteq Nat
    BY DEF T
  <2> QED BY <2>1, NatLessThanWellFounded, WFMin, Zenon
<1>2. n \in Nat \ {0} /\ n - 1 \in Nat
  OBVIOUS
<1>3. n - 1 \notin T
  <2>1. <<n - 1, n>> \in OpToRel(<, Nat)
    BY <1>2 DEF OpToRel
  <2> QED BY <1>1, <2>1
<1>4. n - 1 \in P /\ (n - 1) + 1 = n
  BY <1>2, <1>3
<1> QED BY <1>2, <1>4

(* Induction over an interval.                                             *)
LEMMA IntervalInduction ==
    ASSUME NEW n \in Nat, NEW P, 0 \in P,
           \A i \in 1 .. n : i - 1 \in P => i \in P
    PROVE  0 .. n \subseteq P
<1> DEFINE Q == {i \in Nat : i <= n => i \in P}
<1>1. 0 \in Q
  OBVIOUS
<1>2. ASSUME NEW i \in Nat, i \in Q PROVE i + 1 \in Q
  <2>1. i + 1 <= n => i + 1 \in 1 .. n /\ (i + 1) - 1 = i /\ i <= n
    OBVIOUS
  <2> QED BY <1>2, <2>1
<1> HIDE DEF Q
<1>3. Nat \subseteq Q
  BY <1>1, <1>2, NatSetInduction
<1> QED BY <1>3 DEF Q

(* Induction over the subsets of a finite set.                             *)
LEMMA SubsetInduction ==
    ASSUME NEW D, IsFiniteSet(D), NEW P, {} \in P,
           \A S \in SUBSET D : S # {} /\ (\A x \in S : S \ {x} \in P) => S \in P
    PROVE  SUBSET D \subseteq P
<1> DEFINE T == (SUBSET D) \ P
<1> SUFFICES ASSUME T # {} PROVE FALSE
  OBVIOUS
<1>1. FiniteSubsetsOf(D) = SUBSET D
  BY FS_FiniteSubsetsOfFinite
<1>2. PICK S \in T : \A R \in T : ~(<<R, S>> \in StrictSubsetOrdering(D))
  <2> HIDE DEF T
  <2>1. T \subseteq FiniteSubsetsOf(D)
    BY <1>1 DEF T
  <2>2. IsWellFoundedOn(StrictSubsetOrdering(D), FiniteSubsetsOf(D))
    BY FS_StrictSubsetOrderingWellFounded
  <2> QED BY <2>1, <2>2, WFMin, Zenon
<1>3. ASSUME NEW x \in S PROVE S \ {x} \in P
  <2>1. <<S \ {x}, S>> \in StrictSubsetOrdering(D)
    BY DEF StrictSubsetOrdering
  <2> QED BY <1>2, <2>1
<1> QED BY <1>3

-----------------------------------------------------------------------------
(* Sums of weights.                                                        *)

(* g is the running total of the weights w of 1 .. n.                      *)
RunningTotal(g, w, n) ==
    /\ g \in [0 .. n -> Int] /\ g[0] = 0
    /\ \A i \in 1 .. n : w[i] \in Int /\ g[i] = g[i - 1] + w[i]

(* Integers have running totals.                                          *)
LEMMA RunningTotalExists ==
    ASSUME NEW n \in Nat, NEW w, \A i \in 1 .. n : w[i] \in Int
    PROVE  \E g : RunningTotal(g, w, n)
<1> DEFINE P == {m \in 0 .. n : \E g : RunningTotal(g, w, m)}
<1>1. 0 \in P
  <2>1. RunningTotal([i \in 0 .. 0 |-> 0], w, 0)
    BY DEF RunningTotal
  <2> QED BY <2>1
<1>2. ASSUME NEW m \in 1 .. n, m - 1 \in P PROVE m \in P
  <2>1. PICK g : RunningTotal(g, w, m - 1)
    BY <1>2
  <2> DEFINE h == [i \in 0 .. m |-> IF i = m THEN g[m - 1] + w[m] ELSE g[i]]
  <2>2. RunningTotal(h, w, m)
    <3>1. h \in [0 .. m -> Int] /\ h[0] = 0
      BY <2>1 DEF RunningTotal
    <3>2. ASSUME NEW i \in 1 .. m PROVE w[i] \in Int /\ h[i] = h[i - 1] + w[i]
      <4>1. CASE i = m
        BY <4>1
      <4>2. CASE i # m
        BY <2>1, <4>2 DEF RunningTotal
      <4> QED BY <4>1, <4>2
    <3> QED BY <3>1, <3>2 DEF RunningTotal
  <2> QED BY <2>2
<1> HIDE DEF P
<1>3. 0 .. n \subseteq P
  BY <1>1, <1>2, IntervalInduction, Zenon
<1>4. n \in P
  BY <1>3
<1> QED BY <1>4 DEF P

(* One more weight in front adds itself to every total.                    *)
LEMMA RunningTotalShift ==
    ASSUME NEW n \in Nat, NEW w, NEW v, \A i \in 1 .. n : v[i + 1] = w[i],
           NEW g, RunningTotal(g, w, n), NEW h, RunningTotal(h, v, n + 1)
    PROVE  h[n + 1] = g[n] + v[1]
<1> DEFINE P == {i \in 0 .. n : h[i + 1] = g[i] + v[1]}
<1>1. 0 \in P
  BY DEF RunningTotal
<1>2. ASSUME NEW i \in 1 .. n, i - 1 \in P PROVE i \in P
  <2>1. i + 1 \in 1 .. n + 1 /\ (i + 1) - 1 = i /\ (i - 1) + 1 = i
    OBVIOUS
  <2>2. h[i + 1] = h[i] + v[i + 1] /\ g[i] = g[i - 1] + w[i] /\ v[i + 1] = w[i]
    BY <2>1 DEF RunningTotal
  <2>3. h[i] = g[i - 1] + v[1]
    BY <1>2, <2>1
  <2>4. g[i - 1] \in Int /\ w[i] \in Int /\ v[1] \in Int
    <3>1. i - 1 \in 0 .. n /\ 1 \in 1 .. n + 1
      OBVIOUS
    <3> QED BY <3>1 DEF RunningTotal
  <2>5. h[i + 1] = g[i] + v[1]
    BY <2>2, <2>3, <2>4
  <2> QED BY <2>5
<1> HIDE DEF P
<1>3. 0 .. n \subseteq P
  BY <1>1, <1>2, IntervalInduction, Zenon
<1>4. n \in P
  BY <1>3
<1> QED BY <1>4 DEF P

(* The same weights have the same total.                                   *)
LEMMA RunningTotalUnique ==
    ASSUME NEW n \in Nat, NEW w, NEW g, RunningTotal(g, w, n),
           NEW h, RunningTotal(h, w, n)
    PROVE  g[n] = h[n]
<1> DEFINE P == {i \in 0 .. n : g[i] = h[i]}
<1>1. 0 \in P
  BY DEF RunningTotal
<1>2. ASSUME NEW i \in 1 .. n, i - 1 \in P PROVE i \in P
  BY <1>2 DEF RunningTotal
<1> HIDE DEF P
<1>3. 0 .. n \subseteq P
  BY <1>1, <1>2, IntervalInduction, Zenon
<1>4. n \in P
  BY <1>3
<1> QED BY <1>4 DEF P

(* Weights that are all zero have no total.                                *)
LEMMA RunningTotalZero ==
    ASSUME NEW n \in Nat, NEW g, RunningTotal(g, [i \in 1 .. n |-> 0], n)
    PROVE  g[n] = 0
<1> DEFINE P == {i \in 0 .. n : g[i] = 0}
<1>1. 0 \in P
  BY DEF RunningTotal
<1>2. ASSUME NEW i \in 1 .. n, i - 1 \in P PROVE i \in P
  BY <1>2 DEF RunningTotal
<1> HIDE DEF P
<1>3. 0 .. n \subseteq P
  BY <1>1, <1>2, IntervalInduction, Zenon
<1>4. n \in P
  BY <1>3
<1> QED BY <1>4 DEF P

(* What remains of the weights when only those of S count.                 *)
Masked(w, n, S) == [i \in 1 .. n |-> IF i \in S THEN w[i] ELSE 0]

TotalOf(w, n, S) == (CHOOSE g : RunningTotal(g, Masked(w, n, S), n))[n]

(* It is the weight of any member and of the others.                       *)
LEMMA TotalOfPart ==
    ASSUME NEW n \in Nat, NEW w, \A i \in 1 .. n : w[i] \in Int,
           NEW S \in SUBSET (1 .. n)
    PROVE  /\ TotalOf(w, n, {}) = 0
           /\ \A x \in S : TotalOf(w, n, S) = w[x] + TotalOf(w, n, S \ {x})
<1>1. ASSUME NEW R
      PROVE  \E g : RunningTotal(g, Masked(w, n, R), n) /\ g[n] = TotalOf(w, n, R)
  <2>1. \A i \in 1 .. n : Masked(w, n, R)[i] \in Int
    BY DEF Masked
  <2>2. \E g : RunningTotal(g, Masked(w, n, R), n)
    BY <2>1, RunningTotalExists
  <2> QED BY <2>2, Zenon DEF TotalOf
<1>2. TotalOf(w, n, {}) = 0
  <2>1. Masked(w, n, {}) = [i \in 1 .. n |-> 0]
    BY DEF Masked
  <2> QED BY <1>1, <2>1, RunningTotalZero
<1>3. ASSUME NEW x \in S
      PROVE  TotalOf(w, n, S) = w[x] + TotalOf(w, n, S \ {x})
  <2>1. PICK g : RunningTotal(g, Masked(w, n, S), n) /\ g[n] = TotalOf(w, n, S)
    BY <1>1
  <2>2. PICK h : /\ RunningTotal(h, Masked(w, n, S \ {x}), n)
                 /\ h[n] = TotalOf(w, n, S \ {x})
    BY <1>1
  <2> DEFINE u == Masked(w, n, S)
             v == Masked(w, n, S \ {x})
  <2>3. /\ x \in 1 .. n /\ u \in [1 .. n -> Int] /\ v \in [1 .. n -> Int]
        /\ u[x] = w[x]
    BY DEF Masked
  <2>4. v[x] = 0 /\ \A i \in 1 .. n : i # x => v[i] = u[i]
    BY DEF Masked
  <2>5. RunningTotal(g, u, n) /\ RunningTotal(h, v, n)
    BY <2>1, <2>2
  <2> HIDE DEF u, v
  <2>6. ASSUME NEW i \in 1 .. n
        PROVE  /\ g[i] = g[i - 1] + u[i] /\ h[i] = h[i - 1] + v[i]
               /\ h[i - 1] \in Int /\ g[i - 1] \in Int /\ u[i] \in Int /\ v[i] \in Int
    <3>1. i - 1 \in 0 .. n
      OBVIOUS
    <3> QED BY <2>3, <2>5, <3>1 DEF RunningTotal
  <2> DEFINE P == {i \in 0 .. n : g[i] = (IF i < x THEN 0 ELSE u[x]) + h[i]}
  <2>7. 0 \in P
    BY <2>3, <2>5 DEF RunningTotal
  <2>8. ASSUME NEW i \in 1 .. n, i - 1 \in P PROVE i \in P
    <3>1. g[i - 1] = (IF i - 1 < x THEN 0 ELSE u[x]) + h[i - 1]
      BY <2>8
    <3>2. /\ g[i] = g[i - 1] + u[i] /\ h[i] = h[i - 1] + v[i]
          /\ h[i - 1] \in Int /\ g[i - 1] \in Int /\ u[i] \in Int /\ u[x] \in Int
      BY <2>3, <2>6
    <3>3. v[i] = IF i = x THEN 0 ELSE u[i]
      BY <2>4
    <3>4. CASE i < x
      <4>1. g[i - 1] = h[i - 1] /\ v[i] = u[i]
        BY <2>3, <3>1, <3>2, <3>3, <3>4
      <4> QED BY <3>2, <3>4, <4>1
    <3>5. CASE i = x
      <4>1. g[i - 1] = h[i - 1] /\ v[i] = 0
        BY <2>3, <3>1, <3>2, <3>3, <3>5
      <4> QED BY <3>2, <3>5, <4>1
    <3>6. CASE i > x
      <4>1. g[i - 1] = u[x] + h[i - 1] /\ v[i] = u[i]
        BY <2>3, <3>1, <3>2, <3>3, <3>6
      <4>2. x \in Int
        BY <2>3
      <4>3. g[i] = u[x] + h[i]
        BY <3>2, <4>1
      <4> QED BY <3>6, <4>2, <4>3
    <3> QED BY <2>3, <3>4, <3>5, <3>6
  <2> HIDE DEF P
  <2>9. 0 .. n \subseteq P
    BY <2>7, <2>8, IntervalInduction, Zenon
  <2>10. n \in P
    BY <2>9
  <2>11. g[n] = u[x] + h[n]
    BY <2>3, <2>10 DEF P
  <2> QED BY <2>1, <2>2, <2>3, <2>11
<1> QED BY <1>2, <1>3

(* A sum that picks the indices of the weights in some order.              *)
AddsUp(sum, w, n) ==
    sum = [S \in SUBSET (1 .. n) |->
              IF S = {} THEN 0
              ELSE w[CHOOSE x \in S : TRUE] + sum[S \ {CHOOSE x \in S : TRUE}]]

(* However the weights are picked, the sum is their running total.         *)
LEMMA SumIsRunningTotal ==
    ASSUME NEW n \in Nat, NEW w, NEW g, RunningTotal(g, w, n)
    PROVE  (\E sum : AddsUp(sum, w, n)) /\ \A sum : AddsUp(sum, w, n) => sum[1 .. n] = g[n]
<1> DEFINE D == 1 .. n
           pick(S) == CHOOSE x \in S : TRUE
           total == [S \in SUBSET D |-> TotalOf(w, n, S)]
<1>0. \A i \in 1 .. n : w[i] \in Int
  BY DEF RunningTotal
<1>1. ASSUME NEW S \in SUBSET D, S # {}
      PROVE  /\ pick(S) \in S /\ S \ {pick(S)} \in SUBSET D
             /\ TotalOf(w, n, S) = w[pick(S)] + TotalOf(w, n, S \ {pick(S)})
  <2>1. pick(S) \in S
    BY <1>1, Zenon
  <2> HIDE DEF pick
  <2>2. S \ {pick(S)} \in SUBSET D /\ S \in SUBSET (1 .. n)
    OBVIOUS
  <2>3. \A x \in S : TotalOf(w, n, S) = w[x] + TotalOf(w, n, S \ {x})
    BY <1>0, <2>2, TotalOfPart
  <2> QED BY <2>1, <2>2, <2>3
<1>2. TotalOf(w, n, {}) = 0
  BY <1>0, TotalOfPart
<1>3. total = [S \in SUBSET D |->
                 IF S = {} THEN 0 ELSE w[pick(S)] + total[S \ {pick(S)}]]
  <2> HIDE DEF pick
  <2>1. ASSUME NEW S \in SUBSET D
        PROVE  TotalOf(w, n, S) =
                 IF S = {} THEN 0 ELSE w[pick(S)] + total[S \ {pick(S)}]
    BY <1>1, <1>2
  <2> QED BY <2>1
<1>4. ASSUME NEW sum, sum = [S \in SUBSET D |->
                 IF S = {} THEN 0 ELSE w[pick(S)] + sum[S \ {pick(S)}]]
      PROVE  sum[D] = g[n]
  <2> DEFINE P == {S \in SUBSET D : sum[S] = TotalOf(w, n, S)}
  <2>1. IsFiniteSet(D)
    BY FS_Interval
  <2> HIDE DEF pick
  <2>2. {} \in P
    BY <1>2, <1>4
  <2>3. ASSUME NEW S \in SUBSET D, S # {}, \A x \in S : S \ {x} \in P
        PROVE  S \in P
    <3>1. pick(S) \in S /\ S \ {pick(S)} \in P
      BY <1>1, <2>3
    <3>2. sum[S] = w[pick(S)] + sum[S \ {pick(S)}]
      BY <1>4, <2>3
    <3> QED BY <1>1, <2>3, <3>1, <3>2
  <2> HIDE DEF P, D
  <2>4. D \in P
    BY <2>1, <2>2, <2>3, SubsetInduction
  <2>5. sum[D] = TotalOf(w, n, D)
    BY <2>4 DEF P
  <2>6. TotalOf(w, n, D) = g[n]
    <3>1. \A i \in 1 .. n : Masked(w, n, D)[i] = w[i]
      BY DEF Masked, D
    <3>2. PICK h : RunningTotal(h, w, n) /\ h[n] = TotalOf(w, n, D)
      <4>1. RunningTotal(g, Masked(w, n, D), n)
        BY <3>1 DEF RunningTotal
      <4>2. PICK h : RunningTotal(h, Masked(w, n, D), n) /\ h[n] = TotalOf(w, n, D)
        BY <4>1, Zenon DEF TotalOf
      <4> QED BY <3>1, <4>2 DEF RunningTotal
    <3>3. h[n] = g[n]
      BY <3>2, RunningTotalUnique
    <3> QED BY <3>2, <3>3
  <2> QED BY <2>5, <2>6
<1>5. AddsUp(total, w, n)
  BY <1>3, Zenon DEF AddsUp
<1>6. ASSUME NEW sum, AddsUp(sum, w, n) PROVE sum[D] = g[n]
  BY <1>4, <1>6, Zenon DEF AddsUp
<1> QED BY <1>5, <1>6, Zenon

=============================================================================
