----------------------- MODULE CompactIntegers_proofs -----------------------
(***************************************************************************)
(* The integer codec of the compact adapter, for every integer and not     *)
(* only those near the edges of its encodings: what write_uint and         *)
(* write_int encode is what read_uint and read_int decode, from all of its *)
(* bytes and from no fewer, and what the receiving type cannot hold is     *)
(* refused before anything is consumed.                                    *)
(***************************************************************************)
EXTENDS MCCompactIntegers, ReaderLemmas

-----------------------------------------------------------------------------
(* Numbers and their bytes.                                                *)

(* The numbers eight bytes have room for.                                  *)
InWord(v) == v \in Nat /\ Shifted(v, 8) = 0

(* A shift by n + 1 bytes is one by n bytes and another.                   *)
LEMMA ShiftChain ==
    ASSUME NEW v \in Nat
    PROVE  /\ Shifted(v, 0) = v
           /\ \A n \in 0 .. 7 : Shifted(v, n + 1) = Shifted(v, n) \div 256
           /\ \A n \in 0 .. 8 : Shifted(v, n) \in Nat
<1> DEFINE s1 == v \div 256
           s2 == s1 \div 256
           s3 == s2 \div 256
           s4 == s3 \div 256
           s5 == s4 \div 256
           s6 == s5 \div 256
           s7 == s6 \div 256
           s8 == s7 \div 256
           s  == <<v, s1, s2, s3, s4, s5, s6, s7, s8>>
<1>1. \A n : Shifted(v, n) = s[n + 1]
  BY Zenon DEF Shifted
<1>2. ASSUME NEW m \in Nat PROVE m \div 256 \in Nat
  OBVIOUS
<1>3. s1 \in Nat BY <1>2
<1> HIDE DEF s1
<1>4. s2 \in Nat BY <1>2, <1>3
<1> HIDE DEF s2
<1>5. s3 \in Nat BY <1>2, <1>4
<1> HIDE DEF s3
<1>6. s4 \in Nat BY <1>2, <1>5
<1> HIDE DEF s4
<1>7. s5 \in Nat BY <1>2, <1>6
<1> HIDE DEF s5
<1>8. s6 \in Nat BY <1>2, <1>7
<1> HIDE DEF s6
<1>9. s7 \in Nat BY <1>2, <1>8
<1> HIDE DEF s7
<1>10. s8 \in Nat BY <1>2, <1>9
<1> HIDE DEF s8
<1>11. /\ Shifted(v, 0) = v /\ Shifted(v, 1) = s1 /\ Shifted(v, 2) = s2
       /\ Shifted(v, 3) = s3 /\ Shifted(v, 4) = s4 /\ Shifted(v, 5) = s5
       /\ Shifted(v, 6) = s6 /\ Shifted(v, 7) = s7 /\ Shifted(v, 8) = s8
  <2>1. /\ s[0 + 1] = v /\ s[1 + 1] = s1 /\ s[2 + 1] = s2 /\ s[3 + 1] = s3 /\ s[4 + 1] = s4
        /\ s[5 + 1] = s5 /\ s[6 + 1] = s6 /\ s[7 + 1] = s7 /\ s[8 + 1] = s8
    OBVIOUS
  <2> HIDE DEF s
  <2> QED BY <1>1, <2>1, Zenon
<1>12. /\ s1 = v \div 256 /\ s2 = s1 \div 256 /\ s3 = s2 \div 256 /\ s4 = s3 \div 256
       /\ s5 = s4 \div 256 /\ s6 = s5 \div 256 /\ s7 = s6 \div 256 /\ s8 = s7 \div 256
  BY DEF s1, s2, s3, s4, s5, s6, s7, s8
<1> HIDE DEF s
<1>13. ASSUME NEW n \in 0 .. 7
       PROVE  Shifted(v, n + 1) = Shifted(v, n) \div 256
  <2>1. /\ Shifted(v, 1) = Shifted(v, 0) \div 256 /\ Shifted(v, 2) = Shifted(v, 1) \div 256
        /\ Shifted(v, 3) = Shifted(v, 2) \div 256 /\ Shifted(v, 4) = Shifted(v, 3) \div 256
        /\ Shifted(v, 5) = Shifted(v, 4) \div 256 /\ Shifted(v, 6) = Shifted(v, 5) \div 256
        /\ Shifted(v, 7) = Shifted(v, 6) \div 256 /\ Shifted(v, 8) = Shifted(v, 7) \div 256
    <3>1. Shifted(v, 1) = Shifted(v, 0) \div 256
      <4>1. Shifted(v, 1) = s1 /\ Shifted(v, 0) = v /\ s1 = v \div 256
        BY <1>11, <1>12
      <4> QED BY <4>1
    <3>2. Shifted(v, 2) = Shifted(v, 1) \div 256
      <4>1. Shifted(v, 2) = s2 /\ Shifted(v, 1) = s1 /\ s2 = s1 \div 256
        BY <1>11, <1>12
      <4> QED BY <4>1
    <3>3. Shifted(v, 3) = Shifted(v, 2) \div 256
      <4>1. Shifted(v, 3) = s3 /\ Shifted(v, 2) = s2 /\ s3 = s2 \div 256
        BY <1>11, <1>12
      <4> QED BY <4>1
    <3>4. Shifted(v, 4) = Shifted(v, 3) \div 256
      <4>1. Shifted(v, 4) = s4 /\ Shifted(v, 3) = s3 /\ s4 = s3 \div 256
        BY <1>11, <1>12
      <4> QED BY <4>1
    <3>5. Shifted(v, 5) = Shifted(v, 4) \div 256
      <4>1. Shifted(v, 5) = s5 /\ Shifted(v, 4) = s4 /\ s5 = s4 \div 256
        BY <1>11, <1>12
      <4> QED BY <4>1
    <3>6. Shifted(v, 6) = Shifted(v, 5) \div 256
      <4>1. Shifted(v, 6) = s6 /\ Shifted(v, 5) = s5 /\ s6 = s5 \div 256
        BY <1>11, <1>12
      <4> QED BY <4>1
    <3>7. Shifted(v, 7) = Shifted(v, 6) \div 256
      <4>1. Shifted(v, 7) = s7 /\ Shifted(v, 6) = s6 /\ s7 = s6 \div 256
        BY <1>11, <1>12
      <4> QED BY <4>1
    <3>8. Shifted(v, 8) = Shifted(v, 7) \div 256
      <4>1. Shifted(v, 8) = s8 /\ Shifted(v, 7) = s7 /\ s8 = s7 \div 256
        BY <1>11, <1>12
      <4> QED BY <4>1
    <3> QED BY <3>1, <3>2, <3>3, <3>4, <3>5, <3>6, <3>7, <3>8, Zenon
  <2>2. n \in {0, 1, 2, 3, 4, 5, 6, 7}
    OBVIOUS
  <2>3. /\ 0 + 1 = 1 /\ 1 + 1 = 2 /\ 2 + 1 = 3 /\ 3 + 1 = 4 /\ 4 + 1 = 5 /\ 5 + 1 = 6
        /\ 6 + 1 = 7 /\ 7 + 1 = 8
    OBVIOUS
  <2> QED BY <2>1, <2>2, <2>3
<1>14. ASSUME NEW n \in 0 .. 8
       PROVE  Shifted(v, n) \in Nat
  <2>1. n \in {0, 1, 2, 3, 4, 5, 6, 7, 8}
    OBVIOUS
  <2> QED BY <1>3, <1>4, <1>5, <1>6, <1>7, <1>8, <1>9, <1>10, <1>11, <2>1, Zenon
<1> QED BY <1>11, <1>13, <1>14, Zenon

(* The chain spelled out.                                                  *)
LEMMA Shifts ==
    ASSUME NEW v \in Nat
    PROVE  /\ Shifted(v, 0) = v
           /\ Shifted(v, 1) = v \div 256
           /\ Shifted(v, 2) = Shifted(v, 1) \div 256
           /\ Shifted(v, 3) = Shifted(v, 2) \div 256
           /\ Shifted(v, 4) = Shifted(v, 3) \div 256
           /\ Shifted(v, 5) = Shifted(v, 4) \div 256
           /\ Shifted(v, 6) = Shifted(v, 5) \div 256
           /\ Shifted(v, 7) = Shifted(v, 6) \div 256
           /\ Shifted(v, 8) = Shifted(v, 7) \div 256
           /\ Shifted(v, 1) \in Nat /\ Shifted(v, 2) \in Nat /\ Shifted(v, 3) \in Nat
           /\ Shifted(v, 4) \in Nat /\ Shifted(v, 5) \in Nat /\ Shifted(v, 6) \in Nat
           /\ Shifted(v, 7) \in Nat /\ Shifted(v, 8) \in Nat
<1>1. /\ Shifted(v, 0) = v
      /\ \A n \in 0 .. 7 : Shifted(v, n + 1) = Shifted(v, n) \div 256
      /\ \A n \in 0 .. 8 : Shifted(v, n) \in Nat
  BY ShiftChain
<1>2. Shifted(v, 1) = Shifted(v, 0) \div 256
  <2>1. 0 \in 0 .. 7 /\ 0 + 1 = 1
    OBVIOUS
  <2>2. Shifted(v, 0 + 1) = Shifted(v, 0) \div 256
    BY <1>1, <2>1
  <2> QED BY <2>1, <2>2
<1>3. Shifted(v, 2) = Shifted(v, 1) \div 256
  <2>1. 1 \in 0 .. 7 /\ 1 + 1 = 2
    OBVIOUS
  <2>2. Shifted(v, 1 + 1) = Shifted(v, 1) \div 256
    BY <1>1, <2>1
  <2> QED BY <2>1, <2>2
<1>4. Shifted(v, 3) = Shifted(v, 2) \div 256
  <2>1. 2 \in 0 .. 7 /\ 2 + 1 = 3
    OBVIOUS
  <2>2. Shifted(v, 2 + 1) = Shifted(v, 2) \div 256
    BY <1>1, <2>1
  <2> QED BY <2>1, <2>2
<1>5. Shifted(v, 4) = Shifted(v, 3) \div 256
  <2>1. 3 \in 0 .. 7 /\ 3 + 1 = 4
    OBVIOUS
  <2>2. Shifted(v, 3 + 1) = Shifted(v, 3) \div 256
    BY <1>1, <2>1
  <2> QED BY <2>1, <2>2
<1>6. Shifted(v, 5) = Shifted(v, 4) \div 256
  <2>1. 4 \in 0 .. 7 /\ 4 + 1 = 5
    OBVIOUS
  <2>2. Shifted(v, 4 + 1) = Shifted(v, 4) \div 256
    BY <1>1, <2>1
  <2> QED BY <2>1, <2>2
<1>7. Shifted(v, 6) = Shifted(v, 5) \div 256
  <2>1. 5 \in 0 .. 7 /\ 5 + 1 = 6
    OBVIOUS
  <2>2. Shifted(v, 5 + 1) = Shifted(v, 5) \div 256
    BY <1>1, <2>1
  <2> QED BY <2>1, <2>2
<1>8. Shifted(v, 7) = Shifted(v, 6) \div 256
  <2>1. 6 \in 0 .. 7 /\ 6 + 1 = 7
    OBVIOUS
  <2>2. Shifted(v, 6 + 1) = Shifted(v, 6) \div 256
    BY <1>1, <2>1
  <2> QED BY <2>1, <2>2
<1>9. Shifted(v, 8) = Shifted(v, 7) \div 256
  <2>1. 7 \in 0 .. 7 /\ 7 + 1 = 8
    OBVIOUS
  <2>2. Shifted(v, 7 + 1) = Shifted(v, 7) \div 256
    BY <1>1, <2>1
  <2> QED BY <2>1, <2>2
<1>10. /\ Shifted(v, 1) \in Nat /\ Shifted(v, 2) \in Nat /\ Shifted(v, 3) \in Nat
       /\ Shifted(v, 4) \in Nat /\ Shifted(v, 5) \in Nat /\ Shifted(v, 6) \in Nat
       /\ Shifted(v, 7) \in Nat /\ Shifted(v, 8) \in Nat
  BY <1>1
<1>11. Shifted(v, 1) = v \div 256
  BY <1>1, <1>2
<1> QED BY <1>1, <1>3, <1>4, <1>5, <1>6, <1>7, <1>8, <1>9, <1>10, <1>11

(* A smaller number has no more bytes.                                     *)
LEMMA ShiftMonotone ==
    ASSUME NEW v \in Nat, NEW w \in Nat, v <= w
    PROVE  Shifted(v, 8) <= Shifted(w, 8)
<1>1. ASSUME NEW a \in Nat, NEW b \in Nat, a <= b
      PROVE  a \div 256 <= b \div 256
  BY <1>1
<1>2. Shifted(v, 1) <= Shifted(w, 1) BY <1>1, Shifts
<1>3. Shifted(v, 2) <= Shifted(w, 2) BY <1>1, <1>2, Shifts
<1>4. Shifted(v, 3) <= Shifted(w, 3) BY <1>1, <1>3, Shifts
<1>5. Shifted(v, 4) <= Shifted(w, 4) BY <1>1, <1>4, Shifts
<1>6. Shifted(v, 5) <= Shifted(w, 5) BY <1>1, <1>5, Shifts
<1>7. Shifted(v, 6) <= Shifted(w, 6) BY <1>1, <1>6, Shifts
<1>8. Shifted(v, 7) <= Shifted(w, 7) BY <1>1, <1>7, Shifts
<1> QED BY <1>1, <1>8, Shifts

(* Every unsigned integer of the program fits a word, and the magnitude of *)
(* every signed one is among them.                                         *)
LEMMA UintInWord ==
    /\ \A v \in 0 .. Uint64Max : v \in Nat /\ InWord(v)
    /\ Uint64Max \in Nat /\ Int64Max \in Nat /\ 256 <= Int64Max
    /\ Int64Max + 1 <= Uint64Max
<1>1. /\ Int64Max \in Nat /\ 256 <= Int64Max /\ Shifted(2 * Int64Max + 1, 8) = 0
  BY Int64MaxAssumption
<1>2. Uint64Max \in Nat /\ Uint64Max = 2 * Int64Max + 1 /\ Int64Max + 1 <= Uint64Max
  BY <1>1 DEF Uint64Max
<1>3. ASSUME NEW v \in 0 .. Uint64Max
      PROVE  v \in Nat /\ InWord(v)
  <2>1. v \in Nat /\ v <= Uint64Max
    BY <1>2
  <2>2. Shifted(v, 8) <= Shifted(Uint64Max, 8) /\ Shifted(Uint64Max, 8) = 0
    BY <1>1, <1>2, <2>1, ShiftMonotone, Zenon
  <2>3. Shifted(v, 8) \in Nat
    BY <2>1, Shifts
  <2> QED BY <2>1, <2>2, <2>3 DEF InWord
<1> QED BY <1>1, <1>2, <1>3

(* compact_byte_count: the bytes hold the number.                          *)
LEMMA ByteCount ==
    ASSUME NEW v \in Nat, InWord(v)
    PROVE  CompactByteCount(v) \in 1 .. 8 /\ Shifted(v, CompactByteCount(v)) = 0
<1> DEFINE fits(n) == Shifted(v, n) = 0 /\ (n = 1 \/ Shifted(v, n - 1) # 0)
<1>1. \E n \in 1 .. 8 : fits(n)
  <2>1. 2 - 1 = 1 /\ 3 - 1 = 2 /\ 4 - 1 = 3 /\ 5 - 1 = 4 /\ 6 - 1 = 5 /\ 7 - 1 = 6 /\ 8 - 1 = 7
    OBVIOUS
  <2>2. fits(1) \/ fits(2) \/ fits(3) \/ fits(4) \/ fits(5) \/ fits(6) \/ fits(7) \/ fits(8)
    BY <2>1, Zenon DEF InWord
  <2>3. 1 \in 1 .. 8 /\ 2 \in 1 .. 8 /\ 3 \in 1 .. 8 /\ 4 \in 1 .. 8
        /\ 5 \in 1 .. 8 /\ 6 \in 1 .. 8 /\ 7 \in 1 .. 8 /\ 8 \in 1 .. 8
    OBVIOUS
  <2> HIDE DEF fits
  <2> QED BY <2>2, <2>3, Zenon
<1>2. CompactByteCount(v) = CHOOSE n \in 1 .. 8 : fits(n)
  BY Zenon DEF CompactByteCount
<1>3. CompactByteCount(v) \in 1 .. 8 /\ fits(CompactByteCount(v))
  <2> HIDE DEF fits
  <2> QED BY <1>1, <1>2, Zenon
<1> QED BY <1>3

(* Beyond the bytes that hold a number there are only zeros.               *)
LEMMA ZerosBeyond ==
    ASSUME NEW v \in Nat, NEW n \in 1 .. 8, Shifted(v, n) = 0
    PROVE  \A i \in n .. 8 : Shifted(v, i) = 0
<1>1. 0 \div 256 = 0
  OBVIOUS
<1>2. /\ Shifted(v, 1) = 0 => Shifted(v, 2) = 0
      /\ Shifted(v, 2) = 0 => Shifted(v, 3) = 0
      /\ Shifted(v, 3) = 0 => Shifted(v, 4) = 0
      /\ Shifted(v, 4) = 0 => Shifted(v, 5) = 0
      /\ Shifted(v, 5) = 0 => Shifted(v, 6) = 0
      /\ Shifted(v, 6) = 0 => Shifted(v, 7) = 0
      /\ Shifted(v, 7) = 0 => Shifted(v, 8) = 0
  BY <1>1, Shifts
<1>3. ASSUME NEW i \in n .. 8
      PROVE  Shifted(v, i) = 0
  <2>1. /\ i \in {1, 2, 3, 4, 5, 6, 7, 8} /\ n \in {1, 2, 3, 4, 5, 6, 7, 8} /\ n <= i
    OBVIOUS
  <2> QED BY <1>2, <2>1
<1> QED BY <1>3

(* write_little_uint puts as many bytes as it is asked for.                *)
LEMMA LittleBytes ==
    ASSUME NEW v \in Nat, NEW n \in 1 .. 8
    PROVE  LittleUint(v, n) \in Seq(Byte) /\ Len(LittleUint(v, n)) = n
<1> DEFINE bytes == LittleUint(v, n)
           byte(i) == Shifted(v, i - 1) % 256
<1>1. ASSUME NEW m \in Nat PROVE m % 256 \in Byte
  BY DEF Byte
<1>2. \A i \in 1 .. 8 : byte(i) \in Byte
  <2>1. \A j \in 0 .. 8 : Shifted(v, j) \in Nat
    BY ShiftChain
  <2>2. ASSUME NEW i \in 1 .. 8
        PROVE  byte(i) \in Byte
    <3>1. i - 1 \in 0 .. 8
      OBVIOUS
    <3>2. Shifted(v, i - 1) \in Nat
      BY <2>1, <3>1
    <3> QED BY <1>1, <3>2
  <2> HIDE DEF byte
  <2> QED BY <2>2
<1>3. bytes = [i \in 1 .. n |-> byte(i)]
  BY Zenon DEF LittleUint
<1>4. 1 .. n \subseteq 1 .. 8 /\ n \in Nat
  OBVIOUS
<1> HIDE DEF byte
<1>5. bytes \in Seq(Byte) /\ Len(bytes) = n
  <2> HIDE DEF bytes
  <2> QED BY <1>2, <1>3, <1>4
<1> QED BY <1>5

(* They are the bytes of the number, least significant first.              *)
LEMMA Digits ==
    ASSUME NEW v \in Nat, NEW n \in 1 .. 8, Shifted(v, n) = 0
    PROVE  \A i \in 1 .. 8 : Digit(LittleUint(v, n), i) = Shifted(v, i - 1) % 256
<1> DEFINE bytes == LittleUint(v, n)
           byte(i) == Shifted(v, i - 1) % 256
<1>1. bytes = [i \in 1 .. n |-> byte(i)]
  BY Zenon DEF LittleUint
<1>2. Len(bytes) = n
  BY LittleBytes
<1>3. ASSUME NEW i \in 1 .. 8, n < i
      PROVE  byte(i) = 0
  <2>1. i - 1 \in n .. 8
    BY <1>3
  <2>2. Shifted(v, i - 1) = 0
    BY <2>1, ZerosBeyond, Zenon
  <2> QED BY <2>2
<1> HIDE DEF byte, bytes
<1>4. Len(bytes) = n /\ \A i \in 1 .. n : bytes[i] = byte(i)
  BY <1>1, <1>2
<1>5. ASSUME NEW i \in 1 .. 8
      PROVE  Digit(bytes, i) = byte(i)
  <2>1. CASE i <= n
    <3>1. i \in 1 .. n
      BY <2>1
    <3>2. Digit(bytes, i) = bytes[i]
      BY <1>4, <2>1, Zenon DEF Digit
    <3> QED BY <1>4, <3>1, <3>2
  <2>2. CASE ~(i <= n)
    <3>1. n < i
      BY <2>2
    <3>2. Digit(bytes, i) = 0
      BY <1>4, <2>2, Zenon DEF Digit
    <3> QED BY <1>3, <3>1, <3>2
  <2> QED BY <2>1, <2>2
<1> QED BY <1>5 DEF bytes, byte

(* load_little_uint of write_little_uint: the number comes back.           *)
LEMMA LittleRoundTrip ==
    ASSUME NEW v \in Nat, NEW n \in 1 .. 8, Shifted(v, n) = 0
    PROVE  LoadLittleUint(LittleUint(v, n)) = v
<1> DEFINE bytes == LittleUint(v, n)
<1>1. \A i \in 1 .. 8 : Digit(bytes, i) = Shifted(v, i - 1) % 256
  BY Digits
<1> HIDE DEF bytes
<1>2. /\ Digit(bytes, 1) = Shifted(v, 0) % 256 /\ Digit(bytes, 2) = Shifted(v, 1) % 256
      /\ Digit(bytes, 3) = Shifted(v, 2) % 256 /\ Digit(bytes, 4) = Shifted(v, 3) % 256
      /\ Digit(bytes, 5) = Shifted(v, 4) % 256 /\ Digit(bytes, 6) = Shifted(v, 5) % 256
      /\ Digit(bytes, 7) = Shifted(v, 6) % 256 /\ Digit(bytes, 8) = Shifted(v, 7) % 256
  <2>1. /\ 1 - 1 = 0 /\ 2 - 1 = 1 /\ 3 - 1 = 2 /\ 4 - 1 = 3 /\ 5 - 1 = 4 /\ 6 - 1 = 5
        /\ 7 - 1 = 6 /\ 8 - 1 = 7
    OBVIOUS
  <2>2. 1 \in 1 .. 8 /\ 2 \in 1 .. 8 /\ 3 \in 1 .. 8 /\ 4 \in 1 .. 8
        /\ 5 \in 1 .. 8 /\ 6 \in 1 .. 8 /\ 7 \in 1 .. 8 /\ 8 \in 1 .. 8
    OBVIOUS
  <2> QED BY <1>1, <2>1, <2>2
<1>3. ASSUME NEW m \in Nat PROVE (m % 256) + 256 * (m \div 256) = m
  OBVIOUS
<1>4. Shifted(v, 8) = 0
  <2>1. 8 \in n .. 8
    OBVIOUS
  <2> QED BY <2>1, ZerosBeyond, Zenon
<1>5. Digit(bytes, 8) = Shifted(v, 7)
  <2>1. ASSUME NEW m \in Nat, m \div 256 = 0 PROVE m % 256 = m
    BY <2>1
  <2> QED BY <1>2, <1>4, <2>1, Shifts
<1>6. Digit(bytes, 7) + 256 * Digit(bytes, 8) = Shifted(v, 6)
  BY <1>2, <1>3, <1>5, Shifts
<1>7. Digit(bytes, 6) + 256 * Shifted(v, 6) = Shifted(v, 5)
  BY <1>2, <1>3, Shifts
<1>8. Digit(bytes, 5) + 256 * Shifted(v, 5) = Shifted(v, 4)
  BY <1>2, <1>3, Shifts
<1>9. Digit(bytes, 4) + 256 * Shifted(v, 4) = Shifted(v, 3)
  BY <1>2, <1>3, Shifts
<1>10. Digit(bytes, 3) + 256 * Shifted(v, 3) = Shifted(v, 2)
  BY <1>2, <1>3, Shifts
<1>11. Digit(bytes, 2) + 256 * Shifted(v, 2) = Shifted(v, 1)
  BY <1>2, <1>3, Shifts
<1>12. Digit(bytes, 1) + 256 * Shifted(v, 1) = v
  BY <1>2, <1>3, Shifts
<1> QED BY <1>6, <1>7, <1>8, <1>9, <1>10, <1>11, <1>12 DEF LoadLittleUint, bytes

-----------------------------------------------------------------------------
(* One encoded integer and its prefixes.                                   *)

(* What is encoded in a window that begins with it.                        *)
Encoded(bytes, header) ==
    /\ bytes \in Seq(Byte) /\ Len(bytes) \in 1 .. 9 /\ bytes[1] = header

(* peek of nine bytes gives all of an encoded integer, and all there is of *)
(* one that was cut short.                                                 *)
LEMMA PeekEncoded ==
    ASSUME NEW bytes, NEW header, Encoded(bytes, header)
    PROVE  /\ Peek(bytes, 0, 9) = bytes /\ bytes # <<>>
           /\ \A k \in 0 .. Len(bytes) - 1 :
                 LET view == Peek(SubSeq(bytes, 1, k), 0, 9)
                 IN  /\ Len(view) = k
                     /\ k = 0 => view = <<>>
                     /\ k # 0 => view # <<>> /\ view[1] = header
<1>1. bytes \in Seq(Byte) /\ Len(bytes) \in 1 .. 9 /\ bytes[1] = header
  BY DEF Encoded
<1>2. ASSUME NEW s \in Seq(Byte), Len(s) <= 9
      PROVE  Peek(s, 0, 9) = s
  <2>1. Smaller(9, Available(Len(s), 0)) = Len(s)
    BY <1>2 DEF Smaller, Available
  <2>2. SubSeq(s, 0 + 1, 0 + Len(s)) = s
    OBVIOUS
  <2> QED BY <2>1, <2>2 DEF Peek
<1>3. Peek(bytes, 0, 9) = bytes /\ bytes # <<>>
  <2>1. bytes \in Seq(Byte) /\ Len(bytes) <= 9 /\ Len(bytes) # 0
    <3>1. \A l \in 1 .. 9 : l <= 9 /\ l # 0
      OBVIOUS
    <3> QED BY <1>1, <3>1, Zenon
  <2>2. Len(<<>>) = 0
    OBVIOUS
  <2> QED BY <1>2, <2>1, <2>2, Zenon
<1>4. ASSUME NEW k \in 0 .. Len(bytes) - 1
      PROVE  LET view == Peek(SubSeq(bytes, 1, k), 0, 9)
             IN  /\ Len(view) = k
                 /\ k = 0 => view = <<>>
                 /\ k # 0 => view # <<>> /\ view[1] = header
  <2> DEFINE s == SubSeq(bytes, 1, k)
  <2>1. s \in Seq(Byte) /\ Len(s) = k /\ (k # 0 => s[1] = bytes[1])
    BY <1>1
  <2> HIDE DEF s
  <2>2. Len(s) <= 9
    BY <1>1, <2>1
  <2>3. Peek(s, 0, 9) = s
    BY <1>2, <2>1, <2>2
  <2>4. (k = 0 => s = <<>>) /\ (k # 0 => s # <<>>)
    BY <2>1
  <2> QED BY <1>1, <2>1, <2>3, <2>4 DEF s
<1> QED BY <1>3, <1>4

(* The widths that the header of a payload gives: those the writer put     *)
(* into it.                                                                *)
LEMMA HeaderWidth ==
    ASSUME NEW n \in 1 .. 8
    PROVE  /\ PayloadWidth(IntPayloadMin + 0 + n - 1) = n
           /\ PayloadWidth(IntPayloadMin + IntPayloadSign + n - 1) = n
BY DEF PayloadWidth, IntPayloadMin, IntPayloadSign

(* write_integer_payload: header, width and payload fit one another, and   *)
(* the payload is the magnitude.                                           *)
LEMMA PayloadLayout ==
    ASSUME NEW v \in Nat, InWord(v), NEW negative \in BOOLEAN
    PROVE  LET bytes == WriteIntegerPayload(negative, v)
           IN  /\ Encoded(bytes, bytes[1])
               /\ Len(bytes) = 1 + PayloadWidth(bytes[1])
               /\ PayloadValue(bytes) = v
               /\ bytes[1] \in IntPayload
               /\ bytes[1] \notin SmallUint /\ bytes[1] \notin SmallNeg
               /\ bytes[1] \in UintPayload <=> ~negative
<1> DEFINE n == CompactByteCount(v)
           sign == IF negative THEN IntPayloadSign ELSE 0
           h == IntPayloadMin + sign + n - 1
           payload == LittleUint(v, n)
           bytes == <<h>> \o payload
<1>1. WriteIntegerPayload(negative, v) = bytes
  BY Zenon DEF WriteIntegerPayload
<1>2. n \in 1 .. 8 /\ Shifted(v, n) = 0
  BY ByteCount, Zenon
<1> HIDE DEF n
<1>3. /\ payload \in Seq(Byte) /\ Len(payload) = n /\ LoadLittleUint(payload) = v
  <2>1. n \in 1 .. 8
    BY <1>2
  <2>2. Shifted(v, n) = 0
    BY <1>2
  <2>3. payload \in Seq(Byte) /\ Len(payload) = n
    BY <2>1, LittleBytes
  <2>4. LoadLittleUint(payload) = v
    BY <2>1, <2>2, LittleRoundTrip
  <2> QED BY <2>3, <2>4
<1>4. /\ h \in Byte /\ h \in IntPayload /\ h \notin SmallUint /\ h \notin SmallNeg
      /\ h \in UintPayload <=> ~negative
      /\ PayloadWidth(h) = n
  BY <1>2 DEF Byte, IntPayload, UintPayload, SmallUint, SmallNeg, IntPayloadMin,
     IntPayloadSign, SmallUintMax, SmallNegMin, SmallNegMax, PayloadWidth
<1> HIDE DEF h, payload
<1>5. bytes \in Seq(Byte) /\ Len(bytes) = 1 + n /\ bytes[1] = h
  BY <1>2, <1>3, <1>4
<1>6. SubSeq(bytes, 2, 1 + n) = payload
  BY <1>2, <1>3, <1>4
<1> HIDE DEF bytes
<1>7. PayloadValue(bytes) = v
  BY <1>3, <1>4, <1>5, <1>6, Zenon DEF PayloadValue
<1>8. Len(bytes) \in 1 .. 9
  BY <1>2, <1>5
<1> QED BY <1>1, <1>4, <1>5, <1>7, <1>8, Zenon DEF Encoded

-----------------------------------------------------------------------------
(* What the two decoders make of it.                                       *)

(* The outcome of a read that found too few bytes.                         *)
Short(r) == ~r.ok /\ r.code = "truncated" /\ r.used = 0

(* A decoder's failures, by their fields.                                  *)
LEMMA FailedFields ==
    ASSUME NEW code, NEW stage
    PROVE  ~Failed(code, stage, 0).ok /\ Failed(code, stage, 0).code = code
           /\ Failed(code, stage, 0).used = 0
BY DEF Failed

(* The failures of the two places that ask for bytes which are not there.  *)
LEMMA TruncatedIsShort ==
    ASSUME NEW stage
    PROVE  Short(Failed("truncated", stage, 0))
BY FailedFields, Zenon DEF Short

(* Cut short, no integer is decoded and nothing of it is consumed: one     *)
(* byte alone is all of its integer, and the header of any other tells how *)
(* many more there must be.                                                *)
LEMMA ShortReads ==
    ASSUME NEW bytes, NEW header, Encoded(bytes, header),
           \/ Len(bytes) = 1
           \/ /\ header \in IntPayload /\ header \notin SmallUint /\ header \notin SmallNeg
              /\ Len(bytes) = 1 + PayloadWidth(header)
    PROVE  \A k \in 0 .. Len(bytes) - 1 :
              /\ Short(ReadInt(SubSeq(bytes, 1, k), 0))
              /\ (k = 0 \/ header \in UintPayload) =>
                    Short(ReadUint(SubSeq(bytes, 1, k), 0))
<1> SUFFICES ASSUME NEW k \in 0 .. Len(bytes) - 1
             PROVE  /\ Short(ReadInt(SubSeq(bytes, 1, k), 0))
                    /\ (k = 0 \/ header \in UintPayload) =>
                          Short(ReadUint(SubSeq(bytes, 1, k), 0))
  OBVIOUS
<1> DEFINE view == Peek(SubSeq(bytes, 1, k), 0, 9)
<1>1. /\ Len(view) = k
      /\ k = 0 => view = <<>>
      /\ k # 0 => view # <<>> /\ view[1] = header
  BY PeekEncoded
<1>2. /\ ReadInt(SubSeq(bytes, 1, k), 0) =
            IF view = <<>> THEN Failed("truncated", "header", 0) ELSE DecodeInt(view)
      /\ ReadUint(SubSeq(bytes, 1, k), 0) =
            IF view = <<>> THEN Failed("truncated", "header", 0) ELSE DecodeUint(view)
  BY Zenon DEF ReadInt, ReadUint
<1> HIDE DEF view
<1>3. CASE k = 0
  BY <1>1, <1>2, <1>3, TruncatedIsShort, Zenon
<1>4. CASE k # 0
  <2>1. Len(bytes) \in 1 .. 9
    BY Zenon DEF Encoded
  <2>2. Len(bytes) # 1
    <3>1. \A l \in 1 .. 9 : \A j \in 0 .. l - 1 : j # 0 => l # 1
      OBVIOUS
    <3> QED BY <1>4, <2>1, <3>1, Zenon
  <2>3. /\ header \in IntPayload /\ header \notin SmallUint /\ header \notin SmallNeg
        /\ Len(bytes) = 1 + PayloadWidth(header)
    BY <2>2
  <2>4. ~(Len(view) >= 1 + PayloadWidth(view[1]))
    <3>1. ASSUME NEW l \in 1 .. 9, NEW j \in 0 .. l - 1 PROVE ~(j >= l)
      OBVIOUS
    <3>2. ~(k >= Len(bytes))
      BY <2>1, <3>1, Zenon
    <3> QED BY <1>1, <1>4, <2>3, <3>2, Zenon
  <2>5. ASSUME NEW result PROVE WholePayload(view, result) = Failed("truncated", "raw_bytes", 0)
    BY <2>4, Zenon DEF WholePayload
  <2>6. DecodeInt(view) = Failed("truncated", "raw_bytes", 0)
    BY <1>1, <1>4, <2>3, <2>5, Zenon DEF DecodeInt
  <2>7. header \in UintPayload => DecodeUint(view) = Failed("truncated", "raw_bytes", 0)
    BY <1>1, <1>4, <2>3, <2>5, Zenon DEF DecodeUint
  <2> QED BY <1>1, <1>2, <1>4, <2>6, <2>7, TruncatedIsShort, Zenon
<1> QED BY <1>3, <1>4, Zenon

(* A byte alone is an encoding.                                            *)
LEMMA OneByte ==
    ASSUME NEW b \in Byte
    PROVE  Encoded(<<b>>, b) /\ Len(<<b>>) = 1 /\ <<b>>[1] = b
BY DEF Encoded

(* Of a whole payload, read_uint gives the magnitude unless it is          *)
(* negative, and read_int the signed number, within int64.                 *)
LEMMA PayloadDecoded ==
    ASSUME NEW v \in Nat, InWord(v), NEW negative \in BOOLEAN
    PROVE  LET bytes == WriteIntegerPayload(negative, v)
               limit == IF negative THEN Int64Max + 1 ELSE Int64Max
           IN  /\ ReadUint(bytes, 0) = IF negative
                                       THEN Failed("invalid_integer", "integer", 0)
                                       ELSE Got(v, Len(bytes))
               /\ ReadInt(bytes, 0) = IF v > limit
                                      THEN Failed("invalid_integer", "integer", 0)
                                      ELSE Got(IF negative THEN -v ELSE v, Len(bytes))
               /\ \A k \in 0 .. Len(bytes) - 1 :
                     /\ Short(ReadInt(SubSeq(bytes, 1, k), 0))
                     /\ ~negative => Short(ReadUint(SubSeq(bytes, 1, k), 0))
<1> DEFINE bytes == WriteIntegerPayload(negative, v)
           limit == IF negative THEN Int64Max + 1 ELSE Int64Max
<1>1. /\ Encoded(bytes, bytes[1])
      /\ Len(bytes) = 1 + PayloadWidth(bytes[1])
      /\ PayloadValue(bytes) = v
      /\ bytes[1] \in IntPayload
      /\ bytes[1] \notin SmallUint /\ bytes[1] \notin SmallNeg
      /\ bytes[1] \in UintPayload <=> ~negative
  BY PayloadLayout, Zenon
<1> HIDE DEF bytes
<1>2. Peek(bytes, 0, 9) = bytes /\ bytes # <<>>
  BY <1>1, PeekEncoded, Zenon
<1>3. ReadUint(bytes, 0) = DecodeUint(bytes) /\ ReadInt(bytes, 0) = DecodeInt(bytes)
  BY <1>2, Zenon DEF ReadUint, ReadInt
<1>4. ASSUME NEW result PROVE WholePayload(bytes, result) = result
  <2>1. Len(bytes) >= 1 + PayloadWidth(bytes[1])
    <3>1. \A l \in 1 .. 9 : l >= l
      OBVIOUS
    <3>2. Len(bytes) \in 1 .. 9
      BY <1>1, Zenon DEF Encoded
    <3> QED BY <1>1, <3>1, <3>2, Zenon
  <2> QED BY <2>1, Zenon DEF WholePayload
<1>5. DecodeUint(bytes) = IF negative THEN Failed("invalid_integer", "integer", 0)
                          ELSE Got(v, Len(bytes))
  BY <1>1, <1>4, Zenon DEF DecodeUint
<1>6. SignedPayload(bytes) = IF v > limit THEN Failed("invalid_integer", "integer", 0)
                             ELSE Got(IF negative THEN -v ELSE v, Len(bytes))
  BY <1>1, Zenon DEF SignedPayload
<1>7. DecodeInt(bytes) = SignedPayload(bytes)
  BY <1>1, <1>4, Zenon DEF DecodeInt
<1>8. \A k \in 0 .. Len(bytes) - 1 :
         /\ Short(ReadInt(SubSeq(bytes, 1, k), 0))
         /\ ~negative => Short(ReadUint(SubSeq(bytes, 1, k), 0))
  BY <1>1, ShortReads, Zenon
<1> HIDE DEF limit
<1>9. /\ ReadUint(bytes, 0) = IF negative THEN Failed("invalid_integer", "integer", 0)
                              ELSE Got(v, Len(bytes))
      /\ ReadInt(bytes, 0) = IF v > limit THEN Failed("invalid_integer", "integer", 0)
                             ELSE Got(IF negative THEN -v ELSE v, Len(bytes))
  BY <1>3, <1>5, <1>6, <1>7, Zenon
<1> QED BY <1>8, <1>9, Zenon DEF bytes, limit

(* The one-byte forms: 0 to 63, and -1 to -16.                             *)
LEMMA ByteDecoded ==
    ASSUME NEW b \in SmallUint \cup SmallNeg
    PROVE  /\ b \in SmallUint => /\ ReadUint(<<b>>, 0) = Got(b, 1)
                                 /\ ReadInt(<<b>>, 0) = Got(b, 1)
           /\ b \in SmallNeg  =>
                 /\ ReadUint(<<b>>, 0) = Failed("invalid_integer", "integer", 0)
                 /\ ReadInt(<<b>>, 0) = Got(-(b - SmallNegMin + 1), 1)
           /\ Len(<<b>>) = 1
           /\ \A k \in 0 .. Len(<<b>>) - 1 :
                 /\ Short(ReadInt(SubSeq(<<b>>, 1, k), 0))
                 /\ Short(ReadUint(SubSeq(<<b>>, 1, k), 0))
<1>1. b \in Byte /\ ~(b \in SmallUint /\ b \in SmallNeg)
      /\ (b \in SmallNeg => b \notin UintPayload)
  BY DEF SmallUint, SmallNeg, UintPayload, Byte, SmallUintMax, SmallNegMin, SmallNegMax,
     IntPayloadMin, IntPayloadSign
<1> DEFINE bytes == <<b>>
<1>2. Encoded(bytes, b) /\ Len(bytes) = 1 /\ bytes[1] = b
  BY <1>1, OneByte, Zenon
<1> HIDE DEF bytes
<1>3. Peek(bytes, 0, 9) = bytes /\ bytes # <<>>
  BY <1>2, PeekEncoded, Zenon
<1>4. ReadUint(bytes, 0) = DecodeUint(bytes) /\ ReadInt(bytes, 0) = DecodeInt(bytes)
  BY <1>3, Zenon DEF ReadUint, ReadInt
<1>5. b \in SmallUint => DecodeUint(bytes) = Got(b, 1) /\ DecodeInt(bytes) = Got(b, 1)
  BY <1>2, Zenon DEF DecodeUint, DecodeInt
<1>6. b \in SmallNeg => /\ DecodeUint(bytes) = Failed("invalid_integer", "integer", 0)
                        /\ DecodeInt(bytes) = Got(-(b - SmallNegMin + 1), 1)
  BY <1>1, <1>2, Zenon DEF DecodeUint, DecodeInt
<1>7. ASSUME NEW k \in 0 .. Len(bytes) - 1
      PROVE  /\ Short(ReadInt(SubSeq(bytes, 1, k), 0))
             /\ Short(ReadUint(SubSeq(bytes, 1, k), 0))
  <2>1. k = 0
    BY <1>2
  <2> QED BY <1>2, <2>1, ShortReads, Zenon
<1> QED BY <1>2, <1>4, <1>5, <1>6, <1>7, Zenon DEF bytes

-----------------------------------------------------------------------------
(* The properties of the codec.                                            *)

(* The integers of the program: what a word holds, of either sign.         *)
Integers64 == -Uint64Max .. Uint64Max

(* write_uint: what the encodings of an unsigned integer decode to.        *)
LEMMA UintDecoded ==
    ASSUME NEW v \in 0 .. Uint64Max
    PROVE  /\ ReadUint(WriteUint(v), 0) = Got(v, Len(WriteUint(v)))
           /\ ReadInt(WriteUint(v), 0) = IF v > Int64Max
                                         THEN Failed("invalid_integer", "integer", 0)
                                         ELSE Got(v, Len(WriteUint(v)))
           /\ \A k \in 0 .. Len(WriteUint(v)) - 1 :
                 /\ Short(ReadInt(SubSeq(WriteUint(v), 1, k), 0))
                 /\ Short(ReadUint(SubSeq(WriteUint(v), 1, k), 0))
<1>1. v \in Nat /\ InWord(v) /\ Int64Max \in Nat /\ 256 <= Int64Max
  BY UintInWord, Zenon
<1>2. CASE v <= SmallUintMax
  <2>1. v \in SmallUint /\ ~(v > Int64Max)
    BY <1>1, <1>2 DEF SmallUint, SmallUintMax
  <2>2. WriteUint(v) = <<v>>
    BY <1>2, Zenon DEF WriteUint
  <2>3. /\ ReadUint(<<v>>, 0) = Got(v, 1) /\ ReadInt(<<v>>, 0) = Got(v, 1)
        /\ Len(<<v>>) = 1
        /\ \A k \in 0 .. Len(<<v>>) - 1 :
              /\ Short(ReadInt(SubSeq(<<v>>, 1, k), 0))
              /\ Short(ReadUint(SubSeq(<<v>>, 1, k), 0))
    BY <2>1, ByteDecoded, Zenon
  <2> QED BY <2>1, <2>2, <2>3, Zenon
<1>3. CASE ~(v <= SmallUintMax)
  <2> DEFINE bytes == WriteIntegerPayload(FALSE, v)
  <2>1. WriteUint(v) = bytes
    BY <1>3, Zenon DEF WriteUint
  <2>2. ASSUME NEW negative \in BOOLEAN, ~negative
        PROVE  LET b == WriteIntegerPayload(negative, v)
               IN  /\ ReadUint(b, 0) = Got(v, Len(b))
                   /\ ReadInt(b, 0) = IF v > Int64Max
                                      THEN Failed("invalid_integer", "integer", 0)
                                      ELSE Got(v, Len(b))
                   /\ \A k \in 0 .. Len(b) - 1 :
                         /\ Short(ReadInt(SubSeq(b, 1, k), 0))
                         /\ Short(ReadUint(SubSeq(b, 1, k), 0))
    BY <1>1, <2>2, PayloadDecoded, Zenon
  <2>3. /\ ReadUint(bytes, 0) = Got(v, Len(bytes))
        /\ ReadInt(bytes, 0) = IF v > Int64Max
                               THEN Failed("invalid_integer", "integer", 0)
                               ELSE Got(v, Len(bytes))
        /\ \A k \in 0 .. Len(bytes) - 1 :
              /\ Short(ReadInt(SubSeq(bytes, 1, k), 0))
              /\ Short(ReadUint(SubSeq(bytes, 1, k), 0))
    BY <2>2, Zenon
  <2> HIDE DEF bytes
  <2> QED BY <2>1, <2>3, Zenon
<1> QED BY <1>2, <1>3, Zenon

(* write_int of a negative integer, given as its magnitude.                *)
LEMMA NegativeDecoded ==
    ASSUME NEW m \in 1 .. Uint64Max
    PROVE  /\ ReadUint(WriteInt(-m), 0) = Failed("invalid_integer", "integer", 0)
           /\ ReadInt(WriteInt(-m), 0) = IF m > Int64Max + 1
                                         THEN Failed("invalid_integer", "integer", 0)
                                         ELSE Got(-m, Len(WriteInt(-m)))
           /\ ReadInt(WriteIntegerPayload(TRUE, m), 0) =
                  IF m > Int64Max + 1
                  THEN Failed("invalid_integer", "integer", 0)
                  ELSE Got(-m, Len(WriteIntegerPayload(TRUE, m)))
           /\ \A k \in 0 .. Len(WriteInt(-m)) - 1 :
                 Short(ReadInt(SubSeq(WriteInt(-m), 1, k), 0))
<1>1. m \in Nat /\ InWord(m) /\ Int64Max \in Nat /\ 256 <= Int64Max
  BY UintInWord
<1>2. -(-m) = m /\ ~(-m >= 0)
  BY <1>1
<1>3. ASSUME NEW negative \in BOOLEAN, negative
      PROVE  LET b == WriteIntegerPayload(negative, m)
             IN  /\ ReadUint(b, 0) = Failed("invalid_integer", "integer", 0)
                 /\ ReadInt(b, 0) = IF m > Int64Max + 1
                                    THEN Failed("invalid_integer", "integer", 0)
                                    ELSE Got(-m, Len(b))
                 /\ \A k \in 0 .. Len(b) - 1 : Short(ReadInt(SubSeq(b, 1, k), 0))
  BY <1>1, <1>3, PayloadDecoded, Zenon
<1> DEFINE bytes == WriteIntegerPayload(TRUE, m)
<1>4. /\ ReadUint(bytes, 0) = Failed("invalid_integer", "integer", 0)
      /\ ReadInt(bytes, 0) = IF m > Int64Max + 1
                             THEN Failed("invalid_integer", "integer", 0)
                             ELSE Got(-m, Len(bytes))
      /\ \A k \in 0 .. Len(bytes) - 1 : Short(ReadInt(SubSeq(bytes, 1, k), 0))
  BY <1>3, Zenon
<1>5. CASE m <= 16
  <2> DEFINE b == SmallNegMin + m - 1
  <2>1. b \in SmallNeg /\ b - SmallNegMin + 1 = m /\ ~(m > Int64Max + 1)
    BY <1>1, <1>5 DEF SmallNeg, SmallNegMin, SmallNegMax
  <2>2. WriteInt(-m) = <<b>>
    BY <1>2, <1>5, Zenon DEF WriteInt
  <2> HIDE DEF b
  <2>3. /\ ReadUint(<<b>>, 0) = Failed("invalid_integer", "integer", 0)
        /\ ReadInt(<<b>>, 0) = Got(-m, 1)
        /\ Len(<<b>>) = 1
        /\ \A k \in 0 .. Len(<<b>>) - 1 : Short(ReadInt(SubSeq(<<b>>, 1, k), 0))
    BY <2>1, ByteDecoded, Zenon
  <2> HIDE DEF bytes
  <2> QED BY <1>4, <2>1, <2>2, <2>3, Zenon DEF bytes
<1>6. CASE ~(m <= 16)
  <2>1. WriteInt(-m) = bytes
    BY <1>2, <1>6, Zenon DEF WriteInt
  <2> HIDE DEF bytes
  <2> QED BY <1>4, <2>1, Zenon DEF bytes
<1> QED BY <1>5, <1>6, Zenon

(* Both properties hold of every integer of the program, wherever it lies. *)
LEMMA EveryInteger ==
    ASSUME value \in Integers64
    PROVE  IntegersRoundTrip /\ OutOfRangeRefused
<1>1. /\ Uint64Max \in Nat /\ Int64Max \in Nat /\ 256 <= Int64Max
      /\ Int64Max + 1 <= Uint64Max
  BY UintInWord
<1>2. CASE value >= 0
  <2>1. /\ value \in 0 .. Uint64Max /\ ~(value < 0) /\ ~(value < -(Int64Max + 1))
        /\ (value \in -(Int64Max + 1) .. Int64Max => ~(value > Int64Max))
    BY <1>1, <1>2 DEF Integers64
  <2>2. WriteInt(value) = WriteUint(value)
    BY <1>2, Zenon DEF WriteInt
  <2>3. /\ ReadUint(WriteUint(value), 0) = Got(value, Len(WriteUint(value)))
        /\ ReadInt(WriteUint(value), 0) = IF value > Int64Max
                                          THEN Failed("invalid_integer", "integer", 0)
                                          ELSE Got(value, Len(WriteUint(value)))
        /\ \A k \in 0 .. Len(WriteUint(value)) - 1 :
              /\ Short(ReadInt(SubSeq(WriteUint(value), 1, k), 0))
              /\ Short(ReadUint(SubSeq(WriteUint(value), 1, k), 0))
    BY <2>1, UintDecoded, Zenon
  <2>4. IntegersRoundTrip
    BY <2>1, <2>2, <2>3, Zenon DEF IntegersRoundTrip, Decodes, Short
  <2>5. OutOfRangeRefused
    <3>1. Refuses(Failed("invalid_integer", "integer", 0))
      BY FailedFields, Zenon DEF Refuses
    <3>2. value > Int64Max =>
             ReadInt(WriteUint(value), 0) = Failed("invalid_integer", "integer", 0)
      BY <2>3, Zenon
    <3>3. value > Int64Max => Refuses(ReadInt(WriteUint(value), 0))
      BY <3>1, <3>2, Zenon
    <3> QED BY <2>1, <3>3, Zenon DEF OutOfRangeRefused
  <2> QED BY <2>4, <2>5
<1>3. CASE ~(value >= 0)
  <2> DEFINE m == -value
  <2>1. /\ m \in 1 .. Uint64Max /\ -m = value /\ ~(value > Int64Max)
        /\ value < -(Int64Max + 1) <=> m > Int64Max + 1
        /\ (value \in -(Int64Max + 1) .. Int64Max => ~(m > Int64Max + 1))
    BY <1>1, <1>3 DEF Integers64
  <2> HIDE DEF m
  <2>2. /\ ReadUint(WriteInt(-m), 0) = Failed("invalid_integer", "integer", 0)
        /\ ReadInt(WriteInt(-m), 0) = IF m > Int64Max + 1
                                      THEN Failed("invalid_integer", "integer", 0)
                                      ELSE Got(-m, Len(WriteInt(-m)))
        /\ ReadInt(WriteIntegerPayload(TRUE, m), 0) =
               IF m > Int64Max + 1
               THEN Failed("invalid_integer", "integer", 0)
               ELSE Got(-m, Len(WriteIntegerPayload(TRUE, m)))
        /\ \A k \in 0 .. Len(WriteInt(-m)) - 1 :
              Short(ReadInt(SubSeq(WriteInt(-m), 1, k), 0))
    BY <2>1, NegativeDecoded, Zenon
  <2>3. IntegersRoundTrip
    BY <1>3, <2>1, <2>2, Zenon DEF IntegersRoundTrip, Decodes, Short
  <2>4. m = -value
    BY DEF m
  <2>5. /\ Refuses(ReadUint(WriteInt(value), 0))
        /\ m > Int64Max + 1 => Refuses(ReadInt(WriteIntegerPayload(TRUE, m), 0))
    <3>1. Refuses(Failed("invalid_integer", "integer", 0))
      BY FailedFields, Zenon DEF Refuses
    <3>2. ReadUint(WriteInt(value), 0) = Failed("invalid_integer", "integer", 0)
      BY <2>1, <2>2, Zenon
    <3>3. m > Int64Max + 1 =>
             ReadInt(WriteIntegerPayload(TRUE, m), 0) = Failed("invalid_integer", "integer", 0)
      BY <2>2, Zenon
    <3> QED BY <3>1, <3>2, <3>3, Zenon
  <2>6. OutOfRangeRefused
    BY <2>1, <2>4, <2>5, Zenon DEF OutOfRangeRefused
  <2> QED BY <2>3, <2>6
<1> QED BY <1>2, <1>3

(* The integer that walks through the edges stays one of the program's.    *)
LEMMA InRange == Spec => [](value \in Integers64)
<1>1. /\ Uint64Max \in Nat /\ Margin \in Nat
      /\ \A e \in Edges : e \in Nat /\ e + Margin <= Uint64Max
  BY EdgesAssumption, UintInWord
<1>2. ASSUME NEW e \in Sides
      PROVE  Near(e) \subseteq Integers64 /\ e - Margin \in Near(e)
  <2>1. PICK f \in Edges : e = f \/ e = -f
    BY DEF Sides
  <2>2. f \in Nat /\ f + Margin <= Uint64Max
    BY <1>1
  <2> QED BY <1>1, <2>1, <2>2 DEF Near, Integers64
<1>3. Init => value \in Integers64
  BY <1>2 DEF Init
<1>4. value \in Integers64 /\ [Next]_value => (value \in Integers64)'
  <2>1. ASSUME Next PROVE value' \in Integers64
    BY <1>2, <2>1, Zenon DEF Next
  <2> QED BY <2>1
<1> QED BY <1>3, <1>4, PTL DEF Spec

(* The writer and the reader agree on every integer of the program:        *)
(* read_int decodes what write_int encodes of an int64, the least one      *)
(* included, and read_uint what write_uint encodes of an unsigned, from    *)
(* all of the bytes; of fewer they decode nothing and consume nothing.     *)
THEOREM IntegersDecoded == Spec => []IntegersRoundTrip
<1>1. value \in Integers64 => IntegersRoundTrip
  BY EveryInteger
<1> QED BY <1>1, InRange, PTL

(* An integer the receiving type cannot hold is refused with nothing       *)
(* consumed: one beyond int64 on either side, a negative one for an        *)
(* unsigned.                                                               *)
THEOREM ForeignIntegersRefused == Spec => []OutOfRangeRefused
<1>1. value \in Integers64 => OutOfRangeRefused
  BY EveryInteger
<1> QED BY <1>1, InRange, PTL

=============================================================================
