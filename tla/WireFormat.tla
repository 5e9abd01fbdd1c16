----------------------------- MODULE WireFormat -----------------------------
(***************************************************************************)
(* What the byte adapters share: the outcome of a primitive read, unsigned *)
(* integers, least significant byte first, and packed bits.                *)
(***************************************************************************)
EXTENDS ByteWindow

(* What one primitive of a reader does: whether it succeeded, its value,   *)
(* how many bytes it consumed (also when it failed), and the code and the  *)
(* stage of the failure.                                                   *)
Got(value, used) ==
    [ok |-> TRUE, value |-> value, used |-> used,
     code |-> "unknown", stage |-> "none"]

Failed(code, stage, used) ==
    [ok |-> FALSE, value |-> 0, used |-> used, code |-> code, stage |-> stage]

(* value >> 8 * count, of a word of up to eight bytes.                     *)
Shifted(value, count) ==
    LET s1 == value \div 256
        s2 == s1 \div 256
        s3 == s2 \div 256
        s4 == s3 \div 256
        s5 == s4 \div 256
        s6 == s5 \div 256
        s7 == s6 \div 256
        s8 == s7 \div 256
    IN  <<value, s1, s2, s3, s4, s5, s6, s7, s8>>[count + 1]

(* The low `count' bytes of a word.                                        *)
LittleUint(value, count) == [i \in 1 .. count |-> Shifted(value, i - 1) % 256]

Digit(bytes, i) == IF i <= Len(bytes) THEN bytes[i] ELSE 0

(* The number in up to eight bytes.                                        *)
LoadLittleUint(bytes) ==
    Digit(bytes, 1) + 256 * (Digit(bytes, 2) + 256 * (Digit(bytes, 3)
    + 256 * (Digit(bytes, 4) + 256 * (Digit(bytes, 5) + 256 * (Digit(bytes, 6)
    + 256 * (Digit(bytes, 7) + 256 * Digit(bytes, 8)))))))

-----------------------------------------------------------------------------
(* The bits of a std::bitset, eight to a byte, the first the lowest.       *)

Bit(byte, k) == (byte \div (2 ^ k)) % 2

PackedInto(bits, count) ==
    [j \in 1 .. count |->
        LET at(k) == (2 ^ k) * Digit(bits, 8 * (j - 1) + k + 1)
        IN  at(0) + at(1) + at(2) + at(3) + at(4) + at(5) + at(6) + at(7)]

UnpackedBits(bytes, n) ==
    [i \in 1 .. n |-> Bit(Digit(bytes, ((i - 1) \div 8) + 1), (i - 1) % 8)]

=============================================================================
