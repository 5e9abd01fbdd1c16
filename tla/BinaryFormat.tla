---------------------------- MODULE BinaryFormat ----------------------------
(***************************************************************************)
(* The bytes of the binary adapter and what encrypt does to them:          *)
(* src/include/contract/adapters/binary.hpp (encrypting_output,            *)
(* decrypting_input), binary/bitset.hpp and io/byte.hpp.                   *)
(*                                                                         *)
(* Scalars are copied as they lie in memory, so a raw value is the         *)
(* sequence of its bytes; the machine is little-endian.                    *)
(***************************************************************************)
EXTENDS WireFormat

CONSTANTS
    SizeBytes,   \* sizeof(std::size_t), 8 in the code
    Key          \* options::encrypt_key, four bytes

ASSUME SizeBytesAssumption == SizeBytes \in 1 .. 8
ASSUME SizeRangeAssumption == 256 ^ SizeBytes \in Nat \ {0}
ASSUME KeyAssumption == Key \in [1 .. 4 -> Byte]

Clear == -1      \* no encrypting or decrypting wrapper is in use

Xor(a, b) ==
    LET at(k) == (2 ^ k) * ((Bit(a, k) + Bit(b, k)) % 2)
    IN  at(0) + at(1) + at(2) + at(3) + at(4) + at(5) + at(6) + at(7)

(* Mutant: the key starts over with every chunk.                           *)
CipheredAfresh(bytes, offset) ==
    IF offset = Clear THEN bytes
    ELSE [i \in DOMAIN bytes |-> Xor(bytes[i], Key[((i - 1) % 4) + 1])]

(* One write of encrypting_output or one read of decrypting_input whose    *)
(* key stream has reached `offset'; the same operation both ways.          *)
Ciphered(bytes, offset) ==
    IF offset = Clear THEN bytes
    ELSE [i \in DOMAIN bytes |-> Xor(bytes[i], Key[((offset + i - 1) % 4) + 1])]

Advance(offset, used) == IF offset = Clear THEN Clear ELSE offset + used

(* Mutant: the bytes are taken without asking whether they are there.      *)
ReadExactlyUnchecked(data, pos, offset, size) ==
    Got(Ciphered(Peek(data, pos, size), offset), size)

(* reader::read over a checked_input: all the bytes, or none of them.      *)
ReadExactly(data, pos, offset, size) ==
    LET view == Peek(data, pos, size)
    IN  IF Len(view) = size THEN Got(Ciphered(view, offset), size)
        ELSE Failed("truncated", "raw", 0)

WriteSize(size) == LittleUint(size, SizeBytes)

ReadSize(data, pos, offset) ==
    LET r == ReadExactly(data, pos, offset, SizeBytes)
    IN  IF r.ok THEN Got(LoadLittleUint(r.value), SizeBytes) ELSE r

(* A product of sizes, as std::size_t has it.                              *)
Product(a, b) == (a * b) % (256 ^ SizeBytes)

(* The elements of a bulk copy, `width' bytes each.                        *)
Elements(bytes, width) ==
    [i \in 1 .. Len(bytes) \div width |->
        SubSeq(bytes, (i - 1) * width + 1, i * width)]

-----------------------------------------------------------------------------
(* std::bitset<N> is one 64-bit number up to 64 bits, else packed bytes.   *)

BitsetBytes(n) == IF n = 0 THEN 0 ELSE IF n <= 64 THEN 8 ELSE (n + 7) \div 8

PackedBits(bits) == PackedInto(bits, BitsetBytes(Len(bits)))

=============================================================================
