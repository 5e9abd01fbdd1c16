----------------------------- MODULE ByteWindow -----------------------------
(***************************************************************************)
(* The contiguous byte windows of src/include/contract/io/byte_window.hpp. *)
(*                                                                         *)
(* A window is a byte sequence together with a cursor: the number of bytes *)
(* already consumed (or committed).  The owner of the cursor is the state  *)
(* machine that INSTANCEs or EXTENDs this module; here are the two         *)
(* questions it may ask of a window.                                       *)
(***************************************************************************)
EXTENDS Integers, Sequences

Byte == 0 .. 255

Smaller(a, b) == IF a < b THEN a ELSE b

(* Bytes of a window of `size' bytes behind a cursor at `pos'.             *)
Available(size, pos) == size - pos

(* window_input::peek: up to max_size contiguous unread bytes.             *)
Peek(data, pos, max_size) ==
    SubSeq(data, pos + 1, pos + Smaller(max_size, Available(Len(data), pos)))

(* window_output::prepare: how many contiguous writable bytes are returned *)
(* when max_size are asked for.                                            *)
Prepared(capacity, pos, max_size) ==
    Smaller(max_size, Available(capacity, pos))

=============================================================================
