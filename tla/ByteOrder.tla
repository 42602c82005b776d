----------------------------- MODULE ByteOrder -----------------------------
(***************************************************************************)
(* 32-bit words and the byte-order conversions of the C library.           *)
(*                                                                         *)
(* A word is the tuple of its four bytes, most significant first.  pdrad   *)
(* is built for little-endian aarch64 (CMakeLists.txt), where loading the  *)
(* four bytes b1 b2 b3 b4 of a packet gives the word <<b4, b3, b2, b1>>    *)
(* and where be32toh and htobe32 both reverse the bytes of a word.         *)
(***************************************************************************)
EXTENDS Naturals

Byte == 0..255
Word32 == Byte \X Byte \X Byte \X Byte

Zero32 == <<0, 0, 0, 0>>

Swap32(w) == <<w[4], w[3], w[2], w[1]>>

(* The value a memcpy from a packet stores for a field sent as the number w. *)
LoadRaw(w) == Swap32(w)

be32toh(w) == Swap32(w)
htobe32(w) == Swap32(w)
=============================================================================
