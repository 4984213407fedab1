----------------------------- MODULE HexFormatter -----------------------------
(****************************************************************************)
(* The hexadecimal image of a frame (hex_formatter.cpp): two characters for *)
(* each byte, the high half first.  A character is a string of length one,  *)
(* a byte the set of its one bits (see Crc32).  The terminating '\0' ends   *)
(* the buffer for printk and is not part of the text.                       *)
(****************************************************************************)
EXTENDS Integers, Sequences

hexadecimal_digits ==
    <<"0", "1", "2", "3", "4", "5", "6", "7",
      "8", "9", "A", "B", "C", "D", "E", "F">>

\* The number that the four bits of a nibble write.
Nibble(bits) ==
    (IF 0 \in bits THEN 1 ELSE 0) + (IF 1 \in bits THEN 2 ELSE 0)
        + (IF 2 \in bits THEN 4 ELSE 0) + (IF 3 \in bits THEN 8 ELSE 0)

\* byte >> 4 and byte & 0x0F.
HighHalf(byte) == {bit - 4 : bit \in byte \cap (4..7)}
LowHalf(byte) == byte \cap (0..3)

Digit(bits) == hexadecimal_digits[Nibble(bits) + 1]

\* HexFormatter::format.
Format(frame) ==
    [i \in 1..(2 * Len(frame)) |->
        LET byte == frame[(i + 1) \div 2]
        IN  Digit(IF i % 2 = 1 THEN HighHalf(byte) ELSE LowHalf(byte))]
=============================================================================
