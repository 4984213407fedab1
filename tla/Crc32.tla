-------------------------------- MODULE Crc32 --------------------------------
(****************************************************************************)
(* The reflected CRC-32 of protocol/src/crc32.cpp, bit by bit.  An unsigned *)
(* integer is the set of the positions of its bits that are 1, bit 0 the    *)
(* least significant one: a 32-bit word is a subset of 0..31 and never      *)
(* wraps, exclusive or is the symmetric difference, and a shift moves the   *)
(* positions.                                                               *)
(****************************************************************************)
EXTENDS Iteration, Sequences, FiniteSetsExt

Word(bits) == SUBSET (0..(bits - 1))
Byte == Word(8)

\* 0xEDB88320
Polynomial == {5, 8, 9, 15, 19, 20, 21, 23, 24, 26, 27, 29, 30, 31}

InitialValue == 0..31
FinalXor == 0..31

ShiftRight(word) == {bit - 1 : bit \in word \ {0}}

\* One turn of the inner loop: the mask is all ones when bit 0 is 1.
NextBit(crc) ==
    SymDiff(ShiftRight(crc), IF 0 \in crc THEN Polynomial ELSE {})

\* The inner loop.
NextByte(crc, byte) ==
    Iterate([turn \in 1..8 |-> [word \in Word(32) |-> NextBit(word)]],
            SymDiff(crc, byte), 8)

\* The outer loop's steps, one for each byte.
Absorb(bytes) ==
    [i \in 1..Len(bytes) |-> [crc \in Word(32) |-> NextByte(crc, bytes[i])]]

CalculateCrc32(bytes) ==
    SymDiff(Iterate(Absorb(bytes), InitialValue, Len(bytes)), FinalXor)
=============================================================================
