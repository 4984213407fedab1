-------------------------- MODULE ChecksumDistance --------------------------
(****************************************************************************)
(* How far apart the frames of protocol v1 are under its checksum: what one *)
(* wrong byte makes of the register is never what another one could undo.   *)
(****************************************************************************)
EXTENDS TelemetryProtocol

\* A byte and count - 1 zero bytes.
ZerosAfter(byte, count) ==
    [i \in 1..count |-> IF i = 1 THEN byte ELSE {}]

\* The bits of the register that come out wrong when difference are the wrong
\* bits of a byte, and count - 1 more bytes are absorbed after it.
Spread(difference, count) ==
    Iterate(Absorb(ZerosAfter(difference, count)), {}, count)

\* The k-th byte of a word, from the least significant one.
ByteOfWord(k) == (8 * k)..(8 * k + 7)

\* As far as the checksum reaches, the wrong bits are never those of a single
\* byte of the register: a second wrong byte, of the body or of the checksum
\* itself, does not make up for the first one.  It is a fact about the
\* polynomial and the frame's size, of 255 * 30 values.
ASSUME WrongBytesStayApart ==
    \A difference \in Byte \ {{}}, count \in 1..crc_offset :
        LET spread == Spread(difference, count)
        IN  \A k \in 0..(crc_size - 1) : ~(spread \subseteq ByteOfWord(k))
=============================================================================
