--------------------------- MODULE FrameValidation ---------------------------
(****************************************************************************)
(* What telemetry_validation.py checks of the TLFRAME lines, character by   *)
(* character and byte by byte.  It is a second implementation of protocol   *)
(* v1, in Python, with constants and a CRC of its own.  A line is the four  *)
(* characters of its index and those of its frame; a line whose first word  *)
(* is not TLFRAME is no frame line and not here.  An int is the set of the  *)
(* positions of its bits that are 1, as a word of Crc32 is.                 *)
(****************************************************************************)
EXTENDS Iteration, Sequences, FiniteSetsExt

EXPECTED_FRAME_COUNT == 8
FRAME_SIZE == 34
CRC_OFFSET == 30

\* Mutant: 0x04C11DB7, the same polynomial for the registers that shift left.
CRC_POLYNOMIAL_UNREFLECTED ==
    {0, 1, 2, 4, 5, 7, 8, 10, 11, 12, 16, 22, 23, 26}

CRC_POLYNOMIAL ==                                     \* 0xEDB88320
    {5, 8, 9, 15, 19, 20, 21, 23, 24, 26, 27, 29, 30, 31}
CRC_INITIAL == 0..31                                  \* 0xFFFFFFFF
CRC_FINAL_XOR == 0..31

\* One turn of the inner loop, & 0xFFFFFFFF where the code has it.
NextCrc(crc) ==
    LET mask == IF 0 \in crc THEN 0..31 ELSE {}
    IN  SymDiff({bit - 1 : bit \in crc \ {0}}, CRC_POLYNOMIAL \cap mask)
            \cap (0..31)

\* crc ^= byte and the inner loop.
CrcOfByte(crc, byte) ==
    Iterate([turn \in 1..8 |-> [int \in SUBSET (0..31) |-> NextCrc(int)]],
            SymDiff(crc, byte), 8)

\* calculate_crc32.
Crc(data) ==
    LET loop == [i \in 1..Len(data) |->
                    [crc \in SUBSET (0..31) |-> CrcOfByte(crc, data[i])]]
    IN  SymDiff(Iterate(loop, CRC_INITIAL, Len(data)), CRC_FINAL_XOR)

DecimalDigits == <<"0", "1", "2", "3", "4", "5", "6", "7", "8", "9">>
HexadecimalDigits == DecimalDigits \o <<"A", "B", "C", "D", "E", "F">>

\* FRAME_PATTERN: four decimal digits and 68 hexadecimal capitals.
MatchesFramePattern(line) ==
    /\ Len(line.index) = 4 /\ Len(line.encoded) = 68
    /\ \A i \in DOMAIN line.index :
           \E d \in DOMAIN DecimalDigits : line.index[i] = DecimalDigits[d]
    /\ \A i \in DOMAIN line.encoded :
           \E d \in DOMAIN HexadecimalDigits :
               line.encoded[i] = HexadecimalDigits[d]

\* The weights of a hexadecimal digit's bits.
Weights == <<1, 2, 4, 8>>

\* bytes.fromhex of an even number of hexadecimal characters.
FromHex(encoded) ==
    LET value(i) ==
            (CHOOSE d \in DOMAIN HexadecimalDigits :
                 HexadecimalDigits[d] = encoded[i]) - 1
    IN  [k \in 1..(Len(encoded) \div 2) |->
            {bit \in 0..7 :
                LET half == IF bit >= 4 THEN value(2 * k - 1) ELSE value(2 * k)
                IN  (half \div Weights[(bit % 4) + 1]) % 2 = 1}]

\* int.from_bytes(raw[first:last], "big") as a word.
FromBytes(raw, first, last) ==
    UNION {{bit + 8 * (last - i) : bit \in raw[i]} : i \in (first + 1)..last}

\* The checks of validate_frame_encoding_and_headers on one frame.
HasValidHeaders(raw) ==
    /\ raw[1] = {2, 4, 6} /\ raw[2] = {2, 3, 6}       \* b"TL"
    /\ raw[3] = {0}
    /\ raw[4] = {0}
    /\ FromBytes(raw, 4, 6) = {2, 3}                  \* 12

\* Mutant: the last byte of the payload is left out.
CalculatedCrcOfLess(raw) == Crc(SubSeq(raw, 1, CRC_OFFSET - 1))

\* The checksum that a frame should carry: of raw[:CRC_OFFSET].
CalculatedCrc(raw) == Crc(SubSeq(raw, 1, CRC_OFFSET))

\* Mutant: two of the four bytes are compared.
HasValidCrcHigh(raw) ==
    FromBytes(raw, CRC_OFFSET, FRAME_SIZE) \cap (16..31) =
        CalculatedCrc(raw) \cap (16..31)

\* The last check of validate_indices_sequences_and_crc on one frame.
HasValidCrc(raw) ==
    FromBytes(raw, CRC_OFFSET, FRAME_SIZE) = CalculatedCrc(raw)

ValidateFrameEncodingAndHeaders(encoded) ==
    /\ Len(encoded) = 2 * FRAME_SIZE
    /\ HasValidHeaders(FromHex(encoded))

\* f"{number:04d}"
FourDigits(number) ==
    LET weights == <<1000, 100, 10, 1>>
    IN  [i \in 1..4 |-> DecimalDigits[((number \div weights[i]) % 10) + 1]]

\* The index of the line at a position, and the frame's sequence, a word.
ValidateIndexAndSequence(line, position, expected_sequence) ==
    /\ line.index = FourDigits(position)
    /\ FromBytes(FromHex(line.encoded), 6, 10) = expected_sequence
=============================================================================
