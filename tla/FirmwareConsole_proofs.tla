------------------------ MODULE FirmwareConsole_proofs ------------------------
(****************************************************************************)
(* Proofs about a sample's way to the validator: what the firmware prints   *)
(* is accepted, and what is accepted after at most two faults of the serial *)
(* line is what the firmware printed.                                       *)
(****************************************************************************)
EXTENDS FirmwareConsole, Operators_proofs

USE PlacesAssumption, MaxFaultsAssumption

-----------------------------------------------------------------------------
(* What the firmware prints.                                                *)

\* The bits of a number, signed or not, are a word.
LEMMA BitsTyped ==
    ASSUME NEW number, NEW width
    PROVE  /\ BitsOf(number, width) \in Word(width)
           /\ SignedBits(number, width) \in Word(width)
BY DEF BitsOf, SignedBits, Word

\* A sample's fields are words.
LEMMA SampleTyped ==
    ASSUME NEW temperature, NEW pressure, NEW supply, NEW flags \in Word(16),
           NEW sample, sample = Sample(temperature, pressure, supply, flags)
    PROVE  /\ sample.temperature \in Word(32)
           /\ sample.pressure \in Word(32)
           /\ sample.supply \in Word(16)
           /\ sample.flags \in Word(16)
BY BitsTyped DEF Sample

\* There are eight samples, and their flags are those of StatusFlag.
LEMMA SamplesTyped ==
    /\ Len(samples) = 8
    /\ \A i \in 1..8 : /\ samples[i].temperature \in Word(32)
                       /\ samples[i].pressure \in Word(32)
                       /\ samples[i].supply \in Word(16)
                       /\ samples[i].flags \in Word(16)
<1>1. Len(samples) = 8
  BY DEF samples
<1>2. ASSUME NEW flags \in SUBSET (0..3) PROVE flags \in Word(16)
  <2>1. 0..3 \subseteq 0..(16 - 1)
    OBVIOUS
  <2> QED BY <2>1 DEF Word
<1>3. ASSUME NEW i \in 1..8
      PROVE  \E temperature, pressure, supply \in Int, flags \in SUBSET (0..3) :
                 samples[i] = Sample(temperature, pressure, supply, flags)
  <2>1. /\ {} \in SUBSET (0..3) /\ {SensorWarning} \in SUBSET (0..3)
        /\ {VoltageWarning} \in SUBSET (0..3)
        /\ {CommunicationWarning} \in SUBSET (0..3)
        /\ {WatchdogEvent} \in SUBSET (0..3)
        /\ {SensorWarning, VoltageWarning} \in SUBSET (0..3)
        /\ {CommunicationWarning, WatchdogEvent} \in SUBSET (0..3)
    BY DEF SensorWarning, VoltageWarning, CommunicationWarning, WatchdogEvent
  <2>2. /\ samples[1] = Sample(-5500, 98500, 2900, {})
        /\ samples[2] = Sample(0, 100000, 3300, {SensorWarning})
        /\ samples[3] = Sample(12500, 100800, 3150, {VoltageWarning})
        /\ samples[4] = Sample(23000, 101325, 3300, {CommunicationWarning})
        /\ samples[5] = Sample(31500, 102100, 3250, {WatchdogEvent})
        /\ samples[6] =
               Sample(45000, 99500, 2800, {SensorWarning, VoltageWarning})
        /\ samples[7] =
               Sample(18500, 100500, 3000,
                      {CommunicationWarning, WatchdogEvent})
        /\ samples[8] = Sample(27000, 101800, 3350, {})
    BY DEF samples
  <2>3. i \in {1, 2, 3, 4, 5, 6, 7, 8}
    OBVIOUS
  <2> QED BY <2>1, <2>2, <2>3
<1>4. ASSUME NEW i \in 1..8
      PROVE  /\ samples[i].temperature \in Word(32)
             /\ samples[i].pressure \in Word(32)
             /\ samples[i].supply \in Word(16)
             /\ samples[i].flags \in Word(16)
  <2>1. PICK temperature, pressure, supply \in Int,
             flags \in SUBSET (0..3) :
                 samples[i] = Sample(temperature, pressure, supply, flags)
    BY <1>3
  <2> QED BY <1>2, <2>1, SampleTyped
<1> QED BY <1>1, <1>4

\* What the sensor model makes is a frame of the protocol, with the size that
\* the serializer writes and the sequence that the validator expects.
LEMMA FrameTyped ==
    ASSUME NEW index \in 0..7
    PROVE  /\ Frame(index) \in TelemetryFrames
           /\ [Frame(index) EXCEPT !.payload_size = TelemetryPayloadSize] =
                  Frame(index)
           /\ Frame(index).sequence = BitsOf(1000 + index, 32)
<1>1. index + 1 \in 1..8
  OBVIOUS
<1> DEFINE sample == samples[index + 1]
           sequence == BitsOf(initial_sequence + index, 32)
           timestamp == BitsOf(initial_timestamp_microseconds
                               + index * timestamp_increment_microseconds, 64)
<1>2. /\ sample.temperature \in Word(32) /\ sample.pressure \in Word(32)
      /\ sample.supply \in Word(16) /\ sample.flags \in Word(16)
  BY <1>1, SamplesTyped
<1>3. sequence \in Word(32) /\ timestamp \in Word(64)
  BY BitsTyped
<1>4. TelemetryPayloadSize \in Word(16)
  <2>1. 8 * 2 = 16
    OBVIOUS
  <2> QED BY <2>1, FrameBytes
<1>5. Frame(index) =
          [version |-> SupportedVersion,
           message_type |-> SupportedMessageType,
           payload_size |-> TelemetryPayloadSize,
           sequence |-> sequence, timestamp |-> timestamp,
           temperature |-> sample.temperature, pressure |-> sample.pressure,
           supply |-> sample.supply, flags |-> sample.flags]
  BY DEF Frame
<1>6. sequence = BitsOf(1000 + index, 32)
  BY DEF initial_sequence
<1> HIDE DEF sample, sequence, timestamp
<1>7. Frame(index) \in TelemetryFrames
  BY <1>2, <1>3, <1>4, <1>5 DEF TelemetryFrames
<1>8. [Frame(index) EXCEPT !.payload_size = TelemetryPayloadSize] =
          Frame(index)
  BY <1>5
<1>9. Frame(index).sequence = sequence
  BY <1>5
<1> QED BY <1>6, <1>7, <1>8, <1>9

\* The frame that is printed at a position, its bytes, their text and
\* the sequence that the validator expects there.
PrintedFrame(k) == Frame(k - 1)
PrintedBytes(k) == Serialize(PrintedFrame(k))
PrintedLine(k) == Line(k, PrintedFrame(k))
PrintedText(k) == Format(PrintedBytes(k))
ExpectedSequence(k) == BitsOf(1000 + k - 1, 32)

\* The serializer's bytes of the model's frames are accepted and hold them.
LEMMA FrameAccepted ==
    ASSUME NEW k \in 1..8, NEW bytes, bytes = PrintedBytes(k)
    PROVE  /\ bytes \in Seq(Byte) /\ Len(bytes) = frame_size
           /\ Accepted(bytes)
           /\ Read(bytes, 6, 4) = ExpectedSequence(k)
           /\ Deserialize(bytes) =
                  [frame |-> {PrintedFrame(k)}, error |-> "none"]
<1> DEFINE index == k - 1
           frame == PrintedFrame(k)
<1>1. index \in 0..7 /\ 1000 + k - 1 = 1000 + index
  OBVIOUS
<1>2. frame = Frame(index) /\ ExpectedSequence(k) = BitsOf(1000 + index, 32)
  BY <1>1 DEF PrintedFrame, ExpectedSequence
<1>3. bytes = Serialize(frame)
  BY DEF PrintedBytes
<1> HIDE DEF index, frame
<1>4. /\ frame \in TelemetryFrames
      /\ [frame EXCEPT !.payload_size = TelemetryPayloadSize] = frame
      /\ frame.sequence = ExpectedSequence(k)
  BY <1>1, <1>2, FrameTyped
<1>5. frame.version \in Byte /\ frame.message_type \in Byte
  BY <1>4, FrameBytes DEF TelemetryFrames
<1>6. bytes \in Seq(Byte) /\ Len(bytes) = frame_size
  BY <1>3, <1>5, SerializedLaidOut
<1>7. Accepted(bytes) /\ Extract(bytes) = frame
  BY <1>3, <1>4, SerializedAccepted
<1>8. Deserialize(bytes) = [frame |-> {frame}, error |-> "none"]
  BY <1>7, DeserializeAccepts
<1>9. Read(bytes, 6, 4) = ExpectedSequence(k)
  <2>1. Extract(bytes).sequence = Read(bytes, 6, 4)
    BY DEF Extract, sequence_offset
  <2> QED BY <1>4, <1>7, <2>1
<1> QED BY <1>6, <1>7, <1>8, <1>9 DEF frame

\* The characters of a frame.
Hexadecimals == {HexadecimalDigits[d] : d \in 1..16}

\* Formatting writes nothing else.
LEMMA FormatIsHexadecimal ==
    ASSUME NEW bytes \in Seq(Byte)
    PROVE  /\ Format(bytes) \in Seq(Hexadecimals)
           /\ DOMAIN Format(bytes) = 1..(2 * Len(bytes))
<1> DEFINE N == Len(bytes)
<1>1. N \in Nat /\ \A k \in 1..N : bytes[k] \in Byte
  BY LenProperties, ElementOfSeq
<1>2. DOMAIN Format(bytes) = 1..(2 * N)
  BY DEF Format
<1>3. /\ \A k \in 1..N : /\ Format(bytes)[2 * k - 1] =
                                Digit(HighHalf(bytes[k]))
                         /\ Format(bytes)[2 * k] = Digit(LowHalf(bytes[k]))
  BY FormatTyped
<1> HIDE DEF N
<1>4. ASSUME NEW bits \in SUBSET (0..3) PROVE Digit(bits) \in Hexadecimals
  <2>1. Nibble(bits) + 1 \in 1..16
    <3>1. Nibble(bits) \in 0..15
      BY NibbleBits, Zenon
    <3> QED BY <3>1
  <2>2. HexadecimalDigits[Nibble(bits) + 1] = Digit(bits)
    BY <2>1, DigitsAgree DEF Digit
  <2> QED BY <2>1, <2>2 DEF Hexadecimals
<1>5. ASSUME NEW i \in 1..(2 * N) PROVE Format(bytes)[i] \in Hexadecimals
  <2> DEFINE k == (i + 1) \div 2
  <2>1. k \in 1..N /\ (i = 2 * k - 1 \/ i = 2 * k)
    BY <1>1
  <2> HIDE DEF k
  <2>2. /\ HighHalf(bytes[k]) \in SUBSET (0..3)
        /\ LowHalf(bytes[k]) \in SUBSET (0..3)
    BY <1>1, <2>1, Halves
  <2> QED BY <1>3, <1>4, <2>1, <2>2
<1>6. Format(bytes) = [i \in 1..(2 * N) |-> Format(bytes)[i]]
  BY DEF Format, N
<1>7. Format(bytes) \in [1..(2 * N) -> Hexadecimals]
  BY <1>5, <1>6
<1>8. Format(bytes) \in Seq(Hexadecimals)
  <2>1. 2 * N \in Nat
    BY <1>1
  <2> QED BY <1>7, <2>1, SeqDef
<1> QED BY <1>2, <1>8 DEF N

\* 68 characters are the bytes of a frame, whatever they are.
LEMMA FromHexTyped ==
    ASSUME NEW encoded, Len(encoded) = 68
    PROVE  /\ FromHex(encoded) \in Seq(Byte)
           /\ Len(FromHex(encoded)) = frame_size
<1> DEFINE digit(i) == (CHOOSE d \in DOMAIN HexadecimalDigits :
                            HexadecimalDigits[d] = encoded[i]) - 1
           half(k, bit) == IF bit >= 4 THEN digit(2 * k - 1) ELSE digit(2 * k)
           byte(k) == {bit \in 0..7 :
                          (half(k, bit) \div Weights[(bit % 4) + 1]) % 2 = 1}
<1>1. Len(encoded) \div 2 = 34
  <2>1. 68 \div 2 = 34
    OBVIOUS
  <2> QED BY <2>1
<1>2. FromHex(encoded) = [k \in 1..34 |-> byte(k)]
  BY <1>1 DEF FromHex
<1>3. \A k \in 1..34 : byte(k) \in Byte
  <2> HIDE DEF half
  <2> QED BY Widths
<1> HIDE DEF byte
<1>4. FromHex(encoded) \in [1..34 -> Byte]
  BY <1>2, <1>3
<1>5. FromHex(encoded) \in Seq(Byte) /\ DOMAIN FromHex(encoded) = 1..34
  <2> DEFINE n == 34
  <2>1. n \in Nat /\ FromHex(encoded) \in [1..n -> Byte]
    BY <1>4
  <2> HIDE DEF n
  <2>2. FromHex(encoded) \in Seq(Byte) /\ DOMAIN FromHex(encoded) = 1..n
    BY <2>1, SeqDef
  <2> QED BY <2>2 DEF n
<1> QED BY <1>5, LenProperties DEF frame_size

\* A byte is decoded from its own two characters.
LEMMA FromHexSame ==
    ASSUME NEW encoded, Len(encoded) = 68, NEW other, Len(other) = 68,
           NEW i \in 1..34, other[2 * i - 1] = encoded[2 * i - 1],
           other[2 * i] = encoded[2 * i]
    PROVE  FromHex(other)[i] = FromHex(encoded)[i]
<1> DEFINE digit(character) ==
               (CHOOSE d \in DOMAIN HexadecimalDigits :
                    HexadecimalDigits[d] = character) - 1
           byte(high, low) ==
               {bit \in 0..7 :
                   LET half == IF bit >= 4 THEN digit(high) ELSE digit(low)
                   IN  (half \div Weights[(bit % 4) + 1]) % 2 = 1}
<1>1. 68 \div 2 = 34
  OBVIOUS
<1>2. /\ FromHex(encoded) =
             [k \in 1..34 |-> byte(encoded[2 * k - 1], encoded[2 * k])]
      /\ FromHex(other) = [k \in 1..34 |-> byte(other[2 * k - 1], other[2 * k])]
  BY <1>1 DEF FromHex
<1> HIDE DEF byte
<1> QED BY <1>2

-----------------------------------------------------------------------------
(* What the validator accepts.                                              *)

\* The characters of an index.
Decimals == {DecimalDigits[d] : d \in 1..10}

\* An index is written with four of them.
LEMMA FourDigitsTyped ==
    ASSUME NEW number \in Nat
    PROVE  FourDigits(number) \in [1..4 -> Decimals]
<1> DEFINE weights == <<1000, 100, 10, 1>>
<1>1. \A i \in 1..4 : weights[i] \in Nat /\ weights[i] > 0
  OBVIOUS
<1>2. FourDigits(number) =
          [i \in 1..4 |-> DecimalDigits[((number \div weights[i]) % 10) + 1]]
  BY DEF FourDigits
<1> HIDE DEF weights
<1>3. \A i \in 1..4 : ((number \div weights[i]) % 10) + 1 \in 1..10
  <2>1. ASSUME NEW weight \in Nat, weight > 0
        PROVE  ((number \div weight) % 10) + 1 \in 1..10
    <3>1. number \div weight \in Int
      BY <2>1
    <3> QED BY <3>1
  <2> QED BY <1>1, <2>1
<1> QED BY <1>2, <1>3 DEF Decimals

\* Four of anything are a sequence of length four.
LEMMA FourAreFour ==
    ASSUME NEW S, NEW four \in [1..4 -> S]
    PROVE  four \in Seq(S) /\ Len(four) = 4
<1> DEFINE n == 4
<1>1. n \in Nat /\ four \in [1..n -> S]
  OBVIOUS
<1> HIDE DEF n
<1>2. four \in Seq(S) /\ DOMAIN four = 1..n
  BY <1>1, SeqDef
<1>3. Len(four) = n
  BY <1>1, <1>2, LenProperties
<1> QED BY <1>2, <1>3 DEF n

\* The digits of both kinds, by their positions.
LEMMA DigitDomains ==
    DOMAIN DecimalDigits = 1..10 /\ DOMAIN HexadecimalDigits = 1..16
<1>1. DOMAIN DecimalDigits = 1..10
  BY DEF DecimalDigits
<1> QED BY <1>1, DigitsAgree

\* Everything the validator asks of a frame line.
LineAccepted(line, k) ==
    /\ MatchesFramePattern(line)
    /\ ValidateFrameEncodingAndHeaders(line.encoded)
    /\ ValidateIndexAndSequence(line, k, ExpectedSequence(k))
    /\ HasValidCrc(FromHex(line.encoded))

\* A line the firmware prints is accepted at its position.
LEMMA PrintedIsAccepted ==
    ASSUME NEW k \in 1..8, NEW line, line = PrintedLine(k)
    PROVE  LineAccepted(line, k)
<1> DEFINE bytes == PrintedBytes(k)
<1>1. /\ line.index = FourDigits(k)
      /\ line.encoded = Format(bytes)
  BY DEF Line, PrintedLine, PrintedBytes
<1>2. k \in Nat
  OBVIOUS
<1>3. /\ bytes \in Seq(Byte) /\ Len(bytes) = frame_size
      /\ Accepted(bytes)
      /\ Read(bytes, 6, 4) = ExpectedSequence(k)
  BY FrameAccepted
<1> HIDE DEF bytes
<1>4. FromHex(line.encoded) = bytes
  BY <1>1, <1>3, FromHexOfFormat
<1>5. HasValidHeaders(bytes) /\ HasValidCrc(bytes)
  BY <1>3, SameChecks
<1>6. Len(line.encoded) = 68 /\ DOMAIN line.encoded = 1..68
      /\ line.encoded \in Seq(Hexadecimals)
  <2>1. Len(bytes) = 34
    BY <1>3 DEF frame_size
  <2>2. /\ Len(Format(bytes)) = 2 * Len(bytes)
        /\ DOMAIN Format(bytes) = 1..(2 * Len(bytes))
        /\ Format(bytes) \in Seq(Hexadecimals)
    BY <1>3, FormatTyped, FormatIsHexadecimal
  <2>3. 2 * 34 = 68
    OBVIOUS
  <2> QED BY <1>1, <2>1, <2>2, <2>3
<1>7. ValidateFrameEncodingAndHeaders(line.encoded)
  <2>1. 2 * FRAME_SIZE = 68
    BY DEF FRAME_SIZE
  <2> QED BY <1>4, <1>5, <1>6, <2>1 DEF ValidateFrameEncodingAndHeaders
<1>8. MatchesFramePattern(line)
  <2>1. FourDigits(k) \in [1..4 -> Decimals]
    BY <1>2, FourDigitsTyped
  <2>2. Len(line.index) = 4
    BY <1>1, <2>1, FourAreFour
  <2>3. \A i \in DOMAIN line.index :
            \E d \in DOMAIN DecimalDigits : line.index[i] = DecimalDigits[d]
    BY <1>1, <2>1, DigitDomains DEF Decimals
  <2>4. \A i \in 1..68 : line.encoded[i] \in Hexadecimals
    BY <1>6, ElementOfSeq
  <2>5. \A i \in DOMAIN line.encoded :
            \E d \in DOMAIN HexadecimalDigits :
                line.encoded[i] = HexadecimalDigits[d]
    <3>1. \A c \in Hexadecimals : \E d \in DOMAIN HexadecimalDigits :
              c = HexadecimalDigits[d]
      BY DigitDomains, Zenon DEF Hexadecimals
    <3> QED BY <1>6, <2>4, <3>1, Zenon
  <2> QED BY <1>6, <2>2, <2>3, <2>5 DEF MatchesFramePattern
<1>9. ValidateIndexAndSequence(line, k, ExpectedSequence(k))
  <2>1. HasBytes(bytes, 6, 4)
    <3>1. \A i \in 1..34 : bytes[i] \in Byte
      BY <1>3, ElementOfSeq, Zenon DEF frame_size
    <3>2. \A i \in 1..4 : 6 + i \in 1..34
      OBVIOUS
    <3> QED BY <3>1, <3>2 DEF HasBytes
  <2>2. FromBytes(bytes, 6, 6 + 4) = Read(bytes, 6, 4)
    BY <2>1, FromBytesReads
  <2>3. 6 + 4 = 10
    OBVIOUS
  <2>4. FromBytes(bytes, 6, 10) = ExpectedSequence(k)
    BY <1>3, <2>2, <2>3
  <2> QED BY <1>1, <1>4, <2>4 DEF ValidateIndexAndSequence
<1> QED BY <1>4, <1>5, <1>7, <1>8, <1>9 DEF LineAccepted

\* The places of a frame's characters.
TextPlaces == 1..68

\* Two frames' characters are the same but for two places, or fewer.
CharactersAgreeBut(encoded, other, first, second) ==
    \A i \in TextPlaces : i \notin {first, second} => other[i] = encoded[i]

\* Then so are their bytes.
LEMMA BytesAgreeBut ==
    ASSUME NEW encoded, Len(encoded) = 68, NEW other, Len(other) = 68,
           NEW first \in TextPlaces, NEW second \in TextPlaces,
           CharactersAgreeBut(encoded, other, first, second)
    PROVE  \E p, q \in 1..frame_size :
               AgreeBut(FromHex(encoded), FromHex(other), p, q)
<1> DEFINE p == (first + 1) \div 2
           q == (second + 1) \div 2
<1>1. p \in 1..34 /\ q \in 1..34
  BY DEF TextPlaces
<1>2. ASSUME NEW i \in 1..34, i # p, i # q
      PROVE  FromHex(other)[i] = FromHex(encoded)[i]
  <2>1. /\ 2 * i - 1 \in 1..68 /\ 2 * i - 1 \notin {first, second}
        /\ 2 * i \in 1..68 /\ 2 * i \notin {first, second}
    BY <1>2
  <2>2. other[2 * i - 1] = encoded[2 * i - 1] /\ other[2 * i] = encoded[2 * i]
    BY <2>1 DEF CharactersAgreeBut, TextPlaces
  <2> QED BY <2>2, FromHexSame
<1> HIDE DEF p, q
<1>3. AgreeBut(FromHex(encoded), FromHex(other), p, q)
  BY <1>2 DEF AgreeBut, frame_size
<1> QED BY <1>1, <1>3 DEF frame_size

\* A line that is accepted, and differs from a printed one in two characters
\* at most, has the frame that was printed.
LEMMA AcceptedIsPrinted ==
    ASSUME NEW k \in 1..8, NEW line, LineAccepted(line, k),
           NEW first \in TextPlaces, NEW second \in TextPlaces,
           CharactersAgreeBut(PrintedText(k), line.encoded, first, second)
    PROVE  Deserialize(FromHex(line.encoded)) =
               [frame |-> {PrintedFrame(k)}, error |-> "none"]
<1> DEFINE bytes == PrintedBytes(k)
           text == Format(bytes)
           other == FromHex(line.encoded)
<1>1. /\ bytes \in Seq(Byte) /\ Len(bytes) = frame_size /\ Accepted(bytes)
      /\ Deserialize(bytes) = [frame |-> {PrintedFrame(k)}, error |-> "none"]
  BY FrameAccepted
<1>2. CharactersAgreeBut(text, line.encoded, first, second)
  BY DEF PrintedText
<1> HIDE DEF bytes
<1>3. Len(line.encoded) = 68
  BY DEF LineAccepted, MatchesFramePattern
<1>4. Len(Format(bytes)) = 68 /\ FromHex(Format(bytes)) = bytes
  <2>1. Len(Format(bytes)) = 2 * 34
    BY <1>1, FormatTyped DEF frame_size
  <2>2. 2 * 34 = 68
    OBVIOUS
  <2> QED BY <1>1, <2>1, <2>2, FromHexOfFormat
<1>5. other \in Seq(Byte) /\ Len(other) = frame_size
  BY <1>3, FromHexTyped
<1>6. PICK p, q \in 1..frame_size : AgreeBut(bytes, other, p, q)
  <2> HIDE DEF text
  <2>1. \E p, q \in 1..frame_size :
            AgreeBut(FromHex(text), FromHex(line.encoded), p, q)
    BY <1>2, <1>3, <1>4, BytesAgreeBut, Zenon DEF text
  <2> QED BY <1>4, <2>1, Zenon DEF text
<1>7. ChecksumMatches(other)
  <2>1. HasValidHeaders(other) /\ HasValidCrc(other)
    BY DEF LineAccepted, ValidateFrameEncodingAndHeaders
  <2> HIDE DEF other
  <2>2. Accepted(other)
    BY <1>5, <2>1, SameChecks
  <2> QED BY <2>2 DEF Accepted
<1>8. ChecksumMatches(bytes)
  BY <1>1 DEF Accepted
<1> HIDE DEF other
<1>9. other = bytes
  BY <1>1, <1>5, <1>6, <1>7, <1>8, TwoReplacedAreSeen
<1> QED BY <1>1, <1>9 DEF other

-----------------------------------------------------------------------------
(* What the serial line leaves of it.                                       *)

\* The lines of a console, whatever has become of their characters.
Symbols == Characters \cup Decimals \cup Hexadecimals
Lines == [index : [1..4 -> Symbols], encoded : Seq(Symbols)]

\* No character is added, and nothing happens before all is written.
ConsoleTyped ==
    /\ next_index \in 0..8
    /\ faults \in Nat
    /\ console \in Seq(Lines)
    /\ Len(console) <= 8
    /\ \A k \in 1..Len(console) : Len(console[k].encoded) <= 68
    /\ faults > 0 => next_index = 8

\* What is printed stands there until the first fault.
Undamaged ==
    faults = 0 => /\ Len(console) = next_index
                  /\ \A k \in 1..Len(console) :
                         console[k] = PrintedLine(k)

\* No line and no character is lost.
Whole ==
    /\ Len(console) = 8
    /\ \A k \in 1..8 : Len(console[k].encoded) = 68

\* A line is what was printed, but for one character for each fault.
FewWrong(k) ==
    /\ faults = 0 => console[k].encoded = PrintedText(k)
    /\ faults = 1 =>
           \E place \in TextPlaces :
               CharactersAgreeBut(PrintedText(k), console[k].encoded,
                                  place, place)
    /\ faults = 2 =>
           \E first, second \in TextPlaces :
               CharactersAgreeBut(PrintedText(k), console[k].encoded,
                                  first, second)

\* Each fault spoils a character, or is seen by what is missing.
LittleDamage == Whole => \A k \in 1..8 : FewWrong(k)

\* A printed line.
LEMMA LineTyped ==
    ASSUME NEW k \in 1..8
    PROVE  /\ PrintedLine(k) \in Lines
           /\ PrintedLine(k).encoded = PrintedText(k)
           /\ Len(PrintedText(k)) = 68
<1> DEFINE bytes == PrintedBytes(k)
<1>1. k \in Nat
  OBVIOUS
<1>2. bytes \in Seq(Byte) /\ Len(bytes) = 34
  BY FrameAccepted DEF frame_size
<1>3. PrintedLine(k) =
          [index |-> FourDigits(k), encoded |-> Format(bytes)]
  BY DEF Line, PrintedLine, PrintedBytes
<1> HIDE DEF bytes
<1>4. Format(bytes) \in Seq(Hexadecimals) /\ Len(Format(bytes)) = 68
  <2>1. 2 * 34 = 68
    OBVIOUS
  <2>2. Format(bytes) \in Seq(Hexadecimals)
    BY <1>2, FormatIsHexadecimal, Zenon
  <2>3. Len(Format(bytes)) = 2 * Len(bytes)
    BY <1>2, FormatTyped, Zenon
  <2>4. Len(Format(bytes)) = 68
    BY <1>2, <2>1, <2>3
  <2> QED BY <2>2, <2>4, Zenon
<1>5. Format(bytes) \in Seq(Symbols)
  <2>1. Hexadecimals \subseteq Symbols
    BY DEF Symbols
  <2>2. ASSUME NEW i \in 1..Len(Format(bytes))
        PROVE  Format(bytes)[i] \in Symbols
    <3>1. Format(bytes)[i] \in Hexadecimals
      BY <1>4, ElementOfSeq, Zenon
    <3> QED BY <2>1, <3>1
  <2>3. /\ Format(bytes) \in [1..Len(Format(bytes)) -> Hexadecimals]
        /\ Len(Format(bytes)) \in Nat
    BY <1>4, LenProperties
  <2>4. Format(bytes) \in [1..Len(Format(bytes)) -> Symbols]
    BY <2>2, <2>3
  <2> QED BY <2>3, <2>4, SeqDef
<1>6. FourDigits(k) \in [1..4 -> Symbols]
  <2>1. Decimals \subseteq Symbols
    BY DEF Symbols
  <2> QED BY <1>1, <2>1, FourDigitsTyped
<1>7. PrintedLine(k) \in Lines
  BY <1>3, <1>5, <1>6 DEF Lines
<1> QED BY <1>3, <1>4, <1>7 DEF PrintedText, bytes

\* Printing.
LEMMA PrintStep ==
    ASSUME ConsoleTyped, Undamaged, PrintFrame
    PROVE  ConsoleTyped' /\ Undamaged' /\ faults' = faults
<1> DEFINE k == next_index + 1
           line == PrintedLine(k)
<1>1. /\ next_index \in 0..7 /\ k \in 1..8 /\ k - 1 = next_index
      /\ next_index' = k /\ faults' = faults /\ faults = 0
  BY SamplesTyped DEF PrintFrame, HasNext, ConsoleTyped
<1>2. console' = Append(console, line)
  BY <1>1 DEF PrintFrame, PrintedLine, PrintedFrame
<1>3. /\ line \in Lines /\ Len(line.encoded) = 68
  BY <1>1, LineTyped
<1>4. /\ console \in Seq(Lines) /\ Len(console) = k - 1
      /\ \A j \in 1..(k - 1) : console[j] = PrintedLine(j)
      /\ \A j \in 1..(k - 1) : Len(console[j].encoded) <= 68
  BY <1>1 DEF ConsoleTyped, Undamaged
<1> HIDE DEF line, k
<1>5. /\ console' \in Seq(Lines) /\ Len(console') = k
      /\ \A j \in 1..(k - 1) : console'[j] = console[j]
      /\ console'[k] = line
  BY <1>1, <1>2, <1>3, <1>4, AppendProperties
<1>6. \A j \in 1..k : j \in 1..(k - 1) \/ j = k
  BY <1>1
<1>7. \A j \in 1..k : console'[j] = PrintedLine(j)
  BY <1>4, <1>5, <1>6 DEF line
<1>8. ASSUME NEW j \in 1..k PROVE Len(console'[j].encoded) <= 68
  <2>1. CASE j \in 1..(k - 1)
    <3>1. console'[j] = console[j] /\ Len(console[j].encoded) <= 68
      BY <1>4, <1>5, <2>1
    <3> QED BY <3>1
  <2>2. CASE j = k
    <3>1. console'[j] = line
      BY <1>5, <2>2
    <3>2. Len(line.encoded) <= 68
      BY <1>3
    <3> QED BY <3>1, <3>2, Zenon
  <2>3. j \in 1..(k - 1) \/ j = k
    BY <1>1
  <2> QED BY <2>1, <2>2, <2>3, Zenon
<1> QED BY <1>1, <1>5, <1>7, <1>8 DEF ConsoleTyped, Undamaged

\* A line is replaced by one of the same length.
Replaces(k, line) ==
    /\ k \in 1..Len(console)
    /\ line \in Lines
    /\ Len(line.encoded) = Len(console[k].encoded)
    /\ console' = [console EXCEPT ![k] = line]

\* That is all that happens to the console.
LEMMA ReplacesOne ==
    ASSUME ConsoleTyped, NEW k, NEW line, Replaces(k, line)
    PROVE  /\ console' \in Seq(Lines) /\ Len(console') = Len(console)
           /\ console'[k] = line
           /\ \A j \in 1..Len(console) : j # k => console'[j] = console[j]
           /\ \A j \in 1..Len(console) :
                  Len(console'[j].encoded) = Len(console[j].encoded)
<1>1. /\ console' \in Seq(Lines) /\ Len(console') = Len(console)
      /\ \A j \in 1..Len(console) :
             console'[j] = IF j = k THEN line ELSE console[j]
  BY ExceptSeq DEF Replaces, ConsoleTyped
<1>2. k \in 1..Len(console) /\ Len(line.encoded) = Len(console[k].encoded)
  BY DEF Replaces
<1> QED BY <1>1, <1>2

\* A frame's characters are all there, and the same but for one place.
SameBut(k, line, place) ==
    Len(line.encoded) = 68 =>
        \A i \in TextPlaces : i # place => line.encoded[i] = console[k].encoded[i]

\* Garbling a character of the frame.
LEMMA GarbledCharacter ==
    ASSUME ConsoleTyped, GarbleCharacter
    PROVE  \E k, line : \E place \in TextPlaces :
               Replaces(k, line) /\ SameBut(k, line, place)
<1>1. PICK k \in DOMAIN console, place \in Places, character \in Characters :
          console' = [console EXCEPT ![k].encoded[place] = character]
  BY DEF GarbleCharacter
<1> DEFINE old == console[k]
           text == [old.encoded EXCEPT ![place] = character]
           line == [old EXCEPT !.encoded = text]
<1>2. k \in 1..Len(console) /\ old \in Lines
  BY <1>1, ElementOfSeq, LenProperties DEF ConsoleTyped
<1>3. console' = [console EXCEPT ![k] = line]
  BY <1>1
<1>4. /\ old.encoded \in Seq(Symbols) /\ old.index \in [1..4 -> Symbols]
      /\ old = [index |-> old.index, encoded |-> old.encoded]
  BY <1>2 DEF Lines
<1>5. place \in TextPlaces
  BY <1>1 DEF FRAME_SIZE, TextPlaces
<1> DEFINE n == Len(old.encoded)
<1>6. n \in Nat /\ old.encoded \in [1..n -> Symbols]
  BY <1>4, LenProperties
<1> HIDE DEF old
<1>7. text \in [1..n -> Symbols]
  BY <1>1, <1>6 DEF Symbols
<1>8. text \in Seq(Symbols) /\ Len(text) = n
  BY <1>6, <1>7, SeqDef, LenProperties
<1>9. \A i \in 1..n : i # place => text[i] = old.encoded[i]
  BY <1>6
<1> HIDE DEF text
<1>10. line = [index |-> old.index, encoded |-> text]
  BY <1>4
<1> HIDE DEF line
<1>11. line \in Lines /\ line.encoded = text
  BY <1>4, <1>8, <1>10 DEF Lines
<1>12. Replaces(k, line)
  BY <1>2, <1>3, <1>8, <1>11 DEF Replaces, old
<1>13. SameBut(k, line, place)
  BY <1>8, <1>9, <1>11 DEF old, SameBut, TextPlaces
<1> QED BY <1>5, <1>12, <1>13, Zenon

\* Garbling a character of the index.
LEMMA GarbledIndex ==
    ASSUME ConsoleTyped, GarbleIndex
    PROVE  \E k, line : \E place \in TextPlaces :
               Replaces(k, line) /\ SameBut(k, line, place)
<1>1. PICK k \in DOMAIN console, character \in Characters :
          console' = [console EXCEPT ![k].index[4] = character]
  BY DEF GarbleIndex
<1> DEFINE old == console[k]
           digits == [old.index EXCEPT ![4] = character]
           line == [old EXCEPT !.index = digits]
<1>2. k \in 1..Len(console) /\ old \in Lines
  BY <1>1, ElementOfSeq, LenProperties DEF ConsoleTyped
<1>3. console' = [console EXCEPT ![k] = line]
  BY <1>1
<1>4. /\ old.encoded \in Seq(Symbols) /\ old.index \in [1..4 -> Symbols]
      /\ old = [index |-> old.index, encoded |-> old.encoded]
  BY <1>2 DEF Lines
<1> HIDE DEF old
<1>5. digits \in [1..4 -> Symbols]
  BY <1>1, <1>4 DEF Symbols
<1> HIDE DEF digits
<1>6. line = [index |-> digits, encoded |-> old.encoded]
  BY <1>4
<1> HIDE DEF line
<1>7. line \in Lines /\ line.encoded = old.encoded
  BY <1>4, <1>5, <1>6 DEF Lines
<1>8. Replaces(k, line)
  BY <1>2, <1>3, <1>7 DEF Replaces, old
<1>9. SameBut(k, line, 1)
  BY <1>7 DEF old, SameBut
<1>10. 1 \in TextPlaces
  BY DEF TextPlaces
<1> QED BY <1>8, <1>9, <1>10, Zenon

\* A sequence that loses a member keeps the others.
LEMMA Removed ==
    ASSUME NEW S, NEW s \in Seq(S), NEW i \in 1..Len(s)
    PROVE  /\ RemoveAt(s, i) \in Seq(S)
           /\ Len(RemoveAt(s, i)) = Len(s) - 1
           /\ \A j \in 1..(Len(s) - 1) :
                  RemoveAt(s, i)[j] = s[IF j < i THEN j ELSE j + 1]
<1> DEFINE front == SubSeq(s, 1, i - 1)
           back == SubSeq(s, i + 1, Len(s))
<1>1. Len(s) \in Nat /\ i \in Nat
  BY LenProperties
<1>2. /\ front \in Seq(S) /\ Len(front) = i - 1
      /\ \A j \in 1..(i - 1) : front[j] = s[j]
  BY <1>1, SubSeqProperties
<1>3. /\ back \in Seq(S) /\ Len(back) = Len(s) - i
      /\ \A j \in 1..(Len(s) - i) : back[j] = s[i + j]
  BY <1>1, SubSeqProperties
<1>4. RemoveAt(s, i) = front \o back
  BY DEF RemoveAt
<1> HIDE DEF front, back
<1>5. /\ front \o back \in Seq(S)
      /\ Len(front \o back) = Len(front) + Len(back)
      /\ \A j \in 1..(Len(front) + Len(back)) :
             (front \o back)[j] = IF j <= Len(front) THEN front[j]
                                  ELSE back[j - Len(front)]
  BY <1>2, <1>3, ConcatProperties
<1>6. Len(front) + Len(back) = Len(s) - 1
  BY <1>1, <1>2, <1>3
<1>7. ASSUME NEW j \in 1..(Len(s) - 1)
      PROVE  (front \o back)[j] = s[IF j < i THEN j ELSE j + 1]
  <2>1. CASE j < i
    <3>1. j <= Len(front) /\ j \in 1..(i - 1)
      BY <1>1, <1>2, <2>1
    <3> QED BY <1>2, <1>5, <1>6, <2>1, <3>1
  <2>2. CASE ~(j < i)
    <3>1. /\ ~(j <= Len(front)) /\ j - Len(front) \in 1..(Len(s) - i)
          /\ i + (j - Len(front)) = j + 1
      BY <1>1, <1>2, <2>2
    <3> QED BY <1>3, <1>5, <1>6, <2>2, <3>1
  <2> QED BY <2>1, <2>2
<1> QED BY <1>4, <1>5, <1>6, <1>7

\* A sequence's members are those at its positions.
LEMMA LinesTyped ==
    ASSUME ConsoleTyped, NEW k \in DOMAIN console
    PROVE  /\ k \in 1..Len(console)
           /\ console[k].encoded \in Seq(Symbols)
           /\ console[k].index \in [1..4 -> Symbols]
           /\ console[k] = [index |-> console[k].index,
                            encoded |-> console[k].encoded]
<1>1. k \in 1..Len(console) /\ console[k] \in Lines
  BY ElementOfSeq, LenProperties DEF ConsoleTyped
<1> QED BY <1>1 DEF Lines

\* A fault comes when all is written.
LEMMA FaultStep ==
    ASSUME ConsoleTyped, Fault
    PROVE  /\ next_index' = 8 /\ next_index = 8 /\ faults' = faults + 1
           /\ faults' \in Nat /\ faults' > 0
           /\ faults' <= MaxFaults
<1>1. next_index' = next_index /\ faults' = faults + 1 /\ faults < MaxFaults
      /\ ~(next_index < 8) /\ next_index \in 0..8 /\ faults \in Nat
  BY SamplesTyped DEF Fault, HasNext, ConsoleTyped
<1> QED BY <1>1, MaxFaultsAssumption

\* Two is neither.
LEMMA TwoIsAnother ==
    ASSUME NEW n, n = 2
    PROVE  n # 0 /\ n # 1
OBVIOUS

\* A spoiled character keeps the console's form.
LEMMA ReplaceStep ==
    ASSUME ConsoleTyped, LittleDamage, Fault,
           NEW k, NEW line, NEW place \in TextPlaces, Replaces(k, line),
           SameBut(k, line, place)
    PROVE  ConsoleTyped' /\ LittleDamage'
<1>1. /\ console' \in Seq(Lines) /\ Len(console') = Len(console)
      /\ console'[k] = line
      /\ \A j \in 1..Len(console) : j # k => console'[j] = console[j]
      /\ \A j \in 1..Len(console) :
             Len(console'[j].encoded) = Len(console[j].encoded)
  BY ReplacesOne
<1>2. ConsoleTyped'
  BY <1>1, FaultStep DEF ConsoleTyped
<1>3. SUFFICES ASSUME Whole', NEW j \in 1..8 PROVE FewWrong(j)'
  BY <1>2 DEF LittleDamage
<1>4. Whole /\ Len(console) = 8
  <2>1. /\ Len(console') = 8
        /\ \A i \in 1..8 : Len(console'[i].encoded) = 68
    BY <1>3, Zenon DEF Whole
  <2>2. Len(console) = 8
    BY <1>1, <2>1, Zenon
  <2>3. \A i \in 1..8 : Len(console[i].encoded) = 68
    <3>1. \A i \in 1..8 :
              Len(console'[i].encoded) = Len(console[i].encoded)
      BY <1>1, <2>2, Zenon
    <3> QED BY <2>1, <3>1, Zenon
  <2> QED BY <2>2, <2>3, Zenon DEF Whole
<1>5. FewWrong(j)
  BY <1>4 DEF LittleDamage
<1>6. Len(console'[j].encoded) = 68
  BY <1>3 DEF Whole
<1>7. ASSUME NEW i \in TextPlaces, i # place
      PROVE  console'[j].encoded[i] = console[j].encoded[i]
  <2>1. CASE j = k
    BY <1>1, <1>6, <1>7, <2>1 DEF SameBut
  <2>2. CASE j # k
    BY <1>1, <1>4, <2>2
  <2> QED BY <2>1, <2>2
<1>8. CASE faults = 0
  <2>1. faults' = 1 /\ console[j].encoded = PrintedText(j)
    BY <1>5, <1>8, FaultStep DEF FewWrong
  <2>2. CharactersAgreeBut(PrintedText(j), console'[j].encoded, place, place)
    BY <1>7, <2>1 DEF CharactersAgreeBut
  <2> QED BY <2>1, <2>2 DEF FewWrong, PrintedText
<1>9. CASE faults = 1
  <2>1. faults' = 2
    BY <1>9, FaultStep
  <2>2. PICK first \in TextPlaces :
            CharactersAgreeBut(PrintedText(j), console[j].encoded, first, first)
    BY <1>5, <1>9, Zenon DEF FewWrong
  <2>3. CharactersAgreeBut(PrintedText(j), console'[j].encoded, first, place)
    <3>1. \A i \in TextPlaces : i # first =>
              console[j].encoded[i] = PrintedText(j)[i]
      BY <2>2, Zenon DEF CharactersAgreeBut
    <3> QED BY <1>7, <3>1, Zenon DEF CharactersAgreeBut
  <2>4. faults' # 0 /\ faults' # 1
    BY <2>1, TwoIsAnother, Zenon
  <2> QED BY <2>3, <2>4, Zenon DEF FewWrong, PrintedText
<1>10. CASE faults \notin {0, 1}
  <2>1. faults' # 0 /\ faults' # 1 /\ faults' # 2
    BY <1>10, FaultStep DEF ConsoleTyped
  <2> QED BY <2>1 DEF FewWrong
<1> QED BY <1>8, <1>9, <1>10

\* A frame that loses a character is seen by its length.
LEMMA LoseCharacterStep ==
    ASSUME ConsoleTyped, LoseCharacter
    PROVE  ConsoleTyped' /\ ~Whole'
<1>1. PICK k \in DOMAIN console, place \in Places :
          /\ place <= Len(console[k].encoded)
          /\ console' = [console EXCEPT ![k].encoded = RemoveAt(@, place)]
  BY DEF LoseCharacter
<1>2. Fault
  BY DEF LoseCharacter
<1> DEFINE old == console[k]
           text == RemoveAt(old.encoded, place)
           line == [old EXCEPT !.encoded = text]
<1>3. console' = [console EXCEPT ![k] = line]
  BY <1>1
<1>4. /\ k \in 1..Len(console)
      /\ old.encoded \in Seq(Symbols) /\ old.index \in [1..4 -> Symbols]
      /\ old = [index |-> old.index, encoded |-> old.encoded]
  BY LinesTyped
<1>5. Len(old.encoded) <= 68 /\ Len(old.encoded) \in Nat
  BY <1>4, LenProperties DEF ConsoleTyped
<1>6. place \in 1..Len(old.encoded)
  <2>1. place \in TextPlaces /\ place <= Len(old.encoded)
    BY <1>1 DEF FRAME_SIZE, TextPlaces
  <2> HIDE DEF old
  <2> QED BY <1>5, <2>1
<1>7. \A j \in 1..Len(console) : Len(console[j].encoded) <= 68
  BY DEF ConsoleTyped
<1> HIDE DEF old
<1>8. text \in Seq(Symbols) /\ Len(text) = Len(old.encoded) - 1
  BY <1>4, <1>6, Removed
<1> HIDE DEF text
<1>9. line = [index |-> old.index, encoded |-> text]
  BY <1>4
<1> HIDE DEF line
<1>10. line \in Lines /\ Len(line.encoded) <= 67
  BY <1>4, <1>5, <1>8, <1>9 DEF Lines
<1>11. console \in Seq(Lines) /\ Len(console) <= 8
  BY DEF ConsoleTyped
<1>12. /\ console' \in Seq(Lines) /\ Len(console') = Len(console)
       /\ \A j \in 1..Len(console) :
              console'[j] = IF j = k THEN line ELSE console[j]
  BY <1>3, <1>4, <1>10, <1>11, ExceptSeq
<1>13. ASSUME NEW j \in 1..Len(console)
       PROVE  Len(console'[j].encoded) <= 68
  <2>1. CASE j = k
    <3>1. console'[j] = line
      BY <1>12, <2>1
    <3>2. Len(line.encoded) \in Nat
      BY <1>10, LenProperties DEF Lines
    <3>3. Len(line.encoded) <= 68
      BY <1>10, <3>2
    <3> QED BY <3>1, <3>3, Zenon
  <2>2. CASE j # k
    BY <1>7, <1>12, <2>2
  <2> QED BY <2>1, <2>2
<1>14. ConsoleTyped'
  BY <1>2, <1>11, <1>12, <1>13, FaultStep DEF ConsoleTyped
<1>15. ~Whole'
  <2>1. Len(console'[k].encoded) <= 67
    BY <1>4, <1>10, <1>12
  <2>2. ASSUME Whole' PROVE FALSE
    <3>1. k \in 1..8 /\ \A j \in 1..8 : Len(console'[j].encoded) = 68
      BY <1>4, <1>12, <2>2 DEF Whole
    <3>2. Len(console'[k].encoded) = 68
      BY <3>1
    <3> QED BY <2>1, <3>2
  <2> QED BY <2>2
<1> QED BY <1>14, <1>15

\* So is a line that is lost, by the number of lines.
LEMMA LoseLineStep ==
    ASSUME ConsoleTyped, LoseLine
    PROVE  ConsoleTyped' /\ ~Whole'
<1>1. PICK k \in DOMAIN console : console' = RemoveAt(console, k)
  BY DEF LoseLine
<1>2. Fault
  BY DEF LoseLine
<1>3. console \in Seq(Lines) /\ Len(console) <= 8 /\ k \in 1..Len(console)
      /\ Len(console) \in Nat
  BY LinesTyped, LenProperties DEF ConsoleTyped
<1>4. /\ console' \in Seq(Lines) /\ Len(console') = Len(console) - 1
      /\ \A j \in 1..(Len(console) - 1) :
             console'[j] = console[IF j < k THEN j ELSE j + 1]
  BY <1>1, <1>3, Removed
<1>5. ASSUME NEW j \in 1..Len(console')
      PROVE  Len(console'[j].encoded) <= 68
  <2> DEFINE i == IF j < k THEN j ELSE j + 1
  <2>1. i \in 1..Len(console) /\ j \in 1..(Len(console) - 1)
    BY <1>3, <1>4
  <2>2. console'[j] = console[i]
    BY <1>4, <2>1
  <2> HIDE DEF i
  <2> QED BY <2>1, <2>2 DEF ConsoleTyped
<1>6. Len(console') <= 7
  BY <1>3, <1>4
<1>7. ConsoleTyped'
  <2>1. Len(console') <= 8
    BY <1>3, <1>4
  <2> QED BY <1>2, <1>4, <1>5, <2>1, FaultStep DEF ConsoleTyped
<1>8. ~Whole'
  BY <1>6 DEF Whole
<1> QED BY <1>7, <1>8

-----------------------------------------------------------------------------
(* What is accepted of it.                                                  *)

\* Nothing has happened: nothing is wrong.
LEMMA UndamagedIsLittle ==
    ASSUME ConsoleTyped, Undamaged, faults = 0
    PROVE  LittleDamage
<1>1. SUFFICES ASSUME Whole, NEW k \in 1..8 PROVE FewWrong(k)
  BY DEF LittleDamage
<1>2. console[k] = PrintedLine(k)
  BY <1>1 DEF Whole, Undamaged
<1>3. console[k].encoded = PrintedText(k)
  BY <1>2, LineTyped
<1> QED BY <1>3 DEF FewWrong

\* The inductive invariant.
ConsoleForm ==
    ConsoleTyped /\ Undamaged /\ LittleDamage /\ faults <= MaxFaults

LEMMA FormStarts ==
    ASSUME Init
    PROVE  ConsoleForm
<1>1. /\ console = <<>> /\ next_index = 0 /\ faults = 0
  BY DEF Init
<1>2. ConsoleTyped
  <2>1. <<>> \in Seq(Lines) /\ Len(<<>>) = 0
    BY EmptySeq
  <2> QED BY <1>1, <2>1 DEF ConsoleTyped
<1>3. Undamaged
  BY <1>1 DEF Undamaged
<1>4. LittleDamage
  BY <1>1, <1>2, <1>3, UndamagedIsLittle
<1> QED BY <1>1, <1>2, <1>3, <1>4, MaxFaultsAssumption DEF ConsoleForm

LEMMA FormStays ==
    ASSUME ConsoleForm, [Next]_vars
    PROVE  ConsoleForm'
<1>1. ConsoleTyped /\ Undamaged /\ LittleDamage /\ faults <= MaxFaults
  BY DEF ConsoleForm
<1>2. CASE PrintFrame
  <2>1. ConsoleTyped' /\ Undamaged' /\ faults' = faults
    BY <1>1, <1>2, PrintStep
  <2>2. faults = 0
    BY <1>1, <1>2, SamplesTyped DEF PrintFrame, HasNext, ConsoleTyped
  <2>3. (ConsoleTyped /\ Undamaged /\ faults = 0 => LittleDamage)'
    BY UndamagedIsLittle, PTL
  <2> QED BY <1>1, <2>1, <2>2, <2>3 DEF ConsoleForm
<1>3. ASSUME Fault, ConsoleTyped', LittleDamage' PROVE ConsoleForm'
  <2>1. faults' > 0 /\ faults' <= MaxFaults /\ faults' # 0
    BY <1>1, <1>3, FaultStep
  <2>2. Undamaged'
    BY <2>1 DEF Undamaged
  <2> QED BY <1>3, <2>1, <2>2 DEF ConsoleForm
<1>4. ASSUME NEW k, NEW line, NEW place \in TextPlaces, Fault,
             Replaces(k, line), SameBut(k, line, place)
      PROVE  ConsoleForm'
  BY <1>1, <1>3, <1>4, ReplaceStep
<1>5. CASE GarbleCharacter
  <2>1. PICK k, line : \E place \in TextPlaces :
            Replaces(k, line) /\ SameBut(k, line, place)
    BY <1>1, <1>5, GarbledCharacter, Zenon
  <2>2. Fault
    BY <1>5 DEF GarbleCharacter
  <2> QED BY <1>4, <2>1, <2>2, Zenon
<1>6. CASE GarbleIndex
  <2>1. PICK k, line : \E place \in TextPlaces :
            Replaces(k, line) /\ SameBut(k, line, place)
    BY <1>1, <1>6, GarbledIndex, Zenon
  <2>2. Fault
    BY <1>6 DEF GarbleIndex
  <2> QED BY <1>4, <2>1, <2>2, Zenon
<1>7. CASE LoseCharacter
  <2>1. ConsoleTyped' /\ ~Whole'
    BY <1>1, <1>7, LoseCharacterStep, Zenon
  <2>2. LittleDamage'
    BY <2>1, Zenon DEF LittleDamage
  <2>3. Fault
    BY <1>7 DEF LoseCharacter
  <2> QED BY <1>3, <2>1, <2>2, <2>3, Zenon
<1>8. CASE LoseLine
  <2>1. ConsoleTyped' /\ ~Whole'
    BY <1>1, <1>8, LoseLineStep, Zenon
  <2>2. LittleDamage'
    BY <2>1, Zenon DEF LittleDamage
  <2>3. Fault
    BY <1>8 DEF LoseLine
  <2> QED BY <1>3, <2>1, <2>2, <2>3, Zenon
<1>9. CASE UNCHANGED vars
  <2>1. console' = console /\ faults' = faults /\ next_index' = next_index
    BY <1>9 DEF vars
  <2>2. ConsoleTyped' /\ Undamaged'
    BY <1>1, <2>1 DEF ConsoleTyped, Undamaged
  <2>3. LittleDamage'
    BY <1>1, <2>1, Zenon DEF LittleDamage, Whole, FewWrong
  <2> QED BY <1>1, <2>1, <2>2, <2>3 DEF ConsoleForm
<1> QED BY <1>2, <1>5, <1>6, <1>7, <1>8, <1>9, Zenon DEF Next

LEMMA FormAlways == Spec => []ConsoleForm
<1> QED BY FormStarts, FormStays, PTL DEF Spec

\* The validator's questions, line by line.
LEMMA ValidateFramesIs ==
    ASSUME ConsoleTyped
    PROVE  ValidateFrames <=>
               /\ Len(console) = 8
               /\ \A k \in 1..8 : LineAccepted(console[k], k)
<1>1. DOMAIN console = 1..Len(console)
  BY LenProperties DEF ConsoleTyped
<1>2. EXPECTED_FRAME_COUNT = 8
  BY DEF EXPECTED_FRAME_COUNT
<1>3. ValidateFrames =>
          Len(console) = 8 /\ \A k \in 1..8 : LineAccepted(console[k], k)
  BY <1>1, <1>2 DEF ValidateFrames, LineAccepted, ExpectedSequence
<1>4. ASSUME Len(console) = 8,
             \A k \in DOMAIN console : LineAccepted(console[k], k)
      PROVE  ValidateFrames
  <2>1. Len(console) = EXPECTED_FRAME_COUNT
    BY <1>2, <1>4
  <2>2. ASSUME NEW k \in DOMAIN console
        PROVE  /\ MatchesFramePattern(console[k])
               /\ ValidateFrameEncodingAndHeaders(console[k].encoded)
               /\ ValidateIndexAndSequence(console[k], k,
                                           ExpectedSequence(k))
               /\ HasValidCrc(FromHex(console[k].encoded))
    <3>1. LineAccepted(console[k], k)
      BY <1>4
    <3> QED BY <3>1 DEF LineAccepted
  <2> QED BY <2>1, <2>2 DEF ValidateFrames, ExpectedSequence
<1> QED BY <1>1, <1>3, <1>4

\* For every bound on the faults and every choice of characters: what the
\* firmware prints is accepted by the validator when nothing is spoiled.
THEOREM UndamagedAlwaysAccepted == Spec => []UndamagedIsAccepted
<1>1. ASSUME ConsoleForm PROVE UndamagedIsAccepted
  <2>1. SUFFICES ASSUME ~HasNext(next_index), faults = 0
                 PROVE  ValidateFrames
    BY DEF UndamagedIsAccepted
  <2>2. ConsoleTyped /\ Undamaged
    BY <1>1 DEF ConsoleForm
  <2>3. next_index = 8
    BY <2>1, <2>2, SamplesTyped DEF HasNext, ConsoleTyped
  <2>4. Len(console) = 8 /\ \A k \in 1..8 : console[k] = PrintedLine(k)
    BY <2>1, <2>2, <2>3 DEF Undamaged
  <2>5. \A k \in 1..8 : LineAccepted(console[k], k)
    BY <2>4, PrintedIsAccepted
  <2> QED BY <2>2, <2>4, <2>5, ValidateFramesIs, Zenon
<1> QED BY <1>1, FormAlways, PTL

\* For every choice of characters: after at most two faults of the serial
\* line, wherever they are, what the validator accepts is the model's eight
\* frames in order, every field bit for bit.  A garbled character is half a
\* byte, and TwoReplacedAreSeen speaks of two bytes of a frame.
THEOREM AcceptedIsModel ==
    ASSUME MaxFaults <= 2
    PROVE  Spec => []AcceptedIsTheModel
<1>1. ASSUME ConsoleForm PROVE AcceptedIsTheModel
  <2>1. SUFFICES ASSUME ValidateFrames
                 PROVE  [k \in DOMAIN console |->
                            Deserialize(FromHex(console[k].encoded))] =
                        [k \in 1..Len(samples) |->
                            [frame |-> {PrintedFrame(k)}, error |-> "none"]]
    BY DEF AcceptedIsTheModel, PrintedFrame
  <2>2. /\ ConsoleTyped /\ LittleDamage /\ faults \in Nat
        /\ faults <= MaxFaults
    BY <1>1 DEF ConsoleForm, ConsoleTyped
  <2>3. Len(console) = 8 /\ \A k \in 1..8 : LineAccepted(console[k], k)
    BY <2>1, <2>2, ValidateFramesIs
  <2>4. \A k \in 1..8 : Len(console[k].encoded) = 68
    BY <2>3 DEF LineAccepted, MatchesFramePattern
  <2>5. \A k \in 1..8 : FewWrong(k)
    BY <2>2, <2>3, <2>4, Zenon DEF LittleDamage, Whole
  <2>6. faults = 0 \/ faults = 1 \/ faults = 2
    BY <2>2, MaxFaultsAssumption
  <2>7. ASSUME NEW k \in 1..8
        PROVE  Deserialize(FromHex(console[k].encoded)) =
                   [frame |-> {PrintedFrame(k)}, error |-> "none"]
    <3>1. \E first, second \in TextPlaces :
              CharactersAgreeBut(PrintedText(k), console[k].encoded,
                                 first, second)
      <4>1. FewWrong(k)
        BY <2>5
      <4>2. CASE faults = 0
        <5>1. CharactersAgreeBut(PrintedText(k), console[k].encoded, 1, 1)
          BY <4>1, <4>2 DEF FewWrong, CharactersAgreeBut
        <5>2. 1 \in TextPlaces
          BY DEF TextPlaces
        <5> QED BY <5>1, <5>2, Zenon
      <4>3. CASE faults = 1
        BY <4>1, <4>3, Zenon DEF FewWrong
      <4>4. CASE faults = 2
        BY <4>1, <4>4, Zenon DEF FewWrong
      <4> QED BY <2>6, <4>2, <4>3, <4>4, Zenon
    <3>2. PICK first, second \in TextPlaces :
              CharactersAgreeBut(PrintedText(k), console[k].encoded,
                                 first, second)
      BY <3>1, Zenon
    <3>3. LineAccepted(console[k], k)
      BY <2>3
    <3> QED BY <3>2, <3>3, AcceptedIsPrinted, Zenon
  <2>8. DOMAIN console = 1..8
    BY <2>2, <2>3, LenProperties DEF ConsoleTyped
  <2>9. Len(samples) = 8
    BY SamplesTyped
  <2> QED BY <2>7, <2>8, <2>9
<1> QED BY <1>1, FormAlways, PTL
=============================================================================
