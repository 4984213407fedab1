-------------------------- MODULE TelemetryProtocol --------------------------
(****************************************************************************)
(* The frame of protocol v1 as bytes: serialize and deserialize of          *)
(* protocol/src.  Every field is a word of Crc32, the set of its one bits.  *)
(* std::bit_cast between the signed temperature and its unsigned image      *)
(* keeps the bits, so the temperature is its two's complement here.         *)
(****************************************************************************)
EXTENDS Crc32

Magic == <<{2, 4, 6}, {2, 3, 6}>>         \* 0x54, 0x4C
SupportedVersion == {0}
SupportedMessageType == {0}
TelemetryPayloadSize == {2, 3}            \* 12

version_offset == 2
message_type_offset == 3
payload_size_offset == 4
sequence_offset == 6
timestamp_offset == 10
temperature_offset == 18
pressure_offset == 22
supply_voltage_offset == 26
status_flags_offset == 28
crc_offset == 30
crc_size == 4
frame_size == 34

\* TelemetryFrame: the header's and the payload's fields.
TelemetryFrames ==
    [version : {SupportedVersion},
     message_type : {SupportedMessageType},
     payload_size : Word(16),
     sequence : Word(32),
     timestamp : Word(64),
     temperature : Word(32),
     pressure : Word(32),
     supply : Word(16),
     flags : Word(16)]

-----------------------------------------------------------------------------
(* serializer.cpp.                                                          *)

\* Mutant: the least significant byte goes first.
LittleEndian(size, word) ==
    [i \in 1..size |-> {bit \in 0..7 : bit + 8 * (i - 1) \in word}]

\* write_u16, write_u32 and write_u64: the most significant byte goes first.
BigEndian(size, word) ==
    [i \in 1..size |-> {bit \in 0..7 : bit + 8 * (size - i) \in word}]

\* The bytes the checksum covers.  The size written is the constant, not the
\* frame's field.
Body(frame) ==
    Magic \o <<frame.version, frame.message_type>>
          \o BigEndian(2, TelemetryPayloadSize)
          \o BigEndian(4, frame.sequence)
          \o BigEndian(8, frame.timestamp)
          \o BigEndian(4, frame.temperature)
          \o BigEndian(4, frame.pressure)
          \o BigEndian(2, frame.supply)
          \o BigEndian(2, frame.flags)

Serialize(frame) ==
    Body(frame) \o BigEndian(crc_size, CalculateCrc32(Body(frame)))

-----------------------------------------------------------------------------
(* deserializer.cpp.                                                        *)

\* The byte at an offset, which counts from 0.
At(bytes, offset) == bytes[offset + 1]

\* read_u16, read_u32 and read_u64.
Read(bytes, offset, size) ==
    {bit \in 0..(8 * size - 1) :
        bit % 8 \in At(bytes, offset + size - 1 - bit \div 8)}

Failure(error) == [frame |-> {}, error |-> error]

\* The frame in bytes that passed every check.
Extract(bytes) ==
    [version |-> SupportedVersion,
     message_type |-> SupportedMessageType,
     payload_size |-> Read(bytes, payload_size_offset, 2),
     sequence |-> Read(bytes, sequence_offset, 4),
     timestamp |-> Read(bytes, timestamp_offset, 8),
     temperature |-> Read(bytes, temperature_offset, 4),
     pressure |-> Read(bytes, pressure_offset, 4),
     supply |-> Read(bytes, supply_voltage_offset, 2),
     flags |-> Read(bytes, status_flags_offset, 2)]

\* Mutant: only the two high bytes are compared.
ChecksumMatchesHighHalf(bytes) ==
    Read(bytes, crc_offset, 2)
        = {bit - 16 : bit \in CalculateCrc32(SubSeq(bytes, 1, crc_offset))
                                  \cap (16..31)}

ChecksumMatches(bytes) ==
    Read(bytes, crc_offset, crc_size)
        = CalculateCrc32(SubSeq(bytes, 1, crc_offset))

\* Mutant: the checksum is verified first.
DeserializeChecksumFirst(bytes) ==
    IF Len(bytes) # frame_size
    THEN Failure("invalid_frame_size")
    ELSE IF ~ChecksumMatches(bytes)
    THEN Failure("checksum_mismatch")
    ELSE IF At(bytes, 0) # Magic[1] \/ At(bytes, 1) # Magic[2]
    THEN Failure("invalid_magic")
    ELSE IF At(bytes, version_offset) # SupportedVersion
    THEN Failure("unsupported_version")
    ELSE IF At(bytes, message_type_offset) # SupportedMessageType
    THEN Failure("unsupported_message_type")
    ELSE IF Read(bytes, payload_size_offset, 2) # TelemetryPayloadSize
    THEN Failure("invalid_payload_size")
    ELSE [frame |-> {Extract(bytes)}, error |-> "none"]

\* A ParseResult's frame is optional: a set with one frame, or none.
Deserialize(bytes) ==
    IF Len(bytes) # frame_size
    THEN Failure("invalid_frame_size")
    ELSE IF At(bytes, 0) # Magic[1] \/ At(bytes, 1) # Magic[2]
    THEN Failure("invalid_magic")
    ELSE IF At(bytes, version_offset) # SupportedVersion
    THEN Failure("unsupported_version")
    ELSE IF At(bytes, message_type_offset) # SupportedMessageType
    THEN Failure("unsupported_message_type")
    ELSE IF Read(bytes, payload_size_offset, 2) # TelemetryPayloadSize
    THEN Failure("invalid_payload_size")
    ELSE IF ~ChecksumMatches(bytes)
    THEN Failure("checksum_mismatch")
    ELSE [frame |-> {Extract(bytes)}, error |-> "none"]
=============================================================================
