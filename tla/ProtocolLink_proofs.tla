------------------------- MODULE ProtocolLink_proofs -------------------------
(****************************************************************************)
(* Proofs about the link of protocol v1: what arrives of a frame, which     *)
(* damage is reported, and which is seen.  The lemmas about the serializer, *)
(* the deserializer, the validator and the checksum that they rest on are   *)
(* in Operators_proofs.                                                     *)
(****************************************************************************)
EXTENDS ProtocolLink, Operators_proofs, SequenceTheorems

-----------------------------------------------------------------------------
(* The link.                                                                *)

\* The wire carries bytes, and the result is what deserialize returns for
\* those that have arrived.
Linked ==
    /\ phase \in {"send", "channel", "received"}
    /\ sent \in TelemetryFrames
    /\ wire \in Seq(Byte)
    /\ result = IF phase = "received" THEN Deserialize(wire) ELSE NoResult

\* What serialize makes of the sent frame is made of bytes.
LEMMA SentTyped ==
    ASSUME sent \in TelemetryFrames
    PROVE  Serialize(sent) \in Seq(Byte) /\ Len(Serialize(sent)) = frame_size
<1>1. sent.version \in Byte /\ sent.message_type \in Byte
  BY FrameBytes DEF TelemetryFrames
<1> QED BY <1>1, SerializedLaidOut

\* A flipped bit, or a spoiled one, leaves a byte.
LEMMA FlipTyped ==
    ASSUME NEW byte \in Byte, NEW bit \in 0..7
    PROVE  Flip(byte, bit) \in Byte /\ Flip(byte, bit) # byte
BY Widths DEF Flip, SymDiff

\* What the simulated source writes over a header byte is a byte too.
LEMMA SpoiledTyped ==
    ASSUME NEW error \in DOMAIN Spoiled
    PROVE  /\ Spoiled[error].byte \in Byte
           /\ Spoiled[error].offset + 1 \in 1..frame_size
BY Widths
DEF Spoiled, version_offset, message_type_offset, payload_size_offset,
    frame_size

\* As long as it is, it is made of bytes.
LEMMA BytesOf ==
    ASSUME NEW bytes \in Seq(Byte), NEW length, Len(bytes) = length
    PROVE  \A i \in 1..length : bytes[i] \in Byte
BY ElementOfSeq

\* The frame another sender makes of the bytes.
SealedAgain(bytes) ==
    LET body == SubSeq(bytes, 1, crc_offset)
    IN  body \o BigEndian(crc_size, CalculateCrc32(body))

\* A new checksum leaves the body alone.
LEMMA Resealed ==
    ASSUME NEW bytes \in Seq(Byte), Len(bytes) = frame_size, NEW other,
           other = SealedAgain(bytes)
    PROVE  /\ other \in Seq(Byte) /\ Len(other) = frame_size
           /\ \A i \in 1..crc_offset : other[i] = bytes[i]
           /\ ChecksumMatches(other)
<1> DEFINE body == SubSeq(bytes, 1, 30)
           sum == CalculateCrc32(body)
<1>0. \A i \in 1..30 : i \in 1..34
  OBVIOUS
<1>1. /\ body \in Seq(Byte) /\ Len(body) = 30
      /\ \A i \in 1..30 : body[i] = bytes[i]
  <2>1. \A i \in 1..34 : bytes[i] \in Byte
    BY BytesOf DEF frame_size
  <2>2. \A i \in 1..30 : bytes[i] \in Byte
    BY <1>0, <2>1
  <2> QED BY <2>2, SubSeqProperties
<1>2. other = body \o BigEndian(4, sum)
  BY DEF SealedAgain, crc_offset, crc_size
<1>3. sum \in Word(8 * 4)
  <2>1. 8 * 4 = 32
    OBVIOUS
  <2> HIDE DEF body
  <2> QED BY <1>1, <2>1, ChecksumTyped
<1> HIDE DEF body, sum
<1>4. Written(other, body, 30, 4, sum)
  <2>1. Continues(other, body, 30, 4, sum)
    BY <1>1, <1>2 DEF Continues
  <2> QED BY <2>1, ChunkWritten
<1>5. /\ other \in Seq(Byte) /\ Len(other) = 34
      /\ \A i \in 1..30 : other[i] = body[i]
  BY <1>1, <1>4 DEF Written, Keeps
<1>6. Read(other, 30, 4) = sum
  <2>1. Holds(other, 30, 4, sum)
    BY <1>4 DEF Written
  <2> QED BY <1>3, <2>1, ReadBack
<1>7. SubSeq(other, 1, 30) = body
  <2> DEFINE first == SubSeq(other, 1, 30)
  <2>0. \A i \in 1..34 : other[i] \in Byte
    BY <1>5, BytesOf
  <2>1. \A i \in 1..30 : other[i] \in Byte
    BY <1>0, <2>0
  <2>2. /\ first \in Seq(Byte) /\ Len(first) = 30
        /\ \A i \in 1..30 : first[i] = other[i]
    BY <2>1, SubSeqProperties
  <2> HIDE DEF first
  <2>3. /\ Len(first) = Len(body)
        /\ \A i \in 1..Len(first) : first[i] = body[i]
    BY <1>1, <1>5, <2>2
  <2>4. first = body
    BY <1>1, <2>2, <2>3, SeqEqual
  <2> QED BY <2>4 DEF first
<1>8. ChecksumMatches(other)
  BY <1>6, <1>7 DEF ChecksumMatches, crc_offset, crc_size, sum
<1> QED BY <1>1, <1>5, <1>8 DEF frame_size, crc_offset

\* Whatever the channel does, bytes arrive.
LEMMA LinkedStep == ASSUME Linked, [Next]_vars PROVE Linked'
<1>1. CASE Transmit
  BY <1>1, SentTyped DEF Transmit, Linked
<1>2. CASE FlipBit
  <2>1. PICK position \in FlippedBits :
            wire' = [wire EXCEPT ![position \div 8 + 1] =
                         Flip(@, position % 8)]
    BY <1>2 DEF FlipBit
  <2> DEFINE place == position \div 8 + 1
  <2>2. position \in 0..271
    BY FlippedBitsAssumption DEF frame_size
  <2>3. position % 8 \in 0..7 /\ place \in Int
    BY <2>2
  <2>4. wire' = [wire EXCEPT ![place] = Flip(wire[place], position % 8)]
    BY <2>1
  <2> HIDE DEF place
  <2>5. wire' \in Seq(Byte)
    <3>1. CASE place \in 1..Len(wire)
      <4>1. Flip(wire[place], position % 8) \in Byte
        BY <2>3, <3>1, ElementOfSeq, FlipTyped DEF Linked
      <4> QED BY <2>4, <4>1, Replaced DEF Linked
    <3>2. CASE place \notin 1..Len(wire)
      <4>1. wire \in [1..Len(wire) -> Byte]
        BY LenProperties DEF Linked
      <4>2. wire' = wire
        BY <2>4, <3>2, <4>1
      <4> QED BY <4>2 DEF Linked
    <3> QED BY <3>1, <3>2
  <2> QED BY <1>2, <2>5 DEF FlipBit, Fault, Linked
<1>3. CASE CorruptHeader
  <2>1. PICK error \in DOMAIN Spoiled :
            wire' = [wire EXCEPT ![Spoiled[error].offset + 1] =
                         Spoiled[error].byte]
    BY <1>3 DEF CorruptHeader
  <2>2. wire' \in Seq(Byte)
    BY <2>1, SpoiledTyped, Replaced DEF Linked
  <2> QED BY <1>3, <2>2 DEF CorruptHeader, Fault, Linked
<1>4. CASE CorruptChecksummed
  <2>1. PICK offset \in {temperature_offset, crc_offset + crc_size - 1} :
            wire' = [wire EXCEPT ![offset + 1] = Flip(@, 0)]
    BY <1>4 DEF CorruptChecksummed
  <2>2. offset + 1 \in 1..Len(wire)
    BY <1>4
    DEF CorruptChecksummed, temperature_offset, crc_offset, crc_size,
        frame_size
  <2>3. Flip(wire[offset + 1], 0) \in Byte
    BY <2>2, ElementOfSeq, FlipTyped DEF Linked
  <2>4. wire' \in Seq(Byte)
    BY <2>1, <2>3, Replaced DEF Linked
  <2> QED BY <1>4, <2>4 DEF CorruptChecksummed, Fault, Linked
<1>5. CASE Truncate
  <2>1. wire' = SubSeq(wire, 1, Len(wire) - 1) /\ Len(wire) \in Nat
    BY <1>5, LenProperties DEF Truncate, Front, Linked
  <2>2. \A i \in 1..(Len(wire) - 1) : wire[i] \in Byte
    BY <2>1, ElementOfSeq DEF Linked
  <2>3. wire' \in Seq(Byte)
    BY <2>1, <2>2, SubSeqProperties
  <2> QED BY <1>5, <2>3 DEF Truncate, Fault, Linked
<1>6. CASE Reseal
  <2>1. wire' \in Seq(Byte)
    BY <1>6, Resealed DEF Reseal, SealedAgain, Linked
  <2> QED BY <1>6, <2>1 DEF Reseal, Fault, Linked
<1>7. CASE Receive
  BY <1>7 DEF Receive, Linked
<1>8. CASE UNCHANGED vars
  BY <1>8 DEF vars, Linked
<1> QED
  BY <1>1, <1>2, <1>3, <1>4, <1>5, <1>6, <1>7, <1>8 DEF Next

\* So it is in every reachable state.
LEMMA LinkedAlways == Spec => []Linked
<1>1. Init => Linked
  <2>1. <<>> \in Seq(Byte)
    BY EmptySeq
  <2> QED BY <2>1, FramesAssumption DEF Init, Linked
<1>2. Linked /\ [Next]_vars => Linked'
  BY LinkedStep
<1> QED BY <1>1, <1>2, PTL DEF Spec

\* There is one byte string for each frame: whatever the channel did, what is
\* accepted is what serialize would have produced.
THEOREM AcceptedCanonical == Spec => []AcceptedIsCanonical
<1>1. Linked => AcceptedIsCanonical
  <2> SUFFICES ASSUME Linked, NEW frame \in result.frame
               PROVE  Serialize(frame) = wire
    BY DEF AcceptedIsCanonical
  <2>1. result = Deserialize(wire)
    BY DEF Linked, NoResult, Failure
  <2>2. Accepted(wire) /\ frame = Extract(wire)
    BY <2>1, DeserializeAccepts
  <2> QED BY <2>2, AcceptedOnce DEF Linked
<1> QED BY <1>1, LinkedAlways, PTL

\* The Python validator and the host's deserializer accept the same bytes,
\* whatever was spoiled and whether or not the checksum was made to match.
THEOREM ValidatorsAlwaysAgree == Spec => []ValidatorsAgree
<1>1. Linked => ValidatorsAgree
  BY ImplementationsAgree DEF Linked, ValidatorsAgree
<1> QED BY <1>1, LinkedAlways, PTL

\* The checks of the header.
HeaderErrors ==
    {"invalid_magic", "unsupported_version", "unsupported_message_type",
     "invalid_payload_size"}

FailsHeader(bytes, error) ==
    \/ /\ error = "invalid_magic"
       /\ ~(bytes[1] = Magic[1] /\ bytes[2] = Magic[2])
    \/ error = "unsupported_version" /\ bytes[3] # SupportedVersion
    \/ error = "unsupported_message_type" /\ bytes[4] # SupportedMessageType
    \/ /\ error = "invalid_payload_size"
       /\ Read(bytes, payload_size_offset, 2) # TelemetryPayloadSize

\* The damage that is recorded is what the checks see: the length, each check
\* of the header, and the checksum of a frame whose header is intact.
Shown ==
    /\ phase = "send" => damage = {}
    /\ phase # "send" =>
           /\ Len(wire) <= frame_size
           /\ damage \subseteq Errors
           /\ "invalid_frame_size" \in damage <=> Len(wire) # frame_size
           /\ Len(wire) = frame_size =>
                  /\ \A error \in HeaderErrors :
                         error \in damage <=> FailsHeader(wire, error)
                  /\ HeaderErrors \cap damage = {} =>
                         ("checksum_mismatch" \in damage
                              <=> ~ChecksumMatches(wire))

\* The errors by name.
LEMMA ErrorNames ==
    Errors = HeaderErrors \cup {"invalid_frame_size", "checksum_mismatch"}
<1>1. ErrorOrder = <<"invalid_frame_size", "invalid_magic",
                     "unsupported_version", "unsupported_message_type",
                     "invalid_payload_size", "checksum_mismatch">>
  BY DEF ErrorOrder
<1>2. DOMAIN ErrorOrder = 1..6
  BY <1>1
<1>3. Errors = {ErrorOrder[i] : i \in 1..6}
  BY <1>2 DEF Errors
<1>4. 1..6 = {1, 2, 3, 4, 5, 6}
  OBVIOUS
<1> QED BY <1>1, <1>3, <1>4 DEF HeaderErrors

\* The payload size is in the last two bytes of the header.
LEMMA SizeTheSame ==
    ASSUME NEW a, NEW b, a[5] = b[5], a[6] = b[6]
    PROVE  Read(a, payload_size_offset, 2) = Read(b, payload_size_offset, 2)
<1>1. \A i \in 1..2 : a[4 + i] = b[4 + i]
  <2>1. \A i \in 1..2 : 4 + i = 5 \/ 4 + i = 6
    OBVIOUS
  <2> QED BY <2>1
<1>2. Read(a, 4, 2) = Read(b, 4, 2)
  <2> DEFINE offset == 4
             size == 2
  <2>1. /\ offset \in Nat /\ size \in Nat
        /\ \A i \in 1..size : a[offset + i] = b[offset + i]
    BY <1>1
  <2> HIDE DEF offset, size
  <2>2. Read(a, offset, size) = Read(b, offset, size)
    BY <2>1, ReadTheSame
  <2> QED BY <2>2 DEF offset, size
<1> QED BY <1>2 DEF payload_size_offset

\* The checks of the header look at its six bytes.
LEMMA HeaderOfSixBytes ==
    ASSUME NEW a, NEW b, \A i \in 1..6 : a[i] = b[i], NEW error
    PROVE  FailsHeader(a, error) <=> FailsHeader(b, error)
<1>1. /\ a[1] = b[1] /\ a[2] = b[2] /\ a[3] = b[3]
      /\ a[4] = b[4] /\ a[5] = b[5] /\ a[6] = b[6]
  OBVIOUS
<1>2. Read(a, payload_size_offset, 2) = Read(b, payload_size_offset, 2)
  BY <1>1, SizeTheSame
<1> QED BY <1>1, <1>2 DEF FailsHeader

\* The bytes with one byte of the header spoiled.
SpoiledAs(bytes, spoiled) ==
    [bytes EXCEPT ![Spoiled[spoiled].offset + 1] = Spoiled[spoiled].byte]

\* A spoiled header byte fails its own check from then on, and no other one.
LEMMA SpoiledIsSeen ==
    ASSUME NEW bytes \in Seq(Byte), Len(bytes) = frame_size,
           NEW spoiled \in DOMAIN Spoiled, NEW other,
           other = SpoiledAs(bytes, spoiled)
    PROVE  \A error \in HeaderErrors :
               FailsHeader(other, error)
                   <=> (error = spoiled \/ FailsHeader(bytes, error))
<1> SUFFICES ASSUME NEW error \in HeaderErrors
             PROVE  FailsHeader(other, error)
                        <=> (error = spoiled \/ FailsHeader(bytes, error))
  OBVIOUS
<1> DEFINE place == Spoiled[spoiled].offset + 1
           byte == Spoiled[spoiled].byte
<1>0. \A i \in 1..34 : other[i] = IF i = place THEN byte ELSE bytes[i]
  BY SpoiledTyped, Replaced DEF frame_size, SpoiledAs
<1> HIDE DEF place, byte
<1>1. /\ other[1] = IF place = 1 THEN byte ELSE bytes[1]
      /\ other[2] = IF place = 2 THEN byte ELSE bytes[2]
      /\ other[3] = IF place = 3 THEN byte ELSE bytes[3]
      /\ other[4] = IF place = 4 THEN byte ELSE bytes[4]
      /\ other[5] = IF place = 5 THEN byte ELSE bytes[5]
      /\ other[6] = IF place = 6 THEN byte ELSE bytes[6]
  <2>1. {1, 2, 3, 4, 5, 6} \subseteq 1..34
    OBVIOUS
  <2>2. \A i \in {1, 2, 3, 4, 5, 6} :
            other[i] = IF i = place THEN byte ELSE bytes[i]
    BY <1>0, <2>1
  <2> QED BY <2>2
<1>2. ASSUME place # 5, place # 6
      PROVE  Read(other, payload_size_offset, 2) =
                 Read(bytes, payload_size_offset, 2)
  BY <1>1, <1>2, SizeTheSame
<1>3. CASE spoiled = "invalid_magic"
  <2>1. place = 1 /\ byte = {}
    BY <1>3 DEF Spoiled, place, byte
  <2>2. Magic[1] # {}
    BY DEF Magic
  <2>3. /\ other[1] # Magic[1] /\ other[2] = bytes[2]
        /\ other[3] = bytes[3] /\ other[4] = bytes[4]
    BY <1>1, <2>1, <2>2
  <2> QED BY <1>2, <1>3, <2>1, <2>3 DEF FailsHeader, HeaderErrors
<1>4. CASE spoiled = "unsupported_version"
  <2>1. place = 3 /\ byte = {1}
    BY <1>4 DEF Spoiled, version_offset, place, byte
  <2>2. SupportedVersion # {1}
    BY DEF SupportedVersion
  <2>3. /\ other[1] = bytes[1] /\ other[2] = bytes[2]
        /\ other[3] # SupportedVersion /\ other[4] = bytes[4]
    BY <1>1, <2>1, <2>2
  <2> QED BY <1>2, <1>4, <2>1, <2>3 DEF FailsHeader, HeaderErrors
<1>5. CASE spoiled = "unsupported_message_type"
  <2>1. place = 4 /\ byte = {1}
    BY <1>5 DEF Spoiled, message_type_offset, place, byte
  <2>2. SupportedMessageType # {1}
    BY DEF SupportedMessageType
  <2>3. /\ other[1] = bytes[1] /\ other[2] = bytes[2]
        /\ other[3] = bytes[3] /\ other[4] # SupportedMessageType
    BY <1>1, <2>1, <2>2
  <2> QED BY <1>2, <1>5, <2>1, <2>3 DEF FailsHeader, HeaderErrors
<1>6. CASE spoiled = "invalid_payload_size"
  <2>1. place = 6 /\ byte = {0, 1, 3}
    BY <1>6 DEF Spoiled, payload_size_offset, place, byte
  <2>2. /\ other[1] = bytes[1] /\ other[2] = bytes[2]
        /\ other[3] = bytes[3] /\ other[4] = bytes[4]
        /\ other[6] = {0, 1, 3}
    BY <1>1, <2>1
  <2>3. 0 \in Read(other, payload_size_offset, 2)
    <3>1. At(other, 4 + 2 - 1 - 0 \div 8) = other[6]
      BY DEF At
    <3>2. 0 % 8 \in other[6] /\ 0 \in 0..(8 * 2 - 1)
      BY <2>2
    <3> QED BY <3>1, <3>2 DEF Read, payload_size_offset
  <2>4. Read(other, payload_size_offset, 2) # TelemetryPayloadSize
    BY <2>3 DEF TelemetryPayloadSize
  <2> QED BY <1>6, <2>2, <2>4 DEF FailsHeader, HeaderErrors
<1> QED BY <1>3, <1>4, <1>5, <1>6 DEF Spoiled

\* A frame that is sent shows no damage.
LEMMA SentShown ==
    ASSUME Linked, Shown, Transmit
    PROVE  Shown'
<1>1. /\ wire' = Serialize(sent) /\ damage' = damage /\ phase' = "channel"
      /\ damage = {} /\ Len(Serialize(sent)) = frame_size
      /\ Accepted(Serialize(sent))
  BY SentTyped, SerializedAccepted DEF Transmit, Shown, Linked
<1>2. \A error \in HeaderErrors : ~FailsHeader(Serialize(sent), error)
  BY <1>1 DEF Accepted, HeaderAccepted, FailsHeader
<1>3. ChecksumMatches(Serialize(sent))
  BY <1>1 DEF Accepted
<1>4. frame_size <= frame_size
  BY DEF frame_size
<1> QED BY <1>1, <1>2, <1>3, <1>4 DEF Shown

\* Every fault of the channel but a flipped bit shows what it records.
LEMMA FaultsShown ==
    ASSUME Linked, Shown,
           CorruptHeader \/ CorruptChecksummed \/ Truncate \/ Reseal
    PROVE  Shown'
<1>1. /\ phase = "channel" /\ phase' = "channel"
      /\ Len(wire) <= frame_size /\ damage \subseteq Errors
      /\ "invalid_frame_size" \in damage <=> Len(wire) # frame_size
      /\ wire \in Seq(Byte) /\ Len(wire) \in Nat /\ frame_size = 34
  BY LenProperties
  DEF CorruptHeader, CorruptChecksummed, Truncate, Reseal, Fault, Shown,
      Linked, frame_size
<1>2. CASE CorruptHeader
  <2>1. PICK error \in DOMAIN Spoiled :
            /\ wire' = [wire EXCEPT ![Spoiled[error].offset + 1] =
                            Spoiled[error].byte]
            /\ damage' = damage \cup {error, "checksum_mismatch"}
    BY <1>2 DEF CorruptHeader
  <2>2. Len(wire) = frame_size /\ Len(wire') = frame_size
    BY <1>1, <1>2, <2>1, SpoiledTyped, Replaced DEF CorruptHeader
  <2>3. \A other \in HeaderErrors :
            FailsHeader(wire', other)
                <=> (other = error \/ FailsHeader(wire, other))
    <3>1. wire' = SpoiledAs(wire, error)
      BY <2>1 DEF SpoiledAs
    <3> QED BY <1>1, <2>2, <3>1, SpoiledIsSeen
  <2>4. error \in HeaderErrors
    BY <2>1 DEF Spoiled, HeaderErrors
  <2>5. /\ \A other \in HeaderErrors :
               other \in damage <=> FailsHeader(wire, other)
        /\ "checksum_mismatch" \notin HeaderErrors
        /\ "invalid_frame_size" \notin HeaderErrors
    BY <1>1, <2>2 DEF Shown, HeaderErrors
  <2>6. \A other \in HeaderErrors :
            other \in damage' <=> FailsHeader(wire', other)
    BY <2>1, <2>3, <2>5
  <2>7. damage' \subseteq Errors /\ HeaderErrors \cap damage' # {}
        /\ "invalid_frame_size" \notin damage'
    BY <1>1, <2>1, <2>2, <2>4, <2>5, ErrorNames
  <2> QED BY <1>1, <2>2, <2>6, <2>7 DEF Shown
<1>3. CASE CorruptChecksummed
  <2>1. PICK offset \in {temperature_offset, crc_offset + crc_size - 1} :
            wire' = [wire EXCEPT ![offset + 1] = Flip(@, 0)]
    BY <1>3 DEF CorruptChecksummed
  <2>2. /\ Len(wire) = frame_size /\ "checksum_mismatch" \notin damage
        /\ damage' = damage \cup {"checksum_mismatch"}
    BY <1>3 DEF CorruptChecksummed
  <2>3. offset + 1 \in 7..34
    BY DEF temperature_offset, crc_offset, crc_size
  <2> DEFINE place == offset + 1
             byte == Flip(wire[place], 0)
  <2>4. byte \in Byte /\ byte # wire[place]
    <3>1. \A i \in 1..34 : wire[i] \in Byte
      BY <1>1, <2>2, BytesOf
    <3>2. place \in 1..34 /\ 0 \in 0..7
      BY <2>3
    <3> HIDE DEF place
    <3>3. wire[place] \in Byte
      BY <3>1, <3>2
    <3> QED BY <3>2, <3>3, FlipTyped
  <2>5. wire' = [wire EXCEPT ![place] = byte]
    BY <2>1
  <2> HIDE DEF place, byte
  <2>6. /\ Len(wire') = frame_size
        /\ \A i \in 1..34 : i # place => wire'[i] = wire[i]
    BY <1>1, <2>2, <2>4, <2>5, Replaced
  <2>7. \A error \in HeaderErrors :
            FailsHeader(wire', error) <=> FailsHeader(wire, error)
    <3>1. \A i \in 1..6 : i \in 1..34 /\ i # place
      BY <2>3 DEF place
    <3>2. \A i \in 1..6 : wire'[i] = wire[i]
      BY <2>6, <3>1
    <3> QED BY <3>2, HeaderOfSixBytes
  <2>8. /\ "checksum_mismatch" \notin HeaderErrors
        /\ "checksum_mismatch" # "invalid_frame_size"
        /\ "checksum_mismatch" \in Errors
    BY ErrorNames DEF HeaderErrors
  <2>9. ASSUME HeaderErrors \cap damage' = {}
        PROVE  ~ChecksumMatches(wire')
    <3>1. ChecksumMatches(wire)
      BY <1>1, <2>2, <2>8, <2>9 DEF Shown
    <3>2. place \in 1..frame_size
      BY <1>1, <2>3 DEF place
    <3> QED BY <1>1, <2>2, <2>4, <2>5, <3>1, <3>2, ReplacedIsSeen
  <2>10. \A error \in HeaderErrors :
             error \in damage' <=> FailsHeader(wire', error)
    BY <1>1, <2>2, <2>7, <2>8 DEF Shown
  <2>11. /\ damage' \subseteq Errors /\ "checksum_mismatch" \in damage'
         /\ "invalid_frame_size" \notin damage'
    BY <1>1, <2>2, <2>8
  <2> QED BY <1>1, <2>6, <2>9, <2>10, <2>11 DEF Shown
<1>4. CASE Truncate
  <2>1. /\ wire' = SubSeq(wire, 1, Len(wire) - 1) /\ Len(wire) > 0
        /\ damage' = damage \cup {"invalid_frame_size"}
    BY <1>4 DEF Truncate, Front
  <2>2. Len(wire') = Len(wire) - 1
    <3> DEFINE last == Len(wire) - 1
    <3>1. \A i \in 1..Len(wire) : wire[i] \in Byte
      BY <1>1, BytesOf
    <3>2. last \in Nat /\ 1..last \subseteq 1..Len(wire)
      BY <1>1, <2>1
    <3>3. wire' = SubSeq(wire, 1, last)
      BY <2>1
    <3> HIDE DEF last
    <3>4. \A i \in 1..last : wire[i] \in Byte
      BY <3>1, <3>2
    <3>5. Len(SubSeq(wire, 1, last)) = last
      BY <3>2, <3>4, SubSeqProperties
    <3> QED BY <3>3, <3>5 DEF last
  <2>3. Len(wire') <= frame_size /\ Len(wire') # frame_size
    <3> DEFINE length == Len(wire)
    <3>1. length \in Nat /\ length <= 34 /\ frame_size = 34
      BY <1>1
    <3>2. Len(wire') = length - 1
      BY <2>2
    <3> HIDE DEF length
    <3> QED BY <3>1, <3>2
  <2>4. "invalid_frame_size" \in Errors
    BY ErrorNames
  <2> QED BY <1>1, <2>1, <2>3, <2>4 DEF Shown
<1>5. CASE Reseal
  <2>1. /\ wire' = SealedAgain(wire) /\ Len(wire) = frame_size
        /\ damage' = damage \ {"checksum_mismatch"}
    BY <1>5 DEF Reseal, SealedAgain
  <2>2. /\ Len(wire') = frame_size /\ ChecksumMatches(wire')
        /\ \A i \in 1..30 : wire'[i] = wire[i]
    <3>1. wire \in Seq(Byte)
      BY <1>1
    <3>2. /\ Len(wire') = frame_size /\ ChecksumMatches(wire')
          /\ \A i \in 1..crc_offset : wire'[i] = wire[i]
      BY <2>1, <3>1, Resealed
    <3> QED BY <3>2 DEF crc_offset
  <2>3. \A error \in HeaderErrors :
            FailsHeader(wire', error) <=> FailsHeader(wire, error)
    <3>1. \A i \in 1..6 : i \in 1..30
      OBVIOUS
    <3>2. \A i \in 1..6 : wire'[i] = wire[i]
      BY <2>2, <3>1
    <3> QED BY <3>2, HeaderOfSixBytes
  <2>4. "checksum_mismatch" \notin HeaderErrors
    BY DEF HeaderErrors
  <2>5. \A error \in HeaderErrors :
            error \in damage' <=> FailsHeader(wire', error)
    BY <1>1, <2>1, <2>3, <2>4 DEF Shown
  <2>6. /\ damage' \subseteq Errors /\ "checksum_mismatch" \notin damage'
        /\ "invalid_frame_size" \notin damage'
    BY <1>1, <2>1
  <2> QED BY <1>1, <2>2, <2>5, <2>6 DEF Shown
<1> QED BY <1>2, <1>3, <1>4, <1>5

\* deserialize reports the first damage shown.
LEMMA FirstShown ==
    ASSUME Linked, Shown PROVE FirstDamageIsReported
<1> SUFFICES ASSUME phase = "received" PROVE FirstDamageIsReported
  BY DEF FirstDamageIsReported
<1>1. result = Deserialize(wire) /\ damage \subseteq Errors
  BY DEF Linked, Shown
<1>2. /\ ErrorOrder[1] = "invalid_frame_size"
      /\ ErrorOrder[2] = "invalid_magic"
      /\ ErrorOrder[3] = "unsupported_version"
      /\ ErrorOrder[4] = "unsupported_message_type"
      /\ ErrorOrder[5] = "invalid_payload_size"
      /\ ErrorOrder[6] = "checksum_mismatch"
      /\ DOMAIN ErrorOrder = 1..6
  BY DEF ErrorOrder
<1>3. SUFFICES \/ damage = {} /\ result.error = "none"
               \/ \E i \in 1..6 :
                      /\ result.error = ErrorOrder[i]
                      /\ ErrorOrder[i] \in damage
                      /\ \A j \in 1..(i - 1) : ErrorOrder[j] \notin damage
  BY <1>2 DEF FirstDamageIsReported
<1>4. CASE Len(wire) # frame_size
  <2>1. /\ result.error = ErrorOrder[1] /\ ErrorOrder[1] \in damage
        /\ \A j \in 1..(1 - 1) : ErrorOrder[j] \notin damage
    BY <1>1, <1>2, <1>4 DEF Deserialize, Failure, Shown
  <2> QED BY <2>1
<1>5. CASE Len(wire) = frame_size
  <2>1. /\ ErrorOrder[1] \notin damage
        /\ \A error \in HeaderErrors :
               error \in damage <=> FailsHeader(wire, error)
        /\ HeaderErrors \cap damage = {} =>
               ("checksum_mismatch" \in damage <=> ~ChecksumMatches(wire))
    BY <1>2, <1>5 DEF Shown
  <2>2. /\ ErrorOrder[2] \in damage
               <=> ~(wire[1] = Magic[1] /\ wire[2] = Magic[2])
        /\ ErrorOrder[3] \in damage <=> wire[3] # SupportedVersion
        /\ ErrorOrder[4] \in damage <=> wire[4] # SupportedMessageType
        /\ ErrorOrder[5] \in damage
               <=> Read(wire, payload_size_offset, 2) # TelemetryPayloadSize
    BY <1>2, <2>1 DEF FailsHeader, HeaderErrors
  <2>3. /\ At(wire, 0) = wire[1] /\ At(wire, 1) = wire[2]
        /\ At(wire, version_offset) = wire[3]
        /\ At(wire, message_type_offset) = wire[4]
    BY DEF At, version_offset, message_type_offset
  <2>4. CASE ErrorOrder[2] \in damage
    <3>1. result.error = ErrorOrder[2]
      BY <1>1, <1>2, <1>5, <2>2, <2>3, <2>4 DEF Deserialize, Failure
    <3>2. \A j \in 1..(2 - 1) : ErrorOrder[j] \notin damage
      BY <2>1
    <3> QED BY <2>4, <3>1, <3>2
  <2>5. CASE ErrorOrder[2] \notin damage /\ ErrorOrder[3] \in damage
    <3>1. result.error = ErrorOrder[3]
      BY <1>1, <1>2, <1>5, <2>2, <2>3, <2>5 DEF Deserialize, Failure
    <3>2. \A j \in 1..(3 - 1) : ErrorOrder[j] \notin damage
      BY <2>1, <2>5
    <3> QED BY <2>5, <3>1, <3>2
  <2>6. CASE /\ ErrorOrder[2] \notin damage /\ ErrorOrder[3] \notin damage
             /\ ErrorOrder[4] \in damage
    <3>1. result.error = ErrorOrder[4]
      BY <1>1, <1>2, <1>5, <2>2, <2>3, <2>6 DEF Deserialize, Failure
    <3>2. \A j \in 1..(4 - 1) : ErrorOrder[j] \notin damage
      BY <2>1, <2>6
    <3> QED BY <2>6, <3>1, <3>2
  <2>7. CASE /\ ErrorOrder[2] \notin damage /\ ErrorOrder[3] \notin damage
             /\ ErrorOrder[4] \notin damage /\ ErrorOrder[5] \in damage
    <3>1. result.error = ErrorOrder[5]
      BY <1>1, <1>2, <1>5, <2>2, <2>3, <2>7 DEF Deserialize, Failure
    <3>2. \A j \in 1..(5 - 1) : ErrorOrder[j] \notin damage
      BY <2>1, <2>7
    <3> QED BY <2>7, <3>1, <3>2
  <2>8. CASE /\ ErrorOrder[2] \notin damage /\ ErrorOrder[3] \notin damage
             /\ ErrorOrder[4] \notin damage /\ ErrorOrder[5] \notin damage
    <3>1. HeaderErrors \cap damage = {}
      BY <1>2, <2>8 DEF HeaderErrors
    <3>2. ErrorOrder[6] \in damage <=> ~ChecksumMatches(wire)
      BY <1>2, <2>1, <3>1
    <3>3. CASE ErrorOrder[6] \in damage
      <4>1. result.error = ErrorOrder[6]
        BY <1>1, <1>2, <1>5, <2>2, <2>3, <2>8, <3>2, <3>3
        DEF Deserialize, Failure
      <4>2. \A j \in 1..(6 - 1) : ErrorOrder[j] \notin damage
        BY <2>1, <2>8
      <4> QED BY <3>3, <4>1, <4>2
    <3>4. CASE ErrorOrder[6] \notin damage
      <4>1. result.error = "none"
        BY <1>1, <1>5, <2>2, <2>3, <2>8, <3>2, <3>4
        DEF Deserialize, Failure
      <4>2. damage = {}
        BY <1>1, <1>2, <2>1, <3>1, <3>4, ErrorNames
      <4> QED BY <4>1, <4>2
    <3> QED BY <3>3, <3>4
  <2> QED BY <2>4, <2>5, <2>6, <2>7, <2>8
<1> QED BY <1>4, <1>5

\* Without flipped bits, which are damage of no name, the first damage in the
\* documented order is the one reported, and an undamaged frame is accepted:
\* for any number of damages and new checksums, in any order, of any frame.
THEOREM FirstDamageReported ==
    ASSUME FlippedBits = {}
    PROVE  Spec => []FirstDamageIsReported
<1>1. Init => Shown
  BY DEF Init, Shown
<1>2. Linked /\ Shown /\ [Next]_vars => Shown'
  <2> SUFFICES ASSUME Linked, Shown, [Next]_vars PROVE Shown'
    OBVIOUS
  <2>1. CASE Transmit
    BY <2>1, SentShown
  <2>2. CASE CorruptHeader \/ CorruptChecksummed \/ Truncate \/ Reseal
    BY <2>2, FaultsShown
  <2>3. CASE Receive
    BY <2>3 DEF Receive, Shown
  <2>4. CASE UNCHANGED vars
    BY <2>4 DEF vars, Shown
  <2>5. ~FlipBit
    BY DEF FlipBit
  <2> QED BY <2>1, <2>2, <2>3, <2>4, <2>5 DEF Next
<1>3. Linked /\ Shown => FirstDamageIsReported
  BY FirstShown
<1> QED BY <1>1, <1>2, <1>3, LinkedAlways, PTL DEF Spec

-----------------------------------------------------------------------------
(* One or two faults.                                                       *)

\* The frame has arrived but for so many bytes.
WrongBytes(count) ==
    CASE count = 0 -> wire = Serialize(sent)
      [] count = 1 -> \E place \in 1..frame_size :
                          AgreeBut(Serialize(sent), wire, place, place)
      [] count = 2 -> \E first, second \in 1..frame_size :
                          AgreeBut(Serialize(sent), wire, first, second)
      [] OTHER -> TRUE

\* A frame that was cut, or has one wrong byte for each fault.
Arriving ==
    \/ Len(wire) < frame_size
    \/ Len(wire) = frame_size /\ WrongBytes(faults)

\* Each fault makes one more byte wrong, or the frame shorter.
Damaged ==
    /\ faults \in Nat
    /\ phase = "send" => faults = 0
    /\ phase # "send" => Arriving

\* A step leaves every byte of a frame alone but one.
Touches(place) ==
    /\ Len(wire') = Len(wire)
    /\ Len(wire) = frame_size =>
           \A i \in 1..frame_size : i # place => wire'[i] = wire[i]

\* Replacing a byte does so.
LEMMA ReplacingTouches ==
    ASSUME Linked, NEW place, NEW byte, wire' = [wire EXCEPT ![place] = byte],
           Linked'
    PROVE  Touches(place)
<1>1. /\ wire \in [1..Len(wire) -> Byte] /\ Len(wire) \in Nat
      /\ wire' \in Seq(Byte)
  BY LenProperties DEF Linked
<1>2. DOMAIN wire' = 1..Len(wire)
  BY <1>1
<1>3. Len(wire') = Len(wire)
  BY <1>1, <1>2, LenProperties
<1>4. \A i \in 1..Len(wire) : i # place => wire'[i] = wire[i]
  BY <1>1
<1> QED BY <1>3, <1>4 DEF Touches

\* So does every fault but cutting and resealing.
LEMMA FaultTouches ==
    ASSUME Linked, Linked', FlipBit \/ CorruptHeader \/ CorruptChecksummed
    PROVE  \E place \in 1..frame_size : Touches(place)
<1>1. CASE FlipBit
  <2>1. PICK position \in FlippedBits :
            wire' = [wire EXCEPT ![position \div 8 + 1] =
                         Flip(@, position % 8)]
    BY <1>1 DEF FlipBit
  <2> DEFINE place == position \div 8 + 1
  <2>2. position \in 0..271
    BY FlippedBitsAssumption DEF frame_size
  <2>3. place \in 1..frame_size
    BY <2>2 DEF frame_size
  <2>4. wire' = [wire EXCEPT ![place] = Flip(wire[place], position % 8)]
    BY <2>1
  <2> HIDE DEF place
  <2> QED BY <2>3, <2>4, ReplacingTouches
<1>2. CASE CorruptHeader
  <2>1. PICK error \in DOMAIN Spoiled :
            wire' = [wire EXCEPT ![Spoiled[error].offset + 1] =
                         Spoiled[error].byte]
    BY <1>2 DEF CorruptHeader
  <2>2. Spoiled[error].offset + 1 \in 1..frame_size
    BY SpoiledTyped
  <2> QED BY <2>1, <2>2, ReplacingTouches
<1>3. CASE CorruptChecksummed
  <2>1. PICK offset \in {temperature_offset, crc_offset + crc_size - 1} :
            wire' = [wire EXCEPT ![offset + 1] = Flip(@, 0)]
    BY <1>3 DEF CorruptChecksummed
  <2> DEFINE place == offset + 1
  <2>2. place \in 1..frame_size
    BY DEF temperature_offset, crc_offset, crc_size, frame_size
  <2>3. wire' = [wire EXCEPT ![place] = Flip(wire[place], 0)]
    BY <2>1
  <2> HIDE DEF place
  <2> QED BY <2>2, <2>3, ReplacingTouches
<1> QED BY <1>1, <1>2, <1>3

\* The frame that was sent is its own resealed form.
LEMMA ResealedIsSent ==
    ASSUME sent \in TelemetryFrames
    PROVE  SealedAgain(Serialize(sent)) = Serialize(sent)
<1> DEFINE bytes == Serialize(sent)
           other == SealedAgain(bytes)
<1>1. /\ bytes \in Seq(Byte) /\ Len(bytes) = frame_size
      /\ SubSeq(bytes, 1, crc_offset) = Body(sent)
  <2>1. sent.version \in Byte /\ sent.message_type \in Byte
    BY FrameBytes DEF TelemetryFrames
  <2> QED BY <2>1, SerializedLaidOut
<1>2. bytes = Body(sent) \o BigEndian(crc_size, CalculateCrc32(Body(sent)))
  BY DEF Serialize
<1> QED BY <1>1, <1>2 DEF SealedAgain

\* Cutting makes a frame shorter.
LEMMA TruncateCuts == ASSUME Linked, Truncate PROVE Len(wire') = Len(wire) - 1
<1>1. wire' = SubSeq(wire, 1, Len(wire) - 1) /\ Len(wire) \in Nat
      /\ Len(wire) > 0
  BY LenProperties DEF Truncate, Front, Linked
<1>2. \A i \in 1..(Len(wire) - 1) : wire[i] \in Byte
  BY <1>1, ElementOfSeq DEF Linked
<1> DEFINE last == Len(wire) - 1
<1>3. last \in Nat /\ \A i \in 1..last : wire[i] \in Byte
  BY <1>1, <1>2
<1>4. wire' = SubSeq(wire, 1, last)
  BY <1>1
<1> HIDE DEF last
<1>5. Len(wire') = last
  <2>1. IF 1 <= last + 1 THEN last - 1 + 1 = last ELSE FALSE
    BY <1>3
  <2> QED BY <1>3, <1>4, <2>1, SubSeqProperties
<1> QED BY <1>5 DEF last

\* And what is not too long does not become so.
LEMMA StillShorter ==
    ASSUME NEW n \in Nat, n < 34 \/ n = 34, NEW m, m = n - 1 PROVE m < 34
OBVIOUS

\* One more fault makes one more byte wrong.
LEMMA OneMoreFault ==
    ASSUME Linked, Linked', Damaged, MaxFaults <= 2,
           MayReseal => MaxFaults <= 1,
           FlipBit \/ CorruptHeader \/ CorruptChecksummed \/ Truncate \/ Reseal
    PROVE  Damaged'
<1>1. /\ phase = "channel" /\ phase' = "channel" /\ faults' = faults + 1
      /\ faults < MaxFaults /\ sent' = sent /\ sent \in TelemetryFrames
      /\ faults \in Nat
  BY DEF FlipBit, CorruptHeader, CorruptChecksummed, Truncate, Reseal, Fault,
         Linked, Damaged
<1>2. faults \in {0, 1} /\ faults' \in Nat
  BY <1>1, MaxFaultsAssumption
<1>3. Len(wire) \in Nat /\ Arriving
  <2>1. Len(wire) \in Nat
    BY LenProperties DEF Linked
  <2>2. phase # "send"
    BY <1>1
  <2> QED BY <2>1, <2>2 DEF Damaged
<1>4. SUFFICES Arriving'
  BY <1>1, <1>2 DEF Damaged
<1>5. ASSUME NEW place \in 1..frame_size, Touches(place)
      PROVE  Arriving'
  <2>1. CASE Len(wire) < frame_size
    BY <1>5, <2>1 DEF Touches, Arriving
  <2>2. CASE Len(wire) = frame_size /\ WrongBytes(faults)
    <3> DEFINE bytes == Serialize(sent)
    <3>1. /\ Len(wire') = frame_size /\ Serialize(sent)' = bytes
          /\ \A i \in 1..frame_size : i # place => wire'[i] = wire[i]
      BY <1>1, <1>5, <2>2 DEF Touches
    <3> HIDE DEF bytes
    <3>2. CASE faults = 0
      <4>1. wire = bytes
        BY <2>2, <3>2 DEF WrongBytes, bytes
      <4>2. AgreeBut(bytes, wire', place, place)
        BY <3>1, <4>1 DEF AgreeBut
      <4>3. faults' = 1
        BY <1>1, <3>2
      <4>4. WrongBytes(faults)'
        BY <3>1, <4>2, <4>3 DEF WrongBytes
      <4> QED BY <3>1, <4>4 DEF Arriving
    <3>3. CASE faults = 1
      <4>1. PICK first \in 1..frame_size : AgreeBut(bytes, wire, first, first)
        BY <2>2, <3>3 DEF WrongBytes, bytes
      <4>2. AgreeBut(bytes, wire', first, place)
        BY <3>1, <4>1 DEF AgreeBut
      <4>3. faults' = 2
        BY <1>1, <3>3
      <4>4. WrongBytes(faults)'
        BY <3>1, <4>2, <4>3 DEF WrongBytes
      <4> QED BY <3>1, <4>4 DEF Arriving
    <3> QED BY <1>2, <3>2, <3>3
  <2> QED BY <1>3, <2>1, <2>2 DEF Arriving
<1>6. CASE FlipBit \/ CorruptHeader \/ CorruptChecksummed
  BY <1>5, <1>6, FaultTouches
<1>7. CASE Truncate
  <2>1. Len(wire') = Len(wire) - 1
    BY <1>7, TruncateCuts
  <2>2. frame_size = 34
    BY DEF frame_size
  <2>3. Len(wire) < 34 \/ Len(wire) = 34
    BY <1>3, <2>2, Zenon DEF Arriving
  <2>4. Len(wire') < 34
    BY <1>3, <2>1, <2>3, StillShorter, Zenon
  <2> QED BY <2>4 DEF Arriving, frame_size
<1>8. CASE Reseal
  <2>1. faults = 0 /\ Len(wire) = frame_size
    BY <1>1, <1>8, MaxFaultsAssumption DEF Reseal
  <2>2. wire = Serialize(sent)
    BY <1>3, <2>1 DEF Arriving, WrongBytes, frame_size
  <2>3. wire' = SealedAgain(wire)
    BY <1>8 DEF Reseal, SealedAgain
  <2>4. wire' = wire
    BY <1>1, <2>2, <2>3, ResealedIsSent
  <2>5. 1 \in 1..frame_size /\ Touches(1)
    BY <2>4 DEF Touches, frame_size
  <2> QED BY <1>5, <2>5
<1> QED BY <1>6, <1>7, <1>8

\* What has at most two wrong bytes is the frame, or is refused.
LEMMA DamagedIsSeen ==
    ASSUME Linked, Damaged, phase # "send", faults <= 2, Accepted(wire)
    PROVE  wire = Serialize(sent)
<1> DEFINE bytes == Serialize(sent)
<1>1. /\ bytes \in Seq(Byte) /\ Len(bytes) = frame_size
      /\ ChecksumMatches(bytes)
  BY SentTyped, SerializedAccepted DEF Linked, Accepted
<1>2. /\ wire \in Seq(Byte) /\ Len(wire) = frame_size
      /\ ChecksumMatches(wire)
  BY DEF Linked, Accepted
<1>3. WrongBytes(faults)
  <2>1. ~(Len(wire) < frame_size)
    BY <1>2 DEF frame_size
  <2> QED BY <2>1 DEF Damaged, Arriving
<1>4. faults \in {0, 1, 2}
  BY DEF Damaged
<1>5. CASE faults = 0
  BY <1>3, <1>5 DEF WrongBytes
<1>6. CASE faults = 1
  <2>1. PICK place \in 1..frame_size : AgreeBut(bytes, wire, place, place)
    BY <1>3, <1>6 DEF WrongBytes
  <2> HIDE DEF bytes
  <2>2. wire = bytes
    BY <1>1, <1>2, <2>1, TwoReplacedAreSeen
  <2> QED BY <2>2 DEF bytes
<1>7. CASE faults = 2
  <2>1. \E first, second \in 1..frame_size :
            AgreeBut(bytes, wire, first, second)
    BY <1>3, <1>7 DEF WrongBytes
  <2> HIDE DEF bytes
  <2>2. wire = bytes
    BY <1>1, <1>2, <2>1, TwoReplacedAreSeen
  <2> QED BY <2>2 DEF bytes
<1> QED BY <1>4, <1>5, <1>6, <1>7

\* One or two faults of any kind, at any places of any frame, are seen: what
\* is received is the frame that was sent, bit for bit, or nothing is.  A new
\* checksum would hide what was done before it.
THEOREM TwoFaultsAreSeen ==
    ASSUME MaxFaults <= 2, MayReseal => MaxFaults <= 1
    PROVE  Spec => []ReceivedIsSent
<1> DEFINE Few == Damaged /\ faults <= MaxFaults
<1>1. Init => Few
  BY MaxFaultsAssumption DEF Init, Damaged
<1>2. Linked /\ Linked' /\ Few /\ [Next]_vars => Few'
  <2> SUFFICES ASSUME Linked, Linked', Few, [Next]_vars PROVE Few'
    OBVIOUS
  <2>1. CASE Transmit
    <3>1. Len(wire') = frame_size /\ wire' = Serialize(sent) /\ sent' = sent
          /\ faults' = 0 /\ phase' = "channel"
      BY <2>1, SentTyped DEF Transmit, Damaged, Linked
    <3>2. WrongBytes(faults)'
      BY <3>1 DEF WrongBytes
    <3>3. Arriving'
      BY <3>1, <3>2 DEF Arriving
    <3> QED BY <3>1, <3>3, MaxFaultsAssumption DEF Damaged
  <2>2. CASE \/ FlipBit \/ CorruptHeader \/ CorruptChecksummed
             \/ Truncate \/ Reseal
    <3>1. faults' <= MaxFaults
      BY <2>2, MaxFaultsAssumption
      DEF FlipBit, CorruptHeader, CorruptChecksummed, Truncate, Reseal, Fault,
          Damaged
    <3> QED BY <2>2, <3>1, OneMoreFault
  <2>3. CASE Receive
    BY <2>3 DEF Receive, Damaged, Arriving, WrongBytes
  <2>4. CASE UNCHANGED vars
    BY <2>4 DEF vars, Damaged, Arriving, WrongBytes
  <2> QED BY <2>1, <2>2, <2>3, <2>4 DEF Next
<1>3. Linked /\ Few => ReceivedIsSent
  <2> SUFFICES ASSUME Linked, Few, phase = "received"
               PROVE  IF wire = Serialize(sent)
                      THEN result = [frame |-> {Normalized}, error |-> "none"]
                      ELSE result.frame = {} /\ result.error # "none"
    BY DEF ReceivedIsSent
  <2>1. result = Deserialize(wire) /\ sent \in TelemetryFrames
    BY DEF Linked
  <2>2. CASE wire = Serialize(sent)
    BY <2>1, <2>2, RoundTrip DEF Normalized
  <2>3. CASE wire # Serialize(sent)
    <3>1. faults <= 2
      BY MaxFaultsAssumption DEF Damaged
    <3>2. ~Accepted(wire)
      BY <2>3, <3>1, DamagedIsSeen
    <3> QED BY <2>1, <2>3, <3>2, DeserializeAccepts
  <2> QED BY <2>2, <2>3
<1> HIDE DEF Few
<1> QED BY <1>1, <1>2, <1>3, LinkedAlways, PTL DEF Spec
=============================================================================
