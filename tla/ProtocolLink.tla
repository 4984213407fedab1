---------------------------- MODULE ProtocolLink ----------------------------
(****************************************************************************)
(* One frame on its way from serialize to deserialize, and what can happen  *)
(* to its bytes in between: bits flip, the simulated source spoils a byte   *)
(* in one of its ways, or another sender computes the checksum of the       *)
(* spoiled bytes.  Protocol v1 defines no transport, so the channel is the  *)
(* environment; what it does to a frame is what simulated_frame_source.cpp  *)
(* and the protocol's tests do.                                             *)
(****************************************************************************)
EXTENDS TelemetryProtocol, HexFormatter, FrameValidation, SequencesExt

CONSTANTS
    Frames,         \* the frames that are sent
    FlippedBits,    \* the bits the channel may flip: 8 * byte + bit
    Corruptions,    \* the ways of the simulated source that are used
    MayReseal,      \* whether a spoiled frame can get a matching checksum
    MaxFaults       \* bound on the channel's steps for one frame

ASSUME FramesAssumption == Frames \subseteq TelemetryFrames
ASSUME FlippedBitsAssumption == FlippedBits \subseteq 0..(8 * frame_size - 1)
ASSUME MaxFaultsAssumption == MaxFaults \in Nat

VARIABLES
    phase,     \* "send", "channel" or "received"
    sent,      \* the frame
    wire,      \* its bytes
    damage,    \* the checks that what the channel did must fail
    faults,    \* the channel's steps so far
    result     \* the ParseResult

vars == <<phase, sent, wire, damage, faults, result>>

\* Documented order of validation (docs/PROTOCOL.md:66-75).
ErrorOrder ==
    <<"invalid_frame_size", "invalid_magic", "unsupported_version",
      "unsupported_message_type", "invalid_payload_size",
      "checksum_mismatch">>
Errors == {ErrorOrder[i] : i \in DOMAIN ErrorOrder}

NoResult == Failure("none")

Init ==
    /\ phase = "send"
    /\ sent \in Frames
    /\ wire = <<>>
    /\ damage = {}
    /\ faults = 0
    /\ result = NoResult

Transmit ==
    /\ phase = "send"
    /\ wire' = Serialize(sent)
    /\ phase' = "channel"
    /\ UNCHANGED <<sent, damage, faults, result>>

-----------------------------------------------------------------------------
(* The channel.                                                             *)

Fault == phase = "channel" /\ faults < MaxFaults /\ faults' = faults + 1

Flip(byte, bit) == SymDiff(byte, {bit})

\* One bit of the frame arrives wrong.
FlipBit ==
    /\ Fault
    /\ \E position \in FlippedBits :
           wire' = [wire EXCEPT ![position \div 8 + 1] =
                        Flip(@, position % 8)]
    /\ UNCHANGED <<phase, sent, damage, result>>

\* The byte each way of the simulated source spoils, and what becomes of it.
Spoiled ==
    [invalid_magic            |-> [offset |-> 0, byte |-> {}],
     unsupported_version      |-> [offset |-> version_offset, byte |-> {1}],
     unsupported_message_type |->
         [offset |-> message_type_offset, byte |-> {1}],
     invalid_payload_size     |->
         [offset |-> payload_size_offset + 1, byte |-> {0, 1, 3}]]

\* A header byte is overwritten: its own check fails, and the checksum.
CorruptHeader ==
    /\ Fault
    /\ Len(wire) = frame_size
    /\ \E error \in Corruptions \cap DOMAIN Spoiled :
           /\ wire' = [wire EXCEPT ![Spoiled[error].offset + 1] =
                           Spoiled[error].byte]
           /\ damage' = damage \cup {error, "checksum_mismatch"}
    /\ UNCHANGED <<phase, sent, result>>

\* A bit of the payload, or of the checksum itself, is inverted.
CorruptChecksummed ==
    /\ Fault
    /\ "checksum_mismatch" \in Corruptions \ damage
    /\ Len(wire) = frame_size
    /\ \E offset \in {temperature_offset, crc_offset + crc_size - 1} :
           wire' = [wire EXCEPT ![offset + 1] = Flip(@, 0)]
    /\ damage' = damage \cup {"checksum_mismatch"}
    /\ UNCHANGED <<phase, sent, result>>

\* The last byte is cut off.
Truncate ==
    /\ Fault
    /\ "invalid_frame_size" \in Corruptions
    /\ Len(wire) > 0
    /\ wire' = Front(wire)
    /\ damage' = damage \cup {"invalid_frame_size"}
    /\ UNCHANGED <<phase, sent, result>>

\* Another sender makes a frame of the spoiled bytes: the checksum matches.
Reseal ==
    /\ Fault
    /\ MayReseal
    /\ Len(wire) = frame_size
    /\ LET body == SubSeq(wire, 1, crc_offset)
       IN  wire' = body \o BigEndian(crc_size, CalculateCrc32(body))
    /\ damage' = damage \ {"checksum_mismatch"}
    /\ UNCHANGED <<phase, sent, result>>

Receive ==
    /\ phase = "channel"
    /\ result' = Deserialize(wire)
    /\ phase' = "received"
    /\ UNCHANGED <<sent, wire, damage, faults>>

Next ==
    \/ Transmit
    \/ FlipBit
    \/ CorruptHeader
    \/ CorruptChecksummed
    \/ Truncate
    \/ Reseal
    \/ Receive

Spec == Init /\ [][Next]_vars

-----------------------------------------------------------------------------
(* Properties.                                                              *)

\* The frame serialize makes of sent carries the constant payload size.
Normalized == [sent EXCEPT !.payload_size = TelemetryPayloadSize]

\* What the channel leaves alone is received as it was sent, bit for bit,
\* and nothing else is received: the checksum sees every change of one or
\* two bits, wherever they are.
ReceivedIsSent ==
    phase = "received" =>
        IF wire = Serialize(sent)
        THEN result = [frame |-> {Normalized}, error |-> "none"]
        ELSE result.frame = {} /\ result.error # "none"

\* The first damage in the documented order is the one reported, however the
\* damages were combined and in whichever order they were done; without any
\* the frame is accepted.  One damage of the simulated source is reported by
\* its own name, which is what SimulatedFrameSource says of a raw frame.
FirstDamageIsReported ==
    phase = "received" =>
        IF damage = {}
        THEN result.error = "none"
        ELSE \E i \in DOMAIN ErrorOrder :
                 /\ result.error = ErrorOrder[i]
                 /\ ErrorOrder[i] \in damage
                 /\ \A j \in 1..(i - 1) : ErrorOrder[j] \notin damage

\* There is one byte string for each frame: whatever is accepted is what
\* serialize would have produced, so that the host may parse a frame twice
\* and the validator may compare bytes.
AcceptedIsCanonical ==
    \A frame \in result.frame : Serialize(frame) = wire

\* The two implementations of the protocol, the host's and the console
\* validator's, accept the same frames: given the same bytes as hexadecimal
\* characters, the Python checks succeed exactly when deserialize does,
\* whatever was spoiled and whether or not the checksum was made to match.
ValidatorsAgree ==
    phase = "received" =>
        LET encoded == Format(wire)
        IN  (/\ ValidateFrameEncodingAndHeaders(encoded)
             /\ HasValidCrc(FromHex(encoded))) <=> (result.error = "none")
=============================================================================
