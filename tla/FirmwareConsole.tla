--------------------------- MODULE FirmwareConsole ---------------------------
(****************************************************************************)
(* A sample's way to the validator: the sensor model makes a frame, the     *)
(* serializer its bytes, the formatter their characters, printk the line;   *)
(* the serial line may garble or lose characters and lines; the validator   *)
(* decodes what is left.  TelemetryFirmware has the threads, the queue and  *)
(* the metrics in between, and FirmwareCapture the lines that are not       *)
(* frames; the content of a frame and its index go through them unchanged.  *)
(****************************************************************************)
EXTENDS DeterministicSensorModel, HexFormatter, FrameValidation, SequencesExt

CONSTANTS
    Places,        \* the characters of a frame the line may spoil
    Characters,    \* what it may make of them
    MaxFaults      \* bound on what it does to one capture

ASSUME PlacesAssumption == Places \subseteq 1..(2 * FRAME_SIZE)
ASSUME MaxFaultsAssumption == MaxFaults \in Nat

VARIABLES
    next_index,    \* the sensor model's
    console,       \* the captured TLFRAME lines
    faults         \* what the serial line has done so far

vars == <<next_index, console, faults>>

Init == next_index = 0 /\ console = <<>> /\ faults = 0

\* The line that the transmitter prints of a frame.
Line(transmission_index, frame) ==
    [index |-> FourDigits(transmission_index),     \* %04u
     encoded |-> Format(Serialize(frame))]

PrintFrame ==
    /\ HasNext(next_index)
    /\ next_index' = next_index + 1
    /\ console' = Append(console, Line(next_index + 1, Frame(next_index)))
    /\ UNCHANGED faults

\* One more fault of the serial line, in a console that is written.
Fault ==
    /\ ~HasNext(next_index)
    /\ faults < MaxFaults
    /\ faults' = faults + 1
    /\ UNCHANGED next_index

GarbleCharacter ==
    /\ Fault
    /\ \E k \in DOMAIN console, place \in Places, character \in Characters :
           /\ place <= Len(console[k].encoded)
           /\ console' = [console EXCEPT ![k].encoded[place] = character]

GarbleIndex ==
    /\ Fault
    /\ \E k \in DOMAIN console, character \in Characters :
           console' = [console EXCEPT ![k].index[4] = character]

LoseCharacter ==
    /\ Fault
    /\ \E k \in DOMAIN console, place \in Places :
           /\ place <= Len(console[k].encoded)
           /\ console' = [console EXCEPT ![k].encoded = RemoveAt(@, place)]

LoseLine ==
    /\ Fault
    /\ \E k \in DOMAIN console : console' = RemoveAt(console, k)

Next ==
    PrintFrame \/ GarbleCharacter \/ GarbleIndex \/ LoseCharacter \/ LoseLine

Spec == Init /\ [][Next]_vars

-----------------------------------------------------------------------------
\* What validate_capture asks of the frame lines, check after check, each
\* over all lines: the pattern, the count, the headers, the indices, and
\* then line by line the sequence and the checksum.
ValidateFrames ==
    /\ \A k \in DOMAIN console : MatchesFramePattern(console[k])
    /\ Len(console) = EXPECTED_FRAME_COUNT
    /\ \A k \in DOMAIN console :
           ValidateFrameEncodingAndHeaders(console[k].encoded)
    /\ \A k \in DOMAIN console :
           /\ ValidateIndexAndSequence(console[k], k, BitsOf(1000 + k - 1, 32))
           /\ HasValidCrc(FromHex(console[k].encoded))

-----------------------------------------------------------------------------
(* Properties.                                                              *)

\* When the serial line garbled or lost no more than MaxFaults characters or
\* lines, two of them at most, the lines the validator accepts are the
\* model's eight frames in order: the host's deserializer, given their bytes,
\* would extract every field of every sample bit for bit, the negative
\* temperature included.
AcceptedIsTheModel ==
    ValidateFrames =>
        [k \in DOMAIN console |-> Deserialize(FromHex(console[k].encoded))] =
        [k \in 1..Len(samples) |-> [frame |-> {Frame(k - 1)}, error |-> "none"]]

\* What the firmware prints is accepted when nothing is spoiled: the Python
\* constants, the digits and the byte order of the fields that the validator
\* reads are those of the firmware.
UndamagedIsAccepted ==
    ~HasNext(next_index) /\ faults = 0 => ValidateFrames
=============================================================================
