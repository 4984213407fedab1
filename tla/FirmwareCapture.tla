--------------------------- MODULE FirmwareCapture ---------------------------
(****************************************************************************)
(* The firmware's console as the validators see it.  A run is cut off at    *)
(* any moment (Renode's RunFor, native_sim's -stop_at, a timeout), perhaps  *)
(* in the middle of a line, or a fault halts the machine; what was written  *)
(* by then is the capture.  It is judged by telemetry_validation.py for     *)
(* Renode, by the Robot suite, which calls the same functions, and by the   *)
(* awk program of run-firmware-demo.sh for native_sim.                      *)
(*                                                                          *)
(* A line is a record: what it starts with, the numbers it carries and how  *)
(* much of it was written.  A torn frame line is never of the length that   *)
(* the validators ask for.  The bytes of a frame are its sample's number;   *)
(* what the validators make of the characters is FirmwareConsole.           *)
(****************************************************************************)
EXTENDS TelemetryFirmware, SequencesExt, FiniteSets

CONSTANT MayFault   \* whether the machine may fault

VARIABLES
    fault,     \* "none", or where the fault leaves its marker
    captured   \* the lines of the capture, <<>> while the run lasts

captureVars == <<vars, fault, captured>>

-----------------------------------------------------------------------------
(* The console.  tear says how much of a line was written: "whole", up to   *)
(* somewhere in its fields, in its words, or not even its first word.       *)

Line(words, fields) == [words |-> words, fields |-> fields, tear |-> "whole"]

Banner == Line("*** Booting Zephyr OS build", <<>>)
Marker == Line("FATAL ERROR", <<>>)
Done == Line("TLFIRMWARE DONE", <<>>)
FrameLine(line) == Line("TLFRAME", <<line.number, line.frame>>)
VerdictLine(words) ==
    Line(words,
         <<verdict.produced, verdict.transmitted, verdict.queue_errors>>)

\* Everything printed so far: the kernel's banner, the transmitter's lines
\* and main's verdict.
Console ==
    <<Banner>>
        \o [k \in DOMAIN lines |-> FrameLine(lines[k])]
        \o (CASE verdict.status = "SUMMARY" ->
                    <<VerdictLine("TLFIRMWARE SUMMARY"), Done>>
              [] verdict.status = "ERROR" ->
                    <<VerdictLine("TLFIRMWARE ERROR")>>
              [] OTHER -> <<>>)

Tears(line) ==
    {"whole", "words", "start"} \cup (IF line = Done THEN {} ELSE {"fields"})

\* What may have been written of it: the last step may still be printing, so
\* that its lines can be missing, and the last line there can be torn.
Written ==
    LET least == 1 + Len(lines) - (IF transmitterPc = "count" THEN 1 ELSE 0)
    IN  UNION {{[SubSeq(Console, 1, n) EXCEPT ![n].tear = tear] :
                    tear \in Tears(Console[n])} : n \in least..Len(Console)}

\* The kernel's marker follows what a fault interrupted.
Captures ==
    IF fault = "console" THEN {Append(text, Marker) : text \in Written}
    ELSE Written

-----------------------------------------------------------------------------
(* The lines both validators pick out.                                      *)

StartsWith(line, words) ==
    line.words = words /\ line.tear \notin {"words", "start"}

IsFrameLine(line) == StartsWith(line, "TLFRAME")
IsSummaryLine(line) == StartsWith(line, "TLFIRMWARE SUMMARY")
IsDoneLine(line) == line = Done

\* A line that starts with TLFRAME or TLFIRMWARE, however it goes on.
IsControlled(line) ==
    line.words \notin {Banner.words, Marker.words} /\ line.tear # "start"

\* The lines of a text at some positions, in order.
LinesAt(text, positions) ==
    [k \in 1..Cardinality(positions) |->
        text[CHOOSE i \in positions :
                 Cardinality({j \in positions : j <= i}) = k]]

\* Where the lines are that pass a test, one operator for each.
FramePositions(text) == {i \in DOMAIN text : IsFrameLine(text[i])}
SummaryPositions(text) == {i \in DOMAIN text : IsSummaryLine(text[i])}
DonePositions(text) == {i \in DOMAIN text : IsDoneLine(text[i])}
ControlledPositions(text) == {i \in DOMAIN text : IsControlled(text[i])}

Expected ==
    [k \in FrameNumbers |-> FrameLine([number |-> k, frame |-> k])]
ExpectedSummary ==
    Line("TLFIRMWARE SUMMARY", <<SampleCount, SampleCount, 0>>)

\* What run-renode-validation.sh and run-firmware-demo.sh keep of a capture.
ControlledOutput(text) == LinesAt(text, ControlledPositions(text))

-----------------------------------------------------------------------------
(* telemetry_validation.py: validate_capture, check by check.               *)

ValidateZephyrBoot(text) ==
    \E i \in DOMAIN text : StartsWith(text[i], Banner.words)

\* _frames raises on a line that starts with TLFRAME and does not match.
Frames(text) == LinesAt(text, FramePositions(text))
FramesAreFormed(text) ==
    \A i \in DOMAIN Frames(text) : Frames(text)[i].tear = "whole"

ValidateFrameCount(text) == Len(Frames(text)) = SampleCount

\* Mutant: the indices are expected to count from 0.
ValidateIndicesAndSequencesFromZero(text) ==
    \A i \in DOMAIN Frames(text) : Frames(text)[i].fields = <<i - 1, i>>

ValidateIndicesAndSequences(text) ==
    \A i \in DOMAIN Frames(text) : Frames(text)[i].fields = <<i, i>>

ValidateFirmwareSummary(text) ==
    LinesAt(text, SummaryPositions(text)) = <<ExpectedSummary>>

\* Mutant: only the summary is asked for.
ValidateFirmwareDoneAlways(text) == TRUE

ValidateFirmwareDone(text) ==
    LET controlled == ControlledOutput(text)
    IN  /\ Cardinality(DonePositions(text)) = 1
        /\ \A i \in DonePositions(text) :
               \A j \in (i + 1)..Len(text) : ~IsFrameLine(text[j])
        /\ controlled # <<>> /\ Last(controlled) = Done

\* Markers in the capture.
ValidateFaultFree(text) ==
    \A i \in DOMAIN text : text[i].words # Marker.words

\* The seven checks, which are the Robot suite's seven test cases.
ValidateText(text) ==
    /\ ValidateZephyrBoot(text)
    /\ FramesAreFormed(text)
    /\ ValidateFrameCount(text)
    /\ ValidateIndicesAndSequences(text)
    /\ ValidateFirmwareSummary(text)
    /\ ValidateFirmwareDone(text)
    /\ ValidateFaultFree(text)

\* run-renode-validation.sh gives it the monitor's log as well.
ValidateCapture(text) == ValidateText(text) /\ fault # "monitor"

\* telemetry_keywords.robot: the suite's setup waits for the banner and for
\* DONE before it closes the capture, and no test case reads the monitor.
RobotAccepts(text) ==
    /\ \E i, j \in DOMAIN text :
           i < j /\ StartsWith(text[i], Banner.words) /\ IsDoneLine(text[j])
    /\ ValidateText(text)

-----------------------------------------------------------------------------
(* run-firmware-demo.sh.                                                    *)

\* The exit status of zephyr.exe: 0 when main succeeded, and when -stop_at
\* ended it before main did.
ExecutionSucceeded == fault = "none" /\ verdict.status # "ERROR"

\* The awk program looks at the controlled lines and at nothing else; it
\* takes any four digits and any frame of the right length.
DemoAccepts(text) ==
    LET controlled == ControlledOutput(text)
    IN  /\ ExecutionSucceeded
        /\ \A i \in DOMAIN controlled :
               \/ IsFrameLine(controlled[i]) /\ controlled[i].tear = "whole"
               \/ controlled[i] \in {ExpectedSummary, Done}
        /\ Cardinality(FramePositions(controlled)) = SampleCount
        /\ Cardinality(SummaryPositions(controlled)) = 1
        /\ Cardinality(DonePositions(controlled)) = 1
        /\ Last(controlled) = Done

-----------------------------------------------------------------------------
InitCapture == Init /\ fault = "none" /\ captured = <<>>

Running == fault = "none" /\ captured = <<>>

\* The machine runs until a fault halts it or the capture ends.
FirmwareRuns ==
    /\ Running
    /\ Next
    /\ UNCHANGED <<fault, captured>>

\* An assertion, a kernel fault, or a fault only the emulator reports.
Fault ==
    /\ Running
    /\ MayFault
    /\ fault' \in {"console", "monitor"}
    /\ UNCHANGED <<vars, captured>>

Capture ==
    /\ captured = <<>>
    /\ captured' \in Captures
    /\ UNCHANGED <<vars, fault>>

NextCapture == FirmwareRuns \/ Fault \/ Capture

SpecCapture == InitCapture /\ [][NextCapture]_captureVars

-----------------------------------------------------------------------------
(* Properties.                                                              *)

\* Whatever was cut off, torn or purged, an accepted capture is of a run
\* without a fault and holds the whole controlled output and nothing else,
\* for every validator: this is why the release can compare the outputs of
\* native_sim and of Renode byte by byte (run-release-validation.sh:268).
\* Only a fault that nothing but the monitor's log shows escapes the Robot
\* suite, and then the console is complete all the same.
AcceptedMeansComplete ==
    /\ ValidateCapture(captured) \/ DemoAccepts(captured) => fault = "none"
    /\ RobotAccepts(captured) => fault # "console"
    /\ ValidateCapture(captured) \/ DemoAccepts(captured)
           \/ RobotAccepts(captured) =>
               ControlledOutput(captured) =
                   Expected \o <<ExpectedSummary, Done>>

\* A run that ends well and is captured whole is accepted by all three: no
\* validator asks for more than the firmware prints, whatever order its
\* threads ran in.
CompleteIsAccepted ==
    verdict.status = "SUMMARY" /\ fault = "none" /\ captured = Console =>
        /\ ValidateCapture(captured)
        /\ RobotAccepts(captured)
        /\ DemoAccepts(captured)
=============================================================================
