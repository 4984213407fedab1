--------------------------- MODULE MCTelemetryHost ---------------------------
(****************************************************************************)
(* TelemetryHost over the demo's fifteen inputs and over every short stream *)
(* of four raw frames: two well-formed ones that are out of order, and two  *)
(* that fail to parse for different reasons.                                *)
(****************************************************************************)
EXTENDS TelemetryHost

MCRawFrames ==
    {Valid103Watchdog, Valid102,
     Corrupted(Valid104, "checksum_mismatch"),
     Corrupted(Valid106, "invalid_frame_size")}

MCMaxStream == 4

\* Every stream of at most MCMaxStream raw frames, and the demo's.
MCStreams ==
    UNION {[1..n -> MCRawFrames] : n \in 0..MCMaxStream} \cup {Generate}

\* Streams of well-formed frames only, long enough to fill the buffer.
MCWellFormedStreams ==
    UNION {[1..n -> {Valid103Watchdog, Valid102}] : n \in 0..4}

\* What a sequential program reports of the demo's inputs is what
\* docs/HOST_PIPELINE.md:130-140 expects of the demo.
ASSUME ReportIsDocumented ==
    LET expected == SequentialReport(Generate)
    IN  /\ expected.counters.inputs_received = 15
        /\ expected.counters.frames_accepted = 8
        /\ expected.counters.frames_rejected = 7
        /\ expected.counters.parse_errors =
               [error \in ParseErrors |->
                   IF error = "checksum_mismatch" THEN 2 ELSE 1]
        /\ expected.statistics.frames_processed = 8
        /\ expected.statistics.missing_sequences = 1
        /\ expected.statistics.duplicate_sequences = 1
        /\ expected.statistics.out_of_order_sequences = 1
        /\ expected.statistics.warnings = [flag \in StatusFlags |-> 3]
        /\ expected.statistics.temperature =
               [minimum |-> -10000, maximum |-> 30000, sum |-> 8 * 8125]
        /\ expected.statistics.supply =
               [minimum |-> 2900, maximum |-> 3600, sum |-> 8 * 3250]
=============================================================================
