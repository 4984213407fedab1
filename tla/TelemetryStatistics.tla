------------------------- MODULE TelemetryStatistics -------------------------
(****************************************************************************)
(* The plain (non-atomic) fields of TelemetryMetrics in the host and what   *)
(* record_processed does to them for one frame.  Only the consumer thread   *)
(* writes them.  No variables: TelemetryMetrics and TelemetryHost hold a    *)
(* record of statistics each.                                               *)
(*                                                                          *)
(* A frame is [sequence, flags, temperature, supply], its flags the set of  *)
(* the status bits that are up.  An optional without a value is NoValue.    *)
(* Counters and sums are 64 bits wide in the code and cannot wrap before    *)
(* 2^32 frames, so they are unbounded here; sequences are compared before   *)
(* they are subtracted, as in the code, so no difference is negative.       *)
(****************************************************************************)
EXTENDS Integers

CONSTANT NoValue

ASSUME NoValueAssumption == NoValue \notin Int

StatusFlags ==
    {"sensor_warning", "voltage_warning", "communication_warning",
     "watchdog_event"}

EmptyTrack == [minimum |-> NoValue, maximum |-> NoValue, sum |-> 0]

Tracks ==
    [minimum : Int \cup {NoValue}, maximum : Int \cup {NoValue}, sum : Int]

\* The fields and their ranges (telemetry_metrics.hpp:78-97).
Statistics ==
    [frames_processed : Nat,
     first_sequence : Nat \cup {NoValue},
     last_sequence : Nat \cup {NoValue},
     missing_sequences : Nat,
     duplicate_sequences : Nat,
     out_of_order_sequences : Nat,
     warnings : [StatusFlags -> Nat],
     temperature : Tracks,
     supply : Tracks]

\* A new TelemetryMetrics.
NoStatistics ==
    [frames_processed |-> 0,
     first_sequence |-> NoValue,
     last_sequence |-> NoValue,
     missing_sequences |-> 0,
     duplicate_sequences |-> 0,
     out_of_order_sequences |-> 0,
     warnings |-> [flag \in StatusFlags |-> 0],
     temperature |-> EmptyTrack,
     supply |-> EmptyTrack]

-----------------------------------------------------------------------------
(* record_processed, part by part.                                          *)

\* The sequence policy: what the frame is to the highest sequence so far.
SequenceKind(stats, sequence) ==
    CASE stats.first_sequence = NoValue -> "first"
      [] stats.first_sequence # NoValue /\ sequence = stats.last_sequence
             -> "duplicate"
      [] stats.first_sequence # NoValue /\ sequence > stats.last_sequence
             -> "advance"
      [] OTHER -> "late"

Count(condition) == IF condition THEN 1 ELSE 0

\* Mutant: a late frame takes the last sequence back.
LatestSequence(stats, sequence) == sequence

\* The last sequence only moves forward.
HighestSequence(stats, sequence) ==
    IF SequenceKind(stats, sequence) \in {"first", "advance"}
    THEN sequence
    ELSE stats.last_sequence

\* Mutant: the distance itself is counted as missing.
GapWithEnd(stats, sequence) ==
    IF SequenceKind(stats, sequence) = "advance"
    THEN sequence - stats.last_sequence
    ELSE 0

\* Mutant: the distance is computed before the order is known.
GapUnordered(stats, sequence) ==
    IF SequenceKind(stats, sequence) # "first"
    THEN sequence - stats.last_sequence - 1
    ELSE 0

\* The sequences skipped by an advancing frame.
Gap(stats, sequence) ==
    IF SequenceKind(stats, sequence) = "advance"
    THEN sequence - stats.last_sequence - 1
    ELSE 0

\* Mutant: the maximum is only looked at when the minimum does not move.
TrackEither(track, value) ==
    [minimum |-> IF track.minimum = NoValue \/ value < track.minimum
                 THEN value ELSE track.minimum,
     maximum |-> IF track.maximum = NoValue
                 THEN value
                 ELSE IF value > track.minimum /\ value < track.maximum
                      THEN value ELSE track.maximum,
     sum |-> track.sum + value]

\* Extremes and sum of a measurement (temperature and supply alike).
Track(track, value) ==
    [minimum |-> IF track.minimum = NoValue \/ value < track.minimum
                 THEN value ELSE track.minimum,
     maximum |-> IF track.maximum = NoValue \/ value > track.maximum
                 THEN value ELSE track.maximum,
     sum |-> track.sum + value]

\* TelemetryMetrics::record_processed.
RecordProcessed(stats, frame) ==
    LET kind == SequenceKind(stats, frame.sequence)
    IN  [frames_processed |-> stats.frames_processed + 1,
         first_sequence |->
             IF kind = "first" THEN frame.sequence ELSE stats.first_sequence,
         last_sequence |-> HighestSequence(stats, frame.sequence),
         missing_sequences |->
             stats.missing_sequences + Gap(stats, frame.sequence),
         duplicate_sequences |->
             stats.duplicate_sequences + Count(kind = "duplicate"),
         out_of_order_sequences |->
             stats.out_of_order_sequences + Count(kind = "late"),
         warnings |->
             [flag \in StatusFlags |->
                 stats.warnings[flag] + Count(flag \in frame.flags)],
         temperature |-> Track(stats.temperature, frame.temperature),
         supply |-> Track(stats.supply, frame.supply)]
=============================================================================
