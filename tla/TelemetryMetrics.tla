-------------------------- MODULE TelemetryMetrics --------------------------
(****************************************************************************)
(* The statistics of the host over any stream of frames: the state machine  *)
(* whose one operation is record_processed.  The history of processed       *)
(* frames is not in the code; the properties compare the statistics, which  *)
(* see one frame at a time, with what the whole history says.               *)
(****************************************************************************)
EXTENDS TelemetryStatistics, Iteration, Sequences, FiniteSets,
        FiniteSetsExt

CONSTANT
    Frames,     \* the frames a source may send
    MaxFrames   \* bound on the length of a stream

ASSUME FramesAssumption ==
    \A frame \in Frames :
        /\ frame.sequence \in Nat
        /\ frame.flags \subseteq StatusFlags
        /\ frame.temperature \in Int
        /\ frame.supply \in Nat
ASSUME MaxFramesAssumption == MaxFrames \in Nat

VARIABLES
    statistics,  \* the plain fields of TelemetryMetrics
    history      \* the frames processed so far (auxiliary)

vars == <<statistics, history>>

Init ==
    /\ statistics = NoStatistics
    /\ history = <<>>

\* TelemetryProcessor::process calls record_processed and nothing else.
Process(frame) ==
    /\ Len(history) < MaxFrames
    /\ statistics' = RecordProcessed(statistics, frame)
    /\ history' = Append(history, frame)

Next == \E frame \in Frames : Process(frame)

Spec == Init /\ [][Next]_vars

-----------------------------------------------------------------------------
(* What the history says.                                                   *)

SequencesSeen == {history[k].sequence : k \in DOMAIN history}

\* The sequences of the announced range that never arrived.
NeverSeen ==
    IF history = <<>>
    THEN {}
    ELSE (statistics.first_sequence .. statistics.last_sequence)
             \ SequencesSeen

Temperatures == [k \in DOMAIN history |-> history[k].temperature]
Supplies == [k \in DOMAIN history |-> history[k].supply]

SumOf(values) ==
    Iterate([k \in DOMAIN values |-> [sum \in Int |-> sum + values[k]]],
            0, Len(values))

TrackIs(track, values) ==
    /\ track.sum = SumOf(values)
    /\ IF values = <<>>
       THEN track.minimum = NoValue /\ track.maximum = NoValue
       ELSE LET all == {values[k] : k \in DOMAIN values}
            IN  track.minimum = Min(all) /\ track.maximum = Max(all)

-----------------------------------------------------------------------------
(* Properties.                                                              *)

\* Every counter has its type.
TypeOK ==
    /\ statistics \in Statistics
    /\ history \in Seq(Frames)

\* The counters add up: the range from the first to the last sequence is
\* made of the missing sequences and of the frames that were neither
\* duplicates nor late (the policy of record_processed).
SequenceLedger ==
    statistics.frames_processed > 0 =>
        statistics.last_sequence - statistics.first_sequence + 1 =
            statistics.missing_sequences + statistics.frames_processed
                - statistics.duplicate_sequences
                - statistics.out_of_order_sequences

\* missing_sequences never under-reports what is absent, and a late frame
\* that fills a gap is the only way it over-reports.
MissingIsBounded ==
    /\ Cardinality(NeverSeen) <= statistics.missing_sequences
    /\ statistics.missing_sequences <=
           Cardinality(NeverSeen) + statistics.out_of_order_sequences

\* first_sequence is the first frame's and last_sequence the highest of all,
\* whatever the order of arrival.
RangeIsExact ==
    history # <<>> =>
        /\ statistics.first_sequence = history[1].sequence
        /\ statistics.last_sequence = Max(SequencesSeen)

\* Extremes, sums and warnings are those of the whole history.
MeasurementsAreExact ==
    /\ TrackIs(statistics.temperature, Temperatures)
    /\ TrackIs(statistics.supply, Supplies)
    /\ \A flag \in StatusFlags :
           statistics.warnings[flag] =
               Cardinality({k \in DOMAIN history : flag \in history[k].flags})
=============================================================================
