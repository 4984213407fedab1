----------------------- MODULE TelemetryMetrics_proofs -----------------------
(****************************************************************************)
(* Proofs about TelemetryMetrics, for every set of frames and every length  *)
(* of the stream.                                                           *)
(****************************************************************************)
EXTENDS TelemetryMetrics, Operators_proofs, SequenceTheorems,
        FiniteSetTheorems, TLAPS

\* The optionals have their values exactly when a frame was processed.
OptionalsAgree ==
    IF statistics.frames_processed = 0
    THEN /\ statistics.first_sequence = NoValue
         /\ statistics.missing_sequences = 0
         /\ statistics.duplicate_sequences = 0
         /\ statistics.out_of_order_sequences = 0
         /\ statistics.temperature = EmptyTrack
         /\ statistics.supply = EmptyTrack
    ELSE /\ statistics.first_sequence \in Nat
         /\ statistics.last_sequence \in Nat
         /\ statistics.temperature.minimum \in Int
         /\ statistics.temperature.maximum \in Int
         /\ statistics.supply.minimum \in Int
         /\ statistics.supply.maximum \in Int

-----------------------------------------------------------------------------
(* record_processed keeps the types.                                        *)

\* One step, field by field.
LEMMA ProcessFields ==
    ASSUME NEW frame, statistics' = RecordProcessed(statistics, frame)
    PROVE  /\ statistics'.frames_processed = statistics.frames_processed + 1
           /\ statistics'.first_sequence =
                  IF SequenceKind(statistics, frame.sequence) = "first"
                  THEN frame.sequence ELSE statistics.first_sequence
           /\ statistics'.last_sequence =
                  HighestSequence(statistics, frame.sequence)
           /\ statistics'.missing_sequences =
                  statistics.missing_sequences
                      + Gap(statistics, frame.sequence)
           /\ statistics'.duplicate_sequences =
                  statistics.duplicate_sequences
                      + Count(SequenceKind(statistics, frame.sequence)
                                  = "duplicate")
           /\ statistics'.out_of_order_sequences =
                  statistics.out_of_order_sequences
                      + Count(SequenceKind(statistics, frame.sequence)
                                  = "late")
           /\ statistics'.temperature =
                  Track(statistics.temperature, frame.temperature)
           /\ statistics'.supply = Track(statistics.supply, frame.supply)
BY DEF RecordProcessed

\* The fields of a frame that record_processed adds up are numbers.
LEMMA FrameTyped ==
    ASSUME NEW frame \in Frames
    PROVE  /\ frame.sequence \in Nat
           /\ frame.temperature \in Int
           /\ frame.supply \in Int
BY FramesAssumption

\* The statistics keep their types and the optionals agree.
LEMMA TypedStep ==
    ASSUME TypeOK, OptionalsAgree, NEW frame \in Frames, Process(frame)
    PROVE  TypeOK' /\ OptionalsAgree'
<1>1. statistics' = RecordProcessed(statistics, frame)
  BY DEF Process
<1>2. history' \in Seq(Frames)
  BY DEF Process, TypeOK
<1>3. /\ Gap(statistics, frame.sequence) \in Nat
      /\ HighestSequence(statistics, frame.sequence) \in Nat
      /\ statistics'.first_sequence \in Nat
  <2>1. CASE statistics.frames_processed = 0
    BY <1>1, <2>1, FirstFrame, FrameTyped, ProcessFields DEF OptionalsAgree
  <2>2. CASE statistics.frames_processed # 0
    <3>1. statistics.first_sequence \in Nat /\ statistics.last_sequence \in Nat
             /\ statistics \in Statistics /\ frame.sequence \in Nat
      BY <2>2, FrameTyped DEF OptionalsAgree, TypeOK
    <3>2. SequenceKind(statistics, frame.sequence) # "first"
      BY <3>1, SequencePolicy
    <3>3. QED
      BY <1>1, <3>1, <3>2, SequencePolicy, ProcessFields
  <2>3. QED
    BY <2>1, <2>2
<1>4. /\ Track(statistics.temperature, frame.temperature) \in Tracks
      /\ Track(statistics.temperature, frame.temperature).minimum \in Int
      /\ Track(statistics.temperature, frame.temperature).maximum \in Int
      /\ Track(statistics.supply, frame.supply) \in Tracks
      /\ Track(statistics.supply, frame.supply).minimum \in Int
      /\ Track(statistics.supply, frame.supply).maximum \in Int
  BY TrackTyped, FrameTyped DEF TypeOK, Statistics
<1>5. [flag \in StatusFlags |->
          statistics.warnings[flag] + Count(flag \in frame.flags)]
        \in [StatusFlags -> Nat]
  BY CountTyped DEF TypeOK, Statistics
<1>6. /\ statistics.frames_processed \in Nat
      /\ statistics.missing_sequences \in Nat
      /\ statistics.duplicate_sequences \in Nat
      /\ statistics.out_of_order_sequences \in Nat
  BY DEF TypeOK, Statistics
<1>7. statistics' \in Statistics
  <2>1. (IF SequenceKind(statistics, frame.sequence) = "first"
         THEN frame.sequence ELSE statistics.first_sequence) \in Nat
    BY <1>1, <1>3, ProcessFields
  <2>2. QED
    BY <1>1, <1>3, <1>4, <1>5, <1>6, <2>1, CountTyped
    DEF RecordProcessed, Statistics
<1>8. OptionalsAgree'
  BY <1>1, <1>3, <1>4, <1>6, ProcessFields DEF OptionalsAgree
<1>9. QED
  BY <1>2, <1>7, <1>8 DEF TypeOK

\* Types and optionals are right after every stream.
LEMMA TypedAlways == Spec => [](TypeOK /\ OptionalsAgree)
<1>1. Init => TypeOK /\ OptionalsAgree
  <2> SUFFICES ASSUME Init PROVE TypeOK /\ OptionalsAgree
    OBVIOUS
  <2>1. EmptyTrack \in Tracks
    BY DEF EmptyTrack, Tracks
  <2>2. statistics \in Statistics
    BY <2>1 DEF Init, NoStatistics, Statistics
  <2>3. OptionalsAgree
    BY DEF Init, NoStatistics, OptionalsAgree
  <2>4. QED
    BY <2>2, <2>3 DEF Init, TypeOK
<1>2. TypeOK /\ OptionalsAgree /\ [Next]_vars => (TypeOK /\ OptionalsAgree)'
  <2>1. ASSUME TypeOK, OptionalsAgree, UNCHANGED vars
        PROVE  (TypeOK /\ OptionalsAgree)'
    BY <2>1 DEF vars, TypeOK, OptionalsAgree
  <2>2. QED
    BY <2>1, TypedStep DEF Next
<1>3. QED
  BY <1>1, <1>2, PTL DEF Spec

\* The type invariant of the statistics.
THEOREM TypeCorrect == Spec => []TypeOK
BY TypedAlways, PTL

\* The step of an invariant of the statistics, first frame apart.
LEMMA Policy ==
    ASSUME TypeOK, OptionalsAgree, NEW frame \in Frames, Process(frame)
    PROVE  \/ /\ statistics.frames_processed = 0
              /\ statistics'.first_sequence = frame.sequence
              /\ statistics'.last_sequence = frame.sequence
              /\ statistics'.missing_sequences = 0
              /\ statistics'.duplicate_sequences = 0
              /\ statistics'.out_of_order_sequences = 0
           \/ /\ statistics.frames_processed > 0
              /\ statistics'.first_sequence = statistics.first_sequence
              /\ \/ /\ frame.sequence = statistics.last_sequence
                    /\ statistics'.last_sequence = statistics.last_sequence
                    /\ statistics'.missing_sequences =
                           statistics.missing_sequences
                    /\ statistics'.duplicate_sequences =
                           statistics.duplicate_sequences + 1
                    /\ statistics'.out_of_order_sequences =
                           statistics.out_of_order_sequences
                 \/ /\ frame.sequence > statistics.last_sequence
                    /\ statistics'.last_sequence = frame.sequence
                    /\ statistics'.missing_sequences =
                           statistics.missing_sequences
                             + (frame.sequence - statistics.last_sequence - 1)
                    /\ statistics'.duplicate_sequences =
                           statistics.duplicate_sequences
                    /\ statistics'.out_of_order_sequences =
                           statistics.out_of_order_sequences
                 \/ /\ frame.sequence < statistics.last_sequence
                    /\ statistics'.last_sequence = statistics.last_sequence
                    /\ statistics'.missing_sequences =
                           statistics.missing_sequences
                    /\ statistics'.duplicate_sequences =
                           statistics.duplicate_sequences
                    /\ statistics'.out_of_order_sequences =
                           statistics.out_of_order_sequences + 1
<1>1. statistics' = RecordProcessed(statistics, frame)
  BY DEF Process
<1>2. /\ statistics.frames_processed \in Nat
      /\ statistics.missing_sequences \in Nat
      /\ statistics.duplicate_sequences \in Nat
      /\ statistics.out_of_order_sequences \in Nat
      /\ statistics \in Statistics
      /\ frame.sequence \in Nat
  BY FrameTyped DEF TypeOK, Statistics
<1>3. CASE statistics.frames_processed = 0
  BY <1>1, <1>3, FirstFrame, ProcessFields DEF OptionalsAgree, Count
<1>4. CASE statistics.frames_processed > 0
  <2>1. statistics.first_sequence \in Nat /\ statistics.last_sequence \in Nat
    BY <1>4 DEF OptionalsAgree
  <2>2. CASE SequenceKind(statistics, frame.sequence) = "duplicate"
    BY <1>1, <1>2, <1>4, <2>1, <2>2, SequencePolicy, ProcessFields DEF Count
  <2>3. CASE SequenceKind(statistics, frame.sequence) = "advance"
    BY <1>1, <1>2, <1>4, <2>1, <2>3, SequencePolicy, ProcessFields DEF Count
  <2>4. CASE SequenceKind(statistics, frame.sequence) = "late"
    BY <1>1, <1>2, <1>4, <2>1, <2>4, SequencePolicy, ProcessFields DEF Count
  <2>5. QED
    BY <1>2, <2>1, <2>2, <2>3, <2>4, SequencePolicy
<1>5. QED
  BY <1>2, <1>3, <1>4

\* The ledger of the sequence counters balances after every stream, of any
\* length and in any order of arrival.
THEOREM LedgerBalances == Spec => []SequenceLedger
<1>1. Init => SequenceLedger
  BY DEF Init, NoStatistics, SequenceLedger
<1>2. TypeOK /\ OptionalsAgree /\ SequenceLedger /\ [Next]_vars
        => SequenceLedger'
  <2> SUFFICES ASSUME TypeOK, OptionalsAgree, SequenceLedger, [Next]_vars
               PROVE  SequenceLedger'
    OBVIOUS
  <2>1. CASE UNCHANGED vars
    BY <2>1 DEF vars, SequenceLedger
  <2>2. ASSUME NEW frame \in Frames, Process(frame)
        PROVE  SequenceLedger'
    <3>1. statistics'.frames_processed = statistics.frames_processed + 1
      BY <2>2, ProcessFields DEF Process
    <3>2. /\ statistics.frames_processed \in Nat
          /\ statistics.missing_sequences \in Nat
          /\ statistics.duplicate_sequences \in Nat
          /\ statistics.out_of_order_sequences \in Nat
          /\ frame.sequence \in Nat
      BY FrameTyped DEF TypeOK, Statistics
    <3>3. statistics.frames_processed > 0 =>
             statistics.first_sequence \in Nat /\ statistics.last_sequence \in Nat
      BY DEF OptionalsAgree
    <3>4. CASE statistics.frames_processed = 0
      <4>1. /\ statistics'.first_sequence = frame.sequence
            /\ statistics'.last_sequence = frame.sequence
            /\ statistics'.missing_sequences = 0
            /\ statistics'.duplicate_sequences = 0
            /\ statistics'.out_of_order_sequences = 0
        BY <2>2, <3>2, <3>4, Policy
      <4>2. QED
        BY <3>1, <3>2, <3>4, <4>1 DEF SequenceLedger
    <3>5. CASE statistics.frames_processed > 0
      <4>1. statistics'.first_sequence = statistics.first_sequence
        BY <2>2, <3>2, <3>5, Policy
      <4>2. CASE frame.sequence = statistics.last_sequence
        BY <2>2, <3>1, <3>2, <3>3, <3>5, <4>1, <4>2, Policy DEF SequenceLedger
      <4>3. CASE frame.sequence > statistics.last_sequence
        BY <2>2, <3>1, <3>2, <3>3, <3>5, <4>1, <4>3, Policy DEF SequenceLedger
      <4>4. CASE frame.sequence < statistics.last_sequence
        BY <2>2, <3>1, <3>2, <3>3, <3>5, <4>1, <4>4, Policy DEF SequenceLedger
      <4>5. QED
        BY <3>2, <3>3, <3>5, <4>2, <4>3, <4>4
    <3>6. QED
      BY <3>2, <3>4, <3>5
  <2>3. QED
    BY <2>1, <2>2 DEF Next
<1>3. QED
  BY <1>1, <1>2, TypedAlways, PTL DEF Spec

-----------------------------------------------------------------------------
(* The range of sequences, and what is missing from it.                     *)

\* The inductive form of RangeIsExact: the last sequence was seen and none
\* is above it.
Ranged ==
    /\ statistics.frames_processed = Len(history)
    /\ history # <<>> =>
           /\ statistics.first_sequence = history[1].sequence
           /\ statistics.first_sequence \in SequencesSeen
           /\ statistics.last_sequence \in SequencesSeen
           /\ \A sequence \in SequencesSeen :
                  sequence <= statistics.last_sequence

\* A processed frame adds its sequence to those seen.
LEMMA SeenGrows ==
    ASSUME TypeOK, NEW frame \in Frames, Process(frame)
    PROVE  /\ SequencesSeen' = SequencesSeen \cup {frame.sequence}
           /\ SequencesSeen \subseteq Nat /\ frame.sequence \in Nat
           /\ Len(history) \in Nat /\ Len(history') = Len(history) + 1
           /\ history'[1].sequence =
                  IF history = <<>> THEN frame.sequence
                  ELSE history[1].sequence
           /\ history = <<>> <=> Len(history) = 0
           /\ history' # <<>>
<1> DEFINE n == Len(history)
<1>1. /\ history \in Seq(Frames) /\ n \in Nat
      /\ DOMAIN history = 1..n
      /\ \A k \in 1..n : history[k] \in Frames
  BY ElementOfSeq DEF TypeOK
<1>2. /\ history' = Append(history, frame)
      /\ history' \in Seq(Frames) /\ Len(history') = n + 1
      /\ DOMAIN history' = 1..(n + 1)
      /\ \A k \in 1..n : history'[k] = history[k]
      /\ history'[n + 1] = frame
      /\ history' # <<>>
  BY <1>1, AppendProperties, LenProperties DEF Process
<1>3. history = <<>> <=> n = 0
  BY <1>1
<1> HIDE DEF n
<1>4. \A k \in 1..(n + 1) : k \in 1..n \/ k = n + 1
  BY <1>1
<1>5. SequencesSeen' = SequencesSeen \cup {frame.sequence}
  <2>1. SequencesSeen = {history[k].sequence : k \in 1..n}
    BY <1>1 DEF SequencesSeen
  <2>2. SequencesSeen' = {history'[k].sequence : k \in 1..(n + 1)}
    BY <1>2 DEF SequencesSeen
  <2>3. 1..n \subseteq 1..(n + 1) /\ n + 1 \in 1..(n + 1)
    BY <1>1
  <2> QED BY <1>2, <1>4, <2>1, <2>2, <2>3
<1>6. SequencesSeen \subseteq Nat
  BY <1>1, FrameTyped DEF SequencesSeen
<1>7. history'[1].sequence =
          IF history = <<>> THEN frame.sequence ELSE history[1].sequence
  BY <1>1, <1>2, <1>3
<1> QED BY <1>1, <1>2, <1>3, <1>5, <1>6, <1>7, FrameTyped DEF n

\* Each frame moves the ends of the range as the policy says.
LEMMA RangedStep ==
    ASSUME TypeOK, OptionalsAgree, Ranged, NEW frame \in Frames,
           Process(frame)
    PROVE  Ranged'
<1>1. statistics'.frames_processed = statistics.frames_processed + 1
  BY ProcessFields DEF Process
<1>2. CASE statistics.frames_processed = 0
  <2>1. /\ statistics'.first_sequence = frame.sequence
        /\ statistics'.last_sequence = frame.sequence
    BY <1>2, Policy
  <2>2. history = <<>> /\ SequencesSeen = {}
    BY <1>2, SeenGrows DEF Ranged, SequencesSeen
  <2> QED BY <1>1, <1>2, <2>1, <2>2, SeenGrows DEF Ranged
<1>3. CASE statistics.frames_processed > 0
  <2>1. /\ history # <<>> /\ statistics.last_sequence \in Nat
        /\ statistics'.first_sequence = statistics.first_sequence
        /\ statistics'.last_sequence =
               IF frame.sequence > statistics.last_sequence
               THEN frame.sequence ELSE statistics.last_sequence
    BY <1>3, SeenGrows, Policy DEF Ranged, OptionalsAgree
  <2> QED BY <1>1, <2>1, SeenGrows DEF Ranged
<1> QED BY <1>2, <1>3, SeenGrows DEF Ranged

\* The range is right after every stream.
LEMMA RangedAlways == Spec => []Ranged
<1>1. Init => Ranged
  BY DEF Init, NoStatistics, Ranged
<1>2. TypeOK /\ OptionalsAgree /\ Ranged /\ [Next]_vars => Ranged'
  <2>1. ASSUME Ranged, UNCHANGED vars PROVE Ranged'
    BY <2>1 DEF vars, Ranged, SequencesSeen
  <2> QED BY <2>1, RangedStep DEF Next
<1> QED BY <1>1, <1>2, TypedAlways, PTL DEF Spec

\* first_sequence is the first frame's and last_sequence the highest of all,
\* after streams of any length and in any order of arrival.
THEOREM RangeExact == Spec => []RangeIsExact
<1>1. TypeOK /\ OptionalsAgree /\ Ranged => RangeIsExact
  <2> SUFFICES ASSUME TypeOK, OptionalsAgree, Ranged, history # <<>>
               PROVE  statistics.last_sequence = Max(SequencesSeen)
    BY DEF Ranged, RangeIsExact
  <2> DEFINE last == statistics.last_sequence
  <2>1. SequencesSeen \subseteq Nat
    BY FrameTyped, ElementOfSeq DEF SequencesSeen, TypeOK
  <2>2. last \in SequencesSeen /\ \A y \in SequencesSeen : last >= y
    BY <2>1 DEF Ranged
  <2>3. \A x \in SequencesSeen :
            (\A y \in SequencesSeen : x >= y) => x = last
    <3> SUFFICES ASSUME NEW x \in SequencesSeen, x >= last PROVE x = last
      BY <2>2
    <3>1. x \in Nat /\ last \in Nat /\ last >= x
      BY <2>1, <2>2
    <3> HIDE DEF last
    <3> QED BY <3>1
  <2> HIDE DEF last
  <2>4. Max(SequencesSeen) \in SequencesSeen
            /\ \A y \in SequencesSeen : Max(SequencesSeen) >= y
    BY <2>2 DEF Max
  <2> QED BY <2>3, <2>4 DEF last
<1> QED BY <1>1, TypedAlways, RangedAlways, PTL

\* The counts of an interval and of a set below it add up.
LEMMA SetAboveInterval ==
    ASSUME NEW S, NEW first \in Nat, NEW last \in Nat, NEW new \in Nat,
           S \subseteq first..last, last < new
    PROVE  /\ IsFiniteSet(S) /\ Cardinality(S) \in Nat
           /\ Cardinality(S \cup ((last + 1)..(new - 1))) =
                  Cardinality(S) + (new - last - 1)
<1> DEFINE gap == (last + 1)..(new - 1)
<1>1. IsFiniteSet(S)
  <2>1. S \in SUBSET (first..last) /\ IsFiniteSet(first..last)
    BY FS_Interval
  <2> QED BY <2>1, FS_Subset
<1>2. IsFiniteSet(gap) /\ Cardinality(gap) = new - last - 1
  BY FS_Interval
<1>3. S \cap gap = {}
  OBVIOUS
<1> HIDE DEF gap
<1>4. Cardinality(S \cup gap) =
          Cardinality(S) + Cardinality(gap) - Cardinality(S \cap gap)
  BY <1>1, <1>2, FS_Union
<1>5. Cardinality(S \cap gap) = 0 /\ Cardinality(S) \in Nat
  BY <1>1, <1>3, FS_EmptySet, FS_CardinalityType
<1> QED BY <1>1, <1>2, <1>4, <1>5 DEF gap

\* What a frame does to the set of the sequences that never arrived.
LEMMA NeverSeenStep ==
    ASSUME TypeOK, OptionalsAgree, Ranged, NEW frame \in Frames,
           Process(frame), statistics.frames_processed > 0
    PROVE  LET first == statistics.first_sequence
               last == statistics.last_sequence
           IN  /\ first \in Nat /\ last \in Nat
               /\ NeverSeen \subseteq first..last
               /\ frame.sequence = last => NeverSeen' = NeverSeen
               /\ frame.sequence > last =>
                      NeverSeen' =
                          NeverSeen \cup ((last + 1)..(frame.sequence - 1))
               /\ frame.sequence < last =>
                      NeverSeen' = NeverSeen \ {frame.sequence}
<1> DEFINE first == statistics.first_sequence
           last == statistics.last_sequence
           new == frame.sequence
<1>1. /\ first \in Nat /\ last \in Nat /\ new \in Nat
      /\ history # <<>> /\ history' # <<>>
      /\ SequencesSeen \subseteq Nat
      /\ SequencesSeen' = SequencesSeen \cup {new}
  BY SeenGrows DEF OptionalsAgree, Ranged
<1>2. /\ first \in SequencesSeen /\ last \in SequencesSeen
      /\ \A y \in SequencesSeen : y <= last
  BY <1>1 DEF Ranged
<1>3. /\ NeverSeen = (first..last) \ SequencesSeen
      /\ NeverSeen' =
             (first..(IF new > last THEN new ELSE last)) \ SequencesSeen'
  <2>1. /\ statistics'.first_sequence = first
        /\ statistics'.last_sequence = IF new > last THEN new ELSE last
    BY <1>1, Policy
  <2> QED BY <1>1, <2>1 DEF NeverSeen
<1> HIDE DEF first, last, new
<1>4. new = last => NeverSeen' = NeverSeen
  BY <1>1, <1>2, <1>3
<1>5. new > last => NeverSeen' = NeverSeen \cup ((last + 1)..(new - 1))
  BY <1>1, <1>2, <1>3
<1>6. new < last => NeverSeen' = NeverSeen \ {new}
  BY <1>1, <1>2, <1>3
<1>7. NeverSeen \subseteq first..last
  BY <1>3
<1> QED BY <1>1, <1>4, <1>5, <1>6, <1>7 DEF first, last, new

\* missing_sequences never under-reports what is absent from the range, and
\* over-reports by the late frames at most, after streams of any length.
THEOREM MissingBounded == Spec => []MissingIsBounded
<1>1. Init => MissingIsBounded
  BY FS_EmptySet DEF Init, NoStatistics, NeverSeen, MissingIsBounded
<1>2. ASSUME TypeOK, OptionalsAgree, Ranged, MissingIsBounded,
             NEW frame \in Frames, Process(frame)
      PROVE  MissingIsBounded'
  <2>1. /\ statistics.frames_processed \in Nat
        /\ statistics.missing_sequences \in Nat
        /\ statistics.out_of_order_sequences \in Nat
        /\ frame.sequence \in Nat
    BY <1>2, FrameTyped DEF TypeOK, Statistics
  <2>2. CASE statistics.frames_processed = 0
    <3>1. /\ statistics'.first_sequence = frame.sequence
          /\ statistics'.last_sequence = frame.sequence
          /\ statistics'.missing_sequences = 0
          /\ statistics'.out_of_order_sequences = 0
      BY <1>2, <2>2, Policy
    <3>2. SequencesSeen' = {frame.sequence} /\ history' # <<>>
      BY <1>2, <2>2, SeenGrows DEF Ranged, SequencesSeen
    <3>3. NeverSeen' = {}
      BY <2>1, <3>1, <3>2 DEF NeverSeen
    <3> QED BY <3>1, <3>3, FS_EmptySet DEF MissingIsBounded
  <2>3. CASE statistics.frames_processed > 0
    <3> DEFINE first == statistics.first_sequence
               last == statistics.last_sequence
    <3>1. first \in Nat /\ last \in Nat /\ NeverSeen \subseteq first..last
      BY <1>2, <2>3, NeverSeenStep
    <3>2. IsFiniteSet(NeverSeen) /\ Cardinality(NeverSeen) \in Nat
      <4>1. NeverSeen \in SUBSET (first..last) /\ IsFiniteSet(first..last)
        <5>1. first \in Int /\ last \in Int
          BY <3>1
        <5> HIDE DEF first, last
        <5> QED BY <3>1, <5>1, FS_Interval
      <4>2. IsFiniteSet(NeverSeen)
        BY <4>1, FS_Subset
      <4> QED BY <4>2, FS_CardinalityType
    <3>3. CASE frame.sequence = last
      <4>1. NeverSeen' = NeverSeen
        BY <1>2, <2>3, <3>3, NeverSeenStep
      <4>2. /\ statistics'.missing_sequences = statistics.missing_sequences
            /\ statistics'.out_of_order_sequences =
                   statistics.out_of_order_sequences
        BY <1>2, <2>1, <2>3, <3>1, <3>3, Policy
      <4> QED BY <1>2, <4>1, <4>2 DEF MissingIsBounded
    <3>4. CASE frame.sequence > last
      <4>1. NeverSeen' = NeverSeen \cup ((last + 1)..(frame.sequence - 1))
        BY <1>2, <2>3, <3>4, NeverSeenStep
      <4>2. Cardinality(NeverSeen') =
                Cardinality(NeverSeen) + (frame.sequence - last - 1)
        <5>1. frame.sequence \in Nat /\ last < frame.sequence
          BY <2>1, <3>1, <3>4
        <5> HIDE DEF first, last
        <5> QED BY <3>1, <4>1, <5>1, SetAboveInterval
      <4>3. /\ statistics'.missing_sequences =
                   statistics.missing_sequences
                       + (frame.sequence - last - 1)
            /\ statistics'.out_of_order_sequences =
                   statistics.out_of_order_sequences
        BY <1>2, <2>1, <2>3, <3>1, <3>4, Policy
      <4> QED
        BY <1>2, <2>1, <3>1, <3>2, <4>2, <4>3 DEF MissingIsBounded
    <3>5. CASE frame.sequence < last
      <4>1. NeverSeen' = NeverSeen \ {frame.sequence}
        BY <1>2, <2>3, <3>5, NeverSeenStep
      <4>2. \/ Cardinality(NeverSeen') = Cardinality(NeverSeen)
            \/ Cardinality(NeverSeen') = Cardinality(NeverSeen) - 1
        BY <3>2, <4>1, FS_RemoveElement
      <4>3. /\ statistics'.missing_sequences = statistics.missing_sequences
            /\ statistics'.out_of_order_sequences =
                   statistics.out_of_order_sequences + 1
        BY <1>2, <2>1, <2>3, <3>1, <3>5, Policy
      <4> QED
        BY <1>2, <2>1, <3>2, <4>2, <4>3 DEF MissingIsBounded
    <3> QED BY <2>1, <3>1, <3>3, <3>4, <3>5
  <2> QED BY <2>1, <2>2, <2>3
<1>3. TypeOK /\ OptionalsAgree /\ Ranged /\ MissingIsBounded /\ [Next]_vars
        => MissingIsBounded'
  <2>1. ASSUME MissingIsBounded, UNCHANGED vars PROVE MissingIsBounded'
    BY <2>1 DEF vars, MissingIsBounded, NeverSeen, SequencesSeen
  <2> QED BY <1>2, <2>1 DEF Next
<1> QED BY <1>1, <1>3, TypedAlways, RangedAlways, PTL DEF Spec

-----------------------------------------------------------------------------
(* The measurements are those of the whole history.                         *)

\* The sum of a sequence, one value at a time.
LEMMA SumAppends ==
    ASSUME NEW values \in Seq(Int), NEW value \in Int
    PROVE  SumOf(Append(values, value)) = SumOf(values) + value
<1> DEFINE n == Len(values)
           more == Append(values, value)
           add(list) == [k \in DOMAIN list |-> [sum \in Int |-> sum + list[k]]]
<1>1. /\ n \in Nat /\ DOMAIN values = 1..n /\ DOMAIN more = 1..(n + 1)
      /\ Len(more) = n + 1 /\ more[n + 1] = value
      /\ \A k \in 1..n : values[k] \in Int /\ more[k] = values[k]
  BY AppendProperties, LenProperties, ElementOfSeq
<1> HIDE DEF n, more
<1>2. /\ StaysIn(Int, add(values), 0, n)
      /\ \A k \in 1..n : \A sum \in Int :
             add(more)[k][sum] = add(values)[k][sum]
  BY <1>1 DEF StaysIn
<1>3. StaysIn(Int, add(more), 0, n + 1)
  BY <1>1 DEF StaysIn
<1>4. add(more)[n + 1] = [sum \in Int |-> sum + value]
  BY <1>1
<1>5. SumOf(values) = Iterate(add(values), 0, n)
  BY DEF SumOf, n
<1>6. SumOf(more) = Iterate(add(more), 0, n + 1)
  BY <1>1 DEF SumOf
<1> HIDE DEF add
<1>7. Iterate(add(more), 0, n) = Iterate(add(values), 0, n)
  BY <1>1, <1>2, IterateAgrees
<1>8. /\ Iterate(add(more), 0, n + 1) = add(more)[n + 1][Iterate(add(more), 0, n)]
      /\ Iterate(add(more), 0, n) \in Int
  <2>1. n + 1 \in Nat /\ n + 1 \in 1..(n + 1) /\ n \in 0..(n + 1)
            /\ (n + 1) - 1 = n
    BY <1>1
  <2>2. /\ \A k \in 1..(n + 1) : Iterate(add(more), 0, k) =
                                     add(more)[k][Iterate(add(more), 0, k - 1)]
        /\ \A k \in 0..(n + 1) : Iterate(add(more), 0, k) \in Int
    BY <1>3, <2>1, IterateTurns
  <2> QED BY <2>1, <2>2
<1>9. SumOf(more) = SumOf(values) + value
  BY <1>4, <1>5, <1>6, <1>7, <1>8
<1> QED BY <1>9 DEF more

\* The sum of no values.
LEMMA SumOfNothing == SumOf(<<>>) = 0
<1> DEFINE add == [k \in DOMAIN <<>> |-> [sum \in Int |-> sum + <<>>[k]]]
<1>1. StaysIn(Int, add, 0, 0)
  BY DEF StaysIn
<1>2. Iterate(add, 0, 0) = 0
  <2> HIDE DEF add
  <2> QED BY <1>1, IterateTurns
<1> QED BY <1>2 DEF SumOf

\* The inductive form of TrackIs: each extreme is one of the values, and a
\* bound of them all.
Measured(track, values) ==
    /\ track.sum = SumOf(values)
    /\ IF values = <<>>
       THEN track.minimum = NoValue /\ track.maximum = NoValue
       ELSE LET all == {values[k] : k \in DOMAIN values}
            IN  /\ track.minimum \in all /\ track.maximum \in all
                /\ \A v \in all : track.minimum <= v /\ v <= track.maximum

\* What the extremes of a set are.
LEMMA ExtremesAre ==
    ASSUME NEW all \in SUBSET Int, NEW low \in all, NEW high \in all,
           \A v \in all : low <= v /\ v <= high
    PROVE  low = Min(all) /\ high = Max(all)
<1>1. /\ \A x \in all : (\A y \in all : x <= y) => x = low
      /\ \A x \in all : (\A y \in all : x >= y) => x = high
  OBVIOUS
<1>2. /\ Min(all) \in all /\ \A y \in all : Min(all) <= y
      /\ Max(all) \in all /\ \A y \in all : Max(all) >= y
  BY DEF Min, Max
<1> QED BY <1>1, <1>2

\* So it says as much.
LEMMA MeasuredIs ==
    ASSUME NEW track, NEW values \in Seq(Int), Measured(track, values)
    PROVE  TrackIs(track, values)
<1>1. CASE values = <<>>
  BY <1>1 DEF Measured, TrackIs
<1>2. CASE values # <<>>
  <2> DEFINE all == {values[k] : k \in DOMAIN values}
  <2>1. all \in SUBSET Int
    BY ElementOfSeq, LenProperties
  <2>2. /\ track.minimum \in all /\ track.maximum \in all
        /\ \A v \in all : track.minimum <= v /\ v <= track.maximum
    BY <1>2 DEF Measured
  <2> HIDE DEF all
  <2>3. track.minimum = Min(all) /\ track.maximum = Max(all)
    BY <2>1, <2>2, ExtremesAre
  <2> QED BY <1>2, <2>3 DEF Measured, TrackIs, all
<1> QED BY <1>1, <1>2

\* The extremes and the sum of a sequence follow one value more.
LEMMA MeasuredAppends ==
    ASSUME NEW track \in Tracks, NEW values \in Seq(Int), NEW value \in Int,
           Measured(track, values)
    PROVE  Measured(Track(track, value), Append(values, value))
<1> DEFINE n == Len(values)
           more == Append(values, value)
           next == Track(track, value)
           before == {values[k] : k \in DOMAIN values}
           after == {more[k] : k \in DOMAIN more}
<1>1. /\ n \in Nat /\ DOMAIN values = 1..n /\ DOMAIN more = 1..(n + 1)
      /\ \A k \in 1..n : more[k] = values[k] /\ values[k] \in Int
      /\ more[n + 1] = value /\ more # <<>>
  BY AppendProperties, LenProperties, ElementOfSeq
<1>2. next.sum = SumOf(more)
  BY SumAppends DEF Measured, Track
<1> HIDE DEF n, more
<1>3. after = before \cup {value}
  <2>1. \A k \in 1..(n + 1) : k \in 1..n \/ k = n + 1
    BY <1>1
  <2> QED BY <1>1, <2>1
<1>4. before \in SUBSET Int
  BY <1>1
<1>5. ASSUME values = <<>> PROVE Measured(next, more)
  <2>1. track.minimum = NoValue /\ track.maximum = NoValue
    BY <1>5 DEF Measured
  <2>2. next.minimum = value /\ next.maximum = value
    BY <2>1 DEF Track
  <2>3. before = {}
    BY <1>5
  <2>4. after = {value}
    BY <1>3, <2>3
  <2> HIDE DEF next, after
  <2>5. /\ next.minimum \in after /\ next.maximum \in after
        /\ \A v \in after : next.minimum <= v /\ v <= next.maximum
    BY <2>2, <2>4
  <2> QED BY <1>1, <1>2, <2>5 DEF Measured, after
<1>6. ASSUME values # <<>> PROVE Measured(next, more)
  <2> DEFINE low == track.minimum
             high == track.maximum
  <2>1. /\ low \in before /\ high \in before
        /\ \A v \in before : low <= v /\ v <= high
    BY <1>6 DEF Measured
  <2>2. low # NoValue /\ high # NoValue /\ low \in Int /\ high \in Int
    BY <1>4, <2>1, NoValueAssumption
  <2>3. /\ next.minimum = IF value < low THEN value ELSE low
        /\ next.maximum = IF value > high THEN value ELSE high
    BY <2>2 DEF Track
  <2> HIDE DEF next, after, before, low, high
  <2>4. /\ next.minimum \in after /\ next.maximum \in after
        /\ \A v \in after : next.minimum <= v /\ v <= next.maximum
    BY <1>3, <1>4, <2>1, <2>2, <2>3
  <2> QED BY <1>1, <1>2, <2>4 DEF Measured, after
<1> HIDE DEF next
<1> QED BY <1>5, <1>6 DEF more, next

\* The measurements of the history follow the frame processed.
LEMMA MeasurementsAppend ==
    ASSUME TypeOK, NEW frame \in Frames, Process(frame)
    PROVE  /\ Temperatures \in Seq(Int) /\ Supplies \in Seq(Int)
           /\ Temperatures' = Append(Temperatures, frame.temperature)
           /\ Supplies' = Append(Supplies, frame.supply)
<1> DEFINE n == Len(history)
<1>1. /\ history \in Seq(Frames) /\ n \in Nat /\ DOMAIN history = 1..n
      /\ DOMAIN history' = 1..(n + 1)
      /\ \A k \in 1..n : history'[k] = history[k] /\ history[k] \in Frames
      /\ history'[n + 1] = frame
  BY AppendProperties, LenProperties, ElementOfSeq DEF TypeOK, Process
<1>2. /\ \A k \in 1..n : /\ history[k].temperature \in Int
                         /\ history[k].supply \in Int
      /\ frame.temperature \in Int /\ frame.supply \in Int
  BY <1>1, FrameTyped
<1> HIDE DEF n
<1>3. /\ Temperatures = [k \in 1..n |-> history[k].temperature]
      /\ Supplies = [k \in 1..n |-> history[k].supply]
      /\ Temperatures' = [k \in 1..(n + 1) |-> history'[k].temperature]
      /\ Supplies' = [k \in 1..(n + 1) |-> history'[k].supply]
  BY <1>1 DEF Temperatures, Supplies
<1>4. ASSUME NEW s \in [1..n -> Int], NEW t \in [1..(n + 1) -> Int],
             \A k \in 1..n : t[k] = s[k]
      PROVE  s \in Seq(Int) /\ t = Append(s, t[n + 1])
  <2>1. s \in Seq(Int) /\ Len(s) = n
    BY <1>1
  <2>2. t \in Seq(Int) /\ Len(t) = n + 1
    BY <1>1
  <2>3. /\ Append(s, t[n + 1]) \in Seq(Int)
        /\ Len(Append(s, t[n + 1])) = n + 1
        /\ \A k \in 1..(n + 1) : Append(s, t[n + 1])[k] = t[k]
    BY <1>1, <1>4, <2>1, AppendProperties
  <2> QED BY <2>1, <2>2, <2>3, SeqEqual
<1>5. /\ Temperatures \in [1..n -> Int] /\ Supplies \in [1..n -> Int]
      /\ Temperatures' \in [1..(n + 1) -> Int]
      /\ Supplies' \in [1..(n + 1) -> Int]
      /\ \A k \in 1..n : /\ Temperatures'[k] = Temperatures[k]
                         /\ Supplies'[k] = Supplies[k]
      /\ Temperatures'[n + 1] = frame.temperature
      /\ Supplies'[n + 1] = frame.supply
  <2>1. \A k \in 1..(n + 1) : k \in 1..n \/ k = n + 1
    BY <1>1
  <2>2. n + 1 \in 1..(n + 1) /\ 1..n \subseteq 1..(n + 1)
    BY <1>1
  <2> QED BY <1>1, <1>2, <1>3, <2>1, <2>2
<1> QED BY <1>4, <1>5

\* The frames whose flag is up, when one frame more is processed.
LEMMA WarningsCounted ==
    ASSUME TypeOK, NEW frame \in Frames, Process(frame), NEW flag
    PROVE  Cardinality({k \in DOMAIN history : flag \in history[k].flags})' =
               Cardinality({k \in DOMAIN history : flag \in history[k].flags})
                   + Count(flag \in frame.flags)
<1> DEFINE n == Len(history)
           raised == {k \in DOMAIN history : flag \in history[k].flags}
<1>1. /\ history \in Seq(Frames) /\ n \in Nat /\ DOMAIN history = 1..n
      /\ DOMAIN history' = 1..(n + 1)
      /\ \A k \in 1..n : history'[k] = history[k]
      /\ history'[n + 1] = frame
  BY AppendProperties, LenProperties DEF TypeOK, Process
<1>2. raised' = IF flag \in frame.flags THEN raised \cup {n + 1} ELSE raised
  <2> HIDE DEF n
  <2>1. \A k \in 1..(n + 1) : k \in 1..n \/ k = n + 1
    BY <1>1
  <2> QED BY <1>1, <2>1
<1>3. /\ IsFiniteSet(raised) /\ n + 1 \notin raised
      /\ Cardinality(raised) \in Nat
  <2>1. raised \subseteq 1..n
    BY <1>1
  <2>2. IsFiniteSet(1..n)
    BY <1>1, FS_Interval
  <2> HIDE DEF raised, n
  <2>3. n + 1 \notin 1..n
    BY <1>1
  <2> QED BY <2>1, <2>2, <2>3, FS_Subset, FS_CardinalityType
<1>4. Cardinality(raised \cup {n + 1}) = Cardinality(raised) + 1
  <2> HIDE DEF raised
  <2> QED BY <1>3, FS_AddElement
<1> HIDE DEF raised
<1>5. Cardinality(raised') = Cardinality(raised) + Count(flag \in frame.flags)
  BY <1>2, <1>3, <1>4 DEF Count
<1> QED BY <1>5 DEF raised

\* Extremes, sums and warnings after any stream.
MeasuredAlways ==
    /\ Measured(statistics.temperature, Temperatures)
    /\ Measured(statistics.supply, Supplies)
    /\ \A flag \in StatusFlags :
           statistics.warnings[flag] =
               Cardinality({k \in DOMAIN history : flag \in history[k].flags})

\* Extremes, sums and warnings are those of the whole history, after streams
\* of any length: record_processed, which sees one frame at a time, forgets
\* nothing it needs.
THEOREM MeasurementsExact == Spec => []MeasurementsAreExact
<1>1. Init => MeasuredAlways
  <2> SUFFICES ASSUME Init PROVE MeasuredAlways
    OBVIOUS
  <2>1. /\ Temperatures = <<>> /\ Supplies = <<>>
        /\ statistics.temperature = EmptyTrack
        /\ statistics.supply = EmptyTrack
        /\ \A flag \in StatusFlags : statistics.warnings[flag] = 0
    BY DEF Init, NoStatistics, Temperatures, Supplies
  <2>2. Measured(EmptyTrack, <<>>)
    BY SumOfNothing DEF Measured, EmptyTrack
  <2>3. \A flag : {k \in DOMAIN history : flag \in history[k].flags} = {}
    BY DEF Init
  <2> QED BY <2>1, <2>2, <2>3, FS_EmptySet DEF MeasuredAlways
<1>2. ASSUME TypeOK, MeasuredAlways, NEW frame \in Frames, Process(frame)
      PROVE  MeasuredAlways'
  <2>1. /\ statistics' = RecordProcessed(statistics, frame)
        /\ frame.temperature \in Int /\ frame.supply \in Int
    BY <1>2, FrameTyped DEF Process
  <2>2. /\ Temperatures' = Append(Temperatures, frame.temperature)
        /\ Supplies' = Append(Supplies, frame.supply)
        /\ Temperatures \in Seq(Int) /\ Supplies \in Seq(Int)
    BY <1>2, MeasurementsAppend
  <2>3. /\ statistics'.temperature =
               Track(statistics.temperature, frame.temperature)
        /\ statistics'.supply = Track(statistics.supply, frame.supply)
    BY <2>1, ProcessFields
  <2>4. statistics.temperature \in Tracks /\ statistics.supply \in Tracks
    BY <1>2 DEF TypeOK, Statistics
  <2>5. /\ Measured(statistics'.temperature, Temperatures')
        /\ Measured(statistics'.supply, Supplies')
    BY <1>2, <2>1, <2>2, <2>3, <2>4, MeasuredAppends DEF MeasuredAlways
  <2>6. ASSUME NEW flag \in StatusFlags
        PROVE  statistics'.warnings[flag] =
                   statistics.warnings[flag] + Count(flag \in frame.flags)
    BY <2>1, <2>6 DEF RecordProcessed
  <2>7. ASSUME NEW flag \in StatusFlags
        PROVE  statistics'.warnings[flag] =
                   Cardinality({k \in DOMAIN history' :
                                    flag \in history'[k].flags})
    BY <1>2, <2>6, WarningsCounted DEF MeasuredAlways
  <2>8. /\ Measured(statistics.temperature, Temperatures)'
        /\ Measured(statistics.supply, Supplies)'
    BY <2>5
  <2> QED BY <2>7, <2>8 DEF MeasuredAlways
<1>3. ASSUME MeasuredAlways, UNCHANGED vars PROVE MeasuredAlways'
  BY <1>3 DEF vars, MeasuredAlways, Measured, Temperatures, Supplies
<1>4. TypeOK /\ MeasuredAlways /\ [Next]_vars => MeasuredAlways'
  BY <1>2, <1>3 DEF Next
<1>5. TypeOK /\ MeasuredAlways => MeasurementsAreExact
  <2>1. ASSUME TypeOK
        PROVE  Temperatures \in Seq(Int) /\ Supplies \in Seq(Int)
    <3>1. /\ Len(history) \in Nat /\ DOMAIN history = 1..Len(history)
          /\ \A k \in DOMAIN history : history[k] \in Frames
      BY <2>1, ElementOfSeq, LenProperties DEF TypeOK
    <3>2. /\ Temperatures \in [1..Len(history) -> Int]
          /\ Supplies \in [1..Len(history) -> Int]
      BY <3>1, FrameTyped DEF Temperatures, Supplies
    <3> QED BY <3>1, <3>2
  <2> QED BY <2>1, MeasuredIs DEF MeasuredAlways, MeasurementsAreExact
<1> QED BY <1>1, <1>4, <1>5, TypeCorrect, PTL DEF Spec
=============================================================================
