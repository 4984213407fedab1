------------------------ MODULE TelemetryHost_proofs ------------------------
(****************************************************************************)
(* Proofs about TelemetryHost, for every set of input streams, capacity and *)
(* number of exceptions, and with another owner of the buffer or without.   *)
(* main never outlives the consumer, on any path through its two exception  *)
(* handlers, and what it reads after the join is final.  The pipeline from  *)
(* the push to the processor holds the well-formed inputs in order; so the  *)
(* counters agree across the two threads, every execution is one of the     *)
(* abstract stream, and what main reports is what a sequential program      *)
(* would.                                                                   *)
(****************************************************************************)
EXTENDS TelemetryHost, Operators_proofs, SequenceTheorems, FiniteSetTheorems

-----------------------------------------------------------------------------
(* main and the consumer are in step.                                       *)

USE InputStreamsAssumption, CapacityAssumption, MaxFaultsAssumption

\* The inductive form of ConsumerIsJoined: the consumer exists only after
\* main started it, and main is past the join only when it has returned.
Joined ==
    /\ mainPc = "start" => consumerPc = "absent"
    /\ mainPc = "check" => consumerPc = "returned"
    /\ mainPc = "exited" => consumerPc \in {"absent", "returned"}

\* A step of main's thread keeps main and the consumer in step.
LEMMA MainKeepsJoined == ASSUME Joined, Main PROVE Joined'
<1>1. CASE StartConsumer
  BY <1>1 DEF StartConsumer, Joined
<1>2. CASE IngestRejects
  BY <1>2 DEF IngestRejects, Joined, consumerVars
<1>3. CASE IngestParses
  BY <1>3 DEF IngestParses, Joined, consumerVars
<1>4. CASE PushSucceeds
  BY <1>4 DEF PushSucceeds, Joined, consumerVars
<1>5. CASE RecordAccepted
  BY <1>5 DEF RecordAccepted, Joined, consumerVars
<1>6. CASE PushFindsClosed
  BY <1>6 DEF PushFindsClosed, Joined, consumerVars
<1>7. CASE IngestEnds
  BY <1>7 DEF IngestEnds, Joined, consumerVars
<1>8. CASE CloseBuffer
  BY <1>8 DEF CloseBuffer, Joined, consumerVars
<1>9. CASE JoinConsumer
  BY <1>9 DEF JoinConsumer, Joined, consumerVars
<1>10. CASE CheckFails
  BY <1>10 DEF CheckFails, Joined, consumerVars
<1>11. CASE PrintReport
  BY <1>11 DEF PrintReport, Joined, consumerVars
<1>12. CASE UnwindCloses
  BY <1>12 DEF UnwindCloses, Joined, consumerVars
<1>13. CASE UnwindJoins
  BY <1>13 DEF UnwindJoins, Joined, consumerVars
<1>14. CASE DestroyConsumer
  BY <1>14 DEF DestroyConsumer, Joined, consumerVars
<1> QED
  BY <1>1, <1>2, <1>3, <1>4, <1>5, <1>6, <1>7, <1>8, <1>9, <1>10, <1>11,
     <1>12, <1>13, <1>14
  DEF Main

\* A step of the consumer, or a fault, keeps them in step.
LEMMA OthersKeepJoined ==
    ASSUME Joined, Consumer \/ Environment PROVE Joined'
<1>1. CASE ConsumerPops
  BY <1>1 DEF ConsumerPops, Joined, mainVars
<1>2. CASE ConsumerProcesses
  BY <1>2 DEF ConsumerProcesses, Joined, mainVars
<1>3. CASE ConsumerFinishes
  BY <1>3 DEF ConsumerFinishes, Joined, mainVars
<1>4. CASE MainThrows
  BY <1>4 DEF MainThrows, Joined, consumerVars
<1>5. CASE IngestThrows
  BY <1>5 DEF IngestThrows, Joined, consumerVars
<1>6. CASE ConsumerThrows
  BY <1>6 DEF ConsumerThrows, Joined, mainVars
<1>7. CASE BufferClosedEarly
  BY <1>7 DEF BufferClosedEarly, Joined, mainVars, consumerVars
<1>8. CASE CloseOrJoinThrows
  BY <1>8 DEF CloseOrJoinThrows, Joined, consumerVars
<1> QED
  BY <1>1, <1>2, <1>3, <1>4, <1>5, <1>6, <1>7, <1>8 DEF Consumer, Environment

\* main and the consumer are in step in every reachable state.
LEMMA JoinedAlways == Spec => []Joined
<1>1. Init => Joined
  BY DEF Init, Joined
<1>2. Joined /\ [Next]_vars => Joined'
  <2> SUFFICES ASSUME Joined, [Next]_vars PROVE Joined'
    OBVIOUS
  <2>1. CASE Exited \/ UNCHANGED vars
    BY <2>1 DEF Exited, vars, mainVars, consumerVars, Joined
  <2> QED
    BY <2>1, MainKeepsJoined, OthersKeepJoined DEF Next
<1> QED
  BY <1>1, <1>2, PTL DEF Spec

\* main's locals, the buffer and the metrics among them, outlive the
\* consumer that refers to them (main.cpp:24-71): main has exited only when
\* the consumer was never started or has returned.
THEOREM ConsumerJoined == Spec => []ConsumerIsJoined
<1>1. Joined => ConsumerIsJoined
  BY DEF Joined, ConsumerIsJoined
<1> QED
  BY <1>1, JoinedAlways, PTL

\* The counters and the plain fields main reads without synchronisation
\* after the join (main.cpp:55) never change again.
THEOREM SnapshotFinal == Spec => SnapshotIsFinal
<1> DEFINE Past == mainPc \in {"check", "exited"}
           Kept == UNCHANGED <<counters, statistics>>
<1>1. Joined /\ [Next]_vars => [Past => Kept]_vars
  <2> SUFFICES ASSUME Joined, [Next]_vars, Past PROVE Kept
    OBVIOUS
  <2>1. consumerPc \in {"absent", "returned"}
    BY DEF Joined
  <2>2. CASE Main
    BY <2>2
    DEF Main, StartConsumer, IngestRejects, IngestParses, PushSucceeds,
        RecordAccepted, PushFindsClosed, IngestEnds, CloseBuffer,
        JoinConsumer, CheckFails, PrintReport, UnwindCloses, UnwindJoins,
        DestroyConsumer, processVars
  <2>3. ~Consumer
    BY <2>1 DEF Consumer, ConsumerPops, ConsumerProcesses, ConsumerFinishes
  <2>4. CASE Environment
    BY <2>4
    DEF Environment, MainThrows, IngestThrows, CloseOrJoinThrows,
        ConsumerThrows, BufferClosedEarly, processVars
  <2>5. CASE Exited \/ UNCHANGED vars
    BY <2>5 DEF Exited, vars, processVars
  <2> QED
    BY <2>2, <2>3, <2>4, <2>5 DEF Next
<1>2. [][Next]_vars /\ []Joined => [][Past => Kept]_vars
  BY <1>1, PTL
<1> QED
  BY <1>2, JoinedAlways, PTL DEF Spec, SnapshotIsFinal

-----------------------------------------------------------------------------
(* Types.                                                                   *)

\* What the types of the variables rest on: main holds a well-formed frame
\* while it pushes it, the consumer one of the positions while it processes
\* it, and the range of sequences has two ends or none.
Located ==
    /\ mainPc \in {"push", "record_accepted"} =>
           position \in 1..Len(inputs) /\ WellFormed(inputs[position])
    /\ consumerPc = "process" => held \in 1..Len(inputs)
    /\ RangeAgrees(statistics)

Typed == TypeOK /\ Located

\* The inputs are a sequence of raw frames.
LEMMA InputsTyped ==
    ASSUME TypeOK
    PROVE  /\ inputs \in Seq(RawFrames)
           /\ Len(inputs) \in Nat
           /\ DOMAIN inputs = 1..Len(inputs)
           /\ \A p \in 1..Len(inputs) :
                  /\ inputs[p].error \in ParseErrors \cup {"none"}
                  /\ inputs[p].frame.sequence \in Nat
                  /\ inputs[p].frame.temperature \in Int
                  /\ inputs[p].frame.supply \in Int
<1>1. inputs \in Seq(RawFrames)
  BY DEF TypeOK
<1>2. \A p \in 1..Len(inputs) : inputs[p] \in RawFrames
  BY <1>1, ElementOfSeq
<1> QED BY <1>1, <1>2 DEF RawFrames

\* Every record_ operation of the ingest loop keeps the counters' types.
LEMMA CountersTyped ==
    ASSUME NEW count \in Counters
    PROVE  /\ RecordInput(count) \in Counters
           /\ CountAccepted(count) \in Counters
           /\ RecordQueueClosed(count) \in Counters
           /\ \A error \in ParseErrors :
                  RecordParseRejected(count, error) \in Counters
<1> DEFINE rejected == [count EXCEPT !.frames_rejected = @ + 1]
<1>0. rejected \in Counters /\ rejected.parse_errors = count.parse_errors
  BY DEF Counters
<1>1. RecordInput(count) \in Counters
  BY DEF Counters, RecordInput
<1>2. CountAccepted(count) \in Counters
  BY DEF Counters, CountAccepted
<1>3. RecordQueueClosed(count) \in Counters
  <2>1. RecordQueueClosed(count) =
            [rejected EXCEPT !.queue_closed_rejections = @ + 1]
    BY DEF RecordQueueClosed
  <2> HIDE DEF rejected
  <2> QED BY <1>0, <2>1, SMTT(30) DEF Counters
<1>4. ASSUME NEW error \in ParseErrors
      PROVE  RecordParseRejected(count, error) \in Counters
  <2> DEFINE errors == [count.parse_errors EXCEPT ![error] = @ + 1]
  <2>1. errors \in [ParseErrors -> Nat]
    BY DEF Counters
  <2>2. RecordParseRejected(count, error) =
            [rejected EXCEPT !.parse_errors = errors]
    BY <1>0 DEF RecordParseRejected
  <2> HIDE DEF rejected, errors
  <2> QED BY <1>0, <2>1, <2>2 DEF Counters
<1> QED BY <1>1, <1>2, <1>3, <1>4

\* Nothing but the consumer's step writes the statistics.
LEMMA StatisticsWriters ==
    ASSUME [Next]_vars, ~ConsumerProcesses
    PROVE  UNCHANGED <<inputs, statistics, delivered, consumed>>
BY DEF Next, Main, Consumer, Environment, Exited, vars, mainVars, bufferVars,
       consumerVars, processVars, StartConsumer, IngestRejects, IngestParses,
       PushSucceeds, RecordAccepted, PushFindsClosed, IngestEnds, CloseBuffer,
       JoinConsumer, CheckFails, PrintReport, UnwindCloses, UnwindJoins,
       DestroyConsumer, ConsumerPops, ConsumerFinishes, MainThrows,
       IngestThrows, CloseOrJoinThrows, ConsumerThrows, BufferClosedEarly

\* A step keeps the types.
LEMMA TypedStep == ASSUME Typed, [Next]_vars PROVE Typed'
<1> USE DEF Typed
<1>1. CASE StartConsumer
  BY <1>1
  DEF StartConsumer, TypeOK, Located, MainStates, bufferVars, processVars
<1>2. CASE IngestRejects
  <2>1. position \in 1..Len(inputs) /\ inputs[position].error \in ParseErrors
    BY <1>2, InputsTyped DEF IngestRejects, TypeOK, WellFormed
  <2>2. counters' \in Counters
    BY <1>2, <2>1, CountersTyped DEF IngestRejects, TypeOK
  <2> QED
    BY <1>2, <2>1, <2>2
    DEF IngestRejects, TypeOK, Located, bufferVars, consumerVars, processVars
<1>3. CASE IngestParses
  BY <1>3, InputsTyped, CountersTyped
  DEF IngestParses, TypeOK, Located, MainStates, bufferVars, consumerVars,
      processVars
<1>4. CASE PushSucceeds
  BY <1>4, InputsTyped, AppendProperties
  DEF PushSucceeds, TypeOK, Located, MainStates, consumerVars, processVars
<1>5. CASE RecordAccepted
  BY <1>5, InputsTyped, CountersTyped
  DEF RecordAccepted, TypeOK, Located, MainStates, bufferVars, consumerVars,
      processVars
<1>6. CASE PushFindsClosed
  BY <1>6, InputsTyped, CountersTyped
  DEF PushFindsClosed, TypeOK, Located, MainStates, bufferVars,
      consumerVars, processVars
<1>7. CASE IngestEnds
  BY <1>7
  DEF IngestEnds, TypeOK, Located, MainStates, bufferVars, consumerVars,
      processVars
<1>8. CASE CloseBuffer
  BY <1>8
  DEF CloseBuffer, TypeOK, Located, MainStates, consumerVars, processVars
<1>9. CASE JoinConsumer
  BY <1>9
  DEF JoinConsumer, TypeOK, Located, MainStates, bufferVars, consumerVars,
      processVars
<1>10. CASE CheckFails
  BY <1>10
  DEF CheckFails, TypeOK, Located, MainStates, Running, bufferVars,
      consumerVars, processVars
<1>11. CASE PrintReport
  BY <1>11
  DEF PrintReport, TypeOK, Located, MainStates, Running, bufferVars,
      consumerVars, processVars
<1>12. CASE UnwindCloses
  BY <1>12
  DEF UnwindCloses, TypeOK, Located, MainStates, consumerVars, processVars
<1>13. CASE UnwindJoins
  BY <1>13
  DEF UnwindJoins, TypeOK, Located, MainStates, Running, bufferVars,
      consumerVars, processVars
<1>14. CASE ConsumerPops
  BY <1>14, InputsTyped, HeadTailProperties
  DEF ConsumerPops, TypeOK, Located, mainVars, processVars
<1>15. CASE ConsumerProcesses
  <2>1. held \in 1..Len(inputs)
    BY <1>15 DEF ConsumerProcesses, Located
  <2>2. CASE WellFormed(inputs[held])
    <3>1. statistics' \in Statistics /\ RangeAgrees(statistics')
      BY <1>15, <2>1, <2>2, InputsTyped, RecordingTyped
      DEF ConsumerProcesses, TypeOK, Located
    <3>2. delivered' = Append(delivered, held) /\ consumed' = consumed + 1
      BY <1>15, <2>2 DEF ConsumerProcesses
    <3>3. delivered' \in Seq(1..Len(inputs)) /\ consumed' \in Nat
      BY <2>1, <3>2, AppendProperties DEF TypeOK
    <3> QED
      BY <1>15, <2>1, <2>2, <3>1, <3>3
      DEF ConsumerProcesses, TypeOK, Located, mainVars, bufferVars
  <2>3. CASE ~WellFormed(inputs[held])
    <3>0. consumerResult' =
              [success |-> FALSE, frames_consumed |-> consumed]
      BY <1>15, <2>3 DEF ConsumerProcesses
    <3>1. /\ consumerResult' \in [success : BOOLEAN, frames_consumed : Nat]
          /\ consumerPc' = "returned"
          /\ UNCHANGED <<inputs, mainVars, bufferVars, held, consumed,
                         counters, processVars, faults>>
      BY <1>15, <2>3, <3>0 DEF ConsumerProcesses, TypeOK, mainVars,
         bufferVars, processVars
    <3> QED
      BY <3>1 DEF TypeOK, Located, mainVars, bufferVars, processVars
  <2> QED BY <2>2, <2>3
<1>16. CASE ConsumerFinishes
  BY <1>16
  DEF ConsumerFinishes, TypeOK, Located, mainVars, bufferVars, processVars
<1>17. CASE MainThrows
  BY <1>17
  DEF MainThrows, Throw, TypeOK, Located, MainStates, Running, bufferVars,
      consumerVars, processVars
<1>18. CASE IngestThrows
  BY <1>18
  DEF IngestThrows, Throw, TypeOK, Located, MainStates, bufferVars,
      consumerVars, processVars
<1>19. CASE ConsumerThrows
  BY <1>19
  DEF ConsumerThrows, Throw, TypeOK, Located, mainVars, bufferVars,
      processVars
<1>20. CASE BufferClosedEarly
  BY <1>20
  DEF BufferClosedEarly, TypeOK, Located, mainVars, consumerVars,
      processVars
<1>21. CASE DestroyConsumer
  BY <1>21
  DEF DestroyConsumer, TypeOK, Located, MainStates, Running, bufferVars,
      consumerVars, processVars
<1>22. CASE CloseOrJoinThrows
  BY <1>22
  DEF CloseOrJoinThrows, Throw, TypeOK, Located, MainStates, bufferVars,
      consumerVars, processVars
<1>23. CASE Exited \/ UNCHANGED vars
  BY <1>23
  DEF Exited, vars, TypeOK, Located, mainVars, bufferVars, consumerVars,
      processVars
<1> QED
  BY <1>1, <1>2, <1>3, <1>4, <1>5, <1>6, <1>7, <1>8, <1>9, <1>10, <1>11,
     <1>12, <1>13, <1>14, <1>15, <1>16, <1>17, <1>18, <1>19, <1>20, <1>21,
     <1>22, <1>23
  DEF Next, Main, Consumer, Environment

\* The types hold initially.
LEMMA InitTyped == ASSUME Init PROVE Typed
<1>1. inputs \in Seq(RawFrames) /\ Len(inputs) \in Nat
  BY DEF Init
<1>2. NoStatistics \in Statistics /\ RangeAgrees(NoStatistics)
  BY NoValueAssumption
  DEF NoStatistics, Statistics, EmptyTrack, Tracks, RangeAgrees
<1>3. NoCounters \in Counters
  BY DEF NoCounters, Counters
<1>4. /\ buffer \in Seq(1..Len(inputs)) /\ Len(buffer) <= Capacity
      /\ delivered \in Seq(1..Len(inputs))
  BY EmptySeq DEF Init
<1>5. inputs \in InputStreams /\ position \in 1..(Len(inputs) + 1)
  BY <1>1 DEF Init
<1>6. /\ statistics \in Statistics /\ RangeAgrees(statistics)
      /\ counters \in Counters
  BY <1>2, <1>3 DEF Init
<1>7. consumerResult \in [success : BOOLEAN, frames_consumed : Nat]
  BY DEF Init
<1>8. /\ ingestionSucceeded \in BOOLEAN /\ closed \in BOOLEAN
      /\ exitCode \in {Running, 0, 1}
  BY DEF Init
<1>9. /\ held \in 0..Len(inputs) /\ faults \in 0..MaxFaults
      /\ consumed \in Nat
  BY <1>1 DEF Init
<1>10. mainPc \in MainStates
  BY DEF Init, MainStates
<1>11. TypeOK
  BY <1>4, <1>5, <1>6, <1>7, <1>8, <1>9, <1>10 DEF Init, TypeOK
<1> QED
  BY <1>6, <1>11 DEF Init, Typed, Located

\* The types hold in every reachable state.
LEMMA TypedAlways == Spec => []Typed
BY InitTyped, TypedStep, PTL DEF Spec

\* Every variable of the host keeps its type and the buffer never holds more
\* than its capacity, whichever thread throws.
THEOREM TypeCorrect == Spec => []TypeOK
BY TypedAlways, PTL DEF Typed

-----------------------------------------------------------------------------
(* Between the push and the processor nothing is lost.                      *)

\* What is on its way are sequences of positions.
LEMMA PipelineTyped ==
    ASSUME Typed
    PROVE  /\ delivered \in Seq(1..Len(inputs)) /\ Held \in Seq(1..Len(inputs))
           /\ buffer \in Seq(1..Len(inputs))
           /\ delivered \o Held \in Seq(1..Len(inputs))
           /\ Pipeline \in Seq(1..Len(inputs))
           /\ DOMAIN Pipeline = 1..Len(Pipeline)
           /\ Len(delivered) \in Nat /\ Len(Held) \in Nat /\ Len(buffer) \in Nat
           /\ Len(Pipeline) = Len(delivered) + Len(Held) + Len(buffer)
<1>1. /\ delivered \in Seq(1..Len(inputs)) /\ buffer \in Seq(1..Len(inputs))
      /\ Len(inputs) \in Nat
  BY InputsTyped DEF Typed, TypeOK
<1>2. Held \in Seq(1..Len(inputs))
  <2>1. CASE consumerPc = "process"
    <3>1. held \in 1..Len(inputs) /\ Held = <<held>>
      BY <2>1 DEF Held, Typed, Located
    <3> QED BY <3>1
  <2>2. CASE consumerPc # "process"
    BY <2>2, EmptySeq DEF Held
  <2> QED BY <2>1, <2>2
<1>3. /\ delivered \o Held \in Seq(1..Len(inputs))
      /\ Len(delivered \o Held) = Len(delivered) + Len(Held)
  BY <1>1, <1>2, ConcatProperties
<1>4. /\ Pipeline \in Seq(1..Len(inputs))
      /\ Len(Pipeline) = Len(delivered \o Held) + Len(buffer)
  BY <1>1, <1>3, ConcatProperties DEF Pipeline
<1> QED BY <1>1, <1>2, <1>3, <1>4, LenProperties

\* A step that leaves the pipeline and the positions pushed alone.
LEMMA StillNothingIsLost ==
    ASSUME NothingIsLost, Pipeline' = Pipeline, Pushed' = Pushed
    PROVE  NothingIsLost'
BY DEF NothingIsLost

\* The push appends the position of main's frame to the pipeline.
LEMMA PushAppends ==
    ASSUME Typed, NothingIsLost, PushSucceeds
    PROVE  NothingIsLost'
<1>1. /\ position \in 1..Len(inputs) /\ WellFormed(inputs[position])
      /\ Len(inputs) \in Nat
  BY InputsTyped DEF PushSucceeds, Typed, Located
<1>2. Pipeline' = Append(Pipeline, position)
  <2> DEFINE before == delivered \o Held
  <2>1. /\ Held' = Held /\ delivered' = delivered
        /\ buffer' = Append(buffer, position)
    BY DEF PushSucceeds, Held, consumerVars, processVars
  <2>2. Append(buffer, position) = buffer \o <<position>>
    BY <1>1, PipelineTyped, AppendIsConcat
  <2>3. <<position>> \in Seq(1..Len(inputs))
    BY <1>1
  <2>4. before \o (buffer \o <<position>>) = (before \o buffer) \o <<position>>
    <3> DEFINE S == 1..Len(inputs)
               last == <<position>>
    <3>1. before \in Seq(S) /\ buffer \in Seq(S) /\ last \in Seq(S)
      BY <2>3, PipelineTyped
    <3> HIDE DEF S, before, last
    <3>2. (before \o buffer) \o last = before \o (buffer \o last)
      BY <3>1, ConcatAssociative
    <3> QED BY <3>2 DEF last
  <2>5. Append(before \o buffer, position) = (before \o buffer) \o <<position>>
    BY <1>1, PipelineTyped, AppendIsConcat DEF Pipeline
  <2>6. Pipeline' = before \o Append(buffer, position)
    BY <2>1 DEF Pipeline
  <2> QED BY <2>2, <2>4, <2>5, <2>6 DEF Pipeline
<1>3. /\ Pushed = {p \in 1..(position - 1) : WellFormed(inputs[p])}
      /\ Pushed' = {p \in 1..position : WellFormed(inputs[p])}
  BY DEF PushSucceeds, Pushed
<1>4. Pushed' = Pushed \cup {position}
  BY <1>1, <1>3
<1>5. \A p \in Pushed : p < position
  BY <1>1, <1>3
<1>6. /\ DOMAIN Pipeline = 1..Len(Pipeline) /\ Len(Pipeline) \in Nat
      /\ DOMAIN Pipeline' = 1..(Len(Pipeline) + 1)
      /\ \A k \in 1..Len(Pipeline) : Pipeline'[k] = Pipeline[k]
      /\ Pipeline'[Len(Pipeline) + 1] = position
  <2>1. Append(Pipeline, position) \in Seq(1..Len(inputs))
    BY <1>1, PipelineTyped, AppendProperties
  <2> QED BY <1>1, <1>2, <2>1, PipelineTyped, AppendProperties, LenProperties
<1>7. \A k \in 1..(Len(Pipeline) + 1) :
          k \in 1..Len(Pipeline) \/ k = Len(Pipeline) + 1
  BY <1>6
<1>8. {Pipeline'[k] : k \in DOMAIN Pipeline'} = Pushed'
  BY <1>4, <1>6, <1>7 DEF NothingIsLost
<1>9. ASSUME NEW j \in DOMAIN Pipeline', NEW k \in DOMAIN Pipeline', j < k
      PROVE  Pipeline'[j] < Pipeline'[k]
  <2>1. j \in 1..Len(Pipeline)
    BY <1>6, <1>9
  <2>2. CASE k \in 1..Len(Pipeline)
    BY <1>6, <1>9, <2>1, <2>2 DEF NothingIsLost
  <2>3. CASE k = Len(Pipeline) + 1
    BY <1>5, <1>6, <2>1, <2>3 DEF NothingIsLost
  <2> QED BY <1>6, <1>7, <2>2, <2>3
<1> QED BY <1>8, <1>9 DEF NothingIsLost

\* The pop takes the head of the buffer into the consumer's hand.
LEMMA PopMoves ==
    ASSUME Typed, ConsumerPops
    PROVE  Pipeline' = Pipeline
<1>1. /\ Held = <<>> /\ Held' = <<Head(buffer)>> /\ buffer' = Tail(buffer)
      /\ delivered' = delivered /\ buffer # <<>>
  BY DEF ConsumerPops, Held, processVars
<1>2. /\ <<Head(buffer)>> \in Seq(1..Len(inputs))
      /\ Tail(buffer) \in Seq(1..Len(inputs))
  BY <1>1, PipelineTyped, HeadTailProperties
<1>3. <<Head(buffer)>> \o Tail(buffer) = buffer
  BY <1>1, PipelineTyped
<1>4. delivered \o <<>> = delivered
  BY PipelineTyped, ConcatEmptySeq
<1>5. (delivered \o <<Head(buffer)>>) \o Tail(buffer) =
          delivered \o (<<Head(buffer)>> \o Tail(buffer))
  <2> DEFINE S == 1..Len(inputs)
             first == <<Head(buffer)>>
             rest == Tail(buffer)
  <2>1. delivered \in Seq(S) /\ first \in Seq(S) /\ rest \in Seq(S)
    BY <1>2, PipelineTyped
  <2> HIDE DEF S, first, rest
  <2>2. (delivered \o first) \o rest = delivered \o (first \o rest)
    BY <2>1, ConcatAssociative
  <2> QED BY <2>2 DEF first, rest
<1> QED BY <1>1, <1>3, <1>4, <1>5 DEF Pipeline

\* The frame in the consumer's hand is well-formed and after those delivered.
LEMMA HeldIsNext ==
    ASSUME Typed, NothingIsLost, consumerPc = "process"
    PROVE  /\ held \in 1..Len(inputs) /\ WellFormed(inputs[held])
           /\ \A k \in 1..Len(delivered) : delivered[k] < held
<1> DEFINE n == Len(delivered)
<1>1. Held = <<held>>
  BY DEF Held
<1>2. n + 1 \in DOMAIN Pipeline /\ n \in Nat /\ 1..n \subseteq DOMAIN Pipeline
  BY <1>1, PipelineTyped
<1>3. /\ Pipeline[n + 1] = held
      /\ \A k \in 1..n : Pipeline[k] = delivered[k]
  <2> DEFINE before == delivered \o Held
  <2>1. /\ Len(before) = n + 1 /\ before[n + 1] = held
        /\ \A k \in 1..n : before[k] = delivered[k]
    BY <1>1, PipelineTyped, ConcatProperties
  <2>2. \A k \in 1..(n + 1) : Pipeline[k] = before[k]
    <3>1. \A k \in 1..(Len(before) + Len(buffer)) :
              Pipeline[k] = IF k <= Len(before) THEN before[k]
                            ELSE buffer[k - Len(before)]
      BY PipelineTyped, ConcatProperties DEF Pipeline
    <3>2. /\ Len(before) = n + 1 /\ n \in Nat /\ Len(buffer) \in Nat
      BY <1>2, <2>1, PipelineTyped
    <3> HIDE DEF before, n
    <3>3. \A k \in 1..(n + 1) :
              k \in 1..(Len(before) + Len(buffer)) /\ k <= Len(before)
      BY <3>2
    <3> QED BY <3>1, <3>3
  <2> HIDE DEF before
  <2> QED BY <1>2, <2>1, <2>2
<1>4. held \in Pushed
  BY <1>2, <1>3 DEF NothingIsLost
<1> HIDE DEF n
<1>5. \A k \in 1..n : delivered[k] < held
  BY <1>2, <1>3 DEF NothingIsLost
<1> QED BY <1>4, <1>5 DEF Pushed, n, Typed, Located

\* Processing hands the frame over to the processor.
LEMMA ProcessMoves ==
    ASSUME Typed, NothingIsLost, ConsumerProcesses
    PROVE  Pipeline' = Pipeline
<1>1. /\ held \in 1..Len(inputs) /\ WellFormed(inputs[held])
      /\ consumerPc = "process"
  BY HeldIsNext DEF ConsumerProcesses
<1>2. /\ Held = <<held>> /\ Held' = <<>> /\ buffer' = buffer
      /\ delivered' = Append(delivered, held)
  BY <1>1 DEF ConsumerProcesses, Held, bufferVars
<1>3. Append(delivered, held) = delivered \o <<held>>
  BY <1>1, PipelineTyped, AppendIsConcat
<1>4. (delivered \o <<held>>) \o <<>> = delivered \o <<held>>
  BY <1>2, PipelineTyped, ConcatEmptySeq
<1> QED BY <1>2, <1>3, <1>4 DEF Pipeline

\* No step of another kind moves a frame.
LEMMA OthersMoveNothing ==
    ASSUME Joined, [Next]_vars, ~PushSucceeds, ~ConsumerPops,
           ~ConsumerProcesses
    PROVE  /\ Held' = Held /\ buffer' = buffer /\ Pipeline' = Pipeline
<1>1. /\ delivered' = delivered /\ buffer' = buffer /\ held' = held
      /\ consumerPc' = "process" <=> consumerPc = "process"
  <2>1. CASE Main
    BY <2>1
    DEF Joined, Main, bufferVars, consumerVars, processVars, StartConsumer,
        IngestRejects, IngestParses, RecordAccepted, PushFindsClosed,
        IngestEnds, CloseBuffer, JoinConsumer, CheckFails, PrintReport,
        UnwindCloses, UnwindJoins, DestroyConsumer
  <2>2. CASE Consumer \/ Environment
    BY <2>2
    DEF Consumer, Environment, bufferVars, consumerVars, processVars,
        ConsumerFinishes, MainThrows, IngestThrows, CloseOrJoinThrows,
        ConsumerThrows, BufferClosedEarly
  <2>3. CASE Exited \/ UNCHANGED vars
    BY <2>3 DEF Exited, vars, bufferVars, consumerVars, processVars
  <2> QED BY <2>1, <2>2, <2>3 DEF Next
<1> QED BY <1>1 DEF Pipeline, Held

\* Only the push adds to the positions pushed.
LEMMA OthersPushNothing ==
    ASSUME Typed, [Next]_vars, ~PushSucceeds
    PROVE  Pushed' = Pushed
<1>1. CASE IngestRejects
  <2>1. /\ position \in Nat /\ ~WellFormed(inputs[position])
        /\ Pushed = {p \in 1..(position - 1) : WellFormed(inputs[p])}
        /\ Pushed' = {p \in 1..(position + 1 - 1) : WellFormed(inputs[p])}
    BY <1>1, InputsTyped DEF IngestRejects, Pushed, Typed, TypeOK
  <2> QED BY <2>1
<1>2. CASE RecordAccepted
  <2>1. /\ position \in Nat
        /\ Pushed = {p \in 1..position : WellFormed(inputs[p])}
        /\ Pushed' = {p \in 1..(position + 1 - 1) : WellFormed(inputs[p])}
    BY <1>2, InputsTyped DEF RecordAccepted, Pushed, Typed, TypeOK
  <2> QED BY <2>1
<1>3. CASE ~IngestRejects /\ ~RecordAccepted
  <2>1. /\ inputs' = inputs /\ position' = position
        /\ mainPc' = "record_accepted" <=> mainPc = "record_accepted"
    BY <1>3
    DEF Next, Main, Consumer, Environment, Exited, vars, mainVars,
        StartConsumer, IngestParses, PushFindsClosed, IngestEnds, CloseBuffer,
        JoinConsumer, CheckFails, PrintReport, UnwindCloses, UnwindJoins,
        DestroyConsumer, ConsumerPops, ConsumerProcesses, ConsumerFinishes,
        MainThrows, IngestThrows, CloseOrJoinThrows, ConsumerThrows,
        BufferClosedEarly
  <2> QED BY <2>1 DEF Pushed
<1> QED BY <1>1, <1>2, <1>3

\* What is processed, popped and queued is at every moment what was pushed,
\* in order: for every interleaving, whoever throws and whoever closes the
\* buffer.
THEOREM NothingLost == Spec => []NothingIsLost
<1>1. Init => NothingIsLost
  <2> SUFFICES ASSUME Init PROVE NothingIsLost
    OBVIOUS
  <2>1. Pipeline = <<>>
    BY EmptySeq, ConcatEmptySeq DEF Init, Pipeline, Held
  <2>2. Pushed = {}
    BY DEF Init, Pushed
  <2> QED BY <2>1, <2>2 DEF NothingIsLost
<1>2. Typed /\ Joined /\ NothingIsLost /\ [Next]_vars => NothingIsLost'
  <2> SUFFICES ASSUME Typed, Joined, NothingIsLost, [Next]_vars
               PROVE  NothingIsLost'
    OBVIOUS
  <2>1. CASE PushSucceeds
    BY <2>1, PushAppends
  <2>2. CASE ~PushSucceeds
    <3>1. Pipeline' = Pipeline
      BY <2>2, PopMoves, ProcessMoves, OthersMoveNothing
    <3> QED BY <2>2, <3>1, OthersPushNothing, StillNothingIsLost
  <2> QED BY <2>1, <2>2
<1> QED BY <1>1, <1>2, TypedAlways, JoinedAlways, PTL DEF Spec

-----------------------------------------------------------------------------
(* The counters agree.                                                      *)

\* The counters are numbers.
LEMMA CountsTyped ==
    ASSUME Typed
    PROVE  /\ counters \in Counters
           /\ counters.inputs_received \in Nat
           /\ counters.frames_accepted \in Nat
           /\ counters.frames_rejected \in Nat
           /\ counters.queue_closed_rejections \in Nat
           /\ counters.parse_errors \in [ParseErrors -> Nat]
           /\ statistics.frames_processed \in Nat
           /\ consumed \in Nat
BY DEF Typed, TypeOK, Counters, Statistics

\* What each record_ operation of the ingest loop does, field by field.
LEMMA CounterFields ==
    ASSUME NEW count \in Counters
    PROVE  /\ RecordInput(count).inputs_received = count.inputs_received + 1
           /\ RecordInput(count).frames_accepted = count.frames_accepted
           /\ RecordInput(count).frames_rejected = count.frames_rejected
           /\ RecordInput(count).queue_closed_rejections =
                  count.queue_closed_rejections
           /\ RecordInput(count).parse_errors = count.parse_errors
           /\ CountAccepted(count).inputs_received = count.inputs_received
           /\ CountAccepted(count).frames_accepted = count.frames_accepted + 1
           /\ CountAccepted(count).frames_rejected = count.frames_rejected
           /\ CountAccepted(count).queue_closed_rejections =
                  count.queue_closed_rejections
           /\ CountAccepted(count).parse_errors = count.parse_errors
BY DEF Counters, RecordInput, CountAccepted

\* The same of the two operations that reject.
LEMMA RejectionFields ==
    ASSUME NEW count \in Counters
    PROVE  /\ RecordQueueClosed(count).inputs_received = count.inputs_received
           /\ RecordQueueClosed(count).frames_accepted = count.frames_accepted
           /\ RecordQueueClosed(count).frames_rejected =
                  count.frames_rejected + 1
           /\ RecordQueueClosed(count).queue_closed_rejections =
                  count.queue_closed_rejections + 1
           /\ RecordQueueClosed(count).parse_errors = count.parse_errors
           /\ \A error \in ParseErrors :
                  LET new == RecordParseRejected(count, error)
                  IN  /\ new.inputs_received = count.inputs_received
                      /\ new.frames_accepted = count.frames_accepted
                      /\ new.frames_rejected = count.frames_rejected + 1
                      /\ new.queue_closed_rejections =
                             count.queue_closed_rejections
                      /\ new.parse_errors[error] =
                             count.parse_errors[error] + 1
                      /\ \A other \in ParseErrors \ {error} :
                             new.parse_errors[other] =
                                 count.parse_errors[other]
<1> DEFINE rejected == [count EXCEPT !.frames_rejected = @ + 1]
<1>1. /\ rejected \in Counters
      /\ rejected.inputs_received = count.inputs_received
      /\ rejected.frames_accepted = count.frames_accepted
      /\ rejected.frames_rejected = count.frames_rejected + 1
      /\ rejected.queue_closed_rejections = count.queue_closed_rejections
      /\ rejected.parse_errors = count.parse_errors
  BY DEF Counters
<1>2. RecordQueueClosed(count) =
          [rejected EXCEPT !.queue_closed_rejections =
               count.queue_closed_rejections + 1]
  BY DEF RecordQueueClosed
<1>3. ASSUME NEW error \in ParseErrors
      PROVE  RecordParseRejected(count, error) =
                 [rejected EXCEPT !.parse_errors =
                      [count.parse_errors EXCEPT
                           ![error] = count.parse_errors[error] + 1]]
  BY <1>1 DEF RecordParseRejected
<1>4. count.parse_errors \in [ParseErrors -> Nat]
  BY DEF Counters
<1> HIDE DEF rejected
<1>5. ASSUME NEW error \in ParseErrors
      PROVE  LET new == RecordParseRejected(count, error)
             IN  /\ new.inputs_received = count.inputs_received
                 /\ new.frames_accepted = count.frames_accepted
                 /\ new.frames_rejected = count.frames_rejected + 1
                 /\ new.queue_closed_rejections =
                        count.queue_closed_rejections
                 /\ new.parse_errors[error] = count.parse_errors[error] + 1
                 /\ \A other \in ParseErrors \ {error} :
                        new.parse_errors[other] = count.parse_errors[other]
  BY <1>1, <1>3, <1>4 DEF Counters
<1> QED BY <1>1, <1>2, <1>5 DEF Counters

\* The writers of the counters, each with what it adds.
LEMMA CounterWriters ==
    ASSUME Typed, [Next]_vars
    PROVE  \/ IngestRejects \/ IngestParses \/ RecordAccepted
           \/ PushFindsClosed
           \/ counters' = counters /\ position' = position
BY DEF Next, Main, Consumer, Environment, Exited, vars, mainVars,
       StartConsumer, PushSucceeds, IngestEnds, CloseBuffer, JoinConsumer,
       CheckFails, PrintReport, UnwindCloses, UnwindJoins, DestroyConsumer,
       ConsumerPops, ConsumerProcesses, ConsumerFinishes, MainThrows,
       IngestThrows, CloseOrJoinThrows, ConsumerThrows, BufferClosedEarly

\* An input is accepted, rejected or in main's hand.
LEMMA InputsStep ==
    ASSUME Typed, InputsAccounted, [Next]_vars
    PROVE  InputsAccounted'
<1>1. CASE StartConsumer
  BY <1>1 DEF StartConsumer, InputsAccounted, InHand, mainVars
<1>2. CASE IngestRejects
  <2>1. inputs[position].error \in ParseErrors
    BY <1>2, InputsTyped DEF IngestRejects, Typed, TypeOK, WellFormed
  <2>2. RecordInput(counters) \in Counters
    BY CountsTyped, CountersTyped
  <2>3. /\ counters'.inputs_received = counters.inputs_received + 1
        /\ counters'.frames_accepted = counters.frames_accepted
        /\ counters'.frames_rejected = counters.frames_rejected + 1
    BY <1>2, <2>1, <2>2, CountsTyped, CounterFields, RejectionFields, SMTT(30)
    DEF IngestRejects
  <2> QED
    BY <1>2, <2>3, CountsTyped, SMTT(30) DEF IngestRejects, InputsAccounted, InHand
<1>3. CASE IngestParses
  BY <1>3, CountsTyped, CounterFields, SMTT(30)
  DEF IngestParses, InputsAccounted, InHand
<1>4. CASE PushSucceeds
  BY <1>4 DEF PushSucceeds, InputsAccounted, InHand, mainVars
<1>5. CASE RecordAccepted
  BY <1>5, CountsTyped, CounterFields, SMTT(30)
  DEF RecordAccepted, InputsAccounted, InHand
<1>6. CASE PushFindsClosed
  BY <1>6, CountsTyped, RejectionFields, SMTT(30)
  DEF PushFindsClosed, InputsAccounted, InHand
<1>7. CASE IngestEnds
  BY <1>7 DEF IngestEnds, InputsAccounted, InHand, mainVars
<1>8. CASE CloseBuffer
  BY <1>8 DEF CloseBuffer, InputsAccounted, InHand, mainVars
<1>9. CASE JoinConsumer
  BY <1>9 DEF JoinConsumer, InputsAccounted, InHand, mainVars
<1>10. CASE CheckFails
  BY <1>10 DEF CheckFails, InputsAccounted, InHand, mainVars
<1>11. CASE PrintReport
  BY <1>11 DEF PrintReport, InputsAccounted, InHand, mainVars
<1>12. CASE UnwindCloses
  BY <1>12 DEF UnwindCloses, InputsAccounted, InHand, mainVars
<1>13. CASE UnwindJoins
  BY <1>13 DEF UnwindJoins, InputsAccounted, InHand, mainVars
<1>14. CASE ConsumerPops
  BY <1>14 DEF ConsumerPops, InputsAccounted, InHand, mainVars
<1>15. CASE ConsumerProcesses
  BY <1>15 DEF ConsumerProcesses, InputsAccounted, InHand, mainVars
<1>16. CASE ConsumerFinishes
  BY <1>16 DEF ConsumerFinishes, InputsAccounted, InHand, mainVars
<1>17. CASE MainThrows
  BY <1>17 DEF MainThrows, InputsAccounted, InHand, mainVars
<1>18. CASE IngestThrows
  BY <1>18 DEF IngestThrows, InputsAccounted, InHand, mainVars
<1>19. CASE ConsumerThrows
  BY <1>19 DEF ConsumerThrows, InputsAccounted, InHand, mainVars
<1>20. CASE BufferClosedEarly
  BY <1>20 DEF BufferClosedEarly, InputsAccounted, InHand, mainVars
<1>21. CASE DestroyConsumer
  BY <1>21 DEF DestroyConsumer, InputsAccounted, InHand, mainVars
<1>22. CASE CloseOrJoinThrows
  BY <1>22 DEF CloseOrJoinThrows, InputsAccounted, InHand, mainVars
<1>23. CASE Exited \/ UNCHANGED vars
  BY <1>23 DEF Exited, vars, InputsAccounted, InHand, mainVars
<1> QED
  BY <1>1, <1>2, <1>3, <1>4, <1>5, <1>6, <1>7, <1>8, <1>9, <1>10, <1>11,
     <1>12, <1>13, <1>14, <1>15, <1>16, <1>17, <1>18, <1>19, <1>20, <1>21,
     <1>22, <1>23
  DEF Next, Main, Consumer, Environment

\* The positions up to the next one are those up to the last one, and it.
LEMMA OneMore ==
    ASSUME NEW n \in Nat, NEW S \in SUBSET (1..n)
    PROVE  /\ Cardinality(S) \in Nat
           /\ Cardinality(S \cup {n + 1}) = Cardinality(S) + 1
<1>1. IsFiniteSet(1..n)
  BY FS_Interval
<1>2. IsFiniteSet(S)
  BY <1>1, FS_Subset
<1>3. n + 1 \notin S
  OBVIOUS
<1> QED BY <1>2, <1>3, FS_AddElement, FS_CardinalityType

\* The rejections are the malformed inputs that main has passed, each under
\* its error, and the closed queue.
LEMMA RejectionsStep ==
    ASSUME Typed, RejectionsAccounted, [Next]_vars
    PROVE  RejectionsAccounted'
<1> DEFINE n == position - 1
<1>1. /\ inputs' = inputs /\ position \in Nat /\ n \in Nat
  BY InputsTyped
  DEF Typed, TypeOK, Next, Main, Consumer, Environment, Exited, vars,
      StartConsumer, IngestRejects, IngestParses, PushSucceeds,
      RecordAccepted, PushFindsClosed, IngestEnds, CloseBuffer, JoinConsumer,
      CheckFails, PrintReport, UnwindCloses, UnwindJoins, DestroyConsumer,
      ConsumerPops, ConsumerProcesses, ConsumerFinishes, MainThrows,
      IngestThrows, CloseOrJoinThrows, ConsumerThrows, BufferClosedEarly
<1>2. CASE IngestRejects
  <2>1. PICK bad \in ParseErrors : inputs[position].error = bad
    BY <1>2, InputsTyped DEF IngestRejects, Typed, TypeOK, WellFormed
  <2>2. bad # "none"
    BY DEF ParseErrors
  <2>3. /\ counters'.frames_rejected = counters.frames_rejected + 1
        /\ counters'.queue_closed_rejections =
               counters.queue_closed_rejections
        /\ counters'.parse_errors[bad] = counters.parse_errors[bad] + 1
        /\ \A other \in ParseErrors \ {bad} :
               counters'.parse_errors[other] = counters.parse_errors[other]
    <3> DEFINE received == RecordInput(counters)
    <3>1. counters' = RecordParseRejected(received, bad)
      BY <1>2, <2>1 DEF IngestRejects
    <3>2. /\ received \in Counters
          /\ received.frames_rejected = counters.frames_rejected
          /\ received.queue_closed_rejections =
                 counters.queue_closed_rejections
          /\ received.parse_errors = counters.parse_errors
      BY CountsTyped, CountersTyped, CounterFields
    <3> HIDE DEF received
    <3> QED BY <3>1, <3>2, RejectionFields
  <2>4. position' = n + 1 + 1 /\ position = n + 1
    BY <1>1, <1>2 DEF IngestRejects
  <2>5. Malformed' = Malformed \cup {n + 1} /\ Malformed \in SUBSET (1..n)
    BY <1>1, <2>1, <2>2, <2>4 DEF Malformed, WellFormed
  <2>6. /\ Passed(bad)' = Passed(bad) \cup {n + 1}
        /\ Passed(bad) \in SUBSET (1..n)
    BY <1>1, <2>1, <2>4 DEF Passed
  <2>7. ASSUME NEW error \in ParseErrors, error # bad
        PROVE  Passed(error)' = Passed(error)
    BY <1>1, <2>1, <2>4, <2>7 DEF Passed
  <2>8. counters'.frames_rejected =
            Cardinality(Malformed') + counters'.queue_closed_rejections
    <3>1. /\ Cardinality(Malformed) \in Nat
          /\ Cardinality(Malformed') = Cardinality(Malformed) + 1
      BY <1>1, <2>5, OneMore
    <3>2. counters.frames_rejected =
              Cardinality(Malformed) + counters.queue_closed_rejections
      BY DEF RejectionsAccounted
    <3> QED BY <2>3, <3>1, <3>2, CountsTyped, SMTT(30)
  <2>9. ASSUME NEW error \in ParseErrors
        PROVE  counters'.parse_errors[error] = Cardinality(Passed(error)')
    <3>1. CASE error = bad
      <4>1. Cardinality(Passed(bad)') = Cardinality(Passed(bad)) + 1
        BY <1>1, <2>6, OneMore
      <4>2. counters.parse_errors[bad] = Cardinality(Passed(bad))
        BY DEF RejectionsAccounted
      <4> QED BY <2>3, <3>1, <4>1, <4>2
    <3>2. CASE error # bad
      BY <2>3, <2>7, <3>2 DEF RejectionsAccounted
    <3> QED BY <3>1, <3>2
  <2> QED BY <2>8, <2>9 DEF RejectionsAccounted
<1>3. CASE RecordAccepted
  <2>1. /\ position' = position + 1 /\ WellFormed(inputs[position])
        /\ counters'.frames_rejected = counters.frames_rejected
        /\ counters'.queue_closed_rejections =
               counters.queue_closed_rejections
        /\ counters'.parse_errors = counters.parse_errors
    BY <1>3, CountsTyped, CounterFields DEF RecordAccepted, Typed, Located
  <2>2. Malformed' = Malformed
    BY <1>1, <2>1 DEF Malformed
  <2>3. ASSUME NEW error \in ParseErrors
        PROVE  Passed(error)' = Passed(error)
    <3>1. inputs[position].error # error
      BY <2>1 DEF WellFormed, ParseErrors
    <3> QED BY <1>1, <2>1, <3>1 DEF Passed
  <2> QED BY <2>1, <2>2, <2>3 DEF RejectionsAccounted
<1>4. CASE IngestParses \/ PushFindsClosed
  <2>1. position' = position /\ counters'.parse_errors = counters.parse_errors
    BY <1>4, CountsTyped, CounterFields, RejectionFields
    DEF IngestParses, PushFindsClosed
  <2>2. \/ /\ counters'.frames_rejected = counters.frames_rejected
           /\ counters'.queue_closed_rejections =
                  counters.queue_closed_rejections
        \/ /\ counters'.frames_rejected = counters.frames_rejected + 1
           /\ counters'.queue_closed_rejections =
                  counters.queue_closed_rejections + 1
    <3>1. CASE IngestParses
      BY <3>1, CountsTyped, CounterFields DEF IngestParses
    <3>2. CASE PushFindsClosed
      BY <3>2, CountsTyped, RejectionFields DEF PushFindsClosed
    <3> QED BY <1>4, <3>1, <3>2
  <2>3. Malformed' = Malformed
    BY <1>1, <2>1 DEF Malformed
  <2>4. \A error \in ParseErrors : Passed(error)' = Passed(error)
    BY <1>1, <2>1 DEF Passed
  <2>5. Cardinality(Malformed) \in Nat
    BY <1>1, OneMore DEF Malformed
  <2>6. counters'.frames_rejected =
            Cardinality(Malformed) + counters'.queue_closed_rejections
    BY <2>2, <2>5, CountsTyped, SMTT(30) DEF RejectionsAccounted
  <2> QED BY <2>1, <2>3, <2>4, <2>6 DEF RejectionsAccounted
<1>5. CASE counters' = counters /\ position' = position
  BY <1>1, <1>5 DEF RejectionsAccounted, Malformed, Passed
<1> QED BY <1>2, <1>3, <1>4, <1>5, CounterWriters

\* What was pushed is processed, popped or queued.
LEMMA FramesStep ==
    ASSUME Typed, Joined, NothingIsLost, FramesAccounted, [Next]_vars
    PROVE  FramesAccounted'
<1>1. CASE PushSucceeds
  <2>1. /\ Len(buffer') = Len(buffer) + 1 /\ Held' = Held
        /\ counters' = counters /\ statistics' = statistics
        /\ consumed' = consumed
        /\ Count(mainPc = "record_accepted") = 0
        /\ Count(mainPc = "record_accepted")' = 1
    BY <1>1, PipelineTyped, AppendProperties
    DEF PushSucceeds, Held, consumerVars, processVars, Count, Typed, Located
  <2>2. counters.frames_accepted + 0 =
            statistics.frames_processed + Len(Held) + Len(buffer)
    BY <2>1 DEF FramesAccounted
  <2>3. counters'.frames_accepted + 1 =
            statistics'.frames_processed + Len(Held') + Len(buffer')
    <3>1. /\ counters.frames_accepted \in Nat
          /\ statistics.frames_processed \in Nat
          /\ Len(Held) \in Nat /\ Len(buffer) \in Nat
      BY CountsTyped, PipelineTyped
    <3>2. /\ counters'.frames_accepted = counters.frames_accepted
          /\ statistics'.frames_processed = statistics.frames_processed
          /\ Len(Held') = Len(Held) /\ Len(buffer') = Len(buffer) + 1
      BY <2>1
    <3> QED BY <2>2, <3>1, <3>2, SMTT(30)
  <2>4. consumed' = statistics'.frames_processed
    BY <2>1 DEF FramesAccounted
  <2> QED BY <2>1, <2>3, <2>4 DEF FramesAccounted
<1>2. CASE RecordAccepted
  <2>1. /\ buffer' = buffer /\ Held' = Held
        /\ counters'.frames_accepted = counters.frames_accepted + 1
        /\ statistics' = statistics /\ consumed' = consumed
        /\ Count(mainPc = "record_accepted") = 1
        /\ Count(mainPc = "record_accepted")' = 0
    BY <1>2, CountsTyped, CounterFields
    DEF RecordAccepted, Held, bufferVars, consumerVars, processVars, Count
  <2> QED BY <2>1, CountsTyped, PipelineTyped DEF FramesAccounted
<1>3. CASE ConsumerPops
  <2>1. /\ Held = <<>> /\ Held' = <<held'>> /\ Len(buffer') = Len(buffer) - 1
        /\ counters' = counters /\ statistics' = statistics
        /\ consumed' = consumed /\ mainPc' = mainPc
    BY <1>3, PipelineTyped, HeadTailProperties
    DEF ConsumerPops, Held, mainVars, processVars
  <2>2. Len(Held) = 0 /\ Len(Held') = 1
    BY <2>1
  <2> QED
    BY <2>1, <2>2, CountsTyped, CountTyped, PipelineTyped
    DEF FramesAccounted, Count
<1>4. CASE ConsumerProcesses
  <2>1. held \in 1..Len(inputs) /\ WellFormed(inputs[held])
    BY <1>4, HeldIsNext DEF ConsumerProcesses
  <2>2. /\ statistics' = RecordProcessed(statistics, inputs[held].frame)
        /\ consumed' = consumed + 1 /\ consumerPc = "process"
        /\ consumerPc' = "pop" /\ buffer' = buffer /\ counters' = counters
        /\ mainPc' = mainPc
    BY <1>4, <2>1 DEF ConsumerProcesses, bufferVars, mainVars
  <2>3. statistics'.frames_processed = statistics.frames_processed + 1
    BY <2>1, <2>2, InputsTyped, RecordingTyped DEF Typed, TypeOK, Located
  <2>4. Len(Held) = 1 /\ Len(Held') = 0
    BY <2>2 DEF Held
  <2> QED
    BY <2>2, <2>3, <2>4, CountsTyped, CountTyped, PipelineTyped
    DEF FramesAccounted, Count
<1>5. CASE ~PushSucceeds /\ ~RecordAccepted /\ ~ConsumerPops
               /\ ~ConsumerProcesses
  <2>1. /\ Held' = Held /\ buffer' = buffer
        /\ statistics' = statistics /\ consumed' = consumed
    BY <1>5, OthersMoveNothing, StatisticsWriters
  <2>2. counters'.frames_accepted = counters.frames_accepted
    <3>1. CASE IngestRejects
      <4>1. inputs[position].error \in ParseErrors
        BY <3>1, InputsTyped DEF IngestRejects, Typed, TypeOK, WellFormed
      <4>2. RecordInput(counters) \in Counters
        BY CountsTyped, CountersTyped
      <4> QED BY <3>1, <4>1, <4>2, CountsTyped, CounterFields,
              RejectionFields, SMTT(30)
           DEF IngestRejects
    <3>2. CASE IngestParses \/ PushFindsClosed
      BY <3>2, CountsTyped, CounterFields, RejectionFields
       DEF IngestParses, PushFindsClosed
    <3> QED BY <1>5, <3>1, <3>2, CounterWriters
  <2>3. mainPc' = "record_accepted" <=> mainPc = "record_accepted"
    BY <1>5
    DEF Next, Main, Consumer, Environment, Exited, vars, mainVars,
        StartConsumer, IngestRejects, IngestParses, PushFindsClosed,
        IngestEnds, CloseBuffer, JoinConsumer, CheckFails, PrintReport,
        UnwindCloses, UnwindJoins, DestroyConsumer, ConsumerFinishes,
        MainThrows, IngestThrows, CloseOrJoinThrows, ConsumerThrows,
        BufferClosedEarly
  <2> QED BY <2>1, <2>2, <2>3 DEF FramesAccounted, Count
<1> QED BY <1>1, <1>2, <1>3, <1>4, <1>5

\* The counters of the two threads agree with one another at every moment,
\* although each is bumped on its own: frames_processed may lead
\* frames_accepted by the one frame that is pushed and not yet counted.
THEOREM CountersAgree == Spec => []Accounting
<1>1. Init => Accounting
  <2> SUFFICES ASSUME Init PROVE Accounting
    OBVIOUS
  <2>1. InputsAccounted
    BY DEF Init, NoCounters, InputsAccounted, InHand
  <2>2. Malformed = {} /\ \A error \in ParseErrors : Passed(error) = {}
    BY DEF Init, Malformed, Passed
  <2>3. RejectionsAccounted
    <3>1. Cardinality(Malformed) = 0
              /\ \A error \in ParseErrors : Cardinality(Passed(error)) = 0
      BY <2>2, FS_EmptySet
    <3>2. /\ \A error \in ParseErrors : counters.parse_errors[error] = 0
          /\ counters.frames_rejected = 0
          /\ counters.queue_closed_rejections = 0
      BY DEF Init, NoCounters
    <3> QED BY <3>1, <3>2 DEF RejectionsAccounted
  <2>4. FramesAccounted
    BY DEF Init, NoCounters, NoStatistics, FramesAccounted, Count, Held
  <2> QED BY <2>1, <2>3, <2>4 DEF Accounting
<1>2. Typed /\ Joined /\ NothingIsLost /\ Accounting /\ [Next]_vars
        => Accounting'
  BY InputsStep, RejectionsStep, FramesStep DEF Accounting
<1> QED BY <1>1, <1>2, TypedAlways, JoinedAlways, NothingLost, PTL DEF Spec

-----------------------------------------------------------------------------
(* The host implements the abstract stream.                                 *)

\* What a verdict rests on: main has an exit code when it has exited, it
\* leaves the ingest loop with success only at the end of the inputs, and the
\* consumer returns with success only from a closed and drained buffer.
Settled ==
    /\ exitCode = Running <=> mainPc # "exited"
    /\ mainPc \in {"close", "join", "check"} /\ ingestionSucceeded =>
           position = Len(inputs) + 1
    /\ consumerPc = "returned" /\ consumerResult.success =>
           buffer = <<>> /\ closed

\* A step keeps verdicts settled.
LEMMA SettledStep == ASSUME Typed, Settled, [Next]_vars PROVE Settled'
<1>1. CASE StartConsumer
  BY <1>1
  DEF StartConsumer, Settled, bufferVars
<1>2. CASE IngestRejects
  BY <1>2
  DEF IngestRejects, Settled, bufferVars, consumerVars
<1>3. CASE IngestParses
  BY <1>3
  DEF IngestParses, Settled, bufferVars, consumerVars
<1>4. CASE PushSucceeds
  BY <1>4
  DEF PushSucceeds, Settled, consumerVars
<1>5. CASE RecordAccepted
  BY <1>5
  DEF RecordAccepted, Settled, bufferVars, consumerVars
<1>6. CASE PushFindsClosed
  BY <1>6
  DEF PushFindsClosed, Settled, bufferVars, consumerVars
<1>7. CASE IngestEnds
  <2>1. position = Len(inputs) + 1
    BY <1>7, InputsTyped DEF IngestEnds, Typed, TypeOK
  <2> QED
    BY <1>7, <2>1 DEF IngestEnds, Settled, Running, bufferVars, consumerVars
<1>8. CASE CloseBuffer
  BY <1>8
  DEF CloseBuffer, Settled, consumerVars
<1>9. CASE JoinConsumer
  BY <1>9
  DEF JoinConsumer, Settled, bufferVars, consumerVars
<1>10. CASE CheckFails
  BY <1>10
  DEF CheckFails, Settled, Running, bufferVars, consumerVars
<1>11. CASE PrintReport
  BY <1>11
  DEF PrintReport, Settled, Running, bufferVars, consumerVars
<1>12. CASE UnwindCloses
  BY <1>12
  DEF UnwindCloses, Settled, consumerVars
<1>13. CASE UnwindJoins
  BY <1>13
  DEF UnwindJoins, Settled, Running, bufferVars, consumerVars
<1>14. CASE ConsumerPops
  BY <1>14
  DEF ConsumerPops, Settled, mainVars
<1>15. CASE ConsumerProcesses
  BY <1>15
  DEF ConsumerProcesses, Settled, mainVars, bufferVars
<1>16. CASE ConsumerFinishes
  BY <1>16
  DEF ConsumerFinishes, Settled, mainVars, bufferVars
<1>17. CASE MainThrows
  BY <1>17
  DEF MainThrows, Settled, Running, bufferVars, consumerVars
<1>18. CASE IngestThrows
  BY <1>18
  DEF IngestThrows, Settled, bufferVars, consumerVars
<1>19. CASE ConsumerThrows
  BY <1>19
  DEF ConsumerThrows, Settled, mainVars, bufferVars
<1>20. CASE BufferClosedEarly
  BY <1>20
  DEF BufferClosedEarly, Settled, mainVars, consumerVars
<1>21. CASE DestroyConsumer
  BY <1>21
  DEF DestroyConsumer, Settled, Running, bufferVars, consumerVars
<1>22. CASE CloseOrJoinThrows
  BY <1>22
  DEF CloseOrJoinThrows, Settled, bufferVars, consumerVars
<1>23. CASE Exited \/ UNCHANGED vars
  BY <1>23 DEF Exited, vars, Settled, mainVars, bufferVars, consumerVars
<1> QED
  BY <1>1, <1>2, <1>3, <1>4, <1>5, <1>6, <1>7, <1>8, <1>9, <1>10, <1>11,
     <1>12, <1>13, <1>14, <1>15, <1>16, <1>17, <1>18, <1>19, <1>20, <1>21,
     <1>22, <1>23
  DEF Next, Main, Consumer, Environment

\* Verdicts are settled in every reachable state.
LEMMA SettledAlways == Spec => []Settled
<1>1. Init => Settled
  BY DEF Init, Settled, Running
<1> QED BY <1>1, SettledStep, TypedAlways, PTL DEF Spec

\* What the host maps the stream's outcome to.
Outcome ==
    CASE exitCode = 0 -> "success"
      [] exitCode = 1 -> "failure"
      [] OTHER -> "open"

\* The outcome is open exactly until main exits.
LEMMA OutcomeOpen ==
    ASSUME Typed, Settled
    PROVE  /\ mainPc # "exited" => Outcome = "open"
           /\ exitCode = 0 => Outcome = "success"
           /\ exitCode = 1 => Outcome = "failure"
           /\ mainPc = "exited" => exitCode \in {0, 1}
BY DEF Typed, TypeOK, Settled, Outcome, Running

\* Processing a frame delivers one more wanted item, in order.
LEMMA ProcessingDelivers ==
    ASSUME Typed, Typed', Joined, NothingIsLost, Settled, Settled',
           ConsumerProcesses
    PROVE  Stream!Deliver
<1>1. /\ held \in 1..Len(inputs) /\ WellFormed(inputs[held])
      /\ \A k \in 1..Len(delivered) : delivered[k] < held
      /\ consumerPc = "process"
  BY HeldIsNext DEF ConsumerProcesses
<1>2. /\ delivered' = Append(delivered, held) /\ inputs' = inputs
      /\ mainPc' = mainPc
  BY <1>1 DEF ConsumerProcesses, mainVars
<1>3. mainPc # "exited"
  BY <1>1 DEF Joined
<1>4. Outcome = "open" /\ Outcome' = "open"
  <2>1. exitCode' = exitCode
    BY DEF ConsumerProcesses, mainVars
  <2> QED BY <1>3, <2>1, OutcomeOpen DEF Outcome
<1>5. held \in {p \in DOMAIN inputs : WellFormed(inputs[p])}
  BY <1>1, InputsTyped DEF Typed
<1>6. held > Stream!Latest
  <2>1. delivered \in Seq(1..Len(inputs)) /\ Len(delivered) \in Nat
    BY PipelineTyped
  <2>2. delivered # <<>> => Len(delivered) \in 1..Len(delivered)
    BY <2>1, EmptySeq
  <2>3. CASE delivered = <<>>
    BY <1>1, <2>3, InputsTyped DEF Stream!Latest
  <2>4. CASE delivered # <<>>
    <3>1. delivered[Len(delivered)] \in 1..Len(inputs)
      BY <2>1, <2>2, <2>4, ElementOfSeq
    <3> QED
      BY <1>1, <2>2, <2>4, <3>1, InputsTyped DEF Stream!Latest, Typed
  <2> QED BY <2>3, <2>4
<1> QED BY <1>2, <1>4, <1>5, <1>6 DEF Stream!Deliver, Outcome

\* A success is concluded only when every well-formed input was processed.
LEMMA ReportIsComplete ==
    ASSUME Typed, Joined, NothingIsLost, Settled, PrintReport
    PROVE  Stream!Complete
<1>1. /\ mainPc = "check" /\ ingestionSucceeded /\ consumerResult.success
      /\ consumerPc = "returned"
  BY DEF PrintReport, Operational, Joined
<1>2. /\ buffer = <<>> /\ Held = <<>> /\ position = Len(inputs) + 1
  BY <1>1 DEF Settled, Held
<1>3. Pipeline = delivered
  <2>1. delivered \o <<>> = delivered
    BY PipelineTyped, ConcatEmptySeq
  <2> QED BY <1>2, <2>1 DEF Pipeline
<1>4. Pushed = {p \in DOMAIN inputs : WellFormed(inputs[p])}
  <2>1. Len(inputs) \in Nat /\ DOMAIN inputs = 1..Len(inputs)
    BY InputsTyped DEF Typed
  <2>2. Pushed = {p \in 1..(Len(inputs) + 1 - 1) : WellFormed(inputs[p])}
    BY <1>1, <1>2 DEF Pushed
  <2> QED BY <2>1, <2>2
<1> QED BY <1>3, <1>4 DEF NothingIsLost, Stream!Complete

\* main's exit concludes the stream.
LEMMA ExitConcludes ==
    ASSUME Typed, Typed', Joined, NothingIsLost, Settled, Settled',
           [Next]_vars, mainPc # "exited", mainPc' = "exited"
    PROVE  Stream!Conclude
<1>1. inputs' = inputs /\ delivered' = delivered
  <2>1. ~ConsumerProcesses
    BY DEF ConsumerProcesses, mainVars
  <2> QED BY <2>1, StatisticsWriters
<1>2. Outcome = "open" /\ Outcome' \in {"success", "failure"}
  <2>1. Outcome = "open"
    BY OutcomeOpen
  <2>2. exitCode' \in {0, 1}
    BY DEF Typed, TypeOK, Settled
  <2> QED BY <2>1, <2>2 DEF Outcome
<1>3. ASSUME Outcome' = "success"
      PROVE  Stream!Complete
  <2>1. exitCode' = 0
    BY <1>3 DEF Outcome
  <2>2. PrintReport
    BY <2>1
    DEF Next, Main, Consumer, Environment, Exited, vars, mainVars,
        StartConsumer, IngestRejects, IngestParses, PushSucceeds,
        RecordAccepted, PushFindsClosed, IngestEnds, CloseBuffer,
        JoinConsumer, CheckFails, UnwindCloses, UnwindJoins, DestroyConsumer,
        ConsumerPops, ConsumerProcesses, ConsumerFinishes, MainThrows,
        IngestThrows, CloseOrJoinThrows, ConsumerThrows, BufferClosedEarly
  <2> QED BY <2>2, ReportIsComplete
<1> QED BY <1>1, <1>2, <1>3 DEF Stream!Conclude, Outcome

\* Every execution of the host is one of the abstract stream: the processor
\* sees well-formed inputs, each at most once and in order, and main returns 0
\* only when it has seen them all, whichever thread throws and whoever closes
\* the buffer.
THEOREM HostIsAStream == Spec => ImplementsStream
<1>1. Init => Stream!Init
  <2> SUFFICES ASSUME Init PROVE Stream!Init
    OBVIOUS
  <2>1. inputs \in Seq(RawFrames) /\ DOMAIN inputs = 1..Len(inputs)
    BY DEF Init
  <2> QED BY <2>1 DEF Init, Running, Stream!Init
<1>2. Typed /\ Typed' /\ Joined /\ NothingIsLost /\ Settled /\ Settled'
          /\ [Next]_vars
      => [Stream!Next]_(Stream!streamVars)
  <2> SUFFICES ASSUME Typed, Typed', Joined, NothingIsLost, Settled, Settled',
                      [Next]_vars
               PROVE  [Stream!Next]_(Stream!streamVars)
    OBVIOUS
  <2>1. CASE ConsumerProcesses
    BY <2>1, ProcessingDelivers DEF Stream!Next
  <2>2. CASE ~ConsumerProcesses /\ mainPc # "exited" /\ mainPc' = "exited"
    BY <2>2, ExitConcludes DEF Stream!Next
  <2>3. CASE ~ConsumerProcesses /\ ~(mainPc # "exited" /\ mainPc' = "exited")
    <3>1. inputs' = inputs /\ delivered' = delivered
      BY <2>3, StatisticsWriters
    <3>2. exitCode' = exitCode
      BY <2>3
      DEF Next, Main, Consumer, Environment, Exited, vars, mainVars,
          StartConsumer, IngestRejects, IngestParses, PushSucceeds,
          RecordAccepted, PushFindsClosed, IngestEnds, CloseBuffer,
          JoinConsumer, CheckFails, PrintReport, UnwindCloses, UnwindJoins,
          DestroyConsumer, ConsumerPops, ConsumerFinishes, MainThrows,
          IngestThrows, CloseOrJoinThrows, ConsumerThrows, BufferClosedEarly
    <3> QED BY <3>1, <3>2 DEF Stream!streamVars
  <2> QED BY <2>1, <2>2, <2>3
<1> QED BY <1>1, <1>2, TypedAlways, JoinedAlways, NothingLost, SettledAlways,
           PTL
        DEF Spec, ImplementsStream, Stream!Spec

-----------------------------------------------------------------------------
(* What main reports is what a sequential program would.                    *)

\* The turns of a sequential run, one for each raw frame.
Turns(stream) ==
    [p \in DOMAIN stream |->
        [stats \in Statistics |->
            IF WellFormed(stream[p])
            THEN RecordProcessed(stats, stream[p].frame)
            ELSE stats]]

\* The statistics it goes through.
Agreeing == {stats \in Statistics : RangeAgrees(stats)}

\* A sequential run, frame by frame: a well-formed one is recorded and another
\* one changes nothing.
LEMMA SequentialTurns ==
    ASSUME TypeOK
    PROVE  /\ SequentialStatistics(inputs, 0) = NoStatistics
           /\ \A p \in 1..Len(inputs) :
                  SequentialStatistics(inputs, p) =
                      IF WellFormed(inputs[p])
                      THEN RecordProcessed(SequentialStatistics(inputs, p - 1),
                                           inputs[p].frame)
                      ELSE SequentialStatistics(inputs, p - 1)
<1> DEFINE N == Len(inputs)
           run(p) == Iterate(Turns(inputs), NoStatistics, p)
<1>1. \A p : SequentialStatistics(inputs, p) = run(p)
  BY DEF SequentialStatistics, Turns
<1>2. N \in Nat /\ DOMAIN inputs = 1..N
  BY InputsTyped
<1>3. NoStatistics \in Agreeing
  BY NoValueAssumption
  DEF Agreeing, NoStatistics, Statistics, EmptyTrack, Tracks, RangeAgrees
<1>4. ASSUME NEW p \in 1..N, NEW stats \in Agreeing
      PROVE  /\ Turns(inputs)[p][stats] =
                    IF WellFormed(inputs[p])
                    THEN RecordProcessed(stats, inputs[p].frame) ELSE stats
             /\ Turns(inputs)[p][stats] \in Agreeing
  <2>1. Turns(inputs)[p][stats] =
            IF WellFormed(inputs[p])
            THEN RecordProcessed(stats, inputs[p].frame) ELSE stats
    BY <1>2, <1>4 DEF Turns, Agreeing
  <2>2. RecordProcessed(stats, inputs[p].frame) \in Agreeing
    BY <1>4, InputsTyped, RecordingTyped DEF Agreeing
  <2> QED BY <2>1, <2>2
<1>5. StaysIn(Agreeing, Turns(inputs), NoStatistics, N)
  BY <1>2, <1>3, <1>4 DEF StaysIn
<1>6. /\ run(0) = NoStatistics
      /\ \A p \in 1..N : run(p) = Turns(inputs)[p][run(p - 1)]
      /\ \A p \in 0..N : run(p) \in Agreeing
  BY <1>5, IterateTurns
<1> HIDE DEF run
<1>7. ASSUME NEW p \in 1..N
      PROVE  run(p) = IF WellFormed(inputs[p])
                      THEN RecordProcessed(run(p - 1), inputs[p].frame)
                      ELSE run(p - 1)
  <2>1. run(p - 1) \in Agreeing
    BY <1>2, <1>6
  <2> QED BY <1>4, <1>6, <2>1
<1> QED BY <1>1, <1>6, <1>7

\* Frames that do not parse change nothing.
LEMMA MalformedSkipped ==
    ASSUME TypeOK, NEW first \in Nat, NEW last \in Nat, first <= last,
           last <= Len(inputs),
           \A p \in (first + 1)..last : ~WellFormed(inputs[p])
    PROVE  SequentialStatistics(inputs, last) =
               SequentialStatistics(inputs, first)
<1> DEFINE run(p) == SequentialStatistics(inputs, p)
           S == {n \in Nat : first + n <= last => run(first + n) = run(first)}
<1>1. 0 \in S
  OBVIOUS
<1>2. ASSUME NEW n \in S, first + (n + 1) <= last
      PROVE  run(first + (n + 1)) = run(first)
  <2> DEFINE p == first + (n + 1)
  <2>1. /\ p \in 1..Len(inputs) /\ p \in (first + 1)..last
        /\ p - 1 = first + n /\ first + n <= last
    BY <1>2, InputsTyped
  <2>2. run(p) = run(p - 1)
    BY <2>1, SequentialTurns
  <2>3. run(first + n) = run(first)
    BY <1>2, <2>1
  <2> QED BY <2>1, <2>2, <2>3
<1>3. S = Nat
  <2>1. \A n \in S : n + 1 \in S
    BY <1>2
  <2> HIDE DEF S
  <2>2. S \in SUBSET Nat
    BY DEF S
  <2> QED BY <1>1, <2>1, <2>2, Induction
<1> HIDE DEF run
<1>4. \A n \in Nat : first + n <= last => run(first + n) = run(first)
  BY <1>3
<1>5. last - first \in Nat /\ first + (last - first) = last
  OBVIOUS
<1>6. run(last) = run(first)
  BY <1>4, <1>5
<1> QED BY <1>6 DEF run

\* The position of the frame processed last.
Latest == IF delivered = <<>> THEN 0 ELSE delivered[Len(delivered)]

\* The statistics are those of a sequential run up to the frame processed
\* last.
Sequenced == statistics = SequentialStatistics(inputs, Latest)

\* The frames delivered are the well-formed ones up to the latest, whatever is
\* on its way behind it.
LEMMA LatestTyped ==
    ASSUME Typed, NothingIsLost
    PROVE  /\ Latest \in 0..Len(inputs)
           /\ \A k \in 1..Len(delivered) :
                  /\ delivered[k] \in 1..Len(inputs)
                  /\ delivered[k] <= Latest
                  /\ k \in DOMAIN Pipeline /\ Pipeline[k] = delivered[k]
<1> DEFINE n == Len(delivered)
           N == Len(inputs)
<1>1. /\ n \in Nat /\ N \in Nat /\ (delivered = <<>> <=> n = 0)
      /\ \A k \in 1..n : delivered[k] \in 1..N
  BY PipelineTyped, InputsTyped, ElementOfSeq, EmptySeq DEF Typed
<1>2. ASSUME NEW k \in 1..n
      PROVE  k \in DOMAIN Pipeline /\ Pipeline[k] = delivered[k]
  <2> DEFINE before == delivered \o Held
  <2>1. /\ before[k] = delivered[k] /\ Len(before) = n + Len(Held)
        /\ Len(Held) \in Nat /\ Len(buffer) \in Nat
    BY PipelineTyped, ConcatProperties
  <2>2. Pipeline[k] = before[k]
    <3>1. \A i \in 1..(Len(before) + Len(buffer)) :
              Pipeline[i] = IF i <= Len(before) THEN before[i]
                            ELSE buffer[i - Len(before)]
      BY PipelineTyped, ConcatProperties DEF Pipeline
    <3>2. k \in 1..(Len(before) + Len(buffer)) /\ k <= Len(before)
      BY <1>1, <2>1
    <3> HIDE DEF before
    <3> QED BY <3>1, <3>2
  <2>3. k \in 1..Len(Pipeline)
    BY <1>1, PipelineTyped
  <2> HIDE DEF before, n
  <2> QED BY <2>1, <2>2, <2>3, PipelineTyped
<1> HIDE DEF n, N
<1>3. ASSUME NEW k \in 1..n PROVE delivered[k] <= Latest
  <2>1. /\ Latest = delivered[n] /\ n \in 1..n /\ delivered[n] \in 1..N
        /\ delivered[k] \in 1..N /\ k \in Nat /\ n \in Nat /\ k <= n
    BY <1>1, <1>3 DEF Latest, n
  <2>2. CASE k = n
    BY <1>1, <2>1, <2>2
  <2>3. CASE k < n
    <3>1. Pipeline[k] < Pipeline[n]
      BY <1>2, <2>1, <2>3 DEF NothingIsLost
    <3>2. delivered[k] < delivered[n]
      BY <1>2, <2>1, <3>1
    <3> QED BY <1>1, <2>1, <3>2
  <2> QED BY <2>1, <2>2, <2>3
<1>4. Latest \in 0..N
  BY <1>1 DEF Latest, n
<1> QED BY <1>1, <1>2, <1>3, <1>4 DEF n, N

\* No well-formed frame lies between the latest and the one in the consumer's
\* hand.
LEMMA NothingBetween ==
    ASSUME Typed, NothingIsLost, consumerPc = "process"
    PROVE  /\ Latest < held
           /\ \A p \in (Latest + 1)..(held - 1) : ~WellFormed(inputs[p])
<1> DEFINE n == Len(delivered)
<1>1. /\ held \in 1..Len(inputs) /\ \A k \in 1..n : delivered[k] < held
      /\ n \in Nat /\ Len(inputs) \in Nat /\ (delivered = <<>> <=> n = 0)
  BY HeldIsNext, PipelineTyped, InputsTyped, EmptySeq DEF Typed
<1>2. Latest < held
  BY <1>1 DEF Latest
<1>3. n + 1 \in DOMAIN Pipeline /\ Pipeline[n + 1] = held
  <2> DEFINE before == delivered \o Held
  <2>1. Held = <<held>>
    BY DEF Held
  <2>2. Len(before) = n + 1 /\ before[n + 1] = held
    BY <1>1, <2>1, PipelineTyped, ConcatProperties
  <2>3. /\ \A i \in 1..(Len(before) + Len(buffer)) :
               Pipeline[i] = IF i <= Len(before) THEN before[i]
                             ELSE buffer[i - Len(before)]
        /\ Len(buffer) \in Nat /\ DOMAIN Pipeline = 1..Len(Pipeline)
        /\ Len(Pipeline) = n + 1 + Len(buffer)
    BY <2>1, PipelineTyped, ConcatProperties DEF Pipeline
  <2> HIDE DEF before
  <2>4. n + 1 \in 1..(Len(before) + Len(buffer))
    BY <1>1, <2>2, <2>3
  <2> QED BY <1>1, <2>2, <2>3, <2>4
<1> HIDE DEF n
<1>4. ASSUME NEW p \in (Latest + 1)..(held - 1), WellFormed(inputs[p])
      PROVE  FALSE
  <2>1. Latest \in 0..Len(inputs)
    BY LatestTyped
  <2>2. p \in Nat /\ 1 <= p /\ p < held /\ Latest < p
    BY <1>1, <1>4, <2>1
  <2>3. held \in Pushed
    BY <1>3 DEF NothingIsLost
  <2>4. p \in Pushed
    <3>1. position \in Nat
      BY InputsTyped DEF Typed, TypeOK
    <3> QED BY <1>1, <1>4, <2>2, <2>3, <3>1 DEF Pushed
  <2>5. PICK k \in DOMAIN Pipeline : Pipeline[k] = p
    BY <2>4 DEF NothingIsLost
  <2>6. k \in 1..Len(Pipeline) /\ k \in Nat
    BY <2>5, PipelineTyped
  <2>7. CASE k <= n
    BY <1>1, <2>1, <2>2, <2>5, <2>6, <2>7, LatestTyped DEF n
  <2>8. CASE k = n + 1
    BY <1>1, <1>3, <2>2, <2>5, <2>8
  <2>9. CASE k > n + 1
    <3>1. held < p
      BY <1>1, <1>3, <2>5, <2>9 DEF NothingIsLost
    <3> QED BY <1>1, <2>2, <3>1
  <2>10. n \in Nat
    BY <1>1
  <2> QED BY <2>6, <2>7, <2>8, <2>9, <2>10
<1> QED BY <1>2, <1>4

\* Processing a frame takes the sequential run to its position.
LEMMA SequencedStep ==
    ASSUME Typed, NothingIsLost, Sequenced, [Next]_vars
    PROVE  Sequenced'
<1>1. CASE ConsumerProcesses
  <2>1. /\ consumerPc = "process" /\ WellFormed(inputs[held])
        /\ held \in 1..Len(inputs) /\ inputs' = inputs
        /\ statistics' = RecordProcessed(statistics, inputs[held].frame)
        /\ delivered' = Append(delivered, held)
    BY <1>1, HeldIsNext DEF ConsumerProcesses
  <2>2. Latest' = held
    <3>1. /\ delivered' # <<>> /\ delivered'[Len(delivered')] = held
      <4> DEFINE S == 1..Len(inputs)
      <4>0. delivered \in Seq(S) /\ held \in S
        BY <2>1, PipelineTyped
      <4> HIDE DEF S
      <4>1. /\ Append(delivered, held) # <<>>
            /\ Len(Append(delivered, held)) = Len(delivered) + 1
            /\ Append(delivered, held)[Len(delivered) + 1] = held
        BY <4>0, AppendProperties
      <4> QED BY <2>1, <4>1
    <3> QED BY <3>1 DEF Latest
  <2>3. SequentialStatistics(inputs, held - 1) =
            SequentialStatistics(inputs, Latest)
    <3>1. /\ Latest \in Nat /\ held - 1 \in Nat /\ Latest <= held - 1
          /\ held - 1 <= Len(inputs)
      BY <2>1, NothingBetween, LatestTyped, InputsTyped DEF Typed
    <3>2. \A p \in (Latest + 1)..(held - 1) : ~WellFormed(inputs[p])
      BY <2>1, NothingBetween
    <3> QED BY <3>1, <3>2, MalformedSkipped DEF Typed
  <2>4. SequentialStatistics(inputs, held) =
            RecordProcessed(SequentialStatistics(inputs, held - 1),
                            inputs[held].frame)
    BY <2>1, SequentialTurns DEF Typed
  <2>5. statistics' = SequentialStatistics(inputs, held)
    BY <2>1, <2>3, <2>4 DEF Sequenced
  <2> QED BY <2>1, <2>2, <2>5 DEF Sequenced
<1>2. CASE ~ConsumerProcesses
  BY <1>2, StatisticsWriters DEF Sequenced, Latest, processVars
<1> QED BY <1>1, <1>2

\* Until main unwinds it has received the inputs before its position, and the
\* one it is at once it holds it; it has not met a closed queue while the
\* ingestion has not failed.
Received ==
    ingestionSucceeded =>
        /\ counters.queue_closed_rejections = 0
        /\ mainPc \in {"start", "ingest", "close", "join", "check"} =>
               counters.inputs_received = position - 1
        /\ mainPc \in {"push", "record_accepted"} =>
               counters.inputs_received = position

\* A step keeps it so.
LEMMA ReceivedStep == ASSUME Typed, Received, [Next]_vars PROVE Received'
<1>1. CASE StartConsumer
  BY <1>1 DEF StartConsumer, Received
<1>2. CASE IngestRejects
  <2>1. inputs[position].error \in ParseErrors /\ position \in Nat
    BY <1>2, InputsTyped DEF IngestRejects, Typed, TypeOK, WellFormed
  <2>2. RecordInput(counters) \in Counters
    BY CountsTyped, CountersTyped
  <2>3. /\ counters'.inputs_received = counters.inputs_received + 1
        /\ counters'.queue_closed_rejections =
               counters.queue_closed_rejections
    BY <1>2, <2>1, <2>2, CountsTyped, CounterFields, RejectionFields, SMTT(30)
    DEF IngestRejects
  <2> QED BY <1>2, <2>1, <2>3, CountsTyped DEF IngestRejects, Received
<1>3. CASE IngestParses
  <2>1. position \in Nat
    BY InputsTyped DEF Typed, TypeOK
  <2> QED
    BY <1>3, <2>1, CountsTyped, CounterFields, SMTT(30)
    DEF IngestParses, Received
<1>4. CASE PushSucceeds
  BY <1>4 DEF PushSucceeds, Received
<1>5. CASE RecordAccepted
  <2>1. position \in Nat
    BY InputsTyped DEF Typed, TypeOK
  <2> QED
    BY <1>5, <2>1, CountsTyped, CounterFields, SMTT(30)
    DEF RecordAccepted, Received
<1>6. CASE PushFindsClosed
  BY <1>6 DEF PushFindsClosed, Received
<1>7. CASE ~(\/ StartConsumer \/ IngestRejects \/ IngestParses
             \/ PushSucceeds \/ RecordAccepted \/ PushFindsClosed)
  <2>1. UNCHANGED <<counters, position, ingestionSucceeded>>
    BY <1>7
    DEF Next, Main, Consumer, Environment, Exited, vars, mainVars, IngestEnds,
        CloseBuffer, JoinConsumer, CheckFails, PrintReport, UnwindCloses,
        UnwindJoins, DestroyConsumer, ConsumerPops, ConsumerProcesses,
        ConsumerFinishes, MainThrows, IngestThrows, CloseOrJoinThrows,
        ConsumerThrows, BufferClosedEarly
  <2>2. \/ mainPc' = mainPc
        \/ mainPc' \notin {"start", "ingest", "push", "record_accepted",
                           "close", "join", "check"}
        \/ /\ mainPc \in {"start", "ingest", "close", "join", "check"}
           /\ mainPc' \in {"start", "ingest", "close", "join", "check"}
    BY <1>7
    DEF Next, Main, Consumer, Environment, Exited, vars, mainVars, IngestEnds,
        CloseBuffer, JoinConsumer, CheckFails, PrintReport, UnwindCloses,
        UnwindJoins, DestroyConsumer, ConsumerPops, ConsumerProcesses,
        ConsumerFinishes, MainThrows, IngestThrows, CloseOrJoinThrows,
        ConsumerThrows, BufferClosedEarly
  <2> QED BY <2>1, <2>2 DEF Received
<1> QED BY <1>1, <1>2, <1>3, <1>4, <1>5, <1>6, <1>7

\* What the report rests on holds in every reachable state.
LEMMA SequencedAlways == Spec => [](Sequenced /\ Received)
<1>1. Init => Sequenced /\ Received
  <2> SUFFICES ASSUME Init PROVE Sequenced /\ Received
    OBVIOUS
  <2>1. TypeOK /\ Latest = 0 /\ statistics = NoStatistics
    BY InitTyped DEF Init, Latest, Typed
  <2>2. Sequenced
    BY <2>1, SequentialTurns DEF Sequenced
  <2>3. Received
    BY DEF Init, NoCounters, Received
  <2> QED BY <2>2, <2>3
<1>2. Typed /\ NothingIsLost /\ Sequenced /\ Received /\ [Next]_vars
          => (Sequenced /\ Received)'
  BY SequencedStep, ReceivedStep
<1> QED BY <1>1, <1>2, TypedAlways, NothingLost, PTL DEF Spec

\* The well-formed and the malformed inputs are all inputs.
LEMMA InputsCounted ==
    ASSUME TypeOK
    PROVE  LET malformed == {p \in DOMAIN inputs : ~WellFormed(inputs[p])}
           IN  /\ NumberOf(inputs, "none") \in Nat
               /\ Cardinality(malformed) \in Nat
               /\ NumberOf(inputs, "none") + Cardinality(malformed) =
                      Len(inputs)
<1> DEFINE N == Len(inputs)
           malformed == {p \in DOMAIN inputs : ~WellFormed(inputs[p])}
           wellFormed == {p \in DOMAIN inputs : inputs[p].error = "none"}
<1>1. N \in Nat /\ DOMAIN inputs = 1..N
  BY InputsTyped
<1>2. IsFiniteSet(1..N) /\ Cardinality(1..N) = N
  <2> HIDE DEF N
  <2>1. Cardinality(1..N) = IF 1 > N THEN 0 ELSE N - 1 + 1
    BY <1>1, FS_Interval
  <2> QED BY <1>1, <2>1, FS_Interval
<1>3. /\ malformed \subseteq 1..N /\ wellFormed = (1..N) \ malformed
  BY <1>1 DEF WellFormed
<1> HIDE DEF malformed, wellFormed, N
<1>4. IsFiniteSet(malformed) /\ Cardinality(malformed) \in Nat
  BY <1>2, <1>3, FS_Subset, FS_CardinalityType
<1>5. IsFiniteSet(wellFormed) /\ Cardinality(wellFormed) \in Nat
  BY <1>2, <1>3, FS_Subset, FS_CardinalityType
<1>6. /\ malformed \cup wellFormed = 1..N
      /\ malformed \cap wellFormed = {}
  BY <1>3
<1>7. Cardinality(malformed \cup wellFormed) =
          Cardinality(malformed) + Cardinality(wellFormed)
              - Cardinality(malformed \cap wellFormed)
  BY <1>4, <1>5, FS_Union
<1>8. Cardinality(malformed) + Cardinality(wellFormed) = N
  <2>1. Cardinality(malformed \cap wellFormed) = 0
    BY <1>6, FS_EmptySet
  <2>2. Cardinality(malformed \cup wellFormed) = N
    BY <1>2, <1>6
  <2> QED BY <1>1, <1>4, <1>5, <1>7, <2>1, <2>2
<1> QED
  BY <1>4, <1>5, <1>8 DEF malformed, wellFormed, N, NumberOf

\* The snapshot that main prints is the report of a sequential run.
LEMMA SnapshotIsSequential ==
    ASSUME Typed, Joined, NothingIsLost, Accounting, Settled, Sequenced,
           Received, PrintReport
    PROVE  Snapshot = SequentialReport(inputs)
<1> DEFINE N == Len(inputs)
<1>1. /\ mainPc = "check" /\ ingestionSucceeded /\ position = N + 1
      /\ N \in Nat /\ DOMAIN inputs = 1..N
  BY InputsTyped DEF PrintReport, Operational, Settled, Typed
<1>2. /\ counters.queue_closed_rejections = 0
      /\ counters.inputs_received = N
  BY <1>1 DEF Received
<1>3. /\ Malformed = {p \in DOMAIN inputs : ~WellFormed(inputs[p])}
      /\ \A error \in ParseErrors :
             Passed(error) = {p \in DOMAIN inputs : inputs[p].error = error}
  BY <1>1 DEF Malformed, Passed
<1>4. /\ counters.frames_rejected = Cardinality(Malformed)
      /\ \A error \in ParseErrors :
             counters.parse_errors[error] = NumberOf(inputs, error)
  <2>1. /\ counters.frames_rejected =
               Cardinality(Malformed) + counters.queue_closed_rejections
        /\ \A error \in ParseErrors :
               counters.parse_errors[error] = Cardinality(Passed(error))
    BY DEF Accounting, RejectionsAccounted
  <2>2. Cardinality(Malformed) \in Nat
    BY <1>3, InputsCounted DEF Typed
  <2>3. counters.frames_rejected = Cardinality(Malformed)
    BY <1>2, <2>1, <2>2
  <2>4. ASSUME NEW error \in ParseErrors
        PROVE  counters.parse_errors[error] = NumberOf(inputs, error)
    BY <1>3, <2>1 DEF NumberOf
  <2> QED BY <2>3, <2>4
<1>5. /\ counters.frames_rejected = N - NumberOf(inputs, "none")
      /\ counters.frames_accepted = NumberOf(inputs, "none")
  <2>1. counters.inputs_received
            - (counters.frames_accepted + counters.frames_rejected) = 0
    BY <1>1 DEF Accounting, InputsAccounted, InHand
  <2>2. /\ NumberOf(inputs, "none") \in Nat
        /\ NumberOf(inputs, "none") + Cardinality(Malformed) = N
    BY <1>3, InputsCounted DEF Typed
  <2> QED BY <1>1, <1>2, <1>4, <2>1, <2>2, CountsTyped
<1>6. counters = SequentialReport(inputs).counters
  <2>1. counters.parse_errors =
            [error \in ParseErrors |-> NumberOf(inputs, error)]
    BY <1>4, CountsTyped
  <2>2. counters = [inputs_received |-> counters.inputs_received,
                    frames_accepted |-> counters.frames_accepted,
                    frames_rejected |-> counters.frames_rejected,
                    queue_closed_rejections |->
                        counters.queue_closed_rejections,
                    parse_errors |-> counters.parse_errors]
    BY CountsTyped DEF Counters
  <2>3. SequentialReport(inputs).counters =
            [inputs_received |-> N,
             frames_accepted |-> NumberOf(inputs, "none"),
             frames_rejected |-> N - NumberOf(inputs, "none"),
             queue_closed_rejections |-> 0,
             parse_errors |->
                 [error \in ParseErrors |-> NumberOf(inputs, error)]]
    BY DEF SequentialReport
  <2> QED BY <1>2, <1>5, <2>1, <2>2, <2>3
<1>7. statistics = SequentialStatistics(inputs, N)
  <2>1. Latest \in 0..N
    BY LatestTyped
  <2>2. ASSUME NEW p \in (Latest + 1)..N, WellFormed(inputs[p])
        PROVE  FALSE
    <3>1. p \in 1..N
      BY <1>1, <2>1, <2>2
    <3>2. p \in {delivered[k] : k \in DOMAIN delivered}
      BY <1>1, <2>2, <3>1, ReportIsComplete DEF Stream!Complete
    <3>3. PICK k \in 1..Len(delivered) : delivered[k] = p
      BY <3>2, PipelineTyped, LenProperties
    <3>4. p <= Latest
      BY <3>3, LatestTyped
    <3> QED BY <1>1, <2>1, <2>2, <3>4
  <2>3. SequentialStatistics(inputs, N) = SequentialStatistics(inputs, Latest)
    BY <1>1, <2>1, <2>2, MalformedSkipped DEF Typed
  <2> QED BY <2>3 DEF Sequenced
<1> QED BY <1>6, <1>7 DEF Snapshot, SequentialReport

\* A run that returns 0 reports what a sequential program would have of the
\* same inputs: every counter and statistic, whatever the interleaving, the
\* capacity, the exceptions and who closed the buffer.
THEOREM ReportSequential == Spec => []ReportIsSequential
<1>1. Init => ReportIsSequential
  BY DEF Init, Running, ReportIsSequential
<1>2. Typed /\ Joined /\ NothingIsLost /\ Accounting /\ Settled /\ Sequenced
          /\ Received /\ ReportIsSequential /\ [Next]_vars
      => ReportIsSequential'
  <2> SUFFICES ASSUME Typed, Joined, NothingIsLost, Accounting, Settled,
                      Sequenced, Received, ReportIsSequential, [Next]_vars,
                      exitCode' = 0
               PROVE  report' = SequentialReport(inputs')
    BY DEF ReportIsSequential
  <2>1. CASE PrintReport
    <3>1. report' = Snapshot /\ inputs' = inputs
      BY <2>1 DEF PrintReport
    <3> QED BY <2>1, <3>1, SnapshotIsSequential
  <2>2. CASE ~PrintReport
    <3>1. exitCode = 0 /\ report' = report /\ inputs' = inputs
      BY <2>2
      DEF Next, Main, Consumer, Environment, Exited, vars, mainVars,
          StartConsumer, IngestRejects, IngestParses, PushSucceeds,
          RecordAccepted, PushFindsClosed, IngestEnds, CloseBuffer,
          JoinConsumer, CheckFails, UnwindCloses, UnwindJoins,
          DestroyConsumer, ConsumerPops, ConsumerProcesses, ConsumerFinishes,
          MainThrows, IngestThrows, CloseOrJoinThrows, ConsumerThrows,
          BufferClosedEarly
    <3> QED BY <3>1 DEF ReportIsSequential
  <2> QED BY <2>1, <2>2
<1> QED
  BY <1>1, <1>2, TypedAlways, JoinedAlways, NothingLost, CountersAgree,
     SettledAlways, SequencedAlways, PTL
  DEF Spec
=============================================================================
