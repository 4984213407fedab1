----------------------- MODULE TelemetryFirmware_proofs -----------------------
(****************************************************************************)
(* Proofs about TelemetryFirmware, for every number of samples, capacity    *)
(* and number of purges.                                                    *)
(*                                                                          *)
(* SummaryIsTruthful is not inductive.  The argument goes through the order *)
(* of the items on their way: the frames printed, the item the transmitter  *)
(* holds, the buffered items and the item the producer puts always have     *)
(* increasing positions.  Each printed frame is therefore at least as far   *)
(* in the stream as in the console, and at least as far from the last       *)
(* sample as from the last line; when the metrics count SampleCount lines   *)
(* both bounds meet, and line k shows frame k.                              *)
(*                                                                          *)
(* Then come what is lost and who waits, the refinement of the stream, the  *)
(* strict priorities, and the capture with its three judges.                *)
(****************************************************************************)
EXTENDS FirmwareCapture, SequenceTheorems, FiniteSetTheorems, TLAPS

USE SampleCountAssumption, QueueCapacityAssumption, MaxPurgesAssumption

\* The executions whatever the scheduler does: Spec without its fairness, of
\* which those under priorities and those that are captured are instances.
AnySchedule == Init /\ [][Next]_vars

(* Typing.                                                                  *)

\* Recording a metric keeps the counters naturals.
LEMMA RecordTyped ==
    ASSUME metrics \in [MetricNames -> Nat], NEW name \in MetricNames
    PROVE  Record(name) \in [MetricNames -> Nat]
BY DEF Record

\* Sampling records two metrics.
LEMMA SampleTyped ==
    ASSUME metrics \in [MetricNames -> Nat], ProducerSample
    PROVE  metrics' \in [MetricNames -> Nat]
<1>1. "samples_generated" \in MetricNames /\ "frames_serialized" \in MetricNames
  BY DEF MetricNames
<1>2. Record("samples_generated") \in [MetricNames -> Nat]
  BY <1>1, RecordTyped
<1>3. QED
  BY <1>1, <1>2 DEF ProducerSample

\* Taking the head of the queue leaves a queue, no longer than before.
LEMMA TakeTyped ==
    ASSUME queue \in Seq(Items), queue # <<>>, producerItem \in Items
    PROVE  /\ Head(queue) \in Items
           /\ Tail(queue) \in Seq(Items)
           /\ Len(Tail(queue)) + 1 = Len(queue)
           /\ Append(Tail(queue), producerItem) \in Seq(Items)
           /\ Len(Append(Tail(queue), producerItem)) = Len(queue)
OBVIOUS

\* Every schedule keeps the types.
LEMMA TypeSafe == AnySchedule => []TypeOK
<1>1. Init => TypeOK
  <2> SUFFICES ASSUME Init PROVE TypeOK
    OBVIOUS
  <2>1. metrics \in [MetricNames -> Nat]
    BY DEF Init
  <2>2. /\ queue \in Seq(Items) /\ Len(queue) = 0
        /\ lines \in Seq([number : Nat, frame : Nat])
    BY DEF Init
  <2>3. producerItem \in Items /\ transmitterItem \in Items
    BY DEF Init, Items, EndItem
  <2>4. verdict \in [status : {"NONE", "SUMMARY", "ERROR"}, produced : Nat,
                     transmitted : Nat, queue_errors : Nat]
    BY DEF Init, NoVerdict
  <2>5. /\ producerPc \in ProducerStates
        /\ transmitterPc \in TransmitterStates
        /\ mainPc \in MainStates
        /\ putResult \in Results /\ getResult \in Results
    BY DEF Init, Results, ProducerStates, TransmitterStates, MainStates
  <2>6. /\ sensorIndex \in 0..SampleCount /\ purges \in 0..MaxPurges
        /\ producerFinished \in 0..1 /\ transmitterFinished \in 0..1
    BY DEF Init
  <2>7. producerSucceeded \in BOOLEAN /\ transmitterSucceeded \in BOOLEAN
    BY DEF Init
  <2>8. QED
    BY <2>1, <2>2, <2>3, <2>4, <2>5, <2>6, <2>7 DEF TypeOK
<1>2. TypeOK /\ [Next]_vars => TypeOK'
  <2> SUFFICES ASSUME TypeOK, [Next]_vars
               PROVE  TypeOK'
    OBVIOUS
  <2> USE DEF TypeOK, Results, ProducerStates, TransmitterStates,
              MainStates, besideProducer, besideTransmitter, besideMain,
              sensorVars, producerVars, transmitterVars,
              semaphoreVars, mainVars
  <2>1. CASE ProducerSample
    <3>1. metrics' \in [MetricNames -> Nat]
      BY <2>1, SampleTyped
    <3>2. producerItem' \in Items
      BY <2>1 DEF ProducerSample, HasNext, FrameItem, Items
    <3>3. sensorIndex' \in 0..SampleCount
      BY <2>1 DEF ProducerSample, HasNext
    <3>4. UNCHANGED <<queue, putResult, producerSucceeded, transmitterVars,
                      semaphoreVars, lines, mainVars, purges>>
          /\ producerPc' = "put"
      BY <2>1 DEF ProducerSample
    <3>5. QED
      BY <3>1, <3>2, <3>3, <3>4
  <2>2. CASE ProducerFinishStream
    BY <2>2 DEF ProducerFinishStream, EndItem, Items
  <2>3. CASE PutHandsOver
    BY <2>3 DEF PutHandsOver
  <2>4. CASE PutBuffers
    BY <2>4 DEF PutBuffers
  <2>5. CASE PutPends
    BY <2>5 DEF PutPends
  <2>6. CASE ProducerCountsFrame
    <3>1. "frames_enqueued" \in MetricNames
      BY DEF MetricNames
    <3>2. QED
      BY <2>6, <3>1, RecordTyped DEF ProducerCountsFrame
  <2>7. CASE ProducerCountsEndMarker
    <3>1. "end_markers_sent" \in MetricNames
      BY DEF MetricNames
    <3>2. QED
      BY <2>7, <3>1, RecordTyped DEF ProducerCountsEndMarker
  <2>8. CASE ProducerPushFails
    <3>1. "queue_push_failures" \in MetricNames
      BY DEF MetricNames
    <3>2. QED
      BY <2>8, <3>1, RecordTyped DEF ProducerPushFails
  <2>9. CASE ProducerGives
    BY <2>9 DEF ProducerGives
  <2>10. CASE GetTakes
    BY <2>10, TakeTyped DEF GetTakes
  <2>11. CASE GetTakesAndAdmits
    BY <2>11, TakeTyped DEF GetTakesAndAdmits
  <2>12. CASE GetPends
    BY <2>12 DEF GetPends
  <2>13. CASE TransmitterPrints
    <3>1. transmitterItem.frame \in Nat
      BY DEF Items
    <3>2. QED
      BY <2>13, <3>1 DEF TransmitterPrints
  <2>14. CASE TransmitterCountsFrame
    <3>1. "frames_transmitted" \in MetricNames
      BY DEF MetricNames
    <3>2. QED
      BY <2>14, <3>1, RecordTyped DEF TransmitterCountsFrame
  <2>15. CASE TransmitterCountsEndMarker
    <3>1. "end_markers_received" \in MetricNames
      BY DEF MetricNames
    <3>2. QED
      BY <2>15, <3>1, RecordTyped DEF TransmitterCountsEndMarker
  <2>16. CASE TransmitterPopFails
    <3>1. "queue_pop_failures" \in MetricNames
      BY DEF MetricNames
    <3>2. QED
      BY <2>16, <3>1, RecordTyped DEF TransmitterPopFails
  <2>17. CASE TransmitterGives
    BY <2>17 DEF TransmitterGives
  <2>18. CASE MainCreatesTransmitter
    BY <2>18 DEF MainCreatesTransmitter
  <2>19. CASE MainCreatesProducer
    BY <2>19 DEF MainCreatesProducer
  <2>20. CASE MainJoinsProducer
    BY <2>20 DEF MainJoinsProducer
  <2>21. CASE MainJoinsTransmitter
    BY <2>21 DEF MainJoinsTransmitter
  <2>22. CASE MainReports
    <3>1. /\ metrics.frames_enqueued \in Nat
          /\ metrics.frames_transmitted \in Nat
          /\ metrics.queue_push_failures \in Nat
          /\ metrics.queue_pop_failures \in Nat
      BY DEF MetricNames
    <3>2. verdict' \in [status : {"NONE", "SUMMARY", "ERROR"}, produced : Nat,
                        transmitted : Nat, queue_errors : Nat]
      BY <2>22, <3>1 DEF MainReports
    <3>3. QED
      BY <2>22, <3>2 DEF MainReports
  <2>23. CASE ConstructAnotherQueue
    BY <2>23 DEF ConstructAnotherQueue
  <2>24. CASE UNCHANGED vars
    BY <2>24 DEF vars
  <2> QED
    BY <2>1, <2>2, <2>3, <2>4, <2>5, <2>6, <2>7, <2>8, <2>9, <2>10, <2>11, <2>12, <2>13, <2>14, <2>15, <2>16, <2>17, <2>18, <2>19, <2>20, <2>21, <2>22, <2>23, <2>24
    DEF Next, Producer, Transmitter, Main, Exited
<1>3. QED
  BY <1>1, <1>2, PTL DEF AnySchedule

\* The type invariant of the firmware holds of every execution.
THEOREM TypeCorrect == Spec => []TypeOK
BY TypeSafe, PTL DEF Spec, AnySchedule

-----------------------------------------------------------------------------
(* The order of delivery.                                                   *)

\* Positions are naturals.
LEMMA PositionTyped ==
    ASSUME NEW item \in Items
    PROVE  Position(item) \in 0..(SampleCount + 1)
BY DEF Items, Position

\* The position of the item the producer puts.
LEMMA ProducerPosition ==
    ASSUME TypeOK
    PROVE  /\ Position(FrameItem(sensorIndex)) = sensorIndex
           /\ Position(FrameItem(sensorIndex + 1)) = sensorIndex + 1
           /\ Position(EndItem) = SampleCount + 1
BY DEF Position, FrameItem, EndItem

\* Every buffered item has a position, and every line shows a number.
LEMMA QueuePositions ==
    ASSUME TypeOK
    PROVE  /\ Len(queue) \in Nat
           /\ \A i \in 1..Len(queue) : Position(queue[i]) \in Nat
<1>1. queue \in Seq(Items)
  BY DEF TypeOK
<1>2. Len(queue) \in Nat /\ \A i \in 1..Len(queue) : queue[i] \in Items
  BY <1>1, ElementOfSeq
<1>3. \A item \in Items : Position(item) \in Nat
  BY PositionTyped, SampleCountAssumption
<1>4. QED
  BY <1>2, <1>3

\* Every printed line shows a number, and a console with lines has a last one.
LEMMA LineTyped ==
    ASSUME NEW shown \in Seq([number : Nat, frame : Nat])
    PROVE  /\ Len(shown) \in Nat
           /\ \A k \in 1..Len(shown) : shown[k].frame \in Nat
           /\ shown # <<>> => Len(shown) \in 1..Len(shown)
<1>1. \A k \in 1..Len(shown) : shown[k] \in [number : Nat, frame : Nat]
  BY ElementOfSeq
<1>2. Len(shown) \in Nat /\ (shown # <<>> => Len(shown) \in 1..Len(shown))
  OBVIOUS
<1>3. QED
  BY <1>1, <1>2

\* The bounds of the order are integers, before and after a step.
LEMMA BoundsTyped ==
    ASSUME TypeOK, TypeOK'
    PROVE  /\ LastPrinted \in Nat /\ LastPrinted' \in Nat
           /\ Floor \in Nat /\ Floor' \in Nat
           /\ Ceiling \in Int /\ Ceiling' \in Int
<1>1. LastPrinted \in Nat
  BY LineTyped DEF TypeOK, LastPrinted
<1>2. LastPrinted' \in Nat
  BY LineTyped DEF TypeOK, LastPrinted
<1>3. /\ Position(transmitterItem) \in Nat
      /\ Position(transmitterItem)' \in Nat
      /\ Position(producerItem) \in Nat
      /\ Position(producerItem)' \in Nat
  BY PositionTyped DEF TypeOK
<1>4. sensorIndex \in Nat /\ sensorIndex' \in Nat
  BY DEF TypeOK
<1>5. Floor \in Nat /\ Floor' \in Nat
  BY <1>1, <1>2, <1>3 DEF Floor
<1>6. Ceiling \in Int /\ Ceiling' \in Int
  BY <1>3, <1>4 DEF Ceiling
<1>7. QED
  BY <1>1, <1>2, <1>5, <1>6

\* Widening the bounds keeps an unchanged buffer in order.
LEMMA WiderBounds ==
    ASSUME TypeOK, TypeOK', QueueInOrder, Floor <= Ceiling,
           queue' = queue, Floor' <= Floor, Ceiling <= Ceiling'
    PROVE  QueueInOrder' /\ Floor' <= Ceiling'
<1>1. \A i \in 1..Len(queue) : Position(queue[i]) \in Nat
  BY QueuePositions
<1>2. QED
  BY <1>1, BoundsTyped DEF QueueInOrder

\* Recording any other metric leaves frames_transmitted alone.
LEMMA RecordsOther ==
    ASSUME TypeOK, NEW name \in MetricNames, name # "frames_transmitted"
    PROVE  Record(name).frames_transmitted = metrics.frames_transmitted
BY DEF TypeOK, Record, MetricNames

\* Every step of the firmware keeps the order of delivery.
LEMMA DeliveryOrderStep ==
    ASSUME TypeOK, TypeOK', DeliveryOrder, [Next]_vars
    PROVE  DeliveryOrder'
<1> LinesInOrder /\ QueueInOrder /\ HandsInOrder /\ StartUp /\ CountsLines
  BY DEF DeliveryOrder
<1> USE DEF besideProducer, besideTransmitter, besideMain,
            sensorVars, producerVars, transmitterVars, semaphoreVars, mainVars
<1>1. CASE ProducerSample
  <2>1. LinesInOrder'
    BY <1>1 DEF ProducerSample, LinesInOrder, LastPrinted
  <2>0. Floor' <= Floor /\ Ceiling <= Ceiling'
    <3>1. Floor' <= Floor
      BY <1>1, BoundsTyped DEF ProducerSample, HandsInOrder, Floor, Holding, LastPrinted
    <3>2. Ceiling <= Ceiling'
      BY <1>1, BoundsTyped, ProducerPosition
      DEF ProducerSample, HandsInOrder, Ceiling, TypeOK
    <3>3. QED
      BY <3>1, <3>2
  <2>2. QueueInOrder' /\ Floor' <= Ceiling'
    BY <1>1, <2>0, WiderBounds DEF ProducerSample, HandsInOrder
  <2>3. HandsInOrder'
    BY <1>1, <2>2 DEF ProducerSample, HandsInOrder, LastPrinted, Holding, TypeOK, HasNext
  <2>2a. StartUp'
    BY <1>1 DEF ProducerSample, StartUp
  <2>4. metrics'.frames_transmitted = metrics.frames_transmitted
    BY <1>1 DEF ProducerSample, TypeOK, Record, MetricNames
  <2>5. CountsLines'
    BY <1>1, <2>4 DEF ProducerSample, CountsLines
  <2> QED
    BY <2>1, <2>2, <2>3, <2>2a, <2>5 DEF DeliveryOrder
<1>2. CASE ProducerFinishStream
  <2>1. LinesInOrder'
    BY <1>2 DEF ProducerFinishStream, LinesInOrder, LastPrinted
  <2>0. Floor' <= Floor /\ Ceiling <= Ceiling'
    <3>1. Floor' <= Floor
      BY <1>2, BoundsTyped DEF ProducerFinishStream, HandsInOrder, Floor, Holding, LastPrinted
    <3>2. Ceiling <= Ceiling'
      BY <1>2, BoundsTyped, ProducerPosition
      DEF ProducerFinishStream, HandsInOrder, Ceiling, HasNext, TypeOK
    <3>3. QED
      BY <3>1, <3>2
  <2>2. QueueInOrder' /\ Floor' <= Ceiling'
    BY <1>2, <2>0, WiderBounds DEF ProducerFinishStream, HandsInOrder
  <2>3. HandsInOrder'
    BY <1>2, <2>2 DEF ProducerFinishStream, HandsInOrder, LastPrinted, Holding, TypeOK, HasNext
  <2>4. StartUp'
    BY <1>2 DEF ProducerFinishStream, StartUp
  <2>5. CountsLines'
    BY <1>2 DEF ProducerFinishStream, CountsLines
  <2> QED
    BY <2>1, <2>2, <2>3, <2>4, <2>5 DEF DeliveryOrder
<1>3. CASE PutHandsOver
  <2>1. LinesInOrder'
    BY <1>3 DEF PutHandsOver, LinesInOrder, LastPrinted
  <2>2. QueueInOrder'
    BY <1>3 DEF PutHandsOver, QueueInOrder, HandsInOrder
  <2>3. HandsInOrder'
    <3>1. LastPrinted < Position(producerItem)
      BY <1>3, BoundsTyped, PositionTyped
      DEF PutHandsOver, HandsInOrder, Floor, Ceiling, Holding, TypeOK
    <3>2. Floor' = Position(producerItem) /\ Ceiling' = Position(producerItem)
      BY <1>3 DEF PutHandsOver, Floor, Ceiling, Holding
    <3>3. LastPrinted' = LastPrinted /\ queue' = queue
      BY <1>3 DEF PutHandsOver, LastPrinted
    <3>4. QED
      BY <1>3, <3>1, <3>2, <3>3, PositionTyped
      DEF PutHandsOver, HandsInOrder, Holding, TypeOK
  <2>4. StartUp'
    BY <1>3 DEF PutHandsOver, StartUp
  <2>5. CountsLines'
    BY <1>3 DEF PutHandsOver, CountsLines
  <2> QED
    BY <2>1, <2>2, <2>3, <2>4, <2>5 DEF DeliveryOrder
<1>4. CASE PutBuffers
  <2>1. LinesInOrder'
    BY <1>4 DEF PutBuffers, LinesInOrder, LastPrinted
  <2>0. /\ Floor' = Floor /\ Ceiling' = Ceiling + 1
        /\ Ceiling' = Position(producerItem)
    BY <1>4, PositionTyped
    DEF PutBuffers, Floor, Ceiling, Holding, LastPrinted, TypeOK
  <2>2. QueueInOrder'
    <3>1. /\ Len(queue) \in Nat
          /\ \A i \in 1..Len(queue) : Position(queue[i]) \in Nat
      BY QueuePositions
    <3>2. /\ Len(queue') = Len(queue) + 1
          /\ \A i \in 1..Len(queue) : queue'[i] = queue[i]
          /\ queue'[Len(queue) + 1] = producerItem
      BY <1>4 DEF PutBuffers, TypeOK
    <3>3. \A i \in 1..Len(queue') :
             Floor' < Position(queue'[i]) /\ Position(queue'[i]) <= Ceiling'
      BY <2>0, <3>1, <3>2, BoundsTyped, SMTT(30) DEF QueueInOrder, HandsInOrder
    <3>4. ASSUME NEW i \in 1..Len(queue'), NEW j \in 1..Len(queue'), i < j
          PROVE  Position(queue'[i]) < Position(queue'[j])
      <4>1. i \in 1..Len(queue) /\ queue'[i] = queue[i]
        BY <3>1, <3>2, <3>4
      <4>2. CASE j \in 1..Len(queue)
        BY <3>2, <3>4, <4>1, <4>2 DEF QueueInOrder
      <4>3. CASE j = Len(queue) + 1
        BY <2>0, <3>1, <3>2, <4>1, <4>3, BoundsTyped DEF QueueInOrder
      <4>4. QED
        BY <3>1, <3>2, <4>2, <4>3
    <3>5. QED
      BY <3>3, <3>4 DEF QueueInOrder
  <2>3. HandsInOrder'
    BY <1>4, <2>0, BoundsTyped
    DEF PutBuffers, HandsInOrder, LastPrinted, Holding, TypeOK
  <2>4. StartUp'
    BY <1>4 DEF PutBuffers, StartUp
  <2>5. CountsLines'
    BY <1>4 DEF PutBuffers, CountsLines
  <2> QED
    BY <2>1, <2>2, <2>3, <2>4, <2>5 DEF DeliveryOrder
<1>5. CASE PutPends
  <2>1. LinesInOrder'
    BY <1>5 DEF PutPends, LinesInOrder, LastPrinted
  <2>2. QueueInOrder'
    BY <1>5 DEF PutPends, QueueInOrder, Floor, Ceiling, Holding, LastPrinted, TypeOK
  <2>3. HandsInOrder'
    BY <1>5 DEF PutPends, HandsInOrder, Floor, Ceiling, Holding, LastPrinted, TypeOK
  <2>4. StartUp'
    BY <1>5 DEF PutPends, StartUp
  <2>5. CountsLines'
    BY <1>5 DEF PutPends, CountsLines
  <2> QED
    BY <2>1, <2>2, <2>3, <2>4, <2>5 DEF DeliveryOrder
<1>6. CASE ProducerCountsFrame
  <2>1. LinesInOrder'
    BY <1>6 DEF ProducerCountsFrame, LinesInOrder, LastPrinted
  <2>0. Floor' <= Floor /\ Ceiling <= Ceiling'
    <3>1. Floor' <= Floor
      BY <1>6, BoundsTyped DEF ProducerCountsFrame, HandsInOrder, Floor, Holding, LastPrinted
    <3>2. Ceiling <= Ceiling'
      BY <1>6, BoundsTyped, ProducerPosition
      DEF ProducerCountsFrame, HandsInOrder, Ceiling, FrameItem, EndItem
    <3>3. QED
      BY <3>1, <3>2
  <2>2. QueueInOrder' /\ Floor' <= Ceiling'
    BY <1>6, <2>0, WiderBounds DEF ProducerCountsFrame, HandsInOrder
  <2>3. HandsInOrder'
    BY <1>6, <2>2 DEF ProducerCountsFrame, HandsInOrder, LastPrinted, Holding, TypeOK
  <2>2a. StartUp'
    BY <1>6 DEF ProducerCountsFrame, StartUp
  <2>4. metrics'.frames_transmitted = metrics.frames_transmitted
    BY <1>6, RecordsOther DEF ProducerCountsFrame, MetricNames
  <2>5. CountsLines'
    BY <1>6, <2>4 DEF ProducerCountsFrame, CountsLines
  <2> QED
    BY <2>1, <2>2, <2>3, <2>2a, <2>5 DEF DeliveryOrder
<1>7. CASE ProducerCountsEndMarker
  <2>1. LinesInOrder'
    BY <1>7 DEF ProducerCountsEndMarker, LinesInOrder, LastPrinted
  <2>0. Floor' <= Floor /\ Ceiling <= Ceiling'
    <3>1. Floor' <= Floor
      BY <1>7, BoundsTyped DEF ProducerCountsEndMarker, HandsInOrder, Floor, Holding, LastPrinted
    <3>2. Ceiling <= Ceiling'
      BY <1>7, BoundsTyped, ProducerPosition
      DEF ProducerCountsEndMarker, HandsInOrder, Ceiling, FrameItem, EndItem
    <3>3. QED
      BY <3>1, <3>2
  <2>2. QueueInOrder' /\ Floor' <= Ceiling'
    BY <1>7, <2>0, WiderBounds DEF ProducerCountsEndMarker, HandsInOrder
  <2>3. HandsInOrder'
    BY <1>7, <2>2 DEF ProducerCountsEndMarker, HandsInOrder, LastPrinted, Holding, TypeOK
  <2>2a. StartUp'
    BY <1>7 DEF ProducerCountsEndMarker, StartUp
  <2>4. metrics'.frames_transmitted = metrics.frames_transmitted
    BY <1>7, RecordsOther DEF ProducerCountsEndMarker, MetricNames
  <2>5. CountsLines'
    BY <1>7, <2>4 DEF ProducerCountsEndMarker, CountsLines
  <2> QED
    BY <2>1, <2>2, <2>3, <2>2a, <2>5 DEF DeliveryOrder
<1>8. CASE ProducerPushFails
  <2>1. LinesInOrder'
    BY <1>8 DEF ProducerPushFails, LinesInOrder, LastPrinted
  <2>0. Floor' <= Floor /\ Ceiling <= Ceiling'
    <3>1. Floor' <= Floor
      BY <1>8, BoundsTyped DEF ProducerPushFails, HandsInOrder, Floor, Holding, LastPrinted
    <3>2. Ceiling <= Ceiling'
      BY <1>8, BoundsTyped, ProducerPosition, SMTT(30)
      DEF ProducerPushFails, HandsInOrder, Ceiling, TypeOK
    <3>3. QED
      BY <3>1, <3>2
  <2>2. QueueInOrder' /\ Floor' <= Ceiling'
    BY <1>8, <2>0, WiderBounds DEF ProducerPushFails, HandsInOrder
  <2>3. HandsInOrder'
    BY <1>8, <2>2 DEF ProducerPushFails, HandsInOrder, LastPrinted, Holding, TypeOK
  <2>2a. StartUp'
    BY <1>8 DEF ProducerPushFails, StartUp
  <2>4. metrics'.frames_transmitted = metrics.frames_transmitted
    BY <1>8, RecordsOther DEF ProducerPushFails, MetricNames
  <2>5. CountsLines'
    BY <1>8, <2>4 DEF ProducerPushFails, CountsLines
  <2> QED
    BY <2>1, <2>2, <2>3, <2>2a, <2>5 DEF DeliveryOrder
<1>9. CASE ProducerGives
  <2>1. LinesInOrder'
    BY <1>9 DEF ProducerGives, LinesInOrder, LastPrinted
  <2>2. QueueInOrder'
    BY <1>9 DEF ProducerGives, QueueInOrder, Floor, Ceiling, Holding, LastPrinted, TypeOK
  <2>3. HandsInOrder'
    BY <1>9 DEF ProducerGives, HandsInOrder, Floor, Ceiling, Holding, LastPrinted, TypeOK
  <2>4. StartUp'
    BY <1>9 DEF ProducerGives, StartUp
  <2>5. CountsLines'
    BY <1>9 DEF ProducerGives, CountsLines
  <2> QED
    BY <2>1, <2>2, <2>3, <2>4, <2>5 DEF DeliveryOrder
<1>10. CASE GetTakes
  <2>1. LinesInOrder'
    BY <1>10 DEF GetTakes, LinesInOrder, LastPrinted
  <2>0. /\ Floor' = Position(queue[1]) /\ LastPrinted' = LastPrinted
        /\ LastPrinted = Floor /\ queue # <<>>
    BY <1>10 DEF GetTakes, Floor, Holding, LastPrinted, TypeOK
  <2>1a. /\ Len(queue) \in Nat /\ Len(queue) >= 1
         /\ \A i \in 1..Len(queue) : Position(queue[i]) \in Nat
    BY <2>0, QueuePositions DEF TypeOK
  <2>2. QueueInOrder'
    <3>1. Ceiling' = Ceiling
      BY <1>10 DEF GetTakes, Ceiling
    <3>2. /\ Len(queue') + 1 = Len(queue)
          /\ \A i \in 1..Len(queue') : queue'[i] = queue[i + 1]
      BY <1>10, HeadTailProperties DEF GetTakes, TypeOK
    <3>3. ASSUME NEW i \in 1..Len(queue')
          PROVE  Floor' < Position(queue'[i]) /\ Position(queue'[i]) <= Ceiling'
      <4>1. i + 1 \in 1..Len(queue) /\ 1 \in 1..Len(queue) /\ 1 < i + 1
        BY <2>1a, <3>2
      <4>2. QED
        BY <2>0, <3>1, <3>2, <4>1 DEF QueueInOrder
    <3>4. ASSUME NEW i \in 1..Len(queue'), NEW j \in 1..Len(queue'), i < j
          PROVE  Position(queue'[i]) < Position(queue'[j])
      <4>1. /\ i + 1 \in 1..Len(queue) /\ j + 1 \in 1..Len(queue)
            /\ i + 1 < j + 1
        BY <2>1a, <3>2, <3>4
      <4>2. QED
        BY <3>2, <4>1 DEF QueueInOrder
    <3>5. QED
      BY <3>3, <3>4 DEF QueueInOrder
  <2>3. HandsInOrder'
    <3>1. Ceiling' = Ceiling
      BY <1>10 DEF GetTakes, Ceiling
    <3>2. LastPrinted' < Position(queue[1]) /\ Floor' <= Ceiling'
      BY <2>0, <2>1a, <3>1, BoundsTyped DEF QueueInOrder, TypeOK
    <3>3. QED
      BY <1>10, <2>0, <3>2 DEF GetTakes, HandsInOrder, Holding, TypeOK
  <2>4. StartUp'
    BY <1>10 DEF GetTakes, StartUp
  <2>5. CountsLines'
    BY <1>10 DEF GetTakes, CountsLines
  <2> QED
    BY <2>1, <2>2, <2>3, <2>4, <2>5 DEF DeliveryOrder
<1>11. CASE GetTakesAndAdmits
  <2>1. LinesInOrder'
    BY <1>11 DEF GetTakesAndAdmits, LinesInOrder, LastPrinted
  <2>0. /\ Floor' = Position(queue[1]) /\ LastPrinted' = LastPrinted
        /\ LastPrinted = Floor /\ queue # <<>>
    BY <1>11 DEF GetTakesAndAdmits, Floor, Holding, LastPrinted, TypeOK
  <2>1a. /\ Len(queue) \in Nat /\ Len(queue) >= 1
         /\ \A i \in 1..Len(queue) : Position(queue[i]) \in Nat
    BY <2>0, QueuePositions DEF TypeOK
  <2>1b. Ceiling' = Ceiling + 1 /\ Ceiling' = Position(producerItem)
    BY <1>11, PositionTyped DEF GetTakesAndAdmits, Ceiling, TypeOK
  <2>2. QueueInOrder'
    <3>1. /\ Len(Tail(queue)) + 1 = Len(queue)
          /\ \A i \in 1..Len(Tail(queue)) : Tail(queue)[i] = queue[i + 1]
          /\ Tail(queue) \in Seq(Items)
      BY <2>0, HeadTailProperties DEF TypeOK
    <3>2. /\ Len(queue') = Len(queue)
          /\ \A i \in 1..Len(queue) - 1 : queue'[i] = queue[i + 1]
          /\ queue'[Len(queue)] = producerItem
      BY <1>11, <3>1 DEF GetTakesAndAdmits, TypeOK
    <3>3. ASSUME NEW i \in 1..Len(queue')
          PROVE  Floor' < Position(queue'[i]) /\ Position(queue'[i]) <= Ceiling'
      <4>1. CASE i < Len(queue)
        <5>1. /\ i + 1 \in 1..Len(queue) /\ 1 \in 1..Len(queue) /\ 1 < i + 1
              /\ queue'[i] = queue[i + 1]
          BY <2>1a, <3>2, <4>1
        <5>2. QED
          BY <2>0, <2>1a, <2>1b, <5>1, BoundsTyped DEF QueueInOrder
      <4>2. CASE i = Len(queue)
        <5>1. 1 \in 1..Len(queue)
          BY <2>1a
        <5>2. QED
          BY <2>0, <2>1a, <2>1b, <3>2, <4>2, <5>1, BoundsTyped
          DEF QueueInOrder
      <4>3. QED
        BY <2>1a, <3>2, <4>1, <4>2
    <3>4. ASSUME NEW i \in 1..Len(queue'), NEW j \in 1..Len(queue'), i < j
          PROVE  Position(queue'[i]) < Position(queue'[j])
      <4>1. i + 1 \in 1..Len(queue) /\ queue'[i] = queue[i + 1]
        BY <2>1a, <3>2, <3>4
      <4>2. CASE j < Len(queue)
        <5>1. j + 1 \in 1..Len(queue) /\ queue'[j] = queue[j + 1]
                 /\ i + 1 < j + 1
          BY <2>1a, <3>2, <3>4, <4>2
        <5>2. QED
          BY <4>1, <5>1 DEF QueueInOrder
      <4>3. CASE j = Len(queue)
        BY <2>1a, <2>1b, <3>2, <4>1, <4>3, BoundsTyped DEF QueueInOrder
      <4>4. QED
        BY <2>1a, <3>2, <4>2, <4>3
    <3>5. QED
      BY <3>3, <3>4 DEF QueueInOrder
  <2>3. HandsInOrder'
    <3>1. LastPrinted' < Position(queue[1]) /\ Floor' <= Ceiling'
      BY <2>0, <2>1a, <2>1b, BoundsTyped DEF QueueInOrder
    <3>2. QED
      BY <1>11, <2>0, <3>1 DEF GetTakesAndAdmits, HandsInOrder, Holding, TypeOK
  <2>4. StartUp'
    BY <1>11 DEF GetTakesAndAdmits, StartUp
  <2>5. CountsLines'
    BY <1>11 DEF GetTakesAndAdmits, CountsLines
  <2> QED
    BY <2>1, <2>2, <2>3, <2>4, <2>5 DEF DeliveryOrder
<1>12. CASE GetPends
  <2>1. LinesInOrder'
    BY <1>12 DEF GetPends, LinesInOrder, LastPrinted
  <2>2. QueueInOrder'
    BY <1>12 DEF GetPends, QueueInOrder, Floor, Ceiling, Holding, LastPrinted, TypeOK
  <2>3. HandsInOrder'
    BY <1>12 DEF GetPends, HandsInOrder, Floor, Ceiling, Holding, LastPrinted, TypeOK
  <2>4. StartUp'
    BY <1>12 DEF GetPends, StartUp
  <2>5. CountsLines'
    BY <1>12 DEF GetPends, CountsLines
  <2> QED
    BY <2>1, <2>2, <2>3, <2>4, <2>5 DEF DeliveryOrder
<1>13. CASE TransmitterPrints
  <2>0. /\ Position(transmitterItem) = transmitterItem.frame
        /\ transmitterItem.frame \in 0..SampleCount
        /\ LastPrinted < transmitterItem.frame
        /\ LastPrinted' = transmitterItem.frame
    BY <1>13 DEF TransmitterPrints, Position, LastPrinted, HandsInOrder,
       Holding, TypeOK, Items
  <2>1. LinesInOrder'
    <3>1. /\ Len(lines') = Len(lines) + 1
          /\ \A k \in 1..Len(lines) : lines'[k] = lines[k]
          /\ lines'[Len(lines) + 1].number = Len(lines) + 1
          /\ lines'[Len(lines) + 1].frame = transmitterItem.frame
      BY <1>13 DEF TransmitterPrints, TypeOK
    <3>2. /\ Len(lines) \in Nat
          /\ \A k \in 1..Len(lines) : lines[k].frame \in Nat
          /\ lines # <<>> => Len(lines) \in 1..Len(lines)
      BY LineTyped DEF TypeOK
    <3>3. Len(lines) <= LastPrinted
      BY <3>2, BoundsTyped DEF LinesInOrder, LastPrinted
    <3>4. ASSUME NEW k \in 1..Len(lines')
          PROVE  /\ lines'[k].number = k
                 /\ k <= lines'[k].frame
                 /\ lines'[k].frame + (Len(lines') - k) <= LastPrinted'
      <4>1. CASE k \in 1..Len(lines)
        <5>1. /\ lines'[k] = lines[k] /\ lines[k].number = k
              /\ k <= lines[k].frame
              /\ lines[k].frame + (Len(lines) - k) <= LastPrinted
          BY <3>1, <4>1 DEF LinesInOrder
        <5>2. QED
          BY <2>0, <3>1, <3>2, <4>1, <5>1, BoundsTyped, SMTT(30)
      <4>2. CASE k = Len(lines) + 1
        BY <2>0, <3>1, <3>2, <3>3, <4>2, BoundsTyped
      <4>3. QED
        BY <3>1, <3>2, <4>1, <4>2
    <3>5. QED
      BY <2>0, <3>4 DEF LinesInOrder
  <2>1a. Floor' <= Floor /\ Ceiling <= Ceiling'
    BY <1>13, <2>0, BoundsTyped DEF TransmitterPrints, Floor, Ceiling, Holding
  <2>2. QueueInOrder' /\ Floor' <= Ceiling'
    BY <1>13, <2>1a, WiderBounds DEF TransmitterPrints, HandsInOrder
  <2>3. HandsInOrder'
    BY <1>13, <2>2 DEF TransmitterPrints, HandsInOrder, Holding
  <2>4. StartUp'
    BY <1>13 DEF TransmitterPrints, StartUp
  <2>5. CountsLines'
    <3>1. Len(lines') = Len(lines) + 1 /\ metrics.frames_transmitted \in Nat
      BY <1>13 DEF TransmitterPrints, TypeOK, MetricNames
    <3>2. QED
      BY <1>13, <3>1 DEF TransmitterPrints, CountsLines
  <2> QED
    BY <2>1, <2>2, <2>3, <2>4, <2>5 DEF DeliveryOrder
<1>14. CASE TransmitterCountsFrame
  <2>1. LinesInOrder'
    BY <1>14 DEF TransmitterCountsFrame, LinesInOrder, LastPrinted
  <2>2. QueueInOrder'
    BY <1>14 DEF TransmitterCountsFrame, QueueInOrder, Floor, Ceiling, Holding, LastPrinted, TypeOK
  <2>3. HandsInOrder'
    BY <1>14 DEF TransmitterCountsFrame, HandsInOrder, Floor, Ceiling, Holding, LastPrinted, TypeOK
  <2>4. StartUp'
    BY <1>14 DEF TransmitterCountsFrame, StartUp
  <2>5. CountsLines'
    <3>1. metrics'.frames_transmitted = metrics.frames_transmitted + 1
      BY <1>14 DEF TransmitterCountsFrame, TypeOK, Record, MetricNames
    <3>2. metrics.frames_transmitted \in Nat
      BY DEF TypeOK, MetricNames
    <3>3. QED
      BY <1>14, <3>1, <3>2 DEF TransmitterCountsFrame, CountsLines
  <2> QED
    BY <2>1, <2>2, <2>3, <2>4, <2>5 DEF DeliveryOrder
<1>15. CASE TransmitterCountsEndMarker
  <2>1. LinesInOrder'
    BY <1>15 DEF TransmitterCountsEndMarker, LinesInOrder, LastPrinted
  <2>0. Floor' <= Floor /\ Ceiling <= Ceiling'
    <3>1. Floor' <= Floor
      BY <1>15, BoundsTyped DEF TransmitterCountsEndMarker, HandsInOrder, Floor, Holding, LastPrinted
    <3>2. Ceiling <= Ceiling'
      BY <1>15, BoundsTyped, ProducerPosition
      DEF TransmitterCountsEndMarker, HandsInOrder, Ceiling
    <3>3. QED
      BY <3>1, <3>2
  <2>2. QueueInOrder' /\ Floor' <= Ceiling'
    BY <1>15, <2>0, WiderBounds DEF TransmitterCountsEndMarker, HandsInOrder
  <2>3. HandsInOrder'
    BY <1>15, <2>2 DEF TransmitterCountsEndMarker, HandsInOrder, LastPrinted, Holding, TypeOK
  <2>2a. StartUp'
    BY <1>15 DEF TransmitterCountsEndMarker, StartUp
  <2>4. metrics'.frames_transmitted = metrics.frames_transmitted
    BY <1>15, RecordsOther DEF TransmitterCountsEndMarker, MetricNames
  <2>5. CountsLines'
    BY <1>15, <2>4 DEF TransmitterCountsEndMarker, CountsLines
  <2> QED
    BY <2>1, <2>2, <2>3, <2>2a, <2>5 DEF DeliveryOrder
<1>16. CASE TransmitterPopFails
  <2>1. LinesInOrder'
    BY <1>16 DEF TransmitterPopFails, LinesInOrder, LastPrinted
  <2>2. QueueInOrder'
    BY <1>16 DEF TransmitterPopFails, QueueInOrder, Floor, Ceiling, Holding, LastPrinted, TypeOK
  <2>3. HandsInOrder'
    BY <1>16 DEF TransmitterPopFails, HandsInOrder, Floor, Ceiling, Holding, LastPrinted, TypeOK
  <2>2a. StartUp'
    BY <1>16 DEF TransmitterPopFails, StartUp
  <2>4. metrics'.frames_transmitted = metrics.frames_transmitted
    BY <1>16, RecordsOther DEF TransmitterPopFails, MetricNames
  <2>5. CountsLines'
    BY <1>16, <2>4 DEF TransmitterPopFails, CountsLines
  <2> QED
    BY <2>1, <2>2, <2>3, <2>2a, <2>5 DEF DeliveryOrder
<1>17. CASE TransmitterGives
  <2>1. LinesInOrder'
    BY <1>17 DEF TransmitterGives, LinesInOrder, LastPrinted
  <2>2. QueueInOrder'
    BY <1>17 DEF TransmitterGives, QueueInOrder, Floor, Ceiling, Holding, LastPrinted, TypeOK
  <2>3. HandsInOrder'
    BY <1>17 DEF TransmitterGives, HandsInOrder, Floor, Ceiling, Holding, LastPrinted, TypeOK
  <2>4. StartUp'
    BY <1>17 DEF TransmitterGives, StartUp
  <2>5. CountsLines'
    BY <1>17 DEF TransmitterGives, CountsLines
  <2> QED
    BY <2>1, <2>2, <2>3, <2>4, <2>5 DEF DeliveryOrder
<1>18. CASE MainCreatesTransmitter
  <2>1. LinesInOrder'
    BY <1>18 DEF MainCreatesTransmitter, LinesInOrder, LastPrinted
  <2>2. QueueInOrder'
    BY <1>18 DEF MainCreatesTransmitter, QueueInOrder, HandsInOrder
  <2>3. HandsInOrder'
    BY <1>18, BoundsTyped DEF MainCreatesTransmitter, HandsInOrder, StartUp,
       Floor, Ceiling, Holding, LastPrinted
  <2>4. StartUp'
    BY <1>18 DEF MainCreatesTransmitter, StartUp
  <2>5. CountsLines'
    BY <1>18 DEF MainCreatesTransmitter, CountsLines, StartUp
  <2> QED
    BY <2>1, <2>2, <2>3, <2>4, <2>5 DEF DeliveryOrder
<1>19. CASE MainCreatesProducer
  <2>1. LinesInOrder'
    BY <1>19 DEF MainCreatesProducer, LinesInOrder, LastPrinted
  <2>0. Floor' <= Floor /\ Ceiling <= Ceiling'
    <3>1. Floor' <= Floor
      BY <1>19, BoundsTyped DEF MainCreatesProducer, HandsInOrder, Floor, Holding, LastPrinted
    <3>2. Ceiling <= Ceiling'
      BY <1>19, BoundsTyped, ProducerPosition
      DEF MainCreatesProducer, HandsInOrder, Ceiling, StartUp
    <3>3. QED
      BY <3>1, <3>2
  <2>2. QueueInOrder' /\ Floor' <= Ceiling'
    BY <1>19, <2>0, WiderBounds DEF MainCreatesProducer, HandsInOrder
  <2>3. HandsInOrder'
    BY <1>19, <2>2 DEF MainCreatesProducer, HandsInOrder, LastPrinted, Holding, TypeOK
  <2>4. StartUp'
    BY <1>19 DEF MainCreatesProducer, StartUp
  <2>5. CountsLines'
    BY <1>19 DEF MainCreatesProducer, CountsLines
  <2> QED
    BY <2>1, <2>2, <2>3, <2>4, <2>5 DEF DeliveryOrder
<1>20. CASE MainJoinsProducer
  <2>1. LinesInOrder'
    BY <1>20 DEF MainJoinsProducer, LinesInOrder, LastPrinted
  <2>2. QueueInOrder'
    BY <1>20 DEF MainJoinsProducer, QueueInOrder, Floor, Ceiling, Holding, LastPrinted, TypeOK
  <2>3. HandsInOrder'
    BY <1>20 DEF MainJoinsProducer, HandsInOrder, Floor, Ceiling, Holding, LastPrinted, TypeOK
  <2>4. StartUp'
    BY <1>20 DEF MainJoinsProducer, StartUp
  <2>5. CountsLines'
    BY <1>20 DEF MainJoinsProducer, CountsLines
  <2> QED
    BY <2>1, <2>2, <2>3, <2>4, <2>5 DEF DeliveryOrder
<1>21. CASE MainJoinsTransmitter
  <2>1. LinesInOrder'
    BY <1>21 DEF MainJoinsTransmitter, LinesInOrder, LastPrinted
  <2>2. QueueInOrder'
    BY <1>21 DEF MainJoinsTransmitter, QueueInOrder, Floor, Ceiling, Holding, LastPrinted, TypeOK
  <2>3. HandsInOrder'
    BY <1>21 DEF MainJoinsTransmitter, HandsInOrder, Floor, Ceiling, Holding, LastPrinted, TypeOK
  <2>4. StartUp'
    BY <1>21 DEF MainJoinsTransmitter, StartUp
  <2>5. CountsLines'
    BY <1>21 DEF MainJoinsTransmitter, CountsLines
  <2> QED
    BY <2>1, <2>2, <2>3, <2>4, <2>5 DEF DeliveryOrder
<1>22. CASE MainReports
  <2>1. LinesInOrder'
    BY <1>22 DEF MainReports, LinesInOrder, LastPrinted
  <2>2. QueueInOrder'
    BY <1>22 DEF MainReports, QueueInOrder, Floor, Ceiling, Holding, LastPrinted, TypeOK
  <2>3. HandsInOrder'
    BY <1>22 DEF MainReports, HandsInOrder, Floor, Ceiling, Holding, LastPrinted, TypeOK
  <2>4. StartUp'
    BY <1>22 DEF MainReports, StartUp
  <2>5. CountsLines'
    BY <1>22 DEF MainReports, CountsLines
  <2> QED
    BY <2>1, <2>2, <2>3, <2>4, <2>5 DEF DeliveryOrder
<1>23. CASE ConstructAnotherQueue
  <2>1. LinesInOrder'
    BY <1>23 DEF ConstructAnotherQueue, LinesInOrder, LastPrinted
  <2>2. QueueInOrder'
    BY <1>23 DEF ConstructAnotherQueue, QueueInOrder, HandsInOrder
  <2>3. HandsInOrder'
    <3>1. LastPrinted' = LastPrinted /\ Position(producerItem) \in Nat
      BY <1>23, PositionTyped DEF ConstructAnotherQueue, LastPrinted, TypeOK
    <3>2. Floor' = Floor /\ Ceiling <= Ceiling'
      BY <1>23, <3>1, BoundsTyped
      DEF ConstructAnotherQueue, Floor, Ceiling, Holding
    <3>3. Floor' <= Ceiling'
      BY <3>2, BoundsTyped DEF HandsInOrder
    <3>4. QED
      BY <1>23, <3>1, <3>3 DEF ConstructAnotherQueue, HandsInOrder, Holding
  <2>4. StartUp'
    BY <1>23 DEF ConstructAnotherQueue, StartUp
  <2>5. CountsLines'
    BY <1>23 DEF ConstructAnotherQueue, CountsLines
  <2> QED
    BY <2>1, <2>2, <2>3, <2>4, <2>5 DEF DeliveryOrder
<1>24. CASE UNCHANGED vars
  BY <1>24 DEF vars, DeliveryOrder, LinesInOrder, QueueInOrder, HandsInOrder, StartUp,
     CountsLines, LastPrinted, Floor, Ceiling, Holding
<1> QED
  BY <1>1, <1>2, <1>3, <1>4, <1>5, <1>6, <1>7, <1>8, <1>9, <1>10, <1>11, <1>12, <1>13, <1>14, <1>15, <1>16, <1>17, <1>18, <1>19, <1>20, <1>21, <1>22, <1>23, <1>24
  DEF Next, Producer, Transmitter, Main, Exited

\* Every schedule keeps the order of delivery.
LEMMA DeliveryOrderSafe == AnySchedule => []DeliveryOrder
<1>1. Init => DeliveryOrder
  <2> SUFFICES ASSUME Init PROVE DeliveryOrder
    OBVIOUS
  <2>1. LastPrinted = 0 /\ ~Holding /\ Len(lines) = 0 /\ Len(queue) = 0
    BY DEF Init, LastPrinted, Holding
  <2>2. Floor = 0 /\ Ceiling = 0
    BY <2>1 DEF Init, Floor, Ceiling
  <2>3. LinesInOrder /\ QueueInOrder
    BY <2>1 DEF LinesInOrder, QueueInOrder
  <2>4. HandsInOrder /\ StartUp
    BY <2>1, <2>2 DEF Init, HandsInOrder, StartUp
  <2>5. CountsLines
    BY <2>1 DEF Init, CountsLines, MetricNames
  <2>6. QED
    BY <2>3, <2>4, <2>5 DEF DeliveryOrder
<1>2. TypeOK /\ TypeOK' /\ DeliveryOrder /\ [Next]_vars => DeliveryOrder'
  BY DeliveryOrderStep
<1>3. QED
  BY <1>1, <1>2, TypeSafe, PTL DEF AnySchedule

\* Items leave the firmware in the order their samples were generated, in
\* every execution: the inductive invariant of the loops and the queue.
THEOREM DeliveryOrderHolds == Spec => []DeliveryOrder
BY DeliveryOrderSafe, PTL DEF Spec, AnySchedule

\* As many lines as samples are exactly the samples, in order.
LEMMA EnoughLines ==
    ASSUME TypeOK, LinesInOrder, Len(lines) >= SampleCount
    PROVE  lines = [k \in 1..SampleCount |-> [number |-> k, frame |-> k]]
<1>1. /\ Len(lines) \in Nat
      /\ \A k \in 1..Len(lines) : lines[k].frame \in Nat
      /\ LastPrinted \in Nat
  BY LineTyped DEF TypeOK, LastPrinted
<1>2. Len(lines) = SampleCount
  <2>1. CASE Len(lines) = 0
    BY <2>1
  <2>2. CASE Len(lines) >= 1
    <3>1. 1 \in 1..Len(lines)
      BY <1>1, <2>2
    <3>2. QED
      BY <1>1, <3>1 DEF LinesInOrder
  <2>3. QED
    BY <1>1, <2>1, <2>2
<1>3. ASSUME NEW k \in 1..SampleCount
      PROVE  lines[k] = [number |-> k, frame |-> k]
  <2>1. lines[k].number = k /\ lines[k].frame = k
    BY <1>1, <1>2, <1>3 DEF LinesInOrder
  <2>2. lines[k] \in [number : Nat, frame : Nat]
    BY <1>2, ElementOfSeq DEF TypeOK
  <2>3. QED
    BY <2>1, <2>2
<1>4. lines = [k \in 1..Len(lines) |-> lines[k]]
  BY DEF TypeOK
<1>5. QED
  BY <1>2, <1>3, <1>4

\* Only the transmitter and main write on the console.
LEMMA ConsoleWriters ==
    ASSUME [Next]_vars
    PROVE  TransmitterPrints \/ MainReports \/ UNCHANGED <<lines, verdict>>
BY DEF besideProducer, besideTransmitter, besideMain,
Next, Producer, Transmitter, Main, Exited, vars, mainVars,
   ProducerSample, ProducerFinishStream, PutHandsOver, PutBuffers,
   PutPends, ProducerCountsFrame, ProducerCountsEndMarker,
   ProducerPushFails, ProducerGives, GetTakes, GetTakesAndAdmits,
   GetPends, TransmitterCountsFrame, TransmitterCountsEndMarker,
   TransmitterPopFails, TransmitterGives, MainCreatesTransmitter,
   MainCreatesProducer, MainJoinsProducer, MainJoinsTransmitter,
   ConstructAnotherQueue

\* No schedule makes a summary untrue.
LEMMA SummarySafe == AnySchedule => []SummaryIsTruthful
<1>1. Init => SummaryIsTruthful
  BY DEF Init, SummaryIsTruthful, NoVerdict
<1>2. TypeOK /\ DeliveryOrder /\ TypeOK' /\ DeliveryOrder'
          /\ SummaryIsTruthful /\ [Next]_vars
      => SummaryIsTruthful'
  <2> SUFFICES ASSUME TypeOK, DeliveryOrder, TypeOK', DeliveryOrder',
                      SummaryIsTruthful, [Next]_vars,
                      verdict'.status = "SUMMARY"
               PROVE  SummaryIsTruthful'
    BY DEF SummaryIsTruthful
  <2>1. CASE UNCHANGED <<lines, verdict>>
    BY <2>1 DEF SummaryIsTruthful
  <2>2. CASE MainReports
    <3>1. Succeeded
      BY <2>2 DEF MainReports
    <3>2. Len(lines) >= SampleCount
      BY <3>1 DEF Succeeded, MetricsAreValid, DeliveryOrder, CountsLines
    <3>3. lines' = [k \in 1..SampleCount |-> [number |-> k, frame |-> k]]
      BY <2>2, <3>2, EnoughLines DEF besideMain, DeliveryOrder, MainReports
    <3>4. /\ verdict'.produced = SampleCount
          /\ verdict'.transmitted = SampleCount
          /\ verdict'.queue_errors = 0
      BY <2>2, <3>1 DEF MainReports, Succeeded, MetricsAreValid
    <3>5. QED
      BY <3>3, <3>4 DEF SummaryIsTruthful
  <2>3. CASE TransmitterPrints
    <3>1. verdict' = verdict
      BY <2>3 DEF TransmitterPrints, besideTransmitter, mainVars
    <3>2. lines = [k \in 1..SampleCount |-> [number |-> k, frame |-> k]]
      BY <3>1 DEF SummaryIsTruthful
    <3>3. Len(lines) = SampleCount
      BY <3>2
    <3>4. Len(lines') = SampleCount + 1 /\ 1 \in 1..Len(lines')
      BY <2>3, <3>3 DEF TransmitterPrints, besideTransmitter, TypeOK
    <3>5. lines'[1].frame \in Nat /\ LastPrinted' \in Nat
      BY <3>4, LineTyped, BoundsTyped DEF TypeOK
    <3>6. /\ 1 <= lines'[1].frame
          /\ lines'[1].frame + (Len(lines') - 1) <= LastPrinted'
          /\ LastPrinted' <= SampleCount
      BY <3>4 DEF DeliveryOrder, LinesInOrder
    <3>7. QED  \* there is no room for one more line
      BY <3>4, <3>5, <3>6
  <2>4. QED
    BY <2>1, <2>2, <2>3, ConsoleWriters
<1>3. QED
  BY <1>1, <1>2, TypeSafe, DeliveryOrderSafe, PTL DEF AnySchedule

\* A SUMMARY is printed only below a complete, ordered listing of the
\* samples, whatever the number of samples, the capacity and the purges.
THEOREM SummaryTruthful == Spec => []SummaryIsTruthful
BY SummarySafe, PTL DEF Spec, AnySchedule

-----------------------------------------------------------------------------
(* The joins.                                                               *)

\* A thread that main has joined, or whose semaphore is up, has finished.
Joined ==
    /\ (producerFinished = 1
           \/ mainPc \in {"take_transmitter", "report", "exited"}) =>
               producerPc = "finished"
    /\ (transmitterFinished = 1 \/ mainPc \in {"report", "exited"}) =>
               transmitterPc = "finished"

\* No step un-finishes a thread whose semaphore main took or can take.
LEMMA JoinedStep ==
    ASSUME TypeOK, StartUp, Joined, [Next]_vars
    PROVE  Joined'
<1> USE DEF Joined, besideProducer, besideTransmitter, besideMain,
            sensorVars, producerVars, transmitterVars, semaphoreVars,
            mainVars
<1>1. CASE Producer
  BY <1>1
  DEF Producer, ProducerSample, ProducerFinishStream, PutHandsOver, PutBuffers,
      PutPends, ProducerCountsFrame, ProducerCountsEndMarker,
      ProducerPushFails, ProducerGives
<1>2. CASE Transmitter
  BY <1>2
  DEF Transmitter, GetTakes, GetTakesAndAdmits, GetPends, TransmitterPrints,
      TransmitterCountsFrame, TransmitterCountsEndMarker,
      TransmitterPopFails, TransmitterGives
<1>3. CASE Main
  BY <1>3
  DEF Main, StartUp, MainCreatesTransmitter, MainCreatesProducer, MainJoinsProducer,
      MainJoinsTransmitter, MainReports
<1>4. CASE ConstructAnotherQueue
  BY <1>4 DEF ConstructAnotherQueue
<1>5. CASE UNCHANGED vars
  BY <1>5 DEF vars
<1>6. QED
  BY <1>1, <1>2, <1>3, <1>4, <1>5 DEF Next, Exited

\* After a join the joined thread has finished, in every state.
LEMMA JoinedHolds == Spec => []Joined
<1>1. Init => Joined
  BY DEF Init, Joined
<1>2. TypeOK /\ DeliveryOrder /\ Joined /\ [Next]_vars => Joined'
  BY JoinedStep DEF DeliveryOrder
<1>3. QED
  BY <1>1, <1>2, TypeCorrect, DeliveryOrderHolds, PTL DEF Spec

\* After both joins the plain counters and the TLFRAME lines never change
\* again, so that main's unsynchronised snapshot is the final one.
THEOREM SnapshotFinal == Spec => SnapshotIsFinal
<1>1. TypeOK /\ Joined /\ [Next]_vars
        => [(mainPc \in {"report", "exited"})
               => UNCHANGED <<metrics, lines>>]_vars
  <2> SUFFICES ASSUME Joined, [Next]_vars, mainPc \in {"report", "exited"}
               PROVE  UNCHANGED <<metrics, lines>>
    OBVIOUS
  <2>1. producerPc = "finished" /\ transmitterPc = "finished"
    BY DEF Joined
  <2>2. ~Producer /\ ~Transmitter
    BY <2>1
    DEF Producer, Transmitter,
        ProducerSample, ProducerFinishStream, PutHandsOver, PutBuffers,
        PutPends, ProducerCountsFrame, ProducerCountsEndMarker,
        ProducerPushFails, ProducerGives, GetTakes, GetTakesAndAdmits,
        GetPends, TransmitterPrints, TransmitterCountsFrame,
        TransmitterCountsEndMarker, TransmitterPopFails,
        TransmitterGives
  <2>3. CASE Main
    BY <2>3
    DEF Main, MainCreatesTransmitter, MainCreatesProducer, MainJoinsProducer,
        MainJoinsTransmitter, MainReports, besideMain
  <2>4. CASE ConstructAnotherQueue
    BY <2>4 DEF ConstructAnotherQueue
  <2>5. CASE UNCHANGED vars
    BY <2>5 DEF vars
  <2>6. QED
    BY <2>2, <2>3, <2>4, <2>5 DEF Next, Exited
<1>2. QED
  BY <1>1, TypeCorrect, JoinedHolds, PTL DEF Spec, SnapshotIsFinal

-----------------------------------------------------------------------------
(* The wait queue.                                                          *)

\* The producer pends on a full buffer only.
PendedOnFull == producerPc = "pended" => Len(queue) = QueueCapacity

\* Both threads never wait on the queue at once: one of them would have to
\* wait on an empty buffer and the other on a full one.
THEOREM QueueNeverDeadlocks == Spec => []NotBothPended
<1>1. Init => PendedOnFull
  BY DEF Init, PendedOnFull
<1>2. TypeOK /\ DeliveryOrder /\ PendedOnFull /\ [Next]_vars
        => PendedOnFull'
  <2> SUFFICES ASSUME TypeOK, StartUp, PendedOnFull, [Next]_vars,
                      producerPc' = "pended"
               PROVE  Len(queue') = QueueCapacity
    BY DEF PendedOnFull, DeliveryOrder
  <2> USE DEF besideProducer, besideTransmitter, besideMain,
              sensorVars, producerVars, transmitterVars, semaphoreVars,
              mainVars
  <2>1. CASE Producer
    <3>1. PutPends
      BY <2>1 DEF Producer, ProducerSample, ProducerFinishStream,
         PutHandsOver, PutBuffers, ProducerCountsFrame,
         ProducerCountsEndMarker, ProducerPushFails, ProducerGives
    <3>2. QED
      BY <3>1 DEF PutPends
  <2>2. CASE Transmitter
    BY <2>2 DEF Transmitter, GetTakes, GetTakesAndAdmits, GetPends,
       TransmitterPrints, TransmitterCountsFrame, TransmitterCountsEndMarker,
       TransmitterPopFails, TransmitterGives, PendedOnFull
  <2>3. CASE MainCreatesTransmitter
    BY <2>3 DEF MainCreatesTransmitter, PendedOnFull, StartUp
  <2>4. CASE MainCreatesProducer \/ MainJoinsProducer
               \/ MainJoinsTransmitter \/ MainReports
    BY <2>4 DEF MainCreatesProducer, MainJoinsProducer,
       MainJoinsTransmitter, MainReports, PendedOnFull
  <2>5. CASE ConstructAnotherQueue
    BY <2>5 DEF ConstructAnotherQueue
  <2>6. CASE UNCHANGED vars
    BY <2>6 DEF vars, PendedOnFull
  <2>7. QED
    BY <2>1, <2>2, <2>3, <2>4, <2>5, <2>6 DEF Next, Main, Exited
<1>3. TypeOK /\ DeliveryOrder /\ PendedOnFull => NotBothPended
  <2> SUFFICES ASSUME DeliveryOrder, PendedOnFull, producerPc = "pended",
                      transmitterPc = "pended"
               PROVE  FALSE
    BY DEF NotBothPended
  <2>1. queue = <<>>
    BY DEF DeliveryOrder, HandsInOrder
  <2>2. Len(queue) = 0 /\ Len(queue) = QueueCapacity
    BY <2>1 DEF PendedOnFull
  <2>3. QED
    BY <2>2
<1>4. QED
  BY <1>1, <1>2, <1>3, TypeCorrect, DeliveryOrderHolds, PTL DEF Spec

-----------------------------------------------------------------------------
(* The firmware implements the abstract stream.                             *)

\* What the console shows, as a sequence of numbers.
LEMMA PrintedTyped ==
    ASSUME TypeOK
    PROVE  /\ Printed \in Seq(Nat)
           /\ Len(Printed) = Len(lines)
           /\ DOMAIN Printed = 1..Len(lines)
           /\ \A k \in 1..Len(lines) : Printed[k] = lines[k].frame
<1>1. Len(lines) \in Nat /\ \A k \in 1..Len(lines) : lines[k].frame \in Nat
  BY LineTyped DEF TypeOK
<1>2. DOMAIN lines = 1..Len(lines)
  BY DEF TypeOK
<1>3. Printed = [k \in 1..Len(lines) |-> lines[k].frame]
  BY <1>2 DEF Printed
<1>4. Printed \in [1..Len(lines) -> Nat]
  BY <1>1, <1>3
<1>5. Printed \in Seq(Nat) /\ Len(Printed) = Len(lines)
  BY <1>1, <1>4
<1> QED BY <1>3, <1>5

\* The stream's latest item is the last line's.
LEMMA LatestIsLastPrinted ==
    ASSUME TypeOK
    PROVE  Stream!Latest = LastPrinted
<1>1. CASE lines = <<>>
  <2>1. Printed = <<>>
    BY <1>1, PrintedTyped
  <2> QED BY <1>1, <2>1 DEF Stream!Latest, LastPrinted
<1>2. CASE lines # <<>>
  <2>1. Len(lines) \in 1..Len(lines)
    BY <1>2, LineTyped DEF TypeOK
  <2>2. Printed # <<>>
    BY <2>1, PrintedTyped
  <2> QED BY <1>2, <2>1, <2>2, PrintedTyped DEF Stream!Latest, LastPrinted
<1> QED BY <1>1, <1>2

\* Before main exits it has said nothing.
Unconcluded == mainPc # "exited" => verdict.status = "NONE"

\* main says one thing, and exits as it says it.
LEMMA UnconcludedHolds == Spec => []Unconcluded
<1>1. Init => Unconcluded
  BY DEF Init, Unconcluded, NoVerdict
<1>2. Unconcluded /\ [Next]_vars => Unconcluded'
  <2> SUFFICES ASSUME Unconcluded, [Next]_vars PROVE Unconcluded'
    OBVIOUS
  <2>1. CASE MainReports
    BY <2>1 DEF MainReports, Unconcluded
  <2>2. CASE ~MainReports
    BY <2>2
    DEF Unconcluded, besideProducer, besideTransmitter, besideMain,
        Next, Producer, Transmitter, Main, Exited, vars, mainVars,
        ProducerSample, ProducerFinishStream, PutHandsOver, PutBuffers,
        PutPends, ProducerCountsFrame, ProducerCountsEndMarker,
        ProducerPushFails, ProducerGives, GetTakes, GetTakesAndAdmits,
        GetPends, TransmitterPrints, TransmitterCountsFrame,
        TransmitterCountsEndMarker, TransmitterPopFails, TransmitterGives,
        MainCreatesTransmitter, MainCreatesProducer, MainJoinsProducer,
        MainJoinsTransmitter, ConstructAnotherQueue
  <2> QED BY <2>1, <2>2
<1> QED BY <1>1, <1>2, PTL DEF Spec

\* A printed line is the delivery of one more sample, in order.
LEMMA PrintingDelivers ==
    ASSUME TypeOK, TypeOK', DeliveryOrder, Joined, Unconcluded,
           TransmitterPrints
    PROVE  Stream!Deliver
<1> DEFINE item == transmitterItem.frame
<1>1. /\ transmitterPc = "got" /\ Holding /\ transmitterItem.kind = "frame"
      /\ verdict' = verdict
      /\ lines' = Append(lines, [number |-> Len(lines) + 1, frame |-> item])
  BY DEF TransmitterPrints, Holding, besideTransmitter, mainVars
<1>2. verdict.status = "NONE"
  BY <1>1 DEF Joined, Unconcluded
<1>3. item \in 0..SampleCount /\ LastPrinted < item
  BY <1>1 DEF DeliveryOrder, HandsInOrder, Position, TypeOK, Items
<1>4. LastPrinted \in Nat
  BY LineTyped DEF TypeOK, LastPrinted
<1>5. item \in FrameNumbers /\ item > Stream!Latest
  BY <1>3, <1>4, LatestIsLastPrinted DEF FrameNumbers
<1>6. Printed' = Append(Printed, item)
  <2>1. /\ Len(lines) \in Nat /\ Len(lines') = Len(lines) + 1
        /\ DOMAIN lines' = 1..(Len(lines) + 1)
        /\ \A k \in 1..Len(lines) : lines'[k] = lines[k]
        /\ lines'[Len(lines) + 1] =
               [number |-> Len(lines) + 1, frame |-> item]
    BY <1>1, <1>3 DEF TypeOK
  <2>2. Printed' = [k \in 1..(Len(lines) + 1) |-> lines'[k].frame]
    BY <2>1 DEF Printed
  <2>3. Printed' \in Seq(Nat)
    <3>1. \A k \in 1..Len(lines') : lines'[k].frame \in Nat
      BY LineTyped DEF TypeOK
    <3> QED BY <2>1, <2>2, <3>1
  <2>4. Append(Printed, item) \in Seq(Nat)
    BY <1>3, PrintedTyped
  <2>5. \A k \in 1..(Len(lines) + 1) : Printed'[k] = Append(Printed, item)[k]
    <3>1. \A k \in 1..Len(lines) : Printed'[k] = lines[k].frame
      BY <2>1, <2>2
    <3>2. Printed'[Len(lines) + 1] = item
      BY <2>1, <2>2
    <3>3. /\ \A k \in 1..Len(lines) :
                 Append(Printed, item)[k] = lines[k].frame
          /\ Append(Printed, item)[Len(lines) + 1] = item
      BY <1>3, PrintedTyped, AppendProperties
    <3>4. \A k \in 1..(Len(lines) + 1) :
              k \in 1..Len(lines) \/ k = Len(lines) + 1
      BY <2>1
    <3> HIDE DEF item
    <3> QED BY <3>1, <3>2, <3>3, <3>4
  <2>6. /\ Len(Printed') = Len(lines) + 1
        /\ Len(Append(Printed, item)) = Len(lines) + 1
    BY <2>1, <2>2, <2>3, <1>3, PrintedTyped
  <2> QED BY <2>3, <2>4, <2>5, <2>6, SeqEqual
<1> HIDE DEF item
<1> QED BY <1>1, <1>2, <1>5, <1>6 DEF Stream!Deliver

\* main's verdict concludes the stream, with a success only when the console
\* shows every sample.
LEMMA ReportingConcludes ==
    ASSUME TypeOK, TypeOK', Unconcluded, SummaryIsTruthful', MainReports
    PROVE  Stream!Conclude
<1>1. /\ verdict.status = "NONE" /\ lines' = lines
      /\ verdict'.status \in {"SUMMARY", "ERROR"}
  BY DEF MainReports, Unconcluded, besideMain
<1>2. Printed' = Printed
  BY <1>1 DEF Printed
<1>3. ASSUME verdict'.status = "SUMMARY"
      PROVE  {Printed[k] : k \in DOMAIN Printed} = FrameNumbers
  <2>1. lines = [k \in 1..SampleCount |-> [number |-> k, frame |-> k]]
    BY <1>1, <1>3 DEF SummaryIsTruthful
  <2>2. Printed = [k \in 1..SampleCount |-> k]
    BY <2>1 DEF Printed
  <2> QED BY <2>2 DEF FrameNumbers
<1> QED BY <1>1, <1>2, <1>3 DEF Stream!Conclude, Stream!Complete

\* Every execution of the firmware is one of the abstract stream: the samples
\* reach the console at most once and in order, and main reports a success
\* only when all of them did, whatever the queue's constructors purged.
THEOREM FirmwareIsAStream == Spec => ImplementsStream
<1>1. Init => Stream!Init
  <2> SUFFICES ASSUME Init PROVE Stream!Init
    OBVIOUS
  <2>1. Printed = <<>>
    BY DEF Init, Printed
  <2> QED BY <2>1 DEF Init, NoVerdict, Stream!Init, FrameNumbers
<1>2. TypeOK /\ TypeOK' /\ DeliveryOrder /\ Joined /\ Unconcluded
          /\ SummaryIsTruthful' /\ [Next]_vars
      => [Stream!Next]_(Stream!streamVars)
  <2> SUFFICES ASSUME TypeOK, TypeOK', DeliveryOrder, Joined, Unconcluded,
                      SummaryIsTruthful', [Next]_vars
               PROVE  [Stream!Next]_(Stream!streamVars)
    OBVIOUS
  <2>1. CASE TransmitterPrints
    BY <2>1, PrintingDelivers DEF Stream!Next
  <2>2. CASE MainReports
    BY <2>2, ReportingConcludes DEF Stream!Next
  <2>3. CASE UNCHANGED <<lines, verdict>>
    BY <2>3 DEF Stream!streamVars, Printed
  <2> QED BY <2>1, <2>2, <2>3, ConsoleWriters
<1> QED BY <1>1, <1>2, TypeCorrect, DeliveryOrderHolds, JoinedHolds,
           UnconcludedHolds, SummaryTruthful, PTL
        DEF Spec, ImplementsStream, Stream!Spec

-----------------------------------------------------------------------------
(* What the transmitter has counted is enqueued.                            *)

\* The frames enqueued, with the one whose put has returned and that the
\* producer has not counted yet.
Enqueued ==
    metrics.frames_enqueued
        + (IF /\ producerPc = "put_returned" /\ putResult = "ok"
              /\ producerItem.kind = "frame"
           THEN 1 ELSE 0)

\* The frame the producer puts is the one after those enqueued.
PutsTheNext ==
    /\ producerPc \in {"absent", "run"} =>
           sensorIndex = metrics.frames_enqueued
    /\ /\ producerPc \in {"put", "pended", "put_returned"}
       /\ producerItem.kind = "frame"
       => producerItem.frame = metrics.frames_enqueued + 1

\* No frame downstream of the producer is after those enqueued.
OnlyEnqueued ==
    /\ LastPrinted <= Enqueued
    /\ Holding /\ transmitterItem.kind = "frame" =>
           transmitterItem.frame <= Enqueued
    /\ \A i \in 1..Len(queue) :
           queue[i].kind = "frame" => queue[i].frame <= Enqueued

Counted == PutsTheNext /\ OnlyEnqueued

\* The elements of a sequence that grew at its end.
LEMMA AppendedElements ==
    ASSUME NEW S, NEW s \in Seq(S), NEW e \in S
    PROVE  \A i \in 1..Len(Append(s, e)) :
               \/ Append(s, e)[i] = e
               \/ i \in 1..Len(s) /\ Append(s, e)[i] = s[i]
<1>1. Len(Append(s, e)) = Len(s) + 1 /\ Len(s) \in Nat
  OBVIOUS
<1>2. \A i \in 1..(Len(s) + 1) : i \in 1..Len(s) \/ i = Len(s) + 1
  BY <1>1
<1> QED BY <1>1, <1>2, AppendProperties

\* The elements of the buffer without its head.
LEMMA TailElements ==
    ASSUME TypeOK, queue # <<>>
    PROVE  /\ Tail(queue) \in Seq(Items)
           /\ \A i \in 1..Len(Tail(queue)) :
                  i + 1 \in 1..Len(queue) /\ Tail(queue)[i] = queue[i + 1]
BY DEF TypeOK

\* The numbers that Counted compares are naturals.
LEMMA EnqueuedTyped ==
    ASSUME TypeOK
    PROVE  /\ metrics.frames_enqueued \in Nat
           /\ Enqueued \in Nat
           /\ sensorIndex \in Nat
           /\ LastPrinted \in Nat
           /\ producerItem.frame \in Nat
           /\ \A i \in 1..Len(queue) : queue[i] \in Items
<1>1. metrics.frames_enqueued \in Nat
  BY DEF TypeOK, MetricNames
<1>2. producerItem.frame \in Nat
  BY DEF TypeOK, Items
<1>3. LastPrinted \in Nat
  BY LineTyped DEF TypeOK, LastPrinted
<1>4. \A i \in 1..Len(queue) : queue[i] \in Items
  BY ElementOfSeq DEF TypeOK
<1> QED BY <1>1, <1>2, <1>3, <1>4 DEF TypeOK, Enqueued

\* Recording any other metric leaves frames_enqueued alone.
LEMMA RecordsBesideEnqueued ==
    ASSUME TypeOK, NEW name \in MetricNames, name # "frames_enqueued"
    PROVE  Record(name).frames_enqueued = metrics.frames_enqueued
BY DEF TypeOK, Record, MetricNames

\* A step keeps OnlyEnqueued when Enqueued does not sink and what is buffered,
\* held and printed was so before.
LEMMA StillOnlyEnqueued ==
    ASSUME TypeOK, TypeOK', OnlyEnqueued, Enqueued <= Enqueued',
           LastPrinted' = LastPrinted,
           queue' = queue \/ queue' = <<>>,
           Holding' => Holding /\ transmitterItem' = transmitterItem
    PROVE  OnlyEnqueued'
<1>1. Enqueued \in Nat /\ Enqueued' \in Nat /\ LastPrinted \in Nat
  <2>1. metrics'.frames_enqueued \in Nat
    BY DEF TypeOK, MetricNames
  <2> QED BY <2>1, EnqueuedTyped DEF Enqueued
<1>2. \A i \in 1..Len(queue) : queue[i].frame \in Nat
  BY EnqueuedTyped DEF Items
<1>3. transmitterItem.frame \in Nat
  BY DEF TypeOK, Items
<1>4. LastPrinted' <= Enqueued'
  BY <1>1 DEF OnlyEnqueued
<1>5. Holding' /\ transmitterItem'.kind = "frame" =>
          transmitterItem'.frame <= Enqueued'
  BY <1>1, <1>3 DEF OnlyEnqueued
<1>6. \A i \in 1..Len(queue') :
          queue'[i].kind = "frame" => queue'[i].frame <= Enqueued'
  BY <1>1, <1>2 DEF OnlyEnqueued
<1> QED BY <1>4, <1>5, <1>6 DEF OnlyEnqueued

\* Every step keeps Counted: an item moves on, or is counted, or is lost.
LEMMA CountedStep ==
    ASSUME TypeOK, TypeOK', DeliveryOrder, Counted, [Next]_vars
    PROVE  Counted'
<1> USE DEF besideProducer, besideTransmitter, besideMain, sensorVars,
            producerVars, transmitterVars, semaphoreVars, mainVars
<1>1. CASE ProducerSample
  <2>1. Record("samples_generated") \in [MetricNames -> Nat]
    BY RecordTyped DEF TypeOK, MetricNames
  <2>2. metrics'.frames_enqueued = metrics.frames_enqueued
    BY <1>1, <2>1, RecordsBesideEnqueued DEF ProducerSample, MetricNames
  <2>3. PutsTheNext'
    BY <1>1, <2>2, EnqueuedTyped
    DEF ProducerSample, Counted, PutsTheNext, FrameItem
  <2>4. OnlyEnqueued'
    BY <1>1, <2>2, EnqueuedTyped, StillOnlyEnqueued
       DEF ProducerSample, Counted, Enqueued, Holding, LastPrinted
  <2> QED BY <2>3, <2>4 DEF Counted
<1>2. CASE ProducerFinishStream
  <2>1. metrics'.frames_enqueued = metrics.frames_enqueued
    BY <1>2 DEF ProducerFinishStream
  <2>2. PutsTheNext'
    BY <1>2, <2>1, EnqueuedTyped
    DEF ProducerFinishStream, Counted, PutsTheNext, EndItem
  <2>3. OnlyEnqueued'
    BY <1>2, <2>1, EnqueuedTyped, StillOnlyEnqueued
       DEF ProducerFinishStream, Counted, Enqueued, Holding, LastPrinted,
           EndItem
  <2> QED BY <2>2, <2>3 DEF Counted
<1>3. CASE PutPends
  <2>1. metrics'.frames_enqueued = metrics.frames_enqueued
    BY <1>3 DEF PutPends
  <2>2. PutsTheNext'
    BY <1>3, <2>1, EnqueuedTyped DEF PutPends, Counted, PutsTheNext
  <2>3. OnlyEnqueued'
    BY <1>3, <2>1, EnqueuedTyped, StillOnlyEnqueued
       DEF PutPends, Counted, Enqueued, Holding, LastPrinted
  <2> QED BY <2>2, <2>3 DEF Counted
<1>4. CASE ProducerCountsEndMarker
  <2>1. metrics'.frames_enqueued = metrics.frames_enqueued
    BY <1>4, RecordsBesideEnqueued DEF ProducerCountsEndMarker, MetricNames
  <2>2. PutsTheNext'
    BY <1>4, <2>1, EnqueuedTyped
    DEF ProducerCountsEndMarker, Counted, PutsTheNext
  <2>3. OnlyEnqueued'
    BY <1>4, <2>1, EnqueuedTyped, StillOnlyEnqueued
       DEF ProducerCountsEndMarker, Counted, Enqueued, Holding, LastPrinted
  <2> QED BY <2>2, <2>3 DEF Counted
<1>5. CASE ProducerPushFails
  <2>1. metrics'.frames_enqueued = metrics.frames_enqueued
    BY <1>5, RecordsBesideEnqueued DEF ProducerPushFails, MetricNames
  <2>2. PutsTheNext'
    BY <1>5, <2>1, EnqueuedTyped DEF ProducerPushFails, Counted, PutsTheNext
  <2>3. OnlyEnqueued'
    BY <1>5, <2>1, EnqueuedTyped, StillOnlyEnqueued
       DEF ProducerPushFails, Counted, Enqueued, Holding, LastPrinted
  <2> QED BY <2>2, <2>3 DEF Counted
<1>6. CASE ProducerGives
  <2>1. metrics'.frames_enqueued = metrics.frames_enqueued
    BY <1>6 DEF ProducerGives
  <2>2. PutsTheNext'
    BY <1>6, <2>1, EnqueuedTyped DEF ProducerGives, Counted, PutsTheNext
  <2>3. OnlyEnqueued'
    BY <1>6, <2>1, EnqueuedTyped, StillOnlyEnqueued
       DEF ProducerGives, Counted, Enqueued, Holding, LastPrinted
  <2> QED BY <2>2, <2>3 DEF Counted
<1>7. CASE GetPends
  <2>1. metrics'.frames_enqueued = metrics.frames_enqueued
    BY <1>7 DEF GetPends
  <2>2. PutsTheNext'
    BY <1>7, <2>1, EnqueuedTyped DEF GetPends, Counted, PutsTheNext
  <2>3. OnlyEnqueued'
    BY <1>7, <2>1, EnqueuedTyped, StillOnlyEnqueued
       DEF GetPends, Counted, Enqueued, Holding, LastPrinted
  <2> QED BY <2>2, <2>3 DEF Counted
<1>8. CASE TransmitterCountsFrame
  <2>1. metrics'.frames_enqueued = metrics.frames_enqueued
    BY <1>8, RecordsBesideEnqueued DEF TransmitterCountsFrame, MetricNames
  <2>2. PutsTheNext'
    BY <1>8, <2>1, EnqueuedTyped
    DEF TransmitterCountsFrame, Counted, PutsTheNext
  <2>3. OnlyEnqueued'
    BY <1>8, <2>1, EnqueuedTyped, StillOnlyEnqueued
       DEF TransmitterCountsFrame, Counted, Enqueued, Holding, LastPrinted
  <2> QED BY <2>2, <2>3 DEF Counted
<1>9. CASE TransmitterCountsEndMarker
  <2>1. metrics'.frames_enqueued = metrics.frames_enqueued
    BY <1>9, RecordsBesideEnqueued DEF TransmitterCountsEndMarker, MetricNames
  <2>2. PutsTheNext'
    BY <1>9, <2>1, EnqueuedTyped
    DEF TransmitterCountsEndMarker, Counted, PutsTheNext
  <2>3. OnlyEnqueued'
    BY <1>9, <2>1, EnqueuedTyped, StillOnlyEnqueued
       DEF TransmitterCountsEndMarker, Counted, Enqueued, Holding, LastPrinted
  <2> QED BY <2>2, <2>3 DEF Counted
<1>10. CASE TransmitterPopFails
  <2>1. metrics'.frames_enqueued = metrics.frames_enqueued
    BY <1>10, RecordsBesideEnqueued DEF TransmitterPopFails, MetricNames
  <2>2. PutsTheNext'
    BY <1>10, <2>1, EnqueuedTyped
    DEF TransmitterPopFails, Counted, PutsTheNext
  <2>3. OnlyEnqueued'
    BY <1>10, <2>1, EnqueuedTyped, StillOnlyEnqueued
       DEF TransmitterPopFails, Counted, Enqueued, Holding, LastPrinted
  <2> QED BY <2>2, <2>3 DEF Counted
<1>11. CASE TransmitterGives
  <2>1. metrics'.frames_enqueued = metrics.frames_enqueued
    BY <1>11 DEF TransmitterGives
  <2>2. PutsTheNext'
    BY <1>11, <2>1, EnqueuedTyped DEF TransmitterGives, Counted, PutsTheNext
  <2>3. OnlyEnqueued'
    BY <1>11, <2>1, EnqueuedTyped, StillOnlyEnqueued
       DEF TransmitterGives, Counted, Enqueued, Holding, LastPrinted
  <2> QED BY <2>2, <2>3 DEF Counted
<1>12. CASE MainCreatesTransmitter
  <2>1. metrics'.frames_enqueued = metrics.frames_enqueued
    BY <1>12 DEF MainCreatesTransmitter
  <2>2. PutsTheNext'
    BY <1>12, <2>1, EnqueuedTyped
    DEF MainCreatesTransmitter, Counted, PutsTheNext, DeliveryOrder, StartUp
  <2>3. OnlyEnqueued'
    BY <1>12, <2>1, EnqueuedTyped, StillOnlyEnqueued
       DEF MainCreatesTransmitter, Counted, Enqueued, Holding, LastPrinted,
           DeliveryOrder, StartUp
  <2> QED BY <2>2, <2>3 DEF Counted
<1>13. CASE MainCreatesProducer
  <2>1. metrics'.frames_enqueued = metrics.frames_enqueued
    BY <1>13 DEF MainCreatesProducer
  <2>2. PutsTheNext'
    BY <1>13, <2>1, EnqueuedTyped
    DEF MainCreatesProducer, Counted, PutsTheNext, DeliveryOrder, StartUp
  <2>3. OnlyEnqueued'
    BY <1>13, <2>1, EnqueuedTyped, StillOnlyEnqueued
       DEF MainCreatesProducer, Counted, Enqueued, Holding, LastPrinted,
           DeliveryOrder, StartUp
  <2> QED BY <2>2, <2>3 DEF Counted
<1>14. CASE MainJoinsProducer
  <2>1. metrics'.frames_enqueued = metrics.frames_enqueued
    BY <1>14 DEF MainJoinsProducer
  <2>2. PutsTheNext'
    BY <1>14, <2>1, EnqueuedTyped DEF MainJoinsProducer, Counted, PutsTheNext
  <2>3. OnlyEnqueued'
    BY <1>14, <2>1, EnqueuedTyped, StillOnlyEnqueued
       DEF MainJoinsProducer, Counted, Enqueued, Holding, LastPrinted
  <2> QED BY <2>2, <2>3 DEF Counted
<1>15. CASE MainJoinsTransmitter
  <2>1. metrics'.frames_enqueued = metrics.frames_enqueued
    BY <1>15 DEF MainJoinsTransmitter
  <2>2. PutsTheNext'
    BY <1>15, <2>1, EnqueuedTyped
    DEF MainJoinsTransmitter, Counted, PutsTheNext
  <2>3. OnlyEnqueued'
    BY <1>15, <2>1, EnqueuedTyped, StillOnlyEnqueued
       DEF MainJoinsTransmitter, Counted, Enqueued, Holding, LastPrinted
  <2> QED BY <2>2, <2>3 DEF Counted
<1>16. CASE MainReports
  <2>1. metrics'.frames_enqueued = metrics.frames_enqueued
    BY <1>16 DEF MainReports
  <2>2. PutsTheNext'
    BY <1>16, <2>1, EnqueuedTyped DEF MainReports, Counted, PutsTheNext
  <2>3. OnlyEnqueued'
    BY <1>16, <2>1, EnqueuedTyped, StillOnlyEnqueued
       DEF MainReports, Counted, Enqueued, Holding, LastPrinted
  <2> QED BY <2>2, <2>3 DEF Counted
<1>17. CASE ConstructAnotherQueue
  <2>1. metrics'.frames_enqueued = metrics.frames_enqueued
    BY <1>17 DEF ConstructAnotherQueue
  <2>2. PutsTheNext'
    BY <1>17, <2>1, EnqueuedTyped
    DEF ConstructAnotherQueue, Counted, PutsTheNext
  <2>3. OnlyEnqueued'
    BY <1>17, <2>1, EnqueuedTyped, StillOnlyEnqueued
       DEF ConstructAnotherQueue, Counted, Enqueued, Holding, LastPrinted
  <2> QED BY <2>2, <2>3 DEF Counted
<1>18. CASE PutHandsOver
  <2>1. /\ metrics' = metrics /\ queue' = queue /\ lines' = lines
        /\ transmitterItem' = producerItem /\ producerItem' = producerItem
        /\ producerPc = "put"
        /\ producerPc' = "put_returned"
        /\ putResult' = "ok"
    BY <1>18 DEF PutHandsOver
  <2>2. PutsTheNext'
    BY <2>1 DEF Counted, PutsTheNext
  <2>3. /\ Enqueued <= Enqueued'
        /\ producerItem.kind = "frame" => producerItem.frame <= Enqueued'
    BY <2>1, EnqueuedTyped DEF Enqueued, Counted, PutsTheNext
  <2>4. OnlyEnqueued'
    BY <2>1, <2>3, EnqueuedTyped
    DEF OnlyEnqueued, Counted, LastPrinted, Items, Enqueued
  <2> QED BY <2>2, <2>4 DEF Counted
<1>19. CASE PutBuffers
  <2>1. /\ metrics' = metrics /\ lines' = lines
        /\ queue' = Append(queue, producerItem)
        /\ UNCHANGED <<transmitterItem, transmitterPc, getResult,
                       producerItem>>
        /\ producerPc = "put"
        /\ producerPc' = "put_returned"
        /\ putResult' = "ok"
    BY <1>19 DEF PutBuffers
  <2>2. PutsTheNext'
    BY <2>1 DEF Counted, PutsTheNext
  <2>3. /\ Enqueued <= Enqueued'
        /\ producerItem.kind = "frame" => producerItem.frame <= Enqueued'
    BY <2>1, EnqueuedTyped DEF Enqueued, Counted, PutsTheNext
  <2>4. Enqueued' \in Nat
    BY <2>1, EnqueuedTyped DEF Enqueued
  <2>5. \A i \in 1..Len(queue') :
            \/ queue'[i] = producerItem
            \/ i \in 1..Len(queue) /\ queue'[i] = queue[i]
    <3>1. queue \in Seq(Items) /\ producerItem \in Items
      BY DEF TypeOK
    <3>2. \A i \in 1..Len(Append(queue, producerItem)) :
              \/ Append(queue, producerItem)[i] = producerItem
              \/ /\ i \in 1..Len(queue)
                 /\ Append(queue, producerItem)[i] = queue[i]
      BY <3>1, AppendedElements
    <3> QED BY <2>1, <3>2
  <2>6. \A i \in 1..Len(queue') :
            queue'[i].kind = "frame" => queue'[i].frame <= Enqueued'
    BY <2>3, <2>4, <2>5, EnqueuedTyped DEF OnlyEnqueued, Counted, Items
  <2>7. /\ LastPrinted' = LastPrinted /\ Holding' = Holding
        /\ transmitterItem' = transmitterItem /\ transmitterItem.frame \in Nat
    BY <2>1 DEF LastPrinted, Holding, TypeOK, Items
  <2>8. /\ LastPrinted' <= Enqueued'
        /\ Holding' /\ transmitterItem'.kind = "frame" =>
               transmitterItem'.frame <= Enqueued'
    BY <2>3, <2>4, <2>7, EnqueuedTyped DEF OnlyEnqueued, Counted
  <2> QED BY <2>2, <2>6, <2>8 DEF Counted, OnlyEnqueued
<1>20. CASE ProducerCountsFrame
  <2>1. metrics'.frames_enqueued = metrics.frames_enqueued + 1
    BY <1>20 DEF ProducerCountsFrame, Record, TypeOK, MetricNames
  <2>2. PutsTheNext'
    BY <1>20, <2>1, EnqueuedTyped
    DEF ProducerCountsFrame, Counted, PutsTheNext, DeliveryOrder,
        HandsInOrder, FrameItem, EndItem
  <2>3. OnlyEnqueued'
    BY <1>20, <2>1, EnqueuedTyped, StillOnlyEnqueued
       DEF ProducerCountsFrame, Counted, Enqueued, Holding, LastPrinted
  <2> QED BY <2>2, <2>3 DEF Counted
<1>21. CASE GetTakes
  <2>1. /\ UNCHANGED <<metrics, lines, producerPc, producerItem, putResult,
                       sensorIndex>>
        /\ queue # <<>>
        /\ queue' = Tail(queue)
        /\ transmitterItem' = Head(queue)
    BY <1>21 DEF GetTakes
  <2>2. PutsTheNext'
    BY <2>1 DEF Counted, PutsTheNext
  <2>3. /\ transmitterItem' = queue[1] /\ 1 \in 1..Len(queue)
        /\ \A i \in 1..Len(queue') :
               i + 1 \in 1..Len(queue) /\ queue'[i] = queue[i + 1]
    BY <2>1 DEF TypeOK
  <2>4. OnlyEnqueued'
    BY <2>1, <2>3 DEF OnlyEnqueued, Counted, LastPrinted, Enqueued
  <2> QED BY <2>2, <2>4 DEF Counted
<1>22. CASE GetTakesAndAdmits
  <2>1. /\ UNCHANGED <<metrics, lines, producerItem, sensorIndex>>
        /\ producerPc = "pended"
        /\ producerPc' = "put_returned"
        /\ putResult' = "ok"
        /\ queue # <<>> /\ queue' = Append(Tail(queue), producerItem)
        /\ transmitterItem' = Head(queue)
    BY <1>22 DEF GetTakesAndAdmits
  <2>2. PutsTheNext'
    BY <2>1 DEF Counted, PutsTheNext
  <2>3. /\ Enqueued <= Enqueued'
        /\ producerItem.kind = "frame" => producerItem.frame <= Enqueued'
    BY <2>1, EnqueuedTyped DEF Enqueued, Counted, PutsTheNext
  <2>4. Enqueued' \in Nat
    BY <2>1, EnqueuedTyped DEF Enqueued
  <2>5. transmitterItem' = queue[1] /\ 1 \in 1..Len(queue)
    BY <2>1 DEF TypeOK
  <2>6. \A i \in 1..Len(queue') :
            \/ queue'[i] = producerItem
            \/ i + 1 \in 1..Len(queue) /\ queue'[i] = queue[i + 1]
    <3> DEFINE rest == Tail(queue)
    <3>1. /\ rest \in Seq(Items) /\ producerItem \in Items
          /\ \A i \in 1..Len(rest) :
                 i + 1 \in 1..Len(queue) /\ rest[i] = queue[i + 1]
      BY <2>1, TailElements DEF TypeOK
    <3>2. queue' = Append(rest, producerItem)
      BY <2>1
    <3> HIDE DEF rest
    <3>3. \A i \in 1..Len(Append(rest, producerItem)) :
              \/ Append(rest, producerItem)[i] = producerItem
              \/ /\ i \in 1..Len(rest)
                 /\ Append(rest, producerItem)[i] = rest[i]
      BY <3>1, AppendedElements
    <3> QED BY <3>1, <3>2, <3>3
  <2>7. ASSUME NEW i \in 1..Len(queue'), queue'[i].kind = "frame"
        PROVE  queue'[i].frame <= Enqueued'
    <3>1. CASE queue'[i] = producerItem
      BY <2>3, <2>7, <3>1
    <3>2. CASE i + 1 \in 1..Len(queue) /\ queue'[i] = queue[i + 1]
      <4>1. queue[i + 1].frame \in Nat /\ queue[i + 1].frame <= Enqueued
        BY <2>7, <3>2, EnqueuedTyped DEF OnlyEnqueued, Counted, Items
      <4> QED BY <2>3, <2>4, <3>2, <4>1, EnqueuedTyped
    <3> QED BY <2>6, <3>1, <3>2
  <2>8. /\ LastPrinted' <= Enqueued'
        /\ Holding' /\ transmitterItem'.kind = "frame" =>
               transmitterItem'.frame <= Enqueued'
    BY <2>1, <2>3, <2>4, <2>5, EnqueuedTyped
    DEF OnlyEnqueued, Counted, LastPrinted, Items
  <2> QED BY <2>2, <2>7, <2>8 DEF Counted, OnlyEnqueued
<1>23. CASE TransmitterPrints
  <2>1. /\ UNCHANGED <<metrics, producerPc, producerItem, putResult,
                       sensorIndex, queue, transmitterItem>>
        /\ transmitterItem.kind = "frame" /\ Holding /\ ~Holding'
        /\ lines' = Append(lines, [number |-> Len(lines) + 1,
                                   frame |-> transmitterItem.frame])
    BY <1>23 DEF TransmitterPrints, Holding
  <2>2. PutsTheNext'
    BY <2>1 DEF Counted, PutsTheNext
  <2>3. LastPrinted' = transmitterItem.frame
    <3> DEFINE line == [number |-> Len(lines) + 1,
                         frame |-> transmitterItem.frame]
    <3>1. /\ line \in [number : Nat, frame : Nat]
          /\ line.frame = transmitterItem.frame
      BY DEF TypeOK, Items
    <3>2. /\ lines' = Append(lines, line)
          /\ lines \in Seq([number : Nat, frame : Nat])
      BY <2>1 DEF TypeOK
    <3> HIDE DEF line
    <3>3. lines' # <<>> /\ lines'[Len(lines')] = line
      BY <3>1, <3>2, SMTT(30)
    <3> QED BY <3>1, <3>3 DEF LastPrinted
  <2>4. OnlyEnqueued'
    BY <2>1, <2>3 DEF OnlyEnqueued, Counted, Enqueued
  <2> QED BY <2>2, <2>4 DEF Counted
<1>24. CASE UNCHANGED vars
  BY <1>24
  DEF vars, Counted, PutsTheNext, OnlyEnqueued, Enqueued, Holding, LastPrinted
<1> QED
  BY <1>1, <1>2, <1>3, <1>4, <1>5, <1>6, <1>7, <1>8, <1>9, <1>10, <1>11,
     <1>12, <1>13, <1>14, <1>15, <1>16, <1>17, <1>18, <1>19, <1>20, <1>21,
     <1>22, <1>23, <1>24
  DEF Next, Producer, Transmitter, Main, Exited

\* The transmitter's counter is ahead of the producer's by one frame at most,
\* the one whose put has returned, whatever the scheduling and the purges.
THEOREM LeadsByOne == Spec => []TransmittedLeadsByOne
<1>1. Init => Counted
  <2> SUFFICES ASSUME Init PROVE Counted
    OBVIOUS
  <2>1. /\ metrics.frames_enqueued = 0 /\ Len(queue) = 0
        /\ LastPrinted = 0 /\ ~Holding /\ Enqueued = 0
    BY DEF Init, MetricNames, LastPrinted, Holding, Enqueued
  <2> QED BY <2>1 DEF Init, Counted, PutsTheNext, OnlyEnqueued
<1>2. TypeOK /\ TypeOK' /\ DeliveryOrder /\ Counted /\ [Next]_vars => Counted'
  BY CountedStep
<1>3. TypeOK /\ DeliveryOrder /\ Counted => TransmittedLeadsByOne
  <2> SUFFICES ASSUME TypeOK, DeliveryOrder, Counted
               PROVE  TransmittedLeadsByOne
    OBVIOUS
  <2>1. /\ Len(lines) \in Nat /\ metrics.frames_transmitted \in Nat
        /\ metrics.frames_transmitted <= Len(lines)
    BY LineTyped DEF TypeOK, MetricNames, DeliveryOrder, CountsLines
  <2>2. Len(lines) <= LastPrinted
    <3>1. CASE Len(lines) = 0
      BY <3>1, EnqueuedTyped
    <3>2. CASE Len(lines) # 0
      <4>1. 1 \in 1..Len(lines) /\ lines[1].frame \in Nat
        BY <2>1, <3>2, LineTyped DEF TypeOK
      <4> QED BY <2>1, <4>1, EnqueuedTyped DEF DeliveryOrder, LinesInOrder
    <3> QED BY <3>1, <3>2
  <2>3. LastPrinted <= Enqueued
    BY DEF Counted, OnlyEnqueued
  <2> QED BY <2>1, <2>2, <2>3, EnqueuedTyped
          DEF Enqueued, TransmittedLeadsByOne
<1> QED BY <1>1, <1>2, <1>3, TypeCorrect, DeliveryOrderHolds, PTL DEF Spec

-----------------------------------------------------------------------------
(* Without a purge the positions are consecutive.                           *)

\* The last position that the transmitter has taken from the queue.
Passed ==
    CASE Holding -> Position(transmitterItem)
      [] transmitterPc \in {"give", "finished"} -> SampleCount + 1
      [] OTHER -> Len(lines)

TakenInTurn ==
    /\ \A k \in 1..Len(lines) : lines[k].frame = k
    /\ Holding => Position(transmitterItem) = Len(lines) + 1
    /\ transmitterPc \in {"give", "finished"} => Len(lines) = SampleCount

\* The buffer holds what is after Passed, and the producer puts what is after
\* the buffer.
BufferFollows ==
    /\ \A i \in 1..Len(queue) : Position(queue[i]) = Passed + i
    /\ Ceiling = Passed + Len(queue)
    /\ producerPc = "absent" => sensorIndex = 0
    /\ producerPc \in {"give", "finished"} => sensorIndex = SampleCount

NoFailure == putResult = "ok" /\ getResult = "ok"

Consecutive == purges = 0 => NoFailure /\ TakenInTurn /\ BufferFollows

\* The positions that Consecutive compares are naturals.
LEMMA PassedTyped ==
    ASSUME TypeOK
    PROVE  /\ Len(lines) \in Nat
           /\ Len(queue) \in Nat
           /\ Passed \in Nat
           /\ Position(transmitterItem) \in Nat
           /\ Position(producerItem) \in Nat
           /\ sensorIndex \in Nat
           /\ \A i \in 1..Len(queue) : Position(queue[i]) \in Nat
<1>1. Position(transmitterItem) \in Nat /\ Position(producerItem) \in Nat
  BY PositionTyped DEF TypeOK
<1>2. Len(lines) \in Nat
  BY LineTyped DEF TypeOK
<1> QED BY <1>1, <1>2, QueuePositions DEF Passed, TypeOK

\* Steps beside the console and the buffer.
LEMMA ConsecutiveUndisturbed ==
    ASSUME TypeOK, Consecutive, UNCHANGED <<lines, queue, purges>>,
           purges = 0 => NoFailure' /\ Ceiling' = Ceiling /\ Passed' = Passed,
           Holding' => Holding /\ transmitterItem' = transmitterItem,
           transmitterPc' \in {"give", "finished"} =>
               transmitterPc \in {"give", "finished"},
           producerPc' = "absent" =>
               producerPc = "absent" /\ UNCHANGED sensorIndex,
           purges = 0 /\ producerPc' \in {"give", "finished"} =>
               sensorIndex' = SampleCount
    PROVE  Consecutive'
BY DEF Consecutive, TakenInTurn, BufferFollows

\* Every step keeps the positions consecutive; a purge ends the matter.
LEMMA ConsecutiveStep ==
    ASSUME TypeOK, TypeOK', DeliveryOrder, Consecutive, [Next]_vars
    PROVE  Consecutive'
<1> USE DEF besideProducer, besideTransmitter, besideMain, sensorVars,
            producerVars, transmitterVars, semaphoreVars, mainVars
<1>1. CASE ProducerSample
  <2>1. Ceiling' = Ceiling /\ Passed' = Passed
    BY <1>1, ProducerPosition, PassedTyped
       DEF ProducerSample, Ceiling, Passed, Holding, Position, FrameItem
  <2> QED BY <1>1, <2>1, ConsecutiveUndisturbed
          DEF ProducerSample, Consecutive, NoFailure, Holding
<1>2. CASE ProducerFinishStream
  <2>1. Ceiling' = Ceiling /\ Passed' = Passed
    BY <1>2, ProducerPosition, PassedTyped
       DEF ProducerFinishStream, HasNext, TypeOK, Ceiling, Passed, Holding
  <2> QED BY <1>2, <2>1, ConsecutiveUndisturbed
          DEF ProducerFinishStream, Consecutive, NoFailure, Holding
<1>3. CASE PutPends \/ ProducerCountsFrame \/ ProducerCountsEndMarker
               \/ ProducerPushFails \/ ProducerGives
  <2>1. purges = 0 => Ceiling' = Ceiling
    BY <1>3, ProducerPosition, PassedTyped
       DEF PutPends, ProducerCountsFrame, ProducerCountsEndMarker,
           ProducerPushFails, ProducerGives, Ceiling, DeliveryOrder,
           HandsInOrder, Consecutive, NoFailure, FrameItem, EndItem
  <2>2. Passed' = Passed
    BY <1>3 DEF PutPends, ProducerCountsFrame, ProducerCountsEndMarker,
       ProducerPushFails, ProducerGives, Passed, Holding
  <2>3. purges = 0 /\ producerPc' \in {"give", "finished"} =>
            sensorIndex' = SampleCount
    BY <1>3
    DEF PutPends, ProducerCountsFrame, ProducerCountsEndMarker,
        ProducerPushFails, ProducerGives, Consecutive, NoFailure,
        BufferFollows, DeliveryOrder, HandsInOrder, FrameItem, EndItem
  <2> QED BY <1>3, <2>1, <2>2, <2>3, ConsecutiveUndisturbed
          DEF PutPends, ProducerCountsFrame, ProducerCountsEndMarker,
              ProducerPushFails, ProducerGives, Consecutive, NoFailure,
              Holding
<1>4. CASE PutHandsOver
  <2> SUFFICES ASSUME purges = 0
               PROVE  NoFailure' /\ TakenInTurn' /\ BufferFollows'
    BY <1>4 DEF PutHandsOver, Consecutive
  <2>1. /\ UNCHANGED <<lines, queue, sensorIndex, producerItem>>
        /\ transmitterPc = "pended" /\ transmitterPc' = "got"
        /\ transmitterItem' = producerItem
        /\ producerPc = "put" /\ producerPc' = "put_returned"
        /\ putResult' = "ok" /\ getResult' = "ok" /\ queue = <<>>
    BY <1>4 DEF PutHandsOver, DeliveryOrder, HandsInOrder
  <2>2. TakenInTurn /\ BufferFollows /\ Passed = Len(lines) /\ Len(queue) = 0
    BY <2>1 DEF Consecutive, Passed, Holding
  <2>3. Position(producerItem) = Len(lines) + 1
    BY <2>1, <2>2, PassedTyped DEF BufferFollows, Ceiling
  <2>4. Passed' = Len(lines) + 1 /\ Ceiling' = Len(lines) + 1
    BY <2>1, <2>3 DEF Passed, Ceiling, Holding, Position
  <2> QED BY <2>1, <2>2, <2>3, <2>4, PassedTyped
          DEF NoFailure, TakenInTurn, BufferFollows, Position
<1>5. CASE PutBuffers
  <2> SUFFICES ASSUME purges = 0
               PROVE  NoFailure' /\ TakenInTurn' /\ BufferFollows'
    BY <1>5 DEF PutBuffers, Consecutive
  <2>1. /\ UNCHANGED <<lines, transmitterPc, transmitterItem, getResult,
                       producerItem>>
        /\ queue' = Append(queue, producerItem)
        /\ producerPc = "put"
        /\ producerPc' = "put_returned"
        /\ putResult' = "ok"
    BY <1>5 DEF PutBuffers
  <2>2. NoFailure /\ TakenInTurn /\ BufferFollows /\ Passed' = Passed
        /\ Position(producerItem)' = Position(producerItem)
    BY <2>1 DEF Consecutive, Passed, Holding, Position
  <2>3. Position(producerItem) = Passed + Len(queue) + 1
    BY <2>1, <2>2, PassedTyped DEF BufferFollows, Ceiling
  <2>4. /\ Len(queue') = Len(queue) + 1
        /\ \A i \in 1..Len(queue) : queue'[i] = queue[i]
        /\ queue'[Len(queue) + 1] = producerItem
    BY <2>1 DEF TypeOK
  <2>5. ASSUME NEW i \in 1..Len(queue')
        PROVE  Position(queue'[i]) = Passed' + i
    <3>1. i \in 1..Len(queue) \/ i = Len(queue) + 1
      BY <2>4, PassedTyped
    <3>2. CASE i \in 1..Len(queue)
      <4>1. queue'[i] = queue[i] /\ Position(queue[i]) = Passed + i
        BY <2>2, <2>4, <3>2 DEF BufferFollows
      <4> QED BY <2>2, <4>1
    <3>3. CASE i = Len(queue) + 1
      <4>1. queue'[i] = producerItem
        BY <2>4, <3>3
      <4> QED BY <2>2, <2>3, <3>3, <4>1, PassedTyped
    <3> QED BY <3>1, <3>2, <3>3
  <2>6. Ceiling' = Passed' + Len(queue')
    BY <2>1, <2>2, <2>3, <2>4, PassedTyped DEF Ceiling
  <2>7. \A i \in 1..Len(queue') : Position(queue[i])' = Passed' + i
    BY <2>5 DEF Position
  <2> QED BY <2>1, <2>2, <2>6, <2>7
          DEF NoFailure, TakenInTurn, BufferFollows, Holding, Position
<1>6. CASE GetTakes \/ GetTakesAndAdmits
  <2> SUFFICES ASSUME purges = 0
               PROVE  NoFailure' /\ TakenInTurn' /\ BufferFollows'
    BY <1>6 DEF GetTakes, GetTakesAndAdmits, Consecutive
  <2>1. /\ UNCHANGED <<lines, sensorIndex, producerItem>>
        /\ queue # <<>> /\ transmitterItem' = Head(queue)
        /\ transmitterPc = "get"
        /\ transmitterPc' = "got"
        /\ getResult' = "ok"
    BY <1>6 DEF GetTakes, GetTakesAndAdmits
  <2>2. NoFailure /\ TakenInTurn /\ BufferFollows /\ Passed = Len(lines)
    BY <2>1 DEF Consecutive, Passed, Holding
  <2>3. transmitterItem' = queue[1] /\ 1 \in 1..Len(queue) /\ Holding'
    BY <2>1 DEF TypeOK, Holding
  <2>4. /\ Position(transmitterItem)' = Len(lines) + 1
        /\ Passed' = Len(lines) + 1
    <3>1. Position(queue[1]) = Len(lines) + 1
      BY <2>2, <2>3 DEF BufferFollows
    <3>2. Position(transmitterItem)' = Position(queue[1])
      BY <2>3 DEF Position
    <3>3. Passed' = Position(transmitterItem)'
      BY <2>1, <2>3 DEF Passed
    <3> QED BY <3>1, <3>2, <3>3
  <2>5. TakenInTurn'
    BY <2>1, <2>2, <2>4 DEF TakenInTurn
  <2>6. /\ Len(Tail(queue)) = Len(queue) - 1
        /\ \A i \in 1..Len(Tail(queue)) : Tail(queue)[i] = queue[i + 1]
        /\ \A i \in 1..Len(Tail(queue)) : i + 1 \in 1..Len(queue)
        /\ Tail(queue) \in Seq(Items)
    BY <2>1, TakeTyped DEF TypeOK
  <2>7. ASSUME NEW i \in 1..Len(Tail(queue))
        PROVE  Position(Tail(queue)[i]) = Passed' + i
    <3>1. Position(queue[i + 1]) = Passed + (i + 1)
      BY <2>2, <2>6 DEF BufferFollows
    <3> QED BY <2>2, <2>4, <2>6, <3>1, PassedTyped
  <2>8. CASE GetTakes
    <3>1. /\ queue' = Tail(queue)
          /\ producerPc' = producerPc
          /\ putResult' = putResult
          /\ Ceiling' = Ceiling
      BY <2>8 DEF GetTakes, Ceiling, Position
    <3>2. \A i \in 1..Len(queue') : Position(queue[i])' = Passed' + i
      BY <2>7, <3>1 DEF Position
    <3>3. Ceiling' = Passed' + Len(queue')
      BY <2>2, <2>4, <2>6, <3>1, PassedTyped, SMTT(30) DEF BufferFollows
    <3> QED BY <2>1, <2>2, <2>5, <3>1, <3>2, <3>3 DEF NoFailure, BufferFollows
  <2>9. CASE GetTakesAndAdmits
    <3>1. /\ queue' = Append(Tail(queue), producerItem)
          /\ producerPc = "pended"
          /\ producerPc' = "put_returned"
          /\ putResult' = "ok"
      BY <2>9 DEF GetTakesAndAdmits
    <3>2. Position(producerItem) = Passed + Len(queue) + 1
      <4>1. Ceiling = Position(producerItem) - 1
        BY <3>1 DEF Ceiling
      <4>2. Ceiling = Passed + Len(queue)
        BY <2>2 DEF BufferFollows
      <4> QED BY <4>1, <4>2, PassedTyped
    <3>3. /\ Len(queue') = Len(queue)
          /\ \A i \in 1..Len(Tail(queue)) : queue'[i] = Tail(queue)[i]
          /\ queue'[Len(queue)] = producerItem
      BY <2>6, <3>1, PassedTyped, AppendProperties DEF TypeOK
    <3>4. ASSUME NEW i \in 1..Len(queue')
        PROVE  Position(queue'[i]) = Passed' + i
      <4>1. i \in 1..Len(Tail(queue)) \/ i = Len(queue)
        BY <2>6, <3>3, PassedTyped
      <4>2. CASE i \in 1..Len(Tail(queue))
        BY <2>7, <3>3, <4>2
      <4>3. CASE i = Len(queue)
        BY <2>2, <2>4, <3>2, <3>3, <4>3, PassedTyped
      <4> QED BY <4>1, <4>2, <4>3
    <3>5. \A i \in 1..Len(queue') : Position(queue[i])' = Passed' + i
      BY <3>4 DEF Position
    <3>6. Ceiling' = Passed' + Len(queue')
      BY <2>1, <2>2, <2>4, <3>1, <3>2, <3>3, PassedTyped DEF Ceiling, Position
    <3> QED BY <2>1, <2>5, <3>1, <3>5, <3>6 DEF NoFailure, BufferFollows
  <2> QED BY <1>6, <2>8, <2>9
<1>7. CASE GetPends \/ TransmitterCountsFrame \/ TransmitterPopFails
               \/ TransmitterGives
  <2>1. /\ UNCHANGED <<lines, queue, purges, sensorIndex, producerPc,
                       putResult,
                       producerItem, getResult, transmitterItem>>
        /\ ~Holding'
        /\ purges = 0 => /\ ~Holding
                         /\ transmitterPc' \in {"give", "finished"} <=>
                                transmitterPc \in {"give", "finished"}
    BY <1>7 DEF GetPends, TransmitterCountsFrame, TransmitterPopFails,
       TransmitterGives, Holding, Consecutive, NoFailure
  <2>2. purges = 0 => Ceiling' = Ceiling /\ Passed' = Passed
    BY <2>1 DEF Ceiling, Passed, Position
  <2> QED BY <2>1, <2>2 DEF Consecutive, NoFailure, TakenInTurn, BufferFollows
<1>8. CASE TransmitterPrints
  <2> SUFFICES ASSUME purges = 0
               PROVE  NoFailure' /\ TakenInTurn' /\ BufferFollows'
    BY <1>8 DEF TransmitterPrints, Consecutive
  <2> DEFINE line == [number |-> Len(lines) + 1,
                         frame |-> transmitterItem.frame]
  <2>1. /\ UNCHANGED <<queue, sensorIndex, producerPc, putResult,
                       producerItem,
                       getResult, transmitterItem>>
        /\ Holding /\ transmitterItem.kind = "frame"
        /\ transmitterPc' = "count" /\ lines' = Append(lines, line)
    BY <1>8 DEF TransmitterPrints, Holding
  <2>2. /\ NoFailure /\ TakenInTurn /\ BufferFollows
        /\ Passed = Len(lines) + 1 /\ transmitterItem.frame = Len(lines) + 1
    BY <2>1 DEF Consecutive, Passed, TakenInTurn, Position
  <2>3. /\ Len(lines') = Len(lines) + 1
        /\ \A k \in 1..Len(lines) : lines'[k] = lines[k]
        /\ lines'[Len(lines) + 1].frame = Len(lines) + 1
    <3>1. line \in [number : Nat, frame : Nat] /\ line.frame = Len(lines) + 1
      BY <2>2, PassedTyped
    <3>2. lines \in Seq([number : Nat, frame : Nat])
      BY DEF TypeOK
    <3> HIDE DEF line
    <3> QED BY <2>1, <3>1, <3>2, AppendProperties
  <2>4. ~Holding' /\ Passed' = Passed /\ Ceiling' = Ceiling
    BY <2>1, <2>2, <2>3 DEF Holding, Passed, Ceiling, Position
  <2>5. \A k \in 1..Len(lines') : k \in 1..Len(lines) \/ k = Len(lines) + 1
    BY <2>3, PassedTyped
  <2>6. TakenInTurn'
    BY <2>1, <2>2, <2>3, <2>4, <2>5 DEF TakenInTurn
  <2> QED BY <2>1, <2>2, <2>4, <2>6 DEF NoFailure, BufferFollows, Position
<1>9. CASE TransmitterCountsEndMarker
  <2> SUFFICES ASSUME purges = 0
               PROVE  NoFailure' /\ TakenInTurn' /\ BufferFollows'
    BY <1>9 DEF TransmitterCountsEndMarker, Consecutive
  <2>1. /\ UNCHANGED <<lines, queue, sensorIndex, producerPc, putResult,
                       producerItem, getResult, transmitterItem>>
        /\ Holding /\ transmitterItem.kind = "end_of_stream"
        /\ transmitterPc' = "give"
    BY <1>9 DEF TransmitterCountsEndMarker, Holding
  <2>2. NoFailure /\ TakenInTurn /\ BufferFollows
    BY DEF Consecutive
  <2>3. /\ Position(transmitterItem) = SampleCount + 1
        /\ Len(lines) = SampleCount
    BY <2>1, <2>2, PassedTyped DEF TakenInTurn, Position
  <2>4. ~Holding' /\ Passed' = Passed /\ Ceiling' = Ceiling
    BY <2>1, <2>3 DEF Holding, Passed, Ceiling, Position
  <2> QED BY <2>1, <2>2, <2>3, <2>4 DEF NoFailure, TakenInTurn, BufferFollows
<1>10. CASE MainCreatesTransmitter
  <2> SUFFICES ASSUME purges = 0
               PROVE  NoFailure' /\ TakenInTurn' /\ BufferFollows'
    BY <1>10 DEF MainCreatesTransmitter, Consecutive
  <2>1. /\ UNCHANGED <<lines, sensorIndex, producerPc, putResult,
                       producerItem,
                       getResult, transmitterItem>>
        /\ producerPc = "absent" /\ transmitterPc = "absent"
        /\ transmitterPc' = "get" /\ queue' = <<>>
    BY <1>10 DEF MainCreatesTransmitter, DeliveryOrder, StartUp
  <2>2. /\ NoFailure /\ TakenInTurn /\ BufferFollows
        /\ Passed = Len(lines) /\ Passed' = Len(lines) /\ ~Holding'
        /\ Ceiling = 0 /\ Ceiling' = 0
    BY <2>1 DEF Consecutive, Passed, Holding, Ceiling, BufferFollows
  <2>3. Len(lines) = 0
    BY <2>2, PassedTyped DEF BufferFollows
  <2>4. Len(queue') = 0
    BY <2>1
  <2> QED BY <2>1, <2>2, <2>3, <2>4 DEF NoFailure, TakenInTurn, BufferFollows
<1>11. CASE MainCreatesProducer
  <2>1. Ceiling' = Ceiling /\ Passed' = Passed
    BY <1>11 DEF MainCreatesProducer, DeliveryOrder, StartUp, Ceiling, Passed,
       Holding
  <2> QED BY <1>11, <2>1, ConsecutiveUndisturbed
          DEF MainCreatesProducer, Consecutive, NoFailure, Holding
<1>12. CASE MainJoinsProducer \/ MainJoinsTransmitter \/ MainReports
                \/ UNCHANGED vars
  <2>1. Ceiling' = Ceiling /\ Passed' = Passed
    BY <1>12 DEF MainJoinsProducer, MainJoinsTransmitter, MainReports, vars,
       Ceiling, Passed, Holding, Position
  <2> QED BY <1>12, <2>1, ConsecutiveUndisturbed
          DEF MainJoinsProducer, MainJoinsTransmitter, MainReports, vars,
              Consecutive, NoFailure, BufferFollows, Holding
<1>13. CASE ConstructAnotherQueue
  <2>1. purges' # 0
    BY <1>13 DEF ConstructAnotherQueue, TypeOK
  <2> QED BY <2>1 DEF Consecutive
<1> QED
  BY <1>1, <1>2, <1>3, <1>4, <1>5, <1>6, <1>7, <1>8, <1>9, <1>10, <1>11,
     <1>12,
     <1>13
  DEF Next, Producer, Transmitter, Main, Exited

\* Without a purge the positions are consecutive in every execution.
LEMMA ConsecutiveHolds == Spec => []Consecutive
<1>1. Init => Consecutive
  <2> SUFFICES ASSUME Init PROVE Consecutive
    OBVIOUS
  <2>1. Len(lines) = 0 /\ Len(queue) = 0 /\ ~Holding
    BY DEF Init, Holding
  <2>2. Passed = 0 /\ Ceiling = 0
    BY <2>1 DEF Init, Passed, Ceiling
  <2> QED BY <2>1, <2>2
          DEF Init, Consecutive, NoFailure, TakenInTurn, BufferFollows
<1>2. TypeOK /\ TypeOK' /\ DeliveryOrder /\ Consecutive /\ [Next]_vars
        => Consecutive'
  BY ConsecutiveStep
<1> QED BY <1>1, <1>2, TypeCorrect, DeliveryOrderHolds, PTL DEF Spec

\* Neither thread waits on the queue for one that has returned, for every
\* number of samples and capacity, unless a purge interfered.
THEOREM NobodyIsOrphaned == Spec => []NoOrphanWaits
<1>1. TypeOK /\ DeliveryOrder /\ Consecutive => NoOrphanWaits
  <2> SUFFICES ASSUME TypeOK, DeliveryOrder, Consecutive, purges = 0
               PROVE  /\ transmitterPc = "pended" =>
                             producerPc \notin {"give", "finished"}
                      /\ producerPc = "pended" =>
                             transmitterPc \notin {"give", "finished"}
    BY DEF NoOrphanWaits
  <2>1. TakenInTurn /\ BufferFollows
    BY DEF Consecutive
  <2>2. ASSUME transmitterPc = "pended", producerPc \in {"give", "finished"}
        PROVE  FALSE
    <3>1. queue = <<>> /\ Passed = Len(lines) /\ Ceiling = SampleCount + 1
      BY <2>2 DEF DeliveryOrder, HandsInOrder, Passed, Holding, Ceiling
    <3>2. Len(lines) = SampleCount + 1
      BY <2>1, <3>1, PassedTyped DEF BufferFollows
    <3>3. Len(lines) \in 1..Len(lines) /\ lines # <<>>
      BY <3>2
    <3>4. LastPrinted = SampleCount + 1
      BY <2>1, <3>2, <3>3 DEF TakenInTurn, LastPrinted
    <3> QED BY <3>4 DEF DeliveryOrder, LinesInOrder
  <2>3. ASSUME producerPc = "pended", transmitterPc \in {"give", "finished"}
        PROVE  FALSE
    <3>1. Passed = SampleCount + 1 /\ Ceiling = Position(producerItem) - 1
      BY <2>3 DEF Passed, Holding, Ceiling
    <3>2. Position(producerItem) \in 0..(SampleCount + 1)
      BY PositionTyped DEF TypeOK
    <3> QED BY <2>1, <3>1, <3>2, PassedTyped DEF BufferFollows
  <2> QED BY <2>2, <2>3
<1> QED BY <1>1, TypeCorrect, DeliveryOrderHolds, ConsecutiveHolds, PTL

\* Two stretches of consecutive positions, one after the other.
LEMMA ConsecutiveConcat ==
    ASSUME NEW s \in Seq(Items), NEW t \in Seq(Items), NEW b \in Nat,
           \A i \in 1..Len(s) : Position(s[i]) = b + i,
           \A i \in 1..Len(t) : Position(t[i]) = b + Len(s) + i
    PROVE  /\ s \o t \in Seq(Items)
           /\ Len(s \o t) = Len(s) + Len(t)
           /\ \A i \in 1..Len(s \o t) : Position((s \o t)[i]) = b + i
<1>1. s \o t \in Seq(Items) /\ Len(s \o t) = Len(s) + Len(t)
  BY ConcatProperties
<1>2. ASSUME NEW i \in 1..Len(s \o t) PROVE Position((s \o t)[i]) = b + i
  <2>1. (s \o t)[i] = IF i <= Len(s) THEN s[i] ELSE t[i - Len(s)]
    BY <1>1, ConcatProperties
  <2>2. CASE i <= Len(s)
    BY <2>1, <2>2
  <2>3. CASE ~(i <= Len(s))
    <3>1. i - Len(s) \in 1..Len(t)
      BY <1>1, <2>3
    <3>2. Position(t[i - Len(s)]) = b + Len(s) + (i - Len(s))
      BY <3>1
    <3> QED BY <2>1, <2>3, <3>2
  <2> QED BY <2>2, <2>3
<1> QED BY <1>1, <1>2

\* The positions in flight follow those of the printed lines, and reach the
\* last sample generated or the end marker.
LEMMA FlightIsConsecutive ==
    ASSUME TypeOK, DeliveryOrder, Consecutive, purges = 0
    PROVE  /\ InFlight \in Seq(Items)
           /\ \A i \in 1..Len(InFlight) :
                  Position(InFlight[i]) = Len(lines) + i
           /\ \/ Len(lines) + Len(InFlight) = sensorIndex
              \/ /\ sensorIndex = SampleCount
                 /\ Len(lines) + Len(InFlight) = SampleCount + 1
<1> DEFINE h == TransmitterHolds
           p == ProducerHolds
<1>1. TakenInTurn /\ BufferFollows
  BY DEF Consecutive
<1>2. /\ queue \in Seq(Items) /\ h \in Seq(Items) /\ p \in Seq(Items)
      /\ transmitterItem \in Items /\ producerItem \in Items
  BY DEF TypeOK, TransmitterHolds, ProducerHolds
<1>3. sensorIndex \in Nat /\ sensorIndex <= SampleCount
  BY DEF TypeOK
\* What the producer's place says of the samples generated.
<1>4. \/ producerPc \in {"absent", "run"} /\ Ceiling = sensorIndex
      \/ /\ producerPc \in {"put", "pended"}
         /\ Ceiling = Position(producerItem) - 1
      \/ /\ producerPc = "put_returned"
         /\ Ceiling = Position(producerItem)
      \/ /\ producerPc \in {"give", "finished"}
         /\ Ceiling = SampleCount + 1 /\ sensorIndex = SampleCount
  BY <1>1 DEF Ceiling, TypeOK, ProducerStates, BufferFollows
<1>5. producerPc \in {"put", "pended", "put_returned"} =>
          \/ Position(producerItem) = sensorIndex
          \/ /\ Position(producerItem) = SampleCount + 1
             /\ sensorIndex = SampleCount
  BY ProducerPosition DEF DeliveryOrder, HandsInOrder
<1>6. Len(p) = IF producerPc \in {"put", "pended"} THEN 1 ELSE 0
  BY DEF ProducerHolds
<1>7. Ceiling + Len(p) = sensorIndex
          \/ (sensorIndex = SampleCount /\ Ceiling + Len(p) = SampleCount + 1)
  BY <1>3, <1>4, <1>5, <1>6, PassedTyped
<1>8. CASE transmitterPc \in {"give", "finished"}
  <2>1. Passed = SampleCount + 1 /\ ~Holding /\ Len(lines) = SampleCount
    BY <1>1, <1>8 DEF Passed, Holding, TakenInTurn
  <2>2. Ceiling = SampleCount + 1 + Len(queue)
    BY <1>1, <2>1 DEF BufferFollows
  <2>3. Len(queue) = 0 /\ Len(p) = 0 /\ sensorIndex = SampleCount
    BY <1>3, <1>6, <1>7, <2>2, PassedTyped
  <2>4. h = <<>> /\ p = <<>> /\ queue = <<>>
    BY <1>2, <1>6, <2>1, <2>3, EmptySeq
    DEF TransmitterHolds, ProducerHolds, Holding
  <2>5. InFlight = <<>>
    BY <2>4 DEF InFlight
  <2> QED BY <2>1, <2>3, <2>5
<1>9. CASE transmitterPc \notin {"give", "finished"}
  <2>1. /\ Len(h) = IF Holding THEN 1 ELSE 0
        /\ Holding => h = <<transmitterItem>>
    BY DEF TransmitterHolds, Holding
  <2>2. Passed = Len(lines) + Len(h)
    BY <1>1, <1>9, <2>1, PassedTyped DEF Passed, TakenInTurn
  <2>3. \A i \in 1..Len(h) : Position(h[i]) = Len(lines) + i
    BY <1>1, <2>1, PassedTyped DEF TakenInTurn
  <2>4. \A i \in 1..Len(queue) : Position(queue[i]) = Len(lines) + Len(h) + i
    BY <1>1, <2>2 DEF BufferFollows
  <2>5. /\ h \o queue \in Seq(Items)
        /\ Len(h \o queue) = Len(h) + Len(queue)
        /\ \A i \in 1..Len(h \o queue) :
               Position((h \o queue)[i]) = Len(lines) + i
    <3> HIDE DEF h
    <3> QED BY <1>2, <2>3, <2>4, PassedTyped, ConsecutiveConcat
  <2>6. Ceiling = Len(lines) + Len(h \o queue)
    BY <1>1, <1>2, <2>2, <2>5, PassedTyped DEF BufferFollows
  <2>7. \A i \in 1..Len(p) :
            Position(p[i]) = Len(lines) + Len(h \o queue) + i
    <3>1. CASE producerPc \in {"put", "pended"}
      <4>1. p = <<producerItem>> /\ Ceiling = Position(producerItem) - 1
        BY <3>1 DEF ProducerHolds, Ceiling
      <4>2. Len(p) = 1 /\ p[1] = producerItem
        BY <4>1
      <4>3. Position(producerItem) = Len(lines) + Len(h \o queue) + 1
        <5>1. Len(h \o queue) \in Nat
          BY <2>5
        <5> HIDE DEF h, p
        <5> QED BY <2>6, <4>1, <5>1, PassedTyped, SMTT(30)
      <4> HIDE DEF h, p
      <4> QED BY <4>2, <4>3
    <3>2. CASE producerPc \notin {"put", "pended"}
      BY <1>6, <3>2
    <3> QED BY <3>1, <3>2
  <2>8. /\ InFlight \in Seq(Items)
        /\ Len(InFlight) = Len(h \o queue) + Len(p)
        /\ \A i \in 1..Len(InFlight) :
               Position(InFlight[i]) = Len(lines) + i
    <3>1. InFlight = (h \o queue) \o p
      BY DEF InFlight
    <3> DEFINE s == h \o queue
    <3> HIDE DEF s, h, p
    <3>2. /\ s \o p \in Seq(Items) /\ Len(s \o p) = Len(s) + Len(p)
          /\ \A i \in 1..Len(s \o p) : Position((s \o p)[i]) = Len(lines) + i
      BY <1>2, <2>5, <2>7, PassedTyped, ConsecutiveConcat DEF s
    <3> QED BY <3>1, <3>2 DEF s
  <2>9. Len(lines) + Len(InFlight) = Ceiling + Len(p)
    BY <1>2, <2>5, <2>6, <2>8, PassedTyped
  <2> QED BY <1>7, <2>8, <2>9
<1> QED BY <1>8, <1>9

\* Without a purge every item is where it should be, exactly once and in
\* order, in every interleaving, for every number of samples and capacity.
THEOREM NothingLost == Spec => []NothingIsLost
<1>1. TypeOK /\ DeliveryOrder /\ Consecutive => NothingIsLost
  <2> SUFFICES ASSUME TypeOK, DeliveryOrder, Consecutive, purges = 0
               PROVE  \/ Pipeline = [k \in 1..sensorIndex |-> k]
                      \/ /\ ~HasNext
                         /\ Pipeline = [k \in 1..(SampleCount + 1) |-> k]
    BY DEF NothingIsLost
  <2> DEFINE flight == [k \in DOMAIN InFlight |-> Position(InFlight[k])]
             n == Len(lines) + Len(InFlight)
  <2>1. TakenInTurn
    BY DEF Consecutive
  <2>2. /\ Printed \in Seq(Nat) /\ Len(Printed) = Len(lines)
        /\ \A k \in 1..Len(lines) : Printed[k] = k
    BY <2>1, PrintedTyped DEF TakenInTurn
  <2>3. /\ flight \in Seq(Nat) /\ Len(flight) = Len(InFlight)
        /\ \A i \in 1..Len(InFlight) : flight[i] = Len(lines) + i
    <3>1. InFlight \in Seq(Items) /\ Len(InFlight) \in Nat
      BY FlightIsConsecutive
    <3>2. flight = [k \in 1..Len(InFlight) |-> Position(InFlight[k])]
      BY <3>1
    <3>3. \A i \in 1..Len(InFlight) : flight[i] = Len(lines) + i
      BY <3>2, FlightIsConsecutive
    <3>4. \A i \in 1..Len(InFlight) : flight[i] \in Nat
      BY <3>1, <3>2, ElementOfSeq, PositionTyped
    <3> QED BY <3>1, <3>2, <3>3, <3>4
  <2>4. n \in Nat
    BY FlightIsConsecutive, PassedTyped
  <2>5. Pipeline = [k \in 1..n |-> k]
    <3>1. Pipeline = Printed \o flight
      BY DEF Pipeline
    <3> DEFINE t == [k \in 1..n |-> k]
    <3>2. t \in Seq(Nat) /\ Len(t) = n /\ \A k \in 1..n : t[k] = k
      BY <2>4
    <3> HIDE DEF flight, t
    <3>3. Printed \o flight \in Seq(Nat) /\ Len(Printed \o flight) = n
      <4>1. /\ Printed \o flight \in Seq(Nat)
            /\ Len(Printed \o flight) = Len(Printed) + Len(flight)
        BY <2>2, <2>3, ConcatProperties
      <4> QED BY <2>2, <2>3, <4>1
    <3>4. ASSUME NEW k \in 1..n PROVE (Printed \o flight)[k] = k
      <4>1. (Printed \o flight)[k] =
                IF k <= Len(Printed)
                THEN Printed[k] ELSE flight[k - Len(Printed)]
        BY <2>2, <2>3, <3>3, ConcatProperties
      <4>2. CASE k <= Len(lines)
        BY <2>2, <4>1, <4>2, PassedTyped
      <4>3. CASE ~(k <= Len(lines))
        <5>1. k - Len(lines) \in 1..Len(InFlight)
          BY <4>3, <2>4, PassedTyped, FlightIsConsecutive
        <5> QED BY <2>2, <2>3, <4>1, <4>3, <5>1, PassedTyped
      <4> QED BY <4>2, <4>3
    <3>5. Printed \o flight = t
      BY <3>2, <3>3, <3>4, SeqEqual
    <3> QED BY <3>1, <3>5 DEF t
  <2> HIDE DEF n
  <2>6. n = sensorIndex \/ (sensorIndex = SampleCount /\ n = SampleCount + 1)
    BY FlightIsConsecutive DEF n
  <2> QED BY <2>5, <2>6 DEF HasNext
<1> QED BY <1>1, TypeCorrect, DeliveryOrderHolds, ConsecutiveHolds, PTL

-----------------------------------------------------------------------------
(* The capture.                                                             *)

\* The lines from one position to another.
Part(text, a, b) == [k \in 1..(b + 1 - a) |-> text[a + k - 1]]

\* The lines at an interval of positions are that part of the text.
LEMMA LinesAtInterval ==
    ASSUME NEW text, NEW a \in Nat, NEW b \in Nat, a <= b + 1
    PROVE  LinesAt(text, a..b) = Part(text, a, b)
<1>1. Cardinality(a..b) = b + 1 - a
  BY FS_Interval
<1>2. ASSUME NEW i \in a..b
      PROVE  Cardinality({j \in a..b : j <= i}) = i + 1 - a
  <2>1. {j \in a..b : j <= i} = a..i
    OBVIOUS
  <2>2. i \in Int /\ a \in Int /\ ~(a > i)
    OBVIOUS
  <2>3. Cardinality(a..i) = i - a + 1
    BY <2>2, FS_Interval
  <2>4. Cardinality({j \in a..b : j <= i}) = i - a + 1
    BY <2>1, <2>3, Zenon
  <2>5. QED
    BY <2>2, <2>4
<1>3. ASSUME NEW k \in 1..(b + 1 - a)
      PROVE  (CHOOSE i \in a..b : Cardinality({j \in a..b : j <= i}) = k)
             = a + k - 1
  <2>1. a + k - 1 \in a..b
    OBVIOUS
  <2>2. \A i \in a..b :
            Cardinality({j \in a..b : j <= i}) = k <=> i = a + k - 1
    BY <1>2
  <2>3. (CHOOSE i \in a..b : Cardinality({j \in a..b : j <= i}) = k)
        = CHOOSE i \in a..b : i = a + k - 1
    BY <2>2
  <2>4. QED
    BY <2>1, <2>3
<1>4. LinesAt(text, a..b) =
          [k \in 1..(b + 1 - a) |->
              text[CHOOSE i \in a..b : Cardinality({j \in a..b : j <= i}) = k]]
  BY <1>1, Zenon DEF LinesAt
<1>5. QED
  BY <1>3, <1>4, Zenon DEF Part

\* What the console may hold, and what may be written of it.
ConsoleLines ==
    {Banner, Done, VerdictLine("TLFIRMWARE SUMMARY"),
     VerdictLine("TLFIRMWARE ERROR")}
        \cup {FrameLine(lines[k]) : k \in 1..Len(lines)}
Torn(line, tear) == [line EXCEPT !.tear = tear]
LineRecords ==
    {Torn(line, tear) : line \in ConsoleLines,
                        tear \in {"whole", "words", "start", "fields"}}

\* The lines of main's verdict.
VerdictLines ==
    CASE verdict.status = "SUMMARY" ->
             <<VerdictLine("TLFIRMWARE SUMMARY"), Done>>
      [] verdict.status = "ERROR" -> <<VerdictLine("TLFIRMWARE ERROR")>>
      [] OTHER -> <<>>

\* The verdict's lines are at most two.
LEMMA VerdictLinesTyped ==
    ASSUME TypeOK
    PROVE  VerdictLines \in Seq(ConsoleLines)
<1> DEFINE first == VerdictLine("TLFIRMWARE SUMMARY")
           other == VerdictLine("TLFIRMWARE ERROR")
<1>1. first \in ConsoleLines /\ other \in ConsoleLines /\ Done \in ConsoleLines
  BY DEF ConsoleLines
<1>2. VerdictLines \in {<<first, Done>>, <<other>>, <<>>}
  BY DEF VerdictLines
<1> HIDE DEF first, other
<1>3. <<first, Done>> \in Seq(ConsoleLines)
  BY <1>1
<1>4. <<other>> \in Seq(ConsoleLines)
  BY <1>1
<1>5. <<>> \in Seq(ConsoleLines)
  OBVIOUS
<1>6. QED
  BY <1>2, <1>3, <1>4, <1>5

\* Among them only DONE starts like DONE, below the summary.
LEMMA VerdictEndsInDone ==
    /\ verdict.status = "SUMMARY" =>
           VerdictLines = <<VerdictLine("TLFIRMWARE SUMMARY"), Done>>
    /\ \A k \in 1..Len(VerdictLines) :
           VerdictLines[k].words = Done.words =>
               verdict.status = "SUMMARY" /\ k = Len(VerdictLines)
<1> DEFINE first == VerdictLine("TLFIRMWARE SUMMARY")
           other == VerdictLine("TLFIRMWARE ERROR")
<1>1. first.words # Done.words /\ other.words # Done.words
  BY DEF VerdictLine, Done, Line
<1>2. /\ verdict.status = "SUMMARY" => VerdictLines = <<first, Done>>
      /\ verdict.status = "SUMMARY" \/ VerdictLines = <<other>>
             \/ VerdictLines = <<>>
  BY DEF VerdictLines
<1> HIDE DEF first, other
<1> DEFINE summarized == verdict.status = "SUMMARY"
<1> HIDE DEF summarized
<1>3. ASSUME NEW k \in 1..Len(VerdictLines), VerdictLines[k].words = Done.words
      PROVE  summarized /\ k = Len(VerdictLines)
  <2>1. CASE VerdictLines = <<first, Done>> /\ summarized
    BY <1>1, <1>3, <2>1
  <2>2. CASE VerdictLines = <<other>>
    BY <1>1, <1>3, <2>2
  <2>3. CASE VerdictLines = <<>>
    BY <1>3, <2>3
  <2>4. QED
    BY <1>2, <2>1, <2>2, <2>3 DEF summarized
<1>4. QED
  BY <1>2, <1>3 DEF first, summarized

\* The console is the banner, then the frames' lines, then the verdict's.
LEMMA ConsoleShape ==
    ASSUME TypeOK
    PROVE  /\ Console \in Seq(ConsoleLines)
           /\ Len(Console) = 1 + Len(lines) + Len(VerdictLines)
           /\ \A i \in 1..Len(Console) :
                  Console[i] =
                      CASE i = 1 -> Banner
                        [] i \in 2..(Len(lines) + 1) -> FrameLine(lines[i - 1])
                        [] OTHER -> VerdictLines[i - 1 - Len(lines)]
<1> DEFINE shown == [k \in DOMAIN lines |-> FrameLine(lines[k])]
           start == <<Banner>>
<1>1. Len(lines) \in Nat /\ DOMAIN lines = 1..Len(lines)
  BY DEF TypeOK
<1>2. /\ shown \in Seq(ConsoleLines) /\ Len(shown) = Len(lines)
      /\ \A k \in 1..Len(lines) : shown[k] = FrameLine(lines[k])
  <2>1. shown \in [1..Len(lines) -> ConsoleLines]
    BY <1>1 DEF ConsoleLines
  <2>2. QED
    BY <1>1, <2>1
<1>3. start \in Seq(ConsoleLines) /\ Len(start) = 1 /\ start[1] = Banner
  BY DEF ConsoleLines
<1>4. VerdictLines \in Seq(ConsoleLines) /\ Len(VerdictLines) \in Nat
  BY VerdictLinesTyped
<1>5. Console = (start \o shown) \o VerdictLines
  BY DEF Console, VerdictLines
<1> HIDE DEF shown, start
<1> DEFINE above == start \o shown
<1>6. /\ above \in Seq(ConsoleLines) /\ Len(above) = 1 + Len(lines)
      /\ \A i \in 1..(1 + Len(lines)) :
             above[i] = IF i <= 1 THEN start[i] ELSE shown[i - 1]
  <2>1. /\ above \in Seq(ConsoleLines)
        /\ Len(above) = Len(start) + Len(shown)
        /\ \A i \in 1..(Len(start) + Len(shown)) :
              above[i] = IF i <= Len(start) THEN start[i] ELSE shown[i - Len(start)]
    BY <1>2, <1>3, ConcatProperties, Zenon
  <2>2. QED
    BY <1>2, <1>3, <2>1
<1> HIDE DEF above
<1>7. /\ Console \in Seq(ConsoleLines)
      /\ Len(Console) = Len(above) + Len(VerdictLines)
      /\ \A i \in 1..(Len(above) + Len(VerdictLines)) :
             Console[i] = IF i <= Len(above) THEN above[i]
                         ELSE VerdictLines[i - Len(above)]
  <2>1. Console = above \o VerdictLines
    BY <1>5 DEF above
  <2>2. QED
    BY <1>4, <1>6, <2>1, ConcatProperties, Zenon
<1>8. ASSUME NEW i \in 1..Len(Console)
      PROVE  Console[i] =
                 CASE i = 1 -> Banner
                   [] i \in 2..(Len(lines) + 1) -> FrameLine(lines[i - 1])
                   [] OTHER -> VerdictLines[i - 1 - Len(lines)]
  <2>1. CASE i = 1
    <3>1. i <= Len(above) /\ i \in 1..(1 + Len(lines)) /\ i <= 1
      BY <1>1, <1>6, <2>1
    <3>2. Console[i] = above[i] /\ above[i] = start[i]
      BY <1>6, <1>7, <3>1
    <3>3. QED
      BY <1>3, <2>1, <3>2
  <2>2. CASE i \in 2..(Len(lines) + 1)
    <3>1. i - 1 \in 1..Len(lines) /\ i # 1 /\ i \in 1..(1 + Len(lines))
      BY <1>1, <2>2
    <3>2. Console[i] = above[i] /\ above[i] = shown[i - 1]
      BY <1>1, <1>4, <1>6, <1>7, <2>2, <3>1
    <3>3. QED
      BY <1>2, <2>2, <3>1, <3>2
  <2>3. CASE i # 1 /\ i \notin 2..(Len(lines) + 1)
    <3>1. ~(i <= Len(above)) /\ Len(above) = 1 + Len(lines)
      BY <1>1, <1>6, <2>3
    <3>2. Console[i] = VerdictLines[i - (1 + Len(lines))]
      BY <1>7, <3>1
    <3>3. i - (1 + Len(lines)) = i - 1 - Len(lines)
      BY <1>1
    <3>4. QED
      BY <2>3, <3>2, <3>3
  <2>4. QED
    BY <2>1, <2>2, <2>3
<1>9. QED
  BY <1>1, <1>4, <1>6, <1>7, <1>8

\* Only DONE starts like DONE, it is the last line, and a summary is before.
LEMMA DoneIsLast ==
    ASSUME TypeOK, NEW i \in 1..Len(Console), Console[i].words = Done.words
    PROVE  verdict.status = "SUMMARY" /\ i = Len(Console)
<1>1. Len(lines) \in Nat
  BY DEF TypeOK
<1>2. Len(VerdictLines) \in Nat
  BY VerdictLinesTyped
<1>3. CASE i = 1
  <2>1. Console[i] = Banner
    BY <1>3, ConsoleShape
  <2>2. Banner.words # Done.words
    BY DEF Banner, Done, Line
  <2>3. QED
    BY <2>1, <2>2
<1>4. CASE i \in 2..(Len(lines) + 1)
  <2>1. Console[i] = FrameLine(lines[i - 1])
    BY <1>4, ConsoleShape
  <2>2. FrameLine(lines[i - 1]).words # Done.words
    BY DEF FrameLine, Done, Line
  <2>3. QED
    BY <2>1, <2>2
<1>5. CASE i # 1 /\ i \notin 2..(Len(lines) + 1)
  <2>1. Console[i] = VerdictLines[i - 1 - Len(lines)]
    BY <1>5, ConsoleShape
  <2>2. Len(Console) = 1 + Len(lines) + Len(VerdictLines)
    BY ConsoleShape
  <2>3. i - 1 - Len(lines) \in 1..Len(VerdictLines)
    BY <1>1, <1>2, <1>5, <2>2
  <2>4. verdict.status = "SUMMARY" /\ i - 1 - Len(lines) = Len(VerdictLines)
    BY <2>1, <2>3, VerdictEndsInDone
  <2>5. i = Len(Console)
    BY <1>1, <1>2, <2>2, <2>4
  <2>6. QED
    BY <2>4, <2>5, Zenon
<1>6. QED
  BY <1>3, <1>4, <1>5

\* The lines of the console are whole.
LEMMA ConsoleLinesAreWhole ==
    ASSUME NEW line \in ConsoleLines
    PROVE  Torn(line, "whole") = line
<1>1. \A words, fields : Torn(Line(words, fields), "whole") = Line(words, fields)
  BY DEF Torn, Line
<1>2. \E words, fields : line = Line(words, fields)
  BY Zenon DEF ConsoleLines, Banner, Done, VerdictLine, FrameLine
<1>3. QED
  BY <1>1, <1>2, Zenon

\* What was written is a prefix of the console, its last line perhaps torn.
LEMMA WrittenShape ==
    ASSUME TypeOK, NEW text \in Written
    PROVE  \E n \in 0..Len(Console) :
               /\ text \in Seq(LineRecords) /\ Len(text) = n
               /\ \A i \in 1..n : i < n => text[i] = Console[i]
               /\ \A i \in 1..n : i = n =>
                      \E tear \in Tears(Console[n]) :
                          text[i] = Torn(Console[i], tear)
<1> DEFINE least == 1 + Len(lines) - (IF transmitterPc = "count" THEN 1 ELSE 0)
<1>1. least \in Nat /\ Len(Console) \in Nat /\ Console \in Seq(ConsoleLines)
  BY ConsoleShape, LineTyped DEF TypeOK
<1> HIDE DEF least
<1>2. PICK n \in least..Len(Console) :
          \E tear \in Tears(Console[n]) :
              text = [SubSeq(Console, 1, n) EXCEPT ![n].tear = tear]
  <2>1. text \in UNION {{[SubSeq(Console, 1, n) EXCEPT ![n].tear = tear] :
                            tear \in Tears(Console[n])} : n \in least..Len(Console)}
    BY Zenon DEF Written, least
  <2>2. QED
    BY <2>1, Zenon
<1>3. PICK tear \in Tears(Console[n]) :
          text = [SubSeq(Console, 1, n) EXCEPT ![n].tear = tear]
  BY <1>2
<1>4. n \in 0..Len(Console)
  BY <1>1, <1>2
<1>5. tear \in {"whole", "words", "start", "fields"}
  BY <1>3 DEF Tears
<1> DEFINE prefix == SubSeq(Console, 1, n)
<1>6. /\ prefix \in Seq(ConsoleLines) /\ Len(prefix) = n
      /\ \A i \in 1..n : prefix[i] = Console[i]
  BY <1>1, <1>4
<1> HIDE DEF prefix
<1>7. text = [prefix EXCEPT ![n] = Torn(prefix[n], tear)]
  BY <1>3 DEF prefix, Torn
<1>8. DOMAIN text = 1..n
      /\ \A i \in 1..n : text[i] = IF i = n THEN Torn(Console[i], tear)
                                  ELSE Console[i]
  BY <1>4, <1>6, <1>7
<1>9. ASSUME NEW i \in 1..n
      PROVE  text[i] \in LineRecords
  <2>1. Console[i] \in ConsoleLines
    BY <1>6
  <2>2. Torn(Console[i], "whole") = Console[i]
    BY <2>1, ConsoleLinesAreWhole
  <2>3. Torn(Console[i], "whole") \in LineRecords
        /\ Torn(Console[i], tear) \in LineRecords
    BY <1>5, <2>1 DEF LineRecords
  <2>4. QED
    BY <1>8, <2>2, <2>3
<1>10. text \in Seq(LineRecords) /\ Len(text) = n
  <2>1. text = [i \in 1..n |-> text[i]]
    BY <1>6, <1>7, <1>8
  <2>2. n \in Nat
    BY <1>1, <1>4
  <2>3. text \in [1..n -> LineRecords]
    BY <1>9, <2>1
  <2>4. QED
    BY <2>2, <2>3
<1>11. \A i \in 1..n : i < n => text[i] = Console[i]
  BY <1>4, <1>8
<1>12. \A i \in 1..n : i = n => text[i] = Torn(Console[i], tear)
  BY <1>8
<1>13. QED
  BY <1>3, <1>4, <1>10, <1>11, <1>12, Zenon

\* Tearing a line changes neither its words nor its fields.
LEMMA TornLine ==
    ASSUME NEW line \in ConsoleLines
    PROVE  /\ line.tear = "whole"
           /\ \A tear : Torn(line, tear).words = line.words
           /\ \A tear : Torn(line, tear).tear = tear
<1>1. \A words, fields, tear :
          Torn(Line(words, fields), tear) =
              [words |-> words, fields |-> fields, tear |-> tear]
  BY DEF Torn, Line
<1>2. PICK words, fields : line = Line(words, fields)
  BY Zenon DEF ConsoleLines, Banner, Done, VerdictLine, FrameLine
<1>3. line = [words |-> words, fields |-> fields, tear |-> "whole"]
  BY <1>2 DEF Line
<1>4. \A tear : Torn(line, tear) =
                    [words |-> words, fields |-> fields, tear |-> tear]
  BY <1>1, <1>2, Zenon
<1>5. line.tear = "whole" /\ line.words = words
  BY <1>3
<1>6. ASSUME NEW tear
      PROVE  Torn(line, tear).words = words /\ Torn(line, tear).tear = tear
  BY <1>4
<1>7. QED
  BY <1>5, <1>6

\* The lines below the banner all start with TLFRAME or TLFIRMWARE.
LEMMA ControlledBelowBanner ==
    ASSUME TypeOK, NEW i \in 1..Len(Console)
    PROVE  Console[i].words \in {Banner.words, Marker.words} <=> i = 1
<1>1. Len(lines) \in Nat
  BY DEF TypeOK
<1>2. Len(VerdictLines) \in Nat /\ \A k \in 1..Len(VerdictLines) :
                                       VerdictLines[k] \in ConsoleLines
  BY VerdictLinesTyped
<1>3. CASE i = 1
  BY <1>3, ConsoleShape
<1>4. \A line : FrameLine(line).words \notin {Banner.words, Marker.words}
  BY DEF FrameLine, Banner, Marker, Line
<1>5. CASE i \in 2..(Len(lines) + 1)
  <2>1. Console[i] = FrameLine(lines[i - 1])
    BY <1>5, ConsoleShape
  <2>2. QED
    BY <1>4, <1>5, <2>1
<1>6. CASE i # 1 /\ i \notin 2..(Len(lines) + 1)
  <2> DEFINE k == i - 1 - Len(lines)
  <2>1. Console[i] = VerdictLines[k]
    BY <1>6, ConsoleShape
  <2>2. Len(Console) = 1 + Len(lines) + Len(VerdictLines)
    BY ConsoleShape
  <2>3. k \in 1..Len(VerdictLines)
    BY <1>1, <1>2, <1>6, <2>2
  <2> HIDE DEF k
  <2> DEFINE first == VerdictLine("TLFIRMWARE SUMMARY")
             other == VerdictLine("TLFIRMWARE ERROR")
  <2>4. /\ first.words \notin {Banner.words, Marker.words}
        /\ other.words \notin {Banner.words, Marker.words}
        /\ Done.words \notin {Banner.words, Marker.words}
    BY DEF VerdictLine, Done, Banner, Marker, Line
  <2>5. VerdictLines \in {<<first, Done>>, <<other>>, <<>>}
    BY DEF VerdictLines
  <2> HIDE DEF first, other
  <2>6. VerdictLines[k] \in {first, other, Done}
    BY <2>3, <2>5
  <2>7. QED
    BY <1>6, <2>1, <2>4, <2>6
<1>7. QED
  BY <1>3, <1>5, <1>6

\* Only a console written whole has DONE, below a summary.
LEMMA DoneMeansWhole ==
    ASSUME TypeOK, NEW text \in Written, NEW i \in DOMAIN text, text[i] = Done
    PROVE  verdict.status = "SUMMARY" /\ text = Console
<1>1. PICK n \in 0..Len(Console) :
          /\ text \in Seq(LineRecords) /\ Len(text) = n
          /\ \A j \in 1..n : j < n => text[j] = Console[j]
          /\ \A j \in 1..n : j = n =>
                 \E tear \in Tears(Console[n]) : text[j] = Torn(Console[j], tear)
  BY WrittenShape
<1>2. Console \in Seq(ConsoleLines) /\ Len(Console) \in Nat
  BY ConsoleShape
<1>3. i \in 1..n /\ i \in 1..Len(Console) /\ Console[i] \in ConsoleLines
  BY <1>1, <1>2
<1>4. Done.words = Console[i].words
  <2>1. CASE i < n
    BY <1>1, <1>3, <2>1
  <2>2. CASE i = n
    <3>1. PICK tear \in Tears(Console[n]) : text[i] = Torn(Console[i], tear)
      BY <1>1, <1>3, <2>2
    <3>2. QED
      BY <1>3, <3>1, TornLine
  <2>3. QED
    BY <1>3, <2>1, <2>2
<1>5. verdict.status = "SUMMARY" /\ i = Len(Console)
  BY <1>3, <1>4, DoneIsLast
<1>6. i = n
  BY <1>2, <1>3, <1>5
<1>7. text[n] = Console[n]
  <2>1. PICK tear \in Tears(Console[n]) : text[i] = Torn(Console[i], tear)
    BY <1>1, <1>3, <1>6
  <2>2. Done.tear = tear
    BY <1>3, <2>1, TornLine
  <2>3. Done.tear = "whole"
    BY DEF Done, Line
  <2>4. QED
    BY <1>3, <1>6, <2>1, <2>2, <2>3, ConsoleLinesAreWhole
<1>8. \A j \in 1..n : text[j] = Console[j]
  BY <1>1, <1>7
<1>9. text = Console
  <2>1. text \in [1..n -> LineRecords]
    BY <1>1, LenProperties, Zenon
  <2>2. Console \in [1..n -> ConsoleLines]
    BY <1>2, <1>5, <1>6, LenProperties, Zenon
  <2>3. QED
    BY <1>8, <2>1, <2>2
<1>10. QED
  BY <1>5, <1>9, Zenon

\* The controlled lines of a text are those below its banner, down to the
\* last one or the last but one.
LEMMA WrittenControlled ==
    ASSUME TypeOK, NEW text \in Written
    PROVE  \E last \in Nat : /\ 2 <= last + 1
                             /\ ControlledPositions(text) = 2..last
<1>1. PICK n \in 0..Len(Console) :
          /\ text \in Seq(LineRecords) /\ Len(text) = n
          /\ \A j \in 1..n : j < n => text[j] = Console[j]
          /\ \A j \in 1..n : j = n =>
                 \E tear \in Tears(Console[n]) : text[j] = Torn(Console[j], tear)
  BY WrittenShape
<1>2. Console \in Seq(ConsoleLines) /\ Len(Console) \in Nat
  BY ConsoleShape
<1>3. n \in Nat /\ DOMAIN text = 1..n
  BY <1>1, <1>2
<1>4. ASSUME NEW i \in 1..n, i < n
      PROVE  IsControlled(text[i]) <=> i # 1
  <2>1. text[i] = Console[i] /\ Console[i] \in ConsoleLines /\ i \in 1..Len(Console)
    BY <1>1, <1>2, <1>4
  <2>2. text[i].tear = "whole"
    BY <2>1, TornLine
  <2>3. QED
    BY <2>1, <2>2, ControlledBelowBanner DEF IsControlled
<1>5. n = 1 => ~IsControlled(text[1])
  <2> SUFFICES ASSUME n = 1 PROVE ~IsControlled(text[1])
    OBVIOUS
  <2>1. 1 \in 1..Len(Console) /\ Console[1] \in ConsoleLines
    BY <1>1, <1>2
  <2>2. PICK tear : text[1] = Torn(Console[1], tear)
    BY <1>1
  <2>3. text[1].words = Console[1].words
    BY <2>1, <2>2, TornLine
  <2>4. QED
    BY <2>1, <2>3, ControlledBelowBanner DEF IsControlled
<1>6. CASE n <= 1
  <2>1. ControlledPositions(text) = {}
    BY <1>3, <1>5, <1>6 DEF ControlledPositions
  <2>2. 2..1 = {}
    OBVIOUS
  <2>3. QED
    BY <2>1, <2>2
<1>7. CASE n > 1 /\ IsControlled(text[n])
  <2>1. ControlledPositions(text) = 2..n
    BY <1>3, <1>4, <1>7 DEF ControlledPositions
  <2>2. QED
    BY <1>3, <1>7, <2>1
<1>8. CASE n > 1 /\ ~IsControlled(text[n])
  <2>1. ControlledPositions(text) = 2..(n - 1)
    BY <1>3, <1>4, <1>8 DEF ControlledPositions
  <2>2. n - 1 \in Nat /\ 2 <= (n - 1) + 1
    BY <1>3, <1>8
  <2>3. QED
    BY <2>1, <2>2
<1>9. QED
  BY <1>3, <1>6, <1>7, <1>8

\* A controlled line is a line of the text.
LEMMA ControlledAreLines ==
    ASSUME TypeOK, NEW text \in Written, NEW k \in DOMAIN ControlledOutput(text)
    PROVE  \E i \in DOMAIN text : ControlledOutput(text)[k] = text[i]
<1>1. PICK last \in Nat : 2 <= last + 1 /\ ControlledPositions(text) = 2..last
  BY WrittenControlled
<1>2. ControlledOutput(text) = [j \in 1..(last + 1 - 2) |-> text[2 + j - 1]]
  <2>1. LinesAt(text, 2..last) = Part(text, 2, last)
    BY <1>1, LinesAtInterval
  <2>2. QED
    BY <1>1, <2>1, Zenon DEF ControlledOutput, Part
<1>3. 2 + k - 1 \in 2..last
  BY <1>1, <1>2
<1>4. 2 + k - 1 \in DOMAIN text
  BY <1>1, <1>3 DEF ControlledPositions
<1>5. QED
  BY <1>2, <1>4

\* The console of a run that ended well.
CompleteText ==
    [i \in 1..(SampleCount + 3) |->
        CASE i = 1 -> Banner
          [] i \in 2..(SampleCount + 1) ->
                 FrameLine([number |-> i - 1, frame |-> i - 1])
          [] i = SampleCount + 2 -> ExpectedSummary
          [] OTHER -> Done]

\* A truthful summary is printed below every frame, and above DONE.
LEMMA CompleteConsole ==
    ASSUME TypeOK, SummaryIsTruthful, verdict.status = "SUMMARY"
    PROVE  Console = CompleteText
<1>1. /\ lines = [k \in 1..SampleCount |-> [number |-> k, frame |-> k]]
      /\ verdict.produced = SampleCount /\ verdict.transmitted = SampleCount
      /\ verdict.queue_errors = 0
  BY DEF SummaryIsTruthful
<1>2. Len(lines) = SampleCount
  BY <1>1
<1>3. VerdictLine("TLFIRMWARE SUMMARY") = ExpectedSummary
  BY <1>1, Zenon DEF VerdictLine, ExpectedSummary
<1>4. VerdictLines = <<ExpectedSummary, Done>>
  BY <1>3, VerdictEndsInDone, Zenon
<1>5. Len(VerdictLines) = 2 /\ VerdictLines[1] = ExpectedSummary
      /\ VerdictLines[2] = Done
  BY <1>4
<1>6. Console \in Seq(ConsoleLines) /\ Len(Console) = SampleCount + 3
  BY <1>2, <1>5, ConsoleShape
<1>7. ASSUME NEW i \in 1..(SampleCount + 3)
      PROVE  Console[i] = CompleteText[i]
  <2>1. Console[i] =
            CASE i = 1 -> Banner
              [] i \in 2..(SampleCount + 1) -> FrameLine(lines[i - 1])
              [] OTHER -> VerdictLines[i - 1 - SampleCount]
    BY <1>2, <1>6, ConsoleShape
  <2>2. CASE i = 1
    BY <2>1, <2>2 DEF CompleteText
  <2>3. CASE i \in 2..(SampleCount + 1)
    <3>1. lines[i - 1] = [number |-> i - 1, frame |-> i - 1]
      BY <1>1, <2>3
    <3>2. QED
      BY <2>1, <2>3, <3>1 DEF CompleteText
  <2>4. CASE i = SampleCount + 2
    BY <1>5, <2>1, <2>4 DEF CompleteText
  <2>5. CASE i = SampleCount + 3
    BY <1>5, <2>1, <2>5 DEF CompleteText
  <2>6. QED
    BY <2>2, <2>3, <2>4, <2>5
<1>8. Console \in [1..(SampleCount + 3) -> ConsoleLines]
  BY <1>6, LenProperties, Zenon
<1>9. CompleteText = [i \in 1..(SampleCount + 3) |-> CompleteText[i]]
  BY DEF CompleteText
<1>10. QED
  BY <1>7, <1>8, <1>9

\* The words of a whole line tell what it is.
LEMMA WholeLine ==
    ASSUME NEW line, line.tear = "whole"
    PROVE  /\ \A words : StartsWith(line, words) <=> line.words = words
           /\ IsFrameLine(line) <=> line.words = "TLFRAME"
           /\ IsSummaryLine(line) <=> line.words = "TLFIRMWARE SUMMARY"
           /\ IsDoneLine(line) => line.words = "TLFIRMWARE DONE"
           /\ IsControlled(line) <=>
                  line.words \notin {"*** Booting Zephyr OS build", "FATAL ERROR"}
<1>1. \A words : StartsWith(line, words) <=> line.words = words
  BY DEF StartsWith
<1>2. /\ IsFrameLine(line) <=> line.words = "TLFRAME"
      /\ IsSummaryLine(line) <=> line.words = "TLFIRMWARE SUMMARY"
  BY <1>1, Zenon DEF IsFrameLine, IsSummaryLine
<1>3. IsDoneLine(line) => line.words = "TLFIRMWARE DONE"
  <2>1. Done.words = "TLFIRMWARE DONE"
    BY DEF Done, Line
  <2>2. QED
    BY <2>1, Zenon DEF IsDoneLine
<1>4. Banner.words = "*** Booting Zephyr OS build" /\ Marker.words = "FATAL ERROR"
  BY DEF Banner, Marker, Line
<1>5. IsControlled(line) <=>
          line.words \notin {"*** Booting Zephyr OS build", "FATAL ERROR"}
  BY <1>4 DEF IsControlled
<1>6. QED
  BY <1>1, <1>2, <1>3, <1>5, Zenon

\* Which line of it is which.
LEMMA CompleteLines ==
    ASSUME NEW i \in 1..(SampleCount + 3)
    PROVE  /\ IsFrameLine(CompleteText[i]) <=> i \in 2..(SampleCount + 1)
           /\ IsSummaryLine(CompleteText[i]) <=> i = SampleCount + 2
           /\ IsDoneLine(CompleteText[i]) <=> i = SampleCount + 3
           /\ IsControlled(CompleteText[i]) <=> i # 1
           /\ StartsWith(CompleteText[i], Banner.words) <=> i = 1
           /\ CompleteText[i].words # Marker.words
           /\ CompleteText[i].tear = "whole"
<1>1. /\ Banner.words = "*** Booting Zephyr OS build" /\ Banner.tear = "whole"
      /\ ExpectedSummary.words = "TLFIRMWARE SUMMARY"
      /\ ExpectedSummary.tear = "whole"
      /\ Done.words = "TLFIRMWARE DONE" /\ Done.tear = "whole"
      /\ Marker.words = "FATAL ERROR"
  BY DEF Banner, ExpectedSummary, Done, Marker, Line
<1>2. \A line : FrameLine(line).words = "TLFRAME" /\ FrameLine(line).tear = "whole"
  BY DEF FrameLine, Line
<1> DEFINE words == CompleteText[i].words
           tear == CompleteText[i].tear
<1>3. i = 1 => words = "*** Booting Zephyr OS build" /\ tear = "whole"
  <2>1. i = 1 => CompleteText[i] = Banner
    BY DEF CompleteText
  <2>2. QED
    BY <1>1, <2>1, Zenon
<1>4. i \in 2..(SampleCount + 1) => words = "TLFRAME" /\ tear = "whole"
  <2>1. i \in 2..(SampleCount + 1) =>
            CompleteText[i] = FrameLine([number |-> i - 1, frame |-> i - 1])
    BY DEF CompleteText
  <2>2. QED
    BY <1>2, <2>1, Zenon
<1>5. i = SampleCount + 2 => words = "TLFIRMWARE SUMMARY" /\ tear = "whole"
  <2>1. i = SampleCount + 2 => CompleteText[i] = ExpectedSummary
    BY DEF CompleteText
  <2>2. QED
    BY <1>1, <2>1, Zenon
<1>6. i = SampleCount + 3 => /\ words = "TLFIRMWARE DONE" /\ tear = "whole"
                            /\ IsDoneLine(CompleteText[i])
  <2>1. i = SampleCount + 3 => CompleteText[i] = Done
    BY DEF CompleteText
  <2>2. QED
    BY <1>1, <2>1, Zenon DEF IsDoneLine
<1>7. \/ i = 1 \/ i \in 2..(SampleCount + 1)
      \/ i = SampleCount + 2 \/ i = SampleCount + 3
  OBVIOUS
<1>8. tear = "whole"
  BY <1>3, <1>4, <1>5, <1>6, <1>7, Zenon
<1>9. /\ \A w : StartsWith(CompleteText[i], w) <=> words = w
      /\ IsFrameLine(CompleteText[i]) <=> words = "TLFRAME"
      /\ IsSummaryLine(CompleteText[i]) <=> words = "TLFIRMWARE SUMMARY"
      /\ IsDoneLine(CompleteText[i]) => words = "TLFIRMWARE DONE"
      /\ IsControlled(CompleteText[i]) <=>
             words \notin {"*** Booting Zephyr OS build", "FATAL ERROR"}
  BY <1>8, WholeLine, Zenon
<1>10. words # Marker.words => CompleteText[i].words # Marker.words
  BY Zenon
<1> HIDE DEF words, tear
<1>11. IsFrameLine(CompleteText[i]) <=> i \in 2..(SampleCount + 1)
  BY <1>3, <1>4, <1>5, <1>6, <1>7, <1>9
<1>12. IsSummaryLine(CompleteText[i]) <=> i = SampleCount + 2
  BY <1>3, <1>4, <1>5, <1>6, <1>7, <1>9
<1>13. IsDoneLine(CompleteText[i]) <=> i = SampleCount + 3
  BY <1>3, <1>4, <1>5, <1>6, <1>7, <1>9
<1>14. IsControlled(CompleteText[i]) <=> i # 1
  BY <1>3, <1>4, <1>5, <1>6, <1>7, <1>9
<1>15. StartsWith(CompleteText[i], Banner.words) <=> i = 1
  BY <1>1, <1>3, <1>4, <1>5, <1>6, <1>7, <1>9
<1>16. CompleteText[i].words # Marker.words
  BY <1>1, <1>3, <1>4, <1>5, <1>6, <1>7, <1>10
<1>17. QED
  BY <1>8, <1>11, <1>12, <1>13, <1>14, <1>15, <1>16, Zenon DEF tear

\* Where its lines are.
LEMMA CompletePositions ==
    /\ DOMAIN CompleteText = 1..(SampleCount + 3)
    /\ FramePositions(CompleteText) = 2..(SampleCount + 1)
    /\ SummaryPositions(CompleteText) = (SampleCount + 2)..(SampleCount + 2)
    /\ DonePositions(CompleteText) = (SampleCount + 3)..(SampleCount + 3)
    /\ ControlledPositions(CompleteText) = 2..(SampleCount + 3)
<1>1. DOMAIN CompleteText = 1..(SampleCount + 3)
  BY DEF CompleteText
<1>2. \A i \in 1..(SampleCount + 3) :
          /\ IsFrameLine(CompleteText[i]) <=> i \in 2..(SampleCount + 1)
          /\ IsSummaryLine(CompleteText[i]) <=> i = SampleCount + 2
          /\ IsDoneLine(CompleteText[i]) <=> i = SampleCount + 3
          /\ IsControlled(CompleteText[i]) <=> i # 1
  BY CompleteLines
<1>3. FramePositions(CompleteText) = 2..(SampleCount + 1)
  BY <1>1, <1>2 DEF FramePositions
<1>4. SummaryPositions(CompleteText) = (SampleCount + 2)..(SampleCount + 2)
  BY <1>1, <1>2 DEF SummaryPositions
<1>5. DonePositions(CompleteText) = (SampleCount + 3)..(SampleCount + 3)
  BY <1>1, <1>2 DEF DonePositions
<1>6. ControlledPositions(CompleteText) = 2..(SampleCount + 3)
  BY <1>1, <1>2 DEF ControlledPositions
<1>7. QED
  BY <1>1, <1>3, <1>4, <1>5, <1>6

\* What both scripts keep of it: everything below the banner.
LEMMA CompleteControlled ==
    /\ ControlledOutput(CompleteText) =
           [k \in 1..(SampleCount + 2) |-> CompleteText[k + 1]]
    /\ ControlledOutput(CompleteText) = Expected \o <<ExpectedSummary, Done>>
<1>1. ControlledOutput(CompleteText) = Part(CompleteText, 2, SampleCount + 3)
  <2>1. LinesAt(CompleteText, 2..(SampleCount + 3)) =
            Part(CompleteText, 2, SampleCount + 3)
    BY LinesAtInterval
  <2>2. QED
    BY <2>1, CompletePositions, Zenon DEF ControlledOutput
<1>2. ControlledOutput(CompleteText) =
          [k \in 1..(SampleCount + 2) |-> CompleteText[k + 1]]
  BY <1>1 DEF Part
<1> DEFINE all == {CompleteText[i] : i \in 1..(SampleCount + 3)}
           tail == <<ExpectedSummary, Done>>
<1>3. ASSUME NEW k \in 1..SampleCount
      PROVE  Expected[k] = CompleteText[k + 1]
  BY DEF Expected, FrameNumbers, CompleteText
<1>4. Expected \in Seq(all) /\ Len(Expected) = SampleCount
  <2>1. Expected = [k \in 1..SampleCount |-> Expected[k]]
    BY DEF Expected, FrameNumbers
  <2>2. Expected \in [1..SampleCount -> all]
    BY <1>3, <2>1
  <2> HIDE DEF all
  <2>3. QED
    BY <2>2
<1>5. /\ CompleteText[SampleCount + 2] = ExpectedSummary
      /\ CompleteText[SampleCount + 3] = Done
  BY DEF CompleteText
<1>6. tail \in Seq(all) /\ Len(tail) = 2 /\ tail[1] = ExpectedSummary
      /\ tail[2] = Done
  <2>1. ExpectedSummary \in all /\ Done \in all
    BY <1>5
  <2> HIDE DEF all
  <2>2. QED
    BY <2>1
<1> HIDE DEF all, tail
<1>7. /\ Expected \o tail \in Seq(all)
      /\ Len(Expected \o tail) = SampleCount + 2
      /\ \A k \in 1..(SampleCount + 2) : (Expected \o tail)[k] =
             IF k <= SampleCount THEN Expected[k] ELSE tail[k - SampleCount]
  <2>1. /\ Expected \o tail \in Seq(all)
        /\ Len(Expected \o tail) = Len(Expected) + Len(tail)
        /\ \A k \in 1..(Len(Expected) + Len(tail)) : (Expected \o tail)[k] =
               IF k <= Len(Expected) THEN Expected[k]
               ELSE tail[k - Len(Expected)]
    BY <1>4, <1>6, ConcatProperties, Zenon
  <2>2. QED
    BY <1>4, <1>6, <2>1
<1>8. ASSUME NEW k \in 1..(SampleCount + 2)
      PROVE  (Expected \o tail)[k] = CompleteText[k + 1]
  <2>1. CASE k <= SampleCount
    <3>1. (Expected \o tail)[k] = Expected[k]
      BY <1>7, <2>1
    <3>2. k \in 1..SampleCount
      BY <2>1
    <3>3. Expected[k] = CompleteText[k + 1]
      BY <1>3, <3>2
    <3>4. QED
      BY <3>1, <3>3, Zenon
  <2>2. CASE k = SampleCount + 1
    BY <1>5, <1>6, <1>7, <2>2
  <2>3. CASE k = SampleCount + 2
    BY <1>5, <1>6, <1>7, <2>3
  <2>4. k <= SampleCount \/ k = SampleCount + 1 \/ k = SampleCount + 2
    OBVIOUS
  <2>5. QED
    BY <2>1, <2>2, <2>3, <2>4, Zenon
<1>9. Expected \o tail \in [1..(SampleCount + 2) -> all]
  <2>1. Expected \o tail \in [1..Len(Expected \o tail) -> all]
    BY <1>7, LenProperties, Zenon
  <2>2. QED
    BY <1>7, <2>1, Zenon
<1>10. Expected \o tail = [k \in 1..(SampleCount + 2) |-> CompleteText[k + 1]]
  BY <1>8, <1>9
<1>11. QED
  BY <1>2, <1>10 DEF tail

\* A text with a DONE, or with a DONE among its controlled lines, is the
\* whole console of a run that ended well.
LEMMA DoneMeansComplete ==
    ASSUME TypeOK, SummaryIsTruthful, NEW text \in Written,
           \/ DonePositions(text) # {}
           \/ DonePositions(ControlledOutput(text)) # {}
    PROVE  ControlledOutput(text) = Expected \o <<ExpectedSummary, Done>>
<1>1. \E i \in DOMAIN text : text[i] = Done
  <2>1. CASE DonePositions(text) # {}
    BY <2>1 DEF DonePositions, IsDoneLine
  <2>2. CASE DonePositions(ControlledOutput(text)) # {}
    <3>1. PICK k \in DOMAIN ControlledOutput(text) :
              ControlledOutput(text)[k] = Done
      BY <2>2, Zenon DEF DonePositions, IsDoneLine
    <3>2. QED
      BY <3>1, ControlledAreLines, Zenon
  <2>3. QED
    BY <2>1, <2>2
<1>2. verdict.status = "SUMMARY" /\ text = Console
  BY <1>1, DoneMeansWhole, Zenon
<1>3. text = CompleteText
  BY <1>2, CompleteConsole, Zenon
<1>4. QED
  BY <1>3, CompleteControlled, Zenon

\* A set of one position is not empty.
LEMMA OneIsSome ==
    ASSUME NEW positions, Cardinality(positions) = 1
    PROVE  positions # {}
BY FS_EmptySet

\* The capture is of what was written, from when it ends.
CaptureShape ==
    /\ fault \in {"none", "console", "monitor"}
    /\ captured # <<>> => captured \in Captures

\* Whatever accepts a capture saw the whole controlled output.
LEMMA AcceptedCapture ==
    ASSUME TypeOK, SummaryIsTruthful, CaptureShape
    PROVE  AcceptedMeansComplete
<1>1. ASSUME captured = <<>>
      PROVE  ~ValidateText(captured) /\ ~DemoAccepts(captured)
  <2>1. DOMAIN captured = {}
    BY <1>1
  <2>2. ~ValidateZephyrBoot(captured)
    BY <2>1, Zenon DEF ValidateZephyrBoot
  <2>3. ~DemoAccepts(captured)
    <3>1. ControlledPositions(captured) = {}
      BY <2>1, Zenon DEF ControlledPositions
    <3>2. Cardinality(ControlledPositions(captured)) = 0
      BY <3>1, FS_EmptySet, Zenon
    <3>3. DOMAIN ControlledOutput(captured) = 1..0
      BY <3>2 DEF ControlledOutput, LinesAt
    <3>4. DonePositions(ControlledOutput(captured)) = {}
      BY <3>3 DEF DonePositions
    <3>5. QED
      BY <3>4, OneIsSome DEF DemoAccepts
  <2>4. QED
    BY <2>2, <2>3 DEF ValidateText
<1>2. ASSUME fault = "console", captured # <<>>
      PROVE  ~ValidateText(captured)
  <2>1. PICK text \in Written : captured = Append(text, Marker)
    BY <1>2 DEF CaptureShape, Captures
  <2>2. text \in Seq(LineRecords)
    BY WrittenShape
  <2>3. Len(captured) \in DOMAIN captured /\ captured[Len(captured)] = Marker
    BY <2>1, <2>2
  <2>4. QED
    BY <2>3, Zenon DEF ValidateText, ValidateFaultFree
<1>3. ASSUME ValidateText(captured) \/ DemoAccepts(captured)
      PROVE  /\ ControlledOutput(captured) = Expected \o <<ExpectedSummary, Done>>
             /\ fault # "console"
  <2>1. captured # <<>>
    BY <1>1, <1>3
  <2>2. fault # "console"
    BY <1>2, <1>3, <2>1 DEF DemoAccepts, ExecutionSucceeded
  <2>3. captured \in Written
    BY <2>1, <2>2 DEF CaptureShape, Captures
  <2>4. CASE ValidateText(captured)
    <3>1. DonePositions(captured) # {}
      BY <2>4, OneIsSome DEF ValidateText, ValidateFirmwareDone
    <3>2. QED
      BY <2>2, <2>3, <3>1, DoneMeansComplete
  <2>5. CASE DemoAccepts(captured)
    <3>1. DonePositions(ControlledOutput(captured)) # {}
      BY <2>5, OneIsSome DEF DemoAccepts
    <3>2. QED
      BY <2>2, <2>3, <3>1, DoneMeansComplete
  <2>6. QED
    BY <1>3, <2>4, <2>5
<1>4. ValidateCapture(captured) => ValidateText(captured) /\ fault # "monitor"
  BY DEF ValidateCapture
<1>5. RobotAccepts(captured) => ValidateText(captured)
  BY DEF RobotAccepts
<1>6. DemoAccepts(captured) => fault = "none"
  BY DEF DemoAccepts, ExecutionSucceeded
<1>7. QED
  BY <1>3, <1>4, <1>5, <1>6 DEF AcceptedMeansComplete, CaptureShape

\* The controlled lines of a complete text: the frames, the summary, DONE.
LEMMA CompleteControlledPositions ==
    /\ DOMAIN ControlledOutput(CompleteText) = 1..(SampleCount + 2)
    /\ FramePositions(ControlledOutput(CompleteText)) = 1..SampleCount
    /\ SummaryPositions(ControlledOutput(CompleteText)) =
           (SampleCount + 1)..(SampleCount + 1)
    /\ DonePositions(ControlledOutput(CompleteText)) =
           (SampleCount + 2)..(SampleCount + 2)
<1> DEFINE controlled == ControlledOutput(CompleteText)
<1>1. controlled = [k \in 1..(SampleCount + 2) |-> CompleteText[k + 1]]
  BY CompleteControlled
<1> HIDE DEF controlled
<1>2. DOMAIN controlled = 1..(SampleCount + 2)
  BY <1>1
<1>3. ASSUME NEW k \in 1..(SampleCount + 2)
      PROVE  /\ IsFrameLine(controlled[k]) <=> k \in 1..SampleCount
             /\ IsSummaryLine(controlled[k]) <=> k = SampleCount + 1
             /\ IsDoneLine(controlled[k]) <=> k = SampleCount + 2
  <2>1. k + 1 \in 1..(SampleCount + 3) /\ controlled[k] = CompleteText[k + 1]
    BY <1>1
  <2>2. /\ IsFrameLine(controlled[k]) <=> k + 1 \in 2..(SampleCount + 1)
        /\ IsSummaryLine(controlled[k]) <=> k + 1 = SampleCount + 2
        /\ IsDoneLine(controlled[k]) <=> k + 1 = SampleCount + 3
    BY <2>1, CompleteLines, Zenon
  <2>3. QED
    BY <2>2
<1>4. FramePositions(controlled) = 1..SampleCount
  BY <1>2, <1>3 DEF FramePositions
<1>5. SummaryPositions(controlled) = (SampleCount + 1)..(SampleCount + 1)
  BY <1>2, <1>3 DEF SummaryPositions
<1>6. DonePositions(controlled) = (SampleCount + 2)..(SampleCount + 2)
  BY <1>2, <1>3 DEF DonePositions
<1>7. QED
  BY <1>2, <1>4, <1>5, <1>6 DEF controlled

\* The frames and the summary of a complete text.
LEMMA CompleteFrames ==
    /\ Frames(CompleteText) = [k \in 1..SampleCount |-> CompleteText[k + 1]]
    /\ LinesAt(CompleteText, SummaryPositions(CompleteText)) =
           <<ExpectedSummary>>
<1>1. LinesAt(CompleteText, 2..(SampleCount + 1)) =
          Part(CompleteText, 2, SampleCount + 1)
  BY LinesAtInterval
<1>2. LinesAt(CompleteText, (SampleCount + 2)..(SampleCount + 2)) =
          Part(CompleteText, SampleCount + 2, SampleCount + 2)
  <2> DEFINE at == SampleCount + 2
  <2>1. at \in Nat /\ at <= at + 1
    OBVIOUS
  <2> HIDE DEF at
  <2>2. LinesAt(CompleteText, at..at) = Part(CompleteText, at, at)
    BY <2>1, LinesAtInterval
  <2>3. QED
    BY <2>2 DEF at
<1>3. Frames(CompleteText) = LinesAt(CompleteText, 2..(SampleCount + 1))
  BY CompletePositions, Zenon DEF Frames
<1>4. Frames(CompleteText) = [k \in 1..SampleCount |-> CompleteText[k + 1]]
  BY <1>1, <1>3 DEF Part
<1>5. LinesAt(CompleteText, SummaryPositions(CompleteText)) =
          LinesAt(CompleteText, (SampleCount + 2)..(SampleCount + 2))
  BY CompletePositions, Zenon
<1>6. CompleteText[SampleCount + 2] = ExpectedSummary
  BY DEF CompleteText
<1>7. Part(CompleteText, SampleCount + 2, SampleCount + 2) =
          <<CompleteText[SampleCount + 2]>>
  BY DEF Part
<1>8. QED
  BY <1>2, <1>4, <1>5, <1>6, <1>7, Zenon

\* Every judge accepts a complete text.
LEMMA CompleteAccepted ==
    ASSUME verdict.status = "SUMMARY", fault = "none"
    PROVE  /\ ValidateCapture(CompleteText)
           /\ RobotAccepts(CompleteText)
           /\ DemoAccepts(CompleteText)
<1> DEFINE text == CompleteText
           n == SampleCount
<1>1. DOMAIN text = 1..(n + 3) /\ Len(text) = n + 3
  <2>1. text = [i \in 1..(n + 3) |-> text[i]]
    BY DEF CompleteText
  <2>2. QED
    BY <2>1
<1>2. \A i \in 1..(n + 3) :
          /\ IsFrameLine(text[i]) <=> i \in 2..(n + 1)
          /\ IsDoneLine(text[i]) <=> i = n + 3
          /\ StartsWith(text[i], Banner.words) <=> i = 1
          /\ text[i].words # Marker.words
          /\ text[i].tear = "whole"
  BY CompleteLines
<1> HIDE DEF text
<1>3. ValidateZephyrBoot(text)
  BY <1>1, <1>2 DEF ValidateZephyrBoot
<1>4. Frames(text) = [k \in 1..n |-> text[k + 1]]
  BY CompleteFrames DEF text
<1>5. DOMAIN Frames(text) = 1..n /\ Len(Frames(text)) = n
      /\ \A k \in 1..n : Frames(text)[k] = text[k + 1]
  BY <1>4
<1>6. FramesAreFormed(text)
  <2>1. \A k \in 1..n : text[k + 1].tear = "whole"
    BY <1>2
  <2>2. QED
    BY <1>5, <2>1 DEF FramesAreFormed
<1>7. ValidateFrameCount(text)
  BY <1>5 DEF ValidateFrameCount
<1>8. ValidateIndicesAndSequences(text)
  <2>1. ASSUME NEW k \in 1..n
        PROVE  text[k + 1].fields = <<k, k>>
    <3>1. text[k + 1] = FrameLine([number |-> k, frame |-> k])
      BY DEF text, CompleteText
    <3>2. QED
      BY <3>1 DEF FrameLine, Line
  <2>2. QED
    BY <1>5, <2>1 DEF ValidateIndicesAndSequences
<1>9. ValidateFirmwareSummary(text)
  BY CompleteFrames DEF ValidateFirmwareSummary, text
<1>10. /\ ControlledOutput(text) # <<>>
       /\ Last(ControlledOutput(text)) = Done
  <2>1. ControlledOutput(text) = [k \in 1..(n + 2) |-> text[k + 1]]
    BY CompleteControlled DEF text
  <2>2. text[n + 3] = Done
    BY DEF text, CompleteText
  <2>3. Len(ControlledOutput(text)) = n + 2
    BY <2>1
  <2>4. ControlledOutput(text)[n + 2] = Done
    BY <2>1, <2>2
  <2>5. QED
    BY <2>3, <2>4 DEF Last
<1>11. Cardinality(DonePositions(text)) = 1
  <2>1. DonePositions(text) = {n + 3}
    BY CompletePositions DEF text
  <2>2. QED
    BY <2>1, FS_Singleton
<1>12. ValidateFirmwareDone(text)
  <2>1. DonePositions(text) = {n + 3}
    BY CompletePositions DEF text
  <2>2. QED
    BY <1>1, <1>10, <1>11, <2>1 DEF ValidateFirmwareDone
<1>13. ValidateFaultFree(text)
  BY <1>1, <1>2 DEF ValidateFaultFree
<1>14. ValidateText(text)
  BY <1>3, <1>6, <1>7, <1>8, <1>9, <1>12, <1>13 DEF ValidateText
<1>15. ValidateCapture(text)
  BY <1>14 DEF ValidateCapture
<1>16. RobotAccepts(text)
  <2>1. 1 \in DOMAIN text /\ n + 3 \in DOMAIN text /\ 1 < n + 3
    BY <1>1
  <2>2. StartsWith(text[1], Banner.words) /\ IsDoneLine(text[n + 3])
    BY <1>1, <1>2, <2>1
  <2>3. QED
    BY <1>14, <2>1, <2>2, Zenon DEF RobotAccepts
<1>17. DemoAccepts(text)
  <2> DEFINE controlled == ControlledOutput(text)
  <2>1. controlled = [k \in 1..(n + 2) |-> text[k + 1]]
    BY CompleteControlled DEF text
  <2>2. /\ FramePositions(controlled) = 1..n
        /\ SummaryPositions(controlled) = {n + 1}
        /\ DonePositions(controlled) = {n + 2}
    BY CompleteControlledPositions DEF text
  <2>3. /\ Cardinality(FramePositions(controlled)) = n
        /\ Cardinality(SummaryPositions(controlled)) = 1
        /\ Cardinality(DonePositions(controlled)) = 1
    <3>1. Cardinality(1..n) = n
      BY FS_Interval
    <3>2. QED
      BY <2>2, <3>1, FS_Singleton
  <2>4. ASSUME NEW i \in DOMAIN controlled
        PROVE  \/ IsFrameLine(controlled[i]) /\ controlled[i].tear = "whole"
               \/ controlled[i] \in {ExpectedSummary, Done}
    <3>1. i \in 1..(n + 2) /\ controlled[i] = text[i + 1]
      BY <2>1
    <3>2. CASE i \in 1..n
      <4>1. i + 1 \in 1..(n + 3) /\ i + 1 \in 2..(n + 1)
        BY <3>2
      <4>2. QED
        BY <1>2, <3>1, <4>1, Zenon
    <3>3. CASE i = n + 1
      BY <3>1, <3>3 DEF text, CompleteText
    <3>4. CASE i = n + 2
      BY <3>1, <3>4 DEF text, CompleteText
    <3>5. i \in 1..n \/ i = n + 1 \/ i = n + 2
      BY <3>1
    <3>6. QED
      BY <3>2, <3>3, <3>4, <3>5, Zenon
  <2>5. ExecutionSucceeded
    BY DEF ExecutionSucceeded
  <2> HIDE DEF controlled
  <2>6. QED
    BY <1>10, <2>3, <2>4, <2>5 DEF DemoAccepts, controlled
<1>18. QED
  BY <1>15, <1>16, <1>17 DEF text

\* While the machine runs it runs like the firmware alone.
LEMMA CaptureRunsFirmware ==
    ASSUME [NextCapture]_captureVars
    PROVE  [Next]_vars
<1>1. CASE FirmwareRuns
  BY <1>1 DEF FirmwareRuns
<1>2. CASE Fault
  BY <1>2 DEF Fault
<1>3. CASE Capture
  BY <1>3 DEF Capture
<1>4. CASE UNCHANGED captureVars
  BY <1>4 DEF captureVars
<1>5. QED
  BY <1>1, <1>2, <1>3, <1>4 DEF NextCapture

\* A captured run is a run of the firmware, under whatever schedule.
LEMMA CaptureIsARun == SpecCapture => AnySchedule
<1>1. InitCapture => Init
  BY DEF InitCapture
<1>2. [NextCapture]_captureVars => [Next]_vars
  BY CaptureRunsFirmware
<1>3. QED
  BY <1>1, <1>2, PTL DEF SpecCapture, AnySchedule

\* What may have been written changes only with the firmware.
LEMMA SameCaptures ==
    ASSUME UNCHANGED <<vars, fault>>
    PROVE  Captures' = Captures
BY DEF Captures, Written, Console, VerdictLine, vars, mainVars, transmitterVars

\* Nothing is written behind the end of the capture or behind a fault.
LEMMA CaptureShapeStep ==
    ASSUME CaptureShape, [NextCapture]_captureVars
    PROVE  CaptureShape'
<1>1. CASE FirmwareRuns
  BY <1>1 DEF FirmwareRuns, Running, CaptureShape
<1>2. CASE Fault
  BY <1>2 DEF Fault, Running, CaptureShape
<1>3. CASE Capture
  <2>1. captured' \in Captures /\ UNCHANGED <<vars, fault>>
    BY <1>3 DEF Capture
  <2>2. Captures' = Captures
    BY <2>1, SameCaptures
  <2>3. QED
    BY <2>1, <2>2 DEF CaptureShape
<1>4. CASE UNCHANGED captureVars
  <2>1. Captures' = Captures
    BY <1>4, SameCaptures DEF captureVars
  <2>2. QED
    BY <1>4, <2>1 DEF CaptureShape, captureVars
<1>5. QED
  BY <1>1, <1>2, <1>3, <1>4 DEF NextCapture

\* In every execution the capture is a cut of the console.
LEMMA CaptureShapeHolds == SpecCapture => []CaptureShape
<1>1. InitCapture => CaptureShape
  BY DEF InitCapture, CaptureShape
<1>2. CaptureShape /\ [NextCapture]_captureVars => CaptureShape'
  BY CaptureShapeStep
<1>3. QED
  BY <1>1, <1>2, PTL DEF SpecCapture

\* No validator accepts a capture that is cut, torn, faulted or short of a
\* purged frame, wherever it was cut and whatever was purged: what it accepts
\* holds the whole controlled output and nothing else.
THEOREM AcceptedIsComplete == SpecCapture => []AcceptedMeansComplete
<1>1. TypeOK /\ SummaryIsTruthful /\ CaptureShape => AcceptedMeansComplete
  BY AcceptedCapture
<1>2. QED
  BY <1>1, CaptureIsARun, TypeSafe, SummarySafe, CaptureShapeHolds, PTL

\* The validators ask for nothing the firmware does not print: a whole
\* capture of a run that ended well passes all three.
THEOREM CompleteAlwaysAccepted == SpecCapture => []CompleteIsAccepted
<1>1. TypeOK /\ SummaryIsTruthful => CompleteIsAccepted
  <2> SUFFICES ASSUME TypeOK, SummaryIsTruthful, verdict.status = "SUMMARY",
                      fault = "none", captured = Console
               PROVE  /\ ValidateCapture(captured)
                      /\ RobotAccepts(captured)
                      /\ DemoAccepts(captured)
    BY DEF CompleteIsAccepted
  <2>1. captured = CompleteText
    BY CompleteConsole
  <2>2. QED
    BY <2>1, CompleteAccepted
<1>2. QED
  BY <1>1, CaptureIsARun, TypeSafe, SummarySafe, PTL

-----------------------------------------------------------------------------
(* One frame at a time.  Under the priorities the transmitter always waits  *)
(* when the producer puts, so that the buffer stays empty and every put is  *)
(* a hand-over that the transmitter finishes before the producer goes on.   *)

\* So many frames are enqueued, printed and counted.
Settled(count) ==
    /\ Len(lines) = count
    /\ metrics.frames_transmitted = count
    /\ metrics.frames_enqueued = count

\* The put has handed its item over: the transmitter holds it, or is on its
\* way back to the queue.
HandedOver ==
    LET before == Position(producerItem) - 1
    IN  /\ metrics.frames_enqueued = before
        /\ \/ /\ transmitterPc = "got" /\ transmitterItem = producerItem
              /\ Len(lines) = before
              /\ metrics.frames_transmitted = before
           \/ /\ transmitterPc = "count" /\ producerItem # EndItem
              /\ Len(lines) = before + 1
              /\ metrics.frames_transmitted = before
           \/ /\ transmitterPc \in {"get", "pended"} /\ producerItem # EndItem
              /\ Len(lines) = before + 1
              /\ metrics.frames_transmitted = before + 1
           \/ transmitterPc \in {"give", "finished"} /\ producerItem = EndItem

\* What the priorities keep true of producer and transmitter.
InStep ==
    /\ queue = <<>> /\ putResult = "ok" /\ getResult = "ok"
    /\ mainPc # "create_transmitter" => transmitterPc # "absent"
    /\ producerPc \in {"absent", "run"} =>
           transmitterPc \in {"absent", "get", "pended"} /\ Settled(sensorIndex)
    /\ producerPc = "put" =>
           transmitterPc = "pended" /\ Settled(Position(producerItem) - 1)
    /\ producerPc # "pended"
    /\ producerPc = "put_returned" => HandedOver
    /\ producerPc \in {"give", "finished"} => transmitterPc = "finished"

\* The priorities choose among the steps of the threads.
LEMMA PriorityChooses ==
    ASSUME [PriorityNext]_vars
    PROVE  [Next]_vars
BY DEF PriorityNext, Next

\* Executions under the priorities are executions.
LEMMA PriorityIsASchedule == PrioritySpec => AnySchedule
<1>1. [PriorityNext]_vars => [Next]_vars
  BY PriorityChooses
<1>2. QED
  BY <1>1, PTL DEF PrioritySpec, AnySchedule

\* Sampling touches neither counter of frames under way.
LEMMA SampleRecords ==
    ASSUME TypeOK, ProducerSample
    PROVE  /\ metrics'.frames_transmitted = metrics.frames_transmitted
           /\ metrics'.frames_enqueued = metrics.frames_enqueued
BY DEF TypeOK, ProducerSample, Record, MetricNames

\* The producer's item is a frame, the latest sample's, or the end marker.
LEMMA PutItem ==
    ASSUME TypeOK, HandsInOrder, producerPc \in {"put", "put_returned"}
    PROVE  /\ Position(producerItem) \in Nat
           /\ producerItem.kind = "frame" =>
                  /\ Position(producerItem) = sensorIndex
                  /\ producerItem # EndItem
           /\ producerItem.kind # "frame" =>
                  /\ producerItem = EndItem
                  /\ Position(producerItem) = sensorIndex + 1
<1>1. \/ producerItem = FrameItem(sensorIndex)
      \/ producerItem = EndItem /\ sensorIndex = SampleCount
  BY DEF HandsInOrder
<1>2. EndItem.kind = "end_of_stream" /\ FrameItem(sensorIndex).kind = "frame"
      /\ FrameItem(sensorIndex).frame = sensorIndex
  BY DEF EndItem, FrameItem
<1>3. CASE producerItem = FrameItem(sensorIndex)
  <2>1. Position(producerItem) = sensorIndex
    BY <1>2, <1>3 DEF Position
  <2>2. sensorIndex \in Nat /\ producerItem # EndItem
    BY <1>2, <1>3 DEF TypeOK
  <2>3. QED
    BY <1>2, <1>3, <2>1, <2>2
<1>4. CASE producerItem = EndItem /\ sensorIndex = SampleCount
  <2>1. Position(producerItem) = sensorIndex + 1
    BY <1>2, <1>4 DEF Position
  <2>2. QED
    BY <1>2, <1>4, <2>1
<1>5. QED
  BY <1>1, <1>3, <1>4

\* Main's steps keep the threads in step.
LEMMA InStepMain ==
    ASSUME TypeOK, StartUp, InStep, Main
    PROVE  InStep'
<1>1. CASE MainCreatesTransmitter
  <2>1. transmitterPc = "absent" /\ producerPc = "absent"
    BY <1>1 DEF StartUp, MainCreatesTransmitter
  <2>2. QED
    BY <1>1, <2>1
    DEF MainCreatesTransmitter, InStep, Settled, HandedOver, sensorVars,
        producerVars
<1>2. CASE MainCreatesProducer
  <2>1. producerPc = "absent"
    BY <1>2 DEF StartUp, MainCreatesProducer
  <2>2. QED
    BY <1>2, <2>1
    DEF MainCreatesProducer, InStep, Settled, HandedOver, sensorVars,
        transmitterVars
<1>3. CASE MainJoinsProducer \/ MainJoinsTransmitter \/ MainReports
  <2>1. UNCHANGED <<sensorVars, queue, producerVars, transmitterVars, metrics, lines>>
    BY <1>3 DEF MainJoinsProducer, MainJoinsTransmitter, MainReports, besideMain
  <2>2. mainPc # "create_transmitter" /\ mainPc' # "create_transmitter"
    BY <1>3 DEF MainJoinsProducer, MainJoinsTransmitter, MainReports
  <2>3. QED
    BY <2>1, <2>2
    DEF InStep, Settled, HandedOver, sensorVars, producerVars, transmitterVars
<1>4. QED
  BY <1>1, <1>2, <1>3 DEF Main

\* So do the transmitter's, which the producer waits for.
LEMMA InStepTransmitter ==
    ASSUME TypeOK, HandsInOrder, InStep, Transmitter
    PROVE  InStep'
<1> USE DEF besideTransmitter, sensorVars, producerVars, semaphoreVars, mainVars
<1>1. CASE GetTakes \/ GetTakesAndAdmits \/ TransmitterPopFails
  BY <1>1 DEF GetTakes, GetTakesAndAdmits, TransmitterPopFails, InStep
<1>2. CASE GetPends
  BY <1>2 DEF GetPends, InStep, Settled, HandedOver
<1>3. CASE TransmitterPrints
  <2>1. producerPc = "put_returned"
    BY <1>3 DEF TransmitterPrints, InStep, TypeOK, ProducerStates
  <2>2. HandedOver /\ transmitterItem = producerItem
    BY <1>3, <2>1 DEF TransmitterPrints, InStep, HandedOver
  <2>3. producerItem # EndItem /\ Position(producerItem) \in Nat
    BY <1>3, <2>1, <2>2, PutItem DEF TransmitterPrints
  <2>4. Len(lines') = Len(lines) + 1
    BY <1>3 DEF TransmitterPrints, TypeOK
  <2>5. HandedOver'
    BY <1>3, <2>2, <2>3, <2>4 DEF TransmitterPrints, HandedOver, Position, EndItem
  <2>6. QED
    BY <1>3, <2>1, <2>5 DEF TransmitterPrints, InStep
<1>4. CASE TransmitterCountsFrame
  <2>1. producerPc = "put_returned"
    BY <1>4 DEF TransmitterCountsFrame, InStep, TypeOK, ProducerStates
  <2>2. HandedOver /\ Position(producerItem) \in Nat
    BY <2>1, PutItem DEF InStep
  <2>3. /\ metrics'.frames_transmitted = metrics.frames_transmitted + 1
        /\ metrics'.frames_enqueued = metrics.frames_enqueued
    BY <1>4 DEF TransmitterCountsFrame, Record, TypeOK, MetricNames
  <2>4. HandedOver'
    BY <1>4, <2>2, <2>3 DEF TransmitterCountsFrame, HandedOver, Position, EndItem
  <2>5. QED
    BY <1>4, <2>1, <2>4 DEF TransmitterCountsFrame, InStep
<1>5. CASE TransmitterCountsEndMarker
  <2>1. producerPc = "put_returned"
    BY <1>5 DEF TransmitterCountsEndMarker, InStep, TypeOK, ProducerStates
  <2>2. HandedOver /\ transmitterItem = producerItem
    BY <1>5, <2>1 DEF TransmitterCountsEndMarker, InStep, HandedOver
  <2>3. producerItem = EndItem
    BY <1>5, <2>1, <2>2, PutItem DEF TransmitterCountsEndMarker
  <2>4. metrics'.frames_enqueued = metrics.frames_enqueued
    BY <1>5 DEF TransmitterCountsEndMarker, Record, TypeOK, MetricNames
  <2>5. HandedOver'
    BY <1>5, <2>2, <2>3, <2>4
    DEF TransmitterCountsEndMarker, HandedOver, Position, EndItem
  <2>6. QED
    BY <1>5, <2>1, <2>5 DEF TransmitterCountsEndMarker, InStep
<1>6. CASE TransmitterGives
  <2>1. producerPc = "put_returned"
    BY <1>6 DEF TransmitterGives, InStep, TypeOK, ProducerStates
  <2>2. HandedOver'
    BY <1>6, <2>1 DEF TransmitterGives, InStep, HandedOver, Position, EndItem
  <2>3. QED
    BY <1>6, <2>1, <2>2 DEF TransmitterGives, InStep
<1>7. QED
  BY <1>1, <1>2, <1>3, <1>4, <1>5, <1>6 DEF Transmitter

\* So do the producer's, which it takes while the transmitter waits.
LEMMA InStepProducer ==
    ASSUME TypeOK, HandsInOrder, HandsInOrder', TypeOK', StartUp, InStep,
           Producer, ~TransmitterReady
    PROVE  InStep'
<1> USE DEF besideProducer, transmitterVars, semaphoreVars, mainVars, sensorVars
<1>1. producerPc = "run" => transmitterPc = "pended" /\ Settled(sensorIndex)
  <2> SUFFICES ASSUME producerPc = "run"
               PROVE  transmitterPc = "pended" /\ Settled(sensorIndex)
    OBVIOUS
  <2>1. mainPc # "create_transmitter"
    BY DEF StartUp
  <2>2. transmitterPc \in {"absent", "get", "pended"} /\ transmitterPc # "absent"
    BY <2>1 DEF InStep
  <2>3. QED
    BY <2>2 DEF InStep, TransmitterReady
<1>2. CASE ProducerSample
  <2>1. /\ metrics'.frames_transmitted = metrics.frames_transmitted
        /\ metrics'.frames_enqueued = metrics.frames_enqueued
    BY <1>2, SampleRecords
  <2>2. Position(producerItem)' - 1 = sensorIndex
    BY <1>2 DEF ProducerSample, Position, FrameItem, TypeOK
  <2>3. Settled(Position(producerItem) - 1)'
    BY <1>1, <1>2, <2>1, <2>2 DEF ProducerSample, Settled
  <2>4. QED
    BY <1>1, <1>2, <2>3 DEF ProducerSample, InStep
<1>3. CASE ProducerFinishStream
  <2>1. Position(producerItem)' - 1 = sensorIndex
    BY <1>3 DEF ProducerFinishStream, Position, EndItem, TypeOK, HasNext
  <2>2. Settled(Position(producerItem) - 1)'
    BY <1>1, <1>3, <2>1 DEF ProducerFinishStream, Settled
  <2>3. QED
    BY <1>1, <1>3, <2>2 DEF ProducerFinishStream, InStep
<1>4. CASE PutHandsOver
  <2>1. Settled(Position(producerItem) - 1)
    BY <1>4 DEF PutHandsOver, InStep
  <2>2. Position(producerItem)' = Position(producerItem)
    BY <1>4 DEF PutHandsOver, Position
  <2>3. HandedOver'
    BY <1>4, <2>1, <2>2 DEF PutHandsOver, HandedOver, Settled
  <2>4. QED
    BY <1>4, <2>3 DEF PutHandsOver, InStep
<1>5. CASE PutBuffers \/ PutPends \/ ProducerPushFails
  <2>1. Len(queue) = 0
    BY DEF InStep
  <2>2. QED
    BY <1>5, <2>1 DEF PutBuffers, PutPends, ProducerPushFails, InStep
<1>6. CASE ProducerCountsFrame
  <2>1. /\ Position(producerItem) = sensorIndex /\ producerItem # EndItem
        /\ sensorIndex \in Nat
    BY <1>6, PutItem DEF ProducerCountsFrame, TypeOK
  <2>2. /\ transmitterPc = "pended"
        /\ Len(lines) = sensorIndex
        /\ metrics.frames_transmitted = sensorIndex
        /\ metrics.frames_enqueued = sensorIndex - 1
    BY <1>6, <2>1 DEF ProducerCountsFrame, InStep, HandedOver, TransmitterReady
  <2>3. /\ metrics'.frames_transmitted = metrics.frames_transmitted
        /\ metrics'.frames_enqueued = metrics.frames_enqueued + 1
    BY <1>6 DEF ProducerCountsFrame, Record, TypeOK, MetricNames
  <2>4. Settled(sensorIndex)'
    BY <1>6, <2>1, <2>2, <2>3 DEF ProducerCountsFrame, Settled
  <2>5. QED
    BY <1>6, <2>2, <2>4 DEF ProducerCountsFrame, InStep
<1>7. CASE ProducerCountsEndMarker
  <2>1. producerItem = EndItem
    BY <1>7, PutItem DEF ProducerCountsEndMarker
  <2>2. transmitterPc = "finished"
    BY <1>7, <2>1 DEF ProducerCountsEndMarker, InStep, HandedOver, TransmitterReady
  <2>3. QED
    BY <1>7, <2>2 DEF ProducerCountsEndMarker, InStep
<1>8. CASE ProducerGives
  BY <1>8 DEF ProducerGives, InStep
<1>9. QED
  BY <1>2, <1>3, <1>4, <1>5, <1>6, <1>7, <1>8 DEF Producer

\* The priorities keep the threads in step.
LEMMA InStepHolds == PrioritySpec => []InStep
<1>1. Init => InStep
  BY DEF Init, InStep, Settled, MetricNames
<1>2. /\ TypeOK /\ TypeOK' /\ DeliveryOrder /\ DeliveryOrder'
      /\ InStep /\ [PriorityNext]_vars
      => InStep'
  <2> SUFFICES ASSUME TypeOK, TypeOK', DeliveryOrder, DeliveryOrder', InStep,
                      [PriorityNext]_vars
               PROVE  InStep'
    OBVIOUS
  <2>1. StartUp /\ HandsInOrder /\ HandsInOrder'
    BY DEF DeliveryOrder
  <2>2. CASE Main
    BY <2>1, <2>2, InStepMain
  <2>3. CASE Transmitter
    BY <2>1, <2>3, InStepTransmitter
  <2>4. CASE ~TransmitterReady /\ Producer
    BY <2>1, <2>4, InStepProducer
  <2>5. CASE UNCHANGED vars
    BY <2>5 DEF vars, sensorVars, producerVars, transmitterVars, mainVars,
                InStep, Settled, HandedOver, Position, EndItem
  <2>6. QED
    BY <2>2, <2>3, <2>4, <2>5 DEF PriorityNext, Exited
<1>3. QED
  BY <1>1, <1>2, PriorityIsASchedule, TypeSafe, DeliveryOrderSafe, PTL
  DEF PrioritySpec

\* On the fixed priorities a sample is generated only after the one before is
\* enqueued, printed and counted, whatever the number of samples and the
\* capacity: the queue never holds anything.
THEOREM OneFrameInFlight == PrioritySpec => OneFrameAtATime
<1>1. TypeOK /\ InStep /\ [PriorityNext]_vars
          => [sensorIndex' > sensorIndex =>
                  /\ Len(lines) = sensorIndex
                  /\ metrics.frames_transmitted = sensorIndex
                  /\ metrics.frames_enqueued = sensorIndex]_vars
  <2> SUFFICES ASSUME TypeOK, InStep, [PriorityNext]_vars,
                      sensorIndex' > sensorIndex
               PROVE  Settled(sensorIndex)
    BY DEF Settled
  <2>1. sensorIndex' # sensorIndex
    BY DEF TypeOK
  <2>2. ProducerSample
    BY <2>1
    DEF PriorityNext, Exited, vars, sensorVars, Main, Transmitter, Producer,
        besideProducer, besideTransmitter, besideMain,
        ProducerFinishStream, PutHandsOver, PutBuffers,
        PutPends, ProducerCountsFrame, ProducerCountsEndMarker,
        ProducerPushFails, ProducerGives, GetTakes, GetTakesAndAdmits,
        GetPends, TransmitterPrints, TransmitterCountsFrame,
        TransmitterCountsEndMarker, TransmitterPopFails, TransmitterGives,
        MainCreatesTransmitter, MainCreatesProducer, MainJoinsProducer,
        MainJoinsTransmitter, MainReports
  <2>3. QED
    BY <2>2 DEF ProducerSample, InStep
<1>2. QED
  BY <1>1, InStepHolds, PriorityIsASchedule, TypeSafe, PTL
  DEF PrioritySpec, OneFrameAtATime
=============================================================================
