-------------------------- MODULE TelemetryFirmware --------------------------
(****************************************************************************)
(* The Zephyr application of firmware/src: main creates two threads that    *)
(* share one static message queue.  The producer samples the sensor model,  *)
(* serializes each sample and enqueues it, then enqueues one end marker.    *)
(* The transmitter dequeues, prints one TLFRAME line per frame and stops at *)
(* the end marker.  main joins both through semaphores, takes the metrics   *)
(* snapshot and prints SUMMARY and DONE, or ERROR.                          *)
(*                                                                          *)
(* A frame is identified by the number of its sample, 1..SampleCount: its   *)
(* sequence is initial_sequence + number - 1 and every other field is a     *)
(* function of the number (deterministic_sensor_model.cpp:51-74).           *)
(*                                                                          *)
(* The message queue is the kernel's k_msgq, modelled from how the firmware *)
(* uses it: put and get with K_FOREVER, purge, num_used.  A put that finds  *)
(* a pended getter hands its item over directly; a get on a full queue lets *)
(* the pended putter's item into the buffer; a purge empties the buffer and *)
(* wakes a pended thread with -ENOMSG.                                      *)
(****************************************************************************)
EXTENDS Naturals, Sequences

CONSTANTS
    SampleCount,    \* deterministic_sample_count (8 in the program)
    QueueCapacity,  \* telemetry_queue_capacity (4 in the program)
    MaxPurges       \* how many more TelemetryQueue objects are constructed
                    \* while the threads run: 0 in the program

ASSUME SampleCountAssumption == SampleCount \in Nat
ASSUME QueueCapacityAssumption == QueueCapacity \in Nat \ {0}
ASSUME MaxPurgesAssumption == MaxPurges \in Nat

VARIABLES
    sensorIndex,          \* next_index_ of the sensor model
    queue,                \* the items buffered in the static k_msgq
    producerPc,           \* where the producer thread is
    producerItem,         \* the item it is putting
    putResult,            \* what its last k_msgq_put returned
    producerSucceeded,    \* producer_context.succeeded
    transmitterPc,        \* where the transmitter thread is
    transmitterItem,      \* the item its last k_msgq_get filled in
    getResult,            \* what its last k_msgq_get returned
    transmitterSucceeded, \* transmitter_context.succeeded
    producerFinished,     \* count of the semaphore producer_finished
    transmitterFinished,  \* count of the semaphore transmitter_finished
    metrics,              \* FirmwareMetrics::values_
    lines,                \* the TLFRAME lines on the console
    mainPc,               \* where main is
    verdict,              \* what main printed last on the console
    purges                \* purges of the queue after main's own

sensorVars == <<sensorIndex>>
producerVars == <<producerPc, producerItem, putResult, producerSucceeded>>
transmitterVars ==
    <<transmitterPc, transmitterItem, getResult, transmitterSucceeded>>
semaphoreVars == <<producerFinished, transmitterFinished>>
mainVars == <<mainPc, verdict>>
besideProducer == <<transmitterVars, semaphoreVars, lines, mainVars, purges>>
besideTransmitter ==
    <<sensorVars, producerVars, semaphoreVars, mainVars, purges>>
besideMain ==
    <<sensorVars, producerVars, transmitterVars, metrics, lines, purges>>
vars == <<sensorVars, queue, producerVars, transmitterVars, semaphoreVars,
          metrics, lines, mainVars, purges>>

-----------------------------------------------------------------------------
(* Data.                                                                    *)

FrameNumbers == 1..SampleCount

\* TelemetryQueueItem: an end marker carries the zeroed bytes of no frame.
FrameItem(number) == [kind |-> "frame", frame |-> number]
EndItem == [kind |-> "end_of_stream", frame |-> 0]
Items == [kind : {"frame", "end_of_stream"}, frame : 0..SampleCount]

Results == {"ok", "enomsg"}

MetricNames ==
    {"samples_generated", "frames_serialized", "frames_enqueued",
     "frames_transmitted", "queue_push_failures", "queue_pop_failures",
     "end_markers_sent", "end_markers_received"}

Record(name) == [metrics EXCEPT ![name] = @ + 1]

\* Mutant: has_next lets the index run one past the last sample.
HasNextInclusive == sensorIndex <= SampleCount

\* DeterministicSensorModel::has_next.
HasNext == sensorIndex < SampleCount

\* Mutant: the validation forgets the transmitter's counter.
MetricsAreValidWithoutTransmitted ==
    /\ metrics.samples_generated = SampleCount
    /\ metrics.frames_serialized = SampleCount
    /\ metrics.frames_enqueued = SampleCount
    /\ metrics.queue_push_failures = 0
    /\ metrics.queue_pop_failures = 0
    /\ metrics.end_markers_sent = 1
    /\ metrics.end_markers_received = 1

\* metrics_are_valid of main.cpp.
MetricsAreValid ==
    /\ metrics.samples_generated = SampleCount
    /\ metrics.frames_serialized = SampleCount
    /\ metrics.frames_enqueued = SampleCount
    /\ metrics.frames_transmitted = SampleCount
    /\ metrics.queue_push_failures = 0
    /\ metrics.queue_pop_failures = 0
    /\ metrics.end_markers_sent = 1
    /\ metrics.end_markers_received = 1

NoVerdict ==
    [status |-> "NONE", produced |-> 0, transmitted |-> 0, queue_errors |-> 0]

-----------------------------------------------------------------------------
Init ==
    /\ sensorIndex = 0
    /\ queue = <<>>
    /\ producerPc = "absent" /\ transmitterPc = "absent"
    /\ producerItem = EndItem /\ transmitterItem = EndItem
    /\ putResult = "ok" /\ getResult = "ok"
    /\ producerSucceeded = FALSE /\ transmitterSucceeded = FALSE
    /\ producerFinished = 0 /\ transmitterFinished = 0
    /\ metrics = [name \in MetricNames |-> 0]
    /\ lines = <<>>
    /\ mainPc = "create_transmitter"
    /\ verdict = NoVerdict
    /\ purges = 0

-----------------------------------------------------------------------------
(* The producer thread.                                                     *)

\* One turn of the loop of TelemetryProducer::run up to the push.
ProducerSample ==
    /\ producerPc = "run"
    /\ HasNext
    /\ sensorIndex' = sensorIndex + 1
    /\ metrics' = [Record("samples_generated")
                       EXCEPT !.frames_serialized = @ + 1]
    /\ producerItem' = FrameItem(sensorIndex + 1)
    /\ producerPc' = "put"
    /\ UNCHANGED <<besideProducer, queue, putResult, producerSucceeded>>

\* Mutant: run returns true after the loop without pushing the end marker.
ProducerFinishStreamSilently ==
    /\ producerPc = "run"
    /\ ~HasNext
    /\ producerSucceeded' = TRUE
    /\ producerPc' = "give"
    /\ UNCHANGED <<besideProducer, sensorVars, queue, producerItem, putResult,
                   metrics>>

\* The loop is over: push_end_of_stream builds the end marker.
ProducerFinishStream ==
    /\ producerPc = "run"
    /\ ~HasNext
    /\ producerItem' = EndItem
    /\ producerPc' = "put"
    /\ UNCHANGED <<besideProducer, sensorVars, queue, putResult,
                   producerSucceeded, metrics>>

\* k_msgq_put(K_FOREVER): hand over to a pended getter, else buffer, else pend.
PutHandsOver ==
    /\ producerPc = "put"
    /\ transmitterPc = "pended"
    /\ Len(queue) < QueueCapacity
    /\ transmitterItem' = producerItem
    /\ getResult' = "ok"
    /\ transmitterPc' = "got"
    /\ putResult' = "ok"
    /\ producerPc' = "put_returned"
    /\ UNCHANGED <<sensorVars, queue, producerItem, producerSucceeded,
                   transmitterSucceeded, semaphoreVars, metrics, lines,
                   mainVars, purges>>

PutBuffers ==
    /\ producerPc = "put"
    /\ transmitterPc # "pended"
    /\ Len(queue) < QueueCapacity
    /\ queue' = Append(queue, producerItem)
    /\ putResult' = "ok"
    /\ producerPc' = "put_returned"
    /\ UNCHANGED <<besideProducer, sensorVars, producerItem,
                   producerSucceeded, metrics>>

\* Mutant: the push does not wait for space (K_NO_WAIT).
PutFailsWhenFull ==
    /\ producerPc = "put"
    /\ Len(queue) = QueueCapacity
    /\ putResult' = "enomsg"
    /\ producerPc' = "put_returned"
    /\ UNCHANGED <<besideProducer, sensorVars, queue, producerItem,
                   producerSucceeded, metrics>>

PutPends ==
    /\ producerPc = "put"
    /\ Len(queue) = QueueCapacity
    /\ producerPc' = "pended"
    /\ UNCHANGED <<besideProducer, sensorVars, queue, producerItem, putResult,
                   producerSucceeded, metrics>>

\* The put returned 0: count the frame, or the end marker and return true.
ProducerCountsFrame ==
    /\ producerPc = "put_returned"
    /\ putResult = "ok" /\ producerItem.kind = "frame"
    /\ metrics' = Record("frames_enqueued")
    /\ producerPc' = "run"
    /\ UNCHANGED <<besideProducer, sensorVars, queue, producerItem, putResult,
                   producerSucceeded>>

ProducerCountsEndMarker ==
    /\ producerPc = "put_returned"
    /\ putResult = "ok" /\ producerItem.kind = "end_of_stream"
    /\ metrics' = Record("end_markers_sent")
    /\ producerSucceeded' = TRUE
    /\ producerPc' = "give"
    /\ UNCHANGED <<besideProducer, sensorVars, queue, producerItem,
                   putResult>>

\* The put failed: run returns false, and no end marker is ever pushed.
ProducerPushFails ==
    /\ producerPc = "put_returned"
    /\ putResult # "ok"
    /\ metrics' = Record("queue_push_failures")
    /\ producerSucceeded' = FALSE
    /\ producerPc' = "give"
    /\ UNCHANGED <<besideProducer, sensorVars, queue, producerItem,
                   putResult>>

\* Mutant: a producer that failed does not give its semaphore.
ProducerGivesIfSucceeded ==
    /\ producerPc = "give"
    /\ producerSucceeded
    /\ producerFinished' = 1
    /\ producerPc' = "finished"
    /\ UNCHANGED <<sensorVars, queue, producerItem, putResult,
                   producerSucceeded, transmitterVars, transmitterFinished,
                   metrics, lines, mainVars, purges>>

\* producer_thread_entry stores the result before it gives the semaphore.
ProducerGives ==
    /\ producerPc = "give"
    /\ producerFinished' = 1
    /\ producerPc' = "finished"
    /\ UNCHANGED <<sensorVars, queue, producerItem, putResult,
                   producerSucceeded, transmitterVars, transmitterFinished,
                   metrics, lines, mainVars, purges>>

Producer ==
    \/ ProducerSample
    \/ ProducerFinishStream
    \/ PutHandsOver
    \/ PutBuffers
    \/ PutPends
    \/ ProducerCountsFrame
    \/ ProducerCountsEndMarker
    \/ ProducerPushFails
    \/ ProducerGives

-----------------------------------------------------------------------------
(* The transmitter thread.                                                  *)

\* k_msgq_get(K_FOREVER): take the head and admit a pended putter's item, or
\* pend on an empty queue.
GetTakes ==
    /\ transmitterPc = "get"
    /\ queue # <<>>
    /\ producerPc # "pended"
    /\ transmitterItem' = Head(queue)
    /\ queue' = Tail(queue)
    /\ getResult' = "ok"
    /\ transmitterPc' = "got"
    /\ UNCHANGED <<besideTransmitter, transmitterSucceeded, metrics, lines>>

GetTakesAndAdmits ==
    /\ transmitterPc = "get"
    /\ queue # <<>>
    /\ producerPc = "pended"
    /\ transmitterItem' = Head(queue)
    /\ queue' = Append(Tail(queue), producerItem)
    /\ putResult' = "ok"
    /\ producerPc' = "put_returned"
    /\ getResult' = "ok"
    /\ transmitterPc' = "got"
    /\ UNCHANGED <<sensorVars, producerItem, producerSucceeded,
                   transmitterSucceeded, semaphoreVars, metrics, lines,
                   mainVars, purges>>

GetPends ==
    /\ transmitterPc = "get"
    /\ queue = <<>>
    /\ transmitterPc' = "pended"
    /\ UNCHANGED <<besideTransmitter, queue, transmitterItem, getResult,
                   transmitterSucceeded, metrics, lines>>

\* The pop returned a frame: number it, format it and print its line.  The
\* local transmission_index is the number of lines printed so far.
TransmitterPrints ==
    /\ transmitterPc = "got"
    /\ getResult = "ok" /\ transmitterItem.kind = "frame"
    /\ lines' = Append(lines, [number |-> Len(lines) + 1,
                               frame |-> transmitterItem.frame])
    /\ transmitterPc' = "count"
    /\ UNCHANGED <<besideTransmitter, queue, transmitterItem, getResult,
                   transmitterSucceeded, metrics>>

TransmitterCountsFrame ==
    /\ transmitterPc = "count"
    /\ metrics' = Record("frames_transmitted")
    /\ transmitterPc' = "get"
    /\ UNCHANGED <<besideTransmitter, queue, transmitterItem, getResult,
                   transmitterSucceeded, lines>>

\* Mutant: the end marker is counted as one more frame.
TransmitterCountsEndMarkerAsFrame ==
    /\ transmitterPc = "got"
    /\ getResult = "ok" /\ transmitterItem.kind = "end_of_stream"
    /\ metrics' = Record("frames_transmitted")
    /\ transmitterSucceeded' = TRUE
    /\ transmitterPc' = "give"
    /\ UNCHANGED <<besideTransmitter, queue, transmitterItem, getResult,
                   lines>>

TransmitterCountsEndMarker ==
    /\ transmitterPc = "got"
    /\ getResult = "ok" /\ transmitterItem.kind = "end_of_stream"
    /\ metrics' = Record("end_markers_received")
    /\ transmitterSucceeded' = TRUE
    /\ transmitterPc' = "give"
    /\ UNCHANGED <<besideTransmitter, queue, transmitterItem, getResult,
                   lines>>

TransmitterPopFails ==
    /\ transmitterPc = "got"
    /\ getResult # "ok"
    /\ metrics' = Record("queue_pop_failures")
    /\ transmitterSucceeded' = FALSE
    /\ transmitterPc' = "give"
    /\ UNCHANGED <<besideTransmitter, queue, transmitterItem, getResult,
                   lines>>

\* transmitter_thread_entry stores the result before it gives the semaphore.
TransmitterGives ==
    /\ transmitterPc = "give"
    /\ transmitterFinished' = 1
    /\ transmitterPc' = "finished"
    /\ UNCHANGED <<sensorVars, queue, producerVars, transmitterItem,
                   getResult, transmitterSucceeded, producerFinished, metrics,
                   lines, mainVars, purges>>

Transmitter ==
    \/ GetTakes
    \/ GetTakesAndAdmits
    \/ GetPends
    \/ TransmitterPrints
    \/ TransmitterCountsFrame
    \/ TransmitterCountsEndMarker
    \/ TransmitterPopFails
    \/ TransmitterGives

-----------------------------------------------------------------------------
(* main.                                                                    *)

\* main constructs the queue (which purges it) and starts the transmitter.
MainCreatesTransmitter ==
    /\ mainPc = "create_transmitter"
    /\ queue' = <<>>
    /\ transmitterPc' = "get"
    /\ mainPc' = "create_producer"
    /\ UNCHANGED <<sensorVars, producerVars, transmitterItem, getResult,
                   transmitterSucceeded, semaphoreVars, metrics, lines,
                   verdict, purges>>

MainCreatesProducer ==
    /\ mainPc = "create_producer"
    /\ producerPc' = "run"
    /\ mainPc' = "take_producer"
    /\ UNCHANGED <<sensorVars, queue, producerItem, putResult,
                   producerSucceeded, transmitterVars, semaphoreVars, metrics,
                   lines, verdict, purges>>

MainJoinsProducer ==
    /\ mainPc = "take_producer"
    /\ producerFinished = 1
    /\ producerFinished' = 0
    /\ mainPc' = "take_transmitter"
    /\ UNCHANGED <<besideMain, queue, transmitterFinished, verdict>>

\* Mutant: main does not wait for the transmitter.
MainSkipsTransmitter ==
    /\ mainPc = "take_transmitter"
    /\ mainPc' = "report"
    /\ UNCHANGED <<besideMain, queue, semaphoreVars, verdict>>

MainJoinsTransmitter ==
    /\ mainPc = "take_transmitter"
    /\ transmitterFinished = 1
    /\ transmitterFinished' = 0
    /\ mainPc' = "report"
    /\ UNCHANGED <<besideMain, queue, producerFinished, verdict>>

Succeeded ==
    /\ producerSucceeded
    /\ transmitterSucceeded
    /\ MetricsAreValid
    /\ queue = <<>>

\* Snapshot, validation, printk of the verdict and exit with 0 or 1.
MainReports ==
    /\ mainPc = "report"
    /\ verdict' =
        [status |-> IF Succeeded THEN "SUMMARY" ELSE "ERROR",
         produced |-> metrics.frames_enqueued,
         transmitted |-> metrics.frames_transmitted,
         queue_errors |-> metrics.queue_push_failures
                              + metrics.queue_pop_failures]
    /\ mainPc' = "exited"
    /\ UNCHANGED <<besideMain, queue, semaphoreVars>>

Main ==
    \/ MainCreatesTransmitter
    \/ MainCreatesProducer
    \/ MainJoinsProducer
    \/ MainJoinsTransmitter
    \/ MainReports

-----------------------------------------------------------------------------
(* Mutant: the constructor re-initialises the k_msgq, which forgets the     *)
(* threads pended on it, instead of purging it.                             *)
ConstructAnotherQueueAfresh ==
    /\ purges < MaxPurges
    /\ mainPc \notin {"create_transmitter", "exited"}
    /\ purges' = purges + 1
    /\ queue' = <<>>
    /\ UNCHANGED <<sensorVars, producerVars, transmitterVars, semaphoreVars,
                   metrics, lines, mainVars>>

(* Every TelemetryQueue is a handle on the one static k_msgq, and its       *)
(* constructor purges it.  The program constructs one before the threads    *)
(* run; this action is the construction of another one while they do, the   *)
(* only way a push or a pop can fail.                                       *)
ConstructAnotherQueue ==
    /\ purges < MaxPurges
    /\ mainPc \notin {"create_transmitter", "exited"}
    /\ purges' = purges + 1
    /\ queue' = <<>>
    /\ IF producerPc = "pended"
       THEN producerPc' = "put_returned" /\ putResult' = "enomsg"
       ELSE UNCHANGED <<producerPc, putResult>>
    /\ IF transmitterPc = "pended"
       THEN transmitterPc' = "got" /\ getResult' = "enomsg"
       ELSE UNCHANGED <<transmitterPc, getResult>>
    /\ UNCHANGED <<sensorVars, producerItem, producerSucceeded,
                   transmitterItem, transmitterSucceeded, semaphoreVars,
                   metrics, lines, mainVars>>

\* main returned: on native_sim nsi_exit ends the process.
Exited ==
    /\ mainPc = "exited"
    /\ UNCHANGED vars

Next == Producer \/ Transmitter \/ Main \/ ConstructAnotherQueue \/ Exited

\* A thread that can run is eventually scheduled: each is runnable until it
\* pends, and all three are at fixed priorities of one preemptive scheduler
\* (PrioritySpec below implements this fairness).
Fairness ==
    /\ WF_vars(Producer)
    /\ WF_vars(Transmitter)
    /\ WF_vars(Main)

Spec == Init /\ [][Next]_vars /\ Fairness

-----------------------------------------------------------------------------
(* The priorities of main.cpp on one CPU: main (0), the transmitter (4) and *)
(* the producer (5).  The highest ready thread runs, so a step of a thread  *)
(* that wakes a higher one is followed by the higher one's steps.           *)

MainReady ==
    \/ mainPc \in {"create_transmitter", "create_producer", "report"}
    \/ mainPc = "take_producer" /\ producerFinished = 1
    \/ mainPc = "take_transmitter" /\ transmitterFinished = 1

\* Mutant: the transmitter polls an empty queue instead of waiting on it.
TransmitterReadyWhileWaiting == transmitterPc \notin {"absent", "finished"}

TransmitterReady == transmitterPc \notin {"absent", "pended", "finished"}

ProducerReady == producerPc \notin {"absent", "pended", "finished"}

\* Mutant: the two priorities are swapped.
PriorityNextSwapped ==
    \/ Main
    \/ ~MainReady /\ Producer
    \/ ~MainReady /\ ~ProducerReady /\ Transmitter
    \/ Exited

PriorityNext ==
    \/ Main
    \/ ~MainReady /\ Transmitter
    \/ ~MainReady /\ ~TransmitterReady /\ Producer
    \/ Exited

PrioritySpec == Init /\ [][PriorityNext]_vars /\ WF_vars(PriorityNext)

-----------------------------------------------------------------------------
(* Properties.                                                              *)

ProducerStates ==
    {"absent", "run", "put", "pended", "put_returned", "give", "finished"}
TransmitterStates ==
    {"absent", "get", "pended", "got", "count", "give", "finished"}
MainStates ==
    {"create_transmitter", "create_producer", "take_producer",
     "take_transmitter", "report", "exited"}

\* Every variable keeps its type; the buffer never exceeds its capacity.
TypeOK ==
    /\ sensorIndex \in 0..SampleCount
    /\ queue \in Seq(Items) /\ Len(queue) <= QueueCapacity
    /\ producerPc \in ProducerStates
    /\ transmitterPc \in TransmitterStates
    /\ producerItem \in Items /\ transmitterItem \in Items
    /\ putResult \in Results /\ getResult \in Results
    /\ producerSucceeded \in BOOLEAN /\ transmitterSucceeded \in BOOLEAN
    /\ producerFinished \in 0..1 /\ transmitterFinished \in 0..1
    /\ metrics \in [MetricNames -> Nat]
    /\ lines \in Seq([number : Nat, frame : Nat])
    /\ mainPc \in MainStates
    /\ verdict \in [status : {"NONE", "SUMMARY", "ERROR"}, produced : Nat,
                    transmitted : Nat, queue_errors : Nat]
    /\ purges \in 0..MaxPurges

\* The place of an item in the stream: the end marker is after every frame.
Position(item) ==
    IF item.kind = "frame" THEN item.frame ELSE SampleCount + 1

\* The items between the sensor and the console, oldest first.
TransmitterHolds ==
    IF transmitterPc = "got" /\ getResult = "ok"
    THEN <<transmitterItem>> ELSE <<>>
ProducerHolds ==
    IF producerPc \in {"put", "pended"} THEN <<producerItem>> ELSE <<>>
InFlight == TransmitterHolds \o queue \o ProducerHolds

Printed == [k \in DOMAIN lines |-> lines[k].frame]
Pipeline == Printed \o [k \in DOMAIN InFlight |-> Position(InFlight[k])]

\* Without a purge no interleaving of the threads loses, duplicates or
\* reorders an item: what is printed, then held by the transmitter, buffered
\* and held by the producer is exactly the samples generated so far, and
\* after the last one the end marker until the transmitter takes it.
NothingIsLost ==
    purges = 0 =>
        \/ Pipeline = [k \in 1..sensorIndex |-> k]
        \/ ~HasNext /\ Pipeline = [k \in 1..(SampleCount + 1) |-> k]

\* A SUMMARY (and DONE, exit code 0) is printed only when the console shows
\* every sample's frame exactly once, in order and numbered 1..SampleCount,
\* and nothing is left in the queue: whatever a purge destroyed, metrics and
\* results together detect it (main.cpp:115-134).
SummaryIsTruthful ==
    verdict.status = "SUMMARY" =>
        /\ lines = [k \in 1..SampleCount |-> [number |-> k, frame |-> k]]
        /\ verdict.produced = SampleCount
        /\ verdict.transmitted = SampleCount
        /\ verdict.queue_errors = 0

\* main reads the plain counters without a lock after its two joins: from
\* then on no thread writes them, and no TLFRAME line follows the verdict.
SnapshotIsFinal ==
    [][(mainPc \in {"report", "exited"}) => UNCHANGED <<metrics, lines>>]_vars

\* The transmitter may run inside the producer's put, so its counter can be
\* ahead of frames_enqueued, but by one frame only.
TransmittedLeadsByOne ==
    /\ metrics.frames_transmitted <= metrics.frames_enqueued + 1
    /\ metrics.frames_transmitted = metrics.frames_enqueued + 1 =>
           producerPc = "put_returned"

\* No thread pends for a peer that has returned: the end marker always
\* reaches the transmitter, and the producer always has somebody to drain
\* the queue, unless a purge interfered.
NoOrphanWaits ==
    purges = 0 =>
        /\ transmitterPc = "pended" => producerPc \notin {"give", "finished"}
        /\ producerPc = "pended" => transmitterPc \notin {"give", "finished"}

\* Producer and transmitter never pend on the queue at the same time.
NotBothPended == ~(producerPc = "pended" /\ transmitterPc = "pended")

\* Without a purge the program always ends with a successful summary.
EventuallySummary ==
    [](purges = 0) => <>(mainPc = "exited" /\ verdict.status = "SUMMARY")

\* A thread waits for a peer that has returned: the transmitter for the end
\* marker of a producer whose push failed or whose marker was purged, or the
\* producer for the room a transmitter whose pop failed will not make.
Orphaned ==
    \/ transmitterPc = "pended" /\ producerPc = "finished"
    \/ producerPc = "pended" /\ transmitterPc = "finished"

\* main always prints its verdict and exits, except behind a thread that is
\* orphaned for good: no schedule, and no purge, stops it otherwise.
EndsOrHangs == <>(mainPc = "exited") \/ <>[]Orphaned

\* On the fixed priorities the transmitter preempts every put, so that at most
\* one frame is between the sensor and the console: a sample is
\* generated only after the previous one is printed and counted.
OneFrameAtATime ==
    [][sensorIndex' > sensorIndex =>
           /\ Len(lines) = sensorIndex
           /\ metrics.frames_transmitted = sensorIndex
           /\ metrics.frames_enqueued = sensorIndex]_vars

\* The firmware implements the abstract stream: its sink is the console, it
\* wants every sample, and its outcome is the verdict main prints.
Stream == INSTANCE TelemetryStream WITH
    wanted <- FrameNumbers,
    delivered <- Printed,
    outcome <- CASE verdict.status = "SUMMARY" -> "success"
                 [] verdict.status = "ERROR" -> "failure"
                 [] OTHER -> "open"
ImplementsStream == Stream!Spec

\* Strict priorities give every thread the turns Fairness grants it.
PriorityIsFair == Spec

-----------------------------------------------------------------------------
(* The inductive invariant behind SummaryIsTruthful.                        *)

LastPrinted == IF lines = <<>> THEN 0 ELSE lines[Len(lines)].frame

\* The transmitter has popped an item and not yet dealt with it.
Holding == transmitterPc = "got" /\ getResult = "ok"

\* Everything buffered is after Floor and not after Ceiling.
Floor == IF Holding THEN Position(transmitterItem) ELSE LastPrinted
Ceiling ==
    CASE producerPc \in {"absent", "run"} -> sensorIndex
      [] producerPc \in {"put", "pended"} -> Position(producerItem) - 1
      [] producerPc = "put_returned" -> Position(producerItem)
      [] OTHER -> SampleCount + 1

LinesInOrder ==
    /\ LastPrinted <= SampleCount
    /\ \A k \in 1..Len(lines) :
           /\ lines[k].number = k
           /\ k <= lines[k].frame
           /\ lines[k].frame + (Len(lines) - k) <= LastPrinted

QueueInOrder ==
    /\ \A i \in 1..Len(queue) :
           Floor < Position(queue[i]) /\ Position(queue[i]) <= Ceiling
    /\ \A i, j \in 1..Len(queue) :
           i < j => Position(queue[i]) < Position(queue[j])

HandsInOrder ==
    /\ Floor <= Ceiling
    /\ Holding => LastPrinted < Position(transmitterItem)
    /\ transmitterPc = "pended" => queue = <<>>
    /\ producerPc \in {"put", "pended", "put_returned"} =>
           \/ producerItem = FrameItem(sensorIndex)
           \/ producerItem = EndItem /\ sensorIndex = SampleCount

StartUp ==
    /\ mainPc = "create_transmitter" => transmitterPc = "absent"
    /\ mainPc \in {"create_transmitter", "create_producer"} =>
           producerPc = "absent"

CountsLines ==
    Len(lines) = metrics.frames_transmitted
                     + (IF transmitterPc = "count" THEN 1 ELSE 0)

\* Along the pipeline positions increase, from the printed lines over the
\* transmitter's item and the buffer to the producer's, whatever the purges
\* removed; and the transmitter's counter counts the lines (the loop bodies
\* of both threads and k_msgq's order of service).
DeliveryOrder ==
    /\ LinesInOrder
    /\ QueueInOrder
    /\ HandsInOrder
    /\ StartUp
    /\ CountsLines
=============================================================================
