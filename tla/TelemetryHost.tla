---------------------------- MODULE TelemetryHost ----------------------------
(****************************************************************************)
(* The host pipeline of host/src: main ingests raw frames, pushes the well- *)
(* formed ones into a bounded blocking buffer, closes it and joins; one     *)
(* consumer thread pops, validates again and records the statistics; main   *)
(* then takes the snapshot, checks it and prints the report.                *)
(*                                                                          *)
(* The buffer is SafeConcurrentBuffer of an installed package, modelled     *)
(* from how host/src uses it and from docs/HOST_PIPELINE.md: push blocks    *)
(* while the buffer is full and returns false only once it is closed; pop   *)
(* blocks while it is empty and returns no value only once it is closed and *)
(* empty.  The buffer holds the positions of the raw frames it was given.   *)
(*                                                                          *)
(* Exceptions are steps of their own: an allocation or a synchronisation    *)
(* primitive throws at a point where the code can, MaxFaults times at most. *)
(****************************************************************************)
EXTENDS TelemetryStatistics, SimulatedFrameSource, Iteration, FiniteSets

CONSTANTS
    InputStreams,     \* the streams of raw frames generate may return
    Capacity,         \* queue_capacity (3 in the program)
    MaxFaults,        \* how many exceptions may be thrown
    EarlyClose        \* whether somebody else may close the buffer

\* What a source can generate: frames that deserialize, or fail to.
RawFrames ==
    [error : ParseErrors \cup {"none"},
     frame : [sequence : Nat, temperature : Int, supply : Nat,
              flags : SUBSET StatusFlags]]

ASSUME InputStreamsAssumption == InputStreams \subseteq Seq(RawFrames)
ASSUME CapacityAssumption == Capacity \in Nat \ {0}
ASSUME MaxFaultsAssumption == MaxFaults \in Nat
ASSUME EarlyCloseAssumption == EarlyClose \in BOOLEAN

VARIABLES
    inputs,          \* what the source generates
    position,        \* the raw frame the ingest loop is at
    mainPc,          \* where main is
    ingestionSucceeded,
    buffer,          \* positions of the queued frames
    closed,          \* whether the buffer is closed
    consumerPc,      \* where the consumer thread is
    held,            \* the position the consumer popped last
    consumed,        \* its local count
    consumerResult,  \* what consume_queued_frames returned
    counters,        \* the atomic counters of TelemetryMetrics
    statistics,      \* the plain fields of TelemetryMetrics
    delivered,       \* the positions processed, in order
    exitCode,        \* Running, 0 or 1
    report,          \* the snapshot the printed report shows
    faults           \* exceptions thrown so far

mainVars == <<position, mainPc, ingestionSucceeded, exitCode, report>>
bufferVars == <<buffer, closed>>
consumerVars == <<consumerPc, held, consumed, consumerResult>>
processVars == <<statistics, delivered>>
vars == <<inputs, mainVars, bufferVars, consumerVars, counters, processVars,
          faults>>

-----------------------------------------------------------------------------
(* Data.                                                                    *)

\* The atomic counters of TelemetryMetrics (telemetry_metrics.hpp:68-77).
Counters ==
    [inputs_received : Nat,
     frames_accepted : Nat,
     frames_rejected : Nat,
     queue_closed_rejections : Nat,
     parse_errors : [ParseErrors -> Nat]]

NoCounters ==
    [inputs_received |-> 0,
     frames_accepted |-> 0,
     frames_rejected |-> 0,
     queue_closed_rejections |-> 0,
     parse_errors |-> [error \in ParseErrors |-> 0]]

\* TelemetryMetrics::record_input and record_accepted.
RecordInput(count) == [count EXCEPT !.inputs_received = @ + 1]
CountAccepted(count) == [count EXCEPT !.frames_accepted = @ + 1]

\* Mutant: a rejection is not added to the total.
RecordParseErrorOnly(count, error) ==
    [count EXCEPT !.parse_errors[error] = @ + 1]

\* TelemetryMetrics::record_parse_rejected.
RecordParseRejected(count, error) ==
    [count EXCEPT !.frames_rejected = @ + 1, !.parse_errors[error] = @ + 1]

\* TelemetryMetrics::record_queue_closed.
RecordQueueClosed(count) ==
    [count EXCEPT !.frames_rejected = @ + 1,
                  !.queue_closed_rejections = @ + 1]

\* TelemetryMetrics::snapshot.
Snapshot == [counters |-> counters, statistics |-> statistics]
NoReport == [counters |-> NoCounters, statistics |-> NoStatistics]

WellFormed(raw) == raw.error = "none"

\* The exit code of a program that has not exited.
Running == -1

Init ==
    /\ inputs \in InputStreams
    /\ position = 1
    /\ mainPc = "start"
    /\ ingestionSucceeded = TRUE
    /\ buffer = <<>> /\ closed = FALSE
    /\ consumerPc = "absent"
    /\ held = 0
    /\ consumed = 0
    /\ consumerResult = [success |-> FALSE, frames_consumed |-> 0]
    /\ counters = NoCounters
    /\ statistics = NoStatistics
    /\ delivered = <<>>
    /\ exitCode = Running
    /\ report = NoReport
    /\ faults = 0

-----------------------------------------------------------------------------
(* main.                                                                    *)

\* Construct the buffer, the metrics and the consumer's jthread.
StartConsumer ==
    /\ mainPc = "start"
    /\ mainPc' = "ingest"
    /\ consumerPc' = "pop"
    /\ UNCHANGED <<inputs, position, ingestionSucceeded, exitCode, report,
                   bufferVars, held, consumed, consumerResult, counters,
                   processVars, faults>>

\* FrameIngestor::ingest up to the push, of a frame that does not parse.
IngestRejects ==
    /\ mainPc = "ingest"
    /\ position <= Len(inputs)
    /\ ~WellFormed(inputs[position])
    /\ counters' =
           RecordParseRejected(RecordInput(counters), inputs[position].error)
    /\ position' = position + 1
    /\ UNCHANGED <<inputs, mainPc, ingestionSucceeded, exitCode, report,
                   bufferVars, consumerVars, processVars, faults>>

\* Mutant: the frame is queued without looking at the parse result.
IngestParsesAnything ==
    /\ mainPc = "ingest"
    /\ position <= Len(inputs)
    /\ counters' = RecordInput(counters)
    /\ mainPc' = "push"
    /\ UNCHANGED <<inputs, position, ingestionSucceeded, exitCode, report,
                   bufferVars, consumerVars, processVars, faults>>

\* The same of a well-formed frame: its bytes are copied and pushed next.
IngestParses ==
    /\ mainPc = "ingest"
    /\ position <= Len(inputs)
    /\ WellFormed(inputs[position])
    /\ counters' = RecordInput(counters)
    /\ mainPc' = "push"
    /\ UNCHANGED <<inputs, position, ingestionSucceeded, exitCode, report,
                   bufferVars, consumerVars, processVars, faults>>

\* Mutant: the buffer grows instead of blocking the push.
PushGrowsBuffer ==
    /\ mainPc = "push"
    /\ ~closed
    /\ buffer' = Append(buffer, position)
    /\ mainPc' = "record_accepted"
    /\ UNCHANGED <<inputs, position, ingestionSucceeded, exitCode, report,
                   closed, consumerVars, counters, processVars, faults>>

\* push waits for a slot in the open buffer.
PushSucceeds ==
    /\ mainPc = "push"
    /\ ~closed
    /\ Len(buffer) < Capacity
    /\ buffer' = Append(buffer, position)
    /\ mainPc' = "record_accepted"
    /\ UNCHANGED <<inputs, position, ingestionSucceeded, exitCode, report,
                   closed, consumerVars, counters, processVars, faults>>

\* Only after the push is the frame counted as accepted.
RecordAccepted ==
    /\ mainPc = "record_accepted"
    /\ counters' = CountAccepted(counters)
    /\ position' = position + 1
    /\ mainPc' = "ingest"
    /\ UNCHANGED <<inputs, ingestionSucceeded, exitCode, report, bufferVars,
                   consumerVars, processVars, faults>>

\* push on a closed buffer returns false: the loop is left.
PushFindsClosed ==
    /\ mainPc = "push"
    /\ closed
    /\ counters' = RecordQueueClosed(counters)
    /\ ingestionSucceeded' = FALSE
    /\ mainPc' = "close"
    /\ UNCHANGED <<inputs, position, exitCode, report, bufferVars,
                   consumerVars, processVars, faults>>

IngestEnds ==
    /\ mainPc = "ingest"
    /\ position > Len(inputs)
    /\ mainPc' = "close"
    /\ UNCHANGED <<inputs, position, ingestionSucceeded, exitCode, report,
                   bufferVars, consumerVars, counters, processVars, faults>>

CloseBuffer ==
    /\ mainPc = "close"
    /\ closed' = TRUE
    /\ mainPc' = "join"
    /\ UNCHANGED <<inputs, position, ingestionSucceeded, exitCode, report,
                   buffer, consumerVars, counters, processVars, faults>>

\* Mutant: main goes on without waiting for the consumer.
DetachConsumer ==
    /\ mainPc = "join"
    /\ mainPc' = "check"
    /\ UNCHANGED <<inputs, position, ingestionSucceeded, exitCode, report,
                   bufferVars, consumerVars, counters, processVars, faults>>

JoinConsumer ==
    /\ mainPc = "join"
    /\ consumerPc = "returned"
    /\ mainPc' = "check"
    /\ UNCHANGED <<inputs, position, ingestionSucceeded, exitCode, report,
                   bufferVars, consumerVars, counters, processVars, faults>>

\* Mutant: only the counts are compared.
CountsAgree == consumerResult.frames_consumed = counters.frames_accepted

\* The operational check between the snapshot and the report.
Operational ==
    /\ ingestionSucceeded
    /\ consumerResult.success
    /\ consumerResult.frames_consumed = counters.frames_accepted

\* "pipeline failed operationally": return 1.
CheckFails ==
    /\ mainPc = "check"
    /\ ~Operational
    /\ exitCode' = 1
    /\ mainPc' = "exited"
    /\ UNCHANGED <<inputs, position, ingestionSucceeded, report, bufferVars,
                   consumerVars, counters, processVars, faults>>

\* Print the report of the snapshot and return 0.
PrintReport ==
    /\ mainPc = "check"
    /\ Operational
    /\ report' = Snapshot
    /\ exitCode' = 0
    /\ mainPc' = "exited"
    /\ UNCHANGED <<inputs, position, ingestionSucceeded, bufferVars,
                   consumerVars, counters, processVars, faults>>

\* Mutant: the handler joins a consumer that still waits for frames.
UnwindWithoutClosing ==
    /\ mainPc = "unwind_close"
    /\ mainPc' = "unwind_join"
    /\ UNCHANGED <<inputs, position, ingestionSucceeded, exitCode, report,
                   bufferVars, consumerVars, counters, processVars, faults>>

\* The inner catch: close, join and rethrow to the outer one, return 1.
UnwindCloses ==
    /\ mainPc = "unwind_close"
    /\ closed' = TRUE
    /\ mainPc' = "unwind_join"
    /\ UNCHANGED <<inputs, position, ingestionSucceeded, exitCode, report,
                   buffer, consumerVars, counters, processVars, faults>>

UnwindJoins ==
    /\ mainPc = "unwind_join"
    /\ consumerPc = "returned"
    /\ exitCode' = 1
    /\ mainPc' = "exited"
    /\ UNCHANGED <<inputs, position, ingestionSucceeded, report, bufferVars,
                   consumerVars, counters, processVars, faults>>

\* What is left when closing or joining has thrown: the destructor of the
\* consumer's jthread joins (its stop request reaches nobody), and the outer
\* catch returns 1.
DestroyConsumer ==
    /\ mainPc = "destroy"
    /\ consumerPc = "returned"
    /\ exitCode' = 1
    /\ mainPc' = "exited"
    /\ UNCHANGED <<inputs, position, ingestionSucceeded, report, bufferVars,
                   consumerVars, counters, processVars, faults>>

Main ==
    \/ StartConsumer
    \/ IngestRejects
    \/ IngestParses
    \/ PushSucceeds
    \/ RecordAccepted
    \/ PushFindsClosed
    \/ IngestEnds
    \/ CloseBuffer
    \/ JoinConsumer
    \/ CheckFails
    \/ PrintReport
    \/ UnwindCloses
    \/ UnwindJoins
    \/ DestroyConsumer

-----------------------------------------------------------------------------
(* The consumer thread: consume_queued_frames.                              *)

ConsumerPops ==
    /\ consumerPc = "pop"
    /\ buffer # <<>>
    /\ held' = Head(buffer)
    /\ buffer' = Tail(buffer)
    /\ consumerPc' = "process"
    /\ UNCHANGED <<inputs, mainVars, closed, consumed, consumerResult,
                   counters, processVars, faults>>

\* The frame is deserialized again; it is processed, or ends the consumer.
ConsumerProcesses ==
    /\ consumerPc = "process"
    /\ IF WellFormed(inputs[held])
       THEN /\ statistics' = RecordProcessed(statistics, inputs[held].frame)
            /\ delivered' = Append(delivered, held)
            /\ consumed' = consumed + 1
            /\ consumerPc' = "pop"
            /\ UNCHANGED consumerResult
       ELSE /\ consumerResult' =
                   [success |-> FALSE, frames_consumed |-> consumed]
            /\ consumerPc' = "returned"
            /\ UNCHANGED <<processVars, consumed>>
    /\ UNCHANGED <<inputs, mainVars, bufferVars, held, counters, faults>>

\* Mutant: a closed buffer ends the consumer before it is drained.
ConsumerStopsWhenClosed ==
    /\ consumerPc = "pop"
    /\ closed
    /\ consumerResult' = [success |-> TRUE, frames_consumed |-> consumed]
    /\ consumerPc' = "returned"
    /\ UNCHANGED <<inputs, mainVars, bufferVars, held, consumed, counters,
                   processVars, faults>>

\* pop returned no value: closed and drained.
ConsumerFinishes ==
    /\ consumerPc = "pop"
    /\ buffer = <<>>
    /\ closed
    /\ consumerResult' = [success |-> TRUE, frames_consumed |-> consumed]
    /\ consumerPc' = "returned"
    /\ UNCHANGED <<inputs, mainVars, bufferVars, held, consumed, counters,
                   processVars, faults>>

Consumer == ConsumerPops \/ ConsumerProcesses \/ ConsumerFinishes

-----------------------------------------------------------------------------
(* Exceptions and the outside world.                                        *)

Throw == faults < MaxFaults /\ faults' = faults + 1

\* The buffer or the jthread cannot be constructed, or printing fails: the
\* outer catch returns 1.
MainThrows ==
    /\ mainPc = "start" \/ (mainPc = "check" /\ Operational)
    /\ Throw
    /\ exitCode' = 1
    /\ mainPc' = "exited"
    /\ UNCHANGED <<inputs, position, ingestionSucceeded, report, bufferVars,
                   consumerVars, counters, processVars>>

\* Generating the inputs, or copying and pushing the bytes of one, throws.
IngestThrows ==
    /\ (mainPc = "ingest" /\ position = 1) \/ mainPc = "push"
    /\ Throw
    /\ mainPc' = "unwind_close"
    /\ UNCHANGED <<inputs, position, ingestionSucceeded, exitCode, report,
                   bufferVars, consumerVars, counters, processVars>>

\* Closing the buffer throws before it is closed, or joining throws, after the
\* loop or in the inner catch.
CloseOrJoinThrows ==
    /\ mainPc \in {"close", "join", "unwind_close", "unwind_join"}
    /\ Throw
    /\ mainPc' = "destroy"
    /\ UNCHANGED <<inputs, position, ingestionSucceeded, exitCode, report,
                   bufferVars, consumerVars, counters, processVars>>

\* pop throws: the consumer returns false and leaves the buffer open.
ConsumerThrows ==
    /\ consumerPc = "pop"
    /\ Throw
    /\ consumerResult' = [success |-> FALSE, frames_consumed |-> consumed]
    /\ consumerPc' = "returned"
    /\ UNCHANGED <<inputs, mainVars, bufferVars, held, consumed, counters,
                   processVars>>

\* Another owner of the buffer closes it while frames are ingested.
BufferClosedEarly ==
    /\ EarlyClose
    /\ mainPc \in {"ingest", "push", "record_accepted"}
    /\ ~closed
    /\ closed' = TRUE
    /\ UNCHANGED <<inputs, mainVars, buffer, consumerVars, counters,
                   processVars, faults>>

Environment ==
    \/ MainThrows
    \/ IngestThrows
    \/ CloseOrJoinThrows
    \/ ConsumerThrows
    \/ BufferClosedEarly

Exited ==
    /\ mainPc = "exited"
    /\ UNCHANGED vars

Next == Main \/ Consumer \/ Environment \/ Exited

\* The operating system runs every thread that can run.  An exception is
\* never owed.
Fairness == WF_vars(Main) /\ WF_vars(Consumer)

Spec == Init /\ [][Next]_vars /\ Fairness

-----------------------------------------------------------------------------
(* What a sequential run over the same inputs would report.                 *)

\* The statistics when the first inputs are processed one after the other.
SequentialStatistics(stream, count) ==
    LET process(raw) ==
            [stats \in Statistics |->
                IF WellFormed(raw) THEN RecordProcessed(stats, raw.frame)
                ELSE stats]
    IN  Iterate([p \in DOMAIN stream |-> process(stream[p])], NoStatistics,
                count)

NumberOf(stream, error) ==
    Cardinality({p \in DOMAIN stream : stream[p].error = error})

SequentialReport(stream) ==
    LET accepted == NumberOf(stream, "none")
    IN  [counters |->
             [inputs_received |-> Len(stream),
              frames_accepted |-> accepted,
              frames_rejected |-> Len(stream) - accepted,
              queue_closed_rejections |-> 0,
              parse_errors |->
                  [error \in ParseErrors |-> NumberOf(stream, error)]],
         statistics |-> SequentialStatistics(stream, Len(stream))]

-----------------------------------------------------------------------------
(* Properties.                                                              *)

MainStates ==
    {"start", "ingest", "push", "record_accepted", "close", "join", "check",
     "unwind_close", "unwind_join", "destroy", "exited"}

\* Every variable has its type and the buffer keeps its capacity.
TypeOK ==
    /\ inputs \in InputStreams
    /\ position \in 1..(Len(inputs) + 1)
    /\ mainPc \in MainStates
    /\ ingestionSucceeded \in BOOLEAN /\ closed \in BOOLEAN
    /\ buffer \in Seq(1..Len(inputs)) /\ Len(buffer) <= Capacity
    /\ consumerPc \in {"absent", "pop", "process", "returned"}
    /\ held \in 0..Len(inputs)
    /\ consumed \in Nat
    /\ consumerResult \in [success : BOOLEAN, frames_consumed : Nat]
    /\ counters \in Counters
    /\ statistics \in Statistics
    /\ delivered \in Seq(1..Len(inputs))
    /\ exitCode \in {Running, 0, 1}
    /\ faults \in 0..MaxFaults

\* What is processed, popped and queued is, in order, exactly the well-
\* formed frames ingested so far: whatever the interleaving and whoever
\* fails, no frame is lost, duplicated or reordered between ingest and
\* consumer, and no malformed one is queued.
Held == IF consumerPc = "process" THEN <<held>> ELSE <<>>
Pipeline == delivered \o Held \o buffer
Pushed ==
    {p \in 1..(IF mainPc = "record_accepted" THEN position ELSE position - 1) :
        WellFormed(inputs[p])}
NothingIsLost ==
    /\ {Pipeline[k] : k \in DOMAIN Pipeline} = Pushed
    /\ \A j, k \in DOMAIN Pipeline : j < k => Pipeline[j] < Pipeline[k]

\* The counters agree with one another although they are bumped one by one:
\* an input is accepted, rejected or the one in hand, which an exception may
\* leave unaccounted; the rejections are the malformed inputs, each under its
\* error, and the closed queue; and what was pushed is processed, popped or
\* queued, so frames_processed may lead frames_accepted by the one frame that
\* is pushed and not yet counted.
InHand ==
    counters.inputs_received
        - (counters.frames_accepted + counters.frames_rejected)
InputsAccounted ==
    /\ InHand \in {0, 1}
    /\ mainPc \in {"push", "record_accepted"} => InHand = 1
    /\ mainPc \in {"start", "ingest", "close", "join", "check"} => InHand = 0

Passed(error) == {p \in 1..(position - 1) : inputs[p].error = error}
Malformed == {p \in 1..(position - 1) : ~WellFormed(inputs[p])}
RejectionsAccounted ==
    /\ \A error \in ParseErrors :
           counters.parse_errors[error] = Cardinality(Passed(error))
    /\ counters.frames_rejected =
           Cardinality(Malformed) + counters.queue_closed_rejections

FramesAccounted ==
    /\ counters.frames_accepted + Count(mainPc = "record_accepted") =
           statistics.frames_processed + Len(Held) + Len(buffer)
    /\ consumed = statistics.frames_processed

Accounting == InputsAccounted /\ RejectionsAccounted /\ FramesAccounted

\* A run that returns 0 reports what a sequential program would have: all
\* counters and statistics, independently of the interleaving, of faults
\* and of who closed the buffer.
ReportIsSequential == exitCode = 0 => report = SequentialReport(inputs)

\* main never returns while the consumer still uses its locals, on no path
\* through the exception handlers.
ConsumerIsJoined ==
    mainPc = "exited" => consumerPc \in {"absent", "returned"}

\* Once main has joined, nothing writes the plain fields it reads without
\* synchronisation.
SnapshotIsFinal ==
    [][(mainPc \in {"check", "exited"}) =>
           UNCHANGED <<counters, statistics>>]_vars

\* When nothing throws and nobody but main closes the buffer, main returns 0:
\* whatever the order of the two threads, the consumer drains every accepted
\* frame, neither waits for the other for ever, and the operational check
\* finds the counts equal.
Undisturbed ==
    faults = 0 /\ (closed => mainPc \in {"join", "check", "exited"})
EventuallyReports == []Undisturbed => <>(exitCode = 0)

\* Whatever throws and whoever closes the buffer, main exits.  The only
\* exceptions are to wait for ever for a slot in the full buffer of a consumer
\* that has failed, or, when closing the buffer throws, in the destructor of a
\* consumer that waits for frames.
Starved ==
    /\ mainPc = "push" /\ ~closed /\ Len(buffer) = Capacity
    /\ consumerPc = "returned" /\ ~consumerResult.success
NeverClosed ==
    /\ mainPc = "destroy" /\ ~closed
    /\ consumerPc = "pop" /\ buffer = <<>>
ExitsOrStarves == <>(mainPc = "exited") \/ <>[](Starved \/ NeverClosed)

\* docs/HOST_PIPELINE.md:92-93 "Uma alocação ou falha de sincronização
\* excepcional é tratada como falha operacional": a failed consumer makes
\* main return 1.
FailureIsReported ==
    (consumerPc = "returned" /\ ~consumerResult.success) ~> (exitCode = 1)

\* The host implements the abstract stream: its sink is the processor, it
\* wants the well-formed inputs, and its outcome is the exit code.
Stream == INSTANCE TelemetryStream WITH
    wanted <- {p \in DOMAIN inputs : WellFormed(inputs[p])},
    delivered <- delivered,
    outcome <- CASE exitCode = 0 -> "success"
                 [] exitCode = 1 -> "failure"
                 [] OTHER -> "open"
ImplementsStream == Stream!Spec
=============================================================================
