# Formal models of the embedded telemetry lab

TLA+ models of the firmware, of the host pipeline, of the protocol between
them and of the scripts that judge their output, with the TLC configurations
that check them on small instances and TLAPS proofs of the properties that
matter most. `PROJECT.json` lists every run, mutant, hazard and theorem and maps
each definition to the lines of source it stands for.

    tlc -config MCFirmware.cfg TelemetryFirmware.tla
    tlapm TelemetryFirmware_proofs.tla

## 1. The system

Two programs share one protocol library; scripts run them and judge what they
print.

| Component | Keeps | Operations |
|---|---|---|
| Sensor model (`firmware/src/deterministic_sensor_model.cpp`) | the index of the next of eight samples in a table | `has_next`, `next` |
| Producer thread (`telemetry_producer.cpp`) | the item it is pushing, its result | sample, serialize, push; one end marker at the end |
| Transmitter thread (`telemetry_transmitter.cpp`) | the item it popped, its count, its result | pop, print a `TLFRAME` line, stop at the end marker |
| Queue (`telemetry_queue.cpp`) | one static `k_msgq` of four items | constructor (purges), `push`, `pop`, `used_count` |
| Hex formatter (`hex_formatter.cpp`) | nothing | `format`: two characters for each byte of a frame |
| Firmware metrics (`firmware_metrics.cpp`) | eight plain counters | one `record_` per counter, `snapshot` |
| Firmware `main` (`main.cpp`) | two semaphores, two contexts | create both threads, join both, validate, print `SUMMARY` and `DONE`, or `ERROR` |
| Protocol (`protocol/src`) | nothing | `serialize`, `deserialize`, `calculate_crc32` |
| Frame source (`host/src/simulated_frame_source.cpp`) | nothing | fifteen raw frames, eight of them well-formed |
| Ingestor (`frame_ingestor.cpp`) | its place in the inputs | parse, count, push or reject |
| Bounded buffer (external `SafeConcurrentBuffer`) | up to three frames, open or closed | blocking `push`, blocking `pop`, `close` |
| Consumer (`telemetry_processor.cpp`) | a local count, its result | pop, parse again, record |
| Host metrics (`telemetry_metrics.cpp`) | atomic counters, plain statistics | `record_*`, `snapshot` |
| Host `main` and report (`host/src/main.cpp`, `telemetry_report.cpp`) | the consumer's `jthread` | ingest, close, join, check, print |
| Validators (`telemetry_validation.py`, `run-firmware-demo.sh`, `run-renode-validation.sh`, the Robot suite) | the captured console | accept or refuse it |
| Release scripts (`run-release-validation.sh`, `present-release-validation.sh`) | build directories, outputs and reports below `/tmp` | build, run stages, write reports; judge and display them |

How they interact:

- in the firmware, producer → `k_msgq` → transmitter → console. `main` shares
  plain memory (counters, results) with both threads, and is ordered after them
  only by the two semaphores;
- on the host, `main`'s ingest loop → buffer → consumer. They share the atomic
  counters and, without any synchronisation but the join, the plain statistics;
- the two programs never exchange bytes: they share the protocol code, and the
  console of the firmware is compared with the expected one by the validators;
- a sample goes through the serializer, the formatter and `printk` to a serial
  line, and the Python validator decodes what arrives with a second
  implementation of the protocol and constants of its own;
- the release scripts, the demo scripts and a developer use the same build
  directories, and the presenter reads files that a run may be writing.

What is hard, and hard to test, in this code:

- *firmware*: the transmitter has the higher priority and can run inside the
  producer's push; the stream ends with an in-band marker that must arrive;
  `main` reads counters nobody locks; every `TelemetryQueue` object is a handle
  on the same static queue and constructing one purges it;
- *host*: frames become visible to the consumer before they are counted as
  accepted; closing must drain, not cut; two levels of exception handlers must
  each leave a joined consumer; a consumer that fails leaves a full buffer;
- *statistics*: gaps, duplicates and late frames over long streams; optional
  fields; signed and unsigned sums at the limits of their widths;
- *protocol*: several checks fail at once and one error is reported; bit
  layout, byte order and sign; what the checksum does not see;
- *release scripts*: builds, outputs and reports of earlier runs, failed or
  interrupted ones too, lie in the directories a later run and the presenter
  use;
- *validators*: the emulation is cut off at a fixed moment, perhaps in the
  middle of a line, or the serial line spoils it, and three programs in three
  languages judge the same text.

What makes each component correct:

- queue and threads: nothing lost, duplicated, reordered; always ends; a
  `SUMMARY` is never printed for an incomplete console;
- host pipeline: the report equals a sequential program's; the consumer is
  always joined; every failure is an exit code of 1 and nothing hangs;
- statistics: what is computed one frame at a time is true of the whole stream;
- protocol: what was sent is what is received, and a damaged frame is refused
  with the documented error;
- validators: accepted exactly when complete, and what is accepted is the
  sensor model's data bit for bit;
- release scripts: what is approved was earned by one run, and what is displayed
  is that run's.

## 2. Modules

| Module | Models | Used by |
|---|---|---|
| `TelemetryStream` | what any of the two pipelines promises (abstract) | refined by `TelemetryFirmware`, `TelemetryHost` |
| `TelemetryFirmware` | both threads, the queue, the metrics and `main` | `FirmwareCapture` |
| `FirmwareCapture` | the console cut off, torn or faulted, and its three judges | |
| `Iteration` | a counted loop, in the form proofs can use | `Crc32`, `FrameValidation`, `TelemetryMetrics`, `TelemetryHost` |
| `Crc32` | the CRC-32, bit by bit on sets of bit positions | `TelemetryProtocol` |
| `TelemetryProtocol` | serializer and deserializer | `DeterministicSensorModel`, `ProtocolLink` |
| `ChecksumDistance` | what a wrong byte makes of the CRC's register, and one fact about it | `Operators_proofs`, `MCFirmwareConsole` |
| `ProtocolLink` | a frame through a channel that damages it | |
| `DeterministicSensorModel` | the table of samples and the frame of every index | `FirmwareConsole` |
| `HexFormatter` | the characters of a frame | `FirmwareConsole` |
| `FrameValidation` | what `telemetry_validation.py` checks of a frame line, its own CRC included | `FirmwareConsole`, `ProtocolLink` |
| `FirmwareConsole` | a sample's way from the sensor model to the validator over a serial line that garbles and loses | |
| `TelemetryStatistics` | `record_processed` and the snapshot, as operators | `TelemetryMetrics`, `TelemetryHost` |
| `TelemetryMetrics` | the statistics alone over any stream of frames | |
| `SimulatedFrameSource` | the fifteen inputs of the demo | `TelemetryHost` |
| `TelemetryHost` | ingest loop, buffer, consumer, closing, joining, exceptions | |
| `TelemetryReport` | the fixed-width sums and the averages printed from them | |
| `ReleaseValidation` | runs of the release scripts, the builds and reports they leave, the presenter | |
| `Operators_proofs` | lemmas on numbers, loops, the statistics' operators, the protocol's, the formatter's and the validator's, and the protocol's theorems | the proofs of the host, the metrics, the link and the console |
| other `*_proofs` | theorems and their proofs, see section 4 | |
| `MC*` | constants too large for a `.cfg`, and what the documents say of the demo, as assumptions TLC evaluates | |

### Firmware

One action is what a thread does between two points at which another thread can
observe it: every kernel call, every counter that is shared and every line on
the console is a step of its own, so `k_msgq_put` returning and
`record_frame_enqueued` are two steps between which the transmitter can print.
The result of a thread and its semaphore are set in the order of
`producer_thread_entry` and `transmitter_thread_entry`. A frame is the number of
its sample, because every other field is a function of that number:
`DeterministicSensorModel` is that function.

`k_msgq` is Zephyr's and is modelled from the calls the firmware makes: `put`
and `get` with `K_FOREVER`, `purge`, `num_used`. A put that finds a waiting getter
hands over, a get on a full queue admits the waiting putter's item, a purge
empties the buffer and wakes a waiting thread with an error. `PutHandsOver` asks
for room in the queue as the kernel does.

The program constructs one `TelemetryQueue`, before the threads run.
`ConstructAnotherQueue` constructs further ones at any later moment: it is the
only way in which a push or a pop can fail, and so the only way into the error
paths the program has. `MaxPurges` bounds it, 0 in the program. A failed push
returns without an end marker, and the transmitter may then pend for ever:
`EndsOrHangs` says that nothing but such an orphaned thread keeps `main` from
its verdict.

### Host

`mainPc` and `consumerPc` follow the two threads. The buffer holds positions in
the input rather than bytes, so order and identity are visible. The external
buffer is modelled from its use and from `docs/HOST_PIPELINE.md`: `push` blocks on
a full open buffer and returns `false` on a closed one, `pop` drains and then
returns no value. Exceptions are actions of the environment at the points where
the code can throw: construction, generating, copying and pushing, closing,
joining, printing (`main`), and the consumer's `pop`. `MaxFaults` bounds them.
When closing or joining throws, the handler in `main` is reached only through
the destructor of the `jthread`, which waits for the consumer again
(`DestroyConsumer`); if the buffer was not closed, the consumer never ends.

`BufferClosedEarly` stands for another owner of the buffer: `FrameIngestor`
handles a closed buffer, and only this can produce one while frames are
ingested.

`NothingIsLost` and `Accounting` are stated over sets of positions and their
order, not over folds of the inputs: every input passed is in exactly one of
the sets a counter counts. That is the form in which they can be proved.

### Statistics and report

`TelemetryStatistics` has `RecordProcessed` as an operator from statistics and a
frame to statistics, used by `TelemetryHost` at the consumer's step and by
`TelemetryMetrics` as its only operation. Sequences are naturals: the code
compares before it subtracts, so that no wrap can happen within 32 bits. The
widths that could matter are those of the sums, and `TelemetryReport` has them
as constants: `TemperatureLimit` is 2^31, `SupplyLimit` 2^16, `SumLimit` 2^63 and
`MaxFrames` 2^32 in the program. Signed arithmetic that leaves its type is
undefined in C++: `SignedOutcomes` lets it be any value of the type, in the sums
and in the negation of an average, so a text is exact only if no intermediate
value leaves the type. `MaxFrames` is an assumption: nothing in the code stops a
stream at 2^32 frames.

### Protocol

Words are sets of bit positions, so that bytes, byte order, sign bits and the
CRC are what they are in the code and TLC can change single bits. The CRC is
the code's two loops, over the bytes and over the eight shift-and-xor turns of
each, written with `Iterate`, about which one can prove. The Python validator
computes the checksum with constants and loops of its own, and so does
`FrameValidation`; that the two are the same function is a lemma (`SameCrc`).
`ProtocolLink` gives what it received to the deserializer and to the Python
validator.

### Console: characters

`FirmwareConsole` follows one sample from the table to the validator: the sensor
model makes the frame, the serializer its bytes, the formatter their
characters, and `PrintFrame` the line with its four-digit index. Then the serial
line may spoil what was printed: `GarbleCharacter` and `GarbleIndex` replace a
character, `LoseCharacter` and `LoseLine` remove one, `MaxFaults` times in all.
`ValidateFrames` has the Python validator's checks in their order. A number is
written with the width of the field it goes to (`BitsOf`), and an index with four
digits as `%04u` and the validator's `04d` do (`FourDigits`). The lines that are
not frames, and what is cut off or interleaved with a fault, are in
`FirmwareCapture`.

### Console: lines

A capture is a prefix of the console with its last line perhaps torn. A line is
its leading words, the numbers it carries and how much of it was written. What a
check selects is the lines at a set of positions (`LinesAt`), the set being where
the lines are that pass its test. Each
check of `telemetry_validation.py` is an operator. Three programs judge a
capture: `ValidateCapture` is the Python validator with the monitor's log,
`RobotAccepts` the Robot suite, whose setup waits for the banner and for `DONE`
and whose seven test cases are the seven checks without the monitor's log, and
`DemoAccepts` the awk program of `run-firmware-demo.sh`.

### Release scripts

`runner` is the command `run-release-validation.sh` is at. `set -e` and an
interruption are one action, `Stop`, enabled at every command, while a command
that compares something goes on only if the comparison succeeds. Outputs are
overwritten before they are judged, as in the script. The report carries, as an
auxiliary record, what its run has really built and seen.

The sources can be edited at any moment (`MaxEdits`), and `BuildByHand` is
anybody's call of a build or demo script outside the run: the directories are
shared.

The presenter is a process of its own. `JudgeReport` and `JudgeFrames` decide,
`ShowResults` and `ShowFrames` read the same files a second time, after the
pauses of the script, and `Refuse` is `set -e` or an interruption. A run may
start, go on or stop between any two of them.

## 3. What is checked

| Run | Instance | Distinct states | Shows |
|---|---|---|---|
| `firmware` | the program's 8 samples and 4 slots, up to 2 purges at any moments, any schedule | 25 416 | without a purge nothing is lost and the summary is successful; a summary is truthful whatever was destroyed; `main` ends unless a thread is orphaned; refines `TelemetryStream` |
| `firmware_priority` | 24 samples, the real priorities | 157 | one frame at a time; no deadlock; strict priorities imply the fairness assumed |
| `metrics` | streams of up to 5 of 6 frames | 9 331 | incremental statistics against the whole history |
| `host_faults` | the demo's 15 inputs and streams of up to 4 of 4 frames, buffer of 2, 2 faults anywhere, early close | 84 112 | order, accounting, join, sequential report, exit unless a failed consumer starves `main` or the buffer is never closed, 0 when undisturbed; refines `TelemetryStream` |
| `host_consumer_fails` | one fault in the consumer | (violation) | see section 6 |
| `protocol_damage` | 4 frames at the limits, 3 damages or new checksums | 1 244 | the documented error is the one reported; both implementations accept the same |
| `protocol_flips` | every one or two wrong bits of a frame's 272 | 74 261 | none is accepted |
| `console` | the eight lines, 11 places of a frame, 3 characters, 2 faults | 67 154 | the undamaged console is the documented one, character by character; accepted lines are the sensor model's frames bit for bit |
| `capture` | 3 samples, 2 slots, 1 purge, faults | 11 898 | three validators accept the complete output and nothing else |
| `report` | types of 3, 2 and 6 bits, 8 frames | 9 306 | sums never overflow, averages exact although an overflow could give any value |
| `release` | 3 runs, 1 edit, builds by hand, stops and presentations at any moment | 1 305 743 | approvals are earned, frames shown at rest are the approved run's |
| `release_race` | 2 runs, 1 edit | (violation) | see section 6 |

Every property has a mutant in `PROJECT.json`: a plausible bug of the code, as
an operator next to the one it replaces, with which TLC finds the property
violated under the same configuration.

Two assumptions of `MC` modules hold the models against what the documents
print, and TLC evaluates them in every run of these modules:
`ReportIsDocumented` computes the report of the demo's fifteen inputs
(`docs/HOST_PIPELINE.md:130-140`), and `ExampleIsDocumented` the checksum of the
protocol's example frame. `OutputIsDocumented` is an invariant of `console`: the
eight lines of an undisturbed serial line are the documented output
(`README.md:210-217`). Serializer and deserializer, or serializer and validator,
can agree on a wrong byte order; this property and `ExampleIsDocumented` are what
sees it, the first also in the five fields that the Python validator never reads.

### Bounds, and why they are enough

- *Samples and slots.* The firmware is checked at the program's own size, where
  the queue can be full, empty and anything between, and the stream is twice as
  long. Positions in the stream are only compared, never computed with, so
  longer streams add no new comparison; the theorems cover every length and
  capacity.
- *Purges.* Two purges can hit a waiting getter and a waiting putter, in either
  order, or remove frames and the end marker of one run.
- *Streams of up to five frames.* A gap, its late frame, a duplicate of the
  newest and a second late frame fit. The sequences 0, 1, 2, 3, 5 have a
  distance of one and of more.
- *Two faults of the host.* It has two threads that can fail, and an exception
  while another is handled is the most the code distinguishes.
- *Four raw frames, buffer of two.* The buffer fills with a frame in the
  consumer's hand and one in main's; the demo's inputs fill it many times over.
- *Two wrong bits.* A CRC-32 detects every error of one, two and three bits at
  this length; two is what can be enumerated.
- *Eleven places, three characters, two faults of the serial line.* The places
  are in every field of a frame, the first and the last character among them;
  the characters are a digit, a capital and a small letter, which the
  validator's pattern refuses. Two
  faults can undo each other's length or hit a field and its checksum. The
  theorem has all 68 places and any characters.
- *Three runs, one edit.* One run to leave an approved report, one to overwrite
  its outputs, one to approve again; sources of two versions, in build
  directories that anybody refreshes.
- *Narrow types.* In the program 2^32 temperatures of -2^31 sum to -2^63, the
  smallest value of the type; eight of -4 sum to -32, the smallest of a
  six-bit type. The same ratio makes the boundary reachable.

`CHECK_DEADLOCK FALSE` is set only where the system may really stop: a purge that
took the end marker (`firmware`), a failed consumer (`host_faults`,
`host_consumer_fails`), and models that end with a result (`metrics`,
`protocol_*`, `report`, `capture`, `console`).

### Fairness

*Firmware.* Weak fairness of each of the three threads: a thread that can run is
eventually scheduled. The kernel schedules by fixed priority, under which that
is not obvious: `PrioritySpec` runs the highest ready thread and nothing else,
and the property `PriorityIsFair` checks that it implements the fair
specification. It holds because every thread that is ahead of another soon
waits; the mutant in which the transmitter polls shows that it would not hold
otherwise. Constructing another queue is never owed.

*Host.* Weak fairness of the two threads, which is what an operating system
grants. Exceptions and the early close are never owed. The blocking calls have
no timeouts in the code and none in the model.

The other modules state no liveness and assume no fairness: a capture may be
cut at any moment, and a run of the scripts may be interrupted at any command.

### Refinement

`TelemetryStream` says what a pipeline promises whatever it is made of: wanted
items reach the sink at most once and in source order, a success is concluded
only when all have arrived, and nothing follows the conclusion. `TelemetryFirmware`
implements it with the console as its sink and the printed verdict as the
outcome; `TelemetryHost` with the processor as the sink, the well-formed inputs
as the wanted items and the exit code as the outcome. Both are model-checked
and both are proved.

## 4. What is proved

TLAPS checks these for every value of the constants, from the named assumptions
on the constants only: lengths and bounds are naturals, capacities are positive
(`SampleCountAssumption` and the like), the host's inputs are sequences of raw
frames (`InputStreamsAssumption`), the frames of the statistics have numbers in
their fields (`FramesAssumption`), those of the link are frames of the protocol
(its own `FramesAssumption`) and its flipped bits are bits of a frame
(`FlippedBitsAssumption`), an absent optional is no number
(`NoValueAssumption`) the limits of the report's widths fit one another
(`LimitsAssumption`), and what a fault of the serial line may hit is a place of a
frame's 68 characters (`PlacesAssumption`).

Three theorems (`TwoWrongBytesAreRefused` and, through the lemma they share,
`TwoFaultsAreSeen` and `AcceptedIsModel`) use one assumption that is no choice of
a constant but a number fact: `ChecksumDistance!WrongBytesStayApart`. It says of
each of the 255 ways in which a byte can be wrong, and of each of the 30 distances
from there to the end of the body, that the register's wrong bits are not all in
one of its four bytes. It has no parameters, so the 7 650 values that TLC computes
whenever it checks `console` are all there are; evaluating the polynomial is TLC's
work and not the prover's.

| Theorem | States |
|---|---|
| `TelemetryFirmware_proofs!TypeCorrect` | `Spec => []TypeOK` |
| `...!DeliveryOrderHolds` | `Spec => []DeliveryOrder` |
| `...!SummaryTruthful` | `Spec => []SummaryIsTruthful` |
| `...!SnapshotFinal` | `Spec => SnapshotIsFinal` (an action property) |
| `...!QueueNeverDeadlocks` | `Spec => []NotBothPended` |
| `...!FirmwareIsAStream` | `Spec => ImplementsStream` (the refinement) |
| `...!LeadsByOne` | `Spec => []TransmittedLeadsByOne` |
| `...!NobodyIsOrphaned` | `Spec => []NoOrphanWaits` |
| `...!NothingLost` | `Spec => []NothingIsLost` |
| `...!OneFrameInFlight` | `PrioritySpec => OneFrameAtATime` (an action property) |
| `...!AcceptedIsComplete` | `SpecCapture => []AcceptedMeansComplete` |
| `...!CompleteAlwaysAccepted` | `SpecCapture => []CompleteIsAccepted` |
| `FirmwareConsole_proofs!UndamagedAlwaysAccepted` | `Spec => []UndamagedIsAccepted` |
| `...!AcceptedIsModel` | `Spec => []AcceptedIsTheModel`, for at most two faults |
| `TelemetryHost_proofs!ConsumerJoined` | `Spec => []ConsumerIsJoined` |
| `...!SnapshotFinal` | `Spec => SnapshotIsFinal` (an action property) |
| `...!TypeCorrect` | `Spec => []TypeOK` |
| `...!NothingLost` | `Spec => []NothingIsLost` |
| `...!CountersAgree` | `Spec => []Accounting` |
| `...!ReportSequential` | `Spec => []ReportIsSequential` |
| `...!HostIsAStream` | `Spec => ImplementsStream` (the refinement) |
| `TelemetryMetrics_proofs!TypeCorrect` | `Spec => []TypeOK` |
| `...!LedgerBalances` | `Spec => []SequenceLedger` |
| `...!RangeExact` | `Spec => []RangeIsExact` |
| `...!MissingBounded` | `Spec => []MissingIsBounded` |
| `...!MeasurementsExact` | `Spec => []MeasurementsAreExact` |
| `Operators_proofs!RoundTrip` | `deserialize` inverts `serialize`, for every frame |
| `...!ImplementationsAgree` | the deserializer and the Python validator accept the same byte strings, of any length |
| `...!OneWrongByteIsRefused` | a frame with any one byte replaced is refused |
| `...!TwoWrongBytesAreRefused` | a frame with any two bytes replaced is refused |
| `ProtocolLink_proofs!AcceptedCanonical` | `Spec => []AcceptedIsCanonical` |
| `...!ValidatorsAlwaysAgree` | `Spec => []ValidatorsAgree` |
| `...!FirstDamageReported` | `Spec => []FirstDamageIsReported`, if no bit is flipped |
| `...!TwoFaultsAreSeen` | `Spec => []ReceivedIsSent`, for at most two faults, or one and new checksums |
| `TelemetryReport_proofs!SumsExact` | `Spec => []SumsAreExact` |
| `...!AveragesExact` | `Spec => []AveragesAreExact` |
| `ReleaseValidation_proofs!ApprovalEarned` | `Spec => []ApprovalIsEarned` |
| `...!FramesOfTheReport` | `Spec => FramesAreOfTheReport` (an action property) |

The arguments:

- **`SummaryTruthful`** is about any number of purges, so it cannot rest on
  nothing being lost. A verdict looks at counters, which know how many frames
  were printed, not which. `DeliveryOrder` is the strengthening: the items on the
  console, in the transmitter's hand, in the queue and in the producer's hand
  have strictly increasing positions, whatever is missing between them, and the
  transmitter's counter counts the lines. Line `k` therefore shows a frame that is
  at least `k` and leaves room for the lines after it; with `SampleCount` lines
  below `SampleCount + 1` every line `k` shows frame `k`. TLC checks `DeliveryOrder`
  in `firmware`.
- **`FirmwareIsAStream`** adds `Unconcluded` (before it exits, `main` has said
  nothing) to `DeliveryOrder`: a printed line is later than the last one, and
  the step that prints a verdict is the stream's conclusion.
- **`LeadsByOne`** rests on `Counted`: the item the producer is putting is the
  next one after those it has counted (`PutsTheNext`), and what is in the queue
  or beyond was counted or is that item (`OnlyEnqueued`). This holds purged or
  not, since a purge removes items and adds none.
- **`NobodyIsOrphaned`** and **`NothingLost`** rest on `Consecutive`: without a
  purge no push or pop has failed (`NoFailure`), the transmitter takes items in
  the order of their numbers (`TakenInTurn`), and the buffer holds the numbers
  that follow without a gap (`BufferFollows`). A producer that has returned has
  thus left its end marker ahead of the transmitter.
- **`SnapshotFinal`** of the firmware needs that `main` is past a join only when
  the thread it joined has finished: a semaphore is given once, after the last
  write. `Joined` says so for both threads.
- **`QueueNeverDeadlocks`**: a waiting producer means a full queue, a waiting
  transmitter an empty one, and the capacity is positive.
- **`OneFrameInFlight`** rests on `InStep`: under the real priorities the buffer
  stays empty and no put ever waits. When the producer puts, the transmitter waits
  in `k_msgq_get` and the counters and the console agree on every frame before
  (`Settled`). The put hands its item over (`HandedOver`), and the producer, which
  is the lower of the two, comes back only when the transmitter waits again.
- **`AcceptedIsComplete`** needs of the capture only `CaptureShape`: it is one of the
  cuts of the console, as long or torn as the emulation left it. What the prover
  cannot do is filter a sequence, so the checks select by positions: in a cut of
  the console the frame lines, the summary and the marker of the end are intervals
  (`LinesAtInterval`), and a judge that has counted them all has seen the last. A
  summary is then the firmware's own, and `SummaryTruthful` says what it means.
  **`CompleteAlwaysAccepted`** computes the same intervals of the whole console.
- **`UndamagedAlwaysAccepted`**: every field of the table is a word of its width
  (`SamplesTyped`, `FrameTyped`), so `RoundTrip`'s lemmas apply to the eight frames;
  the formatter's characters are those of the pattern (`FormatIsHexadecimal`), the
  validator decodes the bytes that were formatted (`FromHexOfFormat`), and the
  sequence it reads there is the one it expects. `Undamaged` says that the console
  holds what was printed until the first fault.
- **`AcceptedIsModel`** rests on `LittleDamage`: as long as there are eight lines of
  68 characters, each is what was printed but for one character for each fault. A
  lost line or character is seen in the counts, for ever (`ConsoleTyped`: no fault
  adds any). Two characters are in at most two bytes (`BytesAgreeBut`), whatever
  the validator decodes from a character that is no digit, and the checksum sees
  two bytes.
- **`ConsumerJoined`** and **`SnapshotFinal`** of the host rest on `Joined`: where
  `main` is past a join, on the normal path or the exception's, the consumer has
  returned or was never started; before it starts there is none.
- **`NothingLost`** of the host is inductive together with the types, once
  `Located` says what the two threads hold: `main` a well-formed frame while it
  pushes, the consumer one of the positions, and the range of sequences two
  ends or none. Pushing appends the next well-formed position to the pipeline,
  popping and processing move along it, and every exception leaves it alone.
- **`CountersAgree`** follows the three equations of `Accounting` step by step:
  inputs passed, rejections by their reason, and frames from accepted to
  processed. Each step adds one position to one of the sets that are counted
  and one to that set's counter; the lemmas on cardinalities of the library say
  that both stay equal.
- **`HostIsAStream`** needs `Settled`: until `main` exits there is no outcome, it
  leaves the ingest loop with success only at the end of the inputs, and the
  consumer returns with success only from a closed and drained buffer. Then
  `NothingIsLost` and `Accounting` leave no well-formed input but the processed
  ones.
- **`LedgerBalances`** needs that the optional fields of the statistics are
  present exactly when a frame was processed (`OptionalsAgree`), then one lemma
  for each branch of the sequence policy (`Operators_proofs`, which the proofs
  of the host use as well).
- **`RangeExact`** and **`MissingBounded`** rest on `Ranged`: the two ends are
  those of the sequences seen. A frame before the last one takes at most one
  sequence from those never seen and counts as late, the newest again changes
  neither, and one beyond the range adds the gap to both sides of the
  inequality (`NeverSeenStep`).
- **Loops.** `Operators_proofs` proves that a set of numbers that holds 0 and,
  with every number, the next holds them all, from the library's theorem that the
  natural numbers are well-founded; the invariant of a loop goes into such a set.
  From it come the lemmas on `Iterate`: it is typed when its steps are
  (`StaysIn`), one more turn is one more step, and steps that keep two values
  apart keep them apart to the end (`IterateApart`).
- **`MeasurementsExact`**: the reference definition, a sum over the history, is a
  loop too, so that the lemma of one more turn relates it to one more frame
  (`Measured`).
- **`ReportSequential`** needs `Sequenced`, that the statistics are those of a
  sequential run up to the frame processed last, and `Received`, that `main` has
  counted the inputs before its position and met no closed buffer while the
  ingestion has not failed. When `main` reaches its report, `NothingIsLost`,
  `Accounting` and `Settled` say that the frames processed are all the well-formed
  inputs (`SnapshotIsSequential`).
- **`RoundTrip`**: `LaidOut` says which field is at which offset of a byte string.
  `BodyLaidOut` shows it of what the serializer appends, field after field, and
  `ReadBack` that reading a big-endian field returns the word written there.
  **`AcceptedCanonical`** is the converse: `WriteBack` says that writing what one
  has read changes nothing, the fields cover the thirty bytes without a gap
  (`LaidOutOnce`), and the checksum determines the rest. `Linked` says that the
  channel carries bytes, whatever it does to them.
- **`ImplementationsAgree`**: sixteen digits and four weights decode what the
  formatter encoded (`FromHexOfFormat`), byte by byte, and each of the
  validator's checks is one of the deserializer's (`SameChecks`), the length
  being the first one in both. The two CRCs agree turn by turn (`SameTurns`),
  hence byte by byte and on every string (`SameCrc`): the two polynomials
  have the same bits.
- **`OneWrongByteIsRefused`**: a turn of the CRC is injective, because the
  polynomial has bit 31, which no shifted word has: the turn can be undone
  (`NextBitInjective`). Two bodies that differ in one byte have the same
  remainder before it, a different one after it, and a different one from then on
  (`ChecksumSeesOneByte`); a wrong byte of the checksum itself is read as another
  word. No number is computed, so this holds of any polynomial with bit 31.
- **`TwoWrongBytesAreRefused`**: the CRC without its initial value and final
  complement is linear. A turn maps the difference of two registers to a
  difference (`NextBitLinear`), so the register's difference after two wrong bytes
  is that of the first one at its distance from the second, and the second one's
  own (`RegistersSpread`). Were they equal, the first one's would lie within one
  byte of the register, against `WrongBytesStayApart`; when the second wrong byte
  is of the checksum, the same fact at the end of the body says so
  (`ChecksumsDifferWidely`). Two wrong bytes of the checksum are read as another
  word.
- **`TwoFaultsAreSeen`** applies it to the channel. `Damaged` is inductive: a frame
  that has arrived is cut, or differs from the one sent in at most one byte for
  each fault (`WrongBytes`), whether a fault flips a bit, spoils a header byte or the
  checksum. Where the channel may compute new checksums the theorem allows one
  fault, because a damage with a new checksum over it is a frame like any other.
- **`FirstDamageReported`** rests on `Shown`: an error is recorded exactly when its
  check fails on the bytes. Each overwritten header byte fails its own check and
  no other (`SpoiledIsSeen`), a new checksum repairs nothing but the checksum, and
  while the header is intact the checksum is spoiled only where it matched, by one
  byte, which is the case of `ReplacedIsSeen`. A flipped bit is a damage without
  a name, which the property does not speak of; the run has none either.
- **`SumsExact`** rests on `Bounded`: a sum of `n` samples lies within `n` times
  the limit of a sample, and the assumption on the constants says that
  `MaxFrames` times the limit fits, so every addition has its one defined
  outcome (`SignedKeeps`). `AveragesExact` then follows the code's detour by
  `-(sum + 1)`: neither step leaves the type, and the only magnitude that comes
  out is that of the sum, the smallest value of the type included
  (`MagnitudeIsExact`).
- **`ApprovalEarned`** needs what the runner knows at every command: the outputs
  seen so far are those in the files and passed the comparisons behind it
  (`Seen`), with `--rebuild` and no edit every build it has made is of the
  sources it started with (`Fresh`), and a report with all its parts is of an
  earned run (`Kept`). `BuildByHand` keeps `Fresh`, because it builds
  the same sources. **`FramesOfTheReport`** adds `Stands`: while no run has
  started since the presenter judged, the report and the frames are the ones it
  judged.

## 5. What is only model-checked

- Liveness: `EventuallySummary`, `EndsOrHangs`, `EventuallyReports`,
  `ExitsOrStarves`, and `PriorityIsFair`, which has fairness on its right-hand
  side. These are out of this prover's reach.
- `OutputIsDocumented`, which is about particular characters. Every other property
  of a passing run is a theorem.
- `ReceivedIsSent` and `AcceptedIsTheModel` beyond two faults: neither proved nor
  checked. Three wrong bytes are a question to the polynomial again, of a
  thousand times the cases of `WrongBytesStayApart`.
- `WrongBytesStayApart` itself, which TLC evaluates for all there is (section 4).
- `ReportIsDocumented` and `ExampleIsDocumented` (section 3), which are about
  particular values.

## 6. Two divergences between documentation and code

**A failed consumer starves `main`.** `docs/HOST_PIPELINE.md:92` says that an
exceptional allocation or synchronisation failure is treated as an operational
failure. When the consumer's `pop` throws, `consume_queued_frames` returns failure
and leaves the buffer open (`telemetry_processor.cpp:61-66`). With more
well-formed frames to come than the buffer has slots, `main` then waits in `push`
for ever and never reaches the check that would return 1. `host_consumer_fails`
shows the trace; `ExitsOrStarves`, a property of `host_faults`, says that this and
a `close` that throws, after which the `jthread`'s destructor waits for a consumer
that nobody wakes, are the only ways in which `main` does not exit. Closing the buffer in the consumer's
handler would remove it.

**The frames displayed need not be the validated ones.** `docs/CI.md:124-125` says
that the presenter validates the controlled output checksum before displaying
frames. It computes the checksum at `present-release-validation.sh:71` and opens
the file again at line 123, after its pauses; a run that starts in between
overwrites it before judging it (`run-release-validation.sh:262-268`).
`release_race` shows it. `FramesAreOfTheReport`, checked in `release` and proved,
says that a run under way is the only way to it. Copying the file once and
judging and displaying the copy would remove it.

The models show two more limits of the scripts that no document denies. A run that
fails leaves the report of an earlier run, and the presenter still approves that
one: `ApprovalIsEarned` says that it was earned by *some* run, not by the last. And
a report does not say whether its run was given `--rebuild`; without it, the tests
and the ELF are those of the last build, whatever the sources are now.

## 7. What is not modelled

- *Portfolio validation, firmware demo presenter*: straight-line scripts that call
  the others and stop at the first failure. They keep nothing but the shared
  build directories, whose changes are `BuildByHand` of `ReleaseValidation`.
- *Robot runner script*: it calls the suite, which is `RobotAccepts`.
- *CI workflow, Renode platform, CMake, Kconfig*: declarations. The models rest on
  these of them: the priorities in `main.cpp`, a preemptive kernel on one CPU, and
  no exceptions in the firmware.
- *Tests*: read for intent and for the inputs that the models enumerate.
- *`SafeConcurrentBuffer` and `k_msgq`*: not in this repository; modelled from
  their use, and marked external in `PROJECT.json`.
- *Of the release scripts*: the static checks of stage 1, which read the tree and
  keep nothing, argument handling, and the JSON and the layout of the reports.
- *Of the host's report*: the lines that print a counter or an optional of the
  snapshot as it is.
- *Of the sensor model*: `remaining()`, which only tests call.
- *A join that throws inside the `jthread`'s destructor*, which ends the process by
  `std::terminate`.
- The atomic counters of the host are unbounded; 64 bits do not run out.

## 8. What is left

In the order of their worth:

1. The liveness of the two pipelines, as far as a step-by-step argument with
   explicit ranks would show it; at present TLC's is the only evidence.
2. Three wrong bytes of a frame: an argument that reduces the number of cases
   TLC would have to evaluate, as linearity does for two.
3. The validators' programs below the line: how text becomes lines, which
   `FirmwareCapture` takes from the documented form of each line.
