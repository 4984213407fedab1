----------------------- MODULE DeterministicSensorModel -----------------------
(****************************************************************************)
(* The eight frames of the firmware's sensor model, field by field as the   *)
(* words of Crc32 that the protocol writes (deterministic_sensor_model.cpp, *)
(* deterministic_sensor_model.hpp).  The model's only state is              *)
(* next_index_, which the modules that use it keep.                         *)
(****************************************************************************)
EXTENDS TelemetryProtocol

deterministic_sample_count == 8
initial_sequence == 1000
initial_timestamp_microseconds == 1000000
timestamp_increment_microseconds == 250000

\* The word that a number below 2^width makes.
BitsOf(number, width) ==
    LET shifted[bit \in 0..(width - 1)] ==
            IF bit = 0 THEN number ELSE shifted[bit - 1] \div 2
    IN  {bit \in 0..(width - 1) : shifted[bit] % 2 = 1}

\* The two's complement of a signed word: -n is the complement of n - 1.
SignedBits(n, width) ==
    IF n >= 0 THEN BitsOf(n, width)
    ELSE (0..(width - 1)) \ BitsOf(-n - 1, width)

\* The bits of StatusFlag.
SensorWarning == 0
VoltageWarning == 1
CommunicationWarning == 2
WatchdogEvent == 3

Sample(temperature, pressure, supply, flags) ==
    [temperature |-> SignedBits(temperature, 32),
     pressure |-> BitsOf(pressure, 32),
     supply |-> BitsOf(supply, 16),
     flags |-> flags]

samples ==
    <<Sample(-5500, 98500, 2900, {}),
      Sample(0, 100000, 3300, {SensorWarning}),
      Sample(12500, 100800, 3150, {VoltageWarning}),
      Sample(23000, 101325, 3300, {CommunicationWarning}),
      Sample(31500, 102100, 3250, {WatchdogEvent}),
      Sample(45000, 99500, 2800, {SensorWarning, VoltageWarning}),
      Sample(18500, 100500, 3000, {CommunicationWarning, WatchdogEvent}),
      Sample(27000, 101800, 3350, {})>>

\* DeterministicSensorModel::has_next.
HasNext(next_index) == next_index < Len(samples)

\* DeterministicSensorModel::next: the frame at next_index, which counts
\* from 0.
Frame(next_index) ==
    LET sample == samples[next_index + 1]
    IN  [version |-> SupportedVersion,
         message_type |-> SupportedMessageType,
         payload_size |-> TelemetryPayloadSize,
         sequence |-> BitsOf(initial_sequence + next_index, 32),
         timestamp |-> BitsOf(initial_timestamp_microseconds
                              + next_index * timestamp_increment_microseconds,
                             64),
         temperature |-> sample.temperature,
         pressure |-> sample.pressure,
         supply |-> sample.supply,
         flags |-> sample.flags]
=============================================================================
