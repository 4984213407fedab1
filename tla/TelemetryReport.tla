--------------------------- MODULE TelemetryReport ---------------------------
(****************************************************************************)
(* The averages of the text report (host/src/telemetry_report.cpp) over the *)
(* fixed-width sums of host/src/telemetry_metrics.cpp: temperatures are     *)
(* int32_t summed in an int64_t, supply voltages uint16_t summed in a       *)
(* uint64_t.  TLC uses the same code with narrower types, in the proportion *)
(* that lets the smallest sum of all be reached.                            *)
(****************************************************************************)
EXTENDS Integers

CONSTANTS
    TemperatureLimit,  \* 2^31: a temperature is in -2^31..(2^31 - 1)
    SupplyLimit,       \* 2^16: a supply voltage is in 0..(2^16 - 1)
    SumLimit,          \* 2^63: sums are in -2^63..(2^63 - 1), 0..(2^64 - 1)
    MaxFrames          \* bound on the frames processed: 2^32

ASSUME LimitsAssumption ==
    /\ TemperatureLimit \in Nat \ {0} /\ SupplyLimit \in Nat \ {0}
    /\ SumLimit \in Nat \ {0} /\ MaxFrames \in Nat
    /\ MaxFrames * TemperatureLimit <= SumLimit
    /\ MaxFrames * SupplyLimit <= 2 * SumLimit

VARIABLES
    frames,           \* frames_processed
    temperatureSum,   \* temperature_sum_millicelsius_
    supplySum,        \* supply_sum_millivolts_
    temperatures,     \* the true sum of the temperatures processed
    supplies,         \* the true sum of the supply voltages
    report            \* what the report prints for the two averages

vars == <<frames, temperatureSum, supplySum, temperatures, supplies, report>>

Signed(limit) == (-limit)..(limit - 1)
Unsigned(limit) == 0..(limit - 1)

\* static_cast to uint64_t.
ToUnsigned(n) == n % (2 * SumLimit)

\* What an addition or a negation may leave in a signed integer: its result,
\* or anything at all when it does not fit, which is undefined behaviour.
SignedOutcomes(n, limit) == IF n \in Signed(limit) THEN {n} ELSE Signed(limit)

-----------------------------------------------------------------------------
(* The formatted text, by its parts: a whole number, or a sum over a count. *)

NotAvailable == [text |-> "N/A", negative |-> FALSE, number |-> 0, over |-> 1]

Quotient(negative, magnitude, count) ==
    IF magnitude % count = 0
    THEN [text |-> "whole", negative |-> negative,
          number |-> magnitude \div count, over |-> 1]
    ELSE [text |-> "fraction", negative |-> negative,
          number |-> magnitude, over |-> count]

\* Mutant: the sum itself is negated, which the smallest one does not admit.
MagnitudesOfNegation(sum) ==
    IF sum < 0
    THEN {ToUnsigned(negated) : negated \in SignedOutcomes(-sum, SumLimit)}
    ELSE {ToUnsigned(sum)}

\* static_cast<uint64_t>(-(sum + 1)) + 1U, or the sum.
Magnitudes(sum) ==
    IF sum < 0
    THEN {ToUnsigned(ToUnsigned(negated) + 1) :
              negated \in UNION {SignedOutcomes(-next, SumLimit) :
                                     next \in SignedOutcomes(sum + 1, SumLimit)}}
    ELSE {ToUnsigned(sum)}

\* format_signed_average: the texts it may return.
FormatSignedAverage(sum, count) ==
    IF count = 0
    THEN {NotAvailable}
    ELSE {Quotient(sum < 0, magnitude, count) : magnitude \in Magnitudes(sum)}

\* format_unsigned_average.
FormatUnsignedAverage(sum, count) ==
    IF count = 0 THEN NotAvailable ELSE Quotient(FALSE, sum, count)

-----------------------------------------------------------------------------
Init ==
    /\ frames = 0
    /\ temperatureSum = 0 /\ supplySum = 0
    /\ temperatures = 0 /\ supplies = 0
    /\ report = <<>>

\* Mutant: the sum is kept in the type of a sample.
RecordProcessedNarrow(temperature, supply) ==
    /\ frames' = frames + 1
    /\ temperatureSum' \in
           SignedOutcomes(temperatureSum + temperature, TemperatureLimit)
    /\ supplySum' = ToUnsigned(supplySum + supply)
    /\ temperatures' = temperatures + temperature
    /\ supplies' = supplies + supply

\* The part of record_processed that sums.
RecordProcessed(temperature, supply) ==
    /\ frames' = frames + 1
    /\ temperatureSum' \in SignedOutcomes(temperatureSum + temperature, SumLimit)
    /\ supplySum' = ToUnsigned(supplySum + supply)
    /\ temperatures' = temperatures + temperature
    /\ supplies' = supplies + supply

Process ==
    /\ report = <<>>
    /\ frames < MaxFrames
    /\ \E temperature \in Signed(TemperatureLimit),
          supply \in Unsigned(SupplyLimit) :
           RecordProcessed(temperature, supply)
    /\ UNCHANGED report

\* main prints the report of the final snapshot.
MakeTextReport ==
    /\ report = <<>>
    /\ \E average \in FormatSignedAverage(temperatureSum, frames) :
           report' =
               <<[temperature |-> average,
                  supply |-> FormatUnsignedAverage(supplySum, frames)]>>
    /\ UNCHANGED <<frames, temperatureSum, supplySum, temperatures, supplies>>

Next == Process \/ MakeTextReport

Spec == Init /\ [][Next]_vars

-----------------------------------------------------------------------------
(* Properties.                                                              *)

\* The sums stay what their types hold, and what they are meant to be: in
\* MaxFrames frames no addition to the int64_t overflows, though its smallest
\* value is reached, and no addition to the uint64_t wraps
\* (telemetry_metrics.cpp:104-119).
SumsAreExact ==
    /\ temperatureSum \in Signed(SumLimit)
    /\ supplySum \in Unsigned(2 * SumLimit)
    /\ temperatureSum = temperatures /\ supplySum = supplies

\* number/over is sum/count, with a minus sign exactly when the sum is
\* negative (there is no -0), and a fraction only where the average is none.
Reads(average, sum, count) ==
    IF count = 0
    THEN average.text = "N/A"
    ELSE /\ (IF average.negative THEN -average.number ELSE average.number)
                * count = sum * average.over
         /\ average.number >= 0
         /\ average.negative <=> sum < 0
         /\ average.text = "fraction" <=> sum % count # 0

\* What is printed is the exact average of the frames processed, for every
\* stream up to the smallest sum and for every outcome of an overflow: so
\* the magnitude is computed without one, and the division neither truncates
\* nor divides by zero (telemetry_report.cpp:20-54).
AveragesAreExact ==
    report # <<>> =>
        /\ Reads(report[1].temperature, temperatures, frames)
        /\ Reads(report[1].supply, supplies, frames)
=============================================================================
