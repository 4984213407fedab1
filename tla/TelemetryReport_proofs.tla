------------------------ MODULE TelemetryReport_proofs ------------------------
(****************************************************************************)
(* The averages of the report are exact for every width of the types, as    *)
(* long as the frames are as few as LimitsAssumption says: 2^32 of them     *)
(* with the widths of the program.                                          *)
(****************************************************************************)
EXTENDS TelemetryReport, TLAPS

-----------------------------------------------------------------------------
(* Arithmetic.                                                              *)

\* A number in the range of a modulus is its own remainder.
LEMMA SmallRemainder ==
    ASSUME NEW m \in Nat \ {0}, NEW n \in 0..(m - 1)
    PROVE  n % m = n
OBVIOUS

\* Quotient and remainder.
LEMMA Division ==
    ASSUME NEW n \in Int, NEW count \in Nat \ {0}
    PROVE  /\ n \div count \in Int
           /\ n % count \in 0..(count - 1)
           /\ n = (n \div count) * count + (n % count)
OBVIOUS

\* A multiple leaves no remainder.
LEMMA Multiple ==
    ASSUME NEW q \in Int, NEW count \in Nat \ {0}
    PROVE  (q * count) % count = 0
<1> DEFINE d == (q * count) \div count
           r == (q * count) % count
<1>1. q * count \in Int
  OBVIOUS
<1>2. /\ d \in Int /\ r \in 0..(count - 1)
      /\ q * count = d * count + r
  BY <1>1, Division
<1>3. r = (q - d) * count
  BY <1>2
<1>4. CASE q - d >= 1
  BY <1>2, <1>3, <1>4
<1>5. CASE q - d <= -1
  BY <1>2, <1>3, <1>5
<1>6. CASE q = d
  BY <1>2, <1>3, <1>6
<1> QED
  BY <1>2, <1>4, <1>5, <1>6

\* Divisibility does not depend on the sign.
LEMMA NegatedRemainder ==
    ASSUME NEW n \in Int, NEW count \in Nat \ {0}, n % count = 0
    PROVE  (-n) % count = 0
<1>1. n = (n \div count) * count /\ n \div count \in Int
  BY Division
<1>2. -n = (-(n \div count)) * count
  BY <1>1
<1> QED
  BY <1>1, <1>2, Multiple

\* Fewer frames, a smaller bound on the sum.
LEMMA Monotone ==
    ASSUME NEW k \in Nat, NEW n \in Nat, k <= n, NEW limit \in Nat
    PROVE  k * limit <= n * limit
<1>1. (n - k) * limit >= 0
  OBVIOUS
<1>2. n * limit = k * limit + (n - k) * limit
  OBVIOUS
<1> QED
  BY <1>1, <1>2

-----------------------------------------------------------------------------
(* The sums.                                                                *)

\* The true sums are bounded by the number of frames, and the sums of the
\* code are the true ones.
Bounded ==
    /\ frames \in 0..MaxFrames
    /\ temperatures \in Int /\ supplies \in Int
    /\ -(frames * TemperatureLimit) <= temperatures
    /\ temperatures <= frames * TemperatureLimit - frames
    /\ 0 <= supplies
    /\ supplies <= frames * SupplyLimit - frames
    /\ temperatureSum = temperatures
    /\ supplySum = supplies

\* A sum of at most MaxFrames temperatures fits its type.
LEMMA TemperatureFits ==
    ASSUME NEW k \in 0..MaxFrames, NEW sum \in Int,
           -(k * TemperatureLimit) <= sum, sum <= k * TemperatureLimit - k
    PROVE  sum \in Signed(SumLimit)
<1>1. k * TemperatureLimit <= MaxFrames * TemperatureLimit
  BY Monotone, LimitsAssumption
<1>2. k * TemperatureLimit <= SumLimit /\ k * TemperatureLimit \in Nat
  BY <1>1, LimitsAssumption
<1>3. k = 0 => k * TemperatureLimit = 0
  BY LimitsAssumption
<1> QED
  BY <1>2, <1>3, LimitsAssumption DEF Signed

\* The same of the supply voltages.
LEMMA SupplyFits ==
    ASSUME NEW k \in 0..MaxFrames, NEW sum \in Int,
           0 <= sum, sum <= k * SupplyLimit - k
    PROVE  sum \in Unsigned(2 * SumLimit)
<1>1. k * SupplyLimit <= MaxFrames * SupplyLimit
  BY Monotone, LimitsAssumption
<1>2. k * SupplyLimit <= 2 * SumLimit /\ k * SupplyLimit \in Nat
  BY <1>1, LimitsAssumption
<1>3. k = 0 => k * SupplyLimit = 0
  BY LimitsAssumption
<1> QED
  BY <1>2, <1>3, LimitsAssumption DEF Unsigned

\* What fits the signed type has one outcome.
LEMMA SignedKeeps ==
    ASSUME NEW n \in Signed(SumLimit)
    PROVE  SignedOutcomes(n, SumLimit) = {n}
BY DEF SignedOutcomes

\* What fits the unsigned type does not wrap.
LEMMA UnsignedKeeps ==
    ASSUME NEW n \in Unsigned(2 * SumLimit) PROVE ToUnsigned(n) = n
BY SmallRemainder, LimitsAssumption DEF ToUnsigned, Unsigned

\* One more frame.
LEMMA ProcessKeepsBounded ==
    ASSUME Bounded, Process PROVE Bounded'
<1>1. PICK temperature \in Signed(TemperatureLimit),
           supply \in Unsigned(SupplyLimit) :
               RecordProcessed(temperature, supply)
  BY DEF Process
<1> DEFINE k == frames + 1
           newTemperatures == temperatures + temperature
           newSupplies == supplies + supply
<1>2. k \in 0..MaxFrames
  BY LimitsAssumption DEF Process, Bounded
<1>3. k * TemperatureLimit = frames * TemperatureLimit + TemperatureLimit
  BY LimitsAssumption DEF Bounded
<1>4. k * SupplyLimit = frames * SupplyLimit + SupplyLimit
  BY LimitsAssumption DEF Bounded
<1>5. /\ newTemperatures \in Int
      /\ -(k * TemperatureLimit) <= newTemperatures
      /\ newTemperatures <= k * TemperatureLimit - k
  BY <1>3, LimitsAssumption DEF Bounded, Signed
<1>6. /\ newSupplies \in Int
      /\ 0 <= newSupplies
      /\ newSupplies <= k * SupplyLimit - k
  BY <1>4, LimitsAssumption DEF Bounded, Unsigned
<1>7. temperatureSum' = newTemperatures
  <2>1. newTemperatures \in Signed(SumLimit)
    BY <1>2, <1>5, TemperatureFits
  <2>2. temperatureSum' \in SignedOutcomes(newTemperatures, SumLimit)
    BY <1>1 DEF RecordProcessed, Bounded
  <2> QED
    BY <2>1, <2>2, SignedKeeps
<1>8. supplySum' = newSupplies
  <2>1. newSupplies \in Unsigned(2 * SumLimit)
    BY <1>2, <1>6, SupplyFits
  <2>2. supplySum' = ToUnsigned(newSupplies)
    BY <1>1 DEF RecordProcessed, Bounded
  <2> QED
    BY <2>1, <2>2, UnsignedKeeps
<1>9. /\ frames' = k
      /\ temperatures' = newTemperatures
      /\ supplies' = newSupplies
  BY <1>1 DEF RecordProcessed
<1> QED
  BY <1>2, <1>5, <1>6, <1>7, <1>8, <1>9 DEF Bounded

\* The sums never exceed what their number of samples admits.
LEMMA BoundedAlways == Spec => []Bounded
<1>1. Init => Bounded
  BY LimitsAssumption DEF Init, Bounded
<1>2. Bounded /\ [Next]_vars => Bounded'
  <2> SUFFICES ASSUME Bounded, [Next]_vars PROVE Bounded'
    OBVIOUS
  <2>1. CASE MakeTextReport \/ UNCHANGED vars
    BY <2>1 DEF MakeTextReport, vars, Bounded
  <2> QED
    BY <2>1, ProcessKeepsBounded DEF Next
<1> QED
  BY <1>1, <1>2, PTL DEF Spec

\* Within those bounds, both sums fit their types.
LEMMA BoundedFits ==
    ASSUME Bounded
    PROVE  /\ temperatures \in Signed(SumLimit)
           /\ supplies \in Unsigned(2 * SumLimit)
BY TemperatureFits, SupplyFits DEF Bounded

\* The 64-bit sums of record_processed neither overflow nor wrap
\* (telemetry_metrics.cpp:96-119).
THEOREM SumsExact == Spec => []SumsAreExact
<1>1. Bounded => SumsAreExact
  BY BoundedFits DEF Bounded, SumsAreExact
<1> QED
  BY <1>1, BoundedAlways, PTL

-----------------------------------------------------------------------------
(* The averages.                                                            *)

\* The text made of a magnitude and a sign is the exact average.
LEMMA QuotientReads ==
    ASSUME NEW negative \in BOOLEAN, NEW magnitude \in Nat,
           NEW count \in Nat \ {0}, NEW sum \in Int,
           negative <=> sum < 0,
           sum = IF negative THEN -magnitude ELSE magnitude
    PROVE  Reads(Quotient(negative, magnitude, count), sum, count)
<1> DEFINE average == Quotient(negative, magnitude, count)
           q == magnitude \div count
<1>1. /\ q \in Int
      /\ magnitude % count \in 0..(count - 1)
      /\ magnitude = q * count + (magnitude % count)
  BY Division
<1>2. sum % count = 0 <=> magnitude % count = 0
  <2>1. CASE negative
    <3>1. sum = -magnitude /\ magnitude = -sum
      BY <2>1
    <3>2. sum % count = 0 => (-sum) % count = 0
      BY NegatedRemainder
    <3>3. magnitude % count = 0 => (-magnitude) % count = 0
      <4>1. magnitude \in Int
        OBVIOUS
      <4> QED
        BY <4>1, NegatedRemainder
    <3> QED
      BY <3>1, <3>2, <3>3
  <2>2. CASE ~negative
    BY <2>2
  <2> QED
    BY <2>1, <2>2
<1>3. CASE magnitude % count = 0
  <2>1. /\ average.text = "whole"
        /\ average.negative = negative
        /\ average.number = q
        /\ average.over = 1
    BY <1>3 DEF Quotient
  <2>2. magnitude = q * count /\ q \in Int
    BY <1>1, <1>3
  <2>3. q >= 0
    <3>1. q < 0 => q * count < 0
      BY <2>2
    <3> QED
      BY <3>1, <2>2
  <2>4. (-q) * count = -(q * count)
    BY <2>2
  <2>5. (IF negative THEN -q ELSE q) * count = sum * 1
    BY <2>2, <2>4
  <2> QED
    BY <1>2, <1>3, <2>1, <2>3, <2>5 DEF Reads
<1>4. CASE magnitude % count # 0
  <2>1. /\ average.text = "fraction"
        /\ average.negative = negative
        /\ average.number = magnitude
        /\ average.over = count
    BY <1>4 DEF Quotient
  <2>2. (IF negative THEN -magnitude ELSE magnitude) * count = sum * count
    OBVIOUS
  <2> QED
    BY <1>2, <1>4, <2>1, <2>2 DEF Reads
<1> QED
  BY <1>3, <1>4

\* A sum that is not negative is its own magnitude.
LEMMA PositiveReads ==
    ASSUME NEW sum \in Nat, NEW count \in Nat \ {0}
    PROVE  Reads(Quotient(FALSE, sum, count), sum, count)
<1>1. FALSE <=> sum < 0
  OBVIOUS
<1>2. sum = IF FALSE THEN -sum ELSE sum
  OBVIOUS
<1>3. FALSE \in BOOLEAN /\ sum \in Int
  OBVIOUS
<1> QED
  BY <1>1, <1>2, <1>3, QuotientReads

\* The magnitude of every sum of the type, the smallest one included: its one
\* outcome, as no intermediate leaves its type.
LEMMA MagnitudeIsExact ==
    ASSUME NEW sum \in Signed(SumLimit)
    PROVE  Magnitudes(sum) = {IF sum < 0 THEN -sum ELSE sum}
<1>1. sum \in Int /\ -SumLimit <= sum /\ sum < SumLimit
      /\ SumLimit \in Nat \ {0}
  BY LimitsAssumption DEF Signed
<1>2. CASE sum < 0
  <2>1. sum + 1 \in Signed(SumLimit) /\ -(sum + 1) \in Signed(SumLimit)
    BY <1>1, <1>2 DEF Signed
  <2> DEFINE next == sum + 1
             negated == -next
             outcomes == UNION {SignedOutcomes(-n, SumLimit) :
                                   n \in SignedOutcomes(next, SumLimit)}
  <2>2. SignedOutcomes(next, SumLimit) = {next}
    BY <2>1, SignedKeeps
  <2>3. SignedOutcomes(negated, SumLimit) = {negated}
    BY <2>1, SignedKeeps
  <2>4. outcomes = {negated}
    <3> HIDE DEF next
    <3> QED
      BY <2>2, <2>3
  <2>5. ToUnsigned(ToUnsigned(negated) + 1) = -sum
    <3>1. /\ negated \in Unsigned(2 * SumLimit)
          /\ negated + 1 \in Unsigned(2 * SumLimit)
          /\ negated + 1 = -sum
      BY <1>1, <1>2 DEF Unsigned
    <3> QED
      BY <3>1, UnsignedKeeps
  <2>6. Magnitudes(sum) = {ToUnsigned(ToUnsigned(n) + 1) : n \in outcomes}
    BY <1>2 DEF Magnitudes
  <2> HIDE DEF outcomes, negated
  <2> QED
    BY <1>2, <2>4, <2>5, <2>6
<1>3. CASE ~(sum < 0)
  <2>1. sum \in Unsigned(2 * SumLimit)
    BY <1>1, <1>3 DEF Unsigned
  <2> QED
    BY <1>3, <2>1, UnsignedKeeps DEF Magnitudes
<1> QED
  BY <1>2, <1>3

\* Whatever text is returned for a sum of the type reads as its average.
LEMMA SignedAverageReads ==
    ASSUME NEW sum \in Signed(SumLimit), NEW count \in Nat,
           NEW average \in FormatSignedAverage(sum, count)
    PROVE  Reads(average, sum, count)
<1>1. CASE count = 0
  BY <1>1 DEF FormatSignedAverage, NotAvailable, Reads
<1>2. CASE count # 0
  <2> DEFINE magnitude == IF sum < 0 THEN -sum ELSE sum
             negative == sum < 0
  <2>1. /\ sum \in Int /\ magnitude \in Nat /\ negative \in BOOLEAN
        /\ negative <=> sum < 0
        /\ sum = IF negative THEN -magnitude ELSE magnitude
        /\ count \in Nat \ {0}
    BY <1>2, LimitsAssumption DEF Signed
  <2>2. average = Quotient(negative, magnitude, count)
    <3>1. Magnitudes(sum) = {magnitude}
      BY MagnitudeIsExact
    <3>2. average \in {Quotient(negative, m, count) : m \in Magnitudes(sum)}
      BY <1>2 DEF FormatSignedAverage
    <3> HIDE DEF magnitude, negative
    <3> QED
      BY <3>1, <3>2
  <2> HIDE DEF magnitude, negative
  <2>3. Reads(Quotient(negative, magnitude, count), sum, count)
    BY <2>1, QuotientReads
  <2> QED
    BY <2>2, <2>3
<1> QED
  BY <1>1, <1>2

\* The average of a sum that has no sign.
LEMMA UnsignedAverageReads ==
    ASSUME NEW sum \in Nat, NEW count \in Nat
    PROVE  Reads(FormatUnsignedAverage(sum, count), sum, count)
<1>1. CASE count = 0
  BY <1>1 DEF FormatUnsignedAverage, NotAvailable, Reads
<1>2. CASE count # 0
  <2>1. FormatUnsignedAverage(sum, count) = Quotient(FALSE, sum, count)
    BY <1>2 DEF FormatUnsignedAverage
  <2>2. Reads(Quotient(FALSE, sum, count), sum, count)
    BY <1>2, PositiveReads
  <2> QED
    BY <2>1, <2>2
<1> QED
  BY <1>1, <1>2

\* The report shows the exact averages of the frames processed, whatever an
\* overflow would do (telemetry_report.cpp:20-54), for the widths of the program and for every
\* other that LimitsAssumption admits.
THEOREM AveragesExact == Spec => []AveragesAreExact
<1>1. Init => AveragesAreExact
  BY DEF Init, AveragesAreExact
<1>2. Bounded /\ AveragesAreExact /\ [Next]_vars => AveragesAreExact'
  <2> SUFFICES ASSUME Bounded, AveragesAreExact, [Next]_vars
               PROVE  AveragesAreExact'
    OBVIOUS
  <2>1. CASE Process
    BY <2>1 DEF Process, AveragesAreExact
  <2>2. CASE MakeTextReport
    <3>0. PICK average \in FormatSignedAverage(temperatureSum, frames) :
              report' =
                  <<[temperature |-> average,
                     supply |-> FormatUnsignedAverage(supplySum, frames)]>>
      BY <2>2 DEF MakeTextReport
    <3> DEFINE printed ==
            [temperature |-> average,
             supply |-> FormatUnsignedAverage(supplySum, frames)]
    <3>1. Reads(printed.temperature, temperatures, frames)
      BY BoundedFits, SignedAverageReads DEF Bounded
    <3>2. Reads(printed.supply, supplies, frames)
      BY UnsignedAverageReads DEF Bounded
    <3>3. /\ report' = <<printed>>
          /\ UNCHANGED <<frames, temperatures, supplies>>
      BY <2>2, <3>0 DEF MakeTextReport
    <3>4. report'[1] = printed
      BY <3>3
    <3> HIDE DEF printed
    <3>5. /\ Reads(report'[1].temperature, temperatures, frames)
          /\ Reads(report'[1].supply, supplies, frames)
      BY <3>1, <3>2, <3>4
    <3>6. temperatures' = temperatures /\ supplies' = supplies
          /\ frames' = frames
      BY <3>3
    <3> QED
      BY <3>5, <3>6 DEF AveragesAreExact, Reads
  <2>3. CASE UNCHANGED vars
    BY <2>3 DEF vars, AveragesAreExact, Reads
  <2> QED
    BY <2>1, <2>2, <2>3 DEF Next
<1> QED
  BY <1>1, <1>2, BoundedAlways, PTL DEF Spec
=============================================================================
