-------------------------- MODULE Operators_proofs --------------------------
(****************************************************************************)
(* Lemmas about the operators that the models are built from, whatever      *)
(* their arguments: induction and the loop, for all that is computed turn   *)
(* by turn; record_processed, field by field; the serializer, the           *)
(* deserializer, the formatter and the validator, byte by byte; and what    *)
(* the checksum sees.                                                       *)
(****************************************************************************)
EXTENDS TelemetryStatistics, ChecksumDistance, HexFormatter, FrameValidation,
        SequenceTheorems, WellFoundedInduction, TLAPS

-----------------------------------------------------------------------------
(* Induction over the natural numbers, and the loop.                        *)

\* A nonempty set of natural numbers has a smallest element.
LEMMA Smallest ==
    ASSUME NEW T \in SUBSET Nat, T # {}
    PROVE  \E m \in T : \A k \in T : m <= k
<1> DEFINE less == OpToRel(<, Nat)
<1>1. IsWellFoundedOn(less, Nat)
  BY NatLessThanWellFounded
<1>2. \A x, y \in Nat : x < y => <<x, y>> \in less
  BY Zenon DEF OpToRel
<1> HIDE DEF less
<1>3. PICK x \in T : \A y \in T : ~(<<y, x>> \in less)
  BY <1>1, WFMin
<1>4. \A y \in T : ~(y < x)
  BY <1>2, <1>3
<1> QED BY <1>4

\* A set of natural numbers with 0 and the successor of each of its elements
\* has all of them: induction, for the set of the numbers with a property.
LEMMA Induction ==
    ASSUME NEW S \in SUBSET Nat, 0 \in S, \A n \in S : n + 1 \in S
    PROVE  S = Nat
<1> SUFFICES ASSUME S # Nat PROVE FALSE
  OBVIOUS
<1>1. PICK m \in Nat \ S : \A k \in Nat \ S : m <= k
  BY Smallest
<1>2. m - 1 \in Nat \ S
  BY <1>1
<1> QED BY <1>1, <1>2

\* The values a loop goes through: value is one solution of its recursion up
\* to the bound.
IsIteration(value, step, base, bound) ==
    /\ value[0] = base
    /\ \A n \in 1..bound : value[n] = step[n][value[n - 1]]

\* A loop that starts with a value of a set and whose steps stay there.
StaysIn(D, step, base, bound) ==
    /\ bound \in Nat
    /\ base \in D
    /\ \A n \in 1..bound : \A d \in D : step[n][d] \in D

\* Such a loop has its values there.
LEMMA IterationExists ==
    ASSUME NEW D, NEW base, NEW step, NEW N, StaysIn(D, step, base, N)
    PROVE  \E value \in [0..N -> D] : IsIteration(value, step, base, N)
<1> N \in Nat /\ base \in D
  BY DEF StaysIn
<1> DEFINE S == {m \in Nat : m <= N =>
                    \E g \in [0..m -> D] : IsIteration(g, step, base, m)}
<1>1. 0 \in S
  <2>1. [n \in 0..0 |-> base] \in [0..0 -> D]
    OBVIOUS
  <2>2. IsIteration([n \in 0..0 |-> base], step, base, 0)
    BY DEF IsIteration
  <2> QED BY <2>1, <2>2
<1>2. ASSUME NEW m \in S, m + 1 <= N
      PROVE  \E g \in [0..(m + 1) -> D] : IsIteration(g, step, base, m + 1)
  <2>1. PICK h \in [0..m -> D] : IsIteration(h, step, base, m)
    BY <1>2
  <2> DEFINE g == [n \in 0..(m + 1) |->
                      IF n = m + 1 THEN step[m + 1][h[m]] ELSE h[n]]
  <2>2. step[m + 1][h[m]] \in D
    BY <1>2 DEF StaysIn
  <2>3. g \in [0..(m + 1) -> D]
    BY <2>2
  <2>4. IsIteration(g, step, base, m + 1)
    <3>1. g[0] = base
      BY <2>1 DEF IsIteration
    <3>2. ASSUME NEW n \in 1..(m + 1)
          PROVE  g[n] = step[n][g[n - 1]]
      <4>1. CASE n = m + 1
        BY <4>1
      <4>2. CASE n \in 1..m
        <5>1. g[n] = h[n] /\ g[n - 1] = h[n - 1]
          BY <4>2
        <5> QED BY <2>1, <4>2, <5>1 DEF IsIteration
      <4> QED BY <4>1, <4>2
    <3> HIDE DEF g
    <3> QED BY <3>1, <3>2 DEF IsIteration
  <2> QED BY <2>3, <2>4
<1>3. S = Nat
  <2>1. \A m \in S : m + 1 \in S
    BY <1>2
  <2> HIDE DEF S
  <2>2. S \in SUBSET Nat
    BY DEF S
  <2> QED BY <1>1, <2>1, <2>2, Induction
<1> QED BY <1>3

\* Iterate returns the last of them, whichever solution one takes.
LEMMA IterateIs ==
    ASSUME NEW D, NEW base, NEW step, NEW N, StaysIn(D, step, base, N),
           NEW value, IsIteration(value, step, base, N)
    PROVE  Iterate(step, base, N) = value[N] /\ value[N] \in D
<1> N \in Nat /\ base \in D
  BY DEF StaysIn
<1> DEFINE turns(g) ==
              [n \in 0..N |-> IF n = 0 THEN base ELSE step[n][g[n - 1]]]
           chosen == CHOOSE g : g = turns(g)
<1>1. PICK g \in [0..N -> D] : IsIteration(g, step, base, N)
  BY IterationExists, Zenon
<1>2. g = turns(g)
  BY <1>1 DEF IsIteration
<1>3. chosen = turns(chosen)
  BY <1>2, Zenon
<1>4. Iterate(step, base, N) = chosen[N]
  BY Zenon DEF Iterate
<1> DEFINE S == {m \in Nat : m <= N => /\ value[m] = g[m]
                                       /\ chosen[m] = g[m]}
<1> HIDE DEF chosen
<1>5. IsIteration(chosen, step, base, N)
  <2>1. ASSUME NEW n \in 0..N
        PROVE  chosen[n] = IF n = 0 THEN base ELSE step[n][chosen[n - 1]]
    BY <1>3
  <2> QED BY <2>1 DEF IsIteration
<1>6. 0 \in S
  BY <1>1, <1>5 DEF IsIteration
<1>7. \A m \in S : m + 1 \in S
  BY <1>1, <1>5 DEF IsIteration
<1>8. S = Nat
  <2> HIDE DEF S
  <2>1. S \in SUBSET Nat
    BY DEF S
  <2> QED BY <1>6, <1>7, <2>1, Induction
<1> QED BY <1>4, <1>8

\* The loop, turn by turn: it starts with base, its turns follow from one
\* another, and every value it takes is in the set its steps stay in.
LEMMA IterateTurns ==
    ASSUME NEW D, NEW base, NEW step, NEW N, StaysIn(D, step, base, N)
    PROVE  /\ Iterate(step, base, 0) = base
           /\ \A n \in 1..N : Iterate(step, base, n) =
                                  step[n][Iterate(step, base, n - 1)]
           /\ \A n \in 0..N : Iterate(step, base, n) \in D
<1> N \in Nat /\ base \in D
  BY DEF StaysIn
<1>1. PICK value : IsIteration(value, step, base, N)
  BY IterationExists
<1>2. ASSUME NEW n \in 0..N
      PROVE  Iterate(step, base, n) = value[n] /\ value[n] \in D
  <2>1. IsIteration(value, step, base, n)
    BY <1>1 DEF IsIteration
  <2>2. StaysIn(D, step, base, n)
    BY DEF StaysIn
  <2> QED BY <2>1, <2>2, IterateIs
<1> QED BY <1>1, <1>2 DEF IsIteration

\* Two loops whose steps agree return the same value.
LEMMA IterateAgrees ==
    ASSUME NEW D, NEW base, NEW step, NEW other, NEW N,
           StaysIn(D, step, base, N),
           \A n \in 1..N : \A d \in D : other[n][d] = step[n][d]
    PROVE  Iterate(other, base, N) = Iterate(step, base, N)
<1> N \in Nat /\ base \in D
  BY DEF StaysIn
<1> DEFINE S == {n \in Nat : n <= N =>
                    Iterate(other, base, n) = Iterate(step, base, n)}
<1>1. /\ Iterate(step, base, 0) = base
      /\ \A n \in 1..N : Iterate(step, base, n) =
                             step[n][Iterate(step, base, n - 1)]
      /\ \A n \in 0..N : Iterate(step, base, n) \in D
  BY IterateTurns
<1>0. /\ Iterate(other, base, 0) = base
      /\ \A n \in 1..N : Iterate(other, base, n) =
                             other[n][Iterate(other, base, n - 1)]
  <2>1. StaysIn(D, other, base, N)
    BY DEF StaysIn
  <2> QED BY <2>1, IterateTurns
<1>2. 0 \in S
  BY <1>0, <1>1
<1>3. ASSUME NEW n \in S
      PROVE  n + 1 \in S
  <2>1. CASE n + 1 <= N
    <3>1. Iterate(other, base, n) = Iterate(step, base, n)
      BY <2>1
    <3>2. n + 1 \in 1..N /\ n \in 0..N /\ (n + 1) - 1 = n
      BY <2>1
    <3>3. Iterate(other, base, n + 1) = Iterate(step, base, n + 1)
      BY <1>0, <1>1, <3>1, <3>2
    <3> QED BY <3>3
  <2>2. CASE ~(n + 1 <= N)
    BY <2>2
  <2> QED BY <2>1, <2>2
<1>4. S = Nat
  <2> HIDE DEF S
  <2>1. S \in SUBSET Nat
    BY DEF S
  <2> QED BY <1>2, <1>3, <2>1, Induction
<1> QED BY <1>4

\* Two loops whose values differ after some turn, and whose steps from there
\* on are the same and merge no two values, return different values.
LEMMA IterateApart ==
    ASSUME NEW D, NEW step, NEW base, NEW other, NEW start, NEW N,
           StaysIn(D, step, base, N), StaysIn(D, other, start, N),
           NEW first \in 0..N,
           Iterate(step, base, first) # Iterate(other, start, first),
           \A n \in (first + 1)..N : \A d, e \in D :
               step[n][d] = other[n][e] => d = e
    PROVE  Iterate(step, base, N) # Iterate(other, start, N)
<1> DEFINE mine(n) == Iterate(step, base, n)
           theirs(n) == Iterate(other, start, n)
           S == {n \in Nat : first + n <= N =>
                    mine(first + n) # theirs(first + n)}
<1> N \in Nat
  BY DEF StaysIn
<1>1. /\ \A n \in 1..N : mine(n) = step[n][mine(n - 1)]
      /\ \A n \in 0..N : mine(n) \in D
  BY IterateTurns
<1>2. /\ \A n \in 1..N : theirs(n) = other[n][theirs(n - 1)]
      /\ \A n \in 0..N : theirs(n) \in D
  BY IterateTurns
<1>3. mine(first) # theirs(first)
  OBVIOUS
<1> HIDE DEF mine, theirs
<1>4. 0 \in S
  BY <1>3
<1>5. ASSUME NEW n \in S, first + (n + 1) <= N
      PROVE  mine(first + (n + 1)) # theirs(first + (n + 1))
  <2> DEFINE k == first + (n + 1)
  <2>1. /\ k \in 1..N /\ k \in (first + 1)..N /\ k - 1 = first + n
        /\ k - 1 \in 0..N /\ first + n <= N
    BY <1>5
  <2>2. mine(k - 1) # theirs(k - 1)
    BY <1>5, <2>1
  <2> HIDE DEF k
  <2>3. mine(k) # theirs(k)
    BY <1>1, <1>2, <2>1, <2>2
  <2> QED BY <2>3 DEF k
<1>6. S = Nat
  <2>1. \A n \in S : n + 1 \in S
    BY <1>5
  <2> HIDE DEF S
  <2>2. S \in SUBSET Nat
    BY DEF S
  <2> QED BY <1>4, <2>1, <2>2, Induction
<1>7. mine(N) # theirs(N)
  <2>1. \A n \in Nat : first + n <= N => mine(first + n) # theirs(first + n)
    BY <1>6
  <2>2. N - first \in Nat /\ first + (N - first) = N /\ N <= N
    OBVIOUS
  <2> QED BY <2>1, <2>2
<1> QED BY <1>7 DEF mine, theirs

-----------------------------------------------------------------------------
(* record_processed.                                                        *)

\* A condition counts one or nothing.
LEMMA CountTyped == ASSUME NEW condition PROVE Count(condition) \in {0, 1}
BY DEF Count

\* Recording a measurement keeps the types, fixes the extremes and adds to the
\* sum.
LEMMA TrackTyped ==
    ASSUME NEW track \in Tracks, NEW value \in Int
    PROVE  /\ Track(track, value) \in Tracks
           /\ Track(track, value).minimum \in Int
           /\ Track(track, value).maximum \in Int
           /\ Track(track, value).sum = track.sum + value
BY NoValueAssumption DEF Track, Tracks

\* The sequence policy by cases, once the first frame was processed.
LEMMA SequencePolicy ==
    ASSUME NEW stats \in Statistics, NEW sequence \in Nat,
           stats.first_sequence \in Nat, stats.last_sequence \in Nat
    PROVE  \/ /\ SequenceKind(stats, sequence) = "duplicate"
              /\ sequence = stats.last_sequence
              /\ Gap(stats, sequence) = 0
              /\ HighestSequence(stats, sequence) = stats.last_sequence
           \/ /\ SequenceKind(stats, sequence) = "advance"
              /\ sequence > stats.last_sequence
              /\ Gap(stats, sequence) = sequence - stats.last_sequence - 1
              /\ HighestSequence(stats, sequence) = sequence
           \/ /\ SequenceKind(stats, sequence) = "late"
              /\ sequence < stats.last_sequence
              /\ Gap(stats, sequence) = 0
              /\ HighestSequence(stats, sequence) = stats.last_sequence
<1>1. stats.first_sequence # NoValue
  BY NoValueAssumption
<1>2. CASE sequence = stats.last_sequence
  BY <1>1, <1>2 DEF SequenceKind, Gap, HighestSequence
<1>3. CASE sequence > stats.last_sequence
  BY <1>1, <1>3 DEF SequenceKind, Gap, HighestSequence
<1>4. CASE sequence < stats.last_sequence
  BY <1>1, <1>4 DEF SequenceKind, Gap, HighestSequence
<1>5. QED
  BY <1>2, <1>3, <1>4

\* The first frame sets both ends of the range.
LEMMA FirstFrame ==
    ASSUME NEW stats, NEW sequence, stats.first_sequence = NoValue
    PROVE  /\ SequenceKind(stats, sequence) = "first"
           /\ Gap(stats, sequence) = 0
           /\ HighestSequence(stats, sequence) = sequence
BY DEF SequenceKind, Gap, HighestSequence

\* The first and the last sequence have their values together.
RangeAgrees(stats) ==
    stats.first_sequence \in Nat <=> stats.last_sequence \in Nat

\* Whatever the frame, record_processed keeps every field its type and counts
\* one frame.
LEMMA RecordingTyped ==
    ASSUME NEW stats \in Statistics, RangeAgrees(stats), NEW frame,
           frame.sequence \in Nat, frame.temperature \in Int,
           frame.supply \in Int
    PROVE  /\ RecordProcessed(stats, frame) \in Statistics
           /\ RangeAgrees(RecordProcessed(stats, frame))
           /\ RecordProcessed(stats, frame).frames_processed =
                  stats.frames_processed + 1
<1> DEFINE kind == SequenceKind(stats, frame.sequence)
           first == IF kind = "first" THEN frame.sequence
                    ELSE stats.first_sequence
<1>1. /\ Gap(stats, frame.sequence) \in Nat
      /\ HighestSequence(stats, frame.sequence) \in Nat
      /\ first \in Nat
  <2>1. CASE stats.first_sequence = NoValue
    BY <2>1, FirstFrame
  <2>2. CASE stats.first_sequence # NoValue
    <3>1. stats.first_sequence \in Nat /\ stats.last_sequence \in Nat
      BY <2>2 DEF Statistics, RangeAgrees
    <3> QED BY <3>1, SequencePolicy
  <2> QED BY <2>1, <2>2
<1>2. /\ Track(stats.temperature, frame.temperature) \in Tracks
      /\ Track(stats.supply, frame.supply) \in Tracks
  BY TrackTyped DEF Statistics
<1>3. [flag \in StatusFlags |->
           stats.warnings[flag] + Count(flag \in frame.flags)]
          \in [StatusFlags -> Nat]
  BY CountTyped DEF Statistics
<1>4. /\ stats.frames_processed \in Nat
      /\ stats.missing_sequences \in Nat
      /\ stats.duplicate_sequences \in Nat
      /\ stats.out_of_order_sequences \in Nat
  BY DEF Statistics
<1>5. RecordProcessed(stats, frame) \in Statistics
  BY <1>1, <1>2, <1>3, <1>4, CountTyped DEF RecordProcessed, Statistics
<1>6. RangeAgrees(RecordProcessed(stats, frame))
  BY <1>1 DEF RecordProcessed, RangeAgrees
<1> QED BY <1>5, <1>6 DEF RecordProcessed

-----------------------------------------------------------------------------
(* The checksum.                                                            *)

\* The words and the bytes as sets of bit positions.
LEMMA Widths == Word(32) = SUBSET (0..31) /\ Byte = SUBSET (0..7)
<1>1. 32 - 1 = 31 /\ 8 - 1 = 7
  OBVIOUS
<1> QED BY <1>1 DEF Word, Byte

\* A shift keeps the width and clears the highest bit.
LEMMA Shifted ==
    ASSUME NEW crc \in Word(32)
    PROVE  /\ ShiftRight(crc) \subseteq 0..30
           /\ \A bit \in 1..31 : bit \in crc <=> bit - 1 \in ShiftRight(crc)
BY Widths DEF ShiftRight

\* One turn keeps the width of a word.
LEMMA NextBitTyped ==
    ASSUME NEW crc \in Word(32) PROVE NextBit(crc) \in Word(32)
<1>1. ShiftRight(crc) \subseteq 0..31
  BY Shifted
<1>2. Polynomial \subseteq 0..31
  BY DEF Polynomial
<1> QED BY <1>1, <1>2, Widths DEF NextBit, SymDiff

\* One turn loses nothing: the highest bit of the polynomial says whether the
\* lowest bit of the word was set.
LEMMA NextBitInjective ==
    ASSUME NEW a \in Word(32), NEW b \in Word(32), NextBit(a) = NextBit(b)
    PROVE  a = b
<1>1. 31 \notin ShiftRight(a) /\ 31 \notin ShiftRight(b)
  BY Shifted
<1>2. 31 \in Polynomial
  BY DEF Polynomial
<1>3. 0 \in a <=> 0 \in b
  BY <1>1, <1>2 DEF NextBit, SymDiff
<1>4. ShiftRight(a) = ShiftRight(b)
  <2> DEFINE mask == IF 0 \in a THEN Polynomial ELSE {}
  <2>1. SymDiff(ShiftRight(a), mask) = SymDiff(ShiftRight(b), mask)
    BY <1>3 DEF NextBit
  <2> HIDE DEF mask
  <2> QED BY <2>1 DEF SymDiff
<1>5. \A bit \in 1..31 : bit \in a <=> bit \in b
  BY <1>4, Shifted
<1>6. \A bit \in 0..31 : bit \in a <=> bit \in b
  BY <1>3, <1>5
<1> QED BY <1>6, Widths

\* The turns of the inner loop.
Turning == [turn \in 1..8 |-> [word \in Word(32) |-> NextBit(word)]]

\* They stay in the words, from any word on.
LEMMA TurningStays ==
    ASSUME NEW word \in Word(32)
    PROVE  StaysIn(Word(32), Turning, word, 8)
<1>1. \A turn \in 1..8 : \A d \in Word(32) : Turning[turn][d] \in Word(32)
  BY NextBitTyped DEF Turning
<1> QED BY <1>1 DEF StaysIn

\* A byte is a word too, and exclusive or with it gives a word.
LEMMA ExclusiveOr ==
    ASSUME NEW crc \in Word(32), NEW word \in Word(32)
    PROVE  SymDiff(crc, word) \in Word(32)
BY Widths DEF SymDiff

\* A byte has no bit that a word has not.
LEMMA ByteIsWord == Byte \subseteq Word(32)
<1>1. 0..7 \subseteq 0..31
  OBVIOUS
<1> QED BY <1>1, Widths

\* Absorbing a byte gives a word.
LEMMA NextByteTyped ==
    ASSUME NEW crc \in Word(32), NEW byte \in Byte
    PROVE  NextByte(crc, byte) \in Word(32)
<1>1. SymDiff(crc, byte) \in Word(32)
  BY ExclusiveOr, ByteIsWord
<1>2. StaysIn(Word(32), Turning, SymDiff(crc, byte), 8)
  BY <1>1, TurningStays
<1>3. Iterate(Turning, SymDiff(crc, byte), 8) \in Word(32)
  BY <1>2, IterateTurns
<1> QED BY <1>3 DEF NextByte, Turning

\* Eight turns lose nothing either: two sums whose exclusive ors with their
\* bytes differ have different successors.
LEMMA NextByteInjective ==
    ASSUME NEW a \in Word(32), NEW b \in Word(32), NEW x \in Byte,
           NEW y \in Byte, NextByte(a, x) = NextByte(b, y)
    PROVE  SymDiff(a, x) = SymDiff(b, y)
<1> SUFFICES ASSUME SymDiff(a, x) # SymDiff(b, y)
             PROVE  NextByte(a, x) # NextByte(b, y)
  OBVIOUS
<1> DEFINE from == SymDiff(a, x)
           to == SymDiff(b, y)
<1>1. from \in Word(32) /\ to \in Word(32) /\ from # to
  BY ExclusiveOr, ByteIsWord
<1>2. NextByte(a, x) = Iterate(Turning, from, 8)
      /\ NextByte(b, y) = Iterate(Turning, to, 8)
  BY DEF NextByte, Turning
<1> HIDE DEF from, to
<1>3. StaysIn(Word(32), Turning, from, 8) /\ StaysIn(Word(32), Turning, to, 8)
  BY <1>1, TurningStays
<1>4. Iterate(Turning, from, 0) # Iterate(Turning, to, 0)
  BY <1>1, <1>3, IterateTurns
<1>5. \A turn \in 1..8 : \A d, e \in Word(32) :
          Turning[turn][d] = Turning[turn][e] => d = e
  BY NextBitInjective DEF Turning
<1>6. 0 \in 0..8 /\ 0 + 1 = 1
  OBVIOUS
<1>7. Iterate(Turning, from, 8) # Iterate(Turning, to, 8)
  BY <1>3, <1>4, <1>5, <1>6, IterateApart
<1> QED BY <1>2, <1>7

\* What follows a difference does not undo it.
LEMMA NextByteKeepsApart ==
    ASSUME NEW a \in Word(32), NEW b \in Word(32), NEW byte \in Byte,
           NextByte(a, byte) = NextByte(b, byte)
    PROVE  a = b
<1>1. SymDiff(a, byte) = SymDiff(b, byte)
  BY NextByteInjective
<1> QED BY <1>1 DEF SymDiff

\* And a different byte makes a difference.
LEMMA NextByteSees ==
    ASSUME NEW crc \in Word(32), NEW x \in Byte, NEW y \in Byte,
           NextByte(crc, x) = NextByte(crc, y)
    PROVE  x = y
<1>1. SymDiff(crc, x) = SymDiff(crc, y)
  BY NextByteInjective
<1> QED BY <1>1 DEF SymDiff

\* The outer loop stays in the words.
LEMMA AbsorbStays ==
    ASSUME NEW bytes \in Seq(Byte)
    PROVE  StaysIn(Word(32), Absorb(bytes), InitialValue, Len(bytes))
<1>1. /\ Len(bytes) \in Nat
      /\ \A i \in 1..Len(bytes) : bytes[i] \in Byte
  BY LenProperties, ElementOfSeq
<1>2. InitialValue \in Word(32)
  BY Widths DEF InitialValue
<1>3. \A i \in 1..Len(bytes) : \A d \in Word(32) :
          Absorb(bytes)[i][d] \in Word(32)
  BY <1>1, NextByteTyped DEF Absorb
<1> QED BY <1>1, <1>2, <1>3 DEF StaysIn

\* The checksum is a word.
LEMMA ChecksumTyped ==
    ASSUME NEW bytes \in Seq(Byte)
    PROVE  CalculateCrc32(bytes) \in Word(32)
<1>1. Iterate(Absorb(bytes), InitialValue, Len(bytes)) \in Word(32)
  <2>1. Len(bytes) \in 0..Len(bytes)
    BY LenProperties
  <2> QED BY <2>1, AbsorbStays, IterateTurns
<1>2. FinalXor \in Word(32)
  BY Widths DEF FinalXor
<1> QED BY <1>1, <1>2, ExclusiveOr DEF CalculateCrc32

\* The registers of two byte strings are the same as long as the bytes are.
LEMMA RegistersAgree ==
    ASSUME NEW bytes \in Seq(Byte), NEW other \in Seq(Byte),
           NEW before \in 0..Len(bytes), before <= Len(other),
           \A i \in 1..before : other[i] = bytes[i]
    PROVE  Iterate(Absorb(other), InitialValue, before) =
               Iterate(Absorb(bytes), InitialValue, before)
<1>1. /\ Len(bytes) \in Nat /\ Len(other) \in Nat
      /\ \A i \in 1..Len(bytes) : bytes[i] \in Byte
  BY LenProperties, ElementOfSeq
<1>2. StaysIn(Word(32), Absorb(bytes), InitialValue, before)
  BY <1>1, AbsorbStays DEF StaysIn
<1>3. \A n \in 1..before : \A d \in Word(32) :
          Absorb(other)[n][d] = Absorb(bytes)[n][d]
  BY <1>1 DEF Absorb
<1> QED BY <1>2, <1>3, IterateAgrees

\* Once they differ they differ to the end when the rest is the same.
LEMMA RegistersStayApart ==
    ASSUME NEW bytes \in Seq(Byte), NEW other \in Seq(Byte),
           Len(other) = Len(bytes), NEW from \in 0..Len(bytes),
           Iterate(Absorb(bytes), InitialValue, from) #
               Iterate(Absorb(other), InitialValue, from),
           \A i \in (from + 1)..Len(bytes) : other[i] = bytes[i]
    PROVE  CalculateCrc32(other) # CalculateCrc32(bytes)
<1> DEFINE N == Len(bytes)
<1>1. /\ N \in Nat /\ \A i \in 1..N : bytes[i] \in Byte
  BY LenProperties, ElementOfSeq
<1>2. /\ StaysIn(Word(32), Absorb(bytes), InitialValue, N)
      /\ StaysIn(Word(32), Absorb(other), InitialValue, N)
  BY AbsorbStays
<1>3. \A i \in 1..N : \A d \in Word(32) :
             /\ Absorb(bytes)[i][d] = NextByte(d, bytes[i])
             /\ Absorb(other)[i][d] = NextByte(d, other[i])
  BY DEF Absorb
<1> HIDE DEF N
<1>4. \A n \in (from + 1)..N : \A d, e \in Word(32) :
          Absorb(bytes)[n][d] = Absorb(other)[n][e] => d = e
  <2> SUFFICES ASSUME NEW n \in (from + 1)..N, NEW d \in Word(32),
                      NEW e \in Word(32),
                      Absorb(bytes)[n][d] = Absorb(other)[n][e]
               PROVE  d = e
    OBVIOUS
  <2>1. n \in 1..N /\ other[n] = bytes[n] /\ bytes[n] \in Byte
    BY <1>1 DEF N
  <2>2. NextByte(d, bytes[n]) = NextByte(e, bytes[n])
    BY <1>3, <2>1
  <2> QED BY <2>1, <2>2, NextByteKeepsApart
<1>5. Iterate(Absorb(bytes), InitialValue, N) #
          Iterate(Absorb(other), InitialValue, N)
  <2>1. from \in 0..N
    BY DEF N
  <2> QED BY <1>2, <1>4, <2>1, IterateApart
<1>6. \A a, b : a # b => SymDiff(a, FinalXor) # SymDiff(b, FinalXor)
  BY DEF SymDiff
<1>7. Len(other) = N
  BY DEF N
<1> QED BY <1>5, <1>6, <1>7 DEF CalculateCrc32, N

\* A checksum tells any two byte strings apart that differ in one byte,
\* whatever the byte was and whatever follows it.
LEMMA ChecksumSeesOneByte ==
    ASSUME NEW bytes \in Seq(Byte), NEW other \in Seq(Byte),
           Len(other) = Len(bytes), NEW place \in 1..Len(bytes),
           other[place] # bytes[place],
           \A i \in 1..Len(bytes) : i # place => other[i] = bytes[i]
    PROVE  CalculateCrc32(other) # CalculateCrc32(bytes)
<1> DEFINE before == place - 1
           mine(n) == Iterate(Absorb(bytes), InitialValue, n)
           theirs(n) == Iterate(Absorb(other), InitialValue, n)
<1>1. /\ Len(bytes) \in Nat
      /\ \A i \in 1..Len(bytes) : bytes[i] \in Byte /\ other[i] \in Byte
  BY LenProperties, ElementOfSeq
<1>2. /\ StaysIn(Word(32), Absorb(bytes), InitialValue, Len(bytes))
      /\ StaysIn(Word(32), Absorb(other), InitialValue, Len(bytes))
  BY AbsorbStays
<1>3. /\ before \in 0..Len(bytes) /\ before <= Len(other)
      /\ \A i \in 1..before : other[i] = bytes[i]
  BY <1>1
<1> HIDE DEF before
<1>4. theirs(before) = mine(before)
  BY <1>3, RegistersAgree
<1>5. /\ mine(place) = Absorb(bytes)[place][mine(place - 1)]
      /\ mine(place - 1) \in Word(32)
      /\ theirs(place) = Absorb(other)[place][theirs(place - 1)]
  <2>1. place - 1 \in 0..Len(bytes)
    BY <1>3 DEF before
  <2> QED BY <1>2, <2>1, IterateTurns
<1> HIDE DEF mine, theirs
<1>6. /\ mine(place) = NextByte(mine(before), bytes[place])
      /\ theirs(place) = NextByte(mine(before), other[place])
      /\ mine(before) \in Word(32)
  BY <1>4, <1>5 DEF Absorb, before
<1>7. mine(place) # theirs(place)
  BY <1>1, <1>6, NextByteSees
<1>8. /\ place \in 0..Len(bytes)
      /\ \A i \in (place + 1)..Len(bytes) : other[i] = bytes[i]
  BY <1>1
<1> QED BY <1>7, <1>8, RegistersStayApart DEF mine, theirs

-----------------------------------------------------------------------------
(* The layout of a frame.                                                   *)

\* The bytes from an offset on are a word, the most significant one first.
Holds(bytes, offset, size, word) ==
    \A i \in 1..size : bytes[offset + i] = BigEndian(size, word)[i]

\* What was written first stays where it is.
Keeps(short, long) ==
    /\ Len(short) <= Len(long)
    /\ \A i \in 1..Len(short) : long[i] = short[i]

\* read_u16, read_u32 and read_u64 read what write_u16, write_u32 and
\* write_u64 wrote.
LEMMA ReadBack ==
    ASSUME NEW offset \in Nat, NEW size \in Nat, NEW word \in Word(8 * size),
           NEW bytes, Holds(bytes, offset, size, word)
    PROVE  Read(bytes, offset, size) = word
<1>1. ASSUME NEW bit \in 0..(8 * size - 1)
      PROVE  bit % 8 \in At(bytes, offset + size - 1 - bit \div 8)
                 <=> bit \in word
  <2> DEFINE i == size - bit \div 8
  <2>1. /\ i \in 1..size /\ bit % 8 \in 0..7
        /\ offset + size - 1 - bit \div 8 + 1 = offset + i
        /\ (bit % 8) + 8 * (size - i) = bit
    OBVIOUS
  <2> HIDE DEF i
  <2>2. At(bytes, offset + size - 1 - bit \div 8) = BigEndian(size, word)[i]
    BY <2>1 DEF At, Holds
  <2>3. BigEndian(size, word)[i] =
            {b \in 0..7 : b + 8 * (size - i) \in word}
    BY <2>1 DEF BigEndian
  <2> QED BY <2>1, <2>2, <2>3
<1>2. word \subseteq 0..(8 * size - 1)
  BY DEF Word
<1> QED BY <1>1, <1>2 DEF Read

\* There are bytes from an offset on.
HasBytes(bytes, offset, size) == \A i \in 1..size : bytes[offset + i] \in Byte

\* And the other way round: the bytes hold what is read from them.
LEMMA WriteBack ==
    ASSUME NEW offset \in Nat, NEW size \in Nat, NEW bytes,
           HasBytes(bytes, offset, size)
    PROVE  /\ Read(bytes, offset, size) \in Word(8 * size)
           /\ Holds(bytes, offset, size, Read(bytes, offset, size))
<1> DEFINE word == Read(bytes, offset, size)
<1>1. word \in Word(8 * size)
  BY DEF Word, Read
<1>2. ASSUME NEW i \in 1..size
      PROVE  bytes[offset + i] = BigEndian(size, word)[i]
  <2>1. BigEndian(size, word)[i] =
            {b \in 0..7 : b + 8 * (size - i) \in word}
    BY DEF BigEndian
  <2>2. ASSUME NEW b \in 0..7
        PROVE  b + 8 * (size - i) \in word <=> b \in bytes[offset + i]
    <3> DEFINE bit == b + 8 * (size - i)
    <3>1. /\ bit \in 0..(8 * size - 1) /\ bit % 8 = b
          /\ offset + size - 1 - bit \div 8 + 1 = offset + i
      OBVIOUS
    <3> HIDE DEF bit
    <3>2. bit \in word <=> b \in bytes[offset + i]
      BY <3>1 DEF Read, At
    <3> QED BY <3>2 DEF bit
  <2>3. bytes[offset + i] \subseteq 0..7
    BY Widths DEF HasBytes
  <2> HIDE DEF word
  <2> QED BY <2>1, <2>2, <2>3
<1> QED BY <1>1, <1>2 DEF Holds

\* A chunk is as long as it was asked to be, and made of bytes.
LEMMA ChunkTyped ==
    ASSUME NEW size \in Nat, NEW word
    PROVE  /\ BigEndian(size, word) \in Seq(Byte)
           /\ Len(BigEndian(size, word)) = size
<1>1. \A i \in 1..size : {b \in 0..7 : b + 8 * (size - i) \in word} \in Byte
  BY Widths
<1>2. BigEndian(size, word) \in [1..size -> Byte]
  BY <1>1 DEF BigEndian
<1>3. BigEndian(size, word) \in Seq(Byte)
  BY <1>2, SeqDef
<1>4. DOMAIN BigEndian(size, word) = 1..size
  BY DEF BigEndian
<1>5. Len(BigEndian(size, word)) = size
  BY <1>3, <1>4, LenProperties
<1> QED BY <1>3, <1>5

\* A chunk goes behind what is written: last is made of first and a chunk.
Continues(last, first, offset, size, word) ==
    /\ first \in Seq(Byte)
    /\ Len(first) = offset
    /\ last = first \o BigEndian(size, word)

\* Then what is written stays where it is, and the chunk follows.
Written(last, first, offset, size, word) ==
    /\ last \in Seq(Byte) /\ Len(last) = offset + size
    /\ Keeps(first, last) /\ Holds(last, offset, size, word)

\* So it is.
LEMMA ChunkWritten ==
    ASSUME NEW first, NEW last, NEW offset \in Nat, NEW size \in Nat,
           NEW word, Continues(last, first, offset, size, word)
    PROVE  Written(last, first, offset, size, word)
<1> DEFINE chunk == BigEndian(size, word)
<1>1. chunk \in Seq(Byte) /\ Len(chunk) = size
  BY ChunkTyped
<1>2. /\ first \in Seq(Byte) /\ Len(first) = offset
      /\ last = first \o chunk
  BY DEF Continues
<1> HIDE DEF chunk
<1>3. /\ last \in Seq(Byte) /\ Len(last) = offset + size
      /\ \A i \in 1..(offset + size) :
             last[i] = IF i <= offset THEN first[i] ELSE chunk[i - offset]
  BY <1>1, <1>2, ConcatProperties
<1>4. Keeps(first, last)
  BY <1>2, <1>3 DEF Keeps
<1>5. \A i \in 1..size : last[offset + i] = chunk[i]
  <2>1. \A i \in 1..size : /\ offset + i \in 1..(offset + size)
                           /\ ~(offset + i <= offset)
                           /\ offset + i - offset = i
    OBVIOUS
  <2> QED BY <1>3, <2>1
<1> QED BY <1>3, <1>4, <1>5 DEF Holds, chunk, Written

\* What holds of the first bytes holds of all of them.
LEMMA StaysWritten ==
    ASSUME NEW first, NEW short, NEW long, Keeps(short, long),
           NEW offset \in Nat, NEW size \in Nat, NEW word,
           Written(short, first, offset, size, word)
    PROVE  Holds(long, offset, size, word)
BY DEF Keeps, Holds, Written

\* Keeping is transitive.
LEMMA KeepsOn ==
    ASSUME NEW a \in Seq(Byte), NEW b \in Seq(Byte), NEW c \in Seq(Byte),
           Keeps(a, b), Keeps(b, c)
    PROVE  Keeps(a, c)
<1>1. Len(a) \in Nat /\ Len(b) \in Nat /\ Len(c) \in Nat
  BY LenProperties
<1> QED BY <1>1 DEF Keeps

\* The bytes that the checksum covers, by what they hold.
LaidOut(bytes, frame) ==
    /\ bytes[1] = Magic[1] /\ bytes[2] = Magic[2]
    /\ bytes[3] = frame.version /\ bytes[4] = frame.message_type
    /\ Holds(bytes, payload_size_offset, 2, TelemetryPayloadSize)
    /\ Holds(bytes, sequence_offset, 4, frame.sequence)
    /\ Holds(bytes, timestamp_offset, 8, frame.timestamp)
    /\ Holds(bytes, temperature_offset, 4, frame.temperature)
    /\ Holds(bytes, pressure_offset, 4, frame.pressure)
    /\ Holds(bytes, supply_voltage_offset, 2, frame.supply)
    /\ Holds(bytes, status_flags_offset, 2, frame.flags)

\* The serializer lays out every field at its offset.
LEMMA BodyLaidOut ==
    ASSUME NEW frame, frame.version \in Byte, frame.message_type \in Byte
    PROVE  /\ Body(frame) \in Seq(Byte) /\ Len(Body(frame)) = crc_offset
           /\ LaidOut(Body(frame), frame)
<1> DEFINE p0 == Magic \o <<frame.version, frame.message_type>>
           p1 == p0 \o BigEndian(2, TelemetryPayloadSize)
           p2 == p1 \o BigEndian(4, frame.sequence)
           p3 == p2 \o BigEndian(8, frame.timestamp)
           p4 == p3 \o BigEndian(4, frame.temperature)
           p5 == p4 \o BigEndian(4, frame.pressure)
           p6 == p5 \o BigEndian(2, frame.supply)
           p7 == p6 \o BigEndian(2, frame.flags)
<1>0. /\ p0 \in Seq(Byte) /\ Len(p0) = 4
      /\ p0[1] = Magic[1] /\ p0[2] = Magic[2]
      /\ p0[3] = frame.version /\ p0[4] = frame.message_type
  <2> DEFINE kind == <<frame.version, frame.message_type>>
  <2>1. Magic \in Seq(Byte) /\ Len(Magic) = 2
    BY Widths DEF Magic
  <2>2. kind \in Seq(Byte) /\ Len(kind) = 2
        /\ kind[1] = frame.version /\ kind[2] = frame.message_type
    OBVIOUS
  <2> HIDE DEF kind
  <2>3. /\ Magic \o kind \in Seq(Byte) /\ Len(Magic \o kind) = 4
        /\ \A i \in 1..4 : (Magic \o kind)[i] =
               IF i <= 2 THEN Magic[i] ELSE kind[i - 2]
    BY <2>1, <2>2, ConcatProperties, SMTT(30)
  <2> QED BY <2>2, <2>3 DEF kind
<1> HIDE DEF p0
<1>1. Written(p1, p0, 4, 2, TelemetryPayloadSize)
  <2>1. Continues(p1, p0, 4, 2, TelemetryPayloadSize)
    BY <1>0 DEF Continues
  <2> HIDE DEF p1
  <2> QED BY <2>1, ChunkWritten
<1> HIDE DEF p1
<1>2. Written(p2, p1, 6, 4, frame.sequence)
  <2>1. Continues(p2, p1, 6, 4, frame.sequence)
    BY <1>1 DEF Continues, Written
  <2> HIDE DEF p2
  <2> QED BY <2>1, ChunkWritten
<1> HIDE DEF p2
<1>3. Written(p3, p2, 10, 8, frame.timestamp)
  <2>1. Continues(p3, p2, 10, 8, frame.timestamp)
    BY <1>2 DEF Continues, Written
  <2> HIDE DEF p3
  <2> QED BY <2>1, ChunkWritten
<1> HIDE DEF p3
<1>4. Written(p4, p3, 18, 4, frame.temperature)
  <2>1. Continues(p4, p3, 18, 4, frame.temperature)
    BY <1>3 DEF Continues, Written
  <2> HIDE DEF p4
  <2> QED BY <2>1, ChunkWritten
<1> HIDE DEF p4
<1>5. Written(p5, p4, 22, 4, frame.pressure)
  <2>1. Continues(p5, p4, 22, 4, frame.pressure)
    BY <1>4 DEF Continues, Written
  <2> HIDE DEF p5
  <2> QED BY <2>1, ChunkWritten
<1> HIDE DEF p5
<1>6. Written(p6, p5, 26, 2, frame.supply)
  <2>1. Continues(p6, p5, 26, 2, frame.supply)
    BY <1>5 DEF Continues, Written
  <2> HIDE DEF p6
  <2> QED BY <2>1, ChunkWritten
<1> HIDE DEF p6
<1>7. Written(p7, p6, 28, 2, frame.flags)
  <2>1. Continues(p7, p6, 28, 2, frame.flags)
    BY <1>6 DEF Continues, Written
  <2> HIDE DEF p7
  <2> QED BY <2>1, ChunkWritten
<1>8. Body(frame) = p7
  BY DEF Body, p0, p1, p2, p3, p4, p5, p6
<1> HIDE DEF p7
<1>9. Keeps(p5, p7)
  BY <1>5, <1>6, <1>7, KeepsOn DEF Written
<1>10. Keeps(p4, p7)
  BY <1>4, <1>5, <1>7, <1>9, KeepsOn DEF Written
<1>11. Keeps(p3, p7)
  BY <1>3, <1>4, <1>7, <1>10, KeepsOn DEF Written
<1>12. Keeps(p2, p7)
  BY <1>2, <1>3, <1>7, <1>11, KeepsOn DEF Written
<1>13. Keeps(p1, p7)
  BY <1>1, <1>2, <1>7, <1>12, KeepsOn DEF Written
<1>14. Keeps(p0, p7)
  BY <1>0, <1>1, <1>7, <1>13, KeepsOn DEF Written
<1>15. /\ p7[1] = Magic[1] /\ p7[2] = Magic[2]
       /\ p7[3] = frame.version /\ p7[4] = frame.message_type
  BY <1>0, <1>14 DEF Keeps
<1>16. Holds(p7, 4, 2, TelemetryPayloadSize)
  BY <1>1, <1>13, StaysWritten
<1>17. Holds(p7, 6, 4, frame.sequence)
  BY <1>2, <1>12, StaysWritten
<1>18. Holds(p7, 10, 8, frame.timestamp)
  BY <1>3, <1>11, StaysWritten
<1>19. Holds(p7, 18, 4, frame.temperature)
  BY <1>4, <1>10, StaysWritten
<1>20. Holds(p7, 22, 4, frame.pressure)
  BY <1>5, <1>9, StaysWritten
<1>21. Holds(p7, 26, 2, frame.supply)
  BY <1>6, <1>7, StaysWritten DEF Written
<1> QED
  BY <1>7, <1>8, <1>15, <1>16, <1>17, <1>18, <1>19, <1>20, <1>21
  DEF LaidOut, Written, payload_size_offset, sequence_offset, timestamp_offset,
      temperature_offset, pressure_offset, supply_voltage_offset,
      status_flags_offset, crc_offset

\* Two byte strings that hold the same are the same as far as the checksum
\* covers them.
LEMMA LaidOutOnce ==
    ASSUME NEW a, NEW b, NEW frame, LaidOut(a, frame), LaidOut(b, frame)
    PROVE  \A i \in 1..crc_offset : a[i] = b[i]
<1> TAKE i \in 1..crc_offset
<1>1. ASSUME NEW offset \in Nat, NEW size \in Nat, NEW word,
             Holds(a, offset, size, word), Holds(b, offset, size, word),
             i \in (offset + 1)..(offset + size)
      PROVE  a[i] = b[i]
  <2>1. i - offset \in 1..size /\ offset + (i - offset) = i
    BY <1>1 DEF crc_offset
  <2> QED BY <1>1, <2>1 DEF Holds
<1>2. CASE i \in 1..4
  BY <1>2 DEF LaidOut
<1>3. CASE i \in (4 + 1)..(4 + 2)
  BY <1>1, <1>3 DEF LaidOut, payload_size_offset
<1>4. CASE i \in (6 + 1)..(6 + 4)
  BY <1>1, <1>4 DEF LaidOut, sequence_offset
<1>5. CASE i \in (10 + 1)..(10 + 8)
  BY <1>1, <1>5 DEF LaidOut, timestamp_offset
<1>6. CASE i \in (18 + 1)..(18 + 4)
  BY <1>1, <1>6 DEF LaidOut, temperature_offset
<1>7. CASE i \in (22 + 1)..(22 + 4)
  BY <1>1, <1>7 DEF LaidOut, pressure_offset
<1>8. CASE i \in (26 + 1)..(26 + 2)
  BY <1>1, <1>8 DEF LaidOut, supply_voltage_offset
<1>9. CASE i \in (28 + 1)..(28 + 2)
  BY <1>1, <1>9 DEF LaidOut, status_flags_offset
<1> QED
  BY <1>2, <1>3, <1>4, <1>5, <1>6, <1>7, <1>8, <1>9 DEF crc_offset

-----------------------------------------------------------------------------
(* What is accepted.                                                        *)

\* The serializer's frame: its body, its checksum, and nothing else.
LEMMA SerializedLaidOut ==
    ASSUME NEW frame, frame.version \in Byte, frame.message_type \in Byte
    PROVE  /\ Serialize(frame) \in Seq(Byte)
           /\ Len(Serialize(frame)) = frame_size
           /\ Keeps(Body(frame), Serialize(frame))
           /\ Holds(Serialize(frame), crc_offset, crc_size,
                    CalculateCrc32(Body(frame)))
           /\ SubSeq(Serialize(frame), 1, crc_offset) = Body(frame)
<1> DEFINE body == Body(frame)
           all == Serialize(frame)
           sum == CalculateCrc32(body)
<1>1. body \in Seq(Byte) /\ Len(body) = 30
  BY BodyLaidOut DEF crc_offset
<1>2. all = body \o BigEndian(4, sum)
  BY DEF Serialize, crc_size
<1> HIDE DEF body, all, sum
<1>3. Written(all, body, 30, 4, sum)
  <2>1. Continues(all, body, 30, 4, sum)
    BY <1>1, <1>2 DEF Continues
  <2> QED BY <2>1, ChunkWritten
<1>4. SubSeq(all, 1, 30) = body
  <2>1. /\ \A i \in 1..30 : all[i] = body[i]
        /\ \A i \in 1..30 : all[i] \in Byte
    BY <1>1, <1>3, ElementOfSeq DEF Written, Keeps
  <2>2. /\ SubSeq(all, 1, 30) \in Seq(Byte) /\ Len(SubSeq(all, 1, 30)) = 30
        /\ \A i \in 1..30 : SubSeq(all, 1, 30)[i] = all[i]
    BY <2>1, SubSeqProperties
  <2> DEFINE first == SubSeq(all, 1, 30)
  <2> HIDE DEF first
  <2>3. /\ first \in Seq(Byte) /\ Len(first) = Len(body)
        /\ \A i \in 1..Len(first) : first[i] = body[i]
    BY <1>1, <2>1, <2>2 DEF first
  <2>4. first = body
    BY <1>1, <2>3, SeqEqual
  <2> QED BY <2>4 DEF first
<1> QED
  BY <1>3, <1>4
  DEF Written, frame_size, crc_offset, crc_size, body, all, sum

\* The header is that of protocol v1.
HeaderAccepted(bytes) ==
    /\ bytes[1] = Magic[1] /\ bytes[2] = Magic[2]
    /\ bytes[3] = SupportedVersion /\ bytes[4] = SupportedMessageType
    /\ Read(bytes, payload_size_offset, 2) = TelemetryPayloadSize

\* Every check passes.
Accepted(bytes) ==
    Len(bytes) = frame_size /\ HeaderAccepted(bytes) /\ ChecksumMatches(bytes)

\* deserialize returns the frame exactly when every check passes.
LEMMA DeserializeAccepts ==
    ASSUME NEW bytes
    PROVE  /\ Accepted(bytes) =>
                  Deserialize(bytes) =
                      [frame |-> {Extract(bytes)}, error |-> "none"]
           /\ ~Accepted(bytes) => /\ Deserialize(bytes).frame = {}
                                  /\ Deserialize(bytes).error # "none"
<1>1. /\ At(bytes, 0) = bytes[1] /\ At(bytes, 1) = bytes[2]
      /\ At(bytes, version_offset) = bytes[3]
      /\ At(bytes, message_type_offset) = bytes[4]
  BY DEF At, version_offset, message_type_offset
<1> QED BY <1>1 DEF Accepted, HeaderAccepted, Deserialize, Failure

\* A frame of the protocol has bytes for its version and its type.
LEMMA FrameBytes ==
    /\ SupportedVersion \in Byte /\ SupportedMessageType \in Byte
    /\ TelemetryPayloadSize \in Word(8 * 2)
<1>1. Word(8 * 2) = SUBSET (0..15)
  <2>1. 8 * 2 - 1 = 15
    OBVIOUS
  <2> QED BY <2>1 DEF Word
<1> QED
  BY <1>1, Widths
  DEF SupportedVersion, SupportedMessageType, TelemetryPayloadSize

\* Of what is accepted, serialize would have made the same bytes.
LEMMA AcceptedOnce ==
    ASSUME NEW bytes \in Seq(Byte), Accepted(bytes)
    PROVE  Serialize(Extract(bytes)) = bytes
<1> DEFINE frame == Extract(bytes)
           body == Body(frame)
           all == Serialize(frame)
<1>1. /\ Len(bytes) = 34 /\ \A i \in 1..34 : bytes[i] \in Byte
  BY ElementOfSeq DEF Accepted, frame_size
<1>2. /\ frame.version = SupportedVersion
      /\ frame.message_type = SupportedMessageType
      /\ frame.sequence = Read(bytes, sequence_offset, 4)
      /\ frame.timestamp = Read(bytes, timestamp_offset, 8)
      /\ frame.temperature = Read(bytes, temperature_offset, 4)
      /\ frame.pressure = Read(bytes, pressure_offset, 4)
      /\ frame.supply = Read(bytes, supply_voltage_offset, 2)
      /\ frame.flags = Read(bytes, status_flags_offset, 2)
  BY DEF Extract
<1> HIDE DEF frame
<1>3. frame.version \in Byte /\ frame.message_type \in Byte
  BY <1>2, FrameBytes
<1>4. LaidOut(bytes, frame)
  <2>0. /\ HasBytes(bytes, 4, 2) /\ HasBytes(bytes, 6, 4)
        /\ HasBytes(bytes, 10, 8) /\ HasBytes(bytes, 18, 4)
        /\ HasBytes(bytes, 22, 4) /\ HasBytes(bytes, 26, 2)
        /\ HasBytes(bytes, 28, 2)
    BY <1>1 DEF HasBytes
  <2>1. Holds(bytes, 4, 2, Read(bytes, 4, 2))
    BY <2>0, WriteBack
  <2>2. Holds(bytes, 6, 4, Read(bytes, 6, 4))
    BY <2>0, WriteBack
  <2>3. Holds(bytes, 10, 8, Read(bytes, 10, 8))
    BY <2>0, WriteBack
  <2>4. Holds(bytes, 18, 4, Read(bytes, 18, 4))
    BY <2>0, WriteBack
  <2>5. Holds(bytes, 22, 4, Read(bytes, 22, 4))
    BY <2>0, WriteBack
  <2>6. Holds(bytes, 26, 2, Read(bytes, 26, 2))
    BY <2>0, WriteBack
  <2>7. Holds(bytes, 28, 2, Read(bytes, 28, 2))
    BY <2>0, WriteBack
  <2> QED
    BY <1>2, <2>1, <2>2, <2>3, <2>4, <2>5, <2>6, <2>7
    DEF LaidOut, Accepted, HeaderAccepted, payload_size_offset,
        sequence_offset, timestamp_offset, temperature_offset,
        pressure_offset, supply_voltage_offset, status_flags_offset
<1>5. /\ body \in Seq(Byte) /\ Len(body) = 30 /\ LaidOut(body, frame)
  BY <1>3, BodyLaidOut DEF crc_offset
<1>6. \A i \in 1..30 : body[i] = bytes[i]
  <2>1. LaidOut(body, frame)
    BY <1>5
  <2>2. \A i \in 1..crc_offset : body[i] = bytes[i]
    BY <1>4, <2>1, LaidOutOnce
  <2> QED BY <2>2 DEF crc_offset
<1>7. SubSeq(bytes, 1, 30) = body
  <2>1. /\ SubSeq(bytes, 1, 30) \in Seq(Byte)
        /\ Len(SubSeq(bytes, 1, 30)) = 30
        /\ \A i \in 1..30 : SubSeq(bytes, 1, 30)[i] = bytes[i]
    BY <1>1, SubSeqProperties
  <2> HIDE DEF body
  <2> QED BY <1>5, <1>6, <2>1, SeqEqual
<1>8. Holds(bytes, 30, 4, CalculateCrc32(body))
  <2>0. HasBytes(bytes, 30, 4)
    <3>1. \A i \in 1..4 : 30 + i \in 1..34
      OBVIOUS
    <3> QED BY <1>1, <3>1 DEF HasBytes
  <2>1. Holds(bytes, 30, 4, Read(bytes, 30, 4))
    BY <2>0, WriteBack
  <2> QED
    BY <1>7, <2>1
    DEF Accepted, ChecksumMatches, crc_offset, crc_size
<1>9. /\ all \in Seq(Byte) /\ Len(all) = 34 /\ Keeps(body, all)
      /\ Holds(all, 30, 4, CalculateCrc32(body))
  BY <1>3, SerializedLaidOut DEF frame_size, crc_offset, crc_size
<1> HIDE DEF body, all
<1>10. ASSUME NEW i \in 1..34 PROVE all[i] = bytes[i]
  <2>1. CASE i \in 1..30
    BY <1>5, <1>6, <1>9, <2>1 DEF Keeps
  <2>2. CASE i \in 31..34
    <3>1. i - 30 \in 1..4 /\ 30 + (i - 30) = i
      BY <2>2
    <3> QED BY <1>8, <1>9, <3>1 DEF Holds
  <2> QED BY <2>1, <2>2
<1>11. all = bytes
  BY <1>1, <1>9, <1>10, SeqEqual
<1> QED BY <1>11 DEF all, frame

\* What serialize makes of a frame is accepted, and holds its fields.
LEMMA SerializedAccepted ==
    ASSUME NEW frame \in TelemetryFrames
    PROVE  /\ Accepted(Serialize(frame))
           /\ Extract(Serialize(frame)) =
                  [frame EXCEPT !.payload_size = TelemetryPayloadSize]
<1> DEFINE body == Body(frame)
           all == Serialize(frame)
<1>1. /\ frame.version = SupportedVersion
      /\ frame.message_type = SupportedMessageType
      /\ frame.sequence \in Word(32) /\ frame.timestamp \in Word(64)
      /\ frame.temperature \in Word(32) /\ frame.pressure \in Word(32)
      /\ frame.supply \in Word(16) /\ frame.flags \in Word(16)
  BY DEF TelemetryFrames
<1>2. frame.version \in Byte /\ frame.message_type \in Byte
  BY <1>1, FrameBytes
<1>3. /\ body \in Seq(Byte) /\ Len(body) = 30 /\ LaidOut(body, frame)
  BY <1>2, BodyLaidOut DEF crc_offset
<1>4. /\ all \in Seq(Byte) /\ Len(all) = 34 /\ Keeps(body, all)
      /\ Holds(all, 30, 4, CalculateCrc32(body))
      /\ SubSeq(all, 1, 30) = body
  BY <1>2, SerializedLaidOut DEF frame_size, crc_offset, crc_size
<1> HIDE DEF body, all
<1>5. LaidOut(all, frame)
  <2>1. \A i \in 1..30 : all[i] = body[i]
    BY <1>3, <1>4 DEF Keeps
  <2>2. ASSUME NEW offset \in Nat, NEW size \in Nat, NEW word,
               offset + size <= 30, Holds(body, offset, size, word)
        PROVE  Holds(all, offset, size, word)
    BY <2>1, <2>2 DEF Holds
  <2>3. LaidOut(body, frame)
    BY <1>3
  <2>4. /\ all[1] = Magic[1] /\ all[2] = Magic[2]
        /\ all[3] = frame.version /\ all[4] = frame.message_type
    BY <2>1, <2>3 DEF LaidOut
  <2>5. Holds(all, payload_size_offset, 2, TelemetryPayloadSize)
    BY <2>2, <2>3 DEF LaidOut, payload_size_offset
  <2>6. Holds(all, sequence_offset, 4, frame.sequence)
    BY <2>2, <2>3 DEF LaidOut, sequence_offset
  <2>7. Holds(all, timestamp_offset, 8, frame.timestamp)
    BY <2>2, <2>3 DEF LaidOut, timestamp_offset
  <2>8. Holds(all, temperature_offset, 4, frame.temperature)
    BY <2>2, <2>3 DEF LaidOut, temperature_offset
  <2>9. Holds(all, pressure_offset, 4, frame.pressure)
    BY <2>2, <2>3 DEF LaidOut, pressure_offset
  <2>10. Holds(all, supply_voltage_offset, 2, frame.supply)
    BY <2>2, <2>3 DEF LaidOut, supply_voltage_offset
  <2>11. Holds(all, status_flags_offset, 2, frame.flags)
    BY <2>2, <2>3 DEF LaidOut, status_flags_offset
  <2> QED
    BY <2>4, <2>5, <2>6, <2>7, <2>8, <2>9, <2>10, <2>11 DEF LaidOut
<1>6. 8 * 2 = 16 /\ 8 * 4 = 32 /\ 8 * 8 = 64
  OBVIOUS
<1>7. Read(all, payload_size_offset, 2) = TelemetryPayloadSize
  BY <1>5, FrameBytes, ReadBack DEF LaidOut, payload_size_offset
<1>8. Read(all, sequence_offset, 4) = frame.sequence
  BY <1>1, <1>5, <1>6, ReadBack DEF LaidOut, sequence_offset
<1>9. Read(all, timestamp_offset, 8) = frame.timestamp
  BY <1>1, <1>5, <1>6, ReadBack DEF LaidOut, timestamp_offset
<1>10. Read(all, temperature_offset, 4) = frame.temperature
  BY <1>1, <1>5, <1>6, ReadBack DEF LaidOut, temperature_offset
<1>11. Read(all, pressure_offset, 4) = frame.pressure
  BY <1>1, <1>5, <1>6, ReadBack DEF LaidOut, pressure_offset
<1>12. Read(all, supply_voltage_offset, 2) = frame.supply
  BY <1>1, <1>5, <1>6, ReadBack DEF LaidOut, supply_voltage_offset
<1>13. Read(all, status_flags_offset, 2) = frame.flags
  BY <1>1, <1>5, <1>6, ReadBack DEF LaidOut, status_flags_offset
<1>14. ChecksumMatches(all)
  <2>1. CalculateCrc32(body) \in Word(8 * 4)
    BY <1>3, <1>6, ChecksumTyped
  <2>2. Read(all, 30, 4) = CalculateCrc32(body)
    BY <1>4, <2>1, ReadBack
  <2> QED BY <1>4, <2>2 DEF ChecksumMatches, crc_offset, crc_size
<1>15. Accepted(all)
  BY <1>1, <1>4, <1>5, <1>7, <1>14
  DEF Accepted, HeaderAccepted, LaidOut, frame_size
<1>16. Extract(all) = [frame EXCEPT !.payload_size = TelemetryPayloadSize]
  BY <1>1, <1>7, <1>8, <1>9, <1>10, <1>11, <1>12, <1>13
  DEF Extract, TelemetryFrames
<1> QED BY <1>15, <1>16 DEF all

\* deserialize inverts serialize, for every frame and every value of its
\* fields: bit for bit, signs and byte orders included.
THEOREM RoundTrip ==
    \A frame \in TelemetryFrames :
        Deserialize(Serialize(frame)) =
            [frame |-> {[frame EXCEPT !.payload_size = TelemetryPayloadSize]},
             error |-> "none"]
<1> TAKE frame \in TelemetryFrames
<1> QED BY SerializedAccepted, DeserializeAccepts

-----------------------------------------------------------------------------
(* The validator in Python.                                                 *)

\* The sixteen digits of both programs are the same, and all different.
LEMMA DigitsAgree ==
    /\ DOMAIN HexadecimalDigits = 1..16
    /\ \A d \in 1..16 : HexadecimalDigits[d] = hexadecimal_digits[d]
    /\ \A d, e \in 1..16 :
           hexadecimal_digits[d] = hexadecimal_digits[e] => d = e
<1> DEFINE letters == <<"A", "B", "C", "D", "E", "F">>
           S == {"0", "1", "2", "3", "4", "5", "6", "7", "8", "9",
                 "A", "B", "C", "D", "E", "F"}
<1>1. /\ DecimalDigits \in Seq(S) /\ Len(DecimalDigits) = 10
      /\ letters \in Seq(S) /\ Len(letters) = 6
  BY DEF DecimalDigits
<1>2. HexadecimalDigits = DecimalDigits \o letters
  BY DEF HexadecimalDigits
<1> HIDE DEF letters, S
<1>3. /\ HexadecimalDigits \in Seq(S) /\ Len(HexadecimalDigits) = 16
      /\ \A d \in 1..16 : HexadecimalDigits[d] =
             IF d <= 10 THEN DecimalDigits[d] ELSE letters[d - 10]
  <2> DEFINE all == DecimalDigits \o letters
  <2>1. /\ all \in Seq(S) /\ Len(all) = Len(DecimalDigits) + Len(letters)
        /\ \A d \in 1..(Len(DecimalDigits) + Len(letters)) : all[d] =
               IF d <= Len(DecimalDigits) THEN DecimalDigits[d]
               ELSE letters[d - Len(DecimalDigits)]
    BY <1>1, ConcatProperties
  <2> HIDE DEF all
  <2>2. Len(DecimalDigits) + Len(letters) = 16
    BY <1>1
  <2>3. HexadecimalDigits = all
    BY <1>2 DEF all
  <2> QED BY <1>1, <2>1, <2>2, <2>3
<1>4. DOMAIN HexadecimalDigits = 1..16
  BY <1>3, LenProperties
<1>5. \A d \in 1..10 : DecimalDigits[d] = hexadecimal_digits[d]
  BY DEF DecimalDigits, hexadecimal_digits
<1>6. \A d \in 11..16 : letters[d - 10] = hexadecimal_digits[d]
  BY DEF letters, hexadecimal_digits
<1>7. \A d, e \in 1..16 :
          hexadecimal_digits[d] = hexadecimal_digits[e] => d = e
  BY SMTT(30) DEF hexadecimal_digits
<1>8. ASSUME NEW d \in 1..16
      PROVE  HexadecimalDigits[d] = hexadecimal_digits[d]
  BY <1>3, <1>5, <1>6
<1> QED BY <1>4, <1>7, <1>8

\* The number that four bits write has these bits.
LEMMA NibbleBits ==
    ASSUME NEW bits \in SUBSET (0..3)
    PROVE  /\ Nibble(bits) \in 0..15
           /\ \A j \in 0..3 :
                  (Nibble(bits) \div Weights[j + 1]) % 2 = 1 <=> j \in bits
<1>1. Weights[1] = 1 /\ Weights[2] = 2 /\ Weights[3] = 4 /\ Weights[4] = 8
  BY DEF Weights
<1> DEFINE n == Nibble(bits)
<1>2. /\ n \in 0..15
      /\ (n \div 1) % 2 = 1 <=> 0 \in bits
      /\ (n \div 2) % 2 = 1 <=> 1 \in bits
      /\ (n \div 4) % 2 = 1 <=> 2 \in bits
      /\ (n \div 8) % 2 = 1 <=> 3 \in bits
  BY DEF Nibble
<1> HIDE DEF n
<1>3. ASSUME NEW j \in 0..3
      PROVE  (n \div Weights[j + 1]) % 2 = 1 <=> j \in bits
  <2>1. CASE j = 0
    BY <1>1, <1>2, <2>1
  <2>2. CASE j = 1
    BY <1>1, <1>2, <2>2
  <2>3. CASE j = 2
    BY <1>1, <1>2, <2>3
  <2>4. CASE j = 3
    BY <1>1, <1>2, <2>4
  <2> QED BY <2>1, <2>2, <2>3, <2>4
<1> QED BY <1>2, <1>3 DEF n

\* A digit is decoded to the number it was made of.
LEMMA DigitDecoded ==
    ASSUME NEW bits \in SUBSET (0..3)
    PROVE  (CHOOSE d \in DOMAIN HexadecimalDigits :
                HexadecimalDigits[d] = Digit(bits)) - 1 = Nibble(bits)
<1>1. Nibble(bits) + 1 \in 1..16
  BY NibbleBits
<1>2. HexadecimalDigits[Nibble(bits) + 1] = Digit(bits)
  BY <1>1, DigitsAgree DEF Digit
<1>3. ASSUME NEW d \in DOMAIN HexadecimalDigits,
             HexadecimalDigits[d] = Digit(bits)
      PROVE  d = Nibble(bits) + 1
  BY <1>1, <1>2, <1>3, DigitsAgree
<1>4. (CHOOSE d \in DOMAIN HexadecimalDigits :
          HexadecimalDigits[d] = Digit(bits)) = Nibble(bits) + 1
  BY <1>1, <1>2, <1>3, DigitsAgree
<1> DEFINE chosen == CHOOSE d \in DOMAIN HexadecimalDigits :
                         HexadecimalDigits[d] = Digit(bits)
<1> HIDE DEF chosen
<1>5. Nibble(bits) \in Int
  BY NibbleBits
<1>6. chosen = Nibble(bits) + 1
  BY <1>4 DEF chosen
<1>7. chosen - 1 = Nibble(bits)
  BY <1>5, <1>6
<1> QED BY <1>7 DEF chosen

\* The halves of a byte are four bits each.
LEMMA Halves ==
    ASSUME NEW byte \in Byte
    PROVE  /\ HighHalf(byte) \in SUBSET (0..3)
           /\ LowHalf(byte) \in SUBSET (0..3)
           /\ \A bit \in 4..7 : bit - 4 \in HighHalf(byte) <=> bit \in byte
           /\ \A bit \in 0..3 : bit \in LowHalf(byte) <=> bit \in byte
BY Widths DEF HighHalf, LowHalf

\* Formatting writes two digits for each byte.
LEMMA FormatTyped ==
    ASSUME NEW bytes \in Seq(Byte)
    PROVE  /\ Len(Format(bytes)) = 2 * Len(bytes)
           /\ \A k \in 1..Len(bytes) :
                  /\ Format(bytes)[2 * k - 1] = Digit(HighHalf(bytes[k]))
                  /\ Format(bytes)[2 * k] = Digit(LowHalf(bytes[k]))
<1> DEFINE N == Len(bytes)
           S == {Digit(bits) : bits \in SUBSET (0..3)}
           digit(i) == Digit(IF i % 2 = 1 THEN HighHalf(bytes[(i + 1) \div 2])
                             ELSE LowHalf(bytes[(i + 1) \div 2]))
<1>1. N \in Nat /\ \A k \in 1..N : bytes[k] \in Byte
  BY LenProperties, ElementOfSeq
<1>2. Format(bytes) = [i \in 1..(2 * N) |-> digit(i)]
  BY DEF Format
<1> HIDE DEF N
<1>3. ASSUME NEW i \in 1..(2 * N) PROVE digit(i) \in S
  <2>1. (i + 1) \div 2 \in 1..N
    BY <1>1
  <2>2. /\ HighHalf(bytes[(i + 1) \div 2]) \in SUBSET (0..3)
        /\ LowHalf(bytes[(i + 1) \div 2]) \in SUBSET (0..3)
    BY <1>1, <2>1, Halves
  <2>3. CASE i % 2 = 1
    BY <2>2, <2>3
  <2>4. CASE i % 2 # 1
    BY <2>2, <2>4
  <2> QED BY <2>3, <2>4
<1>4. Format(bytes) \in [1..(2 * N) -> S]
  BY <1>2, <1>3
<1> HIDE DEF S
<1>5. Len(Format(bytes)) = 2 * N
  <2>1. 2 * N \in Nat
    BY <1>1
  <2>2. Format(bytes) \in Seq(S) /\ DOMAIN Format(bytes) = 1..(2 * N)
    BY <1>4, <2>1, SeqDef
  <2> QED BY <2>1, <2>2, LenProperties
<1>6. ASSUME NEW k \in 1..N
      PROVE  /\ Format(bytes)[2 * k - 1] = Digit(HighHalf(bytes[k]))
             /\ Format(bytes)[2 * k] = Digit(LowHalf(bytes[k]))
  <2>1. /\ 2 * k - 1 \in 1..(2 * N) /\ 2 * k \in 1..(2 * N)
        /\ (2 * k - 1) % 2 = 1 /\ (2 * k) % 2 = 0
        /\ (2 * k - 1 + 1) \div 2 = k /\ (2 * k + 1) \div 2 = k
    BY <1>1
  <2> QED BY <1>2, <2>1
<1> QED BY <1>5, <1>6 DEF N

\* What the firmware formats, bytes.fromhex reads back.
LEMMA FromHexOfFormat ==
    ASSUME NEW bytes \in Seq(Byte)
    PROVE  FromHex(Format(bytes)) = bytes
<1> DEFINE N == Len(bytes)
           encoded == Format(bytes)
           number(i) == (CHOOSE d \in DOMAIN HexadecimalDigits :
                             HexadecimalDigits[d] = encoded[i]) - 1
           half(k, bit) == IF bit >= 4 THEN number(2 * k - 1)
                           ELSE number(2 * k)
           byte(k) == {bit \in 0..7 :
                          (half(k, bit) \div Weights[(bit % 4) + 1]) % 2 = 1}
<1>1. /\ N \in Nat /\ bytes \in [1..N -> Byte]
      /\ \A k \in 1..N : bytes[k] \in Byte
  BY LenProperties, ElementOfSeq
<1>2. Len(encoded) \div 2 = N
  <2>1. Len(encoded) = 2 * N
    BY FormatTyped
  <2> HIDE DEF encoded, N
  <2>2. (2 * N) \div 2 = N
    BY <1>1
  <2> QED BY <2>1, <2>2
<1>3. FromHex(encoded) = [k \in 1..N |-> byte(k)]
  BY <1>2 DEF FromHex
<1>4. ASSUME NEW k \in 1..N PROVE byte(k) = bytes[k]
  <2>1. /\ encoded[2 * k - 1] = Digit(HighHalf(bytes[k]))
        /\ encoded[2 * k] = Digit(LowHalf(bytes[k]))
    BY FormatTyped
  <2>2. /\ HighHalf(bytes[k]) \in SUBSET (0..3)
        /\ LowHalf(bytes[k]) \in SUBSET (0..3)
        /\ \A bit \in 4..7 :
               bit - 4 \in HighHalf(bytes[k]) <=> bit \in bytes[k]
        /\ \A bit \in 0..3 : bit \in LowHalf(bytes[k]) <=> bit \in bytes[k]
    BY <1>1, Halves
  <2>3. /\ number(2 * k - 1) = Nibble(HighHalf(bytes[k]))
        /\ number(2 * k) = Nibble(LowHalf(bytes[k]))
    BY <2>1, <2>2, DigitDecoded
  <2> HIDE DEF number
  <2>4. ASSUME NEW bit \in 0..7
        PROVE  (half(k, bit) \div Weights[(bit % 4) + 1]) % 2 = 1
                   <=> bit \in bytes[k]
    <3>1. CASE bit >= 4
      <4>1. bit % 4 = bit - 4 /\ bit - 4 \in 0..3 /\ bit \in 4..7
        BY <3>1
      <4>2. (Nibble(HighHalf(bytes[k])) \div Weights[bit - 4 + 1]) % 2 = 1
                <=> bit - 4 \in HighHalf(bytes[k])
        BY <2>2, <4>1, NibbleBits
      <4> QED BY <2>2, <2>3, <3>1, <4>1, <4>2
    <3>2. CASE ~(bit >= 4)
      <4>1. bit % 4 = bit /\ bit \in 0..3
        BY <3>2
      <4>2. (Nibble(LowHalf(bytes[k])) \div Weights[bit + 1]) % 2 = 1
                <=> bit \in LowHalf(bytes[k])
        BY <2>2, <4>1, NibbleBits
      <4> QED BY <2>2, <2>3, <3>2, <4>1, <4>2
    <3> QED BY <3>1, <3>2
  <2>5. bytes[k] \subseteq 0..7
    BY <1>1, Widths
  <2> HIDE DEF half
  <2> QED BY <2>4, <2>5
<1> HIDE DEF byte, encoded, N
<1>5. [k \in 1..N |-> byte(k)] = bytes
  BY <1>1, <1>4
<1> QED BY <1>3, <1>5 DEF encoded

\* int.from_bytes reads what read_u16 and read_u32 read.
LEMMA FromBytesReads ==
    ASSUME NEW first \in Nat, NEW size \in Nat, NEW bytes,
           HasBytes(bytes, first, size)
    PROVE  FromBytes(bytes, first, first + size) = Read(bytes, first, size)
<1> DEFINE last == first + size
<1>1. ASSUME NEW i \in (first + 1)..last, NEW bit \in bytes[i]
      PROVE  bit + 8 * (last - i) \in Read(bytes, first, size)
  <2> DEFINE x == bit + 8 * (last - i)
  <2>1. bytes[i] \subseteq 0..7
    <3>1. i - first \in 1..size /\ first + (i - first) = i
      OBVIOUS
    <3> QED BY <3>1, Widths DEF HasBytes
  <2>2. /\ x \in 0..(8 * size - 1) /\ x % 8 = bit
        /\ first + size - 1 - x \div 8 + 1 = i
    BY <2>1, SMTT(30)
  <2> HIDE DEF x
  <2>3. x \in Read(bytes, first, size)
    BY <2>2 DEF Read, At
  <2> QED BY <2>3 DEF x
<1>2. ASSUME NEW x \in Read(bytes, first, size)
      PROVE  x \in FromBytes(bytes, first, last)
  <2> DEFINE i == last - x \div 8
             bit == x % 8
  <2>1. /\ x \in 0..(8 * size - 1)
        /\ bit \in bytes[first + size - 1 - x \div 8 + 1]
    BY DEF Read, At
  <2>2. /\ i \in (first + 1)..last /\ bit + 8 * (last - i) = x
        /\ first + size - 1 - x \div 8 + 1 = i
    BY <2>1
  <2>3. bit \in bytes[i]
    BY <2>1, <2>2
  <2> HIDE DEF i, bit
  <2> QED BY <2>2, <2>3 DEF FromBytes
<1> QED BY <1>1, <1>2 DEF FromBytes

\* The Python loop's turns are those of the C++ loop.
LEMMA SameTurns ==
    ASSUME NEW crc \in Word(32) PROVE NextCrc(crc) = NextBit(crc)
<1>1. NextBit(crc) \subseteq 0..31
  BY NextBitTyped, Widths
<1>2. CRC_POLYNOMIAL = Polynomial
  BY DEF CRC_POLYNOMIAL, Polynomial
<1>3. Polynomial \cap (0..31) = Polynomial /\ Polynomial \cap {} = {}
  BY DEF Polynomial
<1> HIDE DEF NextBit
<1>4. CASE 0 \in crc
  BY <1>1, <1>2, <1>3, <1>4 DEF NextCrc, NextBit, ShiftRight
<1>5. CASE 0 \notin crc
  BY <1>1, <1>2, <1>3, <1>5 DEF NextCrc, NextBit, ShiftRight
<1> QED BY <1>4, <1>5

\* And so is what they make of a byte.
LEMMA SameBytes ==
    ASSUME NEW crc \in Word(32), NEW byte \in Byte
    PROVE  CrcOfByte(crc, byte) = NextByte(crc, byte)
<1> DEFINE turns == [turn \in 1..8 |-> [int \in SUBSET (0..31) |-> NextCrc(int)]]
<1>1. turns = Turning
  BY SameTurns, Widths DEF Turning
<1> QED BY <1>1 DEF CrcOfByte, NextByte, Turning

\* The two implementations of the checksum compute the same.
LEMMA SameCrc ==
    ASSUME NEW bytes \in Seq(Byte) PROVE Crc(bytes) = CalculateCrc32(bytes)
<1> DEFINE loop == [i \in 1..Len(bytes) |->
                       [crc \in SUBSET (0..31) |-> CrcOfByte(crc, bytes[i])]]
<1>1. \A i \in 1..Len(bytes) : bytes[i] \in Byte
  BY ElementOfSeq
<1>2. loop = Absorb(bytes)
  BY <1>1, SameBytes, Widths DEF Absorb
<1>3. CRC_INITIAL = InitialValue /\ CRC_FINAL_XOR = FinalXor
  BY DEF CRC_INITIAL, InitialValue, CRC_FINAL_XOR, FinalXor
<1> QED BY <1>2, <1>3 DEF Crc, CalculateCrc32

\* What the Python checks say of a frame's bytes is what deserialize says.
LEMMA SameChecks ==
    ASSUME NEW bytes \in Seq(Byte), Len(bytes) = frame_size
    PROVE  HasValidHeaders(bytes) /\ HasValidCrc(bytes) <=> Accepted(bytes)
<1>1. \A i \in 1..34 : bytes[i] \in Byte
  BY ElementOfSeq DEF frame_size
<1>2. HasBytes(bytes, 4, 2) /\ HasBytes(bytes, 30, 4)
  <2>1. \A i \in 1..4 : 30 + i \in 1..34
    OBVIOUS
  <2>2. \A i \in 1..2 : 4 + i \in 1..34
    OBVIOUS
  <2> QED BY <1>1, <2>1, <2>2 DEF HasBytes
<1>3. FromBytes(bytes, 4, 4 + 2) = Read(bytes, 4, 2)
  BY <1>2, FromBytesReads
<1>4. FromBytes(bytes, 30, 30 + 4) = Read(bytes, 30, 4)
  BY <1>2, FromBytesReads
<1>5. 4 + 2 = 6 /\ 30 + 4 = 34
  OBVIOUS
<1>6. HasValidHeaders(bytes) <=> HeaderAccepted(bytes)
  BY <1>3, <1>5
  DEF HasValidHeaders, HeaderAccepted, Magic, SupportedVersion,
      SupportedMessageType, TelemetryPayloadSize, payload_size_offset
<1>7. HasValidCrc(bytes) <=> ChecksumMatches(bytes)
  <2>1. CalculatedCrc(bytes) = CalculateCrc32(SubSeq(bytes, 1, 30))
    <3>1. SubSeq(bytes, 1, 30) \in Seq(Byte)
      BY <1>1, SubSeqProperties DEF frame_size
    <3> QED BY <3>1, SameCrc DEF CalculatedCrc, CRC_OFFSET
  <2> QED BY <1>4, <1>5, <2>1
      DEF HasValidCrc, ChecksumMatches, CRC_OFFSET, FRAME_SIZE, crc_offset,
          crc_size
<1> QED BY <1>6, <1>7 DEF Accepted

\* The two implementations of the protocol accept the same byte strings, of
\* any length and content.
THEOREM ImplementationsAgree ==
    \A bytes \in Seq(Byte) :
        (/\ ValidateFrameEncodingAndHeaders(Format(bytes))
         /\ HasValidCrc(FromHex(Format(bytes))))
            <=> Deserialize(bytes).error = "none"
<1> TAKE bytes \in Seq(Byte)
<1>1. FromHex(Format(bytes)) = bytes
  BY FromHexOfFormat
<1>2. Len(Format(bytes)) = 2 * FRAME_SIZE <=> Len(bytes) = frame_size
  <2>1. Len(bytes) \in Nat
    BY LenProperties
  <2>2. Len(Format(bytes)) = 2 * Len(bytes)
    BY FormatTyped
  <2> DEFINE n == Len(bytes)
  <2> HIDE DEF n
  <2>3. n \in Nat
    BY <2>1 DEF n
  <2>4. 2 * n = 68 <=> n = 34
    BY <2>3
  <2>5. 2 * FRAME_SIZE = 68 /\ frame_size = 34
    BY DEF FRAME_SIZE, frame_size
  <2> QED BY <2>2, <2>4, <2>5 DEF n
<1>3. Deserialize(bytes).error = "none" <=> Accepted(bytes)
  BY DeserializeAccepts
<1>4. Accepted(bytes) => Len(bytes) = frame_size
  BY DEF Accepted
<1> QED
  BY <1>1, <1>2, <1>3, <1>4, SameChecks DEF ValidateFrameEncodingAndHeaders

-----------------------------------------------------------------------------
(* What the checks see of one wrong byte.                                   *)

\* A frame with one byte replaced.
LEMMA Replaced ==
    ASSUME NEW bytes \in Seq(Byte), NEW place, NEW byte \in Byte
    PROVE  /\ [bytes EXCEPT ![place] = byte] \in Seq(Byte)
           /\ Len([bytes EXCEPT ![place] = byte]) = Len(bytes)
           /\ \A i \in 1..Len(bytes) :
                  [bytes EXCEPT ![place] = byte][i] =
                      IF i = place THEN byte ELSE bytes[i]
<1>1. CASE place \in 1..Len(bytes)
  BY <1>1, ExceptSeq
<1>2. CASE place \notin 1..Len(bytes)
  <2>1. bytes \in [1..Len(bytes) -> Byte]
    BY LenProperties
  <2>2. [bytes EXCEPT ![place] = byte] = bytes
    BY <1>2, <2>1
  <2> QED BY <1>2, <2>2
<1> QED BY <1>1, <1>2

\* A field is read from its own bytes.
LEMMA ReadTheSame ==
    ASSUME NEW offset \in Nat, NEW size \in Nat, NEW a, NEW b,
           \A i \in 1..size : a[offset + i] = b[offset + i]
    PROVE  Read(a, offset, size) = Read(b, offset, size)
<1>1. ASSUME NEW bit \in 0..(8 * size - 1)
      PROVE  At(a, offset + size - 1 - bit \div 8) =
                 At(b, offset + size - 1 - bit \div 8)
  <2> DEFINE i == size - bit \div 8
  <2>1. /\ i \in 1..size
        /\ offset + size - 1 - bit \div 8 + 1 = offset + i
    OBVIOUS
  <2> HIDE DEF i
  <2> QED BY <2>1 DEF At
<1> QED BY <1>1 DEF Read

\* The parts of a frame as the checks take it apart.
LEMMA FrameParts ==
    ASSUME NEW bytes \in Seq(Byte), Len(bytes) = frame_size
    PROVE  /\ SubSeq(bytes, 1, 30) \in Seq(Byte)
           /\ Len(SubSeq(bytes, 1, 30)) = 30
           /\ \A i \in 1..30 : SubSeq(bytes, 1, 30)[i] = bytes[i]
           /\ HasBytes(bytes, 30, 4)
           /\ ChecksumMatches(bytes) <=>
                  Read(bytes, 30, 4) = CalculateCrc32(SubSeq(bytes, 1, 30))
<1>1. Len(bytes) = 34 /\ \A i \in 1..34 : bytes[i] \in Byte
  BY ElementOfSeq DEF frame_size
<1>2. HasBytes(bytes, 30, 4)
  <2>1. \A i \in 1..4 : 30 + i \in 1..34
    OBVIOUS
  <2> QED BY <1>1, <2>1 DEF HasBytes
<1>3. /\ SubSeq(bytes, 1, 30) \in Seq(Byte)
      /\ Len(SubSeq(bytes, 1, 30)) = 30
      /\ \A i \in 1..30 : SubSeq(bytes, 1, 30)[i] = bytes[i]
  BY <1>1, SubSeqProperties
<1> QED BY <1>2, <1>3 DEF ChecksumMatches, crc_offset, crc_size

\* The checksum is read from its own bytes.
LEMMA ChecksumReadTheSame ==
    ASSUME NEW a, NEW b, \A i \in 1..4 : a[30 + i] = b[30 + i]
    PROVE  Read(a, 30, 4) = Read(b, 30, 4)
<1> DEFINE offset == 30
           size == 4
<1>1. /\ offset \in Nat /\ size \in Nat
      /\ \A i \in 1..size : a[offset + i] = b[offset + i]
  OBVIOUS
<1> HIDE DEF offset, size
<1>2. Read(a, offset, size) = Read(b, offset, size)
  BY <1>1, ReadTheSame
<1> QED BY <1>2 DEF offset, size

\* The same body has no other checksum.
LEMMA ChecksumIsSeen ==
    ASSUME NEW bytes \in Seq(Byte), NEW other \in Seq(Byte),
           Len(bytes) = frame_size, Len(other) = frame_size,
           \A i \in 1..30 : other[i] = bytes[i],
           ChecksumMatches(bytes), ChecksumMatches(other)
    PROVE  other = bytes
<1> DEFINE body == SubSeq(bytes, 1, 30)
           otherBody == SubSeq(other, 1, 30)
<1>1. /\ body \in Seq(Byte) /\ Len(body) = 30
      /\ otherBody \in Seq(Byte) /\ Len(otherBody) = 30
      /\ \A i \in 1..30 : body[i] = bytes[i] /\ otherBody[i] = other[i]
      /\ HasBytes(bytes, 30, 4) /\ HasBytes(other, 30, 4)
      /\ Read(bytes, 30, 4) = CalculateCrc32(body)
      /\ Read(other, 30, 4) = CalculateCrc32(otherBody)
  BY FrameParts
<1> HIDE DEF body, otherBody
<1>2. otherBody = body
  <2>1. \A i \in 1..Len(otherBody) : otherBody[i] = body[i]
    BY <1>1
  <2>2. Len(otherBody) = Len(body)
    BY <1>1
  <2> QED BY <1>1, <2>1, <2>2, SeqEqual
<1>3. Read(other, 30, 4) = Read(bytes, 30, 4)
  BY <1>1, <1>2
<1>4. /\ Holds(bytes, 30, 4, Read(bytes, 30, 4))
      /\ Holds(other, 30, 4, Read(other, 30, 4))
  BY <1>1, WriteBack
<1>5. \A i \in 1..4 : other[30 + i] = bytes[30 + i]
  BY <1>3, <1>4 DEF Holds
<1>6. Len(bytes) = 34 /\ Len(other) = 34
  BY DEF frame_size
<1>7. ASSUME NEW i \in 1..34 PROVE other[i] = bytes[i]
  <2>1. CASE i \in 1..30
    BY <2>1
  <2>2. CASE i \in 31..34
    <3>1. i - 30 \in 1..4 /\ 30 + (i - 30) = i
      BY <2>2
    <3> QED BY <1>5, <3>1
  <2> QED BY <2>1, <2>2
<1> QED BY <1>6, <1>7, SeqEqual

\* The checksum of a frame matches no longer once any one of its bytes is
\* replaced by another one, be it covered by the checksum or part of it.
LEMMA ReplacedIsSeen ==
    ASSUME NEW bytes \in Seq(Byte), Len(bytes) = frame_size,
           NEW place \in 1..frame_size, NEW byte \in Byte,
           byte # bytes[place], ChecksumMatches(bytes)
    PROVE  ~ChecksumMatches([bytes EXCEPT ![place] = byte])
<1> DEFINE other == [bytes EXCEPT ![place] = byte]
           body == SubSeq(bytes, 1, 30)
           otherBody == SubSeq(other, 1, 30)
<1>1. /\ other \in Seq(Byte) /\ Len(other) = frame_size
      /\ \A i \in 1..34 : other[i] = IF i = place THEN byte ELSE bytes[i]
      /\ place \in 1..34
  BY Replaced DEF frame_size
<1> HIDE DEF other
<1>2. other[place] = byte /\ \A i \in 1..34 : i # place => other[i] = bytes[i]
  BY <1>1
<1> SUFFICES ASSUME ChecksumMatches(other) PROVE FALSE
  BY DEF other
<1>3. /\ body \in Seq(Byte) /\ Len(body) = 30
      /\ otherBody \in Seq(Byte) /\ Len(otherBody) = 30
      /\ \A i \in 1..30 : body[i] = bytes[i] /\ otherBody[i] = other[i]
      /\ Read(bytes, 30, 4) = CalculateCrc32(body)
      /\ Read(other, 30, 4) = CalculateCrc32(otherBody)
  BY <1>1, FrameParts
<1> HIDE DEF body, otherBody
<1>4. CASE place \in 1..30
  <2>1. \A i \in 1..4 : 30 + i \in 1..34 /\ 30 + i # place
    BY <1>4
  <2>2. \A i \in 1..4 : other[30 + i] = bytes[30 + i]
    BY <1>2, <2>1
  <2>3. Read(other, 30, 4) = Read(bytes, 30, 4)
    BY <2>2, ChecksumReadTheSame
  <2>4. \A i \in 1..30 : i \in 1..34
    OBVIOUS
  <2>5. \A i \in 1..30 : i # place => otherBody[i] = body[i]
    BY <1>2, <1>3, <2>4
  <2>6. otherBody[place] # body[place]
    BY <1>2, <1>3, <1>4
  <2>7. /\ place \in 1..Len(body) /\ Len(otherBody) = Len(body)
        /\ \A i \in 1..Len(body) : i # place => otherBody[i] = body[i]
    BY <1>3, <1>4, <2>5
  <2>8. CalculateCrc32(otherBody) # CalculateCrc32(body)
    BY <1>3, <2>6, <2>7, ChecksumSeesOneByte
  <2> QED BY <1>3, <2>3, <2>8
<1>5. CASE place \in 31..34
  <2>1. \A i \in 1..30 : i \in 1..34 /\ i # place
    BY <1>5
  <2>2. \A i \in 1..30 : other[i] = bytes[i]
    BY <1>2, <2>1
  <2> QED BY <1>1, <1>2, <2>2, ChecksumIsSeen
<1> QED BY <1>1, <1>4, <1>5

\* A frame that deserialize would accept is refused when any one of its bytes
\* is replaced, wherever it is.
THEOREM OneWrongByteIsRefused ==
    \A frame \in TelemetryFrames, place \in 1..frame_size, byte \in Byte :
        byte # Serialize(frame)[place]
            => Deserialize([Serialize(frame) EXCEPT ![place] = byte]).frame
                   = {}
<1> TAKE frame \in TelemetryFrames, place \in 1..frame_size, byte \in Byte
<1> HAVE byte # Serialize(frame)[place]
<1> DEFINE bytes == Serialize(frame)
<1>1. frame.version \in Byte /\ frame.message_type \in Byte
  BY FrameBytes DEF TelemetryFrames
<1>2. bytes \in Seq(Byte) /\ Len(bytes) = frame_size
  BY <1>1, SerializedLaidOut
<1>3. ChecksumMatches(bytes)
  BY SerializedAccepted DEF Accepted
<1> HIDE DEF bytes
<1>4. byte # bytes[place]
  BY DEF bytes
<1>5. ~Accepted([bytes EXCEPT ![place] = byte])
  BY <1>2, <1>3, <1>4, ReplacedIsSeen DEF Accepted
<1>6. Deserialize([bytes EXCEPT ![place] = byte]).frame = {}
  BY <1>5, DeserializeAccepts
<1> QED BY <1>6 DEF bytes

-----------------------------------------------------------------------------
(* What the checks see of two wrong bytes.  Exclusive or goes through the   *)
(* whole computation: what is wrong in the register after some bytes is     *)
(* what the wrong bits alone would have made of an empty one.               *)

\* Three loops, of which the third starts when the others have made some
\* turns.  What relates their values then, and is kept by every turn, relates
\* what they return.
LEMMA IterateRelated ==
    ASSUME NEW D, NEW R, NEW step, NEW base, NEW other, NEW start,
           NEW third, NEW origin, NEW N, NEW first \in 0..N,
           StaysIn(D, step, base, N), StaysIn(D, other, start, N),
           StaysIn(D, third, origin, N - first),
           <<Iterate(step, base, first), Iterate(other, start, first),
             origin>> \in R,
           \A m \in 1..(N - first) : \A c, d, e \in D :
               <<c, d, e>> \in R =>
                   <<step[first + m][c], other[first + m][d], third[m][e]>>
                       \in R
    PROVE  <<Iterate(step, base, N), Iterate(other, start, N),
             Iterate(third, origin, N - first)>> \in R
<1> DEFINE mine(n) == Iterate(step, base, n)
           theirs(n) == Iterate(other, start, n)
           apart(n) == Iterate(third, origin, n)
           S == {m \in Nat : first + m <= N =>
                    <<mine(first + m), theirs(first + m), apart(m)>> \in R}
<1> N \in Nat
  BY DEF StaysIn
<1>1. /\ \A n \in 1..N : mine(n) = step[n][mine(n - 1)]
      /\ \A n \in 0..N : mine(n) \in D
  BY IterateTurns
<1>2. /\ \A n \in 1..N : theirs(n) = other[n][theirs(n - 1)]
      /\ \A n \in 0..N : theirs(n) \in D
  BY IterateTurns
<1>3. /\ apart(0) = origin
      /\ \A n \in 1..(N - first) : apart(n) = third[n][apart(n - 1)]
      /\ \A n \in 0..(N - first) : apart(n) \in D
  BY IterateTurns
<1>4. <<mine(first), theirs(first), apart(0)>> \in R
  BY <1>3
<1> HIDE DEF mine, theirs, apart
<1>5. 0 \in S
  BY <1>4
<1>6. ASSUME NEW m \in S, first + (m + 1) <= N
      PROVE  <<mine(first + (m + 1)), theirs(first + (m + 1)), apart(m + 1)>>
                 \in R
  <2> DEFINE k == first + (m + 1)
             n == m + 1
  <2>1. /\ k \in 1..N /\ k - 1 = first + m /\ k - 1 \in 0..N
        /\ n \in 1..(N - first) /\ n - 1 = m /\ n - 1 \in 0..(N - first)
        /\ k = first + n
    BY <1>6
  <2>2. <<mine(k - 1), theirs(k - 1), apart(n - 1)>> \in R
    BY <1>6, <2>1
  <2> HIDE DEF k, n
  <2>3. /\ mine(k) = step[k][mine(k - 1)] /\ mine(k - 1) \in D
        /\ theirs(k) = other[k][theirs(k - 1)] /\ theirs(k - 1) \in D
        /\ apart(n) = third[n][apart(n - 1)] /\ apart(n - 1) \in D
    BY <1>1, <1>2, <1>3, <2>1
  <2>4. <<step[first + n][mine(k - 1)], other[first + n][theirs(k - 1)],
          third[n][apart(n - 1)]>> \in R
    BY <2>1, <2>2, <2>3
  <2>5. <<mine(k), theirs(k), apart(n)>> \in R
    BY <2>1, <2>3, <2>4
  <2> QED BY <2>5 DEF k, n
<1>7. S = Nat
  <2>1. ASSUME NEW m \in S PROVE m + 1 \in S
    <3>1. m + 1 \in Nat
      OBVIOUS
    <3> QED BY <1>6, <3>1, Zenon
  <2> HIDE DEF S
  <2>2. S \in SUBSET Nat
    BY DEF S
  <2> QED BY <1>5, <2>1, <2>2, Induction
<1>8. <<mine(N), theirs(N), apart(N - first)>> \in R
  <2>1. \A m \in Nat : first + m <= N =>
            <<mine(first + m), theirs(first + m), apart(m)>> \in R
    BY <1>7
  <2>2. N - first \in Nat /\ first + (N - first) = N /\ N <= N
    OBVIOUS
  <2> QED BY <2>1, <2>2
<1> QED BY <1>8 DEF mine, theirs, apart

\* A shift moves every bit but the lowest.
LEMMA ShiftedBits ==
    ASSUME NEW crc \in Word(32), NEW bit
    PROVE  bit \in ShiftRight(crc) <=> bit \in 0..30 /\ bit + 1 \in crc
BY Widths DEF ShiftRight

\* One turn of an exclusive or is the exclusive or of the turns.
LEMMA NextBitLinear ==
    ASSUME NEW a \in Word(32), NEW b \in Word(32)
    PROVE  NextBit(SymDiff(a, b)) = SymDiff(NextBit(a), NextBit(b))
<1> DEFINE both == SymDiff(a, b)
<1>1. both \in Word(32)
  BY ExclusiveOr
<1>2. \A bit : bit \in both <=> ~(bit \in a <=> bit \in b)
  BY DEF SymDiff
<1> HIDE DEF both
<1>3. \A bit : bit \in ShiftRight(both) <=>
                  ~(bit \in ShiftRight(a) <=> bit \in ShiftRight(b))
  BY <1>1, <1>2, ShiftedBits
<1>4. ASSUME NEW crc
      PROVE  \A bit : bit \in NextBit(crc) <=>
                 ~(bit \in ShiftRight(crc) <=> 0 \in crc /\ bit \in Polynomial)
  BY DEF NextBit, SymDiff
<1>5. \A bit : bit \in NextBit(both) <=>
                  ~(bit \in NextBit(a) <=> bit \in NextBit(b))
  BY <1>2, <1>3, <1>4
<1>6. NextBit(both) = SymDiff(NextBit(a), NextBit(b))
  BY <1>5 DEF SymDiff
<1> QED BY <1>6 DEF both

\* What relates two words and the bits in which they differ.
Differing == {t \in Word(32) \X Word(32) \X Word(32) :
                 t[3] = SymDiff(t[1], t[2])}

\* A triple is there exactly when its third word is what differs.
LEMMA DifferingIs ==
    ASSUME NEW a, NEW b, NEW c
    PROVE  <<a, b, c>> \in Differing <=>
               /\ a \in Word(32) /\ b \in Word(32) /\ c \in Word(32)
               /\ c = SymDiff(a, b)
BY DEF Differing

\* And so with eight turns.
LEMMA TurningLinear ==
    ASSUME NEW a \in Word(32), NEW b \in Word(32)
    PROVE  Iterate(Turning, SymDiff(a, b), 8) =
               SymDiff(Iterate(Turning, a, 8), Iterate(Turning, b, 8))
<1> DEFINE both == SymDiff(a, b)
<1>1. both \in Word(32) /\ <<a, b, both>> \in Differing
  BY ExclusiveOr, DifferingIs
<1> HIDE DEF both
<1>2. /\ StaysIn(Word(32), Turning, a, 8) /\ StaysIn(Word(32), Turning, b, 8)
      /\ StaysIn(Word(32), Turning, both, 8 - 0)
  <2>1. 8 - 0 = 8
    OBVIOUS
  <2> QED BY <1>1, <2>1, TurningStays
<1>3. Iterate(Turning, a, 0) = a /\ Iterate(Turning, b, 0) = b
  BY <1>2, IterateTurns
<1>4. ASSUME NEW m \in 1..(8 - 0), NEW c \in Word(32), NEW d \in Word(32),
             NEW e \in Word(32), <<c, d, e>> \in Differing
      PROVE  <<Turning[0 + m][c], Turning[0 + m][d], Turning[m][e]>>
                 \in Differing
  <2>1. e = SymDiff(c, d)
    BY <1>4, DifferingIs
  <2>2. /\ m \in 1..8 /\ 0 + m = m
    OBVIOUS
  <2>3. /\ Turning[m][c] = NextBit(c) /\ Turning[m][d] = NextBit(d)
        /\ Turning[m][e] = NextBit(e)
    BY <2>2 DEF Turning
  <2>4. NextBit(e) = SymDiff(NextBit(c), NextBit(d))
    BY <2>1, NextBitLinear
  <2>5. NextBit(c) \in Word(32) /\ NextBit(d) \in Word(32)
        /\ NextBit(e) \in Word(32)
    BY NextBitTyped
  <2> QED BY <2>2, <2>3, <2>4, <2>5, DifferingIs
<1>5. <<Iterate(Turning, a, 8), Iterate(Turning, b, 8),
        Iterate(Turning, both, 8 - 0)>> \in Differing
  <2>1. 0 \in 0..8
    OBVIOUS
  <2>2. <<Iterate(Turning, a, 0), Iterate(Turning, b, 0), both>> \in Differing
    BY <1>1, <1>3
  <2>3. \A m \in 1..(8 - 0) : \A c, d, e \in Word(32) :
            <<c, d, e>> \in Differing =>
                <<Turning[0 + m][c], Turning[0 + m][d], Turning[m][e]>>
                    \in Differing
    BY <1>4
  <2> QED BY <1>2, <2>1, <2>2, <2>3, IterateRelated
<1>6. 8 - 0 = 8
  OBVIOUS
<1> QED BY <1>5, <1>6, DifferingIs DEF both

\* And with a byte.
LEMMA NextByteLinear ==
    ASSUME NEW a \in Word(32), NEW b \in Word(32), NEW x \in Byte,
           NEW y \in Byte
    PROVE  NextByte(SymDiff(a, b), SymDiff(x, y)) =
               SymDiff(NextByte(a, x), NextByte(b, y))
<1>1. SymDiff(a, x) \in Word(32) /\ SymDiff(b, y) \in Word(32)
  BY ExclusiveOr, ByteIsWord
<1>2. SymDiff(SymDiff(a, b), SymDiff(x, y)) =
          SymDiff(SymDiff(a, x), SymDiff(b, y))
  BY DEF SymDiff
<1>3. \A crc, byte : NextByte(crc, byte) =
                         Iterate(Turning, SymDiff(crc, byte), 8)
  BY DEF NextByte, Turning
<1> QED BY <1>1, <1>2, <1>3, TurningLinear

\* A byte and zero bytes are bytes.
LEMMA ZerosAfterTyped ==
    ASSUME NEW byte \in Byte, NEW count \in Nat
    PROVE  /\ ZerosAfter(byte, count) \in Seq(Byte)
           /\ Len(ZerosAfter(byte, count)) = count
           /\ \A i \in 1..count : ZerosAfter(byte, count)[i] =
                                      IF i = 1 THEN byte ELSE {}
<1>1. {} \in Byte
  BY Widths
<1>2. ZerosAfter(byte, count) \in [1..count -> Byte]
  BY <1>1 DEF ZerosAfter
<1>3. ZerosAfter(byte, count) \in Seq(Byte)
  BY <1>2, SeqDef
<1>4. DOMAIN ZerosAfter(byte, count) = 1..count
  BY <1>2
<1> QED BY <1>3, <1>4, LenProperties DEF ZerosAfter

\* The registers of two byte strings, one of whose bytes differs so far,
\* differ in the bits that Spread says.
LEMMA RegistersSpread ==
    ASSUME NEW bytes \in Seq(Byte), NEW other \in Seq(Byte),
           Len(other) = Len(bytes), NEW place \in 1..Len(bytes),
           NEW upto \in place..Len(bytes),
           \A i \in 1..upto : i # place => other[i] = bytes[i]
    PROVE  SymDiff(Iterate(Absorb(bytes), InitialValue, upto),
                   Iterate(Absorb(other), InitialValue, upto)) =
               Spread(SymDiff(bytes[place], other[place]), upto - (place - 1))
<1> DEFINE x == SymDiff(bytes[place], other[place])
           before == place - 1
           count == upto - before
           wrong == ZerosAfter(x, count)
<1>1. /\ Len(bytes) \in Nat
      /\ \A i \in 1..Len(bytes) : bytes[i] \in Byte
      /\ \A i \in 1..Len(bytes) : other[i] \in Byte
  BY LenProperties, ElementOfSeq
<1>2. x \in Byte
  BY <1>1, Widths DEF SymDiff
<1>3. /\ before \in 0..upto /\ before \in 0..Len(bytes) /\ count \in Nat
      /\ upto \in Nat /\ upto <= Len(bytes)
  BY <1>1
<1>4. /\ wrong \in Seq(Byte) /\ Len(wrong) = count
      /\ \A i \in 1..count : wrong[i] = IF i = 1 THEN x ELSE {}
  <2> HIDE DEF x, count
  <2> QED BY <1>2, <1>3, ZerosAfterTyped
<1> HIDE DEF wrong
<1>5. /\ StaysIn(Word(32), Absorb(bytes), InitialValue, upto)
      /\ StaysIn(Word(32), Absorb(other), InitialValue, upto)
  BY <1>3, AbsorbStays DEF StaysIn
<1>6. StaysIn(Word(32), Absorb(wrong), {}, count)
  <2>1. {} \in Word(32)
    BY Widths
  <2>2. StaysIn(Word(32), Absorb(wrong), InitialValue, count)
    BY <1>4, AbsorbStays
  <2> QED BY <2>1, <2>2 DEF StaysIn
<1>7. <<Iterate(Absorb(bytes), InitialValue, before),
        Iterate(Absorb(other), InitialValue, before), {}>> \in Differing
  <2>1. \A i \in 1..before : other[i] = bytes[i]
    BY <1>3
  <2>2. before <= Len(other)
    BY <1>3
  <2>3. Iterate(Absorb(other), InitialValue, before) =
            Iterate(Absorb(bytes), InitialValue, before)
    BY <1>3, <2>1, <2>2, RegistersAgree
  <2>4. Iterate(Absorb(bytes), InitialValue, before) \in Word(32)
    BY <1>3, <1>5, IterateTurns
  <2>5. {} \in Word(32)
    BY Widths
  <2>6. \A a : {} = SymDiff(a, a)
    BY DEF SymDiff
  <2> QED BY <2>3, <2>4, <2>5, <2>6, DifferingIs
<1>8. ASSUME NEW m \in 1..count, NEW c \in Word(32), NEW d \in Word(32),
             NEW e \in Word(32), <<c, d, e>> \in Differing
      PROVE  <<Absorb(bytes)[before + m][c], Absorb(other)[before + m][d],
               Absorb(wrong)[m][e]>> \in Differing
  <2> DEFINE k == before + m
  <2>1. k \in 1..Len(bytes) /\ k \in 1..upto /\ (m = 1 <=> k = place)
    BY <1>3
  <2>2. bytes[k] \in Byte /\ other[k] \in Byte
    BY <1>1, <2>1
  <2>3. wrong[m] = SymDiff(bytes[k], other[k])
    <3>1. CASE m = 1
      BY <1>4, <2>1, <3>1
    <3>2. CASE m # 1
      <4>1. other[k] = bytes[k]
        BY <2>1, <3>2
      <4>2. wrong[m] = {}
        BY <1>4, <3>2
      <4> QED BY <4>1, <4>2 DEF SymDiff
    <3> QED BY <3>1, <3>2
  <2>4. wrong[m] \in Byte
    BY <1>4, ElementOfSeq
  <2>5. /\ Absorb(bytes)[k][c] = NextByte(c, bytes[k])
        /\ Absorb(other)[k][d] = NextByte(d, other[k])
        /\ Absorb(wrong)[m][e] = NextByte(e, wrong[m])
    <3> HIDE DEF k, count
    <3> QED BY <1>4, <2>1 DEF Absorb
  <2>6. e = SymDiff(c, d)
    BY <1>8, DifferingIs
  <2> HIDE DEF k
  <2>7. NextByte(e, wrong[m]) =
            SymDiff(NextByte(c, bytes[k]), NextByte(d, other[k]))
    BY <2>2, <2>3, <2>6, NextByteLinear
  <2>8. /\ NextByte(c, bytes[k]) \in Word(32)
        /\ NextByte(d, other[k]) \in Word(32)
        /\ NextByte(e, wrong[m]) \in Word(32)
    BY <2>2, <2>4, NextByteTyped
  <2> QED BY <2>5, <2>7, <2>8, DifferingIs DEF k
<1>9. Spread(x, count) = Iterate(Absorb(wrong), {}, count)
  BY DEF Spread, wrong
<1> HIDE DEF x, count, before
<1>10. <<Iterate(Absorb(bytes), InitialValue, upto),
         Iterate(Absorb(other), InitialValue, upto),
         Iterate(Absorb(wrong), {}, upto - before)>> \in Differing
  <2>1. count = upto - before
    BY DEF count
  <2>2. \A m \in 1..count : \A c, d, e \in Word(32) :
            <<c, d, e>> \in Differing =>
                <<Absorb(bytes)[before + m][c], Absorb(other)[before + m][d],
                  Absorb(wrong)[m][e]>> \in Differing
    BY <1>8
  <2> QED BY <1>3, <1>5, <1>6, <1>7, <2>1, <2>2, IterateRelated
<1>11. upto - before = count
  BY DEF count
<1> QED BY <1>9, <1>10, <1>11, DifferingIs DEF x, count, before

\* The bits in which one byte string differs from another at a place.
LEMMA WrongBits ==
    ASSUME NEW x \in Byte, NEW y \in Byte, x # y
    PROVE  SymDiff(x, y) \in Byte \ {{}}
<1>1. SymDiff(x, y) # {}
  BY DEF SymDiff
<1>2. SymDiff(x, y) \in Byte
  BY Widths DEF SymDiff
<1> QED BY <1>1, <1>2

\* As far as the checksum reaches, a wrong byte spreads over the register.
LEMMA SpreadIsWide ==
    ASSUME NEW difference \in Byte \ {{}}, NEW count \in 1..30,
           NEW k \in 0..3
    PROVE  ~(Spread(difference, count) \subseteq ByteOfWord(k))
<1>1. crc_offset = 30 /\ crc_size - 1 = 3
  BY DEF crc_offset, crc_size
<1> QED BY <1>1, WrongBytesStayApart, Zenon

\* Two places of a body, one before the other.
LEMMA PlacesInOrder ==
    ASSUME NEW a \in 1..30, NEW b \in 1..30, a < b
    PROVE  /\ b - 1 \in a..30 /\ b - 1 \in 0..30
           /\ b - 1 - (a - 1) \in 1..30
           /\ \A i \in 1..(b - 1) : i \in 1..30 /\ i # b
           /\ \A i \in (b + 1)..30 : i \in 1..30 /\ i # a /\ i # b
OBVIOUS

\* Two places are the same, or one is before the other.
LEMMA PlacesCompare ==
    ASSUME NEW a \in 1..30, NEW b \in 1..30
    PROVE  a < b \/ b < a \/ a = b
OBVIOUS

\* Two bodies are the same but for two places, or fewer.
BodiesAgreeBut(bytes, other, first, second) ==
    \A i \in 1..30 : i \notin {first, second} => other[i] = bytes[i]

\* The checksum tells two bodies apart that differ in two bytes, or in the
\* first of the two only.
LEMMA ChecksumSeesTwoBytes ==
    ASSUME NEW bytes \in Seq(Byte), NEW other \in Seq(Byte),
           Len(bytes) = 30, Len(other) = 30,
           NEW first \in 1..30, NEW second \in 1..30,
           first < second, other[first] # bytes[first],
           BodiesAgreeBut(bytes, other, first, second)
    PROVE  CalculateCrc32(other) # CalculateCrc32(bytes)
<1> DEFINE before == second - 1
           x == SymDiff(bytes[first], other[first])
           mine(n) == Iterate(Absorb(bytes), InitialValue, n)
           theirs(n) == Iterate(Absorb(other), InitialValue, n)
<1>1. /\ \A i \in 1..30 : bytes[i] \in Byte
      /\ \A i \in 1..30 : other[i] \in Byte
  BY ElementOfSeq
<1>2. /\ before \in first..30 /\ before - (first - 1) \in 1..30
      /\ before \in 0..30
  BY PlacesInOrder, Zenon
<1>3. x \in Byte \ {{}}
  BY <1>1, WrongBits
<1>4. SymDiff(mine(before), theirs(before)) = Spread(x, before - (first - 1))
  <2>1. \A i \in 1..before : i \in 1..30 /\ i # second
    BY PlacesInOrder, Zenon
  <2>2. \A i \in 1..before : i # first => other[i] = bytes[i]
    BY <2>1 DEF BodiesAgreeBut
  <2>3. /\ Len(other) = Len(bytes) /\ first \in 1..Len(bytes)
        /\ before \in first..Len(bytes)
    BY <1>1, <1>2
  <2> HIDE DEF before
  <2> QED BY <2>2, <2>3, RegistersSpread
<1>5. ~(SymDiff(mine(before), theirs(before)) \subseteq 0..7)
  <2>1. 0 \in 0..3 /\ ByteOfWord(0) = 0..7
    BY DEF ByteOfWord
  <2> HIDE DEF x, before, mine, theirs
  <2>2. ~(Spread(x, before - (first - 1)) \subseteq ByteOfWord(0))
    BY <1>2, <1>3, <2>1, SpreadIsWide
  <2> QED BY <1>4, <2>1, <2>2
<1>6. mine(second) # theirs(second)
  <2>1. /\ StaysIn(Word(32), Absorb(bytes), InitialValue, 30)
        /\ StaysIn(Word(32), Absorb(other), InitialValue, 30)
    BY <1>1, AbsorbStays
  <2>2. before = second - 1
    OBVIOUS
  <2> HIDE DEF before
  <2>3. /\ mine(second) = Absorb(bytes)[second][mine(before)]
        /\ mine(before) \in Word(32)
    BY <1>2, <2>1, <2>2, IterateTurns
  <2>4. /\ theirs(second) = Absorb(other)[second][theirs(before)]
        /\ theirs(before) \in Word(32)
    BY <1>2, <2>1, <2>2, IterateTurns
  <2> HIDE DEF mine, theirs
  <2>5. /\ mine(second) = NextByte(mine(before), bytes[second])
        /\ theirs(second) = NextByte(theirs(before), other[second])
    BY <1>1, <1>2, <2>3, <2>4 DEF Absorb
  <2>6. bytes[second] \subseteq 0..7 /\ other[second] \subseteq 0..7
        /\ bytes[second] \in Byte /\ other[second] \in Byte
    BY <1>1, <1>2, Widths
  <2>7. ASSUME mine(second) = theirs(second) PROVE FALSE
    <3>1. SymDiff(mine(before), bytes[second]) =
              SymDiff(theirs(before), other[second])
      <4>1. NextByte(mine(before), bytes[second]) =
                NextByte(theirs(before), other[second])
        BY <2>5, <2>7
      <4> QED BY <2>3, <2>4, <2>6, <4>1, NextByteInjective
    <3>2. SymDiff(mine(before), theirs(before)) \subseteq 0..7
      BY <2>6, <3>1 DEF SymDiff
    <3> QED BY <1>5, <3>2
  <2> QED BY <2>7
<1>7. second \in 0..Len(bytes) /\ Len(other) = Len(bytes)
  OBVIOUS
<1>8. \A i \in (second + 1)..Len(bytes) : other[i] = bytes[i]
  <2>1. ASSUME NEW i \in (second + 1)..30 PROVE other[i] = bytes[i]
    <3>1. i \in 1..30 /\ i # first /\ i # second
      BY PlacesInOrder, Zenon
    <3> QED BY <3>1 DEF BodiesAgreeBut
  <2> QED BY <2>1
<1> QED BY <1>6, <1>7, <1>8, RegistersStayApart

\* The checksums of two bodies that differ in one byte differ in more than
\* one byte.
LEMMA ChecksumsDifferWidely ==
    ASSUME NEW bytes \in Seq(Byte), NEW other \in Seq(Byte),
           Len(bytes) = 30, Len(other) = 30,
           NEW place \in 1..30, other[place] # bytes[place],
           BodiesAgreeBut(bytes, other, place, place),
           NEW k \in 0..3
    PROVE  ~(SymDiff(CalculateCrc32(bytes), CalculateCrc32(other))
                 \subseteq ByteOfWord(k))
<1> DEFINE x == SymDiff(bytes[place], other[place])
           mine == Iterate(Absorb(bytes), InitialValue, 30)
           theirs == Iterate(Absorb(other), InitialValue, 30)
<1>1. /\ \A i \in 1..30 : bytes[i] \in Byte
      /\ \A i \in 1..30 : other[i] \in Byte
  BY ElementOfSeq
<1>2. x \in Byte \ {{}}
  BY <1>1, WrongBits
<1>3. SymDiff(mine, theirs) = Spread(x, 30 - (place - 1))
  <2>1. 30 \in place..Len(bytes) /\ place \in 1..Len(bytes)
        /\ Len(other) = Len(bytes)
    OBVIOUS
  <2>2. \A i \in 1..30 : i # place => other[i] = bytes[i]
    BY DEF BodiesAgreeBut
  <2> QED BY <2>1, <2>2, RegistersSpread
<1>4. ~(SymDiff(mine, theirs) \subseteq ByteOfWord(k))
  <2>1. 30 - (place - 1) \in 1..30
    OBVIOUS
  <2> HIDE DEF x, mine, theirs
  <2> QED BY <1>2, <1>3, <2>1, SpreadIsWide
<1>5. \A a, b, c : SymDiff(SymDiff(a, c), SymDiff(b, c)) = SymDiff(a, b)
  BY DEF SymDiff
<1>6. SymDiff(CalculateCrc32(bytes), CalculateCrc32(other)) =
          SymDiff(mine, theirs)
  <2>1. /\ CalculateCrc32(bytes) = SymDiff(mine, FinalXor)
        /\ CalculateCrc32(other) = SymDiff(theirs, FinalXor)
    BY DEF CalculateCrc32
  <2> HIDE DEF mine, theirs
  <2> QED BY <1>5, <2>1
<1> QED BY <1>4, <1>6

\* A field of which one byte is replaced differs in that byte.
LEMMA ReadDiffers ==
    ASSUME NEW offset \in Nat, NEW size \in Nat, NEW a, NEW b,
           NEW k \in 0..(size - 1),
           \A i \in 1..size : i # size - k => a[offset + i] = b[offset + i]
    PROVE  SymDiff(Read(a, offset, size), Read(b, offset, size))
               \subseteq ByteOfWord(k)
<1>1. ASSUME NEW bit \in 0..(8 * size - 1), bit \div 8 # k
      PROVE  bit \in Read(a, offset, size) <=> bit \in Read(b, offset, size)
  <2> DEFINE i == size - bit \div 8
  <2>1. /\ i \in 1..size /\ i # size - k
        /\ offset + size - 1 - bit \div 8 + 1 = offset + i
    BY <1>1
  <2> HIDE DEF i
  <2>2. a[offset + i] = b[offset + i]
    BY <2>1
  <2> QED BY <2>1, <2>2 DEF Read, At
<1>2. ASSUME NEW bit \in 0..(8 * size - 1), bit \div 8 = k
      PROVE  bit \in ByteOfWord(k)
  BY <1>2 DEF ByteOfWord
<1>3. /\ Read(a, offset, size) \subseteq 0..(8 * size - 1)
      /\ Read(b, offset, size) \subseteq 0..(8 * size - 1)
  BY DEF Read
<1>4. ASSUME NEW bit \in SymDiff(Read(a, offset, size), Read(b, offset, size))
      PROVE  bit \in ByteOfWord(k)
  <2>1. /\ bit \in 0..(8 * size - 1)
        /\ ~(bit \in Read(a, offset, size) <=> bit \in Read(b, offset, size))
    BY <1>3, <1>4 DEF SymDiff
  <2> QED BY <1>1, <1>2, <2>1
<1> QED BY <1>4

\* Two byte strings are the same but for two places, or fewer.
AgreeBut(bytes, other, first, second) ==
    \A i \in 1..frame_size : i \notin {first, second} => other[i] = bytes[i]

\* A body with one or two wrong bytes has another checksum.
LEMMA BodyIsSeen ==
    ASSUME NEW bytes \in Seq(Byte), NEW other \in Seq(Byte),
           Len(bytes) = 30, Len(other) = 30,
           NEW first \in 1..30, NEW second \in 1..30,
           other[first] # bytes[first],
           BodiesAgreeBut(bytes, other, first, second)
    PROVE  CalculateCrc32(other) # CalculateCrc32(bytes)
<1>1. CASE other[second] = bytes[second] \/ first = second
  <2>1. \A i \in 1..Len(bytes) : i # first => other[i] = bytes[i]
    BY <1>1 DEF BodiesAgreeBut
  <2> QED BY <2>1, ChecksumSeesOneByte
<1>2. CASE other[second] # bytes[second] /\ first < second
  BY <1>2, ChecksumSeesTwoBytes
<1>3. CASE other[second] # bytes[second] /\ second < first
  <2>1. BodiesAgreeBut(bytes, other, second, first)
    BY DEF BodiesAgreeBut
  <2> QED BY <1>3, <2>1, ChecksumSeesTwoBytes
<1>4. first < second \/ second < first \/ first = second
  BY PlacesCompare, Zenon
<1> QED BY <1>1, <1>2, <1>3, <1>4

\* A wrong byte of the body and a wrong byte of the checksum do not match.
LEMMA BodyAndChecksumAreSeen ==
    ASSUME NEW bytes \in Seq(Byte), NEW other \in Seq(Byte),
           Len(bytes) = frame_size, Len(other) = frame_size,
           NEW place \in 1..30, NEW second \in 31..34,
           other[place] # bytes[place],
           AgreeBut(bytes, other, place, second),
           ChecksumMatches(bytes)
    PROVE  ~ChecksumMatches(other)
<1> SUFFICES ASSUME ChecksumMatches(other) PROVE FALSE
  OBVIOUS
<1> DEFINE body == SubSeq(bytes, 1, 30)
           otherBody == SubSeq(other, 1, 30)
           k == 34 - second
<1>1. /\ body \in Seq(Byte) /\ Len(body) = 30
      /\ otherBody \in Seq(Byte) /\ Len(otherBody) = 30
      /\ \A i \in 1..30 : body[i] = bytes[i] /\ otherBody[i] = other[i]
      /\ Read(bytes, 30, 4) = CalculateCrc32(body)
      /\ Read(other, 30, 4) = CalculateCrc32(otherBody)
  BY FrameParts
<1> HIDE DEF body, otherBody
<1>2. k \in 0..3
  OBVIOUS
<1>3. ~(SymDiff(CalculateCrc32(body), CalculateCrc32(otherBody))
            \subseteq ByteOfWord(k))
  <2>1. \A i \in 1..30 : i # place => i \notin {place, second} /\ i \in 1..34
    OBVIOUS
  <2>2. BodiesAgreeBut(body, otherBody, place, place)
    BY <1>1, <2>1 DEF AgreeBut, frame_size, BodiesAgreeBut
  <2>3. otherBody[place] # body[place]
    BY <1>1
  <2> HIDE DEF k
  <2> QED BY <1>1, <1>2, <2>2, <2>3, ChecksumsDifferWidely
<1>4. SymDiff(Read(bytes, 30, 4), Read(other, 30, 4)) \subseteq ByteOfWord(k)
  <2>1. \A i \in 1..4 : i # 4 - k => 30 + i \in 1..34
                                     /\ 30 + i \notin {place, second}
    OBVIOUS
  <2>2. \A i \in 1..4 : i # 4 - k => bytes[30 + i] = other[30 + i]
    BY <2>1 DEF AgreeBut, frame_size
  <2>3. 4 - 1 = 3
    OBVIOUS
  <2> HIDE DEF k
  <2> QED BY <1>2, <2>2, <2>3, ReadDiffers
<1> QED BY <1>1, <1>3, <1>4

\* The checksum of a frame matches no longer once any one or two of its bytes
\* are replaced by others, be they covered by the checksum or part of it.
LEMMA TwoReplacedAreSeen ==
    ASSUME NEW bytes \in Seq(Byte), NEW other \in Seq(Byte),
           Len(bytes) = frame_size, Len(other) = frame_size,
           NEW first \in 1..frame_size, NEW second \in 1..frame_size,
           AgreeBut(bytes, other, first, second),
           ChecksumMatches(bytes), ChecksumMatches(other)
    PROVE  other = bytes
<1>1. first \in 1..34 /\ second \in 1..34
  BY DEF frame_size
<1>2. CASE \A i \in 1..30 : other[i] = bytes[i]
  BY <1>2, ChecksumIsSeen
<1>3. ASSUME NEW place \in 1..30, NEW another \in 1..34,
             other[place] # bytes[place],
             AgreeBut(bytes, other, place, another)
      PROVE  FALSE
  <2>1. CASE another \in 31..34
    BY <1>3, <2>1, BodyAndChecksumAreSeen
  <2>2. CASE another \in 1..30
    <3> DEFINE body == SubSeq(bytes, 1, 30)
               otherBody == SubSeq(other, 1, 30)
    <3>1. /\ body \in Seq(Byte) /\ Len(body) = 30
          /\ otherBody \in Seq(Byte) /\ Len(otherBody) = 30
          /\ \A i \in 1..30 : body[i] = bytes[i] /\ otherBody[i] = other[i]
          /\ Read(bytes, 30, 4) = CalculateCrc32(body)
          /\ Read(other, 30, 4) = CalculateCrc32(otherBody)
      BY FrameParts
    <3> HIDE DEF body, otherBody
    <3>2. \A i \in 1..30 : i \in 1..34
      OBVIOUS
    <3>3. BodiesAgreeBut(body, otherBody, place, another)
      BY <1>3, <3>1, <3>2 DEF AgreeBut, frame_size, BodiesAgreeBut
    <3>4. otherBody[place] # body[place]
      BY <1>3, <3>1
    <3>5. CalculateCrc32(otherBody) # CalculateCrc32(body)
      BY <2>2, <3>1, <3>3, <3>4, BodyIsSeen
    <3>6. \A i \in 1..4 : 30 + i \in 1..34 /\ 30 + i \notin {place, another}
      BY <2>2
    <3>7. \A i \in 1..4 : other[30 + i] = bytes[30 + i]
      BY <1>3, <3>6 DEF AgreeBut, frame_size
    <3>8. Read(other, 30, 4) = Read(bytes, 30, 4)
      BY <3>7, ChecksumReadTheSame
    <3> QED BY <3>1, <3>5, <3>8
  <2> QED BY <2>1, <2>2
<1>4. CASE \E i \in 1..30 : other[i] # bytes[i]
  <2>1. PICK place \in 1..30 : other[place] # bytes[place]
    BY <1>4
  <2>0. place \in 1..34
    OBVIOUS
  <2>2. place \in {first, second}
    BY <2>0, <2>1 DEF AgreeBut, frame_size
  <2>3. AgreeBut(bytes, other, second, first)
    BY DEF AgreeBut
  <2> QED BY <1>1, <1>3, <2>1, <2>2, <2>3
<1> QED BY <1>2, <1>4

\* A frame that deserialize would accept is refused when one or two of its
\* bytes are replaced, wherever they are and whatever they become.
THEOREM TwoWrongBytesAreRefused ==
    \A frame \in TelemetryFrames, bytes \in Seq(Byte),
       first, second \in 1..frame_size :
        /\ Len(bytes) = frame_size
        /\ AgreeBut(Serialize(frame), bytes, first, second)
        /\ bytes # Serialize(frame)
        => Deserialize(bytes).frame = {}
<1> TAKE frame \in TelemetryFrames, bytes \in Seq(Byte),
         first, second \in 1..frame_size
<1> HAVE /\ Len(bytes) = frame_size
         /\ AgreeBut(Serialize(frame), bytes, first, second)
         /\ bytes # Serialize(frame)
<1>1. frame.version \in Byte /\ frame.message_type \in Byte
  BY FrameBytes DEF TelemetryFrames
<1>2. Serialize(frame) \in Seq(Byte) /\ Len(Serialize(frame)) = frame_size
  BY <1>1, SerializedLaidOut
<1>3. ChecksumMatches(Serialize(frame))
  BY SerializedAccepted DEF Accepted
<1>4. ~Accepted(bytes)
  BY <1>2, <1>3, TwoReplacedAreSeen DEF Accepted
<1> QED BY <1>4, DeserializeAccepts
=============================================================================
