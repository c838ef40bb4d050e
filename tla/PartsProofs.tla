----------------------------- MODULE PartsProofs -----------------------------
(* Proofs about three parts that work alone: the moving average, the line  *)
(* editor of command_task and the viewer on the host.                      *)
EXTENDS CommandLine, MovingAverage, LogViewer, SequenceTheorems, FunctionTheorems,
        FiniteSetTheorems, TLAPS

(***************************************************************************)
(* The moving average.  While the ring is not full it holds the samples    *)
(* from its start; from then on the cells in front of the index are of     *)
(* this round, the others of the round before.                             *)
(***************************************************************************)
SampleNumber(history, j) == history[j + 1] - history[j]

AverageShape ==
  /\ window \in Nat \ {0}
  /\ totals \in Seq(Nat) /\ totals # <<>>
  /\ average.buffer \in [0 .. window - 1 -> Int]
  /\ average.index \in 0 .. window - 1
  /\ average.count = (IF Taken < window THEN Taken ELSE window)
  /\ Taken < window => average.index = Taken
  /\ DOMAIN average = {"buffer", "index", "count", "sum"}

RingHolds ==
  \A i \in 0 .. window - 1 :
    /\ i < average.index => average.buffer[i] = SampleNumber(totals, Taken - average.index + i + 1)
    /\ i >= average.index /\ Taken >= window =>
         average.buffer[i] = SampleNumber(totals, Taken - average.index + i + 1 - window)

SumIsOfWindow == average.sum = SumOfLast(average.count)

AverageInv == AverageShape /\ RingHolds /\ SumIsOfWindow

LEMMA InitAverageInv == AverageInit => AverageInv
<1> SUFFICES ASSUME AverageInit PROVE AverageInv
  OBVIOUS
<1>1. window \in Nat \ {0} /\ totals = <<0>> /\ average = MovingReset(window)
  BY DEF AverageInit
<1>2. Len(totals) = 1 /\ Taken = 0 /\ totals[1] = 0
  BY <1>1 DEF Taken
<1>3. AverageShape
  BY <1>1, <1>2 DEF AverageShape, MovingReset
<1>4. RingHolds
  BY <1>1, <1>2 DEF RingHolds, MovingReset
<1>5. SumIsOfWindow
  BY <1>1, <1>2 DEF SumIsOfWindow, SumOfLast, MovingReset
<1> QED
  BY <1>3, <1>4, <1>5 DEF AverageInv

(* One more total: the numbers of the samples before stay.                 *)
LEMMA OneMoreSample ==
  ASSUME AverageShape, NEW value \in Nat, Sample(value)
  PROVE  /\ totals' \in Seq(Nat) /\ totals' # <<>>
         /\ Taken \in Nat /\ Taken' = Taken + 1
         /\ Len(totals) = Taken + 1 /\ Len(totals') = Taken + 2
         /\ \A j \in 1 .. Taken + 1 : totals'[j] = totals[j] /\ totals[j] \in Nat
         /\ totals'[Taken + 2] = totals[Taken + 1] + value
<1>1. totals \in Seq(Nat) /\ Len(totals) \in Nat \ {0}
  BY DEF AverageShape
<1>2. Len(totals) \in DOMAIN totals /\ totals[Len(totals)] \in Nat
  BY <1>1
<1>3. totals' = Append(totals, totals[Len(totals)] + value)
  BY DEF Sample
<1>4. totals[Len(totals)] + value \in Nat
  BY <1>2
<1>5. /\ totals' \in Seq(Nat) /\ Len(totals') = Len(totals) + 1
      /\ totals'[Len(totals) + 1] = totals[Len(totals)] + value
      /\ \A j \in 1 .. Len(totals) : totals'[j] = totals[j]
  BY <1>1, <1>3, <1>4
<1>6. \A j \in 1 .. Len(totals) : totals[j] \in Nat
  BY <1>1
<1>7. Taken = Len(totals) - 1 /\ Taken' = Len(totals') - 1
  BY DEF Taken
<1> QED
  BY <1>1, <1>5, <1>6, <1>7

LEMMA StepAverageShape ==
  ASSUME AverageShape, NEW value \in Nat, Sample(value)
  PROVE  AverageShape'
<1> DEFINE N == window
           i == average.index
<1>1. N \in Nat \ {0} /\ i \in 0 .. N - 1 /\ window' = N
  BY DEF AverageShape, Sample
<1>2. average' = MovingAdd(average, N, value)
  BY DEF Sample
<1>3. /\ average'.buffer = [average.buffer EXCEPT ![i] = value]
      /\ average'.index = NextIndex(i, N)
      /\ average'.count = IF average.count >= N THEN average.count ELSE average.count + 1
      /\ DOMAIN average' = {"buffer", "index", "count", "sum"}
  BY <1>2 DEF MovingAdd
<1>4. average'.buffer \in [0 .. N - 1 -> Int]
  BY <1>1, <1>3 DEF AverageShape
<1>5. average'.index \in 0 .. N - 1
  BY <1>1, <1>3 DEF NextIndex
<1>6. Taken \in Nat /\ Taken' = Taken + 1
  BY OneMoreSample
<1>7. average.count = (IF Taken < N THEN Taken ELSE N)
  BY DEF AverageShape
<1>8. average'.count = (IF Taken' < N THEN Taken' ELSE N)
  BY <1>1, <1>3, <1>6, <1>7
<1>9. Taken' < N => average'.index = Taken'
  <2>1. Taken < N => i = Taken
    BY DEF AverageShape
  <2> QED
    BY <1>1, <1>3, <1>6, <2>1 DEF NextIndex
<1>10. totals' \in Seq(Nat) /\ totals' # <<>>
  BY OneMoreSample
<1> QED
  BY <1>1, <1>3, <1>4, <1>5, <1>8, <1>9, <1>10 DEF AverageShape

(* The slot that is overwritten holds the sample that leaves the window,   *)
(* and what is added is the one that enters it.                            *)
LEMMA StepSum ==
  ASSUME AverageInv, NEW value \in Nat, Sample(value)
  PROVE  SumIsOfWindow'
<1> DEFINE N == window
           i == average.index
           n == Taken
<1>1. N \in Nat \ {0} /\ i \in 0 .. N - 1 /\ n \in Nat
  BY OneMoreSample DEF AverageInv, AverageShape
<1>2. average.count = (IF n < N THEN n ELSE N)
  BY DEF AverageInv, AverageShape
<1>3. average.sum = totals[n + 1] - totals[n + 1 - average.count]
  <2>1. Len(totals) = n + 1
    BY OneMoreSample DEF AverageInv
  <2>2. average.sum = totals[Len(totals)] - totals[Len(totals) - average.count]
    BY DEF AverageInv, SumIsOfWindow, SumOfLast
  <2>3. n \in Nat /\ average.count \in Nat
    BY <1>1, <1>2
  <2> HIDE DEF n
  <2> QED
    BY ONLY <2>1, <2>2, <2>3
<1>4. /\ average'.count = IF average.count >= N THEN average.count ELSE average.count + 1
      /\ average'.sum = (IF average.count >= N THEN average.sum - average.buffer[i] ELSE average.sum) + value
  BY DEF Sample, MovingAdd
<1>5. SumOfLast(average.count)' = totals'[n + 2] - totals'[n + 2 - average'.count]
  <2>1. Len(totals') = n + 2
    BY OneMoreSample DEF AverageInv
  <2>2. SumOfLast(average.count)' = totals'[Len(totals')] - totals'[Len(totals') - average'.count]
    BY DEF SumOfLast
  <2>3. n \in Nat /\ average'.count \in Nat
    BY <1>1, <1>2, <1>4
  <2> HIDE DEF n
  <2> QED
    BY ONLY <2>1, <2>2, <2>3
<1>6. CASE n < N
  <2>1. average.count = n /\ average'.count = n + 1 /\ average'.sum = average.sum + value
    BY <1>1, <1>2, <1>4, <1>6
  <2>2. totals'[1] = totals[1] /\ totals[1] \in Nat /\ totals[n + 1] \in Nat
    BY <1>1, OneMoreSample DEF AverageInv
  <2>3. totals'[n + 2] = totals[n + 1] + value
    BY OneMoreSample DEF AverageInv
  <2>4. average.sum = totals[n + 1] - totals[1]
    BY <1>1, <1>3, <2>1
  <2>5. SumOfLast(average.count)' = totals[n + 1] + value - totals[1]
    BY <1>1, <1>5, <2>1, <2>2, <2>3
  <2> QED
    BY <2>1, <2>2, <2>4, <2>5 DEF SumIsOfWindow
<1>7. CASE n >= N
  <2>1. average.count = N /\ average'.count = N
        /\ average'.sum = average.sum - average.buffer[i] + value
    BY <1>1, <1>2, <1>4, <1>7
  <2>2. average.buffer[i] = SampleNumber(totals, n - i + i + 1 - N)
    BY <1>1, <1>7 DEF AverageInv, RingHolds
  <2>3. average.buffer[i] = totals[n + 2 - N] - totals[n + 1 - N]
    <3>1. n - i + i + 1 - N = n + 1 - N /\ n + 1 - N + 1 = n + 2 - N
      BY <1>1
    <3> QED
      BY <2>2, <3>1 DEF SampleNumber
  <2>4. n + 2 - N \in 1 .. n + 1 /\ n + 1 - N \in 1 .. n + 1 /\ n + 1 \in 1 .. n + 1
    BY <1>1, <1>7
  <2>5. /\ totals[n + 1] \in Nat /\ totals[n + 2 - N] \in Nat /\ totals[n + 1 - N] \in Nat
        /\ totals'[n + 2 - N] = totals[n + 2 - N]
        /\ totals'[n + 2] = totals[n + 1] + value
    BY <2>4, OneMoreSample DEF AverageInv
  <2>6. average.sum = totals[n + 1] - totals[n + 1 - N]
    BY <1>3, <2>1
  <2>7. SumOfLast(average.count)' = totals[n + 1] + value - totals[n + 2 - N]
    BY <1>5, <2>1, <2>5
  <2> QED
    BY <2>1, <2>3, <2>5, <2>6, <2>7 DEF SumIsOfWindow
<1> QED
  BY <1>1, <1>6, <1>7

LEMMA StepRing ==
  ASSUME AverageInv, NEW value \in Nat, Sample(value)
  PROVE  RingHolds'
<1> DEFINE N == window
           i == average.index
           n == Taken
<1>1. N \in Nat \ {0} /\ i \in 0 .. N - 1 /\ n \in Nat /\ window' = N /\ Taken' = n + 1
  BY OneMoreSample DEF AverageInv, AverageShape, Sample
<1>2. n < N => i = n
  BY DEF AverageInv, AverageShape
<1>3. /\ average'.buffer = [average.buffer EXCEPT ![i] = value]
      /\ average'.index = NextIndex(i, N)
  BY DEF Sample, MovingAdd
<1>4. \A j \in 0 .. N - 1 : average'.buffer[j] = IF j = i THEN value ELSE average.buffer[j]
  BY <1>3 DEF AverageInv, AverageShape
<1>5. ASSUME NEW j \in 1 .. n PROVE SampleNumber(totals', j) = SampleNumber(totals, j)
  BY <1>1, OneMoreSample DEF AverageInv, SampleNumber
<1>6. SampleNumber(totals', n + 1) = value
  <2>1. n + 1 + 1 = n + 2 /\ n + 1 \in 1 .. n + 1
    BY <1>1
  <2>2. totals'[n + 1] = totals[n + 1] /\ totals[n + 1] \in Nat /\ totals'[n + 2] = totals[n + 1] + value
    BY <2>1, OneMoreSample DEF AverageInv
  <2> QED
    BY <2>1, <2>2 DEF SampleNumber
<1> SUFFICES ASSUME NEW j \in 0 .. N - 1
             PROVE  /\ j < average'.index =>
                         average'.buffer[j] = SampleNumber(totals', n + 1 - average'.index + j + 1)
                    /\ j >= average'.index /\ n + 1 >= N =>
                         average'.buffer[j] = SampleNumber(totals', n + 1 - average'.index + j + 1 - N)
  <2>1. Taken' \in Nat /\ average'.index \in Nat
    BY <1>1, <1>3 DEF NextIndex
  <2> HIDE DEF N, i, n
  <2> QED
    BY <1>1, <2>1 DEF RingHolds
<1>7. CASE j = i
  <2>1. average'.buffer[j] = SampleNumber(totals', n + 1)
    BY <1>4, <1>6, <1>7
  <2>2. j < average'.index => n + 1 - average'.index + j + 1 = n + 1
    BY <1>1, <1>3, <1>7 DEF NextIndex
  <2>3. j >= average'.index => n + 1 - average'.index + j + 1 - N = n + 1
    BY <1>1, <1>3, <1>7 DEF NextIndex
  <2> QED
    BY <2>1, <2>2, <2>3
<1>8. CASE j < i
  <2>1. average'.buffer[j] = SampleNumber(totals, n - i + j + 1)
    BY <1>1, <1>4, <1>8 DEF AverageInv, RingHolds
  <2>2. i <= n
    BY <1>1, <1>2
  <2>3. n - i + j + 1 \in 1 .. n
    BY <1>1, <1>8, <2>2
  <2>4. average'.buffer[j] = SampleNumber(totals', n - i + j + 1)
    BY <1>5, <2>1, <2>3
  <2>5. j < average'.index => n + 1 - average'.index + j + 1 = n - i + j + 1
    BY <1>1, <1>3, <1>8 DEF NextIndex
  <2>6. j >= average'.index => n + 1 - average'.index + j + 1 - N = n - i + j + 1
    BY <1>1, <1>3, <1>8 DEF NextIndex
  <2> QED
    BY <2>4, <2>5, <2>6
<1>9. CASE j > i
  <2>1. ~ (j < average'.index) /\ average'.index = i + 1
    BY <1>1, <1>3, <1>9 DEF NextIndex
  <2>2. SUFFICES ASSUME n + 1 >= N
                 PROVE  average'.buffer[j] = SampleNumber(totals', n + 1 - average'.index + j + 1 - N)
    BY <2>1
  <2>3. n >= N
    BY <1>1, <1>2, <1>9, <2>2
  <2>4. average'.buffer[j] = SampleNumber(totals, n - i + j + 1 - N)
    BY <1>1, <1>4, <1>9, <2>3 DEF AverageInv, RingHolds
  <2>5. n - i + j + 1 - N \in 1 .. n /\ n + 1 - average'.index + j + 1 - N = n - i + j + 1 - N
    BY <1>1, <1>9, <2>1, <2>3
  <2> QED
    BY <1>5, <2>4, <2>5
<1> QED
  BY <1>1, <1>7, <1>8, <1>9

(* The average that adc_task publishes and logs is that of its last N      *)
(* readings, or of all while there are fewer, for every N, every reading   *)
(* and however often the ring went round.                                  *)
THEOREM AverageIsOfWindow == AverageSpec => []AverageOfWindow
<1>1. AverageInit => AverageInv
  BY InitAverageInv
<1>2. AverageInv /\ [AverageNext]_averageVars => AverageInv'
  <2> SUFFICES ASSUME AverageInv, [AverageNext]_averageVars PROVE AverageInv'
    OBVIOUS
  <2>1. CASE AverageNext
    <3>1. PICK value \in Samples : Sample(value)
      BY <2>1 DEF AverageNext
    <3>2. value \in Nat
      BY SamplesAreNumbers
    <3> QED
      BY <3>1, <3>2, StepAverageShape, StepRing, StepSum DEF AverageInv
  <2>2. CASE UNCHANGED averageVars
    BY <2>2 DEF averageVars, AverageInv, AverageShape, RingHolds, SumIsOfWindow, SumOfLast, SampleNumber, Taken
  <2> QED
    BY <2>1, <2>2
<1>3. AverageInv => AverageOfWindow
  <2> SUFFICES ASSUME AverageInv PROVE AverageOfWindow
    OBVIOUS
  <2>1. average.count = (IF Taken < window THEN Taken ELSE window)
    BY DEF AverageInv, AverageShape
  <2>2. average.sum = SumOfLast(average.count)
    BY DEF AverageInv, SumIsOfWindow
  <2>3. window \in Nat /\ Taken \in Int
    <3>1. Len(totals) \in Nat
      BY DEF AverageInv, AverageShape
    <3> QED
      BY <3>1 DEF AverageInv, AverageShape, Taken
  <2>4. average.count > 0 => average.count # 0
    BY <2>1, <2>3
  <2> QED
    BY <2>1, <2>2, <2>4 DEF AverageOfWindow, MovingMean
<1> QED
  BY <1>1, <1>2, <1>3, PTL DEF AverageSpec

(***************************************************************************)
(* Numbers in order: where a number of S stands in InOrder(S, f).          *)
(***************************************************************************)
UpTo(S, i) == {k \in S : k <= i}

LEMMA PlacesOfNumbers ==
  ASSUME NEW S \in SUBSET Int, IsFiniteSet(S)
  PROVE  /\ Cardinality(S) \in Nat
         /\ \A i \in S : Cardinality(UpTo(S, i)) \in 1 .. Cardinality(S)
         /\ \A i, j \in S : Cardinality(UpTo(S, i)) = Cardinality(UpTo(S, j)) => i = j
         /\ \A n \in 1 .. Cardinality(S) : \E i \in S : Cardinality(UpTo(S, i)) = n
<1>1. Cardinality(S) \in Nat
  BY FS_CardinalityType
<1>2. ASSUME NEW i \in S
      PROVE  IsFiniteSet(UpTo(S, i)) /\ Cardinality(UpTo(S, i)) \in 1 .. Cardinality(S)
  <2>1. UpTo(S, i) \in SUBSET S /\ i \in UpTo(S, i)
    BY DEF UpTo
  <2>2. IsFiniteSet(UpTo(S, i)) /\ Cardinality(UpTo(S, i)) <= Cardinality(S)
    BY <2>1, FS_Subset
  <2>3. Cardinality(UpTo(S, i)) \in Nat /\ Cardinality(UpTo(S, i)) # 0
    BY <2>1, <2>2, FS_CardinalityType, FS_EmptySet
  <2> QED
    BY <1>1, <2>2, <2>3
<1>3. ASSUME NEW i \in S, NEW j \in S, i < j
      PROVE  Cardinality(UpTo(S, i)) # Cardinality(UpTo(S, j))
  <2>1. i \in Int /\ j \in Int
    OBVIOUS
  <2>2. UpTo(S, i) \in SUBSET UpTo(S, j)
    <3> SUFFICES ASSUME NEW k \in S, k <= i PROVE k <= j
      BY DEF UpTo
    <3>1. k \in Int
      OBVIOUS
    <3> QED
      BY <1>3, <2>1, <3>1
  <2>3. j \in UpTo(S, j) /\ j \notin UpTo(S, i)
    BY <1>3, <2>1 DEF UpTo
  <2>4. Cardinality(UpTo(S, j)) = Cardinality(UpTo(S, i)) => UpTo(S, j) = UpTo(S, i)
    BY <1>2, <2>2, FS_Subset
  <2> QED
    BY <2>3, <2>4
<1>4. ASSUME NEW i \in S, NEW j \in S, Cardinality(UpTo(S, i)) = Cardinality(UpTo(S, j))
      PROVE  i = j
  <2>1. i \in Int /\ j \in Int
    OBVIOUS
  <2>2. ~(i < j) /\ ~(j < i)
    BY <1>3, <1>4
  <2> QED
    BY <2>1, <2>2
<1> DEFINE T == 1 .. Cardinality(S)
           f == [i \in S |-> Cardinality(UpTo(S, i))]
<1>5. f \in Injection(S, T)
  BY <1>2, <1>4 DEF Injection, IsInjective
<1>6. IsFiniteSet(T) /\ Cardinality(T) = Cardinality(S)
  <2>1. IsFiniteSet(1 .. Cardinality(S))
        /\ Cardinality(1 .. Cardinality(S)) =
             IF 1 > Cardinality(S) THEN 0 ELSE Cardinality(S) - 1 + 1
    BY <1>1, FS_Interval
  <2> QED
    BY <1>1, <2>1
<1>7. f \in Surjection(S, T)
  <2> HIDE DEF f, T
  <2> QED
    BY <1>5, <1>6, FS_Injection
<1>8. ASSUME NEW n \in T PROVE \E i \in S : Cardinality(UpTo(S, i)) = n
  BY <1>7 DEF Surjection
<1> QED
  BY <1>1, <1>2, <1>4, <1>8

LEMMA InOrderAt ==
  ASSUME NEW S \in SUBSET Int, IsFiniteSet(S), NEW f
  PROVE  /\ DOMAIN InOrder(S, f) = 1 .. Cardinality(S)
         /\ \A i \in S : InOrder(S, f)[Cardinality(UpTo(S, i))] = f[i]
<1>1. DOMAIN InOrder(S, f) = 1 .. Cardinality(S)
  BY DEF InOrder
<1>2. ASSUME NEW i \in S
      PROVE  InOrder(S, f)[Cardinality(UpTo(S, i))] = f[i]
  <2> DEFINE n == Cardinality(UpTo(S, i))
  <2>1. n \in 1 .. Cardinality(S) /\ \A j \in S : Cardinality(UpTo(S, j)) = n => j = i
    BY PlacesOfNumbers
  <2>2. InOrder(S, f)[n] = f[CHOOSE j \in S : Cardinality(UpTo(S, j)) = n]
    BY <2>1 DEF InOrder, UpTo
  <2>3. (CHOOSE j \in S : Cardinality(UpTo(S, j)) = n) = i
    BY <2>1
  <2> QED
    BY <2>2, <2>3
<1> QED
  BY <1>1, <1>2

LEMMA InOrderType ==
  ASSUME NEW S \in SUBSET Int, IsFiniteSet(S), NEW f, NEW V, \A i \in S : f[i] \in V
  PROVE  InOrder(S, f) \in Seq(V) /\ Len(InOrder(S, f)) = Cardinality(S)
<1> DEFINE list == InOrder(S, f)
<1>1. Cardinality(S) \in Nat /\ DOMAIN list = 1 .. Cardinality(S)
  BY PlacesOfNumbers, InOrderAt
<1>2. ASSUME NEW n \in 1 .. Cardinality(S) PROVE list[n] \in V
  <2>1. PICK i \in S : Cardinality(UpTo(S, i)) = n
    BY PlacesOfNumbers
  <2> QED
    BY <2>1, InOrderAt
<1>3. list = [n \in 1 .. Cardinality(S) |-> list[n]]
  BY DEF InOrder
<1> HIDE DEF list
<1>4. list \in [1 .. Cardinality(S) -> V]
  BY <1>2, <1>3
<1>5. list \in Seq(V) /\ Len(list) = Cardinality(S)
  BY <1>1, <1>4
<1> QED
  BY <1>5 DEF list

LEMMA InOrderSame ==
  ASSUME NEW S \in SUBSET Int, IsFiniteSet(S), NEW f, NEW g, \A i \in S : f[i] = g[i]
  PROVE  InOrder(S, f) = InOrder(S, g)
<1> DEFINE a == InOrder(S, f)
           b == InOrder(S, g)
<1>1. a = [n \in 1 .. Cardinality(S) |-> a[n]] /\ b = [n \in 1 .. Cardinality(S) |-> b[n]]
  BY DEF InOrder
<1>2. ASSUME NEW n \in 1 .. Cardinality(S) PROVE a[n] = b[n]
  <2>1. PICK i \in S : Cardinality(UpTo(S, i)) = n
    BY PlacesOfNumbers
  <2> QED
    BY <2>1, InOrderAt
<1> HIDE DEF a, b
<1>3. a = b
  BY <1>1, <1>2
<1> QED
  BY <1>3 DEF a, b

(* A number greater than all of S comes last.                              *)
AddedLast(S, f, V, x, g) ==
  /\ S \in SUBSET Int /\ IsFiniteSet(S) /\ x \in Int
  /\ \A i \in S : i < x /\ f[i] \in V /\ g[i] = f[i]

LEMMA InOrderAppend ==
  ASSUME NEW S, NEW f, NEW V, NEW x, NEW g, AddedLast(S, f, V, x, g), NEW T, T = S \cup {x}
  PROVE  /\ InOrder(S, f) \in Seq(V)
         /\ InOrder(T, g) = Append(InOrder(S, f), g[x])
<1> DEFINE N == Cardinality(S)
           a == InOrder(S, f)
           b == InOrder(T, g)
<1>0. /\ S \in SUBSET Int /\ IsFiniteSet(S) /\ x \in Int
      /\ \A i \in S : i < x /\ f[i] \in V /\ g[i] = f[i]
  BY DEF AddedLast
<1>1. T \in SUBSET Int /\ x \notin S
  BY <1>0
<1>2. IsFiniteSet(T) /\ Cardinality(T) = N + 1 /\ N \in Nat
  BY <1>0, <1>1, FS_AddElement, FS_CardinalityType
<1>3. a \in Seq(V) /\ Len(a) = N /\ DOMAIN a = 1 .. N
  BY <1>0, InOrderType, InOrderAt
<1>4. UpTo(T, x) = T /\ \A i \in S : UpTo(T, i) = UpTo(S, i)
  <2>1. \A i \in S : i \in Int /\ i < x
    BY <1>0
  <2>2. \A i \in T : i <= x
    BY <1>0, <2>1
  <2>3. UpTo(T, x) = T
    BY <2>2 DEF UpTo
  <2>4. ASSUME NEW i \in S PROVE UpTo(T, i) = UpTo(S, i)
    <3>1. i \in Int /\ x \in Int /\ ~(x <= i)
      BY <1>0, <2>1
    <3> QED
      BY <3>1 DEF UpTo
  <2> QED
    BY <2>3, <2>4
<1>5. DOMAIN b = 1 .. N + 1 /\ \A i \in T : b[Cardinality(UpTo(T, i))] = g[i]
  BY <1>1, <1>2, InOrderAt
<1>6. b[N + 1] = g[x]
  BY <1>2, <1>4, <1>5
<1>7. ASSUME NEW n \in 1 .. N PROVE b[n] = a[n]
  <2>1. PICK i \in S : Cardinality(UpTo(S, i)) = n
    BY <1>0, PlacesOfNumbers
  <2>2. a[n] = f[i]
    BY <1>0, <2>1, InOrderAt
  <2> QED
    BY <1>0, <1>4, <1>5, <2>1, <2>2
<1>8. b = [n \in 1 .. N + 1 |-> b[n]]
  BY <1>2 DEF InOrder
<1> HIDE DEF a, b, N
<1>9. Append(a, g[x]) = [n \in 1 .. N + 1 |-> IF n = N + 1 THEN g[x] ELSE a[n]]
  BY <1>2, <1>3
<1>10. \A n \in 1 .. N + 1 : b[n] = IF n = N + 1 THEN g[x] ELSE a[n]
  BY <1>2, <1>6, <1>7
<1>11. b = Append(a, g[x])
  BY <1>8, <1>9, <1>10
<1> QED
  BY <1>3, <1>11 DEF a, b

LEMMA LastNumber ==
  ASSUME NEW S \in SUBSET Int, IsFiniteSet(S), S # {}
  PROVE  \E x \in S : \A i \in S : i <= x
<1>1. Cardinality(S) \in Nat /\ Cardinality(S) # 0
  BY FS_CardinalityType, FS_EmptySet
<1>2. PICK x \in S : Cardinality(UpTo(S, x)) = Cardinality(S)
  BY <1>1, PlacesOfNumbers
<1>3. UpTo(S, x) \in SUBSET S
  BY DEF UpTo
<1>4. UpTo(S, x) = S
  BY <1>2, <1>3, FS_Subset
<1> QED
  BY <1>4 DEF UpTo

(***************************************************************************)
(* The line editor.  Of a key that stays, the number of keys that stay     *)
(* behind it is what Behind counts: a rubout takes the last of them.       *)
(***************************************************************************)
After(S, i) == {k \in S : k > i}

Outcomes == {Command(text) : text \in Seq(Keys)}

LineTypes ==
  /\ keys \in Seq(Keys)
  /\ line \in [text : Seq(Keys), ran : Seq(Outcomes)]

BehindIsAfter ==
  LET n == Len(keys)
  IN  \A i \in Left(n + 1) : Behind(i, n) = Cardinality(After(Left(n + 1), i))

TextIsEdited == Fits => line.text = Edited(Len(keys) + 1)

LineInv == LineTypes /\ BehindIsAfter /\ TextIsEdited /\ LinesRunAsTyped

(* What holds when a key follows n others.                                 *)
Follows(n, key) ==
  /\ n \in Nat /\ key \in Keys
  /\ keys \in Seq(Keys) /\ Len(keys) = n
  /\ keys' \in Seq(Keys) /\ Len(keys') = n + 1
  /\ keys'[n + 1] = key
  /\ \A k \in 1 .. n : keys'[k] = keys[k]

LEMMA KeyFollows ==
  ASSUME keys \in Seq(Keys), NEW key \in Keys, TypeKey(key)
  PROVE  \E n \in Nat : Follows(n, key)
<1>1. keys' = Append(keys, key) /\ Len(keys) \in Nat
  BY DEF TypeKey
<1>2. Follows(Len(keys), key)
  BY <1>1 DEF Follows
<1> QED
  BY <1>1, <1>2

Texts(i, j) == {k \in i + 1 .. j : IsText(k)}
Rubouts(i, j) == {k \in i + 1 .. j : keys[k] \in Rubout}

LEMMA BehindCounts ==
  ASSUME NEW i \in Int, NEW j \in Int
  PROVE  /\ Behind(i, j) = Cardinality(Texts(i, j)) - Cardinality(Rubouts(i, j))
         /\ IsFiniteSet(Texts(i, j)) /\ Cardinality(Texts(i, j)) \in Nat
         /\ IsFiniteSet(Rubouts(i, j)) /\ Cardinality(Rubouts(i, j)) \in Nat
         /\ Behind(i, j) \in Int
<1>1. IsFiniteSet(i + 1 .. j)
  BY FS_Interval
<1>2. Texts(i, j) \in SUBSET (i + 1 .. j) /\ Rubouts(i, j) \in SUBSET (i + 1 .. j)
  BY DEF Texts, Rubouts
<1>3. IsFiniteSet(Texts(i, j)) /\ IsFiniteSet(Rubouts(i, j))
  BY <1>1, <1>2, FS_Subset
<1>4. Cardinality(Texts(i, j)) \in Nat /\ Cardinality(Rubouts(i, j)) \in Nat
  BY <1>3, FS_CardinalityType
<1>5. Behind(i, j) = Cardinality(Texts(i, j)) - Cardinality(Rubouts(i, j))
  BY DEF Behind, Texts, Rubouts
<1> QED
  BY <1>3, <1>4, <1>5

(* What was typed before stays what it was.                                *)
LEMMA PastStays ==
  ASSUME NEW n, NEW key, Follows(n, key)
  PROVE  /\ \A i \in 1 .. n + 1, j \in 0 .. n : /\ Texts(i, j)' = Texts(i, j)
                                              /\ Rubouts(i, j)' = Rubouts(i, j)
                                              /\ Behind(i, j)' = Behind(i, j)
         /\ \A i \in 1 .. n, j \in 0 .. n : Stays(i, j)' <=> Stays(i, j)
         /\ \A end \in 1 .. n + 1 : Left(end)' = Left(end) /\ Edited(end)' = Edited(end)
         /\ \A end \in 1 .. n + 1 : Left(end) \in SUBSET (1 .. n) /\ IsFiniteSet(Left(end))
<1>1. n \in Nat /\ \A k \in 1 .. n : keys'[k] = keys[k]
  BY DEF Follows
<1>2. ASSUME NEW i \in 1 .. n + 1, NEW j \in 0 .. n
      PROVE  Texts(i, j)' = Texts(i, j) /\ Rubouts(i, j)' = Rubouts(i, j)
  BY <1>1 DEF Texts, Rubouts, IsText
<1>3. ASSUME NEW i \in 1 .. n + 1, NEW j \in 0 .. n
      PROVE  Behind(i, j)' = Behind(i, j)
  <2>1. Behind(i, j) = Cardinality(Texts(i, j)) - Cardinality(Rubouts(i, j))
    BY DEF Behind, Texts, Rubouts
  <2>2. Behind(i, j)' = Cardinality(Texts(i, j)') - Cardinality(Rubouts(i, j)')
    BY DEF Behind, Texts, Rubouts
  <2> QED
    BY <1>2, <2>1, <2>2
<1>4. ASSUME NEW i \in 1 .. n, NEW j \in 0 .. n
      PROVE  Stays(i, j)' <=> Stays(i, j)
  <2>1. \A m \in i .. j : Behind(i, m)' = Behind(i, m)
    BY <1>1, <1>3
  <2>2. IsText(i)' <=> IsText(i)
    BY <1>1 DEF IsText
  <2> QED
    BY <2>1, <2>2 DEF Stays
<1>5. ASSUME NEW end \in 1 .. n + 1
      PROVE  Left(end)' = Left(end)
  <2>1. ASSUME NEW i \in 1 .. end - 1
        PROVE  /\ OnLine(i, end)' <=> OnLine(i, end)
               /\ Stays(i, end - 1)' <=> Stays(i, end - 1)
    <3>1. i \in 1 .. n /\ end - 1 \in 0 .. n
      BY <1>1
    <3>2. \A k \in i .. end - 1 : keys'[k] = keys[k]
      BY <1>1
    <3> QED
      BY <1>4, <3>1, <3>2 DEF OnLine
  <2> QED
    BY <2>1 DEF Left
<1>6. ASSUME NEW end \in 1 .. n + 1
      PROVE  Left(end) \in SUBSET (1 .. n) /\ IsFiniteSet(Left(end))
  <2>1. Left(end) \in SUBSET (1 .. n)
    BY <1>1 DEF Left
  <2>2. IsFiniteSet(1 .. n)
    BY <1>1, FS_Interval
  <2> QED
    BY <2>1, <2>2, FS_Subset
<1>7. ASSUME NEW end \in 1 .. n + 1
      PROVE  Edited(end)' = Edited(end)
  <2>1. \A i \in Left(end) : keys'[i] = keys[i]
    BY <1>1, <1>6
  <2>2. Left(end) \in SUBSET Int /\ IsFiniteSet(Left(end))
    BY <1>6
  <2>3. InOrder(Left(end), keys') = InOrder(Left(end), keys)
    BY <2>1, <2>2, InOrderSame
  <2>4. Edited(end)' = InOrder(Left(end)', keys') /\ Edited(end) = InOrder(Left(end), keys)
    BY DEF Edited, InOrder
  <2> QED
    BY <1>5, <2>3, <2>4
<1> QED
  BY <1>2, <1>3, <1>4, <1>5, <1>6, <1>7

TextTyped(key) == key \notin Enter \cup Rubout

(* What a key adds to the count behind each key before it.                 *)
LEMMA BehindGrows ==
  ASSUME NEW n, NEW key, Follows(n, key), NEW i \in 1 .. n
  PROVE  /\ Behind(i, n) \in Int
         /\ TextTyped(key) => Behind(i, n + 1)' = Behind(i, n) + 1
         /\ key \in Rubout => Behind(i, n + 1)' = Behind(i, n) - 1
<1>1. n \in Nat /\ keys'[n + 1] = key /\ i + 1 <= n + 1 /\ n \in 0 .. n
  BY DEF Follows
<1>2. /\ Texts(i, n)' = Texts(i, n) /\ Rubouts(i, n)' = Rubouts(i, n)
  BY <1>1, PastStays
<1>3. /\ Behind(i, n) = Cardinality(Texts(i, n)) - Cardinality(Rubouts(i, n))
      /\ IsFiniteSet(Texts(i, n)) /\ Cardinality(Texts(i, n)) \in Nat
      /\ IsFiniteSet(Rubouts(i, n)) /\ Cardinality(Rubouts(i, n)) \in Nat
      /\ Behind(i, n) \in Int
  <2>1. i \in Int /\ n \in Int
    BY <1>1
  <2> QED
    BY <2>1, BehindCounts
<1>4. Behind(i, n + 1)' = Cardinality(Texts(i, n + 1)') - Cardinality(Rubouts(i, n + 1)')
  BY DEF Behind, Texts, Rubouts
<1>5. n + 1 \notin Texts(i, n) /\ n + 1 \notin Rubouts(i, n)
  BY <1>1 DEF Texts, Rubouts
<1>6. ASSUME TextTyped(key)
      PROVE  Behind(i, n + 1)' = Behind(i, n) + 1
  <2>1. Texts(i, n + 1)' = Texts(i, n)' \cup {n + 1}
    BY <1>1, <1>6 DEF Texts, IsText, TextTyped
  <2>2. Rubouts(i, n + 1)' = Rubouts(i, n)'
    BY <1>1, <1>6 DEF Rubouts, TextTyped
  <2>3. Cardinality(Texts(i, n) \cup {n + 1}) = Cardinality(Texts(i, n)) + 1
    BY <1>3, <1>5, FS_AddElement
  <2>4. Behind(i, n + 1)' = Cardinality(Texts(i, n) \cup {n + 1}) - Cardinality(Rubouts(i, n))
    BY <1>2, <1>4, <2>1, <2>2
  <2> QED
    BY <1>3, <2>3, <2>4
<1>7. ASSUME key \in Rubout
      PROVE  Behind(i, n + 1)' = Behind(i, n) - 1
  <2>1. Texts(i, n + 1)' = Texts(i, n)'
    BY <1>1, <1>7 DEF Texts, IsText
  <2>2. Rubouts(i, n + 1)' = Rubouts(i, n)' \cup {n + 1}
    BY <1>1, <1>7 DEF Rubouts
  <2>3. Cardinality(Rubouts(i, n) \cup {n + 1}) = Cardinality(Rubouts(i, n)) + 1
    BY <1>3, <1>5, FS_AddElement
  <2>4. Behind(i, n + 1)' = Cardinality(Texts(i, n)) - Cardinality(Rubouts(i, n) \cup {n + 1})
    BY <1>2, <1>4, <2>1, <2>2
  <2> QED
    BY <1>3, <2>3, <2>4
<1> QED
  BY <1>3, <1>6, <1>7

(* Nothing is behind the last key.                                         *)
LEMMA NothingBehind == \A n \in Nat : Behind(n, n) = 0 /\ Behind(n, n)' = 0
<1> SUFFICES ASSUME NEW n \in Nat PROVE Behind(n, n) = 0 /\ Behind(n, n)' = 0
  OBVIOUS
<1>1. Texts(n, n) = {} /\ Rubouts(n, n) = {} /\ Texts(n, n)' = {} /\ Rubouts(n, n)' = {}
  BY DEF Texts, Rubouts
<1>2. /\ Behind(n, n) = Cardinality(Texts(n, n)) - Cardinality(Rubouts(n, n))
      /\ Behind(n, n)' = Cardinality(Texts(n, n)') - Cardinality(Rubouts(n, n)')
  BY DEF Behind, Texts, Rubouts
<1>3. Cardinality({}) = 0
  BY FS_EmptySet
<1>4. Cardinality({}) - Cardinality({}) = 0
  BY <1>3
<1> QED
  BY <1>1, <1>2, <1>4

LEMMA EnterEndsLine ==
  ASSUME NEW n, NEW key, Follows(n, key), key \in Enter
  PROVE  Left(n + 2)' = {}
<1>1. n \in Nat /\ keys'[n + 1] = key
  BY DEF Follows
<1>2. ASSUME NEW i \in 1 .. n + 2 - 1 PROVE ~OnLine(i, n + 2)'
  BY <1>1 DEF OnLine
<1> QED
  BY <1>1, <1>2 DEF Left

LEMMA SameLine ==
  ASSUME NEW n, NEW key, Follows(n, key), key \notin Enter
  PROVE  \A i \in 1 .. n : OnLine(i, n + 2)' <=> OnLine(i, n + 1)
<1>1. n \in Nat /\ keys'[n + 1] = key /\ \A k \in 1 .. n : keys'[k] = keys[k]
  BY DEF Follows
<1> SUFFICES ASSUME NEW i \in 1 .. n PROVE OnLine(i, n + 2)' <=> OnLine(i, n + 1)
  OBVIOUS
<1>2. n + 2 - 1 = n + 1 /\ n + 1 - 1 = n
  BY <1>1
<1>3. OnLine(i, n + 2)' <=> \A k \in i .. n + 1 : keys'[k] \notin Enter
  BY <1>1, <1>2 DEF OnLine
<1>4. OnLine(i, n + 1) <=> \A k \in i .. n : keys[k] \notin Enter
  BY <1>1, <1>2 DEF OnLine
<1> QED
  BY <1>1, <1>3, <1>4

LEMMA StaysOn ==
  ASSUME NEW n, NEW key, Follows(n, key)
  PROVE  \A i \in 1 .. n : Stays(i, n + 1)' <=> Stays(i, n) /\ Behind(i, n + 1)' >= 0
<1>1. n \in Nat /\ n \in 0 .. n
  BY DEF Follows
<1> SUFFICES ASSUME NEW i \in 1 .. n
             PROVE  Stays(i, n + 1)' <=> Stays(i, n) /\ Behind(i, n + 1)' >= 0
  OBVIOUS
<1>2. Stays(i, n)' <=> Stays(i, n)
  BY <1>1, PastStays
<1>3. \A m : m \in i .. n + 1 <=> m \in i .. n \/ m = n + 1
  BY <1>1
<1>4. Stays(i, n + 1)' <=> Stays(i, n)' /\ Behind(i, n + 1)' >= 0
  BY <1>3 DEF Stays
<1> QED
  BY <1>2, <1>4

LEMMA TextJoinsLine ==
  ASSUME NEW n, NEW key, Follows(n, key), TextTyped(key)
  PROVE  Left(n + 2)' = Left(n + 1) \cup {n + 1}
<1>1. n \in Nat /\ keys'[n + 1] = key /\ key \notin Enter
  BY DEF Follows, TextTyped
<1>2. ASSUME NEW i \in 1 .. n
      PROVE  i \in Left(n + 2)' <=> i \in Left(n + 1)
  <2>1. Stays(i, n + 1)' <=> Stays(i, n) /\ Behind(i, n + 1)' >= 0
    BY StaysOn
  <2>2. Stays(i, n) => Behind(i, n) >= 0
    BY <1>1 DEF Stays
  <2>3. Behind(i, n + 1)' = Behind(i, n) + 1 /\ Behind(i, n) \in Int
    BY BehindGrows
  <2>4. Stays(i, n + 1)' <=> Stays(i, n)
    BY <2>1, <2>2, <2>3
  <2>5. n + 2 - 1 = n + 1 /\ n + 1 - 1 = n /\ i \in 1 .. n + 1
    BY <1>1
  <2> QED
    BY <1>1, <2>4, <2>5, SameLine DEF Left
<1>3. n + 1 \in Left(n + 2)'
  <2>1. n + 2 - 1 = n + 1 /\ n + 1 \in 1 .. n + 1 /\ n + 1 \in Nat
    BY <1>1
  <2>2. OnLine(n + 1, n + 2)'
    BY <1>1, <2>1 DEF OnLine
  <2>3. Stays(n + 1, n + 1)'
    <3>1. \A m \in n + 1 .. n + 1 : m = n + 1
      BY <1>1
    <3>2. Behind(n + 1, n + 1)' = 0
      BY <2>1, NothingBehind
    <3>3. \A m \in n + 1 .. n + 1 : Behind(m, m)' = 0
      BY <3>1, <3>2
    <3>4. IsText(n + 1)'
      BY <1>1 DEF IsText, TextTyped
    <3> QED
      BY <3>1, <3>2, <3>4 DEF Stays
  <2> QED
    BY <1>1, <2>1, <2>2, <2>3 DEF Left
<1>4. Left(n + 2)' \in SUBSET (1 .. n + 1) /\ Left(n + 1) \in SUBSET (1 .. n)
  BY <1>1 DEF Left
<1>5. 1 .. n + 1 = (1 .. n) \cup {n + 1}
  BY <1>1
<1> QED
  BY <1>2, <1>3, <1>4, <1>5

(* Under BehindIsAfter the rubout takes the last key that stays, if any.   *)
LEMMA RuboutTakesLast ==
  ASSUME NEW n, NEW key, Follows(n, key), key \in Rubout, BehindIsAfter
  PROVE  \/ Left(n + 1) = {} /\ Left(n + 2)' = {}
         \/ \E x \in Left(n + 1) : /\ \A i \in Left(n + 1) : i <= x
                                  /\ Left(n + 2)' = Left(n + 1) \ {x}
<1> DEFINE L == Left(n + 1)
<1>1. n \in Nat /\ keys'[n + 1] = key /\ Len(keys) = n /\ key \notin Enter
  BY DEF Follows, Enter, Rubout
<1>2. L \in SUBSET (1 .. n) /\ IsFiniteSet(L)
  BY <1>1, PastStays
<1>3. \A i \in L : Behind(i, n) = Cardinality(After(L, i))
  BY <1>1 DEF BehindIsAfter
<1>4. ASSUME NEW i \in 1 .. n
      PROVE  i \in Left(n + 2)' <=> i \in L /\ Behind(i, n) >= 1
  <2>1. Stays(i, n + 1)' <=> Stays(i, n) /\ Behind(i, n + 1)' >= 0
    BY StaysOn
  <2>2. Behind(i, n + 1)' = Behind(i, n) - 1 /\ Behind(i, n) \in Int
    BY BehindGrows
  <2>3. Stays(i, n + 1)' <=> Stays(i, n) /\ Behind(i, n) >= 1
    BY <2>1, <2>2
  <2>4. n + 2 - 1 = n + 1 /\ n + 1 - 1 = n /\ i \in 1 .. n + 1
    BY <1>1
  <2> QED
    BY <1>1, <2>3, <2>4, SameLine DEF Left
<1>5. Left(n + 2)' \in SUBSET (1 .. n)
  <2>1. n + 1 \notin Left(n + 2)'
    BY <1>1 DEF Left, Stays, IsText
  <2>2. Left(n + 2)' \in SUBSET (1 .. n + 1)
    BY <1>1 DEF Left
  <2> QED
    BY <1>1, <2>1, <2>2
<1>6. CASE L = {}
  BY <1>4, <1>5, <1>6
<1>7. CASE L # {}
  <2>1. PICK x \in L : \A i \in L : i <= x
    BY <1>2, <1>7, LastNumber
  <2>2. After(L, x) = {}
    <3> SUFFICES ASSUME NEW k \in L, k > x PROVE FALSE
      BY DEF After
    <3>1. k \in Int /\ x \in Int /\ k <= x
      BY <1>2, <2>1
    <3> QED
      BY <3>1
  <2>3. Behind(x, n) = 0
    BY <1>3, <2>2, FS_EmptySet
  <2>4. ASSUME NEW i \in L, i # x PROVE Behind(i, n) >= 1
    <3>1. i \in Int /\ x \in Int /\ i <= x
      BY <1>2, <2>1
    <3>2. x \in After(L, i) /\ After(L, i) \in SUBSET L
      BY <2>4, <3>1 DEF After
    <3>3. IsFiniteSet(After(L, i))
      BY <1>2, <3>2, FS_Subset
    <3>4. Cardinality(After(L, i)) \in Nat /\ Cardinality(After(L, i)) # 0
      BY <3>2, <3>3, FS_CardinalityType, FS_EmptySet
    <3> QED
      BY <1>3, <3>4
  <2>5. Left(n + 2)' = L \ {x}
    BY <1>2, <1>4, <1>5, <2>3, <2>4
  <2> QED
    BY <2>1, <2>5
<1> QED
  BY <1>6, <1>7

LEMMA StepBehindIsAfter ==
  ASSUME NEW n, NEW key, Follows(n, key), BehindIsAfter
  PROVE  BehindIsAfter'
<1> DEFINE L == Left(n + 1)
<1>1. n \in Nat /\ Len(keys) = n /\ Len(keys') = n + 1
  BY DEF Follows
<1>2. L \in SUBSET (1 .. n) /\ IsFiniteSet(L)
  BY <1>1, PastStays
<1>3. \A i \in L : Behind(i, n) = Cardinality(After(L, i))
  BY <1>1 DEF BehindIsAfter
<1>4. ASSUME NEW i \in L
      PROVE  IsFiniteSet(After(L, i)) /\ Cardinality(After(L, i)) \in Nat
  <2>1. After(L, i) \in SUBSET L
    BY DEF After
  <2> QED
    BY <1>2, <2>1, FS_Subset, FS_CardinalityType
<1> SUFFICES ASSUME NEW i \in Left(n + 2)'
             PROVE  Behind(i, n + 1)' = Cardinality(After(Left(n + 2)', i))
  <2>1. n + 1 + 1 = n + 2
    BY <1>1
  <2> QED
    BY <1>1, <2>1 DEF BehindIsAfter, After
<1>5. CASE key \in Enter
  BY <1>5, EnterEndsLine
<1>6. CASE TextTyped(key)
  <2>1. Left(n + 2)' = L \cup {n + 1}
    BY <1>6, TextJoinsLine
  <2>2. CASE i \in L
    <3>1. i \in 1 .. n /\ Behind(i, n + 1)' = Behind(i, n) + 1
      BY <1>2, <1>6, <2>2, BehindGrows
    <3>2. After(L \cup {n + 1}, i) = After(L, i) \cup {n + 1}
      BY <1>1, <3>1 DEF After
    <3>3. n + 1 \notin After(L, i)
      BY <1>1, <1>2 DEF After
    <3>4. Cardinality(After(L, i) \cup {n + 1}) = Cardinality(After(L, i)) + 1
      BY <1>4, <2>2, <3>3, FS_AddElement
    <3> QED
      BY <1>3, <2>1, <2>2, <3>1, <3>2, <3>4
  <2>3. CASE i = n + 1
    <3>1. After(L \cup {n + 1}, n + 1) = {}
      <4>1. \A k \in L \cup {n + 1} : ~(k > n + 1)
        BY <1>1, <1>2
      <4> QED
        BY <4>1 DEF After
    <3>2. n + 1 \in Nat
      BY <1>1
    <3>3. Behind(n + 1, n + 1)' = 0
      BY <3>2, NothingBehind
    <3> QED
      BY <2>1, <2>3, <3>1, <3>3, FS_EmptySet
  <2> QED
    BY <2>1, <2>2, <2>3
<1>7. CASE key \in Rubout
  <2>1. PICK x \in L : (\A k \in L : k <= x) /\ Left(n + 2)' = L \ {x}
    BY <1>7, RuboutTakesLast
  <2>2. i \in L /\ i # x /\ i \in 1 .. n /\ x \in 1 .. n /\ i <= x
    BY <1>2, <2>1
  <2>3. Behind(i, n + 1)' = Behind(i, n) - 1
    BY <1>7, <2>2, BehindGrows
  <2>4. After(L \ {x}, i) = After(L, i) \ {x} /\ x \in After(L, i)
    BY <2>2, <2>1 DEF After
  <2>5. Cardinality(After(L, i) \ {x}) = Cardinality(After(L, i)) - 1
    BY <1>4, <2>2, <2>4, FS_RemoveElement
  <2> QED
    BY <1>3, <2>1, <2>2, <2>3, <2>4, <2>5
<1> QED
  BY <1>5, <1>6, <1>7 DEF TextTyped

LEMMA NothingInOrder == \A f : InOrder({}, f) = <<>>
<1> SUFFICES ASSUME NEW f PROVE InOrder({}, f) = <<>>
  OBVIOUS
<1>1. {} \in SUBSET Int /\ IsFiniteSet({}) /\ Cardinality({}) = 0
  BY FS_EmptySet
<1>2. InOrder({}, f) \in Seq(Nat) /\ Len(InOrder({}, f)) = 0
  BY <1>1, InOrderType
<1> QED
  BY <1>2

(* The text on a line as it is edited, key by key.                         *)
LEMMA EditedGrows ==
  ASSUME NEW n, NEW key, Follows(n, key), BehindIsAfter
  PROVE  /\ Edited(n + 1) \in Seq(Keys)
         /\ key \in Enter => Edited(n + 2)' = <<>>
         /\ TextTyped(key) => Edited(n + 2)' = Append(Edited(n + 1), key)
         /\ key \in Rubout =>
              \/ Edited(n + 1) = <<>> /\ Edited(n + 2)' = <<>>
              \/ /\ Edited(n + 2)' \in Seq(Keys)
                 /\ \E last \in Keys : Edited(n + 1) = Append(Edited(n + 2)', last)
<1> DEFINE L == Left(n + 1)
<1>1. /\ n \in Nat /\ key \in Keys /\ keys \in Seq(Keys) /\ Len(keys) = n /\ keys'[n + 1] = key
      /\ \A k \in 1 .. n : keys'[k] = keys[k]
  BY DEF Follows
<1>2. L \in SUBSET (1 .. n) /\ IsFiniteSet(L)
  BY <1>1, PastStays
<1>3. L \in SUBSET Int /\ \A i \in L : keys[i] \in Keys /\ keys'[i] = keys[i]
  BY <1>1, <1>2
<1>4. Edited(n + 1) = InOrder(L, keys) /\ Edited(n + 2)' = InOrder(Left(n + 2)', keys')
  BY DEF Edited, InOrder
<1>5. Edited(n + 1) \in Seq(Keys)
  <2> HIDE DEF L
  <2>1. InOrder(L, keys) \in Seq(Keys) /\ Len(InOrder(L, keys)) = Cardinality(L)
    BY <1>2, <1>3, InOrderType
  <2> QED
    BY <1>4, <2>1
<1>6. ASSUME key \in Enter PROVE Edited(n + 2)' = <<>>
  BY <1>4, <1>6, EnterEndsLine, NothingInOrder
<1>7. ASSUME TextTyped(key) PROVE Edited(n + 2)' = Append(Edited(n + 1), key)
  <2>1. Left(n + 2)' = L \cup {n + 1}
    BY <1>7, TextJoinsLine
  <2>2. n + 1 \in Int /\ \A i \in L : i < n + 1
    BY <1>1, <1>2
  <2> HIDE DEF L
  <2>3. /\ InOrder(L, keys) \in Seq(Keys)
        /\ InOrder(L \cup {n + 1}, keys') = Append(InOrder(L, keys), keys'[n + 1])
    <3>1. AddedLast(L, keys, Keys, n + 1, keys')
      BY <1>2, <1>3, <2>2 DEF AddedLast
    <3> QED
      BY <3>1, InOrderAppend
  <2> QED
    BY <1>1, <1>4, <2>1, <2>3
<1>8. ASSUME key \in Rubout, ~(Edited(n + 1) = <<>> /\ Edited(n + 2)' = <<>>)
      PROVE  /\ Edited(n + 2)' \in Seq(Keys)
             /\ \E last \in Keys : Edited(n + 1) = Append(Edited(n + 2)', last)
  <2>1. ~(L = {} /\ Left(n + 2)' = {})
    BY <1>4, <1>8, NothingInOrder
  <2>2. PICK x \in L : (\A i \in L : i <= x) /\ Left(n + 2)' = L \ {x}
    BY <1>8, <2>1, RuboutTakesLast
  <2> DEFINE R == L \ {x}
  <2>3. /\ R \in SUBSET Int /\ IsFiniteSet(R) /\ x \in Int /\ L = R \cup {x}
        /\ \A i \in R : i < x /\ keys[i] \in Keys /\ keys'[i] = keys[i]
    <3>1. R \in SUBSET L /\ R \in SUBSET Int /\ x \in Int /\ L = R \cup {x}
      BY <1>3
    <3>2. IsFiniteSet(R)
      BY <1>2, <3>1, FS_Subset
    <3>3. \A i \in R : i < x /\ keys[i] \in Keys /\ keys'[i] = keys[i]
      BY <1>3, <2>2
    <3> QED
      BY <3>1, <3>2, <3>3
  <2>4. keys[x] \in Keys
    BY <1>3
  <2> HIDE DEF R, L
  <2>5. InOrder(R, keys) \in Seq(Keys) /\ Len(InOrder(R, keys)) = Cardinality(R)
    BY <2>3, InOrderType
  <2>6. /\ InOrder(R, keys) \in Seq(Keys)
        /\ InOrder(R \cup {x}, keys) = Append(InOrder(R, keys), keys[x])
    <3>1. AddedLast(R, keys, Keys, x, keys)
      BY <2>3 DEF AddedLast
    <3> QED
      BY <3>1, InOrderAppend
  <2>7. InOrder(R, keys) = InOrder(R, keys')
    BY <2>3, InOrderSame
  <2>8. Edited(n + 2)' = InOrder(R, keys)
    BY <1>4, <2>2, <2>7 DEF R
  <2>9. Edited(n + 1) = Append(InOrder(R, keys), keys[x])
    BY <1>4, <2>3, <2>6
  <2> QED
    BY <2>4, <2>5, <2>8, <2>9
<1> QED
  BY <1>5, <1>6, <1>7, <1>8

LEMMA FitsBefore ==
  ASSUME NEW n, NEW key, Follows(n, key), Fits'
  PROVE  Fits /\ (TextTyped(key) => Len(Edited(n + 1)) < CmdBufSize - 1)
<1>1. /\ n \in Nat /\ DOMAIN keys = 1 .. n /\ DOMAIN keys' = 1 .. n + 1 /\ keys'[n + 1] = key
      /\ \A k \in 1 .. n : keys'[k] = keys[k]
  BY DEF Follows
<1>2. \A k \in 1 .. n + 1 : IsText(k)' => Len(Edited(k)') < CmdBufSize - 1
  BY <1>1 DEF Fits
<1>3. \A k \in 1 .. n + 1 : Edited(k)' = Edited(k)
  BY PastStays
<1>4. \A k \in 1 .. n : IsText(k)' <=> IsText(k)
  BY <1>1 DEF IsText
<1>5. n + 1 \in 1 .. n + 1 /\ (TextTyped(key) => IsText(n + 1)')
  BY <1>1 DEF IsText, TextTyped
<1> QED
  BY <1>1, <1>2, <1>3, <1>4, <1>5 DEF Fits

LEMMA StepLineTypes ==
  ASSUME LineTypes, NEW key \in Keys, TypeKey(key)
  PROVE  LineTypes'
<1>1. keys' \in Seq(Keys)
  BY DEF LineTypes, TypeKey
<1>2. line \in [text : Seq(Keys), ran : Seq(Outcomes)] /\ line.text \in Seq(Keys) /\ line.ran \in Seq(Outcomes)
  BY DEF LineTypes
<1>3. CASE key \in Enter
  <2>1. line' = EnterKey
    BY <1>3 DEF TypeKey, Enter, Rubout
  <2>2. Command(line.text) \in Outcomes
    BY <1>2 DEF Outcomes
  <2>3. Append(line.ran, Command(line.text)) \in Seq(Outcomes)
    BY <1>2, <2>2
  <2>4. <<>> \in Seq(Keys)
    OBVIOUS
  <2> QED
    BY <1>1, <1>2, <2>1, <2>3, <2>4 DEF LineTypes, EnterKey
<1>4. CASE key \in Rubout /\ key \notin Enter
  <2>1. line' = RuboutKey
    BY <1>4 DEF TypeKey
  <2>2. line.text # <<>> => Front(line.text) \in Seq(Keys)
    <3> DEFINE t == line.text
    <3>1. t \in Seq(Keys)
      BY <1>2
    <3> HIDE DEF t
    <3>2. t # <<>> => Len(t) - 1 \in 0 .. Len(t)
      BY <3>1
    <3>3. t # <<>> => SubSeq(t, 1, Len(t) - 1) \in Seq(Keys)
      BY <3>1, <3>2
    <3> QED
      BY <3>3 DEF t, Front
  <2> QED
    BY <1>1, <1>2, <2>1, <2>2 DEF LineTypes, RuboutKey
<1>5. CASE key \notin Rubout /\ key \notin Enter
  <2>1. line' = TextKey(key)
    BY <1>5 DEF TypeKey
  <2>2. Append(line.text, key) \in Seq(Keys) /\ <<>> \in Seq(Keys)
    BY <1>2
  <2> QED
    BY <1>1, <1>2, <2>1, <2>2 DEF LineTypes, TextKey
<1> QED
  BY <1>3, <1>4, <1>5

(* What the task has in its buffer after a key, while lines fit.           *)
LEMMA StepText ==
  ASSUME LineTypes, BehindIsAfter, TextIsEdited, NEW key \in Keys, TypeKey(key)
  PROVE  TextIsEdited'
<1>1. PICK n \in Nat : Follows(n, key)
  BY KeyFollows DEF LineTypes
<1>2. Len(keys) = n /\ Len(keys') = n + 1 /\ n + 1 + 1 = n + 2
  BY <1>1 DEF Follows
<1> SUFFICES ASSUME Fits' PROVE line'.text = Edited(n + 2)'
  BY <1>2 DEF TextIsEdited, Edited, InOrder
<1>3. Fits /\ (TextTyped(key) => Len(Edited(n + 1)) < CmdBufSize - 1)
  BY <1>1, FitsBefore
<1>4. line.text = Edited(n + 1)
  BY <1>2, <1>3 DEF TextIsEdited
<1>5. line \in [text : Seq(Keys), ran : Seq(Outcomes)] /\ line.text \in Seq(Keys)
  BY DEF LineTypes
<1>6. CASE key \in Enter
  <2>1. line' = EnterKey
    BY <1>6 DEF TypeKey, Enter, Rubout
  <2>2. Edited(n + 2)' = <<>>
    BY <1>1, <1>6, EditedGrows
  <2> QED
    BY <2>1, <2>2 DEF EnterKey
<1>7. CASE key \in Rubout
  <2>1. line' = RuboutKey
    BY <1>7 DEF TypeKey, Enter, Rubout
  <2>2. CASE Edited(n + 1) = <<>> /\ Edited(n + 2)' = <<>>
    BY <1>4, <2>1, <2>2 DEF RuboutKey
  <2>3. CASE ~(Edited(n + 1) = <<>> /\ Edited(n + 2)' = <<>>)
    <3>1. Edited(n + 2)' \in Seq(Keys) /\ \E last \in Keys : Edited(n + 1) = Append(Edited(n + 2)', last)
      BY <1>1, <1>7, <2>3, EditedGrows
    <3> DEFINE t == Edited(n + 2)'
    <3>2. PICK last \in Keys : line.text = Append(t, last)
      BY <1>4, <3>1
    <3>3. t \in Seq(Keys)
      BY <3>1
    <3> HIDE DEF t
    <3>4. Append(t, last) # <<>> /\ SubSeq(Append(t, last), 1, Len(Append(t, last)) - 1) = t
      BY <3>3
    <3>5. line.text # <<>> /\ Front(line.text) = t
      BY <3>2, <3>4 DEF Front
    <3>6. line'.text = t
      BY <1>5, <2>1, <3>5 DEF RuboutKey
    <3> QED
      BY <3>6 DEF t
  <2> QED
    BY <2>2, <2>3
<1>8. CASE TextTyped(key)
  <2>1. line' = TextKey(key)
    BY <1>8 DEF TypeKey, TextTyped
  <2>2. Edited(n + 2)' = Append(Edited(n + 1), key)
    BY <1>1, <1>8, EditedGrows
  <2> QED
    BY <1>3, <1>4, <1>5, <1>8, <2>1, <2>2 DEF TextKey
<1> QED
  BY <1>6, <1>7, <1>8 DEF TextTyped

LEMMA StepLinesRun ==
  ASSUME LineTypes, TextIsEdited, LinesRunAsTyped, NEW key \in Keys, TypeKey(key)
  PROVE  LinesRunAsTyped'
<1> DEFINE f == [k \in DOMAIN keys |-> Command(Edited(k))]
           g == [k \in DOMAIN keys' |-> Command(Edited(k)')]
<1>1. PICK n \in Nat : Follows(n, key)
  BY KeyFollows DEF LineTypes
<1>2. /\ n \in Nat /\ DOMAIN keys = 1 .. n /\ DOMAIN keys' = 1 .. n + 1 /\ keys'[n + 1] = key
      /\ Len(keys) = n /\ \A k \in 1 .. n : keys'[k] = keys[k]
  BY <1>1 DEF Follows
<1>3. \A k \in 1 .. n + 1 : Edited(k)' = Edited(k)
  BY <1>1, PastStays
<1>4. Lines \in SUBSET (1 .. n) /\ IsFiniteSet(Lines)
  <2>1. Lines \in SUBSET (1 .. n) /\ IsFiniteSet(1 .. n)
    BY <1>2, FS_Interval DEF Lines
  <2> QED
    BY <2>1, FS_Subset
<1>5. \A k \in Lines : f[k] \in {Command(text) : text \in {Edited(j) : j \in 1 .. n}} /\ g[k] = f[k]
  BY <1>2, <1>3, <1>4
<1>6. n + 1 \in 1 .. n + 1 /\ g[n + 1] = Command(Edited(n + 1))
  BY <1>2, <1>3
<1> SUFFICES ASSUME Fits' PROVE line'.ran = InOrder(Lines', g)
  <2>1. InOrder(Lines, [k \in DOMAIN keys |-> Command(Edited(k))])' = InOrder(Lines', g)
    BY DEF InOrder
  <2> QED
    BY <2>1 DEF LinesRunAsTyped
<1>7. Fits
  BY <1>1, FitsBefore
<1>8. line.text = Edited(n + 1) /\ line.ran = InOrder(Lines, f)
  BY <1>2, <1>7 DEF TextIsEdited, LinesRunAsTyped
<1>9. line \in [text : Seq(Keys), ran : Seq(Outcomes)]
  BY DEF LineTypes
<1>10. \A k \in 1 .. n : k \in Lines' <=> k \in Lines
  BY <1>2, <1>3 DEF Lines
<1>11. Lines' \in SUBSET (1 .. n + 1) /\ 1 .. n + 1 = (1 .. n) \cup {n + 1}
  BY <1>2 DEF Lines
<1>12. n + 1 \in Lines' <=> key \in Enter /\ line.text # <<>>
  BY <1>2, <1>3, <1>6, <1>8 DEF Lines
<1>13. CASE key \in Enter /\ line.text # <<>>
  <2>1. line'.ran = Append(line.ran, Command(line.text))
    BY <1>13 DEF TypeKey, EnterKey, Enter, Rubout
  <2>2. Lines' = Lines \cup {n + 1}
    BY <1>4, <1>10, <1>11, <1>12, <1>13
  <2> DEFINE V == {Command(text) : text \in {Edited(j) : j \in 1 .. n}}
  <2>3. \A k \in Lines : k < n + 1 /\ k \in Int
    BY <1>2, <1>4
  <2>4. \A k \in Lines : f[k] \in V /\ g[k] = f[k]
    BY <1>5
  <2>5. n + 1 \in Int
    BY <1>2
  <2> HIDE DEF f, g, V
  <2>6. AddedLast(Lines, f, V, n + 1, g)
    BY <1>4, <2>3, <2>4, <2>5 DEF AddedLast
  <2>7. /\ InOrder(Lines, f) \in Seq(V)
        /\ InOrder(Lines', g) = Append(InOrder(Lines, f), g[n + 1])
    BY <2>2, <2>6, InOrderAppend
  <2> QED
    BY <1>6, <1>8, <2>1, <2>7
<1>14. CASE ~(key \in Enter /\ line.text # <<>>)
  <2>1. line'.ran = line.ran
    BY <1>9, <1>14 DEF TypeKey, EnterKey, RuboutKey, TextKey
  <2>2. Lines' = Lines
    BY <1>4, <1>10, <1>11, <1>12, <1>14
  <2>3. Lines \in SUBSET Int /\ \A k \in Lines : f[k] = g[k]
    BY <1>4, <1>5
  <2> HIDE DEF f, g
  <2>4. InOrder(Lines, f) = InOrder(Lines, g)
    BY <1>4, <2>3, InOrderSame
  <2> QED
    BY <1>8, <2>1, <2>2, <2>4
<1> QED
  BY <1>13, <1>14

LEMMA InitLineInv == LineInit => LineInv
<1> SUFFICES ASSUME LineInit PROVE LineInv
  OBVIOUS
<1>1. keys = <<>> /\ line = [text |-> <<>>, ran |-> <<>>] /\ Len(keys) = 0
  BY DEF LineInit
<1>2. LineTypes
  BY <1>1 DEF LineTypes
<1>3. Left(1) = {}
  <2>1. Left(1) = {i \in 1 .. 0 : OnLine(i, 1) /\ Stays(i, 0)}
    BY DEF Left
  <2> QED
    BY <2>1
<1>4. Edited(1) = <<>>
  BY <1>3, NothingInOrder DEF Edited
<1>5. 0 + 1 = 1
  OBVIOUS
<1>6. BehindIsAfter
  BY <1>1, <1>3, <1>5 DEF BehindIsAfter
<1>7. TextIsEdited
  BY <1>1, <1>4, <1>5 DEF TextIsEdited
<1>8. Lines = {}
  BY <1>1 DEF Lines
<1>9. LinesRunAsTyped
  BY <1>1, <1>8, NothingInOrder DEF LinesRunAsTyped
<1> QED
  BY <1>2, <1>6, <1>7, <1>9 DEF LineInv

(* The command task does what the edited lines say, once per line and in   *)
(* their order, whatever is typed and however long: as long as every line  *)
(* fits the buffer of any size, the commands run are those of the lines    *)
(* after their rubouts.                                                    *)
THEOREM CommandsAsTyped == LineSpec => []LinesRunAsTyped
<1>1. LineInit => LineInv
  BY InitLineInv
<1>2. LineInv /\ [LineNext]_lineVars => LineInv'
  <2> SUFFICES ASSUME LineInv, [LineNext]_lineVars PROVE LineInv'
    OBVIOUS
  <2>1. CASE LineNext
    <3>1. PICK key \in Keys : TypeKey(key)
      BY <2>1 DEF LineNext
    <3>2. LineTypes /\ BehindIsAfter /\ TextIsEdited /\ LinesRunAsTyped
      BY DEF LineInv
    <3>3. PICK n \in Nat : Follows(n, key)
      BY <3>1, <3>2, KeyFollows DEF LineTypes
    <3>4. BehindIsAfter'
      BY <3>2, <3>3, StepBehindIsAfter
    <3>5. LineTypes' /\ TextIsEdited' /\ LinesRunAsTyped'
      BY <3>1, <3>2, StepLineTypes, StepText, StepLinesRun
    <3> QED
      BY <3>4, <3>5 DEF LineInv
  <2>2. CASE UNCHANGED lineVars
    <3>1. keys' = keys /\ line' = line
      BY <2>2 DEF lineVars
    <3>2. \A i, j : (Behind(i, j)' = Behind(i, j)) /\ (IsText(i)' <=> IsText(i))
      BY <3>1 DEF Behind, IsText
    <3>3. \A i, j : (Stays(i, j)' <=> Stays(i, j)) /\ (OnLine(i, j)' <=> OnLine(i, j))
      BY <3>1, <3>2 DEF Stays, OnLine
    <3>4. \A end : Left(end)' = Left(end)
      BY <3>3 DEF Left
    <3>5. \A end : Edited(end)' = Edited(end)
      <4> SUFFICES ASSUME NEW end PROVE Edited(end)' = Edited(end)
        OBVIOUS
      <4>1. Edited(end)' = InOrder(Left(end)', keys') /\ Edited(end) = InOrder(Left(end), keys)
        BY DEF Edited, InOrder
      <4> QED
        BY <3>1, <3>4, <4>1
    <3>6. Lines' = Lines /\ (Fits' <=> Fits)
      BY <3>1, <3>2, <3>5 DEF Lines, Fits
    <3>7. LineTypes' /\ TextIsEdited'
      BY <3>1, <3>5, <3>6 DEF LineInv, LineTypes, TextIsEdited
    <3>8. BehindIsAfter'
      BY <3>1, <3>2, <3>4 DEF LineInv, BehindIsAfter, After
    <3>9. LinesRunAsTyped'
      <4> DEFINE f == [k \in DOMAIN keys |-> Command(Edited(k))]
                 g == [k \in DOMAIN keys' |-> Command(Edited(k)')]
      <4>1. InOrder(Lines, [k \in DOMAIN keys |-> Command(Edited(k))])' = InOrder(Lines', g)
        BY DEF InOrder
      <4>2. f = g
        BY <3>1, <3>5
      <4>3. Fits => line.ran = InOrder(Lines, f)
        BY DEF LineInv, LinesRunAsTyped
      <4> HIDE DEF f
      <4>4. Fits' => line'.ran = InOrder(Lines', g)
        BY <3>1, <3>6, <4>2, <4>3
      <4> QED
        BY <4>1, <4>4 DEF LinesRunAsTyped
    <3> QED
      BY <3>7, <3>8, <3>9 DEF LineInv
  <2> QED
    BY <2>1, <2>2
<1>3. LineInv => LinesRunAsTyped
  BY DEF LineInv
<1> QED
  BY <1>1, <1>2, <1>3, PTL DEF LineSpec

-----------------------------------------------------------------------------
(***************************************************************************)
(* The viewer.  The cells of the frames stand in the stream in order, and  *)
(* the two magic bytes follow each other only where a frame begins.        *)
(***************************************************************************)
StreamCell == [v : 0 .. Magic1, of : Nat, off : Nat, last : BOOLEAN]

(* A whole frame with l bytes of payload stands at b.                      *)
WholeAt(st, b, l) ==
  /\ b + 4 + l <= Len(st)
  /\ \A j \in b .. b + 4 + l : st[j].of = st[b].of /\ st[j].off = j - b + 1 /\ (st[j].last <=> j = b + 4 + l)
  /\ st[b].v = Magic0 /\ st[b + 1].v = Magic1 /\ st[b + 3].v = l

IsPair(st, i) == st[i].v = Magic0 /\ st[i + 1].v = Magic1

CellsInOrder(st) ==
  \A i, j \in 1 .. Len(st) :
    i < j => \/ st[i].of < st[j].of
             \/ st[i].of = st[j].of /\ st[i].off < st[j].off /\ ~st[i].last

CellsNumbered(st, n) ==
  \A i \in 1 .. Len(st) : /\ st[i].of \in 1 .. n /\ st[i].off > 0
                          /\ st[i].off = 3 => st[i].v = st[i].of

SentShape ==
  /\ sent \in Seq(StreamCell) /\ SentCount \in 0 .. MaxSent
  /\ CellsInOrder(sent) /\ CellsNumbered(sent, SentCount)
  /\ \A i \in 1 .. Len(sent) : sent[i].off = 1 => \E l \in Nat : WholeAt(sent, i, l)
  /\ \A n \in 1 .. SentCount : \E i \in 1 .. Len(sent) : sent[i].of = n /\ sent[i].off = 1
  /\ \A i \in 1 .. Len(sent) - 1 : IsPair(sent, i) => sent[i].off = 1

(* What the cells of one frame look like.                                  *)
FrameShape(c, n, l) ==
  /\ c \in Seq(StreamCell) /\ Len(c) = 5 + l
  /\ \A i \in 1 .. 5 + l : c[i].of = n /\ c[i].off = i /\ (c[i].last <=> i = 5 + l)
  /\ c[1].v = Magic0 /\ c[2].v = Magic1 /\ c[3].v = n /\ c[4].v = l
  /\ \A i \in 1 .. 4 + l : IsPair(c, i) => i = 1

LEMMA BytesOfFrame ==
  ASSUME NEW n \in 0 .. Magic1, NEW p \in Seq(0 .. Magic1), Len(p) \in 0 .. Magic1, NEW crc \in 0 .. Magic1
  PROVE  LET bytes == FrameBytes(n, p, crc)
         IN  /\ bytes \in Seq(0 .. Magic1) /\ Len(bytes) = 5 + Len(p)
             /\ bytes[1] = Magic0 /\ bytes[2] = Magic1 /\ bytes[3] = n /\ bytes[4] = Len(p)
             /\ \A i \in 1 .. Len(p) : bytes[4 + i] = p[i]
             /\ bytes[5 + Len(p)] = crc
<1> DEFINE S == 0 .. Magic1
           h == <<Magic0, Magic1, n, Len(p)>>
           t == <<crc>>
           hp == h \o p
           bytes == hp \o t
<1>1. FrameBytes(n, p, crc) = bytes
  BY DEF FrameBytes
<1>2. Magic0 \in S /\ Magic1 \in S /\ n \in S /\ Len(p) \in S /\ crc \in S /\ p \in Seq(S) /\ Len(p) \in Nat
  BY DEF Magic0, Magic1
<1> HIDE DEF S
<1>3. h \in Seq(S) /\ Len(h) = 4 /\ h[1] = Magic0 /\ h[2] = Magic1 /\ h[3] = n /\ h[4] = Len(p)
  BY <1>2
<1>4. t \in Seq(S) /\ Len(t) = 1 /\ t[1] = crc
  BY <1>2
<1> HIDE DEF h, t
<1>6. /\ hp \in Seq(S) /\ Len(hp) = 4 + Len(p)
      /\ \A i \in 1 .. 4 : hp[i] = h[i]
      /\ \A i \in 1 .. Len(p) : hp[4 + i] = p[i]
  <2>1. /\ hp \in Seq(S) /\ Len(hp) = Len(h) + Len(p)
        /\ \A i \in 1 .. Len(h) + Len(p) : hp[i] = IF i <= Len(h) THEN h[i] ELSE p[i - Len(h)]
    BY <1>2, <1>3, ConcatProperties
  <2> HIDE DEF hp
  <2> QED
    BY <1>2, <1>3, <2>1
<1> HIDE DEF hp
<1>7. /\ bytes \in Seq(S) /\ Len(bytes) = 5 + Len(p)
      /\ \A i \in 1 .. 4 + Len(p) : bytes[i] = hp[i]
      /\ bytes[5 + Len(p)] = crc
  <2>1. /\ bytes \in Seq(S) /\ Len(bytes) = Len(hp) + Len(t)
        /\ \A i \in 1 .. Len(hp) + Len(t) : bytes[i] = IF i <= Len(hp) THEN hp[i] ELSE t[i - Len(hp)]
    <3>1. hp \in Seq(S) /\ t \in Seq(S)
      BY <1>4, <1>6
    <3> QED
      BY ONLY <3>1, ConcatProperties
  <2> HIDE DEF bytes
  <2>2. Len(hp) = 4 + Len(p) /\ Len(t) = 1 /\ Len(bytes) = 5 + Len(p)
    BY <1>2, <1>4, <1>6, <2>1
  <2>3. \A i \in 1 .. 4 + Len(p) : bytes[i] = hp[i]
    BY <1>2, <2>1, <2>2
  <2>4. bytes[5 + Len(p)] = t[5 + Len(p) - Len(hp)] /\ 5 + Len(p) - Len(hp) = 1
    BY <1>2, <2>1, <2>2
  <2> QED
    BY <1>4, <2>1, <2>2, <2>3, <2>4
<1>5. Len(p) \in Nat
  BY <1>2
<1> HIDE DEF bytes
<1>8. bytes[1] = Magic0 /\ bytes[2] = Magic1 /\ bytes[3] = n /\ bytes[4] = Len(p)
  BY <1>3, <1>5, <1>6, <1>7
<1>9. \A i \in 1 .. Len(p) : bytes[4 + i] = p[i]
  BY <1>5, <1>6, <1>7
<1> QED
  BY <1>1, <1>7, <1>8, <1>9 DEF S

LEMMA CellsOfBytes ==
  ASSUME NEW n \in 1 .. Magic1, NEW p, NEW crc,
         NEW l \in Nat, NEW bytes \in Seq(0 .. Magic1),
         FrameBytes(n, p, crc) = bytes, Len(bytes) = 5 + l,
         bytes[1] = Magic0, bytes[2] = Magic1, bytes[3] = n, bytes[4] = l,
         \A i \in 2 .. 4 + l : ~(bytes[i] = Magic0 /\ bytes[i + 1] = Magic1)
  PROVE  FrameShape(Cells(n, p, crc), n, l)
<1> DEFINE c == [i \in 1 .. 5 + l |-> [v |-> bytes[i], of |-> n, off |-> i, last |-> i = 5 + l]]
<1>1. Cells(n, p, crc) = c
  BY DEF Cells
<1>2. /\ \A i \in 1 .. 5 + l : c[i].of = n /\ c[i].off = i /\ c[i].v = bytes[i]
  OBVIOUS
<1>3. \A i \in 1 .. 5 + l : c[i].last <=> i = 5 + l
  OBVIOUS
<1>4. c \in [1 .. 5 + l -> StreamCell]
  <2>1. ASSUME NEW i \in 1 .. 5 + l
        PROVE  [v |-> bytes[i], of |-> n, off |-> i, last |-> i = 5 + l] \in StreamCell
    <3>1. bytes[i] \in 0 .. Magic1 /\ n \in Nat /\ i \in Nat
      BY DEF Magic1
    <3>2. (i = 5 + l) \in BOOLEAN
      OBVIOUS
    <3> QED
      BY <3>1, <3>2, Zenon DEF StreamCell
  <2> QED
    BY <2>1
<1> HIDE DEF c
<1>5. c \in Seq(StreamCell) /\ Len(c) = 5 + l
  <2>1. 5 + l \in Nat
    OBVIOUS
  <2> QED
    BY <1>4, <2>1
<1>6. \A i \in 1 .. 4 + l : IsPair(c, i) => i = 1
  <2> SUFFICES ASSUME NEW i \in 1 .. 4 + l, i # 1, IsPair(c, i)
               PROVE  FALSE
    OBVIOUS
  <2>1. i \in 1 .. 5 + l /\ i + 1 \in 1 .. 5 + l /\ i \in 2 .. 4 + l
    OBVIOUS
  <2> QED
    BY <1>2, <2>1 DEF IsPair
<1>7. c[1].v = Magic0 /\ c[2].v = Magic1 /\ c[3].v = n /\ c[4].v = l
  BY <1>2
<1> QED
  BY <1>1, <1>2, <1>3, <1>5, <1>6, <1>7 DEF FrameShape

LEMMA FrameIsShaped ==
  ASSUME NEW n \in 1 .. Magic1, NEW kind \in Kinds
  PROVE  \E l \in 0 .. 2 : FrameShape(Cells(n, kind.payload, kind.crc), n, l)
<1>1. PICK p, crc : p = kind.payload /\ crc = kind.crc
  OBVIOUS
<1>2. /\ \/ p = <<>> /\ crc = Magic0
         \/ p = <<Magic0>> /\ crc = 0
         \/ p = <<0, Magic1>> /\ crc = Magic0
  BY <1>1 DEF Kinds
<1>3. /\ p \in Seq(0 .. Magic1) /\ crc \in 0 .. Magic1
      /\ \/ Len(p) = 0 /\ crc = Magic0
         \/ Len(p) = 1 /\ p[1] = Magic0 /\ crc = 0
         \/ Len(p) = 2 /\ p[1] = 0 /\ p[2] = Magic1 /\ crc = Magic0
  <2> DEFINE S == 0 .. Magic1
  <2>1. Magic0 \in S /\ Magic1 \in S /\ 0 \in S
    BY DEF Magic0, Magic1
  <2> HIDE DEF S
  <2>2. <<>> \in Seq(S) /\ <<Magic0>> \in Seq(S) /\ <<0, Magic1>> \in Seq(S)
    BY <2>1
  <2>3. p \in Seq(S) /\ crc \in S
    BY <1>2, <2>1, <2>2, Zenon
  <2> QED
    BY <1>2, <2>3 DEF S
<1>4. PICK l \in 0 .. 2 : l = Len(p)
  BY <1>3
<1>5. PICK bytes : bytes = FrameBytes(n, p, crc)
  OBVIOUS
<1>6. /\ bytes \in Seq(0 .. Magic1) /\ Len(bytes) = 5 + l
      /\ bytes[1] = Magic0 /\ bytes[2] = Magic1 /\ bytes[3] = n /\ bytes[4] = l
      /\ \A i \in 1 .. l : bytes[4 + i] = p[i]
      /\ bytes[5 + l] = crc
  <2>1. Len(p) \in 0 .. Magic1 /\ n \in 0 .. Magic1
    BY <1>4 DEF Magic1
  <2>2. LET b == FrameBytes(n, p, crc)
         IN  /\ b \in Seq(0 .. Magic1) /\ Len(b) = 5 + Len(p)
             /\ b[1] = Magic0 /\ b[2] = Magic1 /\ b[3] = n /\ b[4] = Len(p)
             /\ \A i \in 1 .. Len(p) : b[4 + i] = p[i]
             /\ b[5 + Len(p)] = crc
    BY <1>3, <2>1, BytesOfFrame
  <2> QED
    BY <1>4, <1>5, <2>2
<1>7. ASSUME NEW i \in 2 .. 4 + l, bytes[i] = Magic0, bytes[i + 1] = Magic1
      PROVE  FALSE
  <2>1. n \in 1 .. 9 /\ l \in 0 .. 2 /\ Magic0 = 8 /\ Magic1 = 9
    BY DEF Magic0, Magic1
  <2>2. i \in {2, 3, 4, 5, 6} /\ i <= 4 + l
    BY <2>1
  <2>3. CASE l = 0
    BY <1>3, <1>4, <1>6, <1>7, <2>1, <2>2, <2>3
  <2>4. CASE l = 1
    <3>1. bytes[5] = 8 /\ bytes[6] = 0
      BY <1>3, <1>4, <1>6, <2>1, <2>4
    <3> QED
      BY <1>6, <1>7, <2>1, <2>2, <2>4, <3>1
  <2>5. CASE l = 2
    <3>1. bytes[5] = 0 /\ bytes[6] = 9 /\ bytes[7] = 8
      BY <1>3, <1>4, <1>6, <2>1, <2>5
    <3> QED
      BY <1>6, <1>7, <2>1, <2>2, <2>5, <3>1
  <2> QED
    BY <2>1, <2>3, <2>4, <2>5
<1>8. FrameShape(Cells(n, p, crc), n, l)
  <2>1. \A i \in 2 .. 4 + l : ~(bytes[i] = Magic0 /\ bytes[i + 1] = Magic1)
    BY <1>7
  <2>2. l \in Nat /\ FrameBytes(n, p, crc) = bytes
    BY <1>5
  <2> QED
    BY ONLY n \in 1 .. Magic1, <1>6, <2>1, <2>2, CellsOfBytes
<1> QED
  BY <1>1, <1>8

LEMMA InitSentShape == ViewerInit => SentShape
<1> SUFFICES ASSUME ViewerInit
             PROVE  SentShape
  OBVIOUS
<1>1. sent = <<>> /\ SentCount = 0 /\ 0 \in 0 .. MaxSent
  BY ViewerAssumption DEF ViewerInit, SentCount, Magic1
<1>2. sent \in Seq(StreamCell) /\ Len(sent) = 0
  BY <1>1
<1> QED
  BY <1>1, <1>2 DEF SentShape, CellsInOrder, CellsNumbered

(* One frame more.                                                         *)
LEMMA SendGrows ==
  ASSUME SentShape, NEW kind \in Kinds, Send(kind)
  PROVE  \E l \in 0 .. 2 : \E c \in Seq(StreamCell) :
           /\ SentCount + 1 \in 1 .. MaxSent /\ SentCount' = SentCount + 1
           /\ FrameShape(c, SentCount + 1, l)
           /\ sent' \in Seq(StreamCell) /\ Len(sent') = Len(sent) + 5 + l
           /\ \A i \in 1 .. Len(sent) : sent'[i] = sent[i]
           /\ \A i \in 1 .. 5 + l : sent'[Len(sent) + i] = c[i]
<1> DEFINE n == SentCount + 1
           c == Cells(n, kind.payload, kind.crc)
<1>1. n \in 1 .. MaxSent /\ n \in 1 .. Magic1
  BY ViewerAssumption DEF Send, SentShape, Magic1
<1>2. c = Cells(n, kind.payload, kind.crc)
  OBVIOUS
<1> HIDE DEF c
<1>3. PICK l \in 0 .. 2 : FrameShape(c, n, l)
  BY <1>1, <1>2, FrameIsShaped
<1>4. sent' = sent \o c
  BY <1>2 DEF Send
<1>5. sent \in Seq(StreamCell) /\ Len(sent) \in Nat /\ c \in Seq(StreamCell) /\ Len(c) = 5 + l
  BY <1>3 DEF SentShape, FrameShape
<1>6. /\ sent' \in Seq(StreamCell) /\ Len(sent') = Len(sent) + Len(c)
      /\ \A i \in 1 .. Len(sent) + Len(c) :
           sent'[i] = IF i <= Len(sent) THEN sent[i] ELSE c[i - Len(sent)]
  <2>1. /\ sent \o c \in Seq(StreamCell) /\ Len(sent \o c) = Len(sent) + Len(c)
        /\ \A i \in 1 .. Len(sent) + Len(c) :
             (sent \o c)[i] = IF i <= Len(sent) THEN sent[i] ELSE c[i - Len(sent)]
    BY ONLY <1>5, ConcatProperties
  <2> QED
    BY <1>4, <2>1
<1>7. Len(sent') = Len(sent) + 5 + l /\ \A i \in 1 .. Len(sent) : sent'[i] = sent[i]
  BY <1>5, <1>6
<1>8. \A i \in 1 .. 5 + l : sent'[Len(sent) + i] = c[i]
  <2> SUFFICES ASSUME NEW i \in 1 .. 5 + l
               PROVE  sent'[Len(sent) + i] = c[i]
    OBVIOUS
  <2>1. /\ Len(sent) + i \in 1 .. Len(sent) + Len(c) /\ ~(Len(sent) + i <= Len(sent))
        /\ Len(sent) + i - Len(sent) = i
    BY <1>5
  <2> QED
    BY <1>6, <2>1
<1>9. SentCount' = n
  <2>1. sent' # <<>> /\ Len(sent') = Len(sent) + (5 + l)
    BY <1>5, <1>6, <1>7
  <2>2. sent'[Len(sent')].of = n
    BY <1>3, <1>8, <2>1 DEF FrameShape
  <2> QED
    BY <2>1, <2>2 DEF SentCount, Last
<1> QED
  BY <1>1, <1>3, <1>5, <1>6, <1>7, <1>8, <1>9

LEMMA SendKeepsShape ==
  ASSUME SentShape, NEW kind \in Kinds, Send(kind)
  PROVE  SentShape'
<1> DEFINE n == SentCount + 1
           L == Len(sent)
<1>1. PICK l \in 0 .. 2, c \in Seq(StreamCell) :
        /\ n \in 1 .. MaxSent /\ SentCount' = n
        /\ FrameShape(c, n, l)
        /\ sent' \in Seq(StreamCell) /\ Len(sent') = L + 5 + l
        /\ \A i \in 1 .. L : sent'[i] = sent[i]
        /\ \A i \in 1 .. 5 + l : sent'[L + i] = c[i]
  BY SendGrows
<1>2. /\ c \in Seq(StreamCell) /\ Len(c) = 5 + l
      /\ \A i \in 1 .. 5 + l : c[i].of = n /\ c[i].off = i /\ (c[i].last <=> i = 5 + l)
      /\ c[1].v = Magic0 /\ c[2].v = Magic1 /\ c[3].v = n /\ c[4].v = l
      /\ \A i \in 1 .. 4 + l : IsPair(c, i) => i = 1
  BY <1>1 DEF FrameShape
<1>3. /\ sent \in Seq(StreamCell) /\ L \in Nat /\ SentCount \in Nat /\ n - 1 = SentCount
      /\ CellsInOrder(sent) /\ CellsNumbered(sent, SentCount)
      /\ \A i \in 1 .. L : sent[i].of \in 1 .. SentCount
  BY DEF SentShape, CellsNumbered
<1>4. \A i \in 1 .. Len(sent') : \/ i \in 1 .. L
                                \/ \E k \in 1 .. 5 + l : i = L + k
  <2> SUFFICES ASSUME NEW i \in 1 .. Len(sent'), i \notin 1 .. L
               PROVE  \E k \in 1 .. 5 + l : i = L + k
    OBVIOUS
  <2>1. i - L \in 1 .. 5 + l /\ i = L + (i - L)
    BY <1>1, <1>3
  <2> QED
    BY <2>1
<1> HIDE DEF n, L
<1>5. CellsInOrder(sent')
  <2> SUFFICES ASSUME NEW i \in 1 .. Len(sent'), NEW j \in 1 .. Len(sent'), i < j
               PROVE  \/ sent'[i].of < sent'[j].of
                      \/ sent'[i].of = sent'[j].of /\ sent'[i].off < sent'[j].off /\ ~sent'[i].last
    BY DEF CellsInOrder
  <2>1. CASE i \in 1 .. L /\ j \in 1 .. L
    BY <1>1, <1>3, <2>1 DEF CellsInOrder, L
  <2>2. CASE i \in 1 .. L /\ j \notin 1 .. L
    <3>1. PICK k \in 1 .. 5 + l : j = L + k
      BY <1>4, <2>2
    <3>2. sent'[j] = c[k] /\ sent'[i] = sent[i]
      BY <1>1, <2>2, <3>1
    <3>3. sent'[j].of = n /\ sent'[i].of \in 1 .. SentCount
      BY <1>2, <1>3, <2>2, <3>1, <3>2
    <3>4. n = SentCount + 1 /\ SentCount \in Nat
      BY <1>3 DEF n
    <3>5. sent'[i].of < sent'[j].of
      BY ONLY <3>3, <3>4
    <3> QED
      BY <3>5
  <2>3. CASE i \notin 1 .. L
    <3>1. j \notin 1 .. L
      BY <1>3, <2>3
    <3>2. PICK k \in 1 .. 5 + l, m \in 1 .. 5 + l : i = L + k /\ j = L + m
      BY <1>4, <2>3, <3>1
    <3>3. sent'[i].of = n /\ sent'[j].of = n /\ sent'[i].off = k /\ sent'[j].off = m
      BY <1>1, <1>2, <3>2
    <3>4. k < m /\ k # 5 + l
      BY <1>3, <3>2
    <3>5. ~sent'[i].last
      <4>1. sent'[i] = c[k] /\ (c[k].last <=> k = 5 + l)
        BY <1>1, <1>2, <3>2
      <4> QED
        BY ONLY <3>4, <4>1, Zenon
    <3> QED
      BY <3>3, <3>4, <3>5
  <2> QED
    BY <2>1, <2>2, <2>3
<1>6. CellsNumbered(sent', n)
  <2> SUFFICES ASSUME NEW i \in 1 .. Len(sent')
               PROVE  /\ sent'[i].of \in 1 .. n /\ sent'[i].off > 0
                      /\ sent'[i].off = 3 => sent'[i].v = sent'[i].of
    BY DEF CellsNumbered
  <2>1. CASE i \in 1 .. L
    BY <1>1, <1>3, <2>1 DEF CellsNumbered, L
  <2>2. CASE i \notin 1 .. L
    <3>1. PICK k \in 1 .. 5 + l : i = L + k
      BY <1>4, <2>2
    <3>2. sent'[i].of = n /\ sent'[i].off = k /\ (k = 3 => sent'[i].v = n)
      BY <1>1, <1>2, <3>1
    <3> QED
      BY <1>1, <3>2
  <2> QED
    BY <2>1, <2>2
<1>7. ASSUME NEW i \in 1 .. Len(sent'), sent'[i].off = 1
      PROVE  \E k \in Nat : WholeAt(sent', i, k)
  <2>1. CASE i \in 1 .. L
    <3>1. PICK k \in Nat : WholeAt(sent, i, k)
      BY <1>1, <1>7, <2>1 DEF SentShape, L
    <3>2. i + 4 + k <= L /\ \A j \in i .. i + 4 + k : j \in 1 .. L
      BY <1>3, <3>1 DEF WholeAt, L
    <3>3. /\ \A j \in i .. i + 4 + k : sent'[j] = sent[j]
          /\ i \in i .. i + 4 + k /\ i + 1 \in i .. i + 4 + k /\ i + 3 \in i .. i + 4 + k
          /\ i + 4 + k <= Len(sent')
      BY <1>1, <1>3, <3>2
    <3>4. WholeAt(sent', i, k)
      BY <3>1, <3>3 DEF WholeAt
    <3> QED
      BY <3>4
  <2>2. CASE i \notin 1 .. L
    <3>1. PICK k \in 1 .. 5 + l : i = L + k
      BY <1>4, <2>2
    <3>2. sent'[i] = c[k] /\ k = 1 /\ i = L + 1
      BY <1>1, <1>2, <1>7, <3>1
    <3>3. \A j \in i .. i + 4 + l : j - L \in 1 .. 5 + l /\ j = L + (j - L) /\ j - i + 1 = j - L
      BY <1>3, <3>2
    <3>4. \A j \in i .. i + 4 + l : sent'[j].of = n /\ sent'[j].off = j - i + 1 /\ (sent'[j].last <=> j - L = 5 + l)
      <4> SUFFICES ASSUME NEW j \in i .. i + 4 + l
                   PROVE  sent'[j].of = n /\ sent'[j].off = j - i + 1 /\ (sent'[j].last <=> j - L = 5 + l)
        OBVIOUS
      <4>1. sent'[j] = c[j - L] /\ j - L \in 1 .. 5 + l /\ j - i + 1 = j - L
        BY <1>1, <3>3
      <4> QED
        BY <1>2, <4>1
    <3>5. sent'[i].v = Magic0 /\ sent'[i + 1].v = Magic1 /\ sent'[i + 3].v = l
      <4>1. sent'[i] = c[1] /\ sent'[i + 1] = c[2] /\ sent'[i + 3] = c[4]
        <5>1. i = L + 1 /\ i + 1 = L + 2 /\ i + 3 = L + 4
          BY <1>3, <3>2
        <5> QED
          BY <1>1, <5>1
      <4> QED
        BY <1>2, <4>1
    <3>6. \A j \in i .. i + 4 + l : (j - L = 5 + l) <=> (j = i + 4 + l)
      BY <1>3, <3>2
    <3>7. /\ i + 4 + l <= Len(sent')
          /\ \A j \in i .. i + 4 + l : /\ sent'[j].of = sent'[i].of /\ sent'[j].off = j - i + 1
                                       /\ (sent'[j].last <=> j = i + 4 + l)
      <4>1. i \in i .. i + 4 + l /\ i + 4 + l <= Len(sent')
        <5>1. i = L + 1 /\ Len(sent') = L + 5 + l /\ L \in Nat /\ l \in Nat
          BY <1>1, <1>3, <3>2
        <5> QED
          BY ONLY <5>1
      <4>2. \A j \in i .. i + 4 + l : sent'[j].last <=> j = i + 4 + l
        BY <3>4, <3>6, Zenon
      <4> QED
        BY <3>4, <4>1, <4>2
    <3>8. WholeAt(sent', i, l)
      BY <3>5, <3>7 DEF WholeAt
    <3> QED
      BY <3>8
  <2> QED
    BY <2>1, <2>2
<1>8. ASSUME NEW m \in 1 .. n
      PROVE  \E i \in 1 .. Len(sent') : sent'[i].of = m /\ sent'[i].off = 1
  <2>1. CASE m = n
    <3>1. L + 1 \in 1 .. Len(sent') /\ sent'[L + 1] = c[1]
      BY <1>1, <1>3
    <3> QED
      BY <1>2, <2>1, <3>1
  <2>2. CASE m # n
    <3>1. m \in 1 .. SentCount
      BY <1>1, <1>3, <2>2
    <3>2. PICK i \in 1 .. L : sent[i].of = m /\ sent[i].off = 1
      BY <3>1 DEF SentShape, L
    <3>3. i \in 1 .. Len(sent')
      BY <1>1, <1>3
    <3> QED
      BY <1>1, <3>2, <3>3
  <2> QED
    BY <2>1, <2>2
<1>9. ASSUME NEW i \in 1 .. Len(sent') - 1, IsPair(sent', i)
      PROVE  sent'[i].off = 1
  <2>1. CASE i < L
    <3>1. i \in 1 .. L - 1 /\ i \in 1 .. L /\ i + 1 \in 1 .. L
      BY <1>3, <2>1
    <3>2. IsPair(sent, i)
      BY <1>1, <1>9, <3>1 DEF IsPair
    <3> QED
      BY <1>1, <3>1, <3>2 DEF SentShape, L
  <2>2. CASE i = L
    <3>1. sent'[i + 1] = c[1]
      BY <1>1, <2>2
    <3> QED
      BY <1>2, <1>9, <3>1 DEF IsPair, Magic0, Magic1
  <2>3. CASE i > L
    <3>1. i - L \in 1 .. 4 + l /\ i - L \in 1 .. 5 + l /\ i - L + 1 \in 1 .. 5 + l
          /\ i = L + (i - L) /\ i + 1 = L + (i - L + 1)
      BY <1>1, <1>3, <2>3
    <3>2. sent'[i] = c[i - L] /\ sent'[i + 1] = c[i - L + 1]
      BY <1>1, <3>1
    <3>3. IsPair(c, i - L)
      BY <1>9, <3>2 DEF IsPair
    <3>4. i - L = 1
      BY <1>2, <3>1, <3>3
    <3> QED
      BY <1>2, <3>1, <3>2, <3>4
  <2> QED
    BY <1>1, <1>3, <2>1, <2>2, <2>3
<1>10. n \in 0 .. MaxSent
  BY <1>1
<1> QED
  BY <1>1, <1>5, <1>6, <1>7, <1>8, <1>9, <1>10 DEF SentShape

-----------------------------------------------------------------------------
(* What is left of the stream after the loss.                              *)

CutShape ==
  /\ cut[1] \in Nat /\ cut[2] \in Nat
  /\ cut[1] <= cut[2] /\ cut[2] <= Len(sent)

(* The cell of sent that is cell i of the stream.                          *)
At(i) == IF i <= cut[1] THEN i ELSE i + (cut[2] - cut[1])

LEMMA AtGoesOn ==
  ASSUME CutShape, NEW i \in Nat, NEW d \in Nat, i > cut[1] \/ i + d <= cut[1]
  PROVE  At(i + d) = At(i) + d /\ At(i) \in Nat
<1>1. PICK k \in Nat, m \in Nat : k = cut[1] /\ m = cut[2] /\ k <= m
  BY DEF CutShape
<1>2. \A j : At(j) = IF j <= k THEN j ELSE j + (m - k)
  BY <1>1 DEF At
<1>3. CASE i > k
  <2>1. ~(i <= k) /\ ~(i + d <= k) /\ i + (m - k) \in Nat /\ i + d + (m - k) = i + (m - k) + d
    BY <1>1, <1>3
  <2> QED
    BY <1>2, <2>1
<1>4. CASE i + d <= k
  <2>1. i <= k
    BY <1>4
  <2> QED
    BY <1>2, <1>4, <2>1
<1> QED
  BY <1>1, <1>3, <1>4

LEMMA StreamCells ==
  ASSUME SentShape, CutShape
  PROVE  /\ Stream \in Seq(StreamCell) /\ Len(Stream) = Len(sent) - (cut[2] - cut[1])
         /\ Len(Stream) \in Nat /\ Len(sent) \in Nat
         /\ \A i \in 1 .. Len(Stream) : At(i) \in 1 .. Len(sent) /\ Stream[i] = sent[At(i)]
<1> DEFINE k == cut[1]
           m == cut[2]
           L == Len(sent)
           front == SubSeq(sent, 1, k)
           back == SubSeq(sent, m + 1, L)
<1>1. k \in Nat /\ m \in Nat /\ L \in Nat /\ k <= m /\ m <= L /\ sent \in Seq(StreamCell)
  BY DEF CutShape, SentShape
<1>2. \A i \in 1 .. L : sent[i] \in StreamCell
  BY <1>1, ElementOfSeq
<1>3. Stream = front \o back
  BY DEF Stream
<1> HIDE DEF k, m, L
<1>4. front \in Seq(StreamCell) /\ Len(front) = k /\ \A i \in 1 .. k : front[i] = sent[i]
  <2>1. 1 \in Int /\ k \in Int /\ \A i \in 1 .. k : sent[i] \in StreamCell
    BY <1>1, <1>2
  <2>2. /\ front \in Seq(StreamCell) /\ Len(front) = IF 1 <= k THEN k - 1 + 1 ELSE 0
        /\ \A i \in 1 .. k - 1 + 1 : front[i] = sent[1 + i - 1]
    BY ONLY <2>1, SubSeqProperties
  <2> HIDE DEF front
  <2> QED
    BY <1>1, <2>2
<1>5. back \in Seq(StreamCell) /\ Len(back) = L - m /\ \A i \in 1 .. L - m : back[i] = sent[m + i]
  <2>1. m + 1 \in Int /\ L \in Int /\ \A i \in m + 1 .. L : sent[i] \in StreamCell
    BY <1>1, <1>2
  <2>2. /\ back \in Seq(StreamCell) /\ Len(back) = IF m + 1 <= L THEN L - (m + 1) + 1 ELSE 0
        /\ \A i \in 1 .. L - (m + 1) + 1 : back[i] = sent[(m + 1) + i - 1]
    BY ONLY <2>1, SubSeqProperties
  <2> HIDE DEF back
  <2>3. L - (m + 1) + 1 = L - m /\ Len(back) = L - m
    BY <1>1, <2>2
  <2>4. ASSUME NEW i \in 1 .. L - m
        PROVE  back[i] = sent[m + i]
    <3>1. (m + 1) + i - 1 = m + i
      BY <1>1
    <3> QED
      BY <2>2, <2>3, <3>1
  <2> QED
    BY <2>2, <2>3, <2>4
<1> HIDE DEF front, back
<1>6. /\ Stream \in Seq(StreamCell) /\ Len(Stream) = Len(front) + Len(back)
      /\ \A i \in 1 .. Len(front) + Len(back) :
           Stream[i] = IF i <= Len(front) THEN front[i] ELSE back[i - Len(front)]
  <2>1. front \in Seq(StreamCell) /\ back \in Seq(StreamCell)
    BY <1>4, <1>5
  <2>2. /\ front \o back \in Seq(StreamCell) /\ Len(front \o back) = Len(front) + Len(back)
        /\ \A i \in 1 .. Len(front) + Len(back) :
             (front \o back)[i] = IF i <= Len(front) THEN front[i] ELSE back[i - Len(front)]
    BY ONLY <2>1, ConcatProperties
  <2> QED
    BY <1>3, <2>2
<1>7. Len(Stream) = L - (m - k) /\ Len(Stream) \in Nat
  BY <1>1, <1>4, <1>5, <1>6
<1>8. ASSUME NEW i \in 1 .. Len(Stream)
      PROVE  At(i) \in 1 .. L /\ Stream[i] = sent[At(i)]
  <2>1. Stream[i] = IF i <= k THEN front[i] ELSE back[i - k]
    BY <1>1, <1>4, <1>5, <1>6, <1>7
  <2>2. CASE i <= k
    <3>1. At(i) = i /\ i \in 1 .. k
      BY <2>2, <1>1, <1>7 DEF At, k
    <3> QED
      BY <1>1, <1>4, <2>1, <2>2, <3>1
  <2>3. CASE ~(i <= k)
    <3>1. At(i) = i + (m - k)
      BY <2>3 DEF At, k, m
    <3>2. i - k \in 1 .. L - m /\ m + (i - k) = i + (m - k) /\ i + (m - k) \in 1 .. L
      BY <1>1, <1>7, <2>3
    <3> QED
      BY <1>5, <2>1, <2>3, <3>1, <3>2
  <2> QED
    BY <2>2, <2>3
<1> QED
  BY <1>1, <1>6, <1>7, <1>8 DEF k, m, L

LEMMA StreamShape ==
  ASSUME SentShape, CutShape
  PROVE  /\ CellsInOrder(Stream) /\ CellsNumbered(Stream, MaxSent)
         /\ \A i \in 1 .. Len(Stream) : Stream[i].v \in 0 .. Magic1
         /\ \A s \in 1 .. Len(Stream) - 1 :
              IsPair(Stream, s) /\ s # cut[1] => \E l \in Nat : WholeAt(sent, At(s), l)
<1>1. /\ Len(Stream) = Len(sent) - (cut[2] - cut[1]) /\ Len(Stream) \in Nat /\ Len(sent) \in Nat
      /\ Stream \in Seq(StreamCell)
      /\ \A i \in 1 .. Len(Stream) : At(i) \in 1 .. Len(sent) /\ Stream[i] = sent[At(i)]
  BY StreamCells
<1>2. cut[1] \in Nat /\ cut[2] \in Nat /\ cut[1] <= cut[2]
  BY DEF CutShape
<1>3. CellsInOrder(Stream)
  <2> SUFFICES ASSUME NEW i \in 1 .. Len(Stream), NEW j \in 1 .. Len(Stream), i < j
               PROVE  \/ Stream[i].of < Stream[j].of
                      \/ Stream[i].of = Stream[j].of /\ Stream[i].off < Stream[j].off /\ ~Stream[i].last
    BY DEF CellsInOrder
  <2>1. At(i) < At(j)
    BY <1>1, <1>2 DEF At
  <2>2. At(i) \in 1 .. Len(sent) /\ At(j) \in 1 .. Len(sent) /\ Stream[i] = sent[At(i)] /\ Stream[j] = sent[At(j)]
    BY <1>1
  <2> QED
    BY <2>1, <2>2 DEF SentShape, CellsInOrder
<1>4. CellsNumbered(Stream, MaxSent)
  <2> SUFFICES ASSUME NEW i \in 1 .. Len(Stream)
               PROVE  /\ Stream[i].of \in 1 .. MaxSent /\ Stream[i].off > 0
                      /\ Stream[i].off = 3 => Stream[i].v = Stream[i].of
    BY DEF CellsNumbered
  <2>1. At(i) \in 1 .. Len(sent) /\ Stream[i] = sent[At(i)]
    BY <1>1
  <2>2. /\ Stream[i].of \in 1 .. SentCount /\ Stream[i].off > 0
        /\ Stream[i].off = 3 => Stream[i].v = Stream[i].of
    BY <2>1 DEF SentShape, CellsNumbered
  <2>3. SentCount \in 0 .. MaxSent /\ MaxSent \in Nat
    BY ViewerAssumption DEF SentShape, Magic1
  <2> QED
    BY <2>2, <2>3
<1>5. \A i \in 1 .. Len(Stream) : Stream[i].v \in 0 .. Magic1
  <2>1. \A i \in 1 .. Len(Stream) : Stream[i] \in StreamCell
    BY <1>1, ElementOfSeq
  <2> QED
    BY <2>1 DEF StreamCell
<1>6. ASSUME NEW s \in 1 .. Len(Stream) - 1, IsPair(Stream, s), s # cut[1]
      PROVE  \E l \in Nat : WholeAt(sent, At(s), l)
  <2>1. /\ s \in 1 .. Len(Stream) /\ s + 1 \in 1 .. Len(Stream) /\ At(s + 1) = At(s) + 1
    <3>1. Len(Stream) \in Nat /\ s \in Nat
      BY <1>1
    <3>2. s \in 1 .. Len(Stream) /\ s + 1 \in 1 .. Len(Stream)
      BY <3>1
    <3>3. At(s + 1) = At(s) + 1
      <4>1. s > cut[1] \/ s + 1 <= cut[1]
        BY ONLY <1>2, <1>6, <3>1
      <4> QED
        BY <3>1, <4>1, AtGoesOn
    <3> QED
      BY <3>2, <3>3
  <2>2. /\ At(s) \in 1 .. Len(sent) /\ At(s) + 1 \in 1 .. Len(sent)
        /\ Stream[s] = sent[At(s)] /\ Stream[s + 1] = sent[At(s) + 1]
    BY <1>1, <2>1
  <2>3. IsPair(sent, At(s)) /\ At(s) \in 1 .. Len(sent) - 1
    BY <1>1, <1>6, <2>2 DEF IsPair
  <2>4. sent[At(s)].off = 1
    BY <2>3 DEF SentShape
  <2> QED
    BY <2>2, <2>4 DEF SentShape
<1> QED
  BY <1>3, <1>4, <1>5, <1>6

(* A frame that the loss spared and did not come too close to.             *)
SparedAt(b, l) ==
  /\ WholeAt(Stream, b, l)
  /\ b + 4 + l <= cut[1] \/ b > cut[1] + Longest

(* The viewer reads a whole frame as it was sent.                          *)
LEMMA WholeIsRead ==
  ASSUME SentShape, CutShape, NEW b \in 1 .. Len(Stream), NEW l \in Nat, WholeAt(Stream, b, l)
  PROVE  /\ EndOf(Stream, b) = b + 4 + l /\ Readable(Stream, b) /\ CrcOk(Stream, b)
         /\ Stream[b + 2].v = Stream[b].of /\ IsPair(Stream, b) /\ b + 1 <= Len(Stream)
<1>1. Len(Stream) \in Nat
  BY StreamCells
<1>2. /\ b + 4 + l <= Len(Stream)
      /\ \A j \in b .. b + 4 + l : Stream[j].of = Stream[b].of /\ Stream[j].off = j - b + 1
                                   /\ (Stream[j].last <=> j = b + 4 + l)
      /\ Stream[b].v = Magic0 /\ Stream[b + 1].v = Magic1 /\ Stream[b + 3].v = l
  BY DEF WholeAt
<1>3. b + 1 + HeaderLen = b + 3 /\ b \in Nat
  BY DEF HeaderLen
<1>4. EndOf(Stream, b) = b + 4 + l
  BY <1>2, <1>3 DEF EndOf, LengthOf, CrcLen
<1>5. Readable(Stream, b)
  BY <1>1, <1>2, <1>3, <1>4 DEF Readable
<1>6. CrcOk(Stream, b)
  <2>1. b + 4 + l \in b .. b + 4 + l
    BY <1>3
  <2> QED
    BY <1>2, <1>4, <2>1 DEF CrcOk
<1>7. Stream[b + 2].v = Stream[b].of
  <2>1. b + 2 \in b .. b + 4 + l /\ b + 2 \in 1 .. Len(Stream) /\ b + 2 - b + 1 = 3
    <3>1. b + 4 + l <= Len(Stream) /\ l \in Nat
      BY <1>2
    <3> QED
      BY ONLY <1>1, <1>3, <3>1, b \in 1 .. Len(Stream)
  <2>2. Stream[b + 2].off = b + 2 - b + 1 /\ Stream[b + 2].of = Stream[b].of
    BY <1>2, <2>1
  <2> QED
    <3>1. Stream[b + 2].off = 3
      BY <2>1, <2>2
    <3>2. CellsNumbered(Stream, MaxSent)
      BY StreamShape
    <3> QED
      BY <2>1, <2>2, <3>1, <3>2 DEF CellsNumbered
<1>8. IsPair(Stream, b) /\ b + 1 <= Len(Stream)
  BY <1>1, <1>2, <1>3 DEF IsPair
<1> QED
  BY <1>4, <1>5, <1>6, <1>7, <1>8

(* What the viewer takes for a frame ahead of a spared one ends before it. *)
LEMMA EndsBeforeSpared ==
  ASSUME SentShape, CutShape, NEW b \in 1 .. Len(Stream), NEW l \in Nat, SparedAt(b, l),
         NEW s \in 1 .. b - 1, IsPair(Stream, s)
  PROVE  EndOf(Stream, s) \in Nat /\ s + 3 <= EndOf(Stream, s) /\ EndOf(Stream, s) < b
<1>1. /\ Len(Stream) \in Nat /\ Len(sent) \in Nat /\ Len(Stream) = Len(sent) - (cut[2] - cut[1])
      /\ \A i \in 1 .. Len(Stream) : At(i) \in 1 .. Len(sent) /\ Stream[i] = sent[At(i)]
      /\ cut[1] \in Nat /\ cut[2] \in Nat /\ cut[1] <= cut[2] /\ s \in Nat /\ b \in Nat
  BY StreamCells DEF CutShape
<1>2. \A v \in Nat : Stream[s + 3].v = v => EndOf(Stream, s) = s + 4 + v
  <2>1. s + 1 + HeaderLen = s + 3 /\ CrcLen = 1
    BY <1>1 DEF HeaderLen, CrcLen
  <2>2. EndOf(Stream, s) = s + 3 + Stream[s + 3].v + 1
    BY <2>1 DEF EndOf, LengthOf
  <2> QED
    BY ONLY <1>1, <2>2
<1>3. /\ WholeAt(Stream, b, l) /\ Stream[b].off = 1
      /\ b + 4 + l <= Len(Stream)
  <2>1. b \in b .. b + 4 + l /\ b - b + 1 = 1
    BY <1>1
  <2> QED
    BY <2>1 DEF SparedAt, WholeAt
<1>4. \A i \in 1 .. Len(Stream) : Stream[i].v \in 0 .. Magic1
  BY StreamShape
<1>5. CASE s + 3 <= Len(Stream) /\ b > cut[1] + Longest /\ s <= cut[1]
  <2>1. Stream[s + 3].v \in 0 .. 9
    <3>1. s + 3 \in 1 .. Len(Stream)
      BY <1>1, <1>5
    <3> QED
      BY <1>4, <3>1 DEF Magic1
  <2>2. Longest = 14
    BY DEF Longest, HeaderLen, Magic1, CrcLen
  <2>3. PICK v \in 0 .. 9 : v = Stream[s + 3].v
    BY <2>1
  <2>4. EndOf(Stream, s) = s + 4 + v
    <3>1. v \in Nat
      OBVIOUS
    <3> QED
      BY ONLY <1>2, <2>3, <3>1
  <2>5. cut[1] \in Nat /\ b \in Nat /\ s \in Nat
    BY <1>1
  <2> QED
    BY ONLY <1>5, <2>2, <2>4, <2>5, v \in 0 .. 9
<1>6. CASE s # cut[1] /\ (s > cut[1] \/ b + 4 + l <= cut[1])
  <2>0. cut[1] \in Nat /\ cut[2] \in Nat /\ b \in Nat /\ s \in Nat /\ s < b /\ Len(Stream) \in Nat
    BY <1>1
  <2>1. s \in 1 .. Len(Stream) - 1
    BY <1>1
  <2>2. PICK k \in Nat : WholeAt(sent, At(s), k)
    BY <1>6, <2>1, StreamShape
  <2>3. /\ At(s) + 4 + k <= Len(sent)
        /\ \A j \in At(s) .. At(s) + 4 + k : sent[j].off = j - At(s) + 1
        /\ sent[At(s) + 3].v = k
    BY <2>2 DEF WholeAt
  <2>4. At(b) \in 1 .. Len(sent) /\ sent[At(b)].off = 1
    BY <1>1, <1>3
  <2>a. ASSUME NEW d \in Nat, s + d <= b
        PROVE  At(s + d) = At(s) + d /\ At(s) \in Nat
    <3>1. s > cut[1] \/ s + d <= cut[1]
      BY ONLY <1>6, <2>0, <2>a, l \in Nat
    <3> QED
      BY <2>0, <3>1, AtGoesOn
  <2>5. At(b) = At(s) + (b - s) /\ At(s) \in Nat /\ b - s > 0 /\ b - s \in Nat
    <3>1. b - s \in Nat /\ b - s > 0 /\ s + (b - s) = b /\ s + (b - s) <= b
      BY ONLY <2>0
    <3>2. At(s + (b - s)) = At(s) + (b - s) /\ At(s) \in Nat
      BY <2>a, <3>1
    <3> QED
      BY <3>1, <3>2
  <2>6. ~(b <= s + 4 + k)
    <3> SUFFICES ASSUME b <= s + 4 + k
                 PROVE  FALSE
      OBVIOUS
    <3>1. At(b) \in At(s) .. At(s) + 4 + k /\ At(b) - At(s) + 1 # 1
      <4>1. PICK x \in Nat, d \in Nat : x = At(s) /\ d = b - s /\ d > 0 /\ At(b) = x + d
        BY <2>5
      <4>2. d <= 4 + k
        BY ONLY <2>0, <4>1, b <= s + 4 + k, k \in Nat, d \in Nat
      <4>3. x + d \in x .. x + 4 + k /\ x + d - x + 1 # 1
        <5>1. d > 0
          BY <4>1
        <5> QED
          BY ONLY <4>2, <5>1, k \in Nat, x \in Nat, d \in Nat
      <4> QED
        BY <4>1, <4>3
    <3> QED
      BY <2>3, <2>4, <3>1
  <2>7. Stream[s + 3] = sent[At(s) + 3]
    <3>1. s + 3 \in 1 .. Len(Stream) /\ s + 3 < b
      BY ONLY <2>0, <2>6, b \in 1 .. Len(Stream), k \in Nat, s \in 1 .. b - 1
    <3>2. At(s + 3) = At(s) + 3
      <4>1. 3 \in Nat /\ s + 3 <= b
        BY <2>0, <3>1
      <4> QED
        BY <2>a, <4>1
    <3> QED
      BY <1>1, <3>1, <3>2
  <2>8. EndOf(Stream, s) = s + 4 + k
    BY <1>2, <2>3, <2>7
  <2> QED
    BY ONLY <2>0, <2>6, <2>8, k \in Nat
<1>7. \/ b + 4 + l <= cut[1] /\ s < cut[1]
      \/ b > cut[1] + Longest /\ s > cut[1]
      \/ b > cut[1] + Longest /\ s <= cut[1] /\ s + 3 <= Len(Stream)
  <2>1. Longest = 14
    BY DEF Longest, HeaderLen, Magic1, CrcLen
  <2>2. b + 4 + l <= cut[1] \/ b > cut[1] + Longest
    BY DEF SparedAt
  <2> QED
    BY <1>1, <2>1, <2>2
<1> QED
  BY <1>1, <1>5, <1>6, <1>7

-----------------------------------------------------------------------------
(* Reading.                                                                *)

LEMMA LeastNumber ==
  ASSUME NEW S \in SUBSET Int, IsFiniteSet(S), S # {}
  PROVE  Min(S) \in S /\ \A i \in S : Min(S) <= i
<1>1. Cardinality(S) \in Nat /\ Cardinality(S) # 0
  BY FS_CardinalityType, FS_EmptySet
<1>2. PICK x \in S : Cardinality(UpTo(S, x)) = 1
  BY <1>1, PlacesOfNumbers
<1>3. x \in UpTo(S, x) /\ IsFiniteSet(UpTo(S, x))
  BY FS_Subset DEF UpTo
<1>4. \A i \in UpTo(S, x) : i = x
  BY <1>2, <1>3, FS_Singleton
<1>5. \A i \in S : x <= i
  BY <1>4 DEF UpTo
<1> DEFINE Least(y) == \A i \in S : y <= i
<1>6. x \in S /\ Least(x)
  BY <1>5
<1> HIDE DEF Least
<1>7. (CHOOSE y \in S : Least(y)) \in S /\ Least(CHOOSE y \in S : Least(y))
  BY <1>6
<1>8. Min(S) = CHOOSE y \in S : Least(y)
  BY DEF Min, Least
<1> QED
  BY <1>7, <1>8 DEF Least

LEMMA FirstPair ==
  ASSUME SentShape, CutShape
  PROVE  /\ Found = {i \in 1 .. Len(Stream) - 1 : place + 1 <= i /\ IsPair(Stream, i)}
         /\ Found # {} => Min(Found) \in Found /\ \A i \in Found : Min(Found) <= i
<1>1. Stream \in Seq(StreamCell) /\ Len(Stream) \in Nat /\ DOMAIN Stream = 1 .. Len(Stream)
  BY StreamCells, LenProperties
<1>2. Found = {i \in 1 .. Len(Stream) - 1 : place + 1 <= i /\ IsPair(Stream, i)}
  <2>1. \A i \in 1 .. Len(Stream) : i < Len(Stream) <=> i \in 1 .. Len(Stream) - 1
    BY <1>1
  <2>2. \A i \in 1 .. Len(Stream) - 1 : i \in 1 .. Len(Stream)
    BY <1>1
  <2> QED
    BY <1>1, <2>1, <2>2 DEF Found, Synced, MagicAt, IsPair
<1>3. Found \in SUBSET Int /\ IsFiniteSet(Found)
  <2>1. Found \subseteq 1 .. Len(Stream) - 1 /\ Len(Stream) - 1 \in Int
    BY <1>1, <1>2
  <2>2. IsFiniteSet(1 .. Len(Stream) - 1)
    BY <2>1, FS_Interval
  <2>3. 1 .. Len(Stream) - 1 \subseteq Int
    BY <2>1
  <2>4. Found \in SUBSET (1 .. Len(Stream) - 1)
    BY <2>1
  <2>5. IsFiniteSet(Found)
    BY ONLY <2>2, <2>4, FS_Subset
  <2> QED
    BY <2>3, <2>4, <2>5
<1> QED
  BY <1>2, <1>3, LeastNumber

(* What is taken for a frame, up to a spared one.                          *)
LEMMA SparedIsMet ==
  ASSUME SentShape, CutShape, place \in Nat,
         NEW b \in 1 .. Len(Stream), place < b, NEW l \in Nat, SparedAt(b, l)
  PROVE  /\ More
         /\ Min(Found) = b \/ EndOf(Stream, Min(Found)) < b
<1>1. /\ Found = {i \in 1 .. Len(Stream) - 1 : place + 1 <= i /\ IsPair(Stream, i)}
      /\ Found # {} => Min(Found) \in Found /\ \A i \in Found : Min(Found) <= i
  BY FirstPair
<1>2. Len(Stream) \in Nat
  BY StreamCells
<1>3. b \in Found
  <2>1. IsPair(Stream, b) /\ b + 1 <= Len(Stream)
    BY WholeIsRead DEF SparedAt
  <2> QED
    BY <1>1, <1>2, <2>1
<1>4. PICK s \in 1 .. Len(Stream) - 1 : s = Min(Found) /\ place + 1 <= s /\ IsPair(Stream, s) /\ s <= b
  BY <1>1, <1>3
<1>5. Readable(Stream, s) /\ (s = b \/ EndOf(Stream, s) < b)
  <2>1. CASE s = b
    BY <2>1, WholeIsRead DEF SparedAt
  <2>2. CASE s # b
    <3>1. s \in 1 .. b - 1
      BY <1>2, <1>4, <2>2
    <3>2. PICK e \in Nat : e = EndOf(Stream, s) /\ s + 3 <= e /\ e < b
      BY <1>4, <3>1, EndsBeforeSpared
    <3>3. s + 1 + HeaderLen <= Len(Stream) /\ e <= Len(Stream)
      <4>1. s + 1 + HeaderLen = s + 3
        BY <3>1 DEF HeaderLen
      <4> QED
        BY <1>2, <3>2, <4>1
    <3> QED
      BY <3>2, <3>3 DEF Readable
  <2> QED
    BY <2>1, <2>2
<1>6. More
  BY <1>3, <1>4, <1>5 DEF More
<1> QED
  BY <1>4, <1>5, <1>6

(* A good CRC is that of a whole frame, with its own number.               *)
LEMMA GoodIsWhole ==
  ASSUME SentShape, CutShape, NEW s \in 1 .. Len(Stream), Readable(Stream, s), CrcOk(Stream, s)
  PROVE  /\ EndOf(Stream, s) \in s + 4 .. Len(Stream)
         /\ Stream[s].off = 1 /\ Stream[s + 2].v = Stream[s].of /\ Stream[s].of \in 1 .. MaxSent
         /\ Stream[EndOf(Stream, s)].of = Stream[s].of /\ Stream[EndOf(Stream, s)].off > 1
<1>1. Len(Stream) \in Nat /\ s \in Nat
  BY StreamCells
<1>2. CellsNumbered(Stream, MaxSent) /\ \A i \in 1 .. Len(Stream) : Stream[i].v \in 0 .. Magic1
  BY StreamShape
<1>3. s + 3 <= Len(Stream) /\ EndOf(Stream, s) <= Len(Stream)
  <2>1. s + 1 + HeaderLen = s + 3
    BY <1>1 DEF HeaderLen
  <2> QED
    BY <2>1 DEF Readable
<1>4. PICK l \in Nat : EndOf(Stream, s) = s + 4 + l
  <2>1. s + 3 \in 1 .. Len(Stream)
    BY <1>1, <1>3
  <2>2. PICK l \in Nat : Stream[s + 3].v = l
    BY <1>2, <2>1 DEF Magic1
  <2>3. s + 1 + HeaderLen = s + 3 /\ CrcLen = 1
    BY <1>1 DEF HeaderLen, CrcLen
  <2>4. EndOf(Stream, s) = s + 3 + l + 1
    BY <2>2, <2>3 DEF EndOf, LengthOf
  <2>5. EndOf(Stream, s) = s + 4 + l
    BY ONLY <1>1, <2>4, l \in Nat
  <2> QED
    BY <2>5
<1>5. PICK e \in 1 .. Len(Stream) : e = EndOf(Stream, s) /\ e = s + 4 + l
  BY <1>1, <1>3, <1>4
<1>6. \A i \in s .. e : Stream[i].of = Stream[s].of /\ Stream[i].off = i - s + 1
  BY <1>5 DEF CrcOk
<1>7. /\ e \in s + 4 .. Len(Stream) /\ s \in s .. e /\ s + 2 \in s .. e /\ e \in s .. e
      /\ s - s + 1 = 1 /\ s + 2 - s + 1 = 3 /\ e - s + 1 > 1 /\ s + 2 \in 1 .. Len(Stream)
  BY ONLY <1>1, <1>5, s \in 1 .. Len(Stream), l \in Nat
<1>8. Stream[s].off = 1 /\ Stream[s + 2].off = 3 /\ Stream[s + 2].of = Stream[s].of
      /\ Stream[e].of = Stream[s].of /\ Stream[e].off > 1
  BY <1>6, <1>7
<1>9. Stream[s + 2].v = Stream[s].of /\ Stream[s].of \in 1 .. MaxSent
  BY <1>2, <1>7, <1>8 DEF CellsNumbered
<1> QED
  BY <1>5, <1>7, <1>8, <1>9

(* Every frame shown was read to its end.                                  *)
PlaceShape ==
  /\ place \in Nat /\ shown \in SUBSET (1 .. MaxSent)
  /\ place = 0 => shown = {}
  /\ place # 0 => SentCount = MaxSent
  /\ \A n \in shown : \E i \in 1 .. Len(Stream) : i <= place /\ Stream[i].of = n /\ Stream[i].off > 1

SparedShown ==
  \A b \in 1 .. Len(Stream), l \in Nat : SparedAt(b, l) /\ b <= place => Stream[b].of \in shown

(* The numbers that are missing between two that were shown.               *)
Between(S) == {n \in (1 .. MaxSent) \ S : \E a, b \in S : a < n /\ n < b}

Gaps(S) == Cardinality(Between(S))

StatsFit(st, S) ==
  /\ st \in [expected : Nat, gap : Nat, late : {0}, dup : {0}, ng : Nat]
  /\ st.expected # 0 => st.expected - 1 \in S /\ \A n \in S : n < st.expected
  /\ st.gap <= Gaps(S)
  /\ st.ng = 0 => st.gap = Gaps(S) /\ (st.expected = 0 => S = {})

ViewerInv == SentShape /\ CutShape /\ PlaceShape /\ SparedShown /\ StatsFit(stats, shown)

LEMMA NoGaps ==
  /\ Gaps({}) = 0
  /\ \A n : n \in Nat => Gaps({n}) = 0
<1>1. Between({}) = {}
  BY DEF Between
<1>2. ASSUME NEW n \in Nat
      PROVE  Between({n}) = {}
  BY DEF Between
<1> QED
  BY <1>1, <1>2, FS_EmptySet DEF Gaps

(* A larger number makes the numbers between it and the largest missing.   *)
LEMMA GapsGrow ==
  ASSUME NEW S \in SUBSET (1 .. MaxSent), NEW n \in 1 .. MaxSent, \A a \in S : a < n,
         NEW T, T = S \cup {n}
  PROVE  /\ Gaps(S) \in Nat /\ Gaps(T) \in Nat /\ Gaps(S) <= Gaps(T)
         /\ \A m \in S : (\A a \in S : a <= m) => Gaps(T) = Gaps(S) + (n - m - 1)
<1>1. MaxSent \in Nat /\ n \in Nat
  BY ViewerAssumption DEF Magic1
<1>2. \A Q : Between(Q) \in SUBSET (1 .. MaxSent)
  BY DEF Between
<1>3. \A Q : IsFiniteSet(Between(Q)) /\ Gaps(Q) \in Nat
  <2>1. IsFiniteSet(1 .. MaxSent)
    BY <1>1, FS_Interval
  <2> SUFFICES ASSUME NEW Q
               PROVE  IsFiniteSet(Between(Q)) /\ Gaps(Q) \in Nat
    OBVIOUS
  <2>2. Between(Q) \in SUBSET (1 .. MaxSent)
    BY <1>2
  <2>3. IsFiniteSet(Between(Q))
    BY ONLY <2>1, <2>2, FS_Subset
  <2> QED
    BY <2>3, FS_CardinalityType DEF Gaps
<1>4. Between(S) \subseteq Between(T)
  BY <1>1 DEF Between
<1>5. Gaps(S) <= Gaps(T)
  <2>1. Between(S) \in SUBSET Between(T) /\ IsFiniteSet(Between(T))
    BY <1>3, <1>4
  <2> QED
    BY ONLY <2>1, FS_Subset DEF Gaps
<1>6. ASSUME NEW m \in S, \A a \in S : a <= m
      PROVE  Gaps(T) = Gaps(S) + (n - m - 1)
  <2> DEFINE new == m + 1 .. n - 1
  <2>1. m \in Nat /\ m < n
    BY <1>1
  <2>2. Between(T) = Between(S) \cup new
    <3>1. ASSUME NEW k \in Between(T)
          PROVE  k \in Between(S) \cup new
      <4>1. k \in 1 .. MaxSent /\ k \notin S /\ k # n /\ \E a, b \in T : a < k /\ k < b
        BY <3>1 DEF Between
      <4>2. PICK a \in T, b \in T : a < k /\ k < b
        BY <4>1
      <4>3. a \in S /\ k < n /\ k \in Nat
        BY <1>1, <4>1, <4>2
      <4>4. CASE k < m
        BY <4>1, <4>2, <4>3, <4>4 DEF Between
      <4>5. CASE ~(k < m)
        BY <1>1, <2>1, <4>1, <4>3, <4>5
      <4> QED
        BY <4>4, <4>5
    <3>2. ASSUME NEW k \in new
          PROVE  k \in Between(T)
      <4>1. k \in 1 .. MaxSent /\ k > m /\ k < n
        BY <1>1, <2>1
      <4>2. k \notin S /\ k # n
        BY <1>1, <1>6, <2>1, <4>1
      <4> QED
        BY <4>1, <4>2 DEF Between
    <3> QED
      BY <1>4, <3>1, <3>2
  <2>3. Between(S) \cap new = {}
    <3> SUFFICES ASSUME NEW k \in Between(S), k \in new
                 PROVE  FALSE
      OBVIOUS
    <3>1. PICK b \in S : k < b /\ k \in 1 .. MaxSent
      BY DEF Between
    <3> QED
      BY <1>1, <1>6, <2>1, <3>1
  <2>4. IsFiniteSet(new) /\ Cardinality(new) = n - m - 1
    <3>1. m + 1 \in Int /\ n - 1 \in Int
      BY <1>1, <2>1
    <3>2. IsFiniteSet(new) /\ Cardinality(new) = IF m + 1 > n - 1 THEN 0 ELSE n - 1 - (m + 1) + 1
      BY <3>1, FS_Interval
    <3> HIDE DEF new
    <3> QED
      BY <1>1, <2>1, <3>2
  <2> HIDE DEF new
  <2>5. Cardinality(Between(T)) = Cardinality(Between(S)) + Cardinality(new) - Cardinality({})
    BY <1>3, <2>2, <2>3, <2>4, FS_Union
  <2>6. Cardinality({}) = 0 /\ Gaps(S) \in Nat
    BY <1>3, FS_EmptySet
  <2> QED
    BY <1>1, <2>1, <2>4, <2>5, <2>6 DEF Gaps
<1> QED
  BY <1>3, <1>5, <1>6

LEMMA InitViewerInv == ViewerInit => ViewerInv
<1> SUFFICES ASSUME ViewerInit
             PROVE  ViewerInv
  OBVIOUS
<1>1. sent = <<>> /\ cut = Whole /\ place = 0 /\ shown = {} /\ stats = NewStats
  BY DEF ViewerInit
<1>2. SentShape
  BY InitSentShape
<1>3. CutShape
  BY <1>1 DEF CutShape, Whole
<1>4. PlaceShape /\ SparedShown
  BY <1>1 DEF PlaceShape, SparedShown
<1>5. StatsFit(stats, shown)
  BY <1>1, NoGaps DEF StatsFit, NewStats, NoneExpected
<1> QED
  BY <1>2, <1>3, <1>4, <1>5 DEF ViewerInv

(* Sending and losing come before reading.                                 *)
LEMMA BeforeReading ==
  ASSUME ViewerInv, Lose \/ \E kind \in Kinds : Send(kind)
  PROVE  ViewerInv'
<1>1. place = 0 /\ place' = 0 /\ shown' = shown /\ stats' = stats
  <2>1. CASE Lose
    BY <2>1 DEF Lose
  <2>2. CASE \E kind \in Kinds : Send(kind)
    <3>1. SentCount < MaxSent /\ place' = place /\ shown' = shown /\ stats' = stats
      BY <2>2 DEF Send
    <3>2. SentCount # MaxSent
      BY <3>1, ViewerAssumption DEF ViewerInv, SentShape, Magic1
    <3> QED
      BY <3>1, <3>2 DEF ViewerInv, PlaceShape
  <2> QED
    BY <2>1, <2>2
<1>2. shown = {}
  BY <1>1 DEF ViewerInv, PlaceShape
<1>3. SentShape' /\ CutShape'
  <2>1. CASE Lose
    <3>1. sent' = sent /\ SentCount' = SentCount
      BY <2>1 DEF Lose, SentCount
    <3>2. SentShape'
      BY <3>1 DEF ViewerInv, SentShape
    <3>3. PICK k \in 0 .. Len(sent) : \E m \in k + 1 .. Len(sent) : cut' = <<k, m>>
      BY <2>1 DEF Lose
    <3>4. PICK m \in k + 1 .. Len(sent) : cut' = <<k, m>>
      BY <3>3
    <3>5. Len(sent) \in Nat
      BY DEF ViewerInv, SentShape
    <3>6. CutShape'
      BY <3>1, <3>4, <3>5 DEF CutShape
    <3> QED
      BY <3>2, <3>6
  <2>2. CASE \E kind \in Kinds : Send(kind)
    <3>1. PICK kind \in Kinds : Send(kind)
      BY <2>2
    <3>2. SentShape'
      BY <3>1, SendKeepsShape DEF ViewerInv
    <3>3. PICK l \in 0 .. 2 : Len(sent') = Len(sent) + 5 + l /\ cut' = cut
      BY <3>1, SendGrows DEF ViewerInv, Send
    <3>4. Len(sent) \in Nat
      BY DEF ViewerInv, SentShape
    <3>5. CutShape'
      BY <3>3, <3>4 DEF ViewerInv, CutShape
    <3> QED
      BY <3>2, <3>5
  <2> QED
    BY <2>1, <2>2
<1>4. PlaceShape' /\ SparedShown'
  BY <1>1, <1>2 DEF PlaceShape, SparedShown
<1>5. StatsFit(stats, shown)'
  BY <1>1 DEF ViewerInv, StatsFit
<1> QED
  BY <1>3, <1>4, <1>5 DEF ViewerInv

(* What a round of the loop finds.                                         *)
LEMMA PairRead ==
  ASSUME SentShape, CutShape, place \in Nat, More,
         NEW s, s = Min(Found)
  PROVE  /\ s \in 1 .. Len(Stream) - 1 /\ place < s /\ IsPair(Stream, s) /\ Readable(Stream, s)
         /\ EndOf(Stream, s) \in s + 4 .. Len(Stream)
<1>1. Len(Stream) \in Nat
  BY StreamCells
<1>2. Found # {} /\ Readable(Stream, s)
  BY DEF More
<1>3. s \in {i \in 1 .. Len(Stream) - 1 : place + 1 <= i /\ IsPair(Stream, i)}
  BY <1>2, FirstPair
<1>4. s \in 1 .. Len(Stream) - 1 /\ place < s /\ IsPair(Stream, s)
  BY <1>1, <1>3
<1>5. s + 3 \in 1 .. Len(Stream)
  BY <1>1, <1>2, <1>4 DEF Readable, HeaderLen
<1>6. LengthOf(Stream, s) \in 0 .. Magic1
  <2>1. s + 3 = s + 1 + HeaderLen
    BY <1>4 DEF HeaderLen
  <2>2. Stream[s + 3].v \in 0 .. Magic1
    BY <1>5, StreamShape
  <2> QED
    BY <2>1, <2>2 DEF LengthOf
<1>7. EndOf(Stream, s) \in s + 4 .. Len(Stream)
  <2>1. EndOf(Stream, s) = s + 3 + LengthOf(Stream, s) + 1 /\ EndOf(Stream, s) <= Len(Stream)
    BY <1>1, <1>2, <1>4, <1>6 DEF EndOf, Readable, HeaderLen, CrcLen, Magic1
  <2>2. s \in Nat /\ LengthOf(Stream, s) \in Nat
    BY <1>1, <1>4, <1>6 DEF Magic1
  <2> QED
    BY ONLY <1>1, <2>1, <2>2
<1> QED
  BY <1>2, <1>4, <1>7

(* The number of a good frame is larger than all numbers shown before.     *)
LEMMA GoodIsNewest ==
  ASSUME SentShape, CutShape, PlaceShape, More,
         NEW s, s = Min(Found), CrcOk(Stream, s), NEW m \in shown
  PROVE  m < Stream[s].of
<1>1. s \in 1 .. Len(Stream) /\ place < s /\ Readable(Stream, s)
  <2>1. Len(Stream) \in Nat
    BY StreamCells
  <2>2. place \in Nat
    BY DEF PlaceShape
  <2> QED
    BY <2>1, <2>2, PairRead
<1>2. Stream[s].off = 1 /\ Stream[s].of \in 1 .. MaxSent
  BY <1>1, GoodIsWhole
<1>3. PICK i \in 1 .. Len(Stream) : i <= place /\ Stream[i].of = m /\ Stream[i].off > 1
  BY DEF PlaceShape
<1>4. place \in Nat /\ Len(Stream) \in Nat
  BY StreamCells DEF PlaceShape
<1>5. i < s
  BY <1>1, <1>3, <1>4
<1>6. Stream[i].of < Stream[s].of \/ (Stream[i].of = Stream[s].of /\ Stream[i].off < Stream[s].off)
  BY <1>1, <1>5, StreamShape DEF CellsInOrder
<1>7. Stream[i].off \in Nat
  <2>1. Stream[i] \in StreamCell
    BY StreamCells
  <2> QED
    BY <2>1 DEF StreamCell
<1> QED
  BY <1>2, <1>3, <1>6, <1>7

LEMMA NumberFits ==
  ASSUME StatsFit(stats, shown), shown \in SUBSET (1 .. MaxSent),
         NEW n \in 1 .. MaxSent, \A m \in shown : m < n,
         NEW T, T = shown \cup {n}
  PROVE  StatsFit(UpdateSeq(n), T)
<1>1. n \in Nat /\ n \in T /\ \A m \in T : m < n + 1
  <2>1. n \in Nat /\ \A m \in shown : m \in Nat
    BY ViewerAssumption DEF Magic1
  <2> QED
    BY <2>1
<1>2. /\ stats \in [expected : Nat, gap : Nat, late : {0}, dup : {0}, ng : Nat]
      /\ stats.expected # 0 => stats.expected - 1 \in shown /\ \A m \in shown : m < stats.expected
      /\ stats.gap <= Gaps(shown)
      /\ stats.ng = 0 => stats.gap = Gaps(shown) /\ (stats.expected = 0 => shown = {})
  BY DEF StatsFit
<1>3. /\ Gaps(shown) \in Nat /\ Gaps(T) \in Nat /\ Gaps(shown) <= Gaps(T)
      /\ \A m \in shown : (\A a \in shown : a <= m) => Gaps(T) = Gaps(shown) + (n - m - 1)
  BY ONLY shown \in SUBSET (1 .. MaxSent), n \in 1 .. MaxSent, \A m \in shown : m < n,
          T = shown \cup {n}, GapsGrow
<1>4. stats.expected # 0 => stats.expected <= n /\ Gaps(T) = Gaps(shown) + (n - stats.expected)
  <2> SUFFICES ASSUME stats.expected # 0
               PROVE  stats.expected <= n /\ Gaps(T) = Gaps(shown) + (n - stats.expected)
    OBVIOUS
  <2>1. PICK m \in shown : m = stats.expected - 1
    BY <1>2
  <2>2. m \in Nat /\ stats.expected \in Nat /\ stats.expected = m + 1 /\ m < n
    BY <1>2, <2>1, ViewerAssumption DEF Magic1
  <2>3. \A a \in shown : a <= m
    <3> TAKE a \in shown
    <3>1. a \in Nat /\ a < stats.expected
      BY <1>2, ViewerAssumption DEF Magic1
    <3> QED
      BY <2>2, <3>1
  <2>4. Gaps(T) = Gaps(shown) + (n - m - 1)
    BY <1>3, <2>3
  <2> QED
    BY <1>1, <1>3, <2>2, <2>4
<1>5. CASE stats.expected \in {NoneExpected, n}
  <2>1. UpdateSeq(n) = [stats EXCEPT !.expected = n + 1]
    BY <1>1, <1>5 DEF UpdateSeq, NoneExpected
  <2>2. stats.ng = 0 => stats.gap = Gaps(T)
    <3>1. CASE stats.expected = 0
      <4> SUFFICES ASSUME stats.ng = 0
                   PROVE  stats.gap = Gaps(T)
        OBVIOUS
      <4>1. shown = {} /\ stats.gap = Gaps(shown)
        BY <1>2, <3>1
      <4>2. T = {n}
        BY <4>1
      <4> QED
        BY <1>1, <4>1, <4>2, NoGaps
    <3>2. CASE stats.expected = n /\ stats.expected # 0
      BY <1>1, <1>2, <1>3, <1>4, <3>2
    <3> QED
      BY <1>5, <3>1, <3>2 DEF NoneExpected
  <2>3. stats.gap <= Gaps(T)
    BY <1>2, <1>3
  <2> DEFINE st == [stats EXCEPT !.expected = n + 1]
  <2>4. /\ st \in [expected : Nat, gap : Nat, late : {0}, dup : {0}, ng : Nat]
        /\ st.expected = n + 1 /\ st.gap = stats.gap /\ st.ng = stats.ng
    BY <1>1, <1>2
  <2>5. UpdateSeq(n) = st
    BY <2>1
  <2> HIDE DEF st
  <2>6. st.expected - 1 = n
    BY <1>1, <2>4
  <2> QED
    BY <1>1, <2>2, <2>3, <2>4, <2>5, <2>6 DEF StatsFit
<1>6. CASE stats.expected \notin {NoneExpected, n}
  <2>1. stats.expected # 0 /\ n > stats.expected /\ stats.expected \in Nat /\ stats.gap \in Nat
    BY <1>1, <1>2, <1>4, <1>6 DEF NoneExpected
  <2>2. UpdateSeq(n) = [stats EXCEPT !.expected = n + 1, !.gap = @ + (n - stats.expected)]
    BY <1>6, <2>1 DEF UpdateSeq, NoneExpected
  <2> DEFINE g == stats.gap + (n - stats.expected)
             st == [stats EXCEPT !.expected = n + 1, !.gap = g]
  <2>3. /\ st \in [expected : Nat, gap : Nat, late : {0}, dup : {0}, ng : Nat]
        /\ st.expected = n + 1 /\ st.gap = stats.gap + (n - stats.expected) /\ st.ng = stats.ng
    <3>1. stats.gap + (n - stats.expected) \in Nat
      BY <1>1, <2>1
    <3>2. g \in Nat /\ g = stats.gap + (n - stats.expected) /\ n + 1 \in Nat
      BY <1>1, <3>1
    <3> HIDE DEF g
    <3>3. /\ st \in [expected : Nat, gap : Nat, late : {0}, dup : {0}, ng : Nat]
          /\ st.expected = n + 1 /\ st.gap = g /\ st.ng = stats.ng
      BY <1>2, <3>2
    <3> QED
      BY <3>2, <3>3
  <2>4. UpdateSeq(n) = st
    BY <1>2, <2>2
  <2> HIDE DEF st
  <2>5. st.expected - 1 = n
    BY <1>1, <2>3
  <2>6. st.gap <= Gaps(T) /\ (st.ng = 0 => st.gap = Gaps(T))
    BY <1>1, <1>2, <1>3, <1>4, <2>1, <2>3
  <2> QED
    BY <1>1, <2>3, <2>4, <2>5, <2>6 DEF StatsFit
<1> QED
  BY <1>5, <1>6

LEMMA RoundDoes ==
  ASSUME ReadFrame, NEW s, s = Min(Found)
  PROVE  /\ SentCount = MaxSent /\ More /\ sent' = sent /\ cut' = cut /\ place' = EndOf(Stream, s)
         /\ CrcOk(Stream, s) => shown' = shown \cup {Stream[s + 2].v} /\ stats' = UpdateSeq(Stream[s + 2].v)
         /\ ~CrcOk(Stream, s) =>
              shown' = shown /\ stats' = [stats EXCEPT !.ng = @ + 1, !.expected = NoneExpected]
<1> DEFINE frame == Read(Stream, s)
<1>1. /\ SentCount = MaxSent /\ More /\ sent' = sent /\ cut' = cut /\ place' = EndOf(Stream, s)
      /\ shown' = IF frame.crcOk THEN shown \cup {frame.seq} ELSE shown
      /\ stats' = IF frame.crcOk THEN UpdateSeq(frame.seq)
                  ELSE [stats EXCEPT !.ng = @ + 1, !.expected = NoneExpected]
  BY DEF ReadFrame, Counted
<1>2. frame.crcOk = CrcOk(Stream, s)
  BY ONLY Zenon DEF frame, Read
<1>3. frame.seq = Stream[s + 2].v
  BY ONLY Zenon DEF frame, Read
<1> HIDE DEF frame
<1>4. CASE CrcOk(Stream, s)
  <2>1. frame.crcOk
    BY ONLY <1>2, <1>4, Zenon
  <2> QED
    BY ONLY <1>1, <1>3, <1>4, <2>1, Zenon
<1>5. CASE ~CrcOk(Stream, s)
  <2>1. ~frame.crcOk
    BY ONLY <1>2, <1>5, Zenon
  <2> QED
    BY ONLY <1>1, <1>5, <2>1, Zenon
<1> QED
  BY <1>4, <1>5

LEMMA BadFits ==
  ASSUME StatsFit(stats, shown), Gaps(shown) \in Nat
  PROVE  StatsFit([stats EXCEPT !.ng = @ + 1, !.expected = NoneExpected], shown)
<1> DEFINE g == stats.ng + 1
           st == [stats EXCEPT !.ng = g, !.expected = NoneExpected]
<1>1. /\ st \in [expected : Nat, gap : Nat, late : {0}, dup : {0}, ng : Nat]
      /\ st.expected = 0 /\ st.gap = stats.gap /\ st.ng = stats.ng + 1 /\ stats.ng \in Nat
  <2>1. stats \in [expected : Nat, gap : Nat, late : {0}, dup : {0}, ng : Nat]
    BY DEF StatsFit
  <2>2. g \in Nat /\ g = stats.ng + 1 /\ stats.ng \in Nat
    BY <2>1
  <2> HIDE DEF g
  <2> QED
    BY <2>1, <2>2 DEF NoneExpected
<1>2. stats.gap <= Gaps(shown)
  BY DEF StatsFit
<1> HIDE DEF st
<1>3. st.ng # 0
  BY <1>1
<1>4. StatsFit(st, shown)
  BY <1>1, <1>2, <1>3 DEF StatsFit
<1> QED
  BY <1>4 DEF st

LEMMA ReadKeepsInv ==
  ASSUME ViewerInv, ReadFrame
  PROVE  ViewerInv'
<1> DEFINE s == Min(Found)
           n == Stream[s].of
<1>1. SentShape /\ CutShape /\ PlaceShape /\ SparedShown /\ StatsFit(stats, shown)
  BY DEF ViewerInv
<1>2. place \in Nat /\ shown \in SUBSET (1 .. MaxSent)
  BY <1>1 DEF PlaceShape
<1>3. /\ SentCount = MaxSent /\ More /\ sent' = sent /\ cut' = cut /\ place' = EndOf(Stream, s)
      /\ CrcOk(Stream, s) => shown' = shown \cup {Stream[s + 2].v} /\ stats' = UpdateSeq(Stream[s + 2].v)
      /\ ~CrcOk(Stream, s) =>
           shown' = shown /\ stats' = [stats EXCEPT !.ng = @ + 1, !.expected = NoneExpected]
  BY RoundDoes
<1>4. /\ s \in 1 .. Len(Stream) - 1 /\ place < s /\ IsPair(Stream, s) /\ Readable(Stream, s)
      /\ EndOf(Stream, s) \in s + 4 .. Len(Stream)
  BY <1>1, <1>2, <1>3, PairRead
<1>5. Len(Stream) \in Nat
  BY <1>1, StreamCells
<1>6. CrcOk(Stream, s) => /\ Stream[s].off = 1 /\ Stream[s + 2].v = n /\ n \in 1 .. MaxSent
                          /\ Stream[EndOf(Stream, s)].of = n /\ Stream[EndOf(Stream, s)].off > 1
  <2> SUFFICES ASSUME CrcOk(Stream, s)
               PROVE  /\ Stream[s].off = 1 /\ Stream[s + 2].v = n /\ n \in 1 .. MaxSent
                      /\ Stream[EndOf(Stream, s)].of = n /\ Stream[EndOf(Stream, s)].off > 1
    OBVIOUS
  <2>1. s \in 1 .. Len(Stream)
    BY <1>4, <1>5
  <2> HIDE DEF s
  <2> QED
    BY <1>1, <1>4, <2>1, GoodIsWhole
<1>7. CrcOk(Stream, s) => \A m \in shown : m < n
  BY <1>1, <1>3, GoodIsNewest
<1>8. Stream' = Stream /\ SentCount' = SentCount
  BY <1>3 DEF Stream, SentCount
<1> HIDE DEF s, n
<1>9. SentShape' /\ CutShape'
  BY <1>1, <1>3, <1>8 DEF SentShape, CutShape
<1>10. place' \in Nat /\ place < place' /\ place' # 0 /\ place' <= Len(Stream)
  BY <1>2, <1>3, <1>4, <1>5
<1>11. shown' \in SUBSET (1 .. MaxSent) /\ shown \in SUBSET shown'
  BY <1>2, <1>3, <1>6
<1>12. PlaceShape'
  <2>1. ASSUME NEW m \in shown'
        PROVE  \E i \in 1 .. Len(Stream) : i <= place' /\ Stream[i].of = m /\ Stream[i].off > 1
    <3>1. CASE m \in shown
      <4>1. PICK i \in 1 .. Len(Stream) : i <= place /\ Stream[i].of = m /\ Stream[i].off > 1
        BY <1>1, <3>1 DEF PlaceShape
      <4>2. i <= place'
        BY <1>2, <1>5, <1>10, <4>1
      <4> QED
        BY <4>1, <4>2
    <3>2. CASE m \notin shown
      <4>1. CrcOk(Stream, s) /\ m = n
        BY <1>3, <1>6, <2>1, <3>2
      <4>2. EndOf(Stream, s) \in 1 .. Len(Stream) /\ EndOf(Stream, s) <= place'
        BY <1>3, <1>4, <1>5, <1>10
      <4> QED
        BY <1>6, <4>1, <4>2
    <3> QED
      BY <3>1, <3>2
  <2> QED
    BY <1>3, <1>8, <1>10, <1>11, <2>1 DEF PlaceShape
<1>13. SparedShown'
  <2>1. ASSUME NEW b \in 1 .. Len(Stream), NEW l \in Nat, SparedAt(b, l), b <= place'
        PROVE  Stream[b].of \in shown'
    <3>1. CASE b <= place
      <4>1. Stream[b].of \in shown
        BY <1>1, <2>1, <3>1 DEF SparedShown
      <4> QED
        BY <1>11, <4>1
    <3>2. CASE ~(b <= place)
      <4>1. place < b
        BY <1>2, <1>5, <3>2
      <4>2. s = b \/ EndOf(Stream, s) < b
        BY <1>1, <1>2, <2>1, <4>1, SparedIsMet DEF s
      <4>3. s = b
        BY <1>3, <1>5, <1>10, <2>1, <4>2
      <4>4. CrcOk(Stream, b) /\ Stream[b + 2].v = Stream[b].of
        BY <1>1, <2>1, WholeIsRead DEF SparedAt
      <4> QED
        BY <1>3, <4>3, <4>4
    <3> QED
      BY <3>1, <3>2
  <2>2. \A b, l : SparedAt(b, l)' <=> SparedAt(b, l)
    BY <1>3, <1>8 DEF SparedAt, WholeAt
  <2> QED
    BY <1>8, <2>1, <2>2 DEF SparedShown
<1>14. StatsFit(stats, shown)'
  <2>1. CASE CrcOk(Stream, s)
    <3>1. n \in 1 .. MaxSent /\ (\A m \in shown : m < n) /\ shown' = shown \cup {n} /\ stats' = UpdateSeq(n)
      BY <1>3, <1>6, <1>7, <2>1
    <3>2. StatsFit(UpdateSeq(n), shown')
      BY ONLY <1>1, <1>2, <3>1, NumberFits
    <3> QED
      BY <3>1, <3>2 DEF StatsFit, Gaps, Between
  <2>2. CASE ~CrcOk(Stream, s)
    <3>1. Gaps(shown) \in Nat
      <4>1. IsFiniteSet(Between(shown))
        <5>1. IsFiniteSet(1 .. MaxSent)
          BY FS_Interval, ViewerAssumption DEF Magic1
        <5>2. Between(shown) \subseteq 1 .. MaxSent
          BY DEF Between
        <5> QED
          BY <5>1, <5>2, FS_Subset
      <4> QED
        BY <4>1, FS_CardinalityType DEF Gaps
    <3>2. StatsFit([stats EXCEPT !.ng = @ + 1, !.expected = NoneExpected], shown)
      BY <1>1, <3>1, BadFits
    <3> QED
      BY <1>3, <2>2, <3>2 DEF StatsFit, Gaps, Between
  <2> QED
    BY <2>1, <2>2
<1> QED
  BY <1>9, <1>12, <1>13, <1>14 DEF ViewerInv

LEMMA StepViewerInv ==
  ASSUME ViewerInv, [ViewerNext]_viewerVars
  PROVE  ViewerInv'
<1>1. CASE ReadFrame
  BY <1>1, ReadKeepsInv
<1>2. CASE Lose \/ \E kind \in Kinds : Send(kind)
  BY <1>2, BeforeReading
<1>3. CASE UNCHANGED viewerVars
  <2>1. sent' = sent /\ cut' = cut /\ place' = place /\ shown' = shown /\ stats' = stats
    BY <1>3 DEF viewerVars
  <2>2. Stream' = Stream /\ SentCount' = SentCount
    BY <2>1 DEF Stream, SentCount
  <2>3. SentShape' /\ CutShape' /\ PlaceShape'
    BY <2>1, <2>2 DEF ViewerInv, SentShape, CutShape, PlaceShape
  <2>4. SparedShown'
    <3>1. \A b, l : SparedAt(b, l)' <=> SparedAt(b, l)
      BY <2>1, <2>2 DEF SparedAt, WholeAt
    <3> QED
      BY <2>1, <2>2, <3>1 DEF ViewerInv, SparedShown
  <2>5. StatsFit(stats, shown)'
    BY <2>1 DEF ViewerInv, StatsFit, Gaps, Between
  <2> QED
    BY <2>3, <2>4, <2>5 DEF ViewerInv
<1> QED
  BY <1>1, <1>2, <1>3 DEF ViewerNext

(* The cells stay in order, the numbers shown are those of frames before   *)
(* place, every spared frame there is shown, and Stats fits what is shown. *)
THEOREM ViewerInvHolds == ViewerSpec => []ViewerInv
<1>1. ViewerInit => ViewerInv
  BY InitViewerInv
<1>2. ViewerInv /\ [ViewerNext]_viewerVars => ViewerInv'
  BY StepViewerInv
<1> QED
  BY <1>1, <1>2, PTL DEF ViewerSpec

(* Whatever run of bytes is lost, update_seq_stats counts no number as     *)
(* late or duplicate and no more as missing than frames between two shown  *)
(* ones were lost; and exactly these if no frame came with a bad CRC.      *)
THEOREM GapsAreOfLosses == ViewerSpec => []GapsAreLosses
<1>1. ViewerInv => GapsAreLosses
  <2> SUFFICES ASSUME ViewerInv
               PROVE  GapsAreLosses
    OBVIOUS
  <2>1. StatsFit(stats, shown)
    BY DEF ViewerInv
  <2> QED
    BY <2>1 DEF GapsAreLosses, StatsFit, Gaps, Between
<1> QED
  BY <1>1, ViewerInvHolds, PTL

(* Where a frame begins and ends in what was sent.                         *)
LEMMA FrameStands ==
  ASSUME SentShape, NEW n \in 1 .. SentCount
  PROVE  \E i \in 1 .. Len(sent), l \in Nat :
           sent[i].of = n /\ StartsAt(n) = i /\ EndsAt(n) = i + 4 + l /\ WholeAt(sent, i, l)
<1>1. PICK i \in 1 .. Len(sent) : sent[i].of = n /\ sent[i].off = 1
  BY DEF SentShape
<1>2. PICK l \in Nat : WholeAt(sent, i, l)
  BY <1>1 DEF SentShape
<1>3. CellsInOrder(sent) /\ Len(sent) \in Nat /\ DOMAIN sent = 1 .. Len(sent)
  BY DEF SentShape
<1> DEFINE e == i + 4 + l
<1>4. /\ e \in 1 .. Len(sent) /\ e \in i .. e
      /\ \A j \in i .. e : sent[j].of = sent[i].of /\ (sent[j].last <=> j = e)
  BY <1>2, <1>3 DEF WholeAt
<1>5. sent[e].of = n /\ sent[e].last
  <2>1. sent[e].of = sent[i].of /\ (sent[e].last <=> e = e)
    BY ONLY <1>4
  <2> QED
    BY ONLY <1>1, <2>1, Zenon
<1>6. i \in Nat /\ e \in Nat
  BY <1>3
<1> HIDE DEF e
<1>7. StartsAt(n) = i
  <2>1. ASSUME NEW j \in DOMAIN sent, sent[j].of = n, sent[j].off = 1
        PROVE  j = i
    <3>1. j \in 1 .. Len(sent) /\ n \in Nat
      BY <1>3 DEF SentShape
    <3>2. ~(j < i)
      BY <1>1, <1>3, <2>1, <3>1 DEF CellsInOrder
    <3>3. ~(i < j)
      BY <1>1, <1>3, <2>1, <3>1 DEF CellsInOrder
    <3> QED
      BY <1>3, <3>1, <3>2, <3>3
  <2> QED
    BY <1>1, <1>3, <2>1 DEF StartsAt
<1>8. EndsAt(n) = e
  <2>1. ASSUME NEW j \in DOMAIN sent, sent[j].of = n, sent[j].last
        PROVE  j = e
    <3>1. j \in 1 .. Len(sent) /\ ~(n < n)
      BY <1>3 DEF SentShape
    <3>2. ASSUME NEW a \in 1 .. Len(sent), NEW b \in 1 .. Len(sent),
                 sent[a].of = n, sent[b].of = n, sent[a].last
          PROVE  ~(a < b)
      <4>1. a < b => \/ sent[a].of < sent[b].of
                     \/ sent[a].of = sent[b].of /\ sent[a].off < sent[b].off /\ ~sent[a].last
        BY <1>3 DEF CellsInOrder
      <4> QED
        BY ONLY <3>1, <3>2, <4>1, Zenon
    <3>3. ~(j < e) /\ ~(e < j)
      BY <1>4, <1>5, <2>1, <3>1, <3>2
    <3> QED
      BY <1>3, <1>6, <3>1, <3>3
  <2> QED
    BY <1>3, <1>4, <1>5, <2>1 DEF EndsAt
<1> QED
  BY <1>1, <1>2, <1>7, <1>8 DEF e

(* A frame of which no byte is lost is whole in the stream.                *)
LEMMA WholeIsKept ==
  ASSUME SentShape, CutShape, NEW i \in 1 .. Len(sent), NEW l \in Nat, WholeAt(sent, i, l),
         NEW b \in Nat \ {0}, b + 4 + l <= Len(Stream), At(b) = i,
         b > cut[1] \/ b + 4 + l <= cut[1]
  PROVE  WholeAt(Stream, b, l) /\ Stream[b].of = sent[i].of
<1>1. /\ Len(Stream) \in Nat /\ Len(sent) \in Nat
      /\ \A j \in 1 .. Len(Stream) : At(j) \in 1 .. Len(sent) /\ Stream[j] = sent[At(j)]
  BY StreamCells
<1>2. cut[1] \in Nat
  BY DEF CutShape
<1>3. ASSUME NEW d \in 0 .. 4 + l
      PROVE  Stream[b + d] = sent[i + d] /\ b + d \in 1 .. Len(Stream)
  <2>1. d \in Nat /\ (b > cut[1] \/ b + d <= cut[1])
    BY <1>2
  <2>2. At(b + d) = i + d
    BY <2>1, AtGoesOn
  <2>3. b + d \in 1 .. Len(Stream)
    BY <1>1
  <2> QED
    BY <1>1, <2>2, <2>3
<1>4. Stream[b] = sent[i] /\ Stream[b + 1] = sent[i + 1] /\ Stream[b + 3] = sent[i + 3]
  <2>1. 0 \in 0 .. 4 + l /\ 1 \in 0 .. 4 + l /\ 3 \in 0 .. 4 + l
    OBVIOUS
  <2>2. Stream[b + 0] = sent[i + 0] /\ Stream[b + 1] = sent[i + 1] /\ Stream[b + 3] = sent[i + 3]
    BY <1>3, <2>1
  <2>3. b + 0 = b /\ i + 0 = i
    BY <1>1
  <2> QED
    BY <2>2, <2>3
<1>5. ASSUME NEW j \in b .. b + 4 + l
      PROVE  Stream[j].of = Stream[b].of /\ Stream[j].off = j - b + 1 /\ (Stream[j].last <=> j = b + 4 + l)
  <2> DEFINE k == i + (j - b)
  <2>1. k \in i .. i + 4 + l /\ k - i = j - b /\ (k = i + 4 + l <=> j = b + 4 + l)
    BY <1>1
  <2>2. Stream[j] = sent[k]
    <3>1. j - b \in 0 .. 4 + l /\ b + (j - b) = j
      OBVIOUS
    <3>2. Stream[b + (j - b)] = sent[i + (j - b)]
      BY <1>3, <3>1
    <3> QED
      BY <3>1, <3>2
  <2>3. sent[k].of = sent[i].of /\ sent[k].off = k - i + 1 /\ (sent[k].last <=> k = i + 4 + l)
    BY <2>1 DEF WholeAt
  <2> HIDE DEF k
  <2>4. Stream[j].last <=> j = b + 4 + l
    BY ONLY <2>1, <2>2, <2>3, Zenon
  <2> QED
    BY <1>4, <2>1, <2>2, <2>3, <2>4
<1> QED
  BY <1>4, <1>5 DEF WholeAt

(* For every stream of frames and every run of bytes lost: once read_frame *)
(* has read all, every frame that was over before the loss and every one   *)
(* that begins further behind it than a frame can claim to reach is shown. *)
THEOREM ViewerRecoversAlways == ViewerSpec => []ViewerRecovers
<1>1. ViewerInv => ViewerRecovers
  <2> SUFFICES ASSUME ViewerInv, SentCount = MaxSent, ~More, NEW n \in 1 .. MaxSent,
                      EndsAt(n) <= cut[1] \/ StartsAt(n) > cut[2] + Longest
               PROVE  n \in shown
    BY DEF ViewerRecovers
  <2>1. SentShape /\ CutShape /\ PlaceShape /\ SparedShown
    BY DEF ViewerInv
  <2>2. PICK i \in 1 .. Len(sent), l \in Nat :
          sent[i].of = n /\ StartsAt(n) = i /\ EndsAt(n) = i + 4 + l /\ WholeAt(sent, i, l)
    BY <2>1, FrameStands
  <2>3. i + 4 + l <= cut[1] \/ i > cut[2] + Longest
    BY <2>2
  <2>4. /\ cut[1] \in Nat /\ cut[2] \in Nat /\ cut[1] <= cut[2] /\ cut[2] <= Len(sent)
        /\ Len(sent) \in Nat /\ Len(Stream) \in Nat /\ Len(Stream) = Len(sent) - (cut[2] - cut[1])
        /\ i + 4 + l <= Len(sent) /\ place \in Nat /\ Longest = 14
    BY <2>1, <2>2, StreamCells
       DEF CutShape, WholeAt, PlaceShape, Longest, HeaderLen, Magic1, CrcLen
  <2>5. PICK b \in Nat :
          /\ b # 0 /\ b \in 1 .. Len(Stream) /\ b + 4 + l <= Len(Stream)
          /\ (b + 4 + l <= cut[1] /\ b = i) \/ (b > cut[1] + Longest /\ b + (cut[2] - cut[1]) = i)
    <3>1. PICK k \in Nat, m \in Nat, s \in Nat, t \in Nat :
            k = cut[1] /\ m = cut[2] /\ s = Len(sent) /\ t = Len(Stream)
      BY <2>4
    <3>2. /\ k <= m /\ m <= s /\ t = s - (m - k) /\ i \in 1 .. s /\ i + 4 + l <= s /\ Longest = 14
          /\ i + 4 + l <= k \/ i > m + Longest
      BY <2>3, <2>4, <3>1
    <3>3. CASE i + 4 + l <= k
      <4>1. i \in Nat /\ i # 0 /\ i \in 1 .. t /\ i + 4 + l <= t
        BY ONLY <3>2, <3>3, k \in Nat, m \in Nat, s \in Nat, t \in Nat, l \in Nat
      <4> QED
        BY <3>1, <3>3, <4>1
    <3>4. CASE i > m + Longest
      <4> DEFINE b == i - (m - k)
      <4>1. /\ b \in Nat /\ b # 0 /\ b \in 1 .. t /\ b + 4 + l <= t /\ b > k + Longest
            /\ b + (m - k) = i
        BY ONLY <3>2, <3>4, k \in Nat, m \in Nat, s \in Nat, t \in Nat, l \in Nat
      <4> HIDE DEF b
      <4> QED
        BY <3>1, <4>1
    <3> QED
      BY <3>2, <3>3, <3>4
  <2>6. b > cut[1] \/ b + 4 + l <= cut[1]
    BY <2>4, <2>5
  <2>7. At(b) = i /\ (b + 4 + l <= cut[1] \/ b > cut[1] + Longest)
    <3>1. CASE b + 4 + l <= cut[1] /\ b = i
      <4>1. b <= cut[1]
        BY <2>4, <3>1
      <4> QED
        BY <3>1, <4>1 DEF At
    <3>2. CASE b > cut[1] + Longest /\ b + (cut[2] - cut[1]) = i
      <4>1. ~(b <= cut[1])
        BY <2>4, <3>2
      <4> QED
        BY <3>2, <4>1 DEF At
    <3> QED
      BY <2>5, <3>1, <3>2
  <2>8. WholeAt(Stream, b, l) /\ Stream[b].of = n
    <3>1. b \in Nat \ {0}
      BY <2>5
    <3>2. WholeAt(Stream, b, l) /\ Stream[b].of = sent[i].of
      BY <2>1, <2>2, <2>5, <2>6, <2>7, <3>1, WholeIsKept
    <3> QED
      BY <2>2, <3>2
  <2>9. SparedAt(b, l)
    BY <2>7, <2>8 DEF SparedAt
  <2>10. CASE b <= place
    BY <2>1, <2>5, <2>8, <2>9, <2>10 DEF SparedShown
  <2>11. CASE ~(b <= place)
    <3>1. place < b
      BY <2>4, <2>11
    <3>2. More
      BY <2>1, <2>4, <2>5, <2>9, <3>1, SparedIsMet
    <3> QED
      BY <3>2
  <2> QED
    BY <2>10, <2>11
<1> QED
  BY <1>1, ViewerInvHolds, PTL
=============================================================================
