---------------------------- MODULE MovingAverage ----------------------------
(***************************************************************************)
(* MovingAverage of utility.h, which adc_task keeps over its last readings:*)
(* a ring of N values with a running sum.                                  *)
(***************************************************************************)
EXTENDS Integers, Sequences

CONSTANTS
  Samples,     \* values of a reading
  MaxWindow    \* bound: largest N; runs are up to two windows and one long

VARIABLES
  window,      \* N
  average,     \* the object
  totals       \* the sums of the first 0, 1, 2, ... samples: history

averageVars == <<window, average, totals>>

ASSUME SamplesAreNumbers == Samples \subseteq Nat

MovingReset(n) == [buffer |-> [i \in 0 .. n - 1 |-> 0], index |-> 0, count |-> 0, sum |-> 0]

(* Mutant of NextIndex: the index goes once around too late.               *)
NextIndexLate(i, n) == IF i + 1 >= n THEN IF n > 1 THEN 1 ELSE 0 ELSE i + 1

NextIndex(i, n) == IF i + 1 >= n THEN 0 ELSE i + 1

(* add.                                                                    *)
MovingAdd(ma, n, value) ==
  LET full == ma.count >= n
      left == IF full THEN ma.sum - ma.buffer[ma.index] ELSE ma.sum
  IN  [buffer |-> [ma.buffer EXCEPT ![ma.index] = value],
       index  |-> NextIndex(ma.index, n),
       count  |-> IF full THEN ma.count ELSE ma.count + 1,
       sum    |-> left + value]

(* average; the conversion to T drops the fraction.                        *)
MovingMean(ma) == IF ma.count = 0 THEN 0 ELSE ma.sum \div ma.count

AverageInit ==
  /\ window \in 1 .. MaxWindow
  /\ average = MovingReset(window)
  /\ totals = <<0>>

Taken == Len(totals) - 1

(* One cycle of adc_task.                                                  *)
Sample(value) ==
  /\ Taken <= 2 * window
  /\ average' = MovingAdd(average, window, value)
  /\ totals' = Append(totals, totals[Len(totals)] + value)
  /\ UNCHANGED window

AverageNext == \E value \in Samples : Sample(value)

AverageSpec == AverageInit /\ [][AverageNext]_averageVars

-----------------------------------------------------------------------------
SumOfLast(k) == totals[Len(totals)] - totals[Len(totals) - k]

(* The average that adc_task publishes and logs is that of its last N      *)
(* readings, or of all while there are fewer, however often the ring went  *)
(* round: the running sum never keeps a reading that has left the window.  *)
AverageOfWindow ==
  LET k == IF Taken < window THEN Taken ELSE window
  IN  k > 0 => MovingMean(average) = SumOfLast(k) \div k
=============================================================================
