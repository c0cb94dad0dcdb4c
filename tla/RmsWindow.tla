----------------------------- MODULE RmsWindow -----------------------------
(***************************************************************************)
(* protection/protection.c: the sliding window of current samples whose    *)
(* sum of squares is updated by one subtraction and one addition, and the  *)
(* bit-by-bit integer square root of its mean.                             *)
(***************************************************************************)
EXTENDS Integers, FiniteSets, FiniteSetsExt

CONSTANTS
  Window,   \* SSCB_RMS_WINDOW_SAMPLES
  Samples,  \* currents in mA that may be sampled
  TopBit    \* the square root starts at this power of four (2^62 there)

ASSUME WindowAssumption ==
  Window \in Nat \ {0} /\ Samples \subseteq Int /\ 0 \in Samples

VARIABLES samples_ma, index, count, sum_sq_a2, rms_a

windowVars == <<samples_ma, index, count, sum_sq_a2, rms_a>>

\* Whole amperes of a sample: the division truncates the magnitude.
Amps(ma) == (IF ma < 0 THEN -ma ELSE ma) \div 1000
Square(a) == a * a

\* No odd number above one divides a power of two.
PowerOfTwo(n) ==
  n \in Nat \ {0} /\ \A d \in 1 .. n : n % d = 0 /\ d % 2 = 1 => d = 1

ASSUME TopBitAssumption ==
  /\ \E h \in 1 .. TopBit : PowerOfTwo(h) /\ TopBit = h * h
  /\ \A s \in Samples : Square(Amps(s)) < 4 * TopBit

\* isqrt_u64: its locals, and its two loops over them.  The first finds the
\* highest power of four in the operand, the second tries the root's bits
\* from there down.
Locals == [op : Nat, res : Nat, one : Nat]

Quarter(v) == [op |-> v.op, res |-> v.res, one |-> v.one \div 4]

Descend[v \in Locals] == IF v.one > v.op THEN Descend[Quarter(v)] ELSE v

TryBit(v) ==
  IF v.op >= v.res + v.one
    THEN [op |-> v.op - (v.res + v.one), res |-> v.res \div 2 + v.one, one |-> v.one \div 4]
    ELSE [op |-> v.op, res |-> v.res \div 2, one |-> v.one \div 4]

Bits[v \in Locals] == IF v.one = 0 THEN v.res ELSE Bits[TryBit(v)]

\* Mutant of Isqrt: the first bit is not a power of four.
IsqrtFromOddBit(x) == Bits[Descend[[op |-> x, res |-> 0, one |-> TopBit \div 2]]]

Isqrt(x) == Bits[Descend[[op |-> x, res |-> 0, one |-> TopBit]]]

\* sscb_protection_init
WindowInit ==
  /\ samples_ma = [i \in 0 .. Window - 1 |-> 0]
  /\ index = 0 /\ count = 0 /\ sum_sq_a2 = 0 /\ rms_a = 0

\* Mutant of SampleCurrent: the slot is overwritten before its square is
\* subtracted.
SampleCurrentSwapped(current_ma) ==
  LET full == count = Window
      held == IF full THEN sum_sq_a2 - Square(Amps(current_ma)) ELSE sum_sq_a2
  IN  /\ count' = IF full THEN count ELSE count + 1
      /\ samples_ma' = [samples_ma EXCEPT ![index] = current_ma]
      /\ sum_sq_a2' = held + Square(Amps(current_ma))
      /\ index' = (index + 1) % Window
      /\ rms_a' = Isqrt(sum_sq_a2' \div count')

\* sscb_protection_sample_current_ma
SampleCurrent(current_ma) ==
  LET full == count = Window
      held == IF full THEN sum_sq_a2 - Square(Amps(samples_ma[index])) ELSE sum_sq_a2
  IN  /\ count' = IF full THEN count ELSE count + 1
      /\ samples_ma' = [samples_ma EXCEPT ![index] = current_ma]
      /\ sum_sq_a2' = held + Square(Amps(current_ma))
      /\ index' = (index + 1) % Window
      /\ rms_a' = Isqrt(sum_sq_a2' \div count')

WindowNext == \E s \in Samples : SampleCurrent(s)
WindowSpec == WindowInit /\ [][WindowNext]_windowVars

-----------------------------------------------------------------------------
\* The running sum never drifts from the samples held: it is the sum of
\* their squares, through the filling of the window and every wrap-around.
SumMatchesWindow ==
  sum_sq_a2 = MapThenSumSet(LAMBDA i : Square(Amps(samples_ma[i])), 0 .. Window - 1)

\* The value the overload integrator sees is the integer root of the mean
\* square: no other integer r has r^2 <= mean < (r + 1)^2.
RmsIsRootOfMean ==
  count > 0 => LET mean == sum_sq_a2 \div count
               IN  Square(rms_a) <= mean /\ mean < Square(rms_a + 1)
=============================================================================
