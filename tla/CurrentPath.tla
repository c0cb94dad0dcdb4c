---------------------------- MODULE CurrentPath ----------------------------
(***************************************************************************)
(* The path of a current in run_once: converter, measurement in tenths of  *)
(* an ampere, sample in milliamperes, window, RMS.  The observer keeps the *)
(* currents of the window as they were before any narrowing.               *)
(***************************************************************************)
EXTENDS AdcDriver, RmsWindow

CONSTANTS
  CurrentCounts,  \* counts of the current's converter that may be read
  OtherCounts     \* counts of the other two converters

ASSUME CurrentPathAssumption ==
  /\ CurrentCounts \cup OtherCounts \subseteq Counts
  /\ Samples = {CurrentPgaDa(c) * 100 : c \in CurrentCounts} \cup {0}

\* The gains are defaults that no host can write (parameters.c): the voltage
\* and the amplified current of every count fit their sixteen bits.
ASSUME GainsAssumption ==
  \A c \in Counts :
    /\ c * VoltageGain < 6553600 /\ c * RawGain < 6553600
    /\ -32768 <= Quotient(PgaMilliamps(c), 100) /\ Quotient(PgaMilliamps(c), 100) < 32768

VARIABLES
  measured,  \* the last measurements
  counts,    \* observer: the counts they were made from
  currents   \* observer: the window's currents in tenths of an ampere

pathVars == <<windowVars, measured, counts, currents>>

Convert(pga, other) ==
  [voltage_dv |-> VoltageDv(other), current_pga_da |-> CurrentPgaDa(pga),
   current_raw_da |-> CurrentRawDa(other)]

PathInit ==
  /\ WindowInit
  /\ counts = [pga |-> 0, other |-> 0]
  /\ measured = Convert(0, 0)
  /\ currents = [i \in 0 .. Window - 1 |-> 0]

\* The head of sscb_firmware_run_once.
ReadAndSample ==
  \E pga \in CurrentCounts, other \in OtherCounts :
    /\ measured' = Convert(pga, other)
    /\ counts' = [pga |-> pga, other |-> other]
    /\ SampleCurrent(measured'.current_pga_da * 100)
    /\ currents' = [currents EXCEPT ![index] = Quotient(PgaMilliamps(pga), 100)]

PathSpec == PathInit /\ [][ReadAndSample]_pathVars

-----------------------------------------------------------------------------
\* The voltage and the current the protection uses are what their converters
\* read, to the last count; the unamplified current, kept in fault records,
\* is so exactly up to what sixteen bits hold, and has the wrong sign above.
ChannelsExact ==
  LET raw == RawMilliamps(counts.other) \div 100
  IN  /\ measured.voltage_dv = (counts.other * VoltageGain) \div 100
      /\ measured.current_pga_da = Quotient(PgaMilliamps(counts.pga), 100)
      /\ measured.current_raw_da = raw <=> raw < 32768
      /\ raw >= 32768 => measured.current_raw_da < 0

\* The value the overload integrator works with is below the RMS of the true
\* currents of the window by less than two amperes, and never above it, after
\* all the truncations and conversions on the way.
RmsTracksCurrent ==
  count = Window =>
    LET sum == MapThenSumSet(LAMBDA i : Square(currents[i]), 0 .. Window - 1)
    IN  /\ Square(10 * rms_a) * Window <= sum
        /\ sum < Square(10 * (rms_a + 2)) * Window
=============================================================================
