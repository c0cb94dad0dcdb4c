----------------------------- MODULE AdcDriver -----------------------------
(***************************************************************************)
(* driver/adc_driver.c: from the counts of the converters to measurements. *)
(* The products are 32 bits wide, the results 16.  The temperature, a      *)
(* logarithm in floating point, and the flags, which no code reads, are    *)
(* left out.                                                               *)
(***************************************************************************)
EXTENDS Integers

CONSTANTS
  VoltageGain,  \* voltage_gain_mv_per_count
  PgaGain,      \* current_pga_gain_ma_per_count
  PgaOffset,    \* current_pga_offset_ma
  RawGain       \* current_raw_gain_ma_per_count

ASSUME AdcAssumption ==
  VoltageGain \in Nat /\ PgaGain \in Nat /\ PgaOffset \in Int /\ RawGain \in Nat

\* Counts of a 12-bit converter.
Counts == 0 .. 4095

\* Conversions to uint16_t and int16_t, and the division of C.
Unsigned16(n) == n % 65536
Signed16(n) == ((n + 32768) % 65536) - 32768
Quotient(n, d) == IF n >= 0 THEN n \div d ELSE -((-n) \div d)

\* The currents in mA, before they are narrowed.
PgaMilliamps(count) == count * PgaGain + PgaOffset
RawMilliamps(count) == count * RawGain

\* Mutant of VoltageDv: the product is made in sixteen bits.
VoltageDvNarrow(count) == Unsigned16(count * VoltageGain) \div 100

\* Mutant of CurrentPgaDa: the offset is left out.
CurrentPgaDaNoOffset(count) == Signed16((count * PgaGain) \div 100)

\* The fields of sscb_adc_convert_measurements, whose offsets are zero but
\* for the first current's.
VoltageDv(count) == Unsigned16((count * VoltageGain) \div 100)
CurrentPgaDa(count) == Signed16(Quotient(PgaMilliamps(count), 100))
CurrentRawDa(count) == Signed16(Quotient(RawMilliamps(count), 100))
=============================================================================
