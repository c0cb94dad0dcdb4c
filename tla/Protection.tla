---------------------------- MODULE Protection ----------------------------
(***************************************************************************)
(* protection/protection.c, sscb_protection_tick_1ms: the I2t overload     *)
(* integrator, the overvoltage delay counter and the over-temperature      *)
(* warning, as operators on the integrator's state and the parameters.     *)
(* The RMS value is an input here; RmsWindow models the window it is       *)
(* computed from.                                                          *)
(***************************************************************************)
EXTENDS Integers, Parameters

CONSTANTS
  U32,  \* number of values of a uint32_t (2^32 in the source, scaled down)
  U16   \* number of values of a uint16_t (2^16 in the source, scaled down)

ASSUME WordAssumption == U32 \in Nat \ {0} /\ U16 \in Nat \ {0}

\* The cooling factor is at most one, and the delays that sixteen-bit
\* counters are compared with are values those counters can reach.
ASSUME ProtectionRangeAssumption ==
  /\ ParamRange["I2T_KCOOL_X10000"].hi <= 10000
  /\ ParamRange["OVERLOAD_RECOVER_DELAY_MS"].hi < U16
  /\ ParamRange["OVER_VOLTAGE_TRIP_DELAY_MS"].hi < U16

\* The overload threshold: (2.25 Ir^2 - Ir^2) * Tr.  Only the last product
\* can leave 32 bits for the parameter ranges of the source.
TripAcc(p) ==
  LET ir == p["OVER_CURRENT_IR_A"]
  IN  (((225 * ir * ir) \div 100 - ir * ir) * p["I2T_TR_MS"]) % U32

\* Mutant of I2tNext: the saturation is off by one.
I2tNextOffByOne(acc, rms, p) ==
  LET ir     == p["OVER_CURRENT_IR_A"]
      excess == rms * rms - ir * ir
  IN  IF rms > ir
        THEN IF U32 - acc < excess THEN U32 - 1 ELSE acc + excess
        ELSE (acc * p["I2T_KCOOL_X10000"]) \div 10000

\* The integrator accumulates above Ir, saturating, and cools at or below Ir.
I2tNext(acc, rms, p) ==
  LET ir     == p["OVER_CURRENT_IR_A"]
      excess == rms * rms - ir * ir
  IN  IF rms > ir
        THEN IF U32 - 1 - acc < excess THEN U32 - 1 ELSE acc + excess
        ELSE (acc * p["I2T_KCOOL_X10000"]) \div 10000

\* Overload returns before the overvoltage counter is touched.
Overloads(acc, p) == acc >= TripAcc(p)

OverVoltageNext(acc, ms, m, p) ==
  CASE Overloads(acc, p)                           -> ms
    [] ~Overloads(acc, p) /\ m.voltage >= p["OVER_VOLTAGE_TRIP_DV"]
                                                   -> IF ms < U16 - 1 THEN ms + 1 ELSE ms
    [] ~Overloads(acc, p) /\ m.voltage < p["OVER_VOLTAGE_TRIP_DV"]
                          /\ m.voltage <= p["OVER_VOLTAGE_RETURN_DV"]
                                                   -> 0
    [] OTHER                                       -> ms

\* The fault the tick returns, from the updated integrator and counter.
TickFault(acc, ms, m, p) ==
  IF Overloads(acc, p) THEN "OVERLOAD"
  ELSE IF m.voltage >= p["OVER_VOLTAGE_TRIP_DV"] /\ ms >= p["OVER_VOLTAGE_TRIP_DELAY_MS"]
         THEN "OVERVOLTAGE"
  ELSE IF m.temperature >= p["OVER_TEMP_WARN_DC"] THEN "OVERTEMP_WARN"
  ELSE "NONE"
=============================================================================
