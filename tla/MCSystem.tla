----------------------------- MODULE MCSystem -----------------------------
(***************************************************************************)
(* Small instance of System for TLC.  The numbers are scaled so that every *)
(* branch is a few ticks away: with Ir = 2 and Tr = 2 the threshold is 10, *)
(* an RMS of 3 adds 5 per tick and one of 5 trips at once and saturates.   *)
(***************************************************************************)
EXTENDS System

MCParamRange ==
  [id \in WritableIds |->
     CASE id = "I2T_KCOOL_X10000"           -> [lo |-> 5000, hi |-> 10000]
       [] id = "OVERLOAD_RECOVER_DELAY_MS"  -> [lo |-> 0, hi |-> 2]
       [] id = "OVER_VOLTAGE_TRIP_DELAY_MS" -> [lo |-> 0, hi |-> 2]
       [] OTHER                             -> [lo |-> 1, hi |-> 3]]

MCParamDefaults ==
  [id \in WritableIds |->
     CASE id = "I2T_KCOOL_X10000"           -> 5000
       [] id = "OVER_CURRENT_IR_A"          -> 2
       [] id = "I2T_TR_MS"                  -> 2
       [] id = "OVERLOAD_RECOVER_DELAY_MS"  -> 2
       [] id = "OVER_VOLTAGE_TRIP_DELAY_MS" -> 2
       [] id \in {"OVER_VOLTAGE_TRIP_DV", "OVER_TEMP_WARN_DC"} -> 3
       [] OTHER                             -> 1]

MCParamWrites ==
  {[id |-> "OVERLOAD_RECOVER_DELAY_MS", value |-> 0],
   [id |-> "I2T_TR_MS", value |-> 1],
   [id |-> "I2T_TR_MS", value |-> 4],
   [id |-> "VOLTAGE_GAIN_MV_PER_COUNT", value |-> 1]}

MCRmsValues == {0, 3, 5}
\* Normal, in the overvoltage dead band, overvoltage, warm, and hot.
MCMeasurements ==
  {[voltage |-> 1, temperature |-> 1], [voltage |-> 2, temperature |-> 1],
   [voltage |-> 3, temperature |-> 2], [voltage |-> 1, temperature |-> 2],
   [voltage |-> 1, temperature |-> 3]}
=============================================================================
