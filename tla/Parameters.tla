---------------------------- MODULE Parameters ----------------------------
(***************************************************************************)
(* common/parameters.c: the parameter table.  A parameter block is a       *)
(* function from parameter identifiers to their integer values; only the   *)
(* fourteen writable parameters are in it, the calibration values are      *)
(* constants of the build.  The identifiers are named, not numbered.       *)
(***************************************************************************)
EXTENDS Integers

\* sscb_param_id_t, the identifiers sscb_params_set accepts.
WritableIds ==
  {"NODE_ID", "SHORT_THRESHOLD_A", "OVER_CURRENT_IR_A", "I2T_TR_MS",
   "I2T_KCOOL_X10000", "OVERLOAD_RECOVER_DELAY_MS", "OVER_VOLTAGE_TRIP_DV",
   "OVER_VOLTAGE_RETURN_DV", "OVER_VOLTAGE_TRIP_DELAY_MS",
   "OVER_VOLTAGE_RETURN_DELAY_MS", "OVER_TEMP_WARN_DC",
   "OVER_TEMP_RETURN_DC", "RECOVER_MODE", "CMPSS_DAC_REF_MV"}

\* Identifiers sscb_params_get answers and sscb_params_set refuses.
ReadOnlyIds == {"VOLTAGE_GAIN_MV_PER_COUNT", "CURRENT_PGA_GAIN_MA_PER_COUNT",
                "CURRENT_RAW_GAIN_MA_PER_COUNT"}

CONSTANT
  ParamRange,    \* the accepted range of each writable parameter, lo and hi
  ParamDefaults  \* the values sscb_params_load_defaults assigns

ASSUME ParamRangeAssumption ==
  ParamRange \in [WritableIds -> [lo : Nat, hi : Nat]]

ASSUME ParamDefaultsAssumption ==
  /\ ParamDefaults \in [WritableIds -> Nat]
  /\ \A id \in WritableIds :
        ParamDefaults[id] \in ParamRange[id].lo .. ParamRange[id].hi

-----------------------------------------------------------------------------
(* The source's own table, for which SystemProofs states the comparator     *)
(* code.  The runs scale some numbers down and keep the shape.              *)

SourceRange ==
  [NODE_ID                      |-> [lo |-> 1,    hi |-> 127],
   SHORT_THRESHOLD_A            |-> [lo |-> 500,  hi |-> 2000],
   OVER_CURRENT_IR_A            |-> [lo |-> 100,  hi |-> 500],
   I2T_TR_MS                    |-> [lo |-> 100,  hi |-> 60000],
   I2T_KCOOL_X10000             |-> [lo |-> 0,    hi |-> 10000],
   OVERLOAD_RECOVER_DELAY_MS    |-> [lo |-> 0,    hi |-> 60000],
   OVER_VOLTAGE_TRIP_DV         |-> [lo |-> 8000, hi |-> 11000],
   OVER_VOLTAGE_RETURN_DV       |-> [lo |-> 7500, hi |-> 10500],
   OVER_VOLTAGE_TRIP_DELAY_MS   |-> [lo |-> 0,    hi |-> 5000],
   OVER_VOLTAGE_RETURN_DELAY_MS |-> [lo |-> 0,    hi |-> 5000],
   OVER_TEMP_WARN_DC            |-> [lo |-> 0,    hi |-> 1550],
   OVER_TEMP_RETURN_DC          |-> [lo |-> 0,    hi |-> 1550],
   RECOVER_MODE                 |-> [lo |-> 0,    hi |-> 255],
   CMPSS_DAC_REF_MV             |-> [lo |-> 2500, hi |-> 3000]]

SourceDefaults ==
  [NODE_ID                      |-> 1,
   SHORT_THRESHOLD_A            |-> 1000,
   OVER_CURRENT_IR_A            |-> 250,
   I2T_TR_MS                    |-> 5000,
   I2T_KCOOL_X10000             |-> 9879,
   OVERLOAD_RECOVER_DELAY_MS    |-> 15000,
   OVER_VOLTAGE_TRIP_DV         |-> 9600,
   OVER_VOLTAGE_RETURN_DV       |-> 8800,
   OVER_VOLTAGE_TRIP_DELAY_MS   |-> 500,
   OVER_VOLTAGE_RETURN_DELAY_MS |-> 500,
   OVER_TEMP_WARN_DC            |-> 700,
   OVER_TEMP_RETURN_DC          |-> 650,
   RECOVER_MODE                 |-> 0,
   CMPSS_DAC_REF_MV             |-> 3000]

-----------------------------------------------------------------------------
(* A block the firmware can hold: every writer goes through ParamsSet.      *)
ParamBlock ==
  {p \in [WritableIds -> Nat] :
     \A id \in WritableIds : p[id] \in ParamRange[id].lo .. ParamRange[id].hi}

\* sscb_params_set accepts: a writable identifier and a value in its range.
ParamsSetAccepts(id, value) ==
  id \in WritableIds /\ ParamRange[id].lo <= value /\ value <= ParamRange[id].hi

\* The block after sscb_params_set: a refused write leaves it alone.
ParamsSet(p, id, value) ==
  IF ParamsSetAccepts(id, value) THEN [p EXCEPT ![id] = value] ELSE p

\* sscb_params_get finds the identifier.
ParamsGetFinds(id) == id \in WritableIds \cup ReadOnlyIds

\* sscb_short_threshold_to_dac_code: rounded division, clamped to 12 bits.
DacMax == 4095

DacCode(p) ==
  LET ref == p["CMPSS_DAC_REF_MV"]
      dac == (p["SHORT_THRESHOLD_A"] * 6 * DacMax + (ref * 10) \div 2)
               \div (ref * 10)
  IN  IF ref = 0 THEN 0 ELSE IF dac > DacMax THEN DacMax ELSE dac
=============================================================================
