---------------------------- MODULE MCFirmware ----------------------------
(***************************************************************************)
(* Small instances of Firmware.  Every parameter is fixed except the node  *)
(* identifier and the short threshold, which hosts write.  An RMS of 5     *)
(* trips the overload at once, and the remainder trips it again at rest.   *)
(***************************************************************************)
EXTENDS Firmware

Fixed(v) == [lo |-> v, hi |-> v]

MCParamRange ==
  [id \in WritableIds |->
     CASE id = "NODE_ID"                    -> [lo |-> 1, hi |-> 2]
       [] id = "SHORT_THRESHOLD_A"          -> [lo |-> 500, hi |-> 1000]
       [] id = "CMPSS_DAC_REF_MV"           -> Fixed(3000)
       [] id = "I2T_KCOOL_X10000"           -> Fixed(5000)
       [] id \in {"OVER_VOLTAGE_TRIP_DV", "OVER_TEMP_WARN_DC"} -> Fixed(3)
       [] id \in {"OVER_CURRENT_IR_A", "I2T_TR_MS"}            -> Fixed(2)
       [] OTHER                             -> Fixed(1)]

MCParamDefaults ==
  [id \in WritableIds |->
     IF id = "SHORT_THRESHOLD_A" THEN 1000 ELSE MCParamRange[id].lo]

MCBlocks == {[MCParamDefaults EXCEPT !["NODE_ID"] = n, !["SHORT_THRESHOLD_A"] = a] :
               n \in 1 .. 2, a \in {533, 1000}}

Normal   == [voltage |-> 1, temperature |-> 1]
High     == [voltage |-> 3, temperature |-> 1]

OnlyNormal == {Normal}
NormalOrHigh == {Normal, High}

NoCurrent == {0}
Overload == {5}
AnyCurrent == {0, 5}

SoundPins == {[ready |-> TRUE, fault_clear |-> TRUE]}
OnePinLow == {pin \in [ready : BOOLEAN, fault_clear : BOOLEAN] : pin.ready \/ pin.fault_clear}

ParamFrame(op, id, value) == [box |-> "PARAM", op |-> op, id |-> id, value |-> value]
ControlFrame(op) == [box |-> "CONTROL", op |-> op, id |-> "NONE", value |-> 0]
TimeFrame == [box |-> "TIME", op |-> "sync", id |-> "NONE", value |-> 0]

NoHost == {}
MixedHost ==
  {ParamFrame("write", "SHORT_THRESHOLD_A", 533),
   ParamFrame("write", "SHORT_THRESHOLD_A", 2000),
   ParamFrame("write", "NODE_ID", 2),
   ParamFrame("read", "VOLTAGE_GAIN_MV_PER_COUNT", 0),
   ControlFrame("clear"), ControlFrame("reset")}
BusyHost == {TimeFrame} \cup {ControlFrame(op) : op \in {"clear", "read_log", "unknown"}}

NoWrites == {}
=============================================================================
