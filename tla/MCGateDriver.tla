---------------------------- MODULE MCGateDriver ----------------------------
(* The source's own registers and values; two polls per wait instead of    *)
(* 50000.  After a reset some registers of the chip happen to hold what is *)
(* configured and the others do not.                                       *)
EXTENDS GateDriver

MCResetValue ==
  [reg \in Registers |->
     CASE reg = "I2CADD"               -> 13
       [] reg \in {"UVTLVL", "CLCFG"} -> Expected[reg]
       [] OTHER                       -> 0]

MCWrongBytes == {255}
=============================================================================
