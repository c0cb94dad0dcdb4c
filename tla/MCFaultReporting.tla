-------------------------- MODULE MCFaultReporting --------------------------
(* Small instance of FaultReporting: two slots, two different records.     *)
EXTENDS FaultReporting

MCRecords ==
  {[fault |-> "SHORT", state |-> "LOCKOUT"],
   [fault |-> "OVERLOAD", state |-> "FAULT_ACTIVE"]}
=============================================================================
