----------------------------- MODULE SscbTypes -----------------------------
(***************************************************************************)
(* The enumerations of common/sscb_types.h that the controller's state     *)
(* machine, storage and protocol share.  The numeric codes are left out:   *)
(* only equality of codes matters to the firmware.  A 16-bit status word   *)
(* is the set of its bits that are set.                                    *)
(***************************************************************************)

\* sscb_state_t
States == {"INIT", "SELF_TEST", "READY", "RUN", "WARN", "FAULT_ACTIVE",
           "RECOVER_WAIT", "RECOVER_TRY", "LOCKOUT", "MAINTENANCE"}

\* sscb_fault_t
Faults == {"NONE", "SHORT", "OVERLOAD", "OVERVOLTAGE", "OVERTEMP_WARN",
           "SAMPLE_ABNORMAL", "DRIVER", "PARAM_CRC", "COMM_TIMEOUT"}

\* SSCB_STATUS_*
StatusBits == {"NORMAL", "SHORT", "OVERLOAD", "OVERVOLTAGE", "OVERTEMP_WARN",
               "LOCKOUT", "SELFTEST_FAIL", "SAMPLE_ABNORMAL", "DRIVER_FAULT",
               "COMM_ABNORMAL", "PGA_SATURATED", "B3_VALID"}

\* What the storage keeps of a sscb_fault_record_t: the two enumerations.
\* Time stamp, measurements and flags are payload no property tells apart.
FaultRecord == [fault : Faults, state : States]

\* memset(&record, 0, sizeof(record)): code 0 is NONE and INIT.
ZeroRecord == [fault |-> "NONE", state |-> "INIT"]
=============================================================================
