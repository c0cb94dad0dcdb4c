------------------------------ MODULE System ------------------------------
(***************************************************************************)
(* app/system.c: the breaker's protection state machine, with the state of *)
(* the protection block (protection.c) and the fault log in RAM that it    *)
(* owns.  One action per function of system.h that changes the state.      *)
(*                                                                         *)
(* SystemSpec lets a caller call any of them in any order with any inputs. *)
(* Firmware fixes the order to the one of the main loop.                   *)
(*                                                                         *)
(* Left out: null-pointer guards (the callers pass addresses of statics)   *)
(* and time_ms, which is only a time stamp.                                *)
(***************************************************************************)
EXTENDS Protection, FaultLog

CONSTANTS
  RmsValues,     \* values of protection.rms_a at a tick
  Measurements,  \* measurements a tick may see: [voltage, temperature]
  ParamWrites    \* parameter writes a host may ask for, in range or not

ASSUME MeasurementAssumption ==
  /\ RmsValues \subseteq Nat
  /\ Measurements \subseteq [voltage : Nat, temperature : Int]

ASSUME ParamWritesAssumption ==
  ParamWrites \subseteq [id : WritableIds \cup ReadOnlyIds, value : Nat]

VARIABLES
  state,                   \* sscb_state_t
  active_fault,            \* sscb_fault_t
  status_word,             \* the bits reported in the real-time frame
  recover_elapsed_ms,      \* ticks spent in RECOVER_WAIT, saturating
  trip_clear, driver_ready, fault_conditions_clear,  \* safety inputs
  i2t_acc, over_voltage_ms,                          \* sscb_protection_t
  params,                                            \* sscb_params_t
  fault_log                                          \* sscb_fault_log_t

safetyInputs == <<trip_clear, driver_ready, fault_conditions_clear>>
machine      == <<state, active_fault, status_word>>
protection   == <<i2t_acc, over_voltage_ms>>
systemVars   == <<machine, recover_elapsed_ms, safetyInputs, protection,
                  params, fault_log>>

Energised == state \in {"RUN", "WARN"}

-----------------------------------------------------------------------------
\* sscb_system_init, in the values it assigns
SystemInit ==
  /\ state = "READY"
  /\ active_fault = "NONE"
  /\ status_word = {"NORMAL"}
  /\ recover_elapsed_ms = 0
  /\ trip_clear = TRUE
  /\ driver_ready = TRUE
  /\ fault_conditions_clear = TRUE
  /\ i2t_acc = 0
  /\ over_voltage_ms = 0
  /\ params = ParamDefaults
  /\ fault_log = EmptyLog

\* sscb_system_start
Start ==
  /\ state = "READY"
  /\ state' = "RUN"
  /\ status_word' = {"NORMAL"}
  /\ UNCHANGED <<active_fault, recover_elapsed_ms, safetyInputs, protection,
                 params, fault_log>>

\* Mutant of AppendFault: the record is made before the state changes.
AppendFaultEarly(fault, newState) ==
  fault_log' = LogAppend(fault_log, [fault |-> fault, state |-> state])

\* append_fault: the record carries the state the machine has just entered.
AppendFault(fault, newState) ==
  fault_log' = LogAppend(fault_log, [fault |-> fault, state |-> newState])

\* sscb_system_on_short_trip, from every state
OnShortTrip ==
  /\ active_fault' = "SHORT"
  /\ state' = "LOCKOUT"
  /\ status_word' = status_word \cup {"SHORT", "LOCKOUT"}
  /\ AppendFault("SHORT", "LOCKOUT")
  /\ UNCHANGED <<recover_elapsed_ms, safetyInputs, protection, params>>

\* sscb_system_set_safety_inputs
SetSafetyInputs(trip, driver, conditions) ==
  /\ trip_clear' = trip
  /\ driver_ready' = driver
  /\ fault_conditions_clear' = conditions
  /\ UNCHANGED <<machine, recover_elapsed_ms, protection, params, fault_log>>

\* Mutant of ManualResetAccepts: the driver is not asked.
ManualResetIgnoresDriver ==
  state = "LOCKOUT" /\ trip_clear /\ fault_conditions_clear

\* sscb_system_manual_reset, when it does not return SSCB_ERR_STATE
ManualResetAccepts ==
  state = "LOCKOUT" /\ trip_clear /\ driver_ready /\ fault_conditions_clear

\* Mutant of ManualReset: the reset restarts the output.
ManualResetRestarts ==
  /\ ManualResetAccepts
  /\ active_fault' = "NONE"
  /\ state' = "RUN"
  /\ status_word' = {"NORMAL"}
  /\ UNCHANGED <<recover_elapsed_ms, safetyInputs, protection, params,
                 fault_log>>

ManualReset ==
  /\ ManualResetAccepts
  /\ active_fault' = "NONE"
  /\ state' = "READY"
  /\ status_word' = {"NORMAL"}
  /\ UNCHANGED <<recover_elapsed_ms, safetyInputs, protection, params,
                 fault_log>>

\* A parameter write reaches the block the protection reads by pointer.
SetParam(id, value) ==
  /\ params' = ParamsSet(params, id, value)
  /\ UNCHANGED <<machine, recover_elapsed_ms, safetyInputs, protection,
                 fault_log>>

-----------------------------------------------------------------------------
(* sscb_system_tick_1ms, one disjunct per branch.                          *)

EnterWarn ==
  /\ state' = "WARN"
  /\ status_word' = status_word \cup {"OVERTEMP_WARN"}
  /\ UNCHANGED <<active_fault, fault_log>>

EnterFault(fault) ==
  /\ active_fault' = fault
  /\ state' = "FAULT_ACTIVE"
  /\ status_word' = (status_word \ {"NORMAL"}) \cup {fault}
  /\ AppendFault(fault, "FAULT_ACTIVE")

\* Mutant of LeaveWarn: the warning bit is forgotten.
LeaveWarnKeepsBit(m) ==
  /\ state = "WARN" /\ m.temperature <= params["OVER_TEMP_RETURN_DC"]
  /\ state' = "RUN"
  /\ status_word' = status_word \cup {"NORMAL"}
  /\ UNCHANGED <<active_fault, fault_log>>

LeaveWarn(m) ==
  /\ state = "WARN" /\ m.temperature <= params["OVER_TEMP_RETURN_DC"]
  /\ state' = "RUN"
  /\ status_word' = (status_word \ {"OVERTEMP_WARN"}) \cup {"NORMAL"}
  /\ UNCHANGED <<active_fault, fault_log>>

StayEnergised(m) ==
  /\ ~(state = "WARN" /\ m.temperature <= params["OVER_TEMP_RETURN_DC"])
  /\ UNCHANGED <<machine, fault_log>>

\* RUN or WARN: the protection block decides.
ProtectionTick(rms, m) ==
  LET acc   == I2tNext(i2t_acc, rms, params)
      ms    == OverVoltageNext(acc, over_voltage_ms, m, params)
      fault == TickFault(acc, ms, m, params)
  IN  /\ Energised
      /\ i2t_acc' = acc
      /\ over_voltage_ms' = ms
      /\ UNCHANGED <<recover_elapsed_ms, safetyInputs, params>>
      /\ \/ fault = "OVERTEMP_WARN" /\ EnterWarn
         \/ fault \in {"OVERLOAD", "OVERVOLTAGE"} /\ EnterFault(fault)
         \/ fault = "NONE" /\ (LeaveWarn(m) \/ StayEnergised(m))

BeginRecovery ==
  /\ state = "FAULT_ACTIVE" /\ active_fault = "OVERLOAD"
  /\ state' = "RECOVER_WAIT"
  /\ recover_elapsed_ms' = 0
  /\ UNCHANGED <<active_fault, status_word, safetyInputs, protection, params,
                 fault_log>>

SafeToRecover == fault_conditions_clear /\ driver_ready /\ trip_clear

\* Mutant of RecoverWait: the counter is reset at every tick.
RecoverWaitRestarts ==
  /\ state = "RECOVER_WAIT"
  /\ recover_elapsed_ms' = 0
  /\ state' = IF recover_elapsed_ms >= params["OVERLOAD_RECOVER_DELAY_MS"] /\ SafeToRecover
                THEN "RECOVER_TRY" ELSE "RECOVER_WAIT"
  /\ UNCHANGED <<active_fault, status_word, safetyInputs, protection, params,
                 fault_log>>

RecoverWait ==
  LET elapsed == IF recover_elapsed_ms < U16 - 1
                   THEN recover_elapsed_ms + 1 ELSE recover_elapsed_ms
  IN  /\ state = "RECOVER_WAIT"
      /\ recover_elapsed_ms' = elapsed
      /\ state' = IF elapsed >= params["OVERLOAD_RECOVER_DELAY_MS"] /\ SafeToRecover
                    THEN "RECOVER_TRY" ELSE "RECOVER_WAIT"
      /\ UNCHANGED <<active_fault, status_word, safetyInputs, protection,
                     params, fault_log>>

\* Mutant of RecoverTry: the inputs are not checked a second time.
RecoverTryUnchecked ==
  /\ state = "RECOVER_TRY"
  /\ active_fault' = "NONE"
  /\ state' = "RUN"
  /\ status_word' = {"NORMAL"}
  /\ UNCHANGED <<recover_elapsed_ms, safetyInputs, protection, params,
                 fault_log>>

RecoverTry ==
  /\ state = "RECOVER_TRY"
  /\ \/ /\ SafeToRecover
        /\ active_fault' = "NONE"
        /\ state' = "RUN"
        /\ status_word' = {"NORMAL"}
     \/ /\ ~SafeToRecover
        /\ state' = "LOCKOUT"
        /\ status_word' = status_word \cup {"LOCKOUT"}
        /\ UNCHANGED active_fault
  /\ UNCHANGED <<recover_elapsed_ms, safetyInputs, protection, params,
                 fault_log>>

\* No branch matches: the machine waits for a reset or for a power cycle.
TickIdle ==
  /\ \/ state \in {"READY", "LOCKOUT"}
     \/ state = "FAULT_ACTIVE" /\ active_fault # "OVERLOAD"
  /\ UNCHANGED systemVars

Tick(rms, m) ==
  \/ ProtectionTick(rms, m)
  \/ BeginRecovery
  \/ RecoverWait
  \/ RecoverTry
  \/ TickIdle

TickSomething == \E rms \in RmsValues, m \in Measurements : Tick(rms, m)

-----------------------------------------------------------------------------
SystemNext ==
  \/ Start
  \/ OnShortTrip
  \/ ManualReset
  \/ TickSomething
  \/ \E t, d, c \in BOOLEAN : SetSafetyInputs(t, d, c)
  \/ \E w \in ParamWrites : SetParam(w.id, w.value)

SystemSpec == SystemInit /\ [][SystemNext]_systemVars

-----------------------------------------------------------------------------
(* Properties                                                              *)

\* Every field of sscb_system_t holds a value of its type, in particular the
\* parameter block never leaves the ranges sscb_params_set enforces.
SystemTypeOK ==
  /\ state \in States
  /\ active_fault \in Faults
  /\ status_word \subseteq StatusBits
  /\ recover_elapsed_ms \in 0 .. U16 - 1
  /\ trip_clear \in BOOLEAN
  /\ driver_ready \in BOOLEAN
  /\ fault_conditions_clear \in BOOLEAN
  /\ i2t_acc \in 0 .. U32 - 1
  /\ over_voltage_ms \in 0 .. U16 - 1
  /\ params \in ParamBlock
  /\ fault_log \in FaultLogType

\* The status word the host displays tells the state the machine is in and
\* what brought it there: the bits are set and cleared in six functions, one
\* call at a time, and a bit forgotten on one path stays wrong for ever.
\*
\* One bit is: NORMAL goes out with OVERLOAD and OVERVOLTAGE only.  A short
\* in READY, RUN or WARN and a failed self-test lock out without clearing
\* it, so that a lockout is not told by the absence of NORMAL: the host shows
\* NORMAL beside LOCKOUT until the reset, exactly when no overload or
\* overvoltage came before.
StatusTellsState ==
  /\ state \in {"READY", "RUN", "WARN", "FAULT_ACTIVE", "RECOVER_WAIT",
                "RECOVER_TRY", "LOCKOUT"}
  /\ state \in {"READY", "RUN"} => status_word = {"NORMAL"}
  /\ state = "WARN" => status_word = {"NORMAL", "OVERTEMP_WARN"}
  /\ state \in {"READY", "RUN", "WARN"} => active_fault = "NONE"
  /\ state \in {"FAULT_ACTIVE", "RECOVER_WAIT", "RECOVER_TRY"} =>
        /\ active_fault \in {"OVERLOAD", "OVERVOLTAGE"}
        /\ active_fault \in status_word
        /\ status_word \cap {"NORMAL", "SHORT", "SELFTEST_FAIL"} = {}
  /\ state \in {"RECOVER_WAIT", "RECOVER_TRY"} => active_fault = "OVERLOAD"
  /\ state = "LOCKOUT" <=> "LOCKOUT" \in status_word
  /\ state = "LOCKOUT" => status_word \cap {"SHORT", "OVERLOAD", "SELFTEST_FAIL"} # {}
  /\ "NORMAL" \in status_word <=> status_word \cap {"OVERLOAD", "OVERVOLTAGE"} = {}
  /\ active_fault = "SHORT" => state = "LOCKOUT" /\ "SHORT" \in status_word

\* A lockout ends in a manual reset that found every safety input good, and
\* a reset never energises the output: it ends in READY.
LockoutNeedsReset ==
  [][state = "LOCKOUT" /\ state' # "LOCKOUT" =>
        /\ state' = "READY"
        /\ trip_clear /\ driver_ready /\ fault_conditions_clear]_systemVars

\* The output is energised only by the start command from READY or by a
\* recovery attempt whose safety inputs are all good at that very tick.
EnergiseOnlyWhenSafe ==
  [][~Energised /\ Energised' =>
        \/ state = "READY"
        \/ state = "RECOVER_TRY" /\ SafeToRecover]_systemVars

\* Whatever takes the output off leaves the reason in the log: the newest
\* record names the fault that is active from then on and the state entered.
TripsAreRecorded ==
  [][Energised /\ ~Energised' =>
        LogLatest(fault_log', 0) = [fault |-> active_fault', state |-> state']]_systemVars
=============================================================================
