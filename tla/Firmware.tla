----------------------------- MODULE Firmware -----------------------------
(***************************************************************************)
(* app/firmware.c and main.c: boot and the main loop, which call the state *)
(* machine of System, the two stores and the CAN protocol in a fixed       *)
(* order, with the hardware that acts between any two of their steps: host *)
(* frames entering three receive mailboxes, the bus emptying the single    *)
(* transmit mailbox, the comparator latching the trip zone, and the power  *)
(* supply.  pc is the place in sscb_firmware_init or run_once reached; a   *)
(* FRAM write holds it there until the last byte.                          *)
(*                                                                         *)
(* Left out: what is in a transmitted frame, the time base, and the two    *)
(* period counters, whose frames may go out in any loop.  Calls that the   *)
(* source checks for null arguments only are taken to succeed.             *)
(***************************************************************************)
EXTENDS System, ParamStore, FaultLogStore

CONSTANTS
  NoFrame,      \* an empty receive mailbox
  HostFrames,   \* frames hosts send to this node
  PinReadings,  \* readings of RDYC and FLT_N: [ready, fault_clear]
  FilterNode,   \* SSCB_CAN_NODE_ID_DEFAULT, fixed in the receive filters
  BootMayFail,  \* whether a driver may refuse to initialise
  TripMayLatch, \* whether the comparator may see a short
  MaxSequence,  \* bound: parameter writes stop at this sequence number
  MaxPowerLoss  \* bound on the number of power failures

Boxes == {"PARAM", "TIME", "CONTROL"}
Frame == [box : Boxes, op : {"read", "write", "sync", "reset", "clear",
                             "read_log", "soft_reset", "unknown"},
          id : WritableIds \cup ReadOnlyIds \cup {"NONE"}, value : Nat]

ASSUME FirmwareAssumption ==
  /\ NoFrame \notin HostFrames /\ HostFrames \subseteq Frame
  /\ PinReadings \subseteq [ready : BOOLEAN, fault_clear : BOOLEAN]
  /\ FilterNode = ParamDefaults["NODE_ID"]
  /\ DefaultBlock = ParamDefaults /\ Blocks \subseteq ParamBlock
  /\ \A p \in Blocks, f \in HostFrames : ParamsSet(p, f.id, f.value) \in Blocks
  /\ BootMayFail \in BOOLEAN /\ TripMayLatch \in BOOLEAN
  /\ MaxSequence \in Nat /\ MaxPowerLoss \in Nat

VARIABLES
  pc,              \* next call of sscb_firmware_init or run_once
  fault_clear,     \* driver_status.fault_clear of this loop
  output,          \* the ePWM software force is released
  tz_latched,      \* one-shot trip zone: forces the output low
  dac,             \* CMPSS reference code
  rx,              \* receive mailboxes, one frame each
  tx,              \* what the transmit mailbox holds
  saved_total,     \* fault_log_saved_total_count
  reported_total,  \* fault_log_reported_total_count
  losses,          \* history: power failures so far
  was_locked       \* history: LOCKOUT entered since the last boot

hardware == <<output, tz_latched, dac>>
mailboxes == <<rx, tx>>
counters == <<saved_total, reported_total>>
history == <<losses, was_locked>>
stores == <<paramStoreVars, logStoreVars>>
firmwareVars == <<systemVars, stores, pc, fault_clear, hardware, mailboxes,
                  counters, history>>

LoopStages == {"inputs", "tick", "trip", "gate", "frames", "report",
               "request", "set_dac", "mark_saved", "sync", "mark_synced"}
Stages == {"off", "halted", "load_params", "load_log", "selftest"} \cup LoopStages

\* A call that writes the FRAM has returned.
Returned == param_cursor = 0 /\ log_cursor = 0

EmptyBoxes == [b \in Boxes |-> NoFrame]

FirmwareInit ==
  /\ SystemInit /\ ParamStoreInit /\ LogStoreInit
  /\ pc = "off"
  /\ fault_clear = TRUE
  /\ output = FALSE /\ tz_latched = FALSE /\ dac = 0
  /\ rx = EmptyBoxes /\ tx = "none"
  /\ saved_total = 0 /\ reported_total = 0
  /\ losses = 0 /\ was_locked = FALSE

-----------------------------------------------------------------------------
(* sscb_firmware_init                                                      *)

\* The RAM structures have their initial values (see PowerLoss), the drivers
\* are initialised: trip chain low and cleared, comparator at the default
\* threshold, mailboxes empty.  main stops for ever if a driver refuses.
InitDrivers ==
  /\ pc = "off"
  /\ \/ pc' = "load_params" /\ dac' = DacCode(params)
     \/ BootMayFail /\ pc' = "halted" /\ UNCHANGED dac
  /\ UNCHANGED <<systemVars, stores, fault_clear, output, tz_latched,
                 mailboxes, counters, history>>

LoadStoredParams ==
  /\ pc = "load_params"
  /\ LoadParams
  /\ params' = LoadedBlock(param_fram)
  /\ pc' = "load_log"
  /\ UNCHANGED <<machine, recover_elapsed_ms, safetyInputs, protection,
                 fault_log, logStoreVars, fault_clear, hardware, mailboxes,
                 counters, history>>

\* Mutant of LoadStoredLog: the loaded records are not marked as saved.
LoadStoredLogUnmarked ==
  /\ pc = "load_log" /\ Returned
  /\ LoadLog
  /\ fault_log' = LoadedLog
  /\ reported_total' = LoadedLog.total_count
  /\ pc' = "selftest"
  /\ UNCHANGED <<machine, recover_elapsed_ms, safetyInputs, protection,
                 params, paramStoreVars, fault_clear, hardware, mailboxes,
                 saved_total, history>>

LoadStoredLog ==
  /\ pc = "load_log" /\ Returned
  /\ LoadLog
  /\ fault_log' = LoadedLog
  /\ saved_total' = LoadedLog.total_count
  /\ reported_total' = LoadedLog.total_count
  /\ pc' = "selftest"
  /\ UNCHANGED <<machine, recover_elapsed_ms, safetyInputs, protection,
                 params, paramStoreVars, fault_clear, hardware, mailboxes,
                 history>>

\* The self-test, and sscb_system_start in main when it passes.
SelfTest ==
  /\ pc = "selftest" /\ Returned
  /\ dac' = DacCode(params)
  /\ \/ /\ [ready |-> TRUE, fault_clear |-> TRUE] \in PinReadings
        /\ Start
        /\ UNCHANGED was_locked
     \/ /\ \E pin \in PinReadings : ~pin.ready \/ ~pin.fault_clear
        /\ state' = "LOCKOUT"
        /\ status_word' = status_word \cup {"SELFTEST_FAIL", "LOCKOUT"}
        /\ was_locked' = TRUE
        /\ UNCHANGED <<active_fault, recover_elapsed_ms, safetyInputs,
                       protection, params, fault_log>>
  /\ pc' = "inputs"
  /\ UNCHANGED <<stores, fault_clear, output, tz_latched, mailboxes, counters,
                 losses>>

-----------------------------------------------------------------------------
(* sscb_firmware_run_once                                                  *)

ReadInputs ==
  /\ pc = "inputs" /\ Returned
  /\ \E pin \in PinReadings :
        /\ SetSafetyInputs(TRUE, pin.ready, TRUE)
        /\ fault_clear' = pin.fault_clear
  /\ pc' = "tick"
  /\ UNCHANGED <<stores, hardware, mailboxes, counters, history>>

\* History of a step that may enter LOCKOUT.
NoteTrip ==
  /\ was_locked' = (was_locked \/ state' = "LOCKOUT")
  /\ UNCHANGED losses

RunTick ==
  /\ pc = "tick"
  /\ TickSomething
  /\ NoteTrip
  /\ pc' = "trip"
  /\ UNCHANGED <<stores, fault_clear, hardware, mailboxes, counters>>

CheckTrip ==
  /\ pc = "trip"
  /\ IF fault_clear THEN UNCHANGED systemVars ELSE OnShortTrip
  /\ NoteTrip
  /\ pc' = "gate"
  /\ UNCHANGED <<stores, fault_clear, hardware, mailboxes, counters>>

\* Mutant of DriveGate: only a lockout forces the output off.
DriveGateUntilLockout ==
  /\ pc = "gate"
  /\ output' = (state # "LOCKOUT")
  /\ pc' = "frames"
  /\ UNCHANGED <<systemVars, stores, fault_clear, tz_latched, dac, mailboxes,
                 counters, history>>

DriveGate ==
  /\ pc = "gate"
  /\ output' = Energised
  /\ pc' = "frames"
  /\ UNCHANGED <<systemVars, stores, fault_clear, tz_latched, dac, mailboxes,
                 counters, history>>

\* sscb_can_driver_send replaces what the mailbox holds.
SendPeriodicFrames ==
  /\ pc = "frames"
  /\ tx' \in {tx, "periodic"}
  /\ pc' = "report"
  /\ UNCHANGED <<systemVars, stores, fault_clear, hardware, rx, counters, history>>

SendNewFaultReport ==
  /\ pc = "report"
  /\ IF fault_log.total_count # reported_total /\ fault_log.count > 0
       THEN /\ tx' = "report"
            /\ reported_total' = fault_log.total_count
       ELSE UNCHANGED <<tx, reported_total>>
  /\ pc' = "request"
  /\ UNCHANGED <<systemVars, stores, fault_clear, hardware, rx, saved_total,
                 history>>

-----------------------------------------------------------------------------
(* handle_can_request                                                      *)

\* sscb_can_driver_receive looks into the mailboxes in this order.
NextBox ==
  CASE rx["PARAM"] # NoFrame -> "PARAM"
    [] rx["PARAM"] = NoFrame /\ rx["TIME"] # NoFrame -> "TIME"
    [] OTHER -> "CONTROL"

Nothing == UNCHANGED <<systemVars, stores, tx, dac>>
Respond == tx' = "response"

\* Mutant of HandleParam: the block is saved before it is changed.
HandleParamSavesOld(f) ==
  \/ /\ f.op = "read" /\ ParamsGetFinds(f.id)
     /\ Respond /\ pc' = "sync"
     /\ UNCHANGED <<systemVars, stores>>
  \/ /\ f.op = "write" /\ ParamsSetAccepts(f.id, f.value)
     /\ Respond
     /\ SetParam(f.id, f.value)
     /\ BeginParamSave(params) /\ pc' = "set_dac"
     /\ UNCHANGED logStoreVars
  \/ /\ ~(f.op = "read" /\ ParamsGetFinds(f.id))
     /\ ~(f.op = "write" /\ ParamsSetAccepts(f.id, f.value))
     /\ pc' = "sync" /\ Nothing

\* sscb_can_handle_param_request.  The save is made only if the request is
\* still addressed to the node identifier the write may just have changed.
HandleParam(f) ==
  \/ /\ f.op = "read" /\ ParamsGetFinds(f.id)
     /\ Respond /\ pc' = "sync"
     /\ UNCHANGED <<systemVars, stores>>
  \/ /\ f.op = "write" /\ ParamsSetAccepts(f.id, f.value)
     /\ Respond
     /\ SetParam(f.id, f.value)
     /\ IF params'["NODE_ID"] = FilterNode
          THEN BeginParamSave(params') /\ pc' = "set_dac"
          ELSE UNCHANGED paramStoreVars /\ pc' = "sync"
     /\ UNCHANGED logStoreVars
  \/ /\ ~(f.op = "read" /\ ParamsGetFinds(f.id))
     /\ ~(f.op = "write" /\ ParamsSetAccepts(f.id, f.value))
     /\ pc' = "sync" /\ Nothing

\* The control commands of sscb_protocol_handle_frame.  The software reset
\* command is acknowledged and does nothing.
HandleControl(f) ==
  \/ /\ f.op = "reset"
     /\ Respond /\ pc' = "sync"
     /\ IF ManualResetAccepts
          THEN ManualReset ELSE UNCHANGED systemVars
     /\ UNCHANGED stores
  \/ /\ f.op = "clear"
     /\ Respond /\ pc' = "mark_saved"
     /\ fault_log' = EmptyLog
     /\ BeginLogSave
     /\ UNCHANGED <<machine, recover_elapsed_ms, safetyInputs, protection,
                    params, paramStoreVars>>
  \/ /\ f.op \in {"read_log", "soft_reset"}
     /\ Respond /\ pc' = "sync"
     /\ UNCHANGED <<systemVars, stores>>
  \/ /\ f.op = "unknown"
     /\ pc' = "sync" /\ Nothing

HandleCanRequest ==
  /\ pc = "request"
  /\ IF rx = EmptyBoxes
       THEN pc' = "sync" /\ Nothing /\ UNCHANGED rx
       ELSE LET f == rx[NextBox]
            IN  /\ rx' = [rx EXCEPT ![NextBox] = NoFrame]
                /\ \/ /\ params["NODE_ID"] # FilterNode
                      /\ pc' = "sync" /\ Nothing
                   \/ /\ params["NODE_ID"] = FilterNode
                      /\ \/ f.box = "PARAM" /\ HandleParam(f)
                         \/ f.box = "CONTROL" /\ HandleControl(f)
                         \/ /\ f.box = "TIME" /\ Respond /\ pc' = "sync"
                            /\ UNCHANGED <<systemVars, stores>>
  /\ UNCHANGED <<fault_clear, hardware, counters, history>>

\* Mutant of SetDac: the comparator keeps its code until the next boot.
SetDacNever ==
  /\ pc = "set_dac" /\ Returned
  /\ pc' = "sync"
  /\ UNCHANGED <<systemVars, stores, fault_clear, hardware, mailboxes,
                 counters, history>>

\* After the save: sscb_cmpss_driver_set_dac.
SetDac ==
  /\ pc = "set_dac" /\ Returned
  /\ dac' = DacCode(params)
  /\ pc' = "sync"
  /\ UNCHANGED <<systemVars, stores, fault_clear, output, tz_latched,
                 mailboxes, counters, history>>

MarkSaved(stage, next) ==
  /\ pc = stage /\ Returned
  /\ saved_total' = fault_log.total_count
  /\ pc' = next
  /\ UNCHANGED <<systemVars, stores, fault_clear, hardware, mailboxes,
                 reported_total, history>>

\* Mutant of SyncFaultLog: greater instead of different.
SyncFaultLogIfGreater ==
  /\ pc = "sync"
  /\ IF fault_log.total_count > saved_total
       THEN BeginLogSave /\ pc' = "mark_synced"
       ELSE UNCHANGED logStoreVars /\ pc' = "inputs"
  /\ UNCHANGED <<systemVars, paramStoreVars, fault_clear, hardware, mailboxes,
                 counters, history>>

SyncFaultLog ==
  /\ pc = "sync"
  /\ IF fault_log.total_count # saved_total
       THEN BeginLogSave /\ pc' = "mark_synced"
       ELSE UNCHANGED logStoreVars /\ pc' = "inputs"
  /\ UNCHANGED <<systemVars, paramStoreVars, fault_clear, hardware, mailboxes,
                 counters, history>>

\* The transfer in progress, whichever call is waiting for it.
FramStep ==
  /\ \/ ParamWriteStep /\ UNCHANGED logStoreVars
     \/ LogWriteStep(fault_log) /\ UNCHANGED paramStoreVars
  /\ UNCHANGED <<systemVars, pc, fault_clear, hardware, mailboxes, counters,
                 history>>

FirmwareStep ==
  \/ InitDrivers \/ LoadStoredParams \/ LoadStoredLog \/ SelfTest
  \/ ReadInputs \/ RunTick \/ CheckTrip \/ DriveGate
  \/ SendPeriodicFrames \/ SendNewFaultReport \/ HandleCanRequest
  \/ SetDac \/ MarkSaved("mark_saved", "sync") \/ SyncFaultLog
  \/ MarkSaved("mark_synced", "inputs")
  \/ FramStep

-----------------------------------------------------------------------------
(* The hardware around the processor.                                      *)

Running == pc \notin {"off", "halted"}

\* A host frame overwrites the one its mailbox still holds.
HostSends(f) ==
  /\ Running
  /\ f.op = "write" => \A s \in SlotIds : /\ param_store[s].sequence < MaxSequence
                                          /\ param_fram[s].sequence < MaxSequence
  /\ rx' = [rx EXCEPT ![f.box] = f]
  /\ UNCHANGED <<systemVars, stores, pc, fault_clear, hardware, tx, counters, history>>

BusTransmits ==
  /\ tx # "none"
  /\ tx' = "none"
  /\ UNCHANGED <<systemVars, stores, pc, fault_clear, hardware, rx, counters, history>>

\* The comparator sees a short while the output is driven.
ComparatorTrips ==
  /\ TripMayLatch /\ output /\ ~tz_latched
  /\ tz_latched' = TRUE
  /\ UNCHANGED <<systemVars, stores, pc, fault_clear, output, dac, mailboxes,
                 counters, history>>

\* RAM, peripherals and mailboxes are as sscb_firmware_init will set them
\* before it reads the FRAM; the FRAM and the observer keep what they have.
PowerLoss ==
  /\ pc # "off" /\ losses < MaxPowerLoss
  /\ state' = "READY" /\ active_fault' = "NONE" /\ status_word' = {"NORMAL"}
  /\ recover_elapsed_ms' = 0
  /\ trip_clear' = TRUE /\ driver_ready' = TRUE /\ fault_conditions_clear' = TRUE
  /\ i2t_acc' = 0 /\ over_voltage_ms' = 0
  /\ params' = ParamDefaults /\ fault_log' = EmptyLog
  /\ ParamPowerLoss /\ LogPowerLoss
  /\ pc' = "off" /\ fault_clear' = TRUE
  /\ output' = FALSE /\ tz_latched' = FALSE /\ dac' = 0
  /\ rx' = EmptyBoxes /\ tx' = "none"
  /\ saved_total' = 0 /\ reported_total' = 0
  /\ losses' = losses + 1
  /\ was_locked' = FALSE

Environment ==
  \/ \E f \in HostFrames : HostSends(f)
  \/ BusTransmits
  \/ ComparatorTrips
  \/ PowerLoss

FirmwareNext == FirmwareStep \/ Environment

FirmwareSpec == FirmwareInit /\ [][FirmwareNext]_firmwareVars

\* The processor always executes the next instruction.
FairFirmwareSpec == FirmwareSpec /\ WF_firmwareVars(FirmwareStep)

-----------------------------------------------------------------------------
(* Properties                                                              *)

\* The composed state holds values of its types.
FirmwareTypeOK ==
  /\ SystemTypeOK
  /\ pc \in Stages
  /\ {fault_clear, output, tz_latched, was_locked} \subseteq BOOLEAN
  /\ dac \in 0 .. DacMax
  /\ rx \in [Boxes -> HostFrames \cup {NoFrame}]
  /\ tx \in {"none", "periodic", "report", "response"}
  /\ {saved_total, reported_total} \subseteq 0 .. TotalMod - 1
  /\ param_cursor \in 0 .. LastStep /\ log_cursor \in 0 .. 2
  /\ log_fram = NoLog \/ log_fram \in FaultLogType

\* Outside the two calls between the decision and the gate, the output is
\* driven only in an energised state: no request, save or boot step in
\* between leaves it on.
OutputOnlyEnergised == output /\ pc \notin {"trip", "gate"} => Energised

\* Once LOCKOUT was entered the output stays off until the next boot, also
\* after an accepted reset, whatever requests and trips follow.
LockedStaysOff == was_locked /\ pc # "gate" => ~output

\* Each loop begins with the FRAM holding the log in RAM, record for record:
\* trips, host clears, boots from a torn image and wrap-arounds of the total
\* never let the saved total say so wrongly.
LogDurable ==
  pc = "inputs" => log_fram = fault_log /\ saved_total = fault_log.total_count

\* Each loop begins with the parameters in use being those a boot would load,
\* as long as the node answers to the identifier it was built with.
ParamsDurable ==
  pc = "inputs" /\ params["NODE_ID"] = FilterNode =>
    param_fram = param_store /\ LoadedBlock(param_fram) = params

\* The comparator stands for the short threshold and the reference of the
\* parameters in use to within half a step of its DAC, after every boot and
\* write, except while a write is being saved.
ComparatorFollowsThreshold ==
  pc \in LoopStages \ {"set_dac"} =>
    LET step  == params["CMPSS_DAC_REF_MV"] * 10
        error == dac * step - params["SHORT_THRESHOLD_A"] * 6 * DacMax
    IN  -step <= 2 * error /\ 2 * error <= step

\* An overload with sound inputs is always followed by another attempt.
OverloadRetries ==
  state = "FAULT_ACTIVE" /\ active_fault = "OVERLOAD" ~> Energised

\* A record the log holds and the FRAM does not gets there.
RecordsReachFram ==
  fault_log.total_count # saved_total ~> log_fram = fault_log

-----------------------------------------------------------------------------
(* What the documents say and the code does not do.                        *)

\* 10.2: a recovery that failed locks out, and the system is not hit again
\* and again.
RecoveryNotForever == <>[](state # "RECOVER_TRY")

\* 11.4: the fault records can be read after a power failure.  A log that
\* was saved at boot is still readable when the power fails later.
LogSurvivesPowerLoss ==
  [][pc' = "off" /\ pc \in LoopStages => log_fram' # NoLog]_firmwareVars
=============================================================================
