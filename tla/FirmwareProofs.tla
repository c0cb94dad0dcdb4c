-------------------------- MODULE FirmwareProofs --------------------------
(***************************************************************************)
(* Proofs about Firmware for every value of the constants: boot, the main  *)
(* loop, the host's frames, the trip zone and the power supply together    *)
(* keep the types, the status word, the output off outside the energised   *)
(* states and after a lockout, the comparator at its threshold, and the    *)
(* FRAM's log and parameters equal to those in RAM between two loops.  The *)
(* last section takes System's own properties into the loop.               *)
(***************************************************************************)
EXTENDS Firmware, SystemProofs, ParamStoreProofs

BootStages == Stages \ LoopStages

-----------------------------------------------------------------------------
(* Types.                                                                  *)

LEMMA CodeType == ASSUME NEW p \in ParamBlock PROVE DacCode(p) \in 0 .. DacMax
<1> DEFINE ref == p["CMPSS_DAC_REF_MV"]
           n   == p["SHORT_THRESHOLD_A"] * 6 * DacMax + (ref * 10) \div 2
           code == n \div (ref * 10)
<1>1. ref \in Nat /\ p["SHORT_THRESHOLD_A"] \in Nat
  BY DEF ParamBlock, WritableIds
<1>2. CASE ref = 0
  BY <1>2 DEF DacCode, DacMax
<1>3. CASE ref # 0
  <2>1. n \in Nat /\ ref * 10 \in Nat \ {0}
    <3> HIDE DEF ref
    <3>1. (ref * 10) \div 2 \in Nat
      BY <1>1, HalfStep
    <3> QED
      BY <1>1, <1>3, <3>1 DEF DacMax
  <2>2. code \in Nat
    <3> HIDE DEF n, ref
    <3> QED
      BY <2>1, DivisionBounds
  <2>3. DacCode(p) = IF code > DacMax THEN DacMax ELSE code
    BY <1>3 DEF DacCode
  <2> DEFINE top == DacMax
             dacCode == DacCode(p)
  <2>4. top \in Nat
    BY DEF DacMax
  <2> HIDE DEF code, top, dacCode
  <2>5. dacCode = IF code > top THEN top ELSE code
    BY <2>3 DEF top, dacCode
  <2>6. dacCode \in 0 .. top
    BY <2>2, <2>4, <2>5
  <2> QED
    BY <2>6 DEF top, dacCode
<1> QED
  BY <1>2, <1>3

\* Whatever the FRAM holds, boot loads a block of the right type.
LEMMA LoadedBlockType == \A store : LoadedBlock(store) \in ParamBlock
BY BlockAssumption, FirmwareAssumption DEF LoadedBlock, ValidSlot

LEMMA LastStepIsTen == LastStep = 10
BY DEF LastStep, Fields

LEMMA FirmwareInitType == FirmwareInit => FirmwareTypeOK
<1> SUFFICES ASSUME FirmwareInit PROVE FirmwareTypeOK
  OBVIOUS
<1>1. SystemTypeOK
  BY SystemInitType DEF FirmwareInit
<1>2. {fault_clear, output, tz_latched, was_locked} \subseteq BOOLEAN
  BY DEF FirmwareInit
<1>3. pc \in Stages /\ dac \in 0 .. DacMax
  BY DEF FirmwareInit, Stages, DacMax
<1>4. rx \in [Boxes -> HostFrames \cup {NoFrame}] /\ tx \in {"none", "periodic", "report", "response"}
  BY DEF FirmwareInit, EmptyBoxes
<1>5. {saved_total, reported_total} \subseteq 0 .. TotalMod - 1
  BY CapacityAssumption DEF FirmwareInit
<1>6. /\ param_cursor \in 0 .. LastStep /\ log_cursor \in 0 .. 2
      /\ log_fram = NoLog \/ log_fram \in FaultLogType
  BY LastStepIsTen DEF FirmwareInit, ParamStoreInit, LogStoreInit
<1> QED
  BY <1>1, <1>2, <1>3, <1>4, <1>5, <1>6 DEF FirmwareTypeOK

\* The parts of the type invariant, for steps that change only some.
StoreTypes ==
  /\ param_cursor \in 0 .. LastStep /\ log_cursor \in 0 .. 2
  /\ log_fram = NoLog \/ log_fram \in FaultLogType

PlaceTypes ==
  /\ pc \in Stages
  /\ fault_clear \in BOOLEAN /\ output \in BOOLEAN
  /\ tz_latched \in BOOLEAN /\ was_locked \in BOOLEAN
  /\ dac \in 0 .. DacMax

MailTypes ==
  /\ rx \in [Boxes -> HostFrames \cup {NoFrame}]
  /\ tx \in {"none", "periodic", "report", "response"}
  /\ saved_total \in 0 .. TotalMod - 1 /\ reported_total \in 0 .. TotalMod - 1

LEMMA TypeParts ==
  /\ FirmwareTypeOK => SystemTypeOK /\ StoreTypes /\ PlaceTypes /\ MailTypes
  /\ SystemTypeOK' /\ StoreTypes' /\ PlaceTypes' /\ MailTypes' => FirmwareTypeOK'
BY DEF FirmwareTypeOK, StoreTypes, PlaceTypes, MailTypes

LEMMA UnchangedTypes ==
  /\ SystemTypeOK /\ UNCHANGED systemVars => SystemTypeOK'
  /\ StoreTypes /\ UNCHANGED stores => StoreTypes'
<1>1. SystemTypeOK /\ UNCHANGED systemVars => SystemTypeOK'
  BY DEF systemVars, machine, safetyInputs, protection, SystemTypeOK
<1>2. StoreTypes /\ UNCHANGED stores => StoreTypes'
  BY DEF stores, paramStoreVars, logStoreVars, StoreTypes
<1> QED
  BY <1>1, <1>2

LEMMA BootType ==
  ASSUME FirmwareTypeOK, InitDrivers \/ LoadStoredParams \/ LoadStoredLog \/ SelfTest
  PROVE  FirmwareTypeOK'
<1> USE TypeParts
<1>1. CASE InitDrivers
  <2>1. UNCHANGED <<systemVars, stores>>
    BY <1>1 DEF InitDrivers
  <2>2. DacCode(params) \in 0 .. DacMax
    BY CodeType DEF SystemTypeOK
  <2>3. PlaceTypes'
    BY <1>1, <2>2 DEF InitDrivers, PlaceTypes, Stages, history
  <2>4. MailTypes'
    BY <1>1 DEF InitDrivers, MailTypes, mailboxes, counters
  <2> QED
    BY <2>1, <2>3, <2>4, UnchangedTypes
<1>2. CASE LoadStoredParams
  <2>1. params' \in ParamBlock
    BY <1>2, LoadedBlockType DEF LoadStoredParams
  <2>2. SystemTypeOK'
    BY <1>2, <2>1 DEF LoadStoredParams, SystemTypeOK, machine, safetyInputs, protection
  <2>3. StoreTypes'
    BY <1>2, LastStepIsTen DEF LoadStoredParams, LoadParams, StoreTypes, logStoreVars
  <2>4. PlaceTypes' /\ MailTypes'
    BY <1>2 DEF LoadStoredParams, PlaceTypes, MailTypes, Stages, hardware, mailboxes,
                counters, history
  <2> QED
    BY <2>2, <2>3, <2>4
<1>3. CASE LoadStoredLog
  <2>1. EmptyLog \in FaultLogType
    BY CapacityAssumption DEF EmptyLog, FaultLogType, ZeroRecord, FaultRecord, Faults, States
  <2>2. LoadedLog \in FaultLogType
    BY <2>1 DEF LoadedLog, StoreTypes
  <2>3. LoadedLog.total_count \in 0 .. TotalMod - 1
    BY <2>2 DEF FaultLogType
  <2>4. SystemTypeOK'
    BY <1>3, <2>2 DEF LoadStoredLog, SystemTypeOK, machine, safetyInputs, protection
  <2>5. StoreTypes'
    BY <1>3 DEF LoadStoredLog, LoadLog, StoreTypes, paramStoreVars
  <2>6. PlaceTypes' /\ MailTypes'
    BY <1>3, <2>3 DEF LoadStoredLog, PlaceTypes, MailTypes, Stages, hardware, mailboxes, history
  <2> QED
    BY <2>4, <2>5, <2>6
<1>4. CASE SelfTest
  <2>1. SystemTypeOK'
    <3>1. CASE Start
      BY <3>1 DEF Start, SystemTypeOK, States, StatusBits, safetyInputs, protection
    <3>2. CASE /\ state' = "LOCKOUT"
               /\ status_word' = status_word \cup {"SELFTEST_FAIL", "LOCKOUT"}
               /\ UNCHANGED <<active_fault, recover_elapsed_ms, safetyInputs,
                              protection, params, fault_log>>
      BY <3>2 DEF SystemTypeOK, States, StatusBits, safetyInputs, protection
    <3> QED
      BY <1>4, <3>1, <3>2 DEF SelfTest
  <2>2. DacCode(params) \in 0 .. DacMax
    BY CodeType DEF SystemTypeOK
  <2>3. PlaceTypes' /\ MailTypes'
    BY <1>4, <2>2 DEF SelfTest, PlaceTypes, MailTypes, Stages, LoopStages, mailboxes, counters
  <2>4. UNCHANGED stores
    BY <1>4 DEF SelfTest
  <2> QED
    BY <2>1, <2>3, <2>4, UnchangedTypes
<1> QED
  BY <1>1, <1>2, <1>3, <1>4

LEMMA SetInputsType ==
  ASSUME SystemTypeOK, NEW t \in BOOLEAN, NEW d \in BOOLEAN, NEW c \in BOOLEAN,
         SetSafetyInputs(t, d, c)
  PROVE  SystemTypeOK'
BY DEF SetSafetyInputs, SystemTypeOK, machine, protection

LEMMA LoopType ==
  ASSUME FirmwareTypeOK,
         \/ ReadInputs \/ RunTick \/ CheckTrip \/ DriveGate
         \/ SendPeriodicFrames \/ SendNewFaultReport
  PROVE  FirmwareTypeOK'
<1> USE TypeParts
<1>1. CASE ReadInputs
  <2>1. PICK pin \in PinReadings :
          SetSafetyInputs(TRUE, pin.ready, TRUE) /\ fault_clear' = pin.fault_clear
    BY <1>1 DEF ReadInputs
  <2>2. pin.ready \in BOOLEAN /\ pin.fault_clear \in BOOLEAN
    BY FirmwareAssumption
  <2>3. SystemTypeOK'
    BY <2>1, <2>2, SetInputsType
  <2>4. PlaceTypes' /\ MailTypes'
    BY <1>1, <2>1, <2>2 DEF ReadInputs, PlaceTypes, MailTypes, Stages, LoopStages, hardware,
                            mailboxes, counters, history
  <2> QED
    BY <1>1, <2>3, <2>4, UnchangedTypes DEF ReadInputs
<1>2. CASE RunTick \/ CheckTrip
  <2>1. SystemTypeOK'
    BY <1>2, TickType, OnShortTripType, UnchangedTypes DEF RunTick, TickSomething, CheckTrip
  <2>2. was_locked' \in BOOLEAN
    BY <1>2 DEF RunTick, CheckTrip, NoteTrip
  <2>3. PlaceTypes' /\ MailTypes'
    BY <1>2, <2>2 DEF RunTick, CheckTrip, PlaceTypes, MailTypes, Stages, LoopStages, hardware,
                      mailboxes, counters
  <2>4. UNCHANGED stores
    BY <1>2 DEF RunTick, CheckTrip
  <2> QED
    BY <2>1, <2>3, <2>4, UnchangedTypes
<1>3. CASE DriveGate
  <2>1. output' \in BOOLEAN
    BY <1>3 DEF DriveGate, Energised
  <2>2. PlaceTypes' /\ MailTypes'
    BY <1>3, <2>1 DEF DriveGate, PlaceTypes, MailTypes, Stages, LoopStages, mailboxes,
                      counters, history
  <2> QED
    BY <1>3, <2>2, UnchangedTypes DEF DriveGate
<1>4. CASE SendPeriodicFrames \/ SendNewFaultReport
  <2>1. fault_log.total_count \in 0 .. TotalMod - 1
    BY DEF SystemTypeOK, FaultLogType
  <2>2. PlaceTypes' /\ MailTypes'
    BY <1>4, <2>1 DEF SendPeriodicFrames, SendNewFaultReport, PlaceTypes, MailTypes, Stages,
                      LoopStages, hardware, counters, history
  <2>3. UNCHANGED <<systemVars, stores>>
    BY <1>4 DEF SendPeriodicFrames, SendNewFaultReport
  <2> QED
    BY <2>2, <2>3, UnchangedTypes
<1> QED
  BY <1>1, <1>2, <1>3, <1>4

\* The frame sscb_can_driver_receive takes is one a host sent.
LEMMA ReceivedFrame ==
  ASSUME rx \in [Boxes -> HostFrames \cup {NoFrame}], rx # EmptyBoxes
  PROVE  /\ NextBox \in Boxes /\ rx[NextBox] \in HostFrames
         /\ rx[NextBox] \in Frame
<1>1. Boxes = {"PARAM", "TIME", "CONTROL"}
  BY DEF Boxes
<1>2. PICK b \in Boxes : rx[b] # NoFrame
  BY DEF EmptyBoxes
<1>3. NextBox \in Boxes /\ rx[NextBox] # NoFrame
  <2>1. CASE rx["PARAM"] # NoFrame
    BY <1>1, <2>1 DEF NextBox
  <2>2. CASE rx["PARAM"] = NoFrame /\ rx["TIME"] # NoFrame
    BY <1>1, <2>2 DEF NextBox
  <2>3. CASE rx["PARAM"] = NoFrame /\ rx["TIME"] = NoFrame
    <3>1. b = "CONTROL"
      BY <1>1, <1>2, <2>3
    <3> QED
      BY <1>1, <1>2, <2>3, <3>1 DEF NextBox
  <2> QED
    BY <2>1, <2>2, <2>3
<1> QED
  BY <1>3, FirmwareAssumption

LEMMA RequestType == ASSUME FirmwareTypeOK, HandleCanRequest PROVE FirmwareTypeOK'
<1> USE TypeParts
<1>1. CASE rx = EmptyBoxes
  <2>1. UNCHANGED <<systemVars, stores>> /\ pc' = "sync" /\ UNCHANGED <<rx, tx>>
    BY <1>1 DEF HandleCanRequest, Nothing
  <2>2. PlaceTypes' /\ MailTypes'
    BY <2>1 DEF HandleCanRequest, PlaceTypes, MailTypes, Stages, LoopStages, hardware,
                counters, history
  <2> QED
    BY <2>1, <2>2, UnchangedTypes
<1>2. CASE rx # EmptyBoxes
  <2> DEFINE f == rx[NextBox]
  <2>1. NextBox \in Boxes /\ f \in Frame
    BY <1>2, ReceivedFrame DEF MailTypes
  <2>2. /\ rx' = [rx EXCEPT ![NextBox] = NoFrame]
        /\ UNCHANGED <<fault_clear, hardware, counters, history>>
        /\ \/ pc' = "sync" /\ Nothing
           \/ HandleParam(f)
           \/ HandleControl(f)
           \/ Respond /\ pc' = "sync" /\ UNCHANGED <<systemVars, stores>>
    BY <1>2 DEF HandleCanRequest
  <2>3. pc' \in {"sync", "set_dac", "mark_saved"} /\ tx' \in {tx, "response"}
    BY <2>2 DEF Nothing, Respond, HandleParam, HandleControl
  <2>4. rx' \in [Boxes -> HostFrames \cup {NoFrame}]
    BY <2>2 DEF MailTypes
  <2>5. PlaceTypes' /\ MailTypes'
    BY <2>2, <2>3, <2>4 DEF PlaceTypes, MailTypes, Stages, LoopStages, hardware, counters, history
  <2> HIDE DEF f
  <2>6. CASE UNCHANGED <<systemVars, stores>>
    BY <2>5, <2>6, UnchangedTypes
  <2>7. CASE HandleParam(f)
    <3>1. CASE f.op = "write" /\ ParamsSetAccepts(f.id, f.value) /\ f.op # "read"
      <4>1. SetParam(f.id, f.value)
        BY <2>7, <3>1 DEF HandleParam
      <4>2. params' \in ParamBlock
        BY <2>1, <4>1, WritesKeepRanges DEF SetParam, Frame, SystemTypeOK
      <4>3. SystemTypeOK'
        BY <4>1, <4>2 DEF SetParam, SystemTypeOK, machine, safetyInputs, protection
      <4>4. param_cursor' \in {param_cursor, 1} /\ UNCHANGED logStoreVars
        BY <2>7, <3>1 DEF HandleParam, BeginParamSave, paramStoreVars
      <4>5. StoreTypes'
        BY <4>4, LastStepIsTen DEF StoreTypes, logStoreVars
      <4> QED
        BY <2>5, <4>3, <4>5
    <3>2. CASE ~(f.op = "write" /\ ParamsSetAccepts(f.id, f.value) /\ f.op # "read")
      <4>1. UNCHANGED <<systemVars, stores>>
        BY <2>7, <3>2 DEF HandleParam, Nothing
      <4> QED
        BY <2>6, <4>1
    <3> QED
      BY <3>1, <3>2
  <2>8. CASE HandleControl(f) /\ f.op = "reset"
    <3>1. ManualReset \/ UNCHANGED systemVars
      BY <2>8 DEF HandleControl
    <3>2. UNCHANGED stores
      BY <2>8 DEF HandleControl, Nothing
    <3>3. ManualReset => SystemTypeOK'
      BY DEF ManualReset, SystemTypeOK, States, Faults, StatusBits, safetyInputs, protection
    <3> QED
      BY <2>5, <3>1, <3>2, <3>3, UnchangedTypes
  <2>9. CASE HandleControl(f) /\ f.op = "clear"
    <3>1. /\ fault_log' = EmptyLog /\ BeginLogSave
          /\ UNCHANGED <<machine, recover_elapsed_ms, safetyInputs, protection, params,
                         paramStoreVars>>
      BY <2>9 DEF HandleControl
    <3>2. EmptyLog \in FaultLogType
      BY CapacityAssumption DEF EmptyLog, FaultLogType, ZeroRecord, FaultRecord, Faults, States
    <3>3. SystemTypeOK'
      BY <3>1, <3>2 DEF SystemTypeOK, machine, safetyInputs, protection
    <3>4. StoreTypes'
      BY <3>1 DEF BeginLogSave, StoreTypes, paramStoreVars
    <3> QED
      BY <2>5, <3>3, <3>4
  <2>10. CASE HandleControl(f) /\ f.op \notin {"reset", "clear"}
    <3>1. UNCHANGED <<systemVars, stores>>
      BY <2>10 DEF HandleControl, Nothing
    <3> QED
      BY <2>6, <3>1
  <2> QED
    BY <2>2, <2>6, <2>7, <2>8, <2>9, <2>10 DEF Nothing
<1> QED
  BY <1>1, <1>2

LEMMA StorageType ==
  ASSUME FirmwareTypeOK,
         \/ SetDac \/ MarkSaved("mark_saved", "sync") \/ SyncFaultLog
         \/ MarkSaved("mark_synced", "inputs") \/ FramStep
  PROVE  FirmwareTypeOK'
<1> USE TypeParts
<1>1. CASE SetDac
  <2>1. DacCode(params) \in 0 .. DacMax
    BY CodeType DEF SystemTypeOK
  <2>2. PlaceTypes' /\ MailTypes' /\ UNCHANGED <<systemVars, stores>>
    BY <1>1, <2>1 DEF SetDac, PlaceTypes, MailTypes, Stages, LoopStages, mailboxes,
                      counters, history
  <2> QED
    BY <2>2, UnchangedTypes
<1>2. CASE MarkSaved("mark_saved", "sync") \/ MarkSaved("mark_synced", "inputs")
  <2>1. fault_log.total_count \in 0 .. TotalMod - 1
    BY DEF SystemTypeOK, FaultLogType
  <2>2. PlaceTypes' /\ MailTypes' /\ UNCHANGED <<systemVars, stores>>
    BY <1>2, <2>1 DEF MarkSaved, PlaceTypes, MailTypes, Stages, LoopStages, hardware,
                      mailboxes, history
  <2> QED
    BY <2>2, UnchangedTypes
<1>3. CASE SyncFaultLog
  <2>1. StoreTypes'
    BY <1>3 DEF SyncFaultLog, BeginLogSave, StoreTypes, paramStoreVars, logStoreVars
  <2>2. PlaceTypes' /\ MailTypes' /\ UNCHANGED systemVars
    BY <1>3 DEF SyncFaultLog, PlaceTypes, MailTypes, Stages, LoopStages, hardware, mailboxes,
                counters, history
  <2> QED
    BY <2>1, <2>2, UnchangedTypes
<1>4. CASE FramStep
  <2>1. PlaceTypes' /\ MailTypes' /\ UNCHANGED systemVars
    BY <1>4 DEF FramStep, PlaceTypes, MailTypes, hardware, mailboxes, counters, history
  <2>2. CASE ParamWriteStep /\ UNCHANGED logStoreVars
    <3>1. param_cursor' \in 0 .. LastStep
      BY <2>2, LastStepIsTen DEF ParamWriteStep, StoreTypes
    <3> QED
      BY <2>1, <2>2, <3>1, UnchangedTypes DEF StoreTypes, logStoreVars
  <2>3. CASE LogWriteStep(fault_log) /\ UNCHANGED paramStoreVars
    <3>1. fault_log \in FaultLogType
      BY DEF SystemTypeOK
    <3>2. StoreTypes'
      BY <2>3, <3>1 DEF LogWriteStep, StoreTypes, paramStoreVars
    <3> QED
      BY <2>1, <3>2, UnchangedTypes
  <2> QED
    BY <1>4, <2>2, <2>3 DEF FramStep
<1> QED
  BY <1>1, <1>2, <1>3, <1>4

LEMMA EnvironmentType == ASSUME FirmwareTypeOK, Environment PROVE FirmwareTypeOK'
<1> USE TypeParts
<1>1. ASSUME NEW f \in HostFrames, HostSends(f) PROVE FirmwareTypeOK'
  <2>1. f.box \in Boxes
    BY FirmwareAssumption DEF Frame
  <2>2. PlaceTypes' /\ MailTypes' /\ UNCHANGED <<systemVars, stores>>
    BY <1>1, <2>1 DEF HostSends, PlaceTypes, MailTypes, hardware, counters, history
  <2> QED
    BY <2>2, UnchangedTypes
<1>2. CASE BusTransmits \/ ComparatorTrips
  <2>1. PlaceTypes' /\ MailTypes' /\ UNCHANGED <<systemVars, stores>>
    BY <1>2 DEF BusTransmits, ComparatorTrips, PlaceTypes, MailTypes, hardware, mailboxes,
                counters, history
  <2> QED
    BY <2>1, UnchangedTypes
<1>3. CASE PowerLoss
  <2>1. EmptyLog \in FaultLogType
    BY CapacityAssumption DEF EmptyLog, FaultLogType, ZeroRecord, FaultRecord, Faults, States
  <2>2. ParamDefaults \in ParamBlock
    BY ParamDefaultsAssumption DEF ParamBlock
  <2>3. 0 \in 0 .. U16 - 1 /\ 0 \in 0 .. U32 - 1 /\ 0 \in 0 .. TotalMod - 1
    BY WordAssumption, CapacityAssumption
  <2>4. SystemTypeOK'
    BY <1>3, <2>1, <2>2, <2>3 DEF PowerLoss, SystemTypeOK, States, Faults, StatusBits
  <2>5. StoreTypes'
    BY <1>3, LastStepIsTen DEF PowerLoss, ParamPowerLoss, LogPowerLoss, StoreTypes
  <2>6. dac' \in 0 .. DacMax
    BY <1>3, SMT DEF PowerLoss, DacMax
  <2>7. PlaceTypes'
    BY <1>3, <2>6 DEF PowerLoss, PlaceTypes, Stages
  <2>8. MailTypes'
    BY <1>3, <2>3 DEF PowerLoss, MailTypes, EmptyBoxes
  <2> QED
    BY <2>4, <2>5, <2>7, <2>8
<1> QED
  BY <1>1, <1>2, <1>3 DEF Environment

LEMMA StutterType == ASSUME FirmwareTypeOK, UNCHANGED firmwareVars PROVE FirmwareTypeOK'
<1> USE TypeParts
<1>1. UNCHANGED <<systemVars, stores>>
  BY DEF firmwareVars
<1>2. PlaceTypes' /\ MailTypes'
  BY DEF firmwareVars, PlaceTypes, MailTypes, hardware, mailboxes, counters, history
<1> QED
  BY <1>1, <1>2, UnchangedTypes

LEMMA StepTypes ==
  ASSUME FirmwareTypeOK, [FirmwareNext]_firmwareVars
  PROVE  FirmwareTypeOK'
BY BootType, LoopType, RequestType, StorageType, EnvironmentType, StutterType
   DEF FirmwareNext, FirmwareStep

\* The whole firmware keeps its types: every frame a host can send, every
\* image the FRAM can hold and every moment the power can fail leave the
\* parameters in their ranges, the log a log and the comparator code in 12 bits.
THEOREM FirmwareTyped == FirmwareSpec => []FirmwareTypeOK
<1>1. FirmwareInit => FirmwareTypeOK
  BY FirmwareInitType
<1>2. FirmwareTypeOK /\ [FirmwareNext]_firmwareVars => FirmwareTypeOK'
  BY StepTypes
<1> QED
  BY <1>1, <1>2, PTL DEF FirmwareSpec

-----------------------------------------------------------------------------
(* The output.                                                             *)

\* Inductive: until the machine is started nothing has happened, the output
\* follows the state where it is decided, and a lockout leaves only READY.
OutputAgrees ==
  /\ pc \in BootStages => state = "READY" /\ ~output /\ ~was_locked
  /\ OutputOnlyEnergised
  /\ was_locked => state \in {"READY", "LOCKOUT"}
  /\ LockedStaysOff

\* A tick locks out only a machine whose output is off already, and it never
\* moves one that is locked out or was reset.
LEMMA TickLocks ==
  ASSUME TickSomething
  PROVE  /\ state' = "LOCKOUT" => state \in {"LOCKOUT", "RECOVER_TRY"}
         /\ state \in {"READY", "LOCKOUT"} => state' = state
<1> PICK rms \in RmsValues, m \in Measurements : Tick(rms, m)
  BY DEF TickSomething
<1>1. CASE ProtectionTick(rms, m)
  <2>1. state' \in {state, "WARN", "RUN", "FAULT_ACTIVE"} /\ Energised
    BY <1>1 DEF ProtectionTick, EnterWarn, EnterFault, LeaveWarn, StayEnergised, machine
  <2> QED
    BY <2>1 DEF Energised
<1>2. CASE BeginRecovery \/ RecoverWait \/ RecoverTry
  BY <1>2 DEF BeginRecovery, RecoverWait, RecoverTry
<1>3. CASE TickIdle
  BY <1>3 DEF TickIdle, systemVars, machine
<1> QED
  BY <1>1, <1>2, <1>3 DEF Tick

LEMMA BootOutput ==
  ASSUME OutputAgrees, InitDrivers \/ LoadStoredParams \/ LoadStoredLog \/ SelfTest
  PROVE  OutputAgrees'
<1>1. CASE InitDrivers \/ LoadStoredParams \/ LoadStoredLog
  <2>1. /\ pc \in BootStages /\ pc' \in BootStages
        /\ UNCHANGED <<state, output, was_locked>>
    BY <1>1 DEF InitDrivers, LoadStoredParams, LoadStoredLog, BootStages, Stages, LoopStages,
                systemVars, machine, history, hardware
  <2> QED
    BY <2>1 DEF OutputAgrees, OutputOnlyEnergised, LockedStaysOff
<1>2. CASE SelfTest
  <2>1. pc \in BootStages /\ pc' \notin BootStages
    BY <1>2 DEF SelfTest, BootStages, Stages, LoopStages
  <2>2. ~output' /\ (was_locked' => state' = "LOCKOUT")
    BY <1>2, <2>1 DEF SelfTest, OutputAgrees
  <2> QED
    BY <2>1, <2>2 DEF OutputAgrees, OutputOnlyEnergised, LockedStaysOff
<1> QED
  BY <1>1, <1>2

LEMMA DecisionOutput ==
  ASSUME OutputAgrees, RunTick \/ CheckTrip \/ DriveGate
  PROVE  OutputAgrees'
<1>1. pc \notin {"trip", "gate"} /\ pc # "frames" => (output => Energised)
  BY DEF OutputAgrees, OutputOnlyEnergised
<1>2. CASE RunTick
  <2>1. /\ pc = "tick" /\ pc' = "trip" /\ UNCHANGED output /\ TickSomething
        /\ was_locked' = (was_locked \/ state' = "LOCKOUT")
    BY <1>2 DEF RunTick, NoteTrip, hardware
  <2>2. state \in {"LOCKOUT", "RECOVER_TRY"} => ~output
    BY <1>1, <2>1 DEF Energised
  <2>3. was_locked' => state' \in {"READY", "LOCKOUT"} /\ ~output'
    BY <2>1, <2>2, TickLocks DEF OutputAgrees, LockedStaysOff
  <2> QED
    BY <2>1, <2>3 DEF OutputAgrees, OutputOnlyEnergised, LockedStaysOff, BootStages, LoopStages
<1>3. CASE CheckTrip
  <2>1. /\ pc' = "gate" /\ was_locked' = (was_locked \/ state' = "LOCKOUT")
        /\ state' \in {state, "LOCKOUT"}
    BY <1>3 DEF CheckTrip, NoteTrip, OnShortTrip, systemVars, machine
  <2> QED
    BY <2>1 DEF OutputAgrees, OutputOnlyEnergised, LockedStaysOff, BootStages, LoopStages
<1>4. CASE DriveGate
  <2>1. /\ pc' = "frames" /\ UNCHANGED <<state, was_locked>>
        /\ output' => state \in {"RUN", "WARN"}
    BY <1>4 DEF DriveGate, Energised, systemVars, machine, history
  <2> QED
    BY <2>1 DEF OutputAgrees, OutputOnlyEnergised, LockedStaysOff, BootStages, LoopStages,
                Energised
<1> QED
  BY <1>2, <1>3, <1>4

\* Everything the loop does between the gate and the next tick, and the
\* hardware apart from the power supply, leaves the output alone; of these
\* only an accepted reset moves the machine.
LEMMA OtherOutput ==
  ASSUME OutputAgrees,
         \/ ReadInputs \/ SendPeriodicFrames \/ SendNewFaultReport \/ HandleCanRequest
         \/ SetDac \/ MarkSaved("mark_saved", "sync") \/ SyncFaultLog
         \/ MarkSaved("mark_synced", "inputs") \/ FramStep
         \/ (\E f \in HostFrames : HostSends(f)) \/ BusTransmits \/ ComparatorTrips
         \/ UNCHANGED firmwareVars
  PROVE  OutputAgrees'
<1>1. \/ UNCHANGED pc
      \/ /\ pc \in LoopStages \ {"trip", "gate", "tick"}
         /\ pc' \in LoopStages \ {"trip", "gate"}
  BY DEF ReadInputs, SendPeriodicFrames, SendNewFaultReport, HandleCanRequest, SetDac, MarkSaved,
         SyncFaultLog, FramStep, HostSends, BusTransmits, ComparatorTrips, firmwareVars,
         LoopStages, HandleParam, HandleControl
<1>2. UNCHANGED <<output, was_locked>>
  BY DEF ReadInputs, SendPeriodicFrames, SendNewFaultReport, HandleCanRequest, SetDac, MarkSaved,
         SyncFaultLog, FramStep, HostSends, BusTransmits, ComparatorTrips, firmwareVars,
         hardware, history
<1>3. UNCHANGED state \/ (state = "LOCKOUT" /\ state' = "READY" /\ HandleCanRequest)
  BY DEF ReadInputs, SendPeriodicFrames, SendNewFaultReport, HandleCanRequest, SetDac, MarkSaved,
         SyncFaultLog, FramStep, HostSends, BusTransmits, ComparatorTrips, firmwareVars,
         systemVars, machine, HandleParam, HandleControl, SetParam, SetSafetyInputs,
         ManualReset, ManualResetAccepts, Nothing
<1>4. HandleCanRequest => pc = "request"
  BY DEF HandleCanRequest
<1> QED
  BY <1>1, <1>2, <1>3, <1>4
     DEF OutputAgrees, OutputOnlyEnergised, LockedStaysOff, Energised, BootStages, LoopStages

LEMMA OutputStep ==
  ASSUME OutputAgrees, [FirmwareNext]_firmwareVars
  PROVE  OutputAgrees'
<1>1. CASE PowerLoss
  BY <1>1 DEF PowerLoss, OutputAgrees, OutputOnlyEnergised, LockedStaysOff
<1> QED
  BY <1>1, BootOutput, DecisionOutput, OtherOutput DEF FirmwareNext, FirmwareStep, Environment

LEMMA OutputAlways == FirmwareSpec => []OutputAgrees
<1>1. FirmwareInit => OutputAgrees
  BY DEF FirmwareInit, SystemInit, OutputAgrees, OutputOnlyEnergised, LockedStaysOff
<1>2. OutputAgrees /\ [FirmwareNext]_firmwareVars => OutputAgrees'
  BY OutputStep
<1> QED
  BY <1>1, <1>2, PTL DEF FirmwareSpec

\* Between the gate and the next decision the output is on only in RUN and
\* WARN, whatever boots, requests, saves and power failures come in between.
THEOREM OutputFollowsState == FirmwareSpec => []OutputOnlyEnergised
BY OutputAlways, PTL DEF OutputAgrees

\* After a lockout the output stays off until the next boot, also after a
\* reset the machine accepted.
THEOREM LockoutHolds == FirmwareSpec => []LockedStaysOff
BY OutputAlways, PTL DEF OutputAgrees

-----------------------------------------------------------------------------
(* The comparator.                                                         *)

\* Inductive: the code in the DAC is the one of the parameters in use.
DacAgrees == pc \in LoopStages \ {"set_dac"} => dac = DacCode(params)

\* Outside a request, whatever changes the parameters or the code leaves the
\* loop, except the steps that set the code.
LEMMA DacKept ==
  ASSUME DacAgrees,
         \/ InitDrivers \/ LoadStoredParams \/ LoadStoredLog \/ SelfTest
         \/ ReadInputs \/ RunTick \/ CheckTrip \/ DriveGate
         \/ SendPeriodicFrames \/ SendNewFaultReport \/ SetDac
         \/ MarkSaved("mark_saved", "sync") \/ SyncFaultLog
         \/ MarkSaved("mark_synced", "inputs") \/ FramStep
         \/ Environment \/ UNCHANGED firmwareVars
  PROVE  DacAgrees'
<1>1. CASE InitDrivers \/ LoadStoredParams \/ LoadStoredLog \/ PowerLoss
  BY <1>1 DEF InitDrivers, LoadStoredParams, LoadStoredLog, PowerLoss, DacAgrees, LoopStages
<1>2. CASE SelfTest \/ SetDac
  BY <1>2 DEF SelfTest, SetDac, Start, DacAgrees, systemVars
<1>3. CASE RunTick \/ CheckTrip
  <2>1. UNCHANGED <<params, dac>> /\ pc \in LoopStages \ {"set_dac"}
    BY <1>3 DEF RunTick, CheckTrip, TickSomething, Tick, ProtectionTick, BeginRecovery,
                RecoverWait, RecoverTry, TickIdle, OnShortTrip, systemVars, hardware, LoopStages
  <2> QED
    BY <2>1 DEF DacAgrees
<1>4. CASE \/ ReadInputs \/ DriveGate \/ SendPeriodicFrames \/ SendNewFaultReport
           \/ MarkSaved("mark_saved", "sync") \/ SyncFaultLog
           \/ MarkSaved("mark_synced", "inputs") \/ FramStep
           \/ (\E f \in HostFrames : HostSends(f)) \/ BusTransmits \/ ComparatorTrips
           \/ UNCHANGED firmwareVars
  <2>1. UNCHANGED <<params, dac>>
    BY <1>4 DEF ReadInputs, DriveGate, SendPeriodicFrames, SendNewFaultReport, MarkSaved,
                SyncFaultLog, FramStep, HostSends, BusTransmits, ComparatorTrips, firmwareVars,
                SetSafetyInputs, systemVars, hardware
  <2>2. UNCHANGED pc \/ pc \in LoopStages \ {"set_dac"}
    BY <1>4 DEF ReadInputs, DriveGate, SendPeriodicFrames, SendNewFaultReport, MarkSaved,
                SyncFaultLog, FramStep, HostSends, BusTransmits, ComparatorTrips, firmwareVars,
                LoopStages
  <2> QED
    BY <2>1, <2>2 DEF DacAgrees
<1> QED
  BY <1>1, <1>2, <1>3, <1>4 DEF Environment

\* A write that is not followed by sscb_cmpss_driver_set_dac is the one that
\* renames the node, and the code does not depend on the name.
LEMMA DacRequest ==
  ASSUME FirmwareTypeOK, DacAgrees, HandleCanRequest
  PROVE  DacAgrees'
<1> DEFINE f == rx[NextBox]
<1>1. pc = "request" /\ dac = DacCode(params) /\ UNCHANGED dac
  BY DEF HandleCanRequest, DacAgrees, LoopStages, hardware
<1>2. CASE UNCHANGED params
  BY <1>1, <1>2 DEF DacAgrees
<1>3. CASE HandleParam(f) /\ params["NODE_ID"] = FilterNode
  <2> HIDE DEF f
  <2>1. CASE params'["NODE_ID"] = FilterNode
    <3>1. UNCHANGED params \/ pc' = "set_dac"
      BY <1>3, <2>1 DEF HandleParam, SetParam, Nothing, systemVars
    <3> QED
      BY <1>2, <3>1 DEF DacAgrees
  <2>2. CASE params'["NODE_ID"] # FilterNode
    <3>1. \/ UNCHANGED params
          \/ params' = [params EXCEPT ![f.id] = f.value]
      BY <1>3 DEF HandleParam, SetParam, ParamsSet, Nothing, systemVars
    <3>2. params \in [WritableIds -> Nat]
      BY DEF FirmwareTypeOK, SystemTypeOK, ParamBlock
    <3>3. CASE params' = [params EXCEPT ![f.id] = f.value]
      <4>1. f.id = "NODE_ID"
        BY <1>3, <2>2, <3>2, <3>3
      <4>2. /\ params'["CMPSS_DAC_REF_MV"] = params["CMPSS_DAC_REF_MV"]
            /\ params'["SHORT_THRESHOLD_A"] = params["SHORT_THRESHOLD_A"]
        BY <3>2, <3>3, <4>1 DEF WritableIds
      <4>3. DacCode(params') = DacCode(params)
        BY <4>2 DEF DacCode
      <4> QED
        BY <1>1, <4>3 DEF DacAgrees
    <3> QED
      BY <1>2, <3>1, <3>3
  <2> QED
    BY <2>1, <2>2
<1>4. CASE ~(HandleParam(f) /\ params["NODE_ID"] = FilterNode)
  <2>1. UNCHANGED params
    BY <1>4 DEF HandleCanRequest, HandleControl, ManualReset, Nothing, systemVars
  <2> QED
    BY <1>2, <2>1
<1> QED
  BY <1>3, <1>4

LEMMA DacAlways == FirmwareSpec => []DacAgrees
<1>1. FirmwareInit => DacAgrees
  BY DEF FirmwareInit, DacAgrees, LoopStages
<1>2. FirmwareTypeOK /\ DacAgrees /\ [FirmwareNext]_firmwareVars => DacAgrees'
  BY DacKept, DacRequest DEF FirmwareNext, FirmwareStep
<1> QED
  BY <1>1, <1>2, FirmwareTyped, PTL DEF FirmwareSpec

\* With the source's ranges the comparator stands for the threshold in use to
\* within half a step of its DAC, whichever writes, boots and saves came before.
THEOREM ComparatorFollows ==
  ASSUME ParamRange = SourceRange
  PROVE  FirmwareSpec => []ComparatorFollowsThreshold
<1>1. FirmwareTypeOK /\ DacAgrees => ComparatorFollowsThreshold
  BY ThresholdRounded DEF FirmwareTypeOK, SystemTypeOK, DacAgrees, ComparatorFollowsThreshold
<1> QED
  BY <1>1, FirmwareTyped, DacAlways, PTL

-----------------------------------------------------------------------------
(* The fault log and its image.                                            *)

Synced == log_fram = fault_log /\ saved_total = fault_log.total_count

\* n records were appended since the log was last saved.
Behind(n) ==
  fault_log.total_count \in {saved_total + n, saved_total + n - TotalMod}

\* Inductive: between two saves a loop appends at most two records, one in
\* the tick and one for a trip, and a write ends with the image of the log.
LogAgrees ==
  /\ log_cursor # 0 => pc \in {"selftest", "mark_saved", "mark_synced"}
  /\ pc \in {"selftest", "mark_saved", "mark_synced"} /\ log_cursor = 0 => log_fram = fault_log
  /\ pc = "selftest" => saved_total = fault_log.total_count
  /\ pc \in {"inputs", "tick"} => Synced
  /\ pc = "trip" => Synced \/ Behind(1)
  /\ pc \in {"gate", "frames", "report", "request", "set_dac", "sync"} =>
       Synced \/ Behind(1) \/ Behind(2)

LEMMA NextTotal ==
  ASSUME NEW t \in 0 .. TotalMod - 1
  PROVE  (t + 1) % TotalMod \in {t + 1, t + 1 - TotalMod}
<1>1. TotalMod \in Nat \ {0}
  BY CapacityAssumption
<1>2. CASE t + 1 < TotalMod
  BY <1>1, <1>2, SMT
<1>3. CASE t + 1 = TotalMod
  BY <1>1, <1>3, SMT
<1> QED
  BY <1>1, <1>2, <1>3

\* A tick and a trip each append at most one record.
LEMMA AppendsOne ==
  ASSUME SystemTypeOK, TickSomething \/ OnShortTrip \/ UNCHANGED systemVars
  PROVE  \/ UNCHANGED fault_log
         \/ fault_log'.total_count \in
              {fault_log.total_count + 1, fault_log.total_count + 1 - TotalMod}
<1>1. \/ UNCHANGED fault_log
      \/ \E rec : fault_log' = LogAppend(fault_log, rec)
  <2>1. CASE OnShortTrip \/ UNCHANGED systemVars
    BY <2>1 DEF OnShortTrip, AppendFault, systemVars
  <2>2. CASE TickSomething
    <3>1. PICK rms \in RmsValues, m \in Measurements : Tick(rms, m)
      BY <2>2 DEF TickSomething
    <3>2. CASE ProtectionTick(rms, m)
      BY <3>2 DEF ProtectionTick, EnterWarn, EnterFault, LeaveWarn, StayEnergised, AppendFault
    <3>3. CASE BeginRecovery \/ RecoverWait \/ RecoverTry \/ TickIdle
      BY <3>3 DEF BeginRecovery, RecoverWait, RecoverTry, TickIdle, systemVars
    <3> QED
      BY <3>1, <3>2, <3>3 DEF Tick
  <2> QED
    BY <2>1, <2>2
<1>2. fault_log.total_count \in 0 .. TotalMod - 1
  BY DEF SystemTypeOK, FaultLogType
<1>3. ASSUME NEW rec, fault_log' = LogAppend(fault_log, rec)
      PROVE  fault_log'.total_count = (fault_log.total_count + 1) % TotalMod
  BY <1>3 DEF LogAppend
<1> QED
  BY <1>1, <1>2, <1>3, NextTotal

LEMMA BootLog ==
  ASSUME FirmwareTypeOK, LogAgrees,
         InitDrivers \/ LoadStoredParams \/ LoadStoredLog \/ SelfTest \/ PowerLoss
  PROVE  LogAgrees'
<1>1. CASE InitDrivers \/ LoadStoredParams
  BY <1>1 DEF InitDrivers, LoadStoredParams, LogAgrees, stores, logStoreVars
<1>2. CASE LoadStoredLog
  BY <1>2 DEF LoadStoredLog, LoadLog, LoadedLog, LogAgrees
<1>3. CASE SelfTest
  <2>1. UNCHANGED <<fault_log, log_fram, log_cursor, saved_total>>
    BY <1>3 DEF SelfTest, Start, stores, logStoreVars, counters
  <2> QED
    BY <1>3, <2>1 DEF SelfTest, Returned, LogAgrees, Synced
<1>4. CASE PowerLoss
  BY <1>4 DEF PowerLoss, LogPowerLoss, LogAgrees
<1> QED
  BY <1>1, <1>2, <1>3, <1>4

LEMMA TripLog ==
  ASSUME FirmwareTypeOK, LogAgrees, RunTick \/ CheckTrip
  PROVE  LogAgrees'
<1>1. /\ fault_log.total_count \in 0 .. TotalMod - 1
      /\ saved_total \in 0 .. TotalMod - 1 /\ TotalMod \in Nat
  BY CapacityAssumption DEF FirmwareTypeOK, SystemTypeOK, FaultLogType
<1>2. UNCHANGED <<saved_total, log_fram, log_cursor>>
  BY DEF RunTick, CheckTrip, counters, stores, logStoreVars
<1>3. fault_log'.total_count \in 0 .. TotalMod - 1
  BY StepTypes DEF FirmwareNext, FirmwareStep, FirmwareTypeOK, SystemTypeOK, FaultLogType
<1>4. \/ UNCHANGED fault_log
      \/ fault_log'.total_count \in
           {fault_log.total_count + 1, fault_log.total_count + 1 - TotalMod}
  BY AppendsOne DEF RunTick, CheckTrip, FirmwareTypeOK
<1>5. CASE RunTick
  <2>1. Synced /\ log_cursor = 0
    BY <1>5 DEF RunTick, LogAgrees
  <2>2. Synced' \/ Behind(1)'
    BY <1>2, <1>4, <2>1 DEF Synced, Behind
  <2> QED
    BY <1>2, <1>5, <2>1, <2>2 DEF RunTick, LogAgrees
<1>6. CASE CheckTrip
  <2>1. (Synced \/ Behind(1)) /\ log_cursor = 0
    BY <1>6 DEF CheckTrip, LogAgrees
  <2>2. Synced' \/ Behind(1)' \/ Behind(2)'
    BY <1>1, <1>2, <1>3, <1>4, <2>1 DEF Synced, Behind
  <2> QED
    BY <1>2, <1>6, <2>1, <2>2 DEF CheckTrip, LogAgrees
<1> QED
  BY <1>5, <1>6

LEMMA RequestLog ==
  ASSUME LogAgrees, HandleCanRequest
  PROVE  LogAgrees'
<1>1. pc = "request" /\ log_cursor = 0 /\ UNCHANGED saved_total
  BY DEF HandleCanRequest, LogAgrees, counters
<1>2. \/ pc' = "mark_saved" /\ log_cursor' = 1
      \/ pc' \in {"sync", "set_dac"} /\ UNCHANGED <<fault_log, logStoreVars>>
  BY DEF HandleCanRequest, HandleParam, HandleControl, SetParam, ManualReset, BeginLogSave,
         Nothing, systemVars, stores
<1> QED
  BY <1>1, <1>2 DEF LogAgrees, Synced, Behind, logStoreVars

\* No record is missed: a total that is one or two ahead of the saved one,
\* modulo 2^32, is different from it.
LEMMA SaveLog ==
  ASSUME TotalMod > 2, FirmwareTypeOK, LogAgrees,
         \/ MarkSaved("mark_saved", "sync") \/ SyncFaultLog
         \/ MarkSaved("mark_synced", "inputs") \/ FramStep
  PROVE  LogAgrees'
<1>1. CASE MarkSaved("mark_saved", "sync") \/ MarkSaved("mark_synced", "inputs")
  BY <1>1 DEF MarkSaved, Returned, LogAgrees, Synced, systemVars, stores, logStoreVars
<1>2. CASE SyncFaultLog
  <2>1. /\ fault_log.total_count \in 0 .. TotalMod - 1
        /\ saved_total \in 0 .. TotalMod - 1 /\ TotalMod \in Nat
    BY CapacityAssumption DEF FirmwareTypeOK, SystemTypeOK, FaultLogType
  <2>2. fault_log.total_count = saved_total => Synced
    BY <1>2, <2>1 DEF SyncFaultLog, LogAgrees, Behind
  <2> QED
    BY <1>2, <2>2 DEF SyncFaultLog, BeginLogSave, LogAgrees, Synced, systemVars, counters,
                      logStoreVars
<1>3. CASE FramStep
  <2>1. UNCHANGED <<pc, fault_log, saved_total>>
    BY <1>3 DEF FramStep, systemVars, counters
  <2>2. CASE UNCHANGED logStoreVars
    BY <2>1, <2>2 DEF LogAgrees, Synced, Behind, logStoreVars
  <2>3. CASE LogWriteStep(fault_log)
    BY <2>1, <2>3 DEF LogWriteStep, LogAgrees
  <2> QED
    BY <1>3, <2>2, <2>3 DEF FramStep
<1> QED
  BY <1>1, <1>2, <1>3

LEMMA OtherLog ==
  ASSUME LogAgrees,
         \/ ReadInputs \/ DriveGate \/ SendPeriodicFrames \/ SendNewFaultReport \/ SetDac
         \/ (\E f \in HostFrames : HostSends(f)) \/ BusTransmits \/ ComparatorTrips
         \/ UNCHANGED firmwareVars
  PROVE  LogAgrees'
<1>1. UNCHANGED <<fault_log, log_fram, log_cursor, saved_total>>
  BY DEF ReadInputs, DriveGate, SendPeriodicFrames, SendNewFaultReport, SetDac, HostSends,
         BusTransmits, ComparatorTrips, firmwareVars, SetSafetyInputs, systemVars, stores,
         logStoreVars, counters
<1>2. \/ UNCHANGED pc
      \/ pc = "inputs" /\ pc' = "tick"
      \/ /\ pc \in {"gate", "frames", "report", "set_dac"}
         /\ pc' \in {"frames", "report", "request", "sync"}
  BY DEF ReadInputs, DriveGate, SendPeriodicFrames, SendNewFaultReport, SetDac, HostSends,
         BusTransmits, ComparatorTrips, firmwareVars
<1> QED
  BY <1>1, <1>2 DEF LogAgrees, Synced, Behind

\* Each loop begins with the FRAM holding the log in RAM, record for record.
THEOREM LogIsDurable ==
  ASSUME TotalMod > 2
  PROVE  FirmwareSpec => []LogDurable
<1>1. FirmwareInit => LogAgrees
  BY DEF FirmwareInit, LogStoreInit, LogAgrees
<1>2. FirmwareTypeOK /\ LogAgrees /\ [FirmwareNext]_firmwareVars => LogAgrees'
  BY BootLog, TripLog, RequestLog, SaveLog, OtherLog
     DEF FirmwareNext, FirmwareStep, Environment
<1>3. LogAgrees => LogDurable
  BY DEF LogAgrees, LogDurable, Synced
<1> QED
  BY <1>1, <1>2, <1>3, FirmwareTyped, PTL DEF FirmwareSpec

-----------------------------------------------------------------------------
(* The parameters and their image.                                         *)

\* Before LoadStoredParams the RAM copy means nothing.
Unloaded == {"off", "halted", "load_params"}

\* RAM and FRAM are alike, or one slot is on its way; and the RAM copy holds
\* the parameters in use, until a write renames the node.
StoreInUse ==
  /\ Begun(param_store)
  /\ IF param_cursor = 0 THEN param_fram = param_store
                         ELSE \E t \in SlotIds : RewritingSlot(t)
  /\ params["NODE_ID"] = FilterNode => LoadedBlock(param_store) = params

\* Inductive: only the first boot and an answered write begin a save, and the
\* call that waits for it is the only one reached meanwhile.
ParamsAgree ==
  /\ param_store \in Store /\ param_fram \in Store /\ params \in Blocks
  /\ Begun(param_fram)
  /\ param_cursor # 0 => pc \in {"load_log", "set_dac"}
  /\ pc \notin Unloaded => StoreInUse

LEMMA ParamsInit == FirmwareInit => ParamsAgree
BY BlankStoreFacts, BlockAssumption, FirmwareAssumption
   DEF FirmwareInit, SystemInit, ParamStoreInit, ParamsAgree, Unloaded

LEMMA ParamsBoot ==
  ASSUME ParamsAgree, InitDrivers \/ LoadStoredParams \/ PowerLoss
  PROVE  ParamsAgree'
<1>1. CASE InitDrivers
  <2>1. UNCHANGED <<params, paramStoreVars>> /\ pc = "off" /\ pc' \in Unloaded
    BY <1>1 DEF InitDrivers, Unloaded, systemVars, stores
  <2> QED
    BY <2>1 DEF ParamsAgree, paramStoreVars, Begun
<1>2. CASE PowerLoss
  <2>1. /\ params' = DefaultBlock /\ pc' \in Unloaded
        /\ param_store' = BlankStore /\ param_cursor' = 0 /\ param_fram' = param_fram
    BY <1>2, FirmwareAssumption DEF PowerLoss, ParamPowerLoss, Unloaded
  <2> QED
    BY <2>1, BlankStoreFacts, BlockAssumption DEF ParamsAgree
<1>3. CASE LoadStoredParams
  <2>1. /\ param_fram \in Store /\ Begun(param_fram) /\ param_fram' = param_fram
        /\ params' = LoadedBlock(param_fram) /\ params' \in Blocks /\ pc' = "load_log"
    BY <1>3, LoadedBlockFacts DEF LoadStoredParams, LoadParams, ParamsAgree
  <2>2. CASE SomeValid(param_fram)
    <3>1. param_store' = param_fram /\ param_cursor' = 0
      BY <1>3, <2>2 DEF LoadStoredParams, LoadParams
    <3> QED
      BY <2>1, <3>1 DEF ParamsAgree, StoreInUse
  <2>3. CASE ~SomeValid(param_fram)
    <3>1. param_store' = SavedStore(param_fram, DefaultBlock) /\ param_cursor' = 1
      BY <1>3, <2>3 DEF LoadStoredParams, LoadParams
    <3>2. /\ param_store' \in Store /\ Begun(param_store')
          /\ LoadedBlock(param_store') = DefaultBlock
          /\ \E t \in SlotIds : RewritingSlot(t)'
      BY <2>1, <3>1, BlockAssumption, SaveBegins
    <3>3. params' = DefaultBlock
      BY <2>1, <2>3, LoadedBlockFacts
    <3> QED
      BY <2>1, <3>1, <3>2, <3>3 DEF ParamsAgree, StoreInUse
  <2> QED
    BY <2>2, <2>3
<1> QED
  BY <1>1, <1>2, <1>3

\* A write that is answered is saved, unless it renamed the node; after that
\* no further write is answered.
LEMMA ParamsRequest ==
  ASSUME FirmwareTypeOK, ParamsAgree, HandleCanRequest
  PROVE  ParamsAgree'
<1> DEFINE f == rx[NextBox]
<1>1. /\ pc = "request" /\ pc' \in {"sync", "set_dac", "mark_saved"}
      /\ param_cursor = 0 /\ StoreInUse
  BY DEF HandleCanRequest, HandleParam, HandleControl, Nothing, ParamsAgree, Unloaded
<1>2. CASE UNCHANGED <<params, paramStoreVars>>
  BY <1>1, <1>2 DEF ParamsAgree, StoreInUse, Begun, paramStoreVars
<1>3. CASE /\ rx # EmptyBoxes /\ HandleParam(f)
           /\ f.op = "write" /\ ParamsSetAccepts(f.id, f.value)
  <2>1. f \in HostFrames
    BY <1>3, ReceivedFrame DEF FirmwareTypeOK
  <2> HIDE DEF f
  <2>2. params' = ParamsSet(params, f.id, f.value)
    BY <1>3 DEF HandleParam, SetParam
  <2>3. params' \in Blocks
    BY <2>1, <2>2, FirmwareAssumption DEF ParamsAgree
  <2>4. CASE params'["NODE_ID"] = FilterNode
    <3>1. /\ param_store' = SavedStore(param_store, params') /\ param_cursor' = 1
          /\ UNCHANGED param_fram /\ pc' = "set_dac"
      BY <1>3, <2>4 DEF HandleParam, BeginParamSave
    <3>2. param_fram = param_store /\ param_fram \in Store /\ Begun(param_fram)
      BY <1>1 DEF ParamsAgree, StoreInUse
    <3>3. param_store' = SavedStore(param_fram, params')
      BY <3>1, <3>2
    <3>4. /\ param_store' \in Store /\ Begun(param_store')
          /\ LoadedBlock(param_store') = params'
          /\ \E t \in SlotIds : RewritingSlot(t)'
      BY <2>3, <3>1, <3>2, <3>3, SaveBegins
    <3> QED
      BY <2>3, <3>1, <3>2, <3>4 DEF ParamsAgree, StoreInUse
  <2>5. CASE params'["NODE_ID"] # FilterNode
    <3>1. UNCHANGED paramStoreVars
      BY <1>3, <2>5 DEF HandleParam
    <3> QED
      BY <1>1, <2>3, <2>5, <3>1 DEF ParamsAgree, StoreInUse, Begun, paramStoreVars
  <2> QED
    BY <2>4, <2>5
<1> QED
  <2>1. \/ UNCHANGED <<params, paramStoreVars>>
        \/ /\ rx # EmptyBoxes /\ HandleParam(f)
           /\ f.op = "write" /\ ParamsSetAccepts(f.id, f.value)
    BY DEF HandleCanRequest, HandleParam, HandleControl, ManualReset, Nothing, systemVars, stores
  <2> QED
    BY <1>2, <1>3, <2>1

\* The call that waits for the write returns with RAM and FRAM alike.
LEMMA ParamsTransfer ==
  ASSUME FirmwareTypeOK, ParamsAgree, FramStep
  PROVE  ParamsAgree'
<1>1. UNCHANGED <<params, pc>>
  BY DEF FramStep, systemVars
<1>2. CASE UNCHANGED paramStoreVars
  BY <1>1, <1>2 DEF ParamsAgree, StoreInUse, RewritingSlot, Arrived, Begun, paramStoreVars
<1>3. CASE ParamWriteStep
  <2>1. /\ param_cursor \in 1 .. LastStep /\ pc \notin Unloaded /\ StoreInUse
        /\ param_store' = param_store /\ LastStep = 10
        /\ param_cursor' = IF param_cursor = LastStep THEN 0 ELSE param_cursor + 1
    BY <1>3, LastStepIsTen DEF FirmwareTypeOK, ParamWriteStep, ParamsAgree, Unloaded
  <2>2. PICK t \in SlotIds : Writing(t)
    BY <1>3, <2>1 DEF StoreInUse, ParamsAgree, Writing, ParamWriteStep
  <2>3. /\ param_fram' \in Store
        /\ Begun(param_fram')
        /\ \A s \in SlotIds \ {t} : param_fram'[s] = param_fram[s]
        /\ param_cursor < LastStep => Arrived(param_fram', t, param_cursor + 1)
        /\ param_cursor = LastStep => param_fram'[t] = param_store[t]
    BY <1>3, <2>2, StepArrives
  <2>4. CASE param_cursor < LastStep
    <3>1. param_cursor' = param_cursor + 1 /\ param_cursor' # 0
      BY <2>1, <2>4
    <3>2. RewritingSlot(t)'
      BY <2>1, <2>2, <2>3, <2>4, <3>1 DEF Writing, RewritingSlot, Arrived
    <3> QED
      BY <1>1, <2>1, <2>3, <3>1, <3>2 DEF ParamsAgree, StoreInUse
  <2>5. CASE param_cursor = LastStep
    <3>1. \A s \in SlotIds : param_fram'[s] = param_store[s]
      BY <2>2, <2>3, <2>5 DEF Writing, RewritingSlot
    <3>2. param_fram' = param_store
      BY <2>2, <2>3, <3>1 DEF Store, Writing
    <3> QED
      BY <1>1, <2>1, <2>3, <2>5, <3>2 DEF ParamsAgree, StoreInUse
  <2> QED
    BY <2>1, <2>4, <2>5
<1> QED
  BY <1>2, <1>3 DEF FramStep

LEMMA ParamsOther ==
  ASSUME ParamsAgree,
         \/ LoadStoredLog \/ SelfTest \/ ReadInputs \/ RunTick \/ CheckTrip \/ DriveGate
         \/ SendPeriodicFrames \/ SendNewFaultReport \/ SetDac
         \/ MarkSaved("mark_saved", "sync") \/ SyncFaultLog
         \/ MarkSaved("mark_synced", "inputs")
         \/ (\E f \in HostFrames : HostSends(f)) \/ BusTransmits \/ ComparatorTrips
         \/ UNCHANGED firmwareVars
  PROVE  ParamsAgree'
<1>1. UNCHANGED <<params, paramStoreVars>>
  <2>1. CASE LoadStoredLog \/ SelfTest
    BY <2>1 DEF LoadStoredLog, SelfTest, Start, stores
  <2>2. CASE RunTick \/ CheckTrip
    BY <2>2 DEF RunTick, CheckTrip, TickSomething, Tick, ProtectionTick, BeginRecovery,
                RecoverWait, RecoverTry, TickIdle, OnShortTrip, systemVars, stores
  <2>3. CASE ~(LoadStoredLog \/ SelfTest \/ RunTick \/ CheckTrip)
    BY <2>3 DEF ReadInputs, DriveGate, SendPeriodicFrames, SendNewFaultReport, SetDac, MarkSaved,
                SyncFaultLog, HostSends, BusTransmits, ComparatorTrips, firmwareVars,
                SetSafetyInputs, systemVars, stores
  <2> QED
    BY <2>1, <2>2, <2>3
<1>2. UNCHANGED pc \/ (pc \notin Unloaded /\ pc' \notin Unloaded /\ param_cursor = 0)
  BY DEF LoadStoredLog, SelfTest, ReadInputs, RunTick, CheckTrip, DriveGate,
         SendPeriodicFrames, SendNewFaultReport, SetDac, MarkSaved, SyncFaultLog, HostSends,
         BusTransmits, ComparatorTrips, firmwareVars, Returned, Unloaded, ParamsAgree
<1> QED
  BY <1>1, <1>2 DEF ParamsAgree, StoreInUse, RewritingSlot, Arrived, Begun, paramStoreVars

LEMMA ParamsAlways == FirmwareSpec => []ParamsAgree
<1>1. FirmwareTypeOK /\ ParamsAgree /\ [FirmwareNext]_firmwareVars => ParamsAgree'
  BY ParamsBoot, ParamsRequest, ParamsTransfer, ParamsOther
     DEF FirmwareNext, FirmwareStep, Environment
<1> QED
  BY <1>1, ParamsInit, FirmwareTyped, PTL DEF FirmwareSpec

\* Each loop begins with the parameters in use being those a boot would load,
\* whatever was written, refused or torn before, unless the node was renamed.
THEOREM ParamsAreDurable == FirmwareSpec => []ParamsDurable
<1>1. ParamsAgree => ParamsDurable
  BY DEF ParamsAgree, StoreInUse, ParamsDurable, Unloaded
<1> QED
  BY <1>1, ParamsAlways, PTL

-----------------------------------------------------------------------------
(* What System promises to a caller in any order, kept by the firmware,    *)
(* which adds to System's functions a self-test that may fail, a clear of  *)
(* the log between them, and the power supply.                             *)

\* Only four calls move the machine, each at its own place in the loop.
LEMMA MachineSteps ==
  ASSUME [FirmwareNext]_firmwareVars
  PROVE  \/ UNCHANGED machine
         \/ pc = "tick" /\ TickSomething
         \/ pc = "trip" /\ OnShortTrip
         \/ pc = "request" /\ ManualReset
         \/ SelfTest
         \/ PowerLoss
<1>1. CASE InitDrivers \/ LoadStoredParams \/ LoadStoredLog
  BY <1>1 DEF InitDrivers, LoadStoredParams, LoadStoredLog, systemVars
<1>2. CASE RunTick \/ CheckTrip
  BY <1>2 DEF RunTick, CheckTrip, systemVars
<1>3. CASE \/ ReadInputs \/ DriveGate \/ SendPeriodicFrames \/ SendNewFaultReport
           \/ SetDac \/ MarkSaved("mark_saved", "sync") \/ SyncFaultLog
           \/ MarkSaved("mark_synced", "inputs") \/ FramStep
           \/ (\E f \in HostFrames : HostSends(f)) \/ BusTransmits \/ ComparatorTrips
           \/ UNCHANGED firmwareVars
  BY <1>3 DEF ReadInputs, DriveGate, SendPeriodicFrames, SendNewFaultReport, SetDac, MarkSaved,
              SyncFaultLog, FramStep, HostSends, BusTransmits, ComparatorTrips, firmwareVars,
              SetSafetyInputs, systemVars
<1>4. CASE HandleCanRequest
  <2> DEFINE f == rx[NextBox]
  <2>1. \/ Nothing
        \/ HandleParam(f)
        \/ HandleControl(f)
        \/ UNCHANGED systemVars
    BY <1>4 DEF HandleCanRequest
  <2> HIDE DEF f
  <2>2. HandleParam(f) => UNCHANGED machine
    BY DEF HandleParam, Nothing, SetParam, systemVars
  <2>3. HandleControl(f) => UNCHANGED machine \/ ManualReset
    BY DEF HandleControl, Nothing, systemVars
  <2> QED
    BY <1>4, <2>1, <2>2, <2>3 DEF HandleCanRequest, Nothing, systemVars
<1> QED
  BY <1>1, <1>2, <1>3, <1>4 DEF FirmwareNext, FirmwareStep, Environment

\* The first three are steps System has as well.
LEMMA LoopSteps ==
  TickSomething \/ OnShortTrip \/ ManualReset => [SystemNext]_systemVars
BY DEF SystemNext

LEMMA SelfTestStart ==
  ASSUME OutputAgrees, SelfTest PROVE pc = "selftest" /\ state = "READY"
<1>1. pc = "selftest"
  BY DEF SelfTest
<1>2. pc \in BootStages
  BY <1>1 DEF BootStages, Stages, LoopStages
<1> QED
  BY <1>1, <1>2 DEF OutputAgrees

\* The status word tells the state also after a failed self-test, which leaves
\* NORMAL beside LOCKOUT as a short does, a power failure and a clear of the log.
THEOREM StatusAlwaysTells == FirmwareSpec => []StatusTellsState
<1>1. FirmwareInit => StatusTellsState
  BY DEF FirmwareInit, SystemInit, StatusTellsState
<1>2. StatusTellsState /\ OutputAgrees /\ [FirmwareNext]_firmwareVars => StatusTellsState'
  <2> SUFFICES ASSUME StatusTellsState, OutputAgrees, [FirmwareNext]_firmwareVars
               PROVE  StatusTellsState'
    OBVIOUS
  <2>1. CASE UNCHANGED machine
    BY <2>1 DEF machine, StatusTellsState
  <2>2. CASE TickSomething \/ OnShortTrip \/ ManualReset
    BY <2>2, LoopSteps, StatusStep
  <2>3. CASE SelfTest
    <3>1. state = "READY"
      BY <2>3, SelfTestStart
    <3>2. CASE Start
      BY <3>1, <3>2 DEF Start, StatusTellsState
    <3>3. CASE /\ state' = "LOCKOUT"
               /\ status_word' = status_word \cup {"SELFTEST_FAIL", "LOCKOUT"}
               /\ UNCHANGED active_fault
      BY <3>1, <3>3 DEF StatusTellsState
    <3> QED
      BY <2>3, <3>2, <3>3 DEF SelfTest
  <2>4. CASE PowerLoss
    BY <2>4 DEF PowerLoss, StatusTellsState
  <2> QED
    BY <2>1, <2>2, <2>3, <2>4, MachineSteps
<1> QED
  BY <1>1, <1>2, OutputAlways, PTL DEF FirmwareSpec

\* In the firmware a lockout is left through a power failure, or in a loop
\* in which a reset found every safety input good.
LoopKeepsLockout ==
  [][state = "LOCKOUT" /\ state' # "LOCKOUT" =>
        \/ pc' = "off"
        \/ pc = "request" /\ state' = "READY" /\ SafeToRecover]_firmwareVars

THEOREM LockoutLatchedInLoop == FirmwareSpec => LoopKeepsLockout
<1>1. ASSUME OutputAgrees, [FirmwareNext]_firmwareVars, state = "LOCKOUT", state' # "LOCKOUT"
      PROVE  pc' = "off" \/ (pc = "request" /\ state' = "READY" /\ SafeToRecover)
  <2>1. ~UNCHANGED machine
    BY <1>1 DEF machine
  <2>2. ~OnShortTrip
    BY <1>1 DEF OnShortTrip
  <2>3. ~TickSomething
    BY <1>1, TickLocks
  <2>4. ~SelfTest
    BY <1>1, SelfTestStart
  <2> QED
    BY <1>1, <2>1, <2>2, <2>3, <2>4, MachineSteps
       DEF PowerLoss, ManualReset, ManualResetAccepts, SafeToRecover
<1>2. OutputAgrees /\ [FirmwareNext]_firmwareVars =>
        [state = "LOCKOUT" /\ state' # "LOCKOUT" =>
           pc' = "off" \/ (pc = "request" /\ state' = "READY" /\ SafeToRecover)]_firmwareVars
  BY <1>1
<1> QED
  BY <1>2, OutputAlways, PTL DEF FirmwareSpec, LoopKeepsLockout

\* In the firmware the machine is energised at two places: once in a boot, by
\* main, and by the tick that finds the inputs good when it tries to recover.
LoopEnergises ==
  [][~Energised /\ Energised' =>
        \/ pc = "selftest" /\ state = "READY"
        \/ pc = "tick" /\ state = "RECOVER_TRY" /\ SafeToRecover]_firmwareVars

THEOREM EnergisedSafelyInLoop == FirmwareSpec => LoopEnergises
<1>1. ASSUME OutputAgrees, [FirmwareNext]_firmwareVars, ~Energised, Energised'
      PROVE  \/ pc = "selftest" /\ state = "READY"
             \/ pc = "tick" /\ state = "RECOVER_TRY" /\ SafeToRecover
  <2>1. ~UNCHANGED machine /\ ~OnShortTrip /\ ~ManualReset /\ ~PowerLoss
    BY <1>1 DEF machine, Energised, OnShortTrip, ManualReset, PowerLoss
  <2>2. CASE SelfTest
    BY <1>1, <2>2, SelfTestStart
  <2>3. CASE pc = "tick" /\ TickSomething
    <3>1. state \notin {"READY", "LOCKOUT"}
      BY <1>1, <2>3, TickLocks DEF Energised
    <3> QED
      BY <1>1, <2>3, <3>1, LoopSteps, EnergisingStep DEF Start
  <2> QED
    BY <1>1, <2>1, <2>2, <2>3, MachineSteps
<1>2. OutputAgrees /\ [FirmwareNext]_firmwareVars =>
        [~Energised /\ Energised' =>
           \/ pc = "selftest" /\ state = "READY"
           \/ pc = "tick" /\ state = "RECOVER_TRY" /\ SafeToRecover]_firmwareVars
  BY <1>1
<1> QED
  BY <1>2, OutputAlways, PTL DEF FirmwareSpec, LoopEnergises

\* In the firmware every loss of the output but a power failure leaves its
\* reason as the newest record.
LoopRecordsTrips ==
  [][Energised /\ ~Energised' =>
        \/ pc' = "off"
        \/ LogLatest(fault_log', 0) = [fault |-> active_fault', state |-> state']]_firmwareVars

THEOREM TripsRecordedInLoop == FirmwareSpec => LoopRecordsTrips
<1>1. ASSUME FirmwareTypeOK, OutputAgrees, [FirmwareNext]_firmwareVars, Energised, ~Energised'
      PROVE  \/ pc' = "off"
             \/ LogLatest(fault_log', 0) = [fault |-> active_fault', state |-> state']
  <2>1. ~UNCHANGED machine
    BY <1>1 DEF machine, Energised
  <2>2. ~SelfTest
    BY <1>1, SelfTestStart DEF Energised
  <2>3. CASE TickSomething \/ OnShortTrip \/ ManualReset
    BY <1>1, <2>3, LoopSteps, TrippingStep DEF FirmwareTypeOK
  <2> QED
    BY <1>1, <2>1, <2>2, <2>3, MachineSteps DEF PowerLoss
<1>2. FirmwareTypeOK /\ OutputAgrees /\ [FirmwareNext]_firmwareVars =>
        [Energised /\ ~Energised' =>
           \/ pc' = "off"
           \/ LogLatest(fault_log', 0) = [fault |-> active_fault', state |-> state']]_firmwareVars
  BY <1>1
<1> QED
  BY <1>2, FirmwareTyped, OutputAlways, PTL DEF FirmwareSpec, LoopRecordsTrips
=============================================================================
