--------------------------- MODULE FaultLogStore ---------------------------
(***************************************************************************)
(* storage/fault_log.c, the log's single image in FRAM.  The image is      *)
(* written as a whole in ascending address order: header and checksum,     *)
(* then the log.  Between the first changed byte and the last the checksum *)
(* does not match what it covers, so an image written in part is the value *)
(* NoLog, as blank cells are; rewriting an equal image changes no byte.    *)
(***************************************************************************)
EXTENDS FaultLog

CONSTANT NoLog  \* an image valid_image refuses

ASSUME NoLogAssumption == NoLog \notin FaultLogType

VARIABLES
  log_fram,   \* the cells at SSCB_FRAM_FAULT_LOG_ADDR: a log or NoLog
  log_cursor  \* 0: no write, 1: about to change a byte, 2: about to finish

logStoreVars == <<log_fram, log_cursor>>

LogStoreInit == log_fram = NoLog /\ log_cursor = 0

\* sscb_fault_log_save_to_fram up to the first byte
BeginLogSave ==
  /\ log_cursor = 0
  /\ log_cursor' = 1
  /\ UNCHANGED log_fram

\* sscb_fram_write of the image of log, in two steps
LogWriteStep(log) ==
  \/ /\ log_cursor = 1
     /\ log_fram' = IF log_fram = log THEN log ELSE NoLog
     /\ log_cursor' = 2
  \/ /\ log_cursor = 2
     /\ log_fram' = log
     /\ log_cursor' = 0

\* What sscb_fault_log_load_from_fram leaves in RAM
LoadedLog == IF log_fram = NoLog THEN EmptyLog ELSE log_fram

\* sscb_fault_log_load_from_fram: an invalid image is replaced by the empty
\* log it has loaded.
LoadLog ==
  /\ log_cursor = 0
  /\ log_cursor' = IF log_fram = NoLog THEN 1 ELSE 0
  /\ UNCHANGED log_fram

LogPowerLoss == log_cursor' = 0 /\ UNCHANGED log_fram
=============================================================================
