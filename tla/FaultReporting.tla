--------------------------- MODULE FaultReporting ---------------------------
(***************************************************************************)
(* How a fault becomes a row of the host's fault list: the log in RAM, the *)
(* time base that stamps its records, the report and the log requests of   *)
(* app/firmware.c and protocol/can_protocol.c, the one transmit mailbox,   *)
(* and the list of MainForm.cs.  A loop of run_once is the calls of this   *)
(* path; which faults occur is System's business, any of Records here.     *)
(*                                                                         *)
(* The parameter mailbox is left out (its responses count as other frames) *)
(* and so are the measurements of a record.  The records' time stamps are  *)
(* kept beside the ring, in stamps, with a serial number only the observer *)
(* sees.                                                                   *)
(***************************************************************************)
EXTENDS FaultLogRing, Timebase

CONSTANTS
  NoFrame,      \* an empty mailbox
  ReadIndices,  \* indices hosts put into a log request (MainForm.cs: only 0)
  MaxFaults,    \* bound on faults
  MaxClears     \* bound on clears of the log

\* Frames on the bus: a fault, or anything else.
Other == [kind |-> "other"]
Frames ==
  {Other} \cup
  [kind : {"report", "answer"}, fault : Faults, time : 0 .. Word - 1,
   serial : Nat, known : Int, exact : BOOLEAN]

ASSUME ReportingAssumption ==
  /\ ReadIndices \subseteq Nat /\ MaxFaults \in Nat /\ MaxClears \in Nat
  /\ NoFrame \notin Nat /\ NoFrame \notin Frames

VARIABLES
  stage,           \* next call of run_once
  stamps,          \* timestamp_ms of the ring's records, and their serial
  reported_total,  \* fault_log_reported_total_count
  tx,              \* the transmit mailbox
  time_box, control_box,  \* receive mailboxes
  \* the observer:
  faults,          \* records appended so far
  fresh,           \* one was appended in this loop
  learnt,          \* serial of the last report that reached the host
  excused,         \* the newest record was missed, or its report replaced
  missed,          \* loops whose new record was not reported
  clears,          \* clears of the log so far
  answer           \* last answer to a log request: index and serial

ringVars == <<log, stamps>>
boxes == <<time_box, control_box>>
observer == <<faults, fresh, learnt, excused, missed, clears, answer>>
reportingVars == <<ringVars, timebaseVars, stage, reported_total, tx, boxes, observer>>

NoStamp == [timestamp_ms |-> 0, serial |-> 0, known |-> 0, exact |-> FALSE]

\* The ring with the time stamps for records: the same positions.
StampLog == [log EXCEPT !.records = stamps]

\* Mutant of FaultFrame: a time too long for the frame is cut to the largest.
FaultFrameSaturates(kind, rec, stamp) ==
  [kind |-> kind, fault |-> rec.fault,
   time |-> IF stamp.timestamp_ms < Word THEN stamp.timestamp_ms ELSE Word - 1,
   serial |-> stamp.serial, known |-> stamp.known, exact |-> stamp.exact]

\* sscb_can_make_fault: the time goes into four bytes.
FaultFrame(kind, rec, stamp) ==
  [kind |-> kind, fault |-> rec.fault, time |-> stamp.timestamp_ms % Word,
   serial |-> stamp.serial, known |-> stamp.known, exact |-> stamp.exact]

ClearRequest == [op |-> "clear", index |-> 0]
ReadRequest(i) == [op |-> "read_log", index |-> i]
NoAnswer == [index |-> 0, serial |-> 0]

ReportingInit ==
  /\ RingInit /\ TimebaseInit
  /\ stage = "tick"
  /\ stamps = [i \in 0 .. CAPACITY - 1 |-> NoStamp]
  /\ reported_total = 0
  /\ tx = NoFrame /\ time_box = NoFrame /\ control_box = NoFrame
  /\ faults = 0 /\ fresh = FALSE /\ learnt = 0
  /\ excused = FALSE /\ missed = 0 /\ clears = 0 /\ answer = NoAnswer

-----------------------------------------------------------------------------
(* A loop of run_once.                                                     *)

\* append_fault, from sscb_system_tick_1ms or sscb_system_on_short_trip
AppendFault(rec) ==
  /\ faults < MaxFaults
  /\ AppendRecord(rec)
  /\ stamps' = LogAppend(StampLog,
                 [timestamp_ms |-> AbsoluteMs, serial |-> faults + 1,
                  known |-> KnownTime,
                  exact |-> synced /\ KnownTime - synced_at < Word]).records
  /\ faults' = faults + 1 /\ fresh' = TRUE /\ excused' = FALSE

MayTrip(from, to) ==
  /\ stage = from /\ stage' = to
  /\ \/ UNCHANGED <<ringVars, faults, fresh, excused>>
     \/ \E rec \in Records : AppendFault(rec)
  /\ UNCHANGED <<timebaseVars, reported_total, tx, boxes, learnt,
                 missed, clears, answer>>

\* Mutant of Send: a frame that finds the mailbox full is dropped.
SendIfEmpty(frame) ==
  IF tx = NoFrame THEN tx' = frame /\ UNCHANGED excused ELSE UNCHANGED <<tx, excused>>

\* sscb_can_driver_send: an unsent report is replaced.
Send(frame) ==
  /\ tx' = frame
  /\ excused' = (excused \/ (tx # NoFrame /\ tx.kind = "report" /\ tx.serial = faults))

SendPeriodicFrames ==
  /\ stage = "frames" /\ stage' = "report"
  /\ Send(Other) \/ UNCHANGED <<tx, excused>>
  /\ UNCHANGED <<ringVars, timebaseVars, reported_total, boxes, faults,
                 fresh, learnt, missed, clears, answer>>

\* Mutant of SendNewFaultReport: the total is not noted.
SendNewFaultReportAgain ==
  /\ stage = "report" /\ stage' = "request"
  /\ IF log.total_count # reported_total /\ log.count > 0
       THEN /\ Send(FaultFrame("report", LogLatest(log, 0), LogLatest(StampLog, 0)))
            /\ UNCHANGED <<reported_total, missed>>
       ELSE /\ missed' = IF fresh THEN missed + 1 ELSE missed
            /\ excused' = (excused \/ fresh)
            /\ UNCHANGED <<tx, reported_total>>
  /\ fresh' = FALSE
  /\ UNCHANGED <<ringVars, timebaseVars, boxes, faults, learnt, clears, answer>>

\* Mutant of SendNewFaultReport: the number of records held is compared and noted.
SendNewFaultReportByCount ==
  /\ stage = "report" /\ stage' = "request"
  /\ IF log.count # reported_total /\ log.count > 0
       THEN /\ Send(FaultFrame("report", LogLatest(log, 0), LogLatest(StampLog, 0)))
            /\ reported_total' = log.count
            /\ UNCHANGED missed
       ELSE /\ missed' = IF fresh THEN missed + 1 ELSE missed
            /\ excused' = (excused \/ fresh)
            /\ UNCHANGED <<tx, reported_total>>
  /\ fresh' = FALSE
  /\ UNCHANGED <<ringVars, timebaseVars, boxes, faults, learnt, clears, answer>>

\* send_new_fault_report
SendNewFaultReport ==
  /\ stage = "report" /\ stage' = "request"
  /\ IF log.total_count # reported_total /\ log.count > 0
       THEN /\ Send(FaultFrame("report", LogLatest(log, 0), LogLatest(StampLog, 0)))
            /\ reported_total' = log.total_count
            /\ UNCHANGED missed
       ELSE /\ missed' = IF fresh THEN missed + 1 ELSE missed
            /\ excused' = (excused \/ fresh)
            /\ UNCHANGED <<tx, reported_total>>
  /\ fresh' = FALSE
  /\ UNCHANGED <<ringVars, timebaseVars, boxes, faults, learnt, clears, answer>>

\* The time mailbox is looked at before the control mailbox.
HandleTimeSync ==
  /\ time_box # NoFrame /\ time_box' = NoFrame
  /\ Sync(time_box)
  /\ Send(Other)
  /\ UNCHANGED <<ringVars, reported_total, control_box, clears, answer>>

\* sscb_can_handle_fault_log_request, 0x04
HandleClear ==
  /\ time_box = NoFrame /\ control_box = ClearRequest /\ control_box' = NoFrame
  /\ ClearLog
  /\ stamps' = [i \in 0 .. CAPACITY - 1 |-> NoStamp]
  /\ clears' = clears + 1
  /\ Send(Other)
  /\ UNCHANGED <<timebaseVars, reported_total, time_box, answer>>

\* Mutant of ClampedIndex: it counts from the newest record.
ClampedIndexFromNewest(index) ==
  IF index >= log.count THEN 0 ELSE log.count - 1 - index

\* The index is brought into the log.
ClampedIndex(index) == IF index >= log.count THEN log.count - 1 ELSE index

\* sscb_can_handle_fault_log_request, 0x03: the answer is a frame with the
\* identifier of a report, or an empty control frame.
HandleRead ==
  /\ time_box = NoFrame /\ control_box # NoFrame /\ control_box.op = "read_log"
  /\ control_box' = NoFrame
  /\ IF log.count = 0
       THEN Send(Other) /\ UNCHANGED answer
       ELSE LET i == ClampedIndex(control_box.index)
            IN  /\ Send(FaultFrame("answer", LogChronological(log, i),
                                   LogChronological(StampLog, i)))
                /\ answer' = [index |-> control_box.index,
                              serial |-> LogChronological(StampLog, i).serial]
  /\ UNCHANGED <<ringVars, timebaseVars, reported_total, time_box, clears>>

NoRequest ==
  /\ time_box = NoFrame /\ control_box = NoFrame
  /\ UNCHANGED <<ringVars, timebaseVars, reported_total, tx, boxes, excused, clears, answer>>

HandleCanRequest ==
  /\ stage = "request" /\ stage' = "time"
  /\ HandleTimeSync \/ HandleClear \/ HandleRead \/ NoRequest
  /\ UNCHANGED <<faults, fresh, learnt, missed>>

EndOfLoop ==
  /\ stage = "time" /\ stage' = "tick"
  /\ TickMs
  /\ UNCHANGED <<ringVars, reported_total, tx, boxes, observer>>

-----------------------------------------------------------------------------
(* The bus and the host.                                                   *)

\* The frame goes out, and MainForm.OnFrameReceived inserts a row for every
\* frame with the identifier of a report.
BusTransmits ==
  /\ tx # NoFrame /\ tx' = NoFrame
  /\ learnt' = IF tx.kind = "report" THEN tx.serial ELSE learnt
  /\ UNCHANGED <<ringVars, timebaseVars, stage, reported_total, boxes, faults,
                 fresh, excused, missed, clears, answer>>

\* Nothing looks at the receive mailboxes but HandleCanRequest: when a frame
\* arrives matters only as before or after that, and before or after a tick.
ArrivalTold == stage \in {"request", "time"}

\* SendTimeSync takes the time when it builds the frame.
HostSyncs ==
  /\ ArrivalTold
  /\ time_box' = now
  /\ UNCHANGED <<ringVars, timebaseVars, stage, reported_total, tx, control_box,
                 observer>>

HostAsks ==
  /\ ArrivalTold
  /\ \/ clears < MaxClears /\ control_box' = ClearRequest
     \/ \E i \in ReadIndices : control_box' = ReadRequest(i)
  /\ UNCHANGED <<ringVars, timebaseVars, stage, reported_total, tx, time_box,
                 observer>>

ReportingNext ==
  \/ MayTrip("tick", "trip") \/ MayTrip("trip", "frames")
  \/ SendPeriodicFrames \/ SendNewFaultReport \/ HandleCanRequest \/ EndOfLoop
  \/ BusTransmits \/ HostSyncs \/ HostAsks

ReportingSpec == ReportingInit /\ [][ReportingNext]_reportingVars

-----------------------------------------------------------------------------
\* A new record goes unreported at most once for each clear of the log: a
\* clear starts the total again and leaves the reported total, and the first
\* loop with new records after it is the only one that can find them equal.
MissesOnlyAfterClear == missed <= clears

\* A report is news: it is put into the mailbox in the loop that appended its
\* record, which is the newest one, and never again, whatever is cleared or
\* read in between.
ReportsAreNews ==
  [][tx' # tx /\ tx' # NoFrame /\ tx'.kind = "report" =>
       fresh /\ tx'.serial = faults]_reportingVars

\* With the mailbox empty between two loops, the host has the newest record
\* there ever was, unless its report was missed after a clear or replaced in
\* the mailbox before the bus took it.
HostLearnsNewest ==
  stage = "tick" /\ tx = NoFrame /\ ~excused => learnt = faults

\* A host that reads the log with rising indices never goes back in time,
\* however records, wrap-arounds and clears shift the ring between requests.
ReadsGoForward ==
  [][answer'.index >= answer.index => answer'.serial >= answer.serial]_reportingVars

\* Every row of the list, report or answer, has the time at which its fault
\* happened, less the delay of the synchronisation it was stamped under,
\* modulo the four bytes of the frame.
ListedTimeExact ==
  tx # NoFrame /\ tx.kind # "other" /\ tx.exact => tx.time = tx.known % Word
=============================================================================
