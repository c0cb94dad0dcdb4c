----------------------------- MODULE FaultLog -----------------------------
(***************************************************************************)
(* storage/fault_log.c, the log in RAM: a ring of CAPACITY records, the    *)
(* next write index, the number of records held and a running total.      *)
(* Operators on the structure; FaultHistory says what they promise.       *)
(***************************************************************************)
EXTENDS Integers, SscbTypes

CONSTANTS
  CAPACITY,  \* SSCB_FAULT_LOG_CAPACITY: 50 in the source
  TotalMod   \* number of values of total_count (a uint32_t), scaled down

ASSUME CapacityAssumption == CAPACITY \in Nat \ {0} /\ TotalMod \in Nat \ {0}

FaultLogType ==
  [records     : [0 .. CAPACITY - 1 -> FaultRecord],
   write_index : 0 .. CAPACITY - 1,
   count       : 0 .. CAPACITY,
   total_count : 0 .. TotalMod - 1]

\* sscb_fault_log_init and sscb_fault_log_clear
EmptyLog ==
  [records     |-> [i \in 0 .. CAPACITY - 1 |-> ZeroRecord],
   write_index |-> 0,
   count       |-> 0,
   total_count |-> 0]

\* Mutant of LogAppend: count is not capped.
LogAppendUncapped(log, rec) ==
  [records     |-> [log.records EXCEPT ![log.write_index] = rec],
   write_index |-> (log.write_index + 1) % CAPACITY,
   count       |-> log.count + 1,
   total_count |-> (log.total_count + 1) % TotalMod]

\* Mutant of LogAppend: a full ring overwrites one and the same slot.
LogAppendStuckWhenFull(log, rec) ==
  [records     |-> [log.records EXCEPT ![log.write_index] = rec],
   write_index |-> IF log.count < CAPACITY
                     THEN (log.write_index + 1) % CAPACITY ELSE log.write_index,
   count       |-> IF log.count < CAPACITY THEN log.count + 1 ELSE log.count,
   total_count |-> (log.total_count + 1) % TotalMod]

\* sscb_fault_log_append: the oldest record is overwritten when full.
LogAppend(log, rec) ==
  [records     |-> [log.records EXCEPT ![log.write_index] = rec],
   write_index |-> (log.write_index + 1) % CAPACITY,
   count       |-> IF log.count < CAPACITY THEN log.count + 1 ELSE log.count,
   total_count |-> (log.total_count + 1) % TotalMod]

\* Mutant of LogLatest: write_index is taken for the newest record.
LogLatestOffByOne(log, k) ==
  log.records[(log.write_index + CAPACITY - k) % CAPACITY]

\* sscb_fault_log_get_latest, for latest_index < count
LogLatest(log, k) ==
  log.records[(log.write_index + CAPACITY - 1 - k) % CAPACITY]

\* sscb_fault_log_get_chronological, for index < count
LogChronological(log, k) ==
  log.records[(log.write_index + CAPACITY - log.count + k) % CAPACITY]
=============================================================================
