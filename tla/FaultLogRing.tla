--------------------------- MODULE FaultLogRing ---------------------------
(***************************************************************************)
(* The fault log on its own, driven by any sequence of appends and clears, *)
(* and the history it implements: what sscb_fault_log_get_chronological    *)
(* returns for index 0, 1, ... is the abstract sequence.                   *)
(***************************************************************************)
EXTENDS FaultLog, Sequences

CONSTANT Records  \* the records appended

ASSUME RecordsAssumption == Records \subseteq FaultRecord

VARIABLE log  \* sscb_fault_log_t

RingInit == log = EmptyLog
AppendRecord(rec) == log' = LogAppend(log, rec)
ClearLog == log' = EmptyLog

RingNext == ClearLog \/ \E rec \in Records : AppendRecord(rec)
RingSpec == RingInit /\ [][RingNext]_log

\* What a host that reads index 0, 1, ... up to the count retrieves.
Retrieved == [i \in 1 .. log.count |-> LogChronological(log, i - 1)]

History == INSTANCE FaultHistory WITH recent <- Retrieved, Depth <- CAPACITY

-----------------------------------------------------------------------------
\* The fields of the ring are in their types.
RingTypeOK == log \in FaultLogType

\* The two readers agree: the k-th newest record of get_latest, which reports
\* use, is the k-th from the end of get_chronological, which the host uses.
ReadersAgree ==
  \A k \in 0 .. log.count - 1 :
    LogLatest(log, k) = LogChronological(log, log.count - 1 - k)

\* The ring implements the history of the last CAPACITY records, through any
\* number of wrap-arounds of the write index and of the running total.
KeepsHistory == History!HistorySpec
=============================================================================
