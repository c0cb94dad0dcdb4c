--------------------------- MODULE FaultHistory ---------------------------
(***************************************************************************)
(* What the fault log promises: it holds the last Depth records appended   *)
(* since it was cleared, oldest first (requirement 6.5.3: the most recent  *)
(* fifty records, overwritten in a circle).                                *)
(***************************************************************************)
EXTENDS Integers, Sequences

CONSTANTS
  Records,  \* the records that may be appended
  Depth     \* how many are kept

VARIABLE recent

HistoryInit == recent = <<>>

\* A full history forgets its oldest record.
Remember(rec) ==
  recent' = IF Len(recent) < Depth THEN Append(recent, rec)
                                   ELSE Append(Tail(recent), rec)

Forget == recent' = <<>>

HistoryNext == Forget \/ \E rec \in Records : Remember(rec)

HistorySpec == HistoryInit /\ [][HistoryNext]_recent
=============================================================================
