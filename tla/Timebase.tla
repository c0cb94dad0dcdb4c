------------------------------ MODULE Timebase ------------------------------
(***************************************************************************)
(* common/timebase.c: a millisecond counter of one word and the host's     *)
(* synchronisations, which give fault records their absolute time.  The    *)
(* observer keeps the true time, in milliseconds.                          *)
(***************************************************************************)
EXTENDS Integers

CONSTANTS
  Word,      \* number of values of local_ms (2^32 in the source)
  Second,    \* milliseconds in a second (1000 in the source)
  Horizon    \* bound on the true time, for TLC

ASSUME TimebaseAssumption ==
  /\ Word \in Nat /\ Second \in 1 .. Word
  /\ Horizon \in Nat

VARIABLES
  local_ms, unix_sec, sync_local_ms, synced,
  now,       \* observer: true time
  synced_at, \* observer: true time at the second the last sync named
  delay      \* observer: how late the last sync was handled

timebaseVars == <<local_ms, unix_sec, sync_local_ms, synced, now, synced_at, delay>>

\* sscb_timebase_init; the true time at boot is anything.
TimebaseInit ==
  /\ local_ms = 0 /\ unix_sec = 0 /\ sync_local_ms = 0 /\ synced = FALSE
  /\ now \in 0 .. Second
  /\ synced_at = 0 /\ delay = 0

\* sscb_timebase_tick_ms
TickMs ==
  /\ now < Horizon
  /\ local_ms' = (local_ms + 1) % Word
  /\ now' = now + 1
  /\ UNCHANGED <<unix_sec, sync_local_ms, synced, synced_at, delay>>

\* Mutant of Sync: the milliseconds of the message are dropped.
SyncWholeSeconds(sent) ==
  /\ unix_sec' = sent \div Second
  /\ sync_local_ms' = local_ms
  /\ synced' = TRUE
  /\ synced_at' = sent - (sent % Second) /\ delay' = now - sent
  /\ UNCHANGED <<local_ms, now>>

\* sscb_timebase_sync with the true time at which the host built the message,
\* as whole seconds and the rest.
Sync(sent) ==
  /\ unix_sec' = sent \div Second
  /\ sync_local_ms' = (local_ms - (sent % Second)) % Word
  /\ synced' = TRUE
  /\ synced_at' = sent - (sent % Second) /\ delay' = now - sent
  /\ UNCHANGED <<local_ms, now>>

TimebaseNext == TickMs \/ \E sent \in 0 .. now : Sync(sent)

TimebaseSpec == TimebaseInit /\ [][TimebaseNext]_timebaseVars

\* sscb_timebase_absolute_ms
AbsoluteMs ==
  IF synced THEN unix_sec * Second + ((local_ms - sync_local_ms) % Word) ELSE local_ms

-----------------------------------------------------------------------------
\* What the time base can know: the true time less the delay.
KnownTime == now - delay

\* For as long as one word can count after a synchronisation, the time given
\* to fault records is the true time less the delay of that synchronisation,
\* also when local_ms wraps in between or the synchronisation came before the
\* counter had reached its milliseconds.
SyncedTimeExact == synced /\ KnownTime - synced_at < Word => AbsoluteMs = KnownTime
=============================================================================
