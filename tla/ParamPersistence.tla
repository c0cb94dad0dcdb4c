------------------------- MODULE ParamPersistence -------------------------
(***************************************************************************)
(* The parameter store with the firmware's boot and parameter writes       *)
(* around it (app/firmware.c) and a power supply that may fail between any *)
(* two fields written.  committed, previous and pending are history: what  *)
(* the last completed save, the one before and the save under way hold.    *)
(***************************************************************************)
EXTENDS ParamStore

CONSTANT MaxSequence  \* bound on the sequence numbers, for TLC

VARIABLES
  power,      \* "off" or "on"
  live,       \* system.params, NoBlock while the power is off
  committed, previous, pending

persistenceVars == <<paramStoreVars, power, live, committed, previous, pending>>

PersistenceInit ==
  /\ ParamStoreInit
  /\ power = "off"
  /\ live = NoBlock
  /\ committed = NoBlock
  /\ previous = NoBlock
  /\ pending = NoBlock

\* sscb_firmware_init: what is loaded is the reference from here on, and
\* the reference it replaces may still be in the other slot.
BootLoad ==
  /\ power = "off"
  /\ LoadParams
  /\ power' = "on"
  /\ live' = LoadedBlock(param_fram)
  /\ IF SomeValid(param_fram)
       THEN /\ committed' = live'
            /\ previous' = IF live' = committed THEN previous ELSE committed
            /\ pending' = NoBlock
       ELSE /\ pending' = live'
            /\ UNCHANGED <<committed, previous>>

\* handle_can_request: an accepted parameter write.
WriteParam(p) ==
  /\ power = "on"
  /\ \A s \in SlotIds : param_store[s].sequence < MaxSequence
  /\ BeginParamSave(p)
  /\ live' = p
  /\ pending' = p
  /\ UNCHANGED <<power, committed, previous>>

\* The firmware waits for the transfer; the last step makes it durable.
TransferStep ==
  /\ power = "on"
  /\ ParamWriteStep
  /\ IF param_cursor = LastStep
       THEN committed' = pending /\ previous' = committed /\ pending' = NoBlock
       ELSE UNCHANGED <<committed, previous, pending>>
  /\ UNCHANGED <<power, live>>

PowerLoss ==
  /\ power = "on"
  /\ ParamPowerLoss
  /\ power' = "off"
  /\ live' = NoBlock
  /\ UNCHANGED <<committed, previous, pending>>

PersistenceNext ==
  \/ BootLoad
  \/ \E p \in Blocks : WriteParam(p)
  \/ TransferStep
  \/ PowerLoss

PersistenceSpec == PersistenceInit /\ [][PersistenceNext]_persistenceVars

-----------------------------------------------------------------------------
\* Slots, cursor and history hold values of their types.
PersistenceTypeOK ==
  /\ param_store \in Store
  /\ param_fram \in Store
  /\ param_cursor \in 0 .. LastStep
  /\ power \in {"off", "on"}
  /\ live \in Blocks \cup {NoBlock}
  /\ {committed, previous, pending} \subseteq Blocks \cup {NoBlock}

\* From the first completed save on, at every instant of every later write
\* and power failure, the FRAM holds a slot that passes its checksum: the
\* defaults never come back.
SurvivorExists == committed # NoBlock => SomeValid(param_fram)

\* A boot after a completed save loads the block of that save, of the save
\* that was under way, or of the one before: never an older one and never a
\* mixture of two.
AtMostOneSaveBack ==
  [][power = "off" /\ power' = "on" /\ committed # NoBlock =>
        live' \in {committed, previous, pending} \ {NoBlock}]_persistenceVars

\* While no transfer is under way the FRAM holds what the firmware runs on:
\* a boot at that moment would load the live block.
IdleMeansDurable ==
  power = "on" /\ param_cursor = 0 =>
    param_fram = param_store /\ LoadedBlock(param_fram) = live
=============================================================================
