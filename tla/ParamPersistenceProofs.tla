---------------------- MODULE ParamPersistenceProofs ----------------------
(***************************************************************************)
(* For any set of parameter blocks: a completed save is never lost to the  *)
(* defaults, an idle store holds the live block, and a boot loads a block  *)
(* no older than the one before the last completed save.  The invariant    *)
(* that is inductive names the slot being rewritten, the target, while the *)
(* other slot keeps what a boot would load if the target never arrived.    *)
(***************************************************************************)
EXTENDS ParamPersistence, ParamStoreProofs

\* A transfer is rewriting t, and the other slot survives it.
Rewriting(t) ==
  /\ RewritingSlot(t)
  /\ committed # NoBlock => \A s \in SlotIds \ {t} : ValidSlot(param_fram[s])

TransferConsistent ==
  power = "on" =>
    /\ LoadedBlock(param_store) = live
    /\ IF param_cursor = 0 THEN param_fram = param_store
                           ELSE \E t \in SlotIds : Rewriting(t)

PersistenceInv ==
  /\ PersistenceTypeOK
  /\ TransferConsistent
  /\ Begun(param_fram)
  /\ power = "on" => Begun(param_store)
  /\ SurvivorExists

-----------------------------------------------------------------------------
LEMMA BootKeeps == PersistenceInv /\ BootLoad => PersistenceInv'
<1> SUFFICES ASSUME PersistenceInv, BootLoad PROVE PersistenceInv'
  OBVIOUS
<1>1. /\ param_fram \in Store /\ param_fram' = param_fram
      /\ Begun(param_fram) /\ power' = "on" /\ live' = LoadedBlock(param_fram)
  BY DEF PersistenceInv, PersistenceTypeOK, BootLoad, LoadParams
<1>2. live' \in Blocks
  BY <1>1, LoadedBlockFacts
<1>3. Begun(param_fram')
  BY <1>1
<1>4. CASE SomeValid(param_fram)
  <2>1. /\ param_store' = param_fram /\ param_cursor' = 0 /\ committed' = live'
        /\ previous' \in {previous, committed} /\ pending' = NoBlock
    BY <1>4 DEF BootLoad, LoadParams
  <2>2. PersistenceTypeOK'
    BY <1>1, <1>2, <2>1 DEF PersistenceTypeOK, PersistenceInv, LastStep, Fields
  <2>3. SurvivorExists'
    BY <1>1, <1>4 DEF SurvivorExists
  <2>4. TransferConsistent' /\ Begun(param_store')
    BY <1>1, <2>1 DEF TransferConsistent
  <2> QED
    BY <1>3, <2>2, <2>3, <2>4 DEF PersistenceInv
<1>5. CASE ~SomeValid(param_fram)
  <2>1. /\ param_store' = SavedStore(param_fram, DefaultBlock) /\ param_cursor' = 1
        /\ committed' = committed /\ previous' = previous /\ pending' = live'
    BY <1>5 DEF BootLoad, LoadParams
  <2>2. committed = NoBlock /\ live' = DefaultBlock
    BY <1>1, <1>5, LoadedBlockFacts DEF PersistenceInv, SurvivorExists
  <2>3. /\ param_store' \in Store /\ Begun(param_store')
        /\ LoadedBlock(param_store') = DefaultBlock
        /\ \E t \in SlotIds : RewritingSlot(t)'
    BY <1>1, <2>1, BlockAssumption, SaveBegins
  <2>4. PersistenceTypeOK'
    BY <1>1, <1>2, <2>1, <2>3, FieldsFacts DEF PersistenceTypeOK, PersistenceInv
  <2>5. TransferConsistent' /\ SurvivorExists'
    BY <1>1, <2>1, <2>2, <2>3 DEF TransferConsistent, Rewriting, SurvivorExists
  <2> QED
    BY <1>3, <2>3, <2>4, <2>5 DEF PersistenceInv
<1> QED
  BY <1>4, <1>5

LEMMA WriteKeeps ==
  ASSUME PersistenceInv, NEW p \in Blocks, WriteParam(p)
  PROVE  PersistenceInv'
<1>1. /\ power = "on" /\ power' = "on" /\ param_cursor = 0 /\ param_cursor' = 1
      /\ param_store' = SavedStore(param_store, p) /\ param_fram' = param_fram
      /\ live' = p /\ pending' = p /\ committed' = committed /\ previous' = previous
  BY DEF WriteParam, BeginParamSave
<1>2. /\ param_fram \in Store /\ param_fram = param_store /\ Begun(param_fram)
      /\ committed # NoBlock => SomeValid(param_fram)
  BY <1>1 DEF PersistenceInv, PersistenceTypeOK, TransferConsistent, SurvivorExists
<1>3. /\ param_store' \in Store /\ Begun(param_store') /\ LoadedBlock(param_store') = p
      /\ \E t \in SlotIds :
           /\ RewritingSlot(t)'
           /\ \A s \in SlotIds \ {t} : SomeValid(param_fram) => ValidSlot(param_fram[s])
  BY <1>1, <1>2, SaveBegins
<1>4. PersistenceTypeOK'
  BY <1>1, <1>3, FieldsFacts DEF PersistenceInv, PersistenceTypeOK
<1>5. TransferConsistent' /\ Begun(param_fram') /\ SurvivorExists'
  BY <1>1, <1>2, <1>3 DEF TransferConsistent, Rewriting, SurvivorExists
<1> QED
  BY <1>3, <1>4, <1>5 DEF PersistenceInv

\* What a transfer step finds.
LEMMA TransferFinds ==
  ASSUME PersistenceInv, TransferStep
  PROVE  /\ power = "on" /\ power' = "on" /\ ParamWriteStep
         /\ param_store' = param_store /\ live' = live
         /\ param_cursor' = IF param_cursor = LastStep THEN 0 ELSE param_cursor + 1
         /\ LastStep = 10 /\ param_cursor \in 1 .. 10
         /\ \A t \in SlotIds : RewritingSlot(t) => Writing(t)
         /\ \E t \in SlotIds : Rewriting(t)
<1>1. /\ power = "on" /\ power' = "on" /\ param_cursor # 0
      /\ ParamWriteStep /\ param_store' = param_store /\ live' = live
      /\ param_cursor' = IF param_cursor = LastStep THEN 0 ELSE param_cursor + 1
      /\ LastStep = 10 /\ param_cursor \in 1 .. 10
  BY FieldsFacts DEF TransferStep, ParamWriteStep, PersistenceInv, PersistenceTypeOK
<1>2. \E t \in SlotIds : Rewriting(t)
  BY <1>1 DEF PersistenceInv, TransferConsistent
<1>3. \A t \in SlotIds : RewritingSlot(t) => Writing(t)
  BY <1>1 DEF PersistenceInv, PersistenceTypeOK, Writing
<1> QED
  BY <1>1, <1>2, <1>3

\* One field of the target, or the last step, which leaves RAM and FRAM alike.
LEMMA TransferMoves ==
  ASSUME PersistenceInv, TransferStep, NEW t \in SlotIds, RewritingSlot(t)
  PROVE  /\ param_fram' \in Store /\ Begun(param_fram')
         /\ \A s \in SlotIds \ {t} : param_fram'[s] = param_fram[s]
         /\ param_cursor < LastStep => param_cursor' # 0 /\ RewritingSlot(t)'
         /\ param_cursor = LastStep => param_cursor' = 0 /\ param_fram' = param_store
<1>1. /\ power = "on" /\ ParamWriteStep /\ param_store' = param_store
      /\ param_cursor' = IF param_cursor = LastStep THEN 0 ELSE param_cursor + 1
      /\ LastStep = 10 /\ param_cursor \in 1 .. 10 /\ Writing(t)
  BY TransferFinds
<1>2. /\ param_fram' \in Store /\ Begun(param_fram')
      /\ \A s \in SlotIds \ {t} : param_fram'[s] = param_fram[s]
      /\ param_cursor < LastStep => Arrived(param_fram', t, param_cursor + 1)
      /\ param_cursor = LastStep => param_fram'[t] = param_store[t]
  BY <1>1, StepArrives
<1>3. CASE param_cursor < LastStep
  <2>1. param_cursor' = param_cursor + 1 /\ param_cursor' # 0
    BY <1>1, <1>3
  <2> QED
    BY <1>1, <1>2, <1>3, <2>1 DEF RewritingSlot, Arrived
<1>4. CASE param_cursor = LastStep
  <2>1. \A s \in SlotIds : param_fram'[s] = param_store[s]
    BY <1>2, <1>4 DEF RewritingSlot
  <2>2. param_store \in Store
    BY DEF PersistenceInv, PersistenceTypeOK
  <2>3. param_fram' = param_store
    BY <1>2, <2>1, <2>2 DEF Store
  <2> QED
    BY <1>1, <1>2, <1>4, <2>3
<1> QED
  BY <1>1, <1>3, <1>4

LEMMA TransferKeeps == PersistenceInv /\ TransferStep => PersistenceInv'
<1> SUFFICES ASSUME PersistenceInv, TransferStep PROVE PersistenceInv'
  OBVIOUS
<1>1. /\ power = "on" /\ power' = "on"
      /\ param_store' = param_store /\ live' = live
      /\ param_cursor' = IF param_cursor = LastStep THEN 0 ELSE param_cursor + 1
      /\ LastStep = 10 /\ param_cursor \in 1 .. 10 /\ \E t \in SlotIds : Rewriting(t)
  BY TransferFinds
<1>2. PICK t \in SlotIds : Rewriting(t)
  BY <1>1
<1>3. /\ param_fram' \in Store /\ Begun(param_fram')
      /\ \A s \in SlotIds \ {t} : param_fram'[s] = param_fram[s]
      /\ param_cursor < LastStep => param_cursor' # 0 /\ RewritingSlot(t)'
      /\ param_cursor = LastStep => param_cursor' = 0 /\ param_fram' = param_store
  BY <1>2, TransferMoves DEF Rewriting
<1>4. PersistenceTypeOK'
  BY <1>1, <1>3 DEF PersistenceTypeOK, PersistenceInv, TransferStep
<1>5. Begun(param_store') /\ LoadedBlock(param_store') = live'
  BY <1>1 DEF PersistenceInv, TransferConsistent
<1>6. CASE param_cursor < LastStep
  <2>1. committed' = committed
    BY <1>6, <1>1 DEF TransferStep
  <2>2. Rewriting(t)'
    BY <1>2, <1>3, <1>6, <2>1 DEF Rewriting
  <2>3. SurvivorExists'
    BY <1>2, <1>3, <2>1 DEF Rewriting, SurvivorExists, SomeValid, SlotIds
  <2> QED
    BY <1>3, <1>4, <1>5, <1>6, <2>2, <2>3 DEF PersistenceInv, TransferConsistent
<1>7. CASE param_cursor = LastStep
  <2>1. SurvivorExists'
    BY <1>2, <1>3, <1>7 DEF Rewriting, RewritingSlot, SurvivorExists, SomeValid, SlotIds
  <2> QED
    BY <1>1, <1>3, <1>4, <1>5, <1>7, <2>1 DEF PersistenceInv, TransferConsistent
<1> QED
  BY <1>1, <1>6, <1>7

LEMMA PowerLossKeeps == PersistenceInv /\ PowerLoss => PersistenceInv'
BY BlankStoreFacts, BlockAssumption, FieldsFacts
   DEF PersistenceInv, PowerLoss, ParamPowerLoss, PersistenceTypeOK,
       TransferConsistent, SurvivorExists

LEMMA PersistenceInvInductive ==
  /\ PersistenceInit => PersistenceInv
  /\ PersistenceInv /\ [PersistenceNext]_persistenceVars => PersistenceInv'
<1>1. PersistenceInit => PersistenceInv
  BY BlankStoreFacts, BlockAssumption, FieldsFacts
     DEF PersistenceInit, ParamStoreInit, PersistenceInv, PersistenceTypeOK,
         TransferConsistent, SurvivorExists
<1>2. PersistenceInv /\ UNCHANGED persistenceVars => PersistenceInv'
  BY DEF persistenceVars, paramStoreVars, PersistenceInv, PersistenceTypeOK,
         TransferConsistent, Rewriting, RewritingSlot, Arrived, Begun, SurvivorExists
<1> QED
  BY <1>1, <1>2, BootKeeps, WriteKeeps, TransferKeeps, PowerLossKeeps
     DEF PersistenceNext

\* The inductive invariant holds in every reachable state.
THEOREM PersistenceInvariant == PersistenceSpec => []PersistenceInv
BY PersistenceInvInductive, PTL DEF PersistenceSpec

\* A completed save always leaves a slot that passes its checksum, whatever
\* step of whatever later save the power fails in.
THEOREM SaveSurvives == PersistenceSpec => []SurvivorExists
<1>1. PersistenceInv => SurvivorExists
  BY DEF PersistenceInv
<1> QED
  BY <1>1, PersistenceInvariant, PTL

\* An idle store is durable: the FRAM equals the RAM copy and a boot would
\* load the block the firmware runs on.
THEOREM IdleStoreDurable == PersistenceSpec => []IdleMeansDurable
<1>1. PersistenceInv => IdleMeansDurable
  BY DEF PersistenceInv, TransferConsistent, IdleMeansDurable
<1> QED
  BY <1>1, PersistenceInvariant, PTL

\* Slots, cursor and history stay within their types.
THEOREM PersistenceTyped == PersistenceSpec => []PersistenceTypeOK
<1>1. PersistenceInv => PersistenceTypeOK
  BY DEF PersistenceInv
<1> QED
  BY <1>1, PersistenceInvariant, PTL

-----------------------------------------------------------------------------
(* How old a block can be after a boot.                                    *)

Holds(store, blocks) ==
  \A s \in SlotIds : ValidSlot(store[s]) => store[s].params \in blocks

\* What the valid slots hold, at every instant: before the first completed
\* save only defaults; then the block of that save and either the one before
\* or, as the newer of the two, the one under way.
Recent ==
  IF committed = NoBlock
    THEN Holds(param_fram, {DefaultBlock})
    ELSE \/ Holds(param_fram, {committed, previous})
         \/ /\ Holds(param_fram, {committed, pending})
            /\ LoadedBlock(param_fram) = pending

\* The pending block goes to t, under the highest number, and the other slot
\* holds the committed one; until the checksum arrives t may still pass with
\* the block it held, though already under its new number.
Replacing(t) ==
  /\ RewritingSlot(t)
  /\ pending = param_store[t].params
  /\ \A s \in SlotIds \ {t} :
        /\ ValidSlot(param_fram[s]) => param_fram[s].sequence < param_store[t].sequence
        /\ committed # NoBlock => ValidSlot(param_fram[s]) /\ param_fram[s].params = committed
  /\ IF committed = NoBlock
       THEN pending = DefaultBlock
       ELSE param_cursor <= Offset(t) + 3 /\ ValidSlot(param_fram[t]) =>
              param_fram[t].params \in {committed, previous}

RecentInv ==
  /\ Distinct(param_fram)
  /\ Recent
  /\ power = "on" =>
       IF param_cursor = 0
         THEN committed = live /\ Holds(param_fram, {committed, previous})
         ELSE \E t \in SlotIds : Replacing(t)

LEMMA RecentBoot ==
  ASSUME PersistenceInv, RecentInv, BootLoad
  PROVE  RecentInv'
<1>1. /\ param_fram \in Store /\ param_fram' = param_fram /\ Begun(param_fram)
      /\ power' = "on" /\ live' = LoadedBlock(param_fram) /\ live' \in Blocks
  BY LoadedBlockFacts DEF PersistenceInv, PersistenceTypeOK, BootLoad, LoadParams
<1>2. live' # NoBlock /\ DefaultBlock # NoBlock
  BY <1>1, BlockAssumption
<1>3. Distinct(param_fram')
  BY <1>1 DEF RecentInv
<1>4. CASE SomeValid(param_fram)
  <2>1. /\ param_cursor' = 0 /\ committed' = live' /\ pending' = NoBlock
        /\ previous' = IF live' = committed THEN previous ELSE committed
    BY <1>4 DEF BootLoad, LoadParams
  <2>2. PICK s \in SlotIds : ValidSlot(param_fram[s]) /\ live' = param_fram[s].params
    BY <1>1, <1>4, LoadedBlockFacts
  <2>3. Holds(param_fram, {live', previous'})
    <3>1. CASE committed = NoBlock
      BY <2>2, <3>1 DEF RecentInv, Recent, Holds
    <3>2. CASE committed # NoBlock /\ Holds(param_fram, {committed, previous})
      BY <2>1, <2>2, <3>2 DEF Holds
    <3>3. CASE /\ committed # NoBlock /\ Holds(param_fram, {committed, pending})
               /\ LoadedBlock(param_fram) = pending
      BY <1>1, <2>1, <3>3 DEF Holds
    <3> QED
      BY <3>1, <3>2, <3>3 DEF RecentInv, Recent
  <2> QED
    BY <1>1, <1>2, <1>3, <2>1, <2>3 DEF RecentInv, Recent
<1>5. CASE ~SomeValid(param_fram)
  <2>1. /\ param_store' = SavedStore(param_fram, DefaultBlock) /\ param_cursor' = 1
        /\ committed' = committed /\ previous' = previous /\ pending' = live'
    BY <1>5 DEF BootLoad, LoadParams
  <2>2. committed = NoBlock /\ live' = DefaultBlock
    BY <1>1, <1>5, LoadedBlockFacts DEF PersistenceInv, SurvivorExists
  <2>3. \A s \in SlotIds : ~ValidSlot(param_fram[s])
    BY <1>5 DEF SomeValid, SlotIds
  <2>4. \E t \in SlotIds : RewritingSlot(t)' /\ param_store'[t].params = DefaultBlock
    BY <1>1, <2>1, BlockAssumption, SaveBegins
  <2>5. \E t \in SlotIds : Replacing(t)'
    BY <1>1, <2>1, <2>2, <2>3, <2>4 DEF Replacing
  <2>6. Recent'
    BY <1>1, <2>1, <2>2, <2>3 DEF Recent, Holds
  <2> QED
    BY <1>3, <2>1, <2>5, <2>6 DEF RecentInv
<1> QED
  BY <1>4, <1>5

LEMMA RecentWrite ==
  ASSUME PersistenceInv, RecentInv, NEW p \in Blocks, WriteParam(p)
  PROVE  RecentInv'
<1>1. /\ power = "on" /\ power' = "on" /\ param_cursor = 0 /\ param_cursor' = 1
      /\ param_store' = SavedStore(param_store, p) /\ param_fram' = param_fram
      /\ pending' = p /\ committed' = committed /\ previous' = previous
  BY DEF WriteParam, BeginParamSave
<1>2. /\ param_fram \in Store /\ param_fram = param_store /\ Begun(param_fram)
      /\ LoadedBlock(param_fram) = live
  BY <1>1 DEF PersistenceInv, PersistenceTypeOK, TransferConsistent
<1>3. /\ committed = live /\ Holds(param_fram, {committed, previous})
      /\ Distinct(param_fram)
  BY <1>1 DEF RecentInv
<1>4. committed # NoBlock
  BY <1>2, <1>3, LoadedBlockFacts, BlockAssumption
<1>5. SomeValid(param_fram)
  BY <1>4 DEF PersistenceInv, SurvivorExists
<1>6. PICK t \in SlotIds :
        /\ RewritingSlot(t)'
        /\ param_store'[t].params = p
        /\ \A s \in SlotIds \ {t} :
              /\ ValidSlot(param_store'[s]) =>
                   param_store'[s].sequence < param_store'[t].sequence
              /\ ValidSlot(param_fram[s])
              /\ param_fram[s].params = LoadedBlock(param_fram)
  BY <1>1, <1>2, <1>3, <1>5, SaveBegins
<1>7. \A s \in SlotIds \ {t} : param_fram'[s] = param_store'[s]
  BY <1>6 DEF RewritingSlot
<1>8. ValidSlot(param_fram[t]) => param_fram[t].params \in {committed, previous}
  BY <1>3 DEF Holds
<1>9. Replacing(t)'
  BY <1>1, <1>2, <1>3, <1>4, <1>6, <1>7, <1>8 DEF Replacing
<1>10. Recent' /\ Distinct(param_fram)'
  BY <1>1, <1>3, <1>4 DEF Recent, Holds, Distinct
<1> QED
  BY <1>1, <1>9, <1>10 DEF RecentInv

\* A step before the last: the target keeps its block until its checksum
\* arrives, and from then on passes only with the pending one.
LEMMA RecentTransfer ==
  ASSUME PersistenceInv, RecentInv, TransferStep, param_cursor < LastStep
  PROVE  RecentInv'
<1>1. /\ power = "on" /\ power' = "on" /\ param_store' = param_store /\ ParamWriteStep
      /\ param_cursor' = IF param_cursor = LastStep THEN 0 ELSE param_cursor + 1
      /\ LastStep = 10 /\ param_cursor \in 1 .. 10
      /\ \A t \in SlotIds : RewritingSlot(t) => Writing(t)
  BY TransferFinds
<1>2. PICK t \in SlotIds : Replacing(t)
  BY <1>1 DEF RecentInv
<1>3. /\ param_cursor' = param_cursor + 1 /\ param_cursor' # 0
      /\ committed' = committed /\ previous' = previous /\ pending' = pending
  BY <1>1 DEF TransferStep
<1>4. /\ param_fram' \in Store /\ RewritingSlot(t)'
      /\ \A s \in SlotIds \ {t} : param_fram'[s] = param_fram[s]
      /\ param_fram'[t].sequence \in {param_fram[t].sequence, param_store[t].sequence}
      /\ param_cursor <= Offset(t) + 2 /\ ValidSlot(param_fram'[t]) =>
           ValidSlot(param_fram[t]) /\ param_fram'[t].params = param_fram[t].params
  <2>1. RewritingSlot(t) /\ Writing(t)
    BY <1>1, <1>2 DEF Replacing
  <2> QED
    BY <1>1, <2>1, TransferMoves, StepArrives
<1>5. PICK r \in SlotIds \ {t} : SlotIds = {r, t}
  BY DEF SlotIds
<1>6. /\ param_store \in Store /\ param_fram \in Store
      /\ param_fram[r].sequence \in Nat /\ param_store[t].sequence \in Nat
      /\ Offset(t) \in {0, 5}
  BY <1>2, <1>5 DEF PersistenceInv, PersistenceTypeOK, Store, Slot, Offset
<1>7. CASE param_cursor <= Offset(t) + 2
  <2>1. ValidSlot(param_fram'[t]) =>
          ValidSlot(param_fram[t]) /\ param_fram'[t].params = param_fram[t].params
    BY <1>4, <1>7
  <2>2. Distinct(param_fram')
    BY <1>2, <1>4, <1>5, <1>6, <2>1 DEF RecentInv, Distinct, Replacing, SlotIds
  <2>3. param_cursor <= Offset(t) + 3
    BY <1>1, <1>6, <1>7
  <2>4. committed # NoBlock /\ ValidSlot(param_fram'[t]) =>
          param_fram'[t].params \in {committed, previous}
    BY <1>2, <2>1, <2>3 DEF Replacing
  <2>5. Recent'
    <3>1. CASE committed = NoBlock
      BY <1>3, <1>4, <2>1, <3>1 DEF RecentInv, Recent, Holds
    <3>2. CASE committed # NoBlock
      BY <1>2, <1>3, <1>4, <2>4, <3>2 DEF Recent, Replacing, Holds
    <3> QED
      BY <3>1, <3>2
  <2>6. Replacing(t)'
    BY <1>1, <1>2, <1>3, <1>4, <2>4 DEF Replacing
  <2> QED
    BY <1>1, <1>3, <2>2, <2>5, <2>6 DEF RecentInv
<1>8. CASE ~(param_cursor <= Offset(t) + 2)
  <2>1. param_cursor' > Offset(t) + 3
    BY <1>1, <1>3, <1>6, <1>8
  <2>2. param_fram'[t].crc = pending /\ param_fram'[t].sequence = param_store[t].sequence
    <3>1. Arrived(param_fram', t, param_cursor')
      BY <1>1, <1>4 DEF RewritingSlot, Arrived
    <3>2. param_fram'[t].crc = param_store[t].crc
      BY <2>1, <3>1 DEF Arrived
    <3>3. param_fram'[t].sequence = param_store[t].sequence
      BY <1>1, <1>3, <1>6, <2>1, <3>1 DEF Arrived
    <3>4. param_store[t].crc = pending
      BY <1>2 DEF Replacing, RewritingSlot, ValidSlot
    <3> QED
      BY <3>2, <3>3, <3>4
  <2>3. ValidSlot(param_fram'[t]) => param_fram'[t].params = pending
    BY <2>2 DEF ValidSlot
  <2>4. \A s \in SlotIds \ {t} :
          ValidSlot(param_fram'[s]) => param_fram'[s].sequence < param_fram'[t].sequence
    BY <1>2, <1>4, <2>2 DEF Replacing
  <2>5. Distinct(param_fram')
    BY <1>4, <1>5, <1>6, <2>2, <2>4 DEF Distinct, SlotIds
  <2>6. Recent'
    <3>1. CASE committed = NoBlock
      BY <1>2, <1>3, <1>4, <2>3, <3>1 DEF RecentInv, Recent, Holds, Replacing
    <3>2. CASE committed # NoBlock /\ ValidSlot(param_fram'[t])
      <4>1. LoadedBlock(param_fram') = pending
        BY <1>4, <2>3, <2>4, <3>2, NewerLoaded
      <4> QED
        BY <1>2, <1>3, <1>4, <2>3, <3>2, <4>1 DEF Recent, Replacing, Holds
    <3>3. CASE committed # NoBlock /\ ~ValidSlot(param_fram'[t])
      BY <1>2, <1>3, <1>4, <3>3 DEF Recent, Replacing, Holds
    <3> QED
      BY <3>1, <3>2, <3>3
  <2>7. Replacing(t)'
    BY <1>1, <1>2, <1>3, <1>4, <1>6, <2>1 DEF Replacing
  <2> QED
    BY <1>1, <1>3, <2>5, <2>6, <2>7 DEF RecentInv
<1> QED
  BY <1>7, <1>8

\* The last step: what was pending is committed, in the newer slot.
LEMMA RecentCommit ==
  ASSUME PersistenceInv, RecentInv, TransferStep, param_cursor = LastStep
  PROVE  RecentInv'
<1>1. power = "on" /\ power' = "on" /\ live' = live /\ param_cursor # 0
  BY TransferFinds
<1>2. PICK t \in SlotIds : Replacing(t)
  BY <1>1 DEF RecentInv
<1>3. committed' = pending /\ previous' = committed /\ pending' = NoBlock
  BY DEF TransferStep
<1>4. RewritingSlot(t) /\ ValidSlot(param_store[t]) /\ pending = param_store[t].params
  BY <1>2 DEF Replacing, RewritingSlot
<1>5. param_cursor' = 0 /\ param_fram' = param_store
  BY <1>4, TransferMoves
<1>6. /\ param_store \in Store /\ LoadedBlock(param_store) = live
      /\ \A s \in SlotIds : param_store[s].sequence \in Nat
  BY <1>1 DEF PersistenceInv, PersistenceTypeOK, TransferConsistent, Store, Slot
<1>7. \A s \in SlotIds \ {t} :
        /\ param_store[s] = param_fram[s]
        /\ ValidSlot(param_store[s]) => param_store[s].sequence < param_store[t].sequence
  BY <1>2 DEF Replacing, RewritingSlot
<1>8. live = pending /\ pending # NoBlock
  BY <1>4, <1>6, <1>7, NewerLoaded, BlockAssumption DEF ValidSlot
<1>9. Distinct(param_store)
  BY <1>6, <1>7 DEF Distinct, SlotIds
<1>10. Holds(param_store, {pending, committed})
  <2>1. CASE committed = NoBlock
    <3>1. pending = DefaultBlock
      BY <1>2, <2>1 DEF Replacing
    <3> QED
      BY <1>4, <1>7, <2>1, <3>1 DEF RecentInv, Recent, Holds
  <2>2. CASE committed # NoBlock
    BY <1>2, <1>4, <1>7, <2>2 DEF Replacing, Holds
  <2> QED
    BY <2>1, <2>2
<1> QED
  BY <1>1, <1>3, <1>5, <1>8, <1>9, <1>10 DEF RecentInv, Recent

LEMMA RecentInductive ==
  /\ PersistenceInit => RecentInv
  /\ PersistenceInv /\ RecentInv /\ [PersistenceNext]_persistenceVars => RecentInv'
<1>1. PersistenceInit => RecentInv
  BY BlankStoreFacts DEF PersistenceInit, ParamStoreInit, RecentInv, Recent, Holds, Distinct,
                         SlotIds
<1>2. ASSUME PersistenceInv, RecentInv, TransferStep PROVE RecentInv'
  <2>1. param_cursor \in 1 .. 10 /\ LastStep = 10
    BY <1>2, TransferFinds
  <2> QED
    BY <1>2, <2>1, RecentTransfer, RecentCommit
<1>3. RecentInv /\ (PowerLoss \/ UNCHANGED persistenceVars) => RecentInv'
  <2>1. RecentInv /\ PowerLoss => RecentInv'
    BY DEF PowerLoss, ParamPowerLoss, RecentInv, Recent
  <2>2. RecentInv /\ UNCHANGED persistenceVars => RecentInv'
    BY DEF persistenceVars, paramStoreVars, RecentInv, Recent, Replacing, RewritingSlot, Arrived
  <2> QED
    BY <2>1, <2>2
<1> QED
  BY <1>1, <1>2, <1>3, RecentBoot, RecentWrite DEF PersistenceNext

\* A boot after a completed save never reaches back further than the save
\* before it, and never loads a mixture, wherever earlier writes broke off.
THEOREM OneSaveBack == PersistenceSpec => AtMostOneSaveBack
<1> DEFINE Boot == power = "off" /\ power' = "on" /\ committed # NoBlock
           Loaded == live' \in {committed, previous, pending} \ {NoBlock}
<1>1. ASSUME PersistenceInv, RecentInv, PersistenceNext, Boot PROVE Loaded
  <2>1. BootLoad
    BY <1>1 DEF PersistenceNext, WriteParam, TransferStep, PowerLoss
  <2>2. live' = LoadedBlock(param_fram) /\ SomeValid(param_fram) /\ param_fram \in Store
    BY <1>1, <2>1 DEF BootLoad, PersistenceInv, PersistenceTypeOK, SurvivorExists
  <2>3. live' # NoBlock
    BY <2>2, LoadedBlockFacts, BlockAssumption
  <2>4. PICK s \in SlotIds : ValidSlot(param_fram[s]) /\ live' = param_fram[s].params
    BY <2>2, LoadedBlockFacts
  <2>5. live' \in {committed, previous, pending}
    BY <1>1, <2>4 DEF RecentInv, Recent, Holds
  <2> QED
    BY <2>3, <2>5
<1>2. PersistenceInv /\ RecentInv /\ [PersistenceNext]_persistenceVars
        => [Boot => Loaded]_persistenceVars
  BY <1>1
<1>3. PersistenceSpec => []RecentInv
  BY RecentInductive, PersistenceInvariant, PTL DEF PersistenceSpec
<1> QED
  BY <1>2, <1>3, PersistenceInvariant, PTL DEF PersistenceSpec, AtMostOneSaveBack
=============================================================================
