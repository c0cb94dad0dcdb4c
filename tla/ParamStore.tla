---------------------------- MODULE ParamStore ----------------------------
(***************************************************************************)
(* storage/param_store.c over storage/fram.c: two slots, each with its own *)
(* sequence number and checksum, of which a save rewrites the older.       *)
(*                                                                         *)
(* The RAM copy is always written to the FRAM as a whole, in ascending     *)
(* address order, one serial byte at a time: the write is modelled field   *)
(* by field, so that the power may fail between any two fields and inside  *)
(* the parameter block.  Bytes of the other fields are not told apart: a   *)
(* half-written sequence number is below the number of the other slot, and *)
(* a half-written checksum matches nothing, as before its first byte.      *)
(*                                                                         *)
(* The checksum of a block is the block itself (no collisions), and of the *)
(* slot only params is under it, as in make_image.  version and length are *)
(* the same in every image the firmware writes and go with magic.          *)
(***************************************************************************)
EXTENDS Integers, Sequences

CONSTANTS
  Blocks,        \* contents of a sscb_params_t
  DefaultBlock,  \* what sscb_params_load_defaults assigns
  NoBlock        \* neither: blank cells, or a block written in part

ASSUME BlockAssumption == DefaultBlock \in Blocks /\ NoBlock \notin Blocks

VARIABLES
  param_store,   \* sscb_param_store_t in RAM
  param_fram,    \* the cells of the FRAM at SSCB_FRAM_PARAM_STORE_ADDR
  param_cursor   \* step of the FRAM write in progress, 0 if there is none

paramStoreVars == <<param_store, param_fram, param_cursor>>

SlotIds == {"slot_a", "slot_b"}
Slot == [magic : BOOLEAN, sequence : Nat, crc : Blocks \cup {NoBlock},
         params : Blocks \cup {NoBlock}]
Store == [SlotIds -> Slot]

\* A slot nothing was ever written to; also sscb_param_store_init.
BlankSlot == [magic |-> FALSE, sequence |-> 0, crc |-> NoBlock, params |-> NoBlock]
BlankStore == [s \in SlotIds |-> BlankSlot]

\* valid_image
ValidSlot(slot) == slot.magic /\ slot.params \in Blocks /\ slot.crc = slot.params

\* make_image
Image(p, seq) == [magic |-> TRUE, sequence |-> seq, crc |-> p, params |-> p]

\* sscb_param_store_save: an invalid slot counts as sequence 0.
SequenceOf(slot) == IF ValidSlot(slot) THEN slot.sequence ELSE 0

\* Mutant of SavedStore: the newer slot is overwritten.
SavedStoreOverNewest(store, p) ==
  LET seq_a == SequenceOf(store["slot_a"])
      seq_b == SequenceOf(store["slot_b"])
  IN  IF seq_a >= seq_b
        THEN [store EXCEPT !["slot_a"] = Image(p, seq_a + 1)]
        ELSE [store EXCEPT !["slot_b"] = Image(p, seq_b + 1)]

SavedStore(store, p) ==
  LET seq_a == SequenceOf(store["slot_a"])
      seq_b == SequenceOf(store["slot_b"])
  IN  IF seq_a <= seq_b
        THEN [store EXCEPT !["slot_a"] = Image(p, seq_b + 1)]
        ELSE [store EXCEPT !["slot_b"] = Image(p, seq_a + 1)]

\* sscb_param_store_load: the valid slot with the larger sequence number.
SomeValid(store) == ValidSlot(store["slot_a"]) \/ ValidSlot(store["slot_b"])

\* Mutant of LoadedBlock: the comparison is the wrong way round.
LoadedBlockOldest(store) ==
  LET a == store["slot_a"]  b == store["slot_b"]
  IN  IF ValidSlot(a) /\ (~ValidSlot(b) \/ a.sequence <= b.sequence) THEN a.params
      ELSE IF ValidSlot(b) THEN b.params
      ELSE DefaultBlock

\* Mutant of LoadedBlock: the numbers are compared before the checksums.
LoadedBlockNumbersFirst(store) ==
  LET a == store["slot_a"]  b == store["slot_b"]
  IN  IF ValidSlot(a) /\ a.sequence >= b.sequence THEN a.params
      ELSE IF ValidSlot(b) THEN b.params
      ELSE DefaultBlock

LoadedBlock(store) ==
  LET a == store["slot_a"]  b == store["slot_b"]
  IN  IF ValidSlot(a) /\ (~ValidSlot(b) \/ a.sequence >= b.sequence) THEN a.params
      ELSE IF ValidSlot(b) THEN b.params
      ELSE DefaultBlock

-----------------------------------------------------------------------------
\* The order of the fields in memory.  "torn" stands for some, not all, of
\* the bytes of params.
Fields == <<"magic", "sequence", "crc", "torn", "params">>
LastStep == 2 * Len(Fields)
StepSlot(c) == IF c <= Len(Fields) THEN "slot_a" ELSE "slot_b"
StepField(c) == Fields[IF c <= Len(Fields) THEN c ELSE c - Len(Fields)]

ParamStoreInit ==
  /\ param_store = BlankStore
  /\ param_fram = BlankStore
  /\ param_cursor = 0

\* sscb_param_store_save_to_fram up to the first byte on the bus
BeginParamSave(p) ==
  /\ param_cursor = 0
  /\ param_store' = SavedStore(param_store, p)
  /\ param_cursor' = 1
  /\ UNCHANGED param_fram

\* One field of slot s becomes what the image holds.
WrittenSlot(old, new, f) ==
  CASE f = "magic"    -> [old EXCEPT !.magic = new.magic]
    [] f = "sequence" -> [old EXCEPT !.sequence = new.sequence]
    [] f = "crc"      -> [old EXCEPT !.crc = new.crc]
    [] f = "torn"     -> [old EXCEPT !.params =
                            IF old.params = new.params THEN new.params ELSE NoBlock]
    [] f = "params"   -> [old EXCEPT !.params = new.params]

\* sscb_fram_write, the next field
ParamWriteStep ==
  LET s == StepSlot(param_cursor)
  IN  /\ param_cursor # 0
      /\ param_fram' = [param_fram EXCEPT
           ![s] = WrittenSlot(param_fram[s], param_store[s], StepField(param_cursor))]
      /\ param_cursor' = IF param_cursor = LastStep THEN 0 ELSE param_cursor + 1
      /\ UNCHANGED param_store

\* sscb_param_store_load_from_fram: when neither slot is valid the defaults
\* are saved and the write begins.
LoadParams ==
  /\ param_cursor = 0
  /\ IF SomeValid(param_fram)
       THEN param_store' = param_fram /\ UNCHANGED param_cursor
       ELSE param_store' = SavedStore(param_fram, DefaultBlock) /\ param_cursor' = 1
  /\ UNCHANGED param_fram

\* The FRAM keeps its cells, the RAM copy and the transfer are lost.
ParamPowerLoss ==
  /\ param_store' = BlankStore
  /\ param_cursor' = 0
  /\ UNCHANGED param_fram
=============================================================================
