-------------------------- MODULE ParamStoreProofs --------------------------
(***************************************************************************)
(* Facts about the parameter store for any set of blocks, used by the two  *)
(* modules that put a firmware around it.  While a save is under way one   *)
(* slot, the target, is being rewritten: the other is the same in RAM and  *)
(* FRAM, and the target's fields below the cursor have arrived.            *)
(***************************************************************************)
EXTENDS ParamStore, TLAPS

Offset(t) == IF t = "slot_a" THEN 0 ELSE 5

\* The fields of t below the cursor c have been written.
Arrived(fram, t, c) ==
  /\ c > Offset(t) + 1 => fram[t].magic = param_store[t].magic
  /\ c > Offset(t) + 2 => fram[t].sequence = param_store[t].sequence
  /\ c > Offset(t) + 3 => fram[t].crc = param_store[t].crc
  /\ c > Offset(t) + 5 => fram[t].params = param_store[t].params

\* A transfer is rewriting t, and t alone.
RewritingSlot(t) ==
  /\ ValidSlot(param_store[t])
  /\ \A s \in SlotIds \ {t} : param_fram[s] = param_store[s]
  /\ Arrived(param_fram, t, param_cursor)

\* A slot whose checksum was ever written was marked and numbered before that.
Begun(store) ==
  \A s \in SlotIds : store[s].crc \in Blocks => store[s].magic /\ store[s].sequence >= 1

\* Two valid slots are never numbered alike: one of them is the newer.
Distinct(store) ==
  ValidSlot(store["slot_a"]) /\ ValidSlot(store["slot_b"]) =>
    store["slot_a"].sequence # store["slot_b"].sequence

-----------------------------------------------------------------------------
LEMMA FieldsFacts ==
  /\ LastStep = 10
  /\ \A c \in 1 .. 5 : StepSlot(c) = "slot_a" /\ StepField(c) = Fields[c]
  /\ \A c \in 6 .. 10 : StepSlot(c) = "slot_b" /\ StepField(c) = Fields[c - 5]
  /\ Fields[1] = "magic" /\ Fields[2] = "sequence" /\ Fields[3] = "crc"
  /\ Fields[4] = "torn" /\ Fields[5] = "params"
<1>1. Len(Fields) = 5
  BY DEF Fields
<1>2. /\ Fields[1] = "magic" /\ Fields[2] = "sequence" /\ Fields[3] = "crc"
      /\ Fields[4] = "torn" /\ Fields[5] = "params"
  BY DEF Fields
<1> QED
  BY <1>1, <1>2 DEF LastStep, StepSlot, StepField

LEMMA BlankStoreFacts ==
  /\ BlankStore \in Store /\ Begun(BlankStore)
  /\ \A s \in SlotIds : ~ValidSlot(BlankStore[s])
BY BlockAssumption DEF BlankStore, BlankSlot, Store, Slot, Begun, ValidSlot

\* A boot always has a block to run on.
LEMMA LoadedBlockFacts ==
  ASSUME NEW store \in Store
  PROVE  /\ LoadedBlock(store) \in Blocks
         /\ ~SomeValid(store) => LoadedBlock(store) = DefaultBlock
         /\ SomeValid(store) =>
              \E s \in SlotIds : ValidSlot(store[s]) /\ LoadedBlock(store) = store[s].params
BY BlockAssumption DEF LoadedBlock, SomeValid, ValidSlot, SlotIds

\* The newer of two valid slots is loaded.
LEMMA NewerLoaded ==
  ASSUME NEW store \in Store, NEW t \in SlotIds, ValidSlot(store[t]),
         \A s \in SlotIds \ {t} :
            ValidSlot(store[s]) => store[s].sequence < store[t].sequence
  PROVE  LoadedBlock(store) = store[t].params
<1>1. /\ store["slot_a"].sequence \in Nat /\ store["slot_b"].sequence \in Nat
      /\ t \in {"slot_a", "slot_b"}
  BY DEF Store, Slot, SlotIds
<1>2. CASE t = "slot_a"
  BY <1>1, <1>2 DEF LoadedBlock, SlotIds
<1>3. CASE t = "slot_b"
  BY <1>1, <1>3 DEF LoadedBlock, SlotIds
<1> QED
  BY <1>1, <1>2, <1>3

\* A save rewrites one slot with the saved block under the highest number,
\* and if there is a valid slot, the one a boot would load now is the other.
LEMMA SavedStoreFacts ==
  ASSUME NEW store \in Store, NEW p \in Blocks
  PROVE  /\ SavedStore(store, p) \in Store
         /\ LoadedBlock(SavedStore(store, p)) = p
         /\ Begun(store) => Begun(SavedStore(store, p))
         /\ \E t \in SlotIds :
              /\ ValidSlot(SavedStore(store, p)[t])
              /\ SavedStore(store, p)[t].params = p
              /\ \A s \in SlotIds \ {t} :
                    /\ SavedStore(store, p)[s] = store[s]
                    /\ ValidSlot(store[s]) =>
                         store[s].sequence < SavedStore(store, p)[t].sequence
                    /\ SomeValid(store) /\ Begun(store) => ValidSlot(store[s])
                    /\ SomeValid(store) /\ Begun(store) /\ Distinct(store) =>
                         store[s].params = LoadedBlock(store)
<1> DEFINE a == store["slot_a"]
           b == store["slot_b"]
           seq_a == SequenceOf(a)
           seq_b == SequenceOf(b)
           new == SavedStore(store, p)
<1>1. a \in Slot /\ b \in Slot /\ seq_a \in Nat /\ seq_b \in Nat
  BY DEF Store, Slot, SlotIds, SequenceOf
<1>2. \A n \in Nat : Image(p, n) \in Slot /\ ValidSlot(Image(p, n)) /\ Image(p, n).magic
                     /\ Image(p, n).sequence = n /\ Image(p, n).params = p
  BY DEF Image, Slot, ValidSlot
<1>3. CASE seq_a <= seq_b
  <2>1. new = [store EXCEPT !["slot_a"] = Image(p, seq_b + 1)]
    BY <1>3 DEF SavedStore
  <2>2. new \in Store /\ new["slot_a"] = Image(p, seq_b + 1) /\ new["slot_b"] = b
    BY <2>1, <1>1, <1>2 DEF Store, SlotIds
  <2>3. ValidSlot(new["slot_a"]) /\ new["slot_a"].sequence = seq_b + 1
        /\ new["slot_a"].params = p /\ new["slot_a"].magic
    BY <2>2, <1>1, <1>2
  <2>4. ValidSlot(b) => b.sequence = seq_b /\ b.sequence < new["slot_a"].sequence
    BY <1>1, <2>3 DEF SequenceOf
  <2>5. LoadedBlock(new) = p
    BY <2>2, <2>3, <2>4, NewerLoaded DEF SlotIds
  <2>6. SomeValid(store) /\ Begun(store) => ValidSlot(b)
    BY <1>1, <1>3 DEF SomeValid, Begun, SequenceOf, ValidSlot, SlotIds
  <2>7. Begun(store) => Begun(new)
    BY <2>2, <2>3, <1>1 DEF Begun, SlotIds
  <2>8. ASSUME ValidSlot(b), Distinct(store)
        PROVE  b.params = LoadedBlock(store)
    <3>1. ValidSlot(a) => a.sequence < b.sequence
      BY <1>1, <1>3, <2>8 DEF SequenceOf, Distinct, Slot
    <3> QED
      BY <2>8, <3>1, NewerLoaded DEF SlotIds
  <2>9. \A s \in SlotIds \ {"slot_a"} : s = "slot_b"
    BY DEF SlotIds
  <2> QED
    BY <2>2, <2>3, <2>4, <2>5, <2>6, <2>7, <2>8, <2>9 DEF SlotIds
<1>4. CASE ~(seq_a <= seq_b)
  <2>1. new = [store EXCEPT !["slot_b"] = Image(p, seq_a + 1)]
    BY <1>4 DEF SavedStore
  <2>2. new \in Store /\ new["slot_b"] = Image(p, seq_a + 1) /\ new["slot_a"] = a
    BY <2>1, <1>1, <1>2 DEF Store, SlotIds
  <2>3. ValidSlot(new["slot_b"]) /\ new["slot_b"].sequence = seq_a + 1
        /\ new["slot_b"].params = p /\ new["slot_b"].magic
    BY <2>2, <1>1, <1>2
  <2>4. ValidSlot(a) => a.sequence = seq_a /\ a.sequence < new["slot_b"].sequence
    BY <1>1, <2>3 DEF SequenceOf
  <2>5. LoadedBlock(new) = p
    BY <2>2, <2>3, <2>4, NewerLoaded DEF SlotIds
  <2>6. SomeValid(store) /\ Begun(store) => ValidSlot(a)
    BY <1>1, <1>4 DEF SomeValid, Begun, SequenceOf, ValidSlot, SlotIds
  <2>7. Begun(store) => Begun(new)
    BY <2>2, <2>3, <1>1 DEF Begun, SlotIds
  <2>8. ASSUME ValidSlot(a), Distinct(store)
        PROVE  a.params = LoadedBlock(store)
    <3>1. ValidSlot(b) => b.sequence < a.sequence
      BY <1>1, <1>4, <2>8 DEF SequenceOf, Distinct, Slot
    <3> QED
      BY <2>8, <3>1, NewerLoaded DEF SlotIds
  <2>9. \A s \in SlotIds \ {"slot_b"} : s = "slot_a"
    BY DEF SlotIds
  <2> QED
    BY <2>2, <2>3, <2>4, <2>5, <2>6, <2>7, <2>8, <2>9 DEF SlotIds
<1> QED
  BY <1>1, <1>3, <1>4

-----------------------------------------------------------------------------
(* The two ways a write begins, and the step at its cursor.                *)

LEMMA SaveBegins ==
  ASSUME NEW p \in Blocks, param_fram \in Store, Begun(param_fram),
         param_store' = SavedStore(param_fram, p), param_cursor' = 1, UNCHANGED param_fram
  PROVE  /\ param_store' \in Store /\ Begun(param_store')
         /\ LoadedBlock(param_store') = p
         /\ \E t \in SlotIds :
              /\ RewritingSlot(t)'
              /\ param_store'[t].params = p
              /\ \A s \in SlotIds \ {t} :
                    /\ ValidSlot(param_store'[s]) =>
                         param_store'[s].sequence < param_store'[t].sequence
                    /\ SomeValid(param_fram) => ValidSlot(param_fram[s])
                    /\ SomeValid(param_fram) /\ Distinct(param_fram) =>
                         param_fram[s].params = LoadedBlock(param_fram)
<1>1. PICK t \in SlotIds :
        /\ ValidSlot(SavedStore(param_fram, p)[t])
        /\ SavedStore(param_fram, p)[t].params = p
        /\ \A s \in SlotIds \ {t} :
              /\ SavedStore(param_fram, p)[s] = param_fram[s]
              /\ ValidSlot(param_fram[s]) =>
                   param_fram[s].sequence < SavedStore(param_fram, p)[t].sequence
              /\ SomeValid(param_fram) => ValidSlot(param_fram[s])
              /\ SomeValid(param_fram) /\ Distinct(param_fram) =>
                   param_fram[s].params = LoadedBlock(param_fram)
  BY SavedStoreFacts
<1>2. RewritingSlot(t)'
  BY <1>1 DEF RewritingSlot, Arrived, Offset
<1> QED
  BY <1>1, <1>2, SavedStoreFacts

\* A field write keeps a slot a slot, and changes nothing in a slot that is
\* already what it should be.
LEMMA WrittenSlotFacts ==
  ASSUME NEW old \in Slot, NEW new \in Slot,
         NEW f \in {"magic", "sequence", "crc", "torn", "params"}
  PROVE  /\ WrittenSlot(old, new, f) \in Slot
         /\ old = new => WrittenSlot(old, new, f) = old
         /\ WrittenSlot(old, new, f).sequence \in {old.sequence, new.sequence}
BY DEF WrittenSlot, Slot

\* The state of the two copies while t is being rewritten.
Writing(t) ==
  /\ param_store \in Store /\ param_fram \in Store
  /\ Begun(param_store) /\ Begun(param_fram)
  /\ param_cursor \in 1 .. LastStep
  /\ RewritingSlot(t)

\* The step leaves the other slot alone and lets the target's field arrive.
\* As long as the checksum has not, a target that passes its checksum holds
\* the block it held before.
LEMMA StepArrives ==
  ASSUME NEW t \in SlotIds, Writing(t), ParamWriteStep
  PROVE  /\ param_fram' \in Store
         /\ Begun(param_fram')
         /\ \A s \in SlotIds \ {t} : param_fram'[s] = param_fram[s]
         /\ param_cursor < LastStep => Arrived(param_fram', t, param_cursor + 1)
         /\ param_cursor = LastStep => param_fram'[t] = param_store[t]
         /\ param_fram'[t].sequence \in {param_fram[t].sequence, param_store[t].sequence}
         /\ param_cursor <= Offset(t) + 2 /\ ValidSlot(param_fram'[t]) =>
              ValidSlot(param_fram[t]) /\ param_fram'[t].params = param_fram[t].params
<1> DEFINE c == param_cursor
           s == StepSlot(c)
           f == StepField(c)
           old == param_fram[s]
           new == param_store[s]
<1>1. /\ c \in 1 .. 10 /\ LastStep = 10
      /\ param_fram \in Store /\ param_store \in Store /\ param_store' = param_store
      /\ Begun(param_fram) /\ Begun(param_store)
  BY FieldsFacts DEF Writing, ParamWriteStep
<1>2. /\ s \in SlotIds
      /\ f \in {"magic", "sequence", "crc", "torn", "params"}
      /\ param_fram' = [param_fram EXCEPT ![s] = WrittenSlot(old, new, f)]
  BY <1>1, FieldsFacts DEF ParamWriteStep, SlotIds
<1>3. old \in Slot /\ new \in Slot /\ param_fram[t] \in Slot /\ param_store[t] \in Slot
  BY <1>1, <1>2 DEF Store
<1>4. WrittenSlot(old, new, f) \in Slot
  BY <1>2, <1>3, WrittenSlotFacts
<1>5. param_fram' \in Store
  BY <1>1, <1>2, <1>4 DEF Store
<1>6. CASE s # t
  <2>1. old = new
    BY <1>2, <1>6 DEF Writing, RewritingSlot
  <2>2. WrittenSlot(old, new, f) = old
    BY <1>2, <1>3, <2>1, WrittenSlotFacts
  <2>3. param_fram' = param_fram
    BY <1>1, <1>2, <2>2 DEF Store
  <2>4. t \in {"slot_a", "slot_b"} /\ (t = "slot_a" => c \in 6 .. 10)
        /\ (t = "slot_b" => c \in 1 .. 5)
    BY <1>1, <1>6, FieldsFacts DEF SlotIds
  <2>5. c < 10 => Arrived(param_fram', t, c + 1)
    BY <1>1, <2>3, <2>4 DEF Writing, RewritingSlot, Arrived, Offset
  <2>6. c = 10 => param_fram[t] = param_store[t]
    BY <1>1, <1>3, <2>4 DEF Writing, RewritingSlot, Arrived, Offset, Slot
  <2> QED
    BY <1>1, <1>5, <2>3, <2>5, <2>6
<1>7. CASE s = t
  <2> DEFINE k == c - Offset(t)
  <2>1. k \in 1 .. 5 /\ f = Fields[k] /\ Offset(t) \in {0, 5} /\ (c = 10 => k = 5)
    BY <1>1, <1>7, FieldsFacts DEF SlotIds, Offset
  <2>2. /\ param_fram'[t] = WrittenSlot(old, new, f)
        /\ \A r \in SlotIds \ {t} : param_fram'[r] = param_fram[r]
    BY <1>1, <1>2, <1>7 DEF Store
  <2>3. new.crc \in Blocks /\ new.sequence >= 1
    BY <1>1, <1>7 DEF Writing, RewritingSlot, ValidSlot, Begun
  <2>4. Arrived(param_fram, t, c)
    BY DEF Writing, RewritingSlot
  <2>5. /\ k > 1 => old.magic = new.magic
        /\ k > 2 => old.sequence = new.sequence
        /\ k > 3 => old.crc = new.crc
    BY <1>1, <1>7, <2>1, <2>4 DEF Arrived
  <2> HIDE DEF k
  <2>6. /\ k >= 1 => param_fram'[t].magic = new.magic
        /\ k >= 2 => param_fram'[t].sequence = new.sequence
        /\ k >= 3 => param_fram'[t].crc = new.crc
        /\ k = 5 => param_fram'[t].params = new.params
        /\ param_fram'[t] \in Slot
        /\ param_fram'[t].crc \in Blocks => param_fram'[t].sequence >= 1
    <3>1. old.crc \in Blocks => old.sequence >= 1
      BY <1>1, <1>2 DEF Begun
    <3>2. CASE k = 1
      <4>1. param_fram'[t] = [old EXCEPT !.magic = new.magic]
        <5>1. f = "magic"
          BY <2>1, <3>2, FieldsFacts
        <5> QED
          BY <1>3, <2>2, <5>1 DEF WrittenSlot, Slot
      <4> QED
        BY <1>3, <3>1, <3>2, <4>1 DEF Slot
    <3>3. CASE k = 2
      <4>1. param_fram'[t] = [old EXCEPT !.sequence = new.sequence]
        <5>1. f = "sequence"
          BY <2>1, <3>3, FieldsFacts
        <5> QED
          BY <1>3, <2>2, <5>1 DEF WrittenSlot, Slot
      <4> QED
        BY <1>3, <2>3, <2>5, <3>3, <4>1 DEF Slot
    <3>4. CASE k = 3
      <4>1. param_fram'[t] = [old EXCEPT !.crc = new.crc]
        <5>1. f = "crc"
          BY <2>1, <3>4, FieldsFacts
        <5> QED
          BY <1>3, <2>2, <5>1 DEF WrittenSlot, Slot
      <4> QED
        BY <1>3, <2>3, <2>5, <3>4, <4>1 DEF Slot
    <3>5. CASE k = 4
      <4>1. PICK p \in Blocks \cup {NoBlock} :
              param_fram'[t] = [old EXCEPT !.params = p]
        <5>1. f = "torn"
          BY <2>1, <3>5, FieldsFacts
        <5> QED
          BY <1>3, <2>2, <5>1 DEF WrittenSlot, Slot
      <4> QED
        BY <1>3, <2>3, <2>5, <3>5, <4>1 DEF Slot
    <3>6. CASE k = 5
      <4>1. param_fram'[t] = [old EXCEPT !.params = new.params]
        <5>1. f = "params"
          BY <2>1, <3>6, FieldsFacts
        <5> QED
          BY <1>3, <2>2, <5>1 DEF WrittenSlot, Slot
      <4> QED
        BY <1>3, <2>3, <2>5, <3>6, <4>1 DEF Slot
    <3> QED
      BY <2>1, <3>2, <3>3, <3>4, <3>5, <3>6
  <2>7. c < 10 => Arrived(param_fram', t, c + 1)
    BY <1>1, <1>7, <2>1, <2>6 DEF Arrived, k
  <2>8. c = 10 => param_fram'[t] = param_store[t]
    BY <1>3, <1>7, <2>1, <2>6 DEF Slot
  <2>9. Begun(param_fram')
    <3>1. new.magic
      BY <1>7 DEF Writing, RewritingSlot, ValidSlot
    <3>2. param_fram'[t].magic = new.magic
      BY <2>1, <2>6
    <3>3. param_fram'[t].magic
      BY <3>1, <3>2
    <3>4. \A r \in SlotIds \ {t} : param_fram'[r].crc \in Blocks =>
              param_fram'[r].magic /\ param_fram'[r].sequence >= 1
      BY <1>1, <2>2 DEF Begun
    <3>5. param_fram'[t].crc \in Blocks => param_fram'[t].sequence >= 1
      BY <2>6
    <3> QED
      BY <3>3, <3>4, <3>5 DEF Begun
  <2>10. ASSUME c <= Offset(t) + 2, ValidSlot(param_fram'[t])
         PROVE  ValidSlot(old) /\ param_fram'[t].params = old.params
    <3>1. k = 1 \/ k = 2
      BY <1>1, <2>1, <2>10 DEF k
    <3>2. CASE k = 1
      <4>1. f = "magic"
        BY <2>1, <3>2, FieldsFacts
      <4>2. /\ param_fram'[t].crc = old.crc /\ param_fram'[t].params = old.params
        BY <1>3, <2>2, <4>1 DEF WrittenSlot, Slot
      <4>3. old.magic
        BY <1>1, <1>2, <2>10, <4>2 DEF ValidSlot, Begun
      <4> QED
        BY <2>10, <4>2, <4>3 DEF ValidSlot
    <3>3. CASE k = 2
      <4>1. f = "sequence"
        BY <2>1, <3>3, FieldsFacts
      <4>2. /\ param_fram'[t].crc = old.crc /\ param_fram'[t].params = old.params
            /\ param_fram'[t].magic = old.magic
        BY <1>3, <2>2, <4>1 DEF WrittenSlot, Slot
      <4> QED
        BY <2>10, <4>2 DEF ValidSlot
    <3> QED
      BY <3>1, <3>2, <3>3
  <2>11. param_fram'[t].sequence \in {old.sequence, new.sequence}
    BY <1>2, <1>3, <2>2, WrittenSlotFacts
  <2> QED
    BY <1>1, <1>5, <1>7, <2>2, <2>7, <2>8, <2>9, <2>10, <2>11
<1> QED
  BY <1>6, <1>7
=============================================================================
