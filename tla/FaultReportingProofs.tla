------------------------ MODULE FaultReportingProofs ------------------------
(***************************************************************************)
(* Proofs about the fault log's ring, the time base and FaultReporting for *)
(* every value of their constants: the ring implements the history of the  *)
(* last CAPACITY records, the time stamps are exact, and from a fault to   *)
(* the host's list a record is reported once, as news, unless a clear      *)
(* hides it.  Reporting implements the ring and the time base it is built  *)
(* from, so that what is proved of those holds of it.                      *)
(***************************************************************************)
EXTENDS FaultReporting, SequenceTheorems, TLAPS

-----------------------------------------------------------------------------
(* The ring: it keeps its types, its two readers agree, and it implements  *)
(* the history.  The only arithmetic is that the sums the code reduces are *)
(* below twice CAPACITY.                                                   *)

\* The remainder of a sum below twice CAPACITY.
Fold(n) == IF n < CAPACITY THEN n ELSE n - CAPACITY

LEMMA WrapOnce ==
  ASSUME NEW n \in 0 .. 2 * CAPACITY - 1
  PROVE  n % CAPACITY = Fold(n)
BY CapacityAssumption DEF Fold

LEMMA NewestArithmetic ==
  ASSUME NEW w \in 0 .. CAPACITY - 1, NEW count \in Nat
  PROVE  /\ Fold(w + 1) \in 0 .. CAPACITY - 1
         /\ Fold(Fold(w + 1) + CAPACITY - count + (count - 1)) = w
BY CapacityAssumption DEF Fold

LEMMA AppendArithmetic ==
  ASSUME NEW w \in 0 .. CAPACITY - 1, NEW count \in 0 .. CAPACITY,
         NEW lost \in {0, 1}, lost = 0 <=> count < CAPACITY,
         NEW k \in 0 .. count - 1 - lost
  PROVE  /\ Fold(w + CAPACITY - count + (k + lost)) =
              Fold(Fold(w + 1) + CAPACITY - (count + 1 - lost) + k)
         /\ Fold(w + CAPACITY - count + (k + lost)) # w
<1>1. CAPACITY \in Nat \ {0}
  BY CapacityAssumption
<1>2. CASE lost = 0
  BY <1>1, <1>2 DEF Fold
<1>3. CASE lost = 1
  BY <1>1, <1>3 DEF Fold
<1> QED
  BY <1>2, <1>3

\* A ring with any kind of record.
RingOf(R) ==
  [records     : [0 .. CAPACITY - 1 -> R],
   write_index : 0 .. CAPACITY - 1,
   count       : 0 .. CAPACITY,
   total_count : 0 .. TotalMod - 1]

LEMMA FaultLogIsRing == FaultLogType = RingOf(FaultRecord)
BY DEF FaultLogType, RingOf

\* Where the k-th oldest record lies, without the remainder.
LEMMA Positions ==
  ASSUME NEW R, NEW l \in RingOf(R), NEW k \in 0 .. l.count - 1
  PROVE  LET n == l.write_index + CAPACITY - l.count + k
         IN  /\ LogChronological(l, k) =
                  l.records[Fold(n)]
             /\ Fold(n) \in 0 .. CAPACITY - 1
             /\ LogChronological(l, k) \in R
<1> DEFINE n == l.write_index + CAPACITY - l.count + k
<1>1. /\ CAPACITY \in Nat \ {0} /\ l.write_index \in 0 .. CAPACITY - 1
      /\ l.count \in 0 .. CAPACITY /\ l.records \in [0 .. CAPACITY - 1 -> R]
  BY CapacityAssumption DEF RingOf
<1>2. n \in 0 .. 2 * CAPACITY - 1
  <2> DEFINE w == l.write_index
             c == l.count
  <2> HIDE DEF w, c
  <2>1. CAPACITY \in Nat \ {0} /\ w \in 0 .. CAPACITY - 1 /\ c \in 0 .. CAPACITY
        /\ k \in 0 .. c - 1
    BY <1>1 DEF w, c
  <2>2. w + CAPACITY - c + k \in 0 .. 2 * CAPACITY - 1
    BY <2>1
  <2> QED
    BY <2>2 DEF w, c
<1>5. LogChronological(l, k) = l.records[n % CAPACITY]
  BY DEF LogChronological
<1> HIDE DEF n
<1>3. n % CAPACITY = Fold(n)
  BY <1>2, WrapOnce
<1>4. Fold(n) \in 0 .. CAPACITY - 1
  BY <1>1, <1>2 DEF Fold
<1>6. l.records[Fold(n)] \in R
  BY <1>1, <1>4
<1> QED
  BY <1>3, <1>4, <1>5, <1>6 DEF n

\* An append is the newest record, and moves the older ones down by one
\* index exactly when the ring was full.
LEMMA AppendShifts ==
  ASSUME NEW R, NEW l \in RingOf(R), NEW rec \in R
  PROVE  LET new == LogAppend(l, rec)
             lost == IF l.count < CAPACITY THEN 0 ELSE 1
         IN  /\ new \in RingOf(R)
             /\ new.count = l.count + 1 - lost
             /\ \A k \in 0 .. new.count - 2 :
                  LogChronological(new, k) = LogChronological(l, k + lost)
             /\ LogChronological(new, new.count - 1) = rec
<1> DEFINE new == LogAppend(l, rec)
           lost == IF l.count < CAPACITY THEN 0 ELSE 1
           w == l.write_index
<1>1. /\ CAPACITY \in Nat \ {0} /\ TotalMod \in Nat \ {0} /\ w \in 0 .. CAPACITY - 1
      /\ l.count \in 0 .. CAPACITY /\ l.total_count \in 0 .. TotalMod - 1
      /\ l.records \in [0 .. CAPACITY - 1 -> R]
  BY CapacityAssumption DEF RingOf
<1>2. (w + 1) % CAPACITY = Fold(w + 1)
  <2>1. w + 1 \in 0 .. 2 * CAPACITY - 1
    BY <1>1
  <2> QED
    BY <1>1, <2>1, WrapOnce
<1>3. /\ new.records = [l.records EXCEPT ![w] = rec]
      /\ new.write_index = Fold(w + 1)
      /\ new.count = l.count + 1 - lost
  BY <1>1, <1>2 DEF LogAppend
<1>4. new \in RingOf(R)
  <2>1. (l.total_count + 1) % TotalMod \in 0 .. TotalMod - 1
    BY <1>1
  <2>2. new.write_index \in 0 .. CAPACITY - 1
    BY <1>1, <1>3, NewestArithmetic
  <2>3. new.count \in 0 .. CAPACITY
    BY <1>1, <1>3
  <2>4. new.records \in [0 .. CAPACITY - 1 -> R]
    BY <1>1, <1>3
  <2> QED
    BY <2>1, <2>2, <2>3, <2>4 DEF LogAppend, RingOf
<1>5. ASSUME NEW k \in 0 .. new.count - 2
      PROVE  LogChronological(new, k) = LogChronological(l, k + lost)
  <2> DEFINE n == w + CAPACITY - l.count + (k + lost)
             m == new.write_index + CAPACITY - new.count + k
             p == Fold(n)
             q == Fold(m)
  <2>1. k \in 0 .. new.count - 1 /\ k + lost \in 0 .. l.count - 1
    BY <1>1, <1>3
  <2>2. /\ LogChronological(l, k + lost) = l.records[p]
        /\ p \in 0 .. CAPACITY - 1
        /\ LogChronological(new, k) = new.records[q]
        /\ q \in 0 .. CAPACITY - 1
    BY <1>4, <2>1, Positions
  <2>3. p = q /\ p # w
    <3>1. /\ w \in 0 .. CAPACITY - 1 /\ l.count \in 0 .. CAPACITY /\ lost \in {0, 1}
          /\ lost = 0 <=> l.count < CAPACITY
          /\ k \in 0 .. l.count - 1 - lost
      BY <1>1, <1>3
    <3> QED
      BY <1>3, <3>1, AppendArithmetic
  <2> QED
    BY <1>1, <1>3, <2>2, <2>3
<1>6. LogChronological(new, new.count - 1) = rec
  <2> DEFINE m == new.write_index + CAPACITY - new.count + (new.count - 1)
             q == Fold(m)
  <2>1. new.count - 1 \in 0 .. new.count - 1
    BY <1>1, <1>3
  <2>2. LogChronological(new, new.count - 1) = new.records[q]
    BY <1>4, <2>1, Positions
  <2>3. new.count \in Nat
    BY <1>1, <1>3
  <2>4. q = w
    BY <1>1, <1>3, <2>3, NewestArithmetic
  <2> QED
    BY <1>1, <1>3, <2>2, <2>4
<1> QED
  BY <1>3, <1>4, <1>5, <1>6

\* The retrieved records as a sequence over any set that holds them.
LEMMA RetrievedIsSequence ==
  ASSUME log \in FaultLogType
  PROVE  /\ Retrieved \in Seq(FaultRecord) /\ Len(Retrieved) = log.count
         /\ \A i \in 1 .. log.count : Retrieved[i] = LogChronological(log, i - 1)
<1>1. log.count \in Nat
  BY CapacityAssumption DEF FaultLogType
<1>2. \A i \in 1 .. log.count : LogChronological(log, i - 1) \in FaultRecord
  <2>1. TAKE i \in 1 .. log.count
  <2>2. i - 1 \in 0 .. log.count - 1
    BY <1>1
  <2> QED
    BY <2>2, Positions, FaultLogIsRing
<1> QED
  BY <1>1, <1>2 DEF Retrieved

\* The records fit their types: the write index stays inside the ring.
THEOREM RingTyped == RingSpec => []RingTypeOK
<1>1. RingInit => RingTypeOK
  BY CapacityAssumption
     DEF RingInit, RingTypeOK, EmptyLog, FaultLogType, FaultRecord, ZeroRecord, Faults, States
<1>2. RingTypeOK /\ [RingNext]_log => RingTypeOK'
  <2>1. CASE ClearLog
    BY <2>1, CapacityAssumption
       DEF ClearLog, RingTypeOK, EmptyLog, FaultLogType, FaultRecord, ZeroRecord, Faults, States
  <2>2. ASSUME RingTypeOK, NEW rec \in Records, AppendRecord(rec)
        PROVE  RingTypeOK'
    BY <2>2, RecordsAssumption, AppendShifts, FaultLogIsRing DEF AppendRecord, RingTypeOK
  <2> QED
    BY <2>1, <2>2 DEF RingNext, RingTypeOK
<1> QED
  BY <1>1, <1>2, PTL DEF RingSpec

\* The two readers agree on every reachable log.
THEOREM ReadersConsistent == RingSpec => []ReadersAgree
<1>1. RingTypeOK => ReadersAgree
  <2> SUFFICES ASSUME log \in FaultLogType, NEW k \in 0 .. log.count - 1
               PROVE  LogLatest(log, k) = LogChronological(log, log.count - 1 - k)
    BY DEF RingTypeOK, ReadersAgree
  <2>1. log.count \in 0 .. CAPACITY /\ CAPACITY \in Nat /\ log.write_index \in 0 .. CAPACITY - 1
    BY CapacityAssumption DEF FaultLogType
  <2>2. log.write_index + CAPACITY - 1 - k =
        log.write_index + CAPACITY - log.count + (log.count - 1 - k)
    BY <2>1
  <2> QED
    BY <2>2 DEF LogLatest, LogChronological
<1> QED
  BY <1>1, RingTyped, PTL

\* The ring implements the history of the last CAPACITY records, for every
\* capacity and however often the index and the running total wrap.
THEOREM RingKeepsHistory == RingSpec => KeepsHistory
<1>1. RingInit => History!HistoryInit
  BY CapacityAssumption, RetrievedIsSequence
     DEF RingInit, History!HistoryInit, Retrieved, EmptyLog
<1>2. RingTypeOK /\ RingTypeOK' /\ [RingNext]_log => [History!HistoryNext]_Retrieved
  <2> SUFFICES ASSUME log \in FaultLogType, log' \in FaultLogType, [RingNext]_log
               PROVE  [History!HistoryNext]_Retrieved
    BY DEF RingTypeOK
  <2>1. CASE UNCHANGED log
    BY <2>1 DEF Retrieved
  <2>2. CASE ClearLog
    BY <2>2 DEF ClearLog, EmptyLog, Retrieved, History!HistoryNext, History!Forget
  <2>3. ASSUME NEW rec \in Records, AppendRecord(rec)
        PROVE  History!Remember(rec)
    <3> DEFINE S == FaultRecord
               lost == IF log.count < CAPACITY THEN 0 ELSE 1
    <3>1. /\ rec \in FaultRecord /\ log' = LogAppend(log, rec)
          /\ log.count \in 0 .. CAPACITY /\ CAPACITY \in Nat \ {0}
      BY <2>3, RecordsAssumption, CapacityAssumption DEF AppendRecord, FaultLogType
    <3>2. /\ log'.count = log.count + 1 - lost
          /\ \A k \in 0 .. log'.count - 2 :
               LogChronological(log', k) = LogChronological(log, k + lost)
          /\ LogChronological(log', log'.count - 1) = rec
      BY <3>1, AppendShifts, FaultLogIsRing
    <3>3. /\ Retrieved \in Seq(S) /\ Len(Retrieved) = log.count
          /\ \A i \in 1 .. log.count : Retrieved[i] = LogChronological(log, i - 1)
      BY RetrievedIsSequence
    <3>4. /\ Retrieved' \in Seq(S) /\ Len(Retrieved') = log'.count
          /\ \A i \in 1 .. log'.count : Retrieved'[i] = LogChronological(log', i - 1)
      <4>1. log'.count \in Nat
        BY <3>1, <3>2
      <4>2. \A i \in 1 .. log'.count : LogChronological(log', i - 1) \in FaultRecord
        <5>1. TAKE i \in 1 .. log'.count
        <5>2. i - 1 \in 0 .. log'.count - 1
          BY <4>1
        <5> QED
          BY <5>2, Positions, FaultLogIsRing
      <4> QED
        BY <4>1, <4>2 DEF Retrieved
    <3>5. CASE log.count < CAPACITY
      <4>1. /\ Append(Retrieved, rec) \in Seq(S)
            /\ Len(Append(Retrieved, rec)) = Len(Retrieved) + 1
            /\ \A i \in 1 .. Len(Retrieved) : Append(Retrieved, rec)[i] = Retrieved[i]
            /\ Append(Retrieved, rec)[Len(Retrieved) + 1] = rec
        BY <3>1, <3>3, AppendProperties
      <4>2. Retrieved' = Append(Retrieved, rec)
        <5>1. Len(Retrieved') = Len(Append(Retrieved, rec))
          BY <3>1, <3>2, <3>3, <3>4, <3>5, <4>1
        <5>2. \A i \in 1 .. Len(Retrieved') : Retrieved'[i] = Append(Retrieved, rec)[i]
          <6>1. TAKE i \in 1 .. Len(Retrieved')
          <6>2. CASE i <= log.count
            <7>1. i - 1 \in 0 .. log'.count - 2 /\ (i - 1) + lost = i - 1
                  /\ i \in 1 .. log.count /\ i \in 1 .. log'.count
              BY <3>1, <3>2, <3>4, <3>5, <6>2
            <7> QED
              BY <3>2, <3>3, <3>4, <4>1, <7>1
          <6>3. CASE i = log.count + 1
            <7>1. i - 1 = log'.count - 1 /\ i \in 1 .. log'.count
              BY <3>1, <3>2, <3>4, <3>5, <6>3
            <7> QED
              BY <3>2, <3>3, <3>4, <4>1, <6>3, <7>1
          <6>4. i <= log.count \/ i = log.count + 1
            <7>1. Len(Retrieved') = log.count + 1 /\ log.count \in Nat
              BY <3>1, <3>2, <3>4, <3>5
            <7> QED
              BY <6>1, <7>1
          <6> QED
            BY <6>2, <6>3, <6>4
        <5> QED
          BY <3>4, <4>1, <5>1, <5>2, SeqEqual
      <4> QED
        BY <3>3, <3>5, <4>2 DEF History!Remember
    <3>6. CASE ~(log.count < CAPACITY)
      <4> DEFINE older == Tail(Retrieved)
      <4>1. /\ older \in Seq(S) /\ Len(older) = log.count - 1
            /\ \A i \in 1 .. log.count - 1 : older[i] = Retrieved[i + 1]
        BY <3>1, <3>3, <3>6, HeadTailProperties, EmptySeq
      <4>2. /\ Append(older, rec) \in Seq(S)
            /\ Len(Append(older, rec)) = Len(older) + 1
            /\ \A i \in 1 .. Len(older) : Append(older, rec)[i] = older[i]
            /\ Append(older, rec)[Len(older) + 1] = rec
        BY <3>1, <4>1, AppendProperties
      <4> HIDE DEF older
      <4>3. Retrieved' = Append(older, rec)
        <5>1. Len(Retrieved') = Len(Append(older, rec))
          BY <3>1, <3>2, <3>4, <3>6, <4>1, <4>2
        <5>2. \A i \in 1 .. Len(Retrieved') : Retrieved'[i] = Append(older, rec)[i]
          <6>1. TAKE i \in 1 .. Len(Retrieved')
          <6>2. CASE i <= log.count - 1
            <7>1. /\ i - 1 \in 0 .. log'.count - 2 /\ (i - 1) + lost = (i + 1) - 1
                  /\ i \in 1 .. log.count - 1 /\ i \in 1 .. log'.count
                  /\ i + 1 \in 1 .. log.count
              BY <3>1, <3>2, <3>4, <3>6, <6>2
            <7> QED
              BY <3>2, <3>3, <3>4, <4>1, <4>2, <7>1
          <6>3. CASE i = log.count
            <7>1. i - 1 = log'.count - 1 /\ i \in 1 .. log'.count
              BY <3>1, <3>2, <3>4, <3>6, <6>3
            <7> QED
              BY <3>1, <3>2, <3>4, <4>1, <4>2, <6>3, <7>1
          <6>4. i <= log.count - 1 \/ i = log.count
            <7>1. Len(Retrieved') = log.count /\ log.count \in Nat
              BY <3>1, <3>2, <3>4, <3>6
            <7> QED
              BY <6>1, <7>1
          <6> QED
            BY <6>2, <6>3, <6>4
        <5> QED
          BY <3>4, <4>2, <5>1, <5>2, SeqEqual
      <4> QED
        BY <3>3, <3>6, <4>3 DEF History!Remember, older
    <3> QED
      BY <3>5, <3>6
  <2> QED
    BY <2>1, <2>2, <2>3 DEF RingNext, History!HistoryNext
<1> QED
  BY <1>1, <1>2, RingTyped, PTL DEF RingSpec, KeepsHistory, History!HistorySpec

-----------------------------------------------------------------------------
(* The time base.                                                          *)

\* Milliseconds the counter must have counted since the second that the last
\* synchronisation named.
Elapsed == KnownTime - synced_at

TimebaseTypes ==
  /\ local_ms \in 0 .. Word - 1 /\ sync_local_ms \in 0 .. Word - 1
  /\ synced \in BOOLEAN
  /\ {unix_sec, now, synced_at, delay} \subseteq Nat

\* The counter and its value at the named second are Elapsed apart, but for
\* one wrap: of local_ms since the synchronisation, or of the subtraction in
\* it when the counter had not reached the milliseconds of the message.
OneWrap ==
  synced =>
    /\ unix_sec * Second = synced_at
    /\ Elapsed >= 0
    /\ Elapsed < Word => local_ms - sync_local_ms \in {Elapsed, Elapsed - Word}

TimebaseInductive == TimebaseTypes /\ OneWrap

\* The remainder of a number a word or less from the range of remainders.
LEMMA RemainderOfOneWrap ==
  ASSUME NEW w \in Nat \ {0}, NEW x \in Int
  PROVE  /\ x \in 0 .. w - 1 => x % w = x
         /\ x + w \in 0 .. w - 1 => x % w = x + w
         /\ x - w \in 0 .. w - 1 => x % w = x - w
         /\ x % w \in 0 .. w - 1
BY SMTT(60)

\* Whole seconds and the rest make up the time.
LEMMA SecondsAndRest ==
  ASSUME NEW t \in Nat, NEW s \in Nat \ {0}
  PROVE  /\ t \div s \in Nat /\ t % s \in 0 .. s - 1
         /\ (t \div s) * s = t - (t % s)
BY SMTT(60)

LEMMA TimebaseInitInductive == TimebaseInit => TimebaseInductive
<1> SUFFICES ASSUME TimebaseInit PROVE TimebaseInductive
  OBVIOUS
<1>1. Word \in Nat /\ 0 \in 0 .. Word - 1 /\ 0 .. Second \subseteq Nat
  BY TimebaseAssumption
<1>2. TimebaseTypes
  <2>1. synced \in BOOLEAN
    BY DEF TimebaseInit
  <2>2. {unix_sec, now, synced_at, delay} \subseteq Nat
    BY <1>1 DEF TimebaseInit
  <2> QED
    BY <1>1, <2>1, <2>2 DEF TimebaseInit, TimebaseTypes
<1>3. OneWrap
  BY DEF TimebaseInit, OneWrap
<1> QED
  BY <1>2, <1>3 DEF TimebaseInductive

LEMMA TickInductive == TimebaseInductive /\ TickMs => TimebaseInductive'
<1> SUFFICES ASSUME TimebaseInductive, TickMs
             PROVE  TimebaseInductive'
  OBVIOUS
<1> USE TimebaseAssumption DEF TimebaseInductive
<1>1. /\ local_ms \in 0 .. Word - 1 /\ now' = now + 1
      /\ UNCHANGED <<unix_sec, sync_local_ms, synced, synced_at, delay>>
      /\ local_ms' = (local_ms + 1) % Word
  BY DEF TickMs, TimebaseTypes
<1>2. \/ local_ms < Word - 1 /\ local_ms' = local_ms + 1
      \/ local_ms = Word - 1 /\ local_ms' = 0
  <2> DEFINE x == local_ms + 1
  <2>1. x \in Int /\ Word \in Nat \ {0} /\ local_ms' = x % Word
        /\ (x \in 0 .. Word - 1 \/ x - Word \in 0 .. Word - 1)
    BY <1>1
  <2> HIDE DEF x
  <2>2. \/ x \in 0 .. Word - 1 /\ x % Word = x
        \/ x - Word \in 0 .. Word - 1 /\ x % Word = x - Word
    BY <2>1, RemainderOfOneWrap
  <2> QED
    BY <1>1, <2>1, <2>2 DEF x
<1>3. TimebaseTypes'
  BY <1>1, <1>2 DEF TimebaseTypes
<1>4. OneWrap'
  BY <1>1, <1>2 DEF OneWrap, TimebaseTypes, Elapsed, KnownTime
<1> QED
  BY <1>3, <1>4

LEMMA SyncInductive ==
  ASSUME TimebaseInductive, NEW sent \in 0 .. now, Sync(sent)
  PROVE  TimebaseInductive'
<1> USE TimebaseAssumption DEF TimebaseInductive
<1> DEFINE rest == sent % Second
<1>1. /\ sent \div Second \in Nat /\ rest \in 0 .. Second - 1
      /\ (sent \div Second) * Second = sent - rest
  <2>1. sent \in Nat /\ Second \in Nat \ {0}
    BY DEF TimebaseTypes
  <2> QED
    BY <2>1, SecondsAndRest
<1>2. /\ local_ms \in 0 .. Word - 1 /\ UNCHANGED <<local_ms, now>>
      /\ synced' = TRUE /\ unix_sec' = sent \div Second
      /\ synced_at' = sent - rest /\ delay' = now - sent
      /\ sync_local_ms' = (local_ms - rest) % Word
      /\ now \in Nat
  BY DEF Sync, TimebaseTypes
<1> HIDE DEF rest
<1>3. \/ local_ms >= rest /\ sync_local_ms' = local_ms - rest
      \/ local_ms < rest /\ sync_local_ms' = local_ms - rest + Word
  <2> DEFINE x == local_ms - rest
  <2>1. x \in Int /\ Word \in Nat \ {0} /\ sync_local_ms' = x % Word
        /\ (x \in 0 .. Word - 1 \/ x + Word \in 0 .. Word - 1)
    BY <1>1, <1>2
  <2> HIDE DEF x
  <2>2. \/ x \in 0 .. Word - 1 /\ x % Word = x
        \/ x + Word \in 0 .. Word - 1 /\ x % Word = x + Word
    BY <2>1, RemainderOfOneWrap
  <2> QED
    BY <1>1, <1>2, <2>1, <2>2 DEF x
<1>4. TimebaseTypes'
  <2>1. sent - rest \in Nat
    BY <1>1
  <2> QED
    BY <1>1, <1>2, <1>3, <2>1 DEF TimebaseTypes
<1>5. OneWrap'
  <2>1. Elapsed' = rest
    BY <1>1, <1>2 DEF Elapsed, KnownTime
  <2>2. unix_sec' * Second = synced_at'
    BY <1>1, <1>2
  <2> QED
    BY <1>1, <1>2, <1>3, <2>1, <2>2 DEF OneWrap
<1> QED
  BY <1>4, <1>5

LEMMA TimebaseInvariant == TimebaseSpec => []TimebaseInductive
<1>1. TimebaseInductive /\ [TimebaseNext]_timebaseVars => TimebaseInductive'
  <2>1. TimebaseInductive /\ UNCHANGED timebaseVars => TimebaseInductive'
    BY DEF TimebaseInductive, TimebaseTypes, OneWrap, Elapsed, KnownTime, timebaseVars
  <2> QED
    BY <2>1, TickInductive, SyncInductive DEF TimebaseNext
<1> QED
  BY <1>1, TimebaseInitInductive, PTL DEF TimebaseSpec

\* The absolute time of fault records: after a synchronisation it is the true
\* time less that synchronisation's delay, for every word width, also over a
\* wrap of local_ms or a synchronisation earlier than its milliseconds.
THEOREM TimesExact == TimebaseSpec => []SyncedTimeExact
<1>1. TimebaseInductive => SyncedTimeExact
  <2> SUFFICES ASSUME TimebaseInductive, synced, Elapsed < Word
               PROVE  AbsoluteMs = KnownTime
    BY DEF SyncedTimeExact, Elapsed
  <2> USE TimebaseAssumption
  <2>1. /\ local_ms \in 0 .. Word - 1 /\ sync_local_ms \in 0 .. Word - 1
        /\ {unix_sec, now, synced_at, delay} \subseteq Nat
        /\ unix_sec * Second = synced_at /\ Elapsed >= 0
        /\ local_ms - sync_local_ms \in {Elapsed, Elapsed - Word}
    BY DEF TimebaseInductive, TimebaseTypes, OneWrap
  <2>2. Elapsed \in 0 .. Word - 1 /\ Elapsed = KnownTime - synced_at
    BY <2>1 DEF Elapsed, KnownTime
  <2>3. (local_ms - sync_local_ms) % Word = Elapsed
    <3> DEFINE x == local_ms - sync_local_ms
    <3>1. x \in Int /\ Word \in Nat \ {0} /\ (x = Elapsed \/ x + Word = Elapsed)
      BY <2>1, <2>2
    <3>2. Elapsed \in 0 .. Word - 1
      BY <2>2
    <3> HIDE DEF x
    <3>3. x % Word = Elapsed
      BY <3>1, <3>2
    <3> QED
      BY <3>3 DEF x
  <2> QED
    BY <2>1, <2>2, <2>3 DEF AbsoluteMs, KnownTime
<1> QED
  BY <1>1, TimebaseInvariant, PTL

-----------------------------------------------------------------------------
(* Reporting implements the ring and the time base.                        *)

LEMMA ReportingStepsRing == ReportingNext => [RingNext]_log
<1> SUFFICES ASSUME ReportingNext PROVE [RingNext]_log
  OBVIOUS
<1>1. ASSUME NEW from, NEW to, MayTrip(from, to) PROVE [RingNext]_log
  BY <1>1 DEF MayTrip, AppendFault, RingNext, ringVars
<1>2. CASE SendPeriodicFrames
  BY <1>2 DEF SendPeriodicFrames, ringVars
<1>3. CASE SendNewFaultReport
  BY <1>3 DEF SendNewFaultReport, ringVars
<1>4. CASE HandleCanRequest
  BY <1>4 DEF HandleCanRequest, HandleTimeSync, HandleClear, HandleRead, NoRequest,
              RingNext, ringVars
<1>5. CASE EndOfLoop
  BY <1>5 DEF EndOfLoop, ringVars
<1>6. CASE BusTransmits
  BY <1>6 DEF BusTransmits, ringVars
<1>7. CASE HostSyncs
  BY <1>7 DEF HostSyncs, ringVars
<1>8. CASE HostAsks
  BY <1>8 DEF HostAsks, ringVars
<1> QED
  BY <1>1, <1>2, <1>3, <1>4, <1>5, <1>6, <1>7, <1>8 DEF ReportingNext

\* Reporting implements the ring: its log is the ring's.
THEOREM ReportingImplementsRing == ReportingSpec => RingSpec
<1>1. ReportingInit => RingInit
  BY DEF ReportingInit
<1>2. [ReportingNext]_reportingVars => [RingNext]_log
  BY ReportingStepsRing DEF reportingVars, ringVars
<1> QED
  BY <1>1, <1>2, PTL DEF ReportingSpec, RingSpec

\* A time message was built in the past.
MessagesPast == now \in Nat /\ time_box \in (0 .. now) \cup {NoFrame}

LEMMA ReportingStepsTime ==
  ASSUME MessagesPast, ReportingNext
  PROVE  MessagesPast' /\ [TimebaseNext]_timebaseVars
<1>1. ASSUME NEW from, NEW to, MayTrip(from, to)
      PROVE  UNCHANGED <<timebaseVars, time_box>>
  BY <1>1 DEF MayTrip, boxes
<1>2. CASE SendPeriodicFrames \/ SendNewFaultReport \/ BusTransmits \/ HostAsks
  <2>1. UNCHANGED <<timebaseVars, time_box>>
    BY <1>2 DEF SendPeriodicFrames, SendNewFaultReport, BusTransmits, HostAsks, boxes
  <2> QED
    BY <2>1 DEF timebaseVars, MessagesPast
<1>3. CASE HandleCanRequest
  <2>1. CASE HandleTimeSync
    <3>1. time_box \in 0 .. now /\ Sync(time_box) /\ time_box' = NoFrame
      BY <2>1 DEF HandleTimeSync, MessagesPast
    <3>2. now' = now
      BY <3>1 DEF Sync
    <3> QED
      BY <3>1, <3>2 DEF TimebaseNext, MessagesPast
  <2>2. CASE HandleClear \/ HandleRead \/ NoRequest
    <3>1. UNCHANGED <<timebaseVars, time_box>>
      BY <2>2 DEF HandleClear, HandleRead, NoRequest, boxes
    <3> QED
      BY <3>1 DEF timebaseVars, MessagesPast
  <2> QED
    BY <1>3, <2>1, <2>2 DEF HandleCanRequest
<1>4. CASE EndOfLoop
  <2>1. TickMs /\ time_box' = time_box /\ now' = now + 1
    BY <1>4 DEF EndOfLoop, boxes, TickMs
  <2> QED
    BY <2>1, <1>4, ReportingAssumption DEF TimebaseNext, MessagesPast
<1>5. CASE HostSyncs
  <2>1. UNCHANGED timebaseVars /\ time_box' = now /\ now' = now
    BY <1>5 DEF HostSyncs, timebaseVars
  <2> QED
    BY <2>1 DEF MessagesPast
<1>6. ASSUME UNCHANGED <<timebaseVars, time_box>>
      PROVE  MessagesPast' /\ [TimebaseNext]_timebaseVars
  BY <1>6 DEF timebaseVars, MessagesPast
<1> QED
  BY <1>1, <1>2, <1>3, <1>4, <1>5, <1>6 DEF ReportingNext

\* Reporting implements the time base: the time messages the firmware takes
\* from its mailbox were built in the past, however long they lay there.
THEOREM ReportingImplementsTimebase == ReportingSpec => TimebaseSpec
<1>1. ReportingInit => MessagesPast /\ TimebaseInit
  <2>1. 0 .. Second \subseteq Nat
    BY TimebaseAssumption
  <2> QED
    BY <2>1 DEF ReportingInit, MessagesPast, TimebaseInit
<1>2. MessagesPast /\ [ReportingNext]_reportingVars
        => MessagesPast' /\ [TimebaseNext]_timebaseVars
  <2>1. MessagesPast /\ UNCHANGED reportingVars
          => MessagesPast' /\ UNCHANGED timebaseVars
    BY DEF reportingVars, MessagesPast, timebaseVars, boxes
  <2> QED
    BY <2>1, ReportingStepsTime
<1> QED
  BY <1>1, <1>2, PTL DEF ReportingSpec, TimebaseSpec

-----------------------------------------------------------------------------
(* From a fault to the host's list.                                        *)

Stages == {"tick", "trip", "frames", "report", "request", "time"}
Stamps == [timestamp_ms : Nat, serial : Nat, known : Int, exact : BOOLEAN]

ReportingTypes ==
  /\ stage \in Stages
  /\ stamps \in [0 .. CAPACITY - 1 -> Stamps]
  /\ reported_total \in 0 .. TotalMod - 1
  /\ tx \in Frames \cup {NoFrame}
  /\ control_box \in {NoFrame, ClearRequest} \cup {ReadRequest(i) : i \in ReadIndices}
  /\ {faults, learnt, missed, clears} \subseteq Nat
  /\ fresh \in BOOLEAN /\ excused \in BOOLEAN

\* The stamps of the ring are exact where they say so.
StampsExact ==
  \A i \in 0 .. CAPACITY - 1 :
    stamps[i].exact => stamps[i].timestamp_ms = stamps[i].known

\* What holds of the parts reporting is built from.
Parts == RingTypeOK /\ TimebaseTypes /\ SyncedTimeExact

\* The readers find a record and its stamp at one position of the ring.
LEMMA ReadersPick ==
  ASSUME RingTypeOK, NEW k \in Int
  PROVE  /\ \E i \in 0 .. CAPACITY - 1 :
              LogLatest(log, k) = log.records[i] /\ LogLatest(StampLog, k) = stamps[i]
         /\ \E i \in 0 .. CAPACITY - 1 :
              /\ LogChronological(log, k) = log.records[i]
              /\ LogChronological(StampLog, k) = stamps[i]
<1>1. /\ CAPACITY \in Nat \ {0} /\ log.write_index \in Int /\ log.count \in Int
      /\ StampLog.write_index = log.write_index /\ StampLog.count = log.count
      /\ StampLog.records = stamps
  BY CapacityAssumption DEF RingTypeOK, FaultLogType, StampLog
<1>2. ASSUME NEW n \in Int PROVE n % CAPACITY \in 0 .. CAPACITY - 1
  BY <1>1, <1>2, RemainderOfOneWrap
<1>3. /\ log.write_index + CAPACITY - 1 - k \in Int
      /\ log.write_index + CAPACITY - log.count + k \in Int
  BY <1>1
<1> QED
  BY <1>1, <1>2, <1>3 DEF LogLatest, LogChronological

\* A frame made from a position of the ring.
LEMMA FrameFits ==
  ASSUME RingTypeOK, ReportingTypes, StampsExact, TimebaseAssumption,
         NEW i \in 0 .. CAPACITY - 1, NEW kind \in {"report", "answer"}
  PROVE  LET f == FaultFrame(kind, log.records[i], stamps[i])
         IN  /\ f \in Frames /\ f.kind = kind /\ f.serial = stamps[i].serial
             /\ f.exact => f.time = f.known % Word
<1>1. log.records[i].fault \in Faults
  BY DEF RingTypeOK, FaultLogType, FaultRecord
<1>2. stamps[i] \in Stamps /\ (stamps[i].exact => stamps[i].timestamp_ms = stamps[i].known)
  BY DEF ReportingTypes, StampsExact
<1>3. stamps[i].timestamp_ms % Word \in 0 .. Word - 1
  BY <1>2, TimebaseAssumption, RemainderOfOneWrap DEF Stamps
<1> QED
  BY <1>1, <1>2, <1>3 DEF FaultFrame, Frames, Stamps

\* Reading the newest record, or one by its index.
LEMMA LatestFrame ==
  ASSUME RingTypeOK, ReportingTypes, StampsExact
  PROVE  LET f == FaultFrame("report", LogLatest(log, 0), LogLatest(StampLog, 0))
         IN  /\ f \in Frames /\ f.kind = "report"
             /\ f.serial = LogLatest(StampLog, 0).serial
             /\ f.exact => f.time = f.known % Word
<1>1. PICK i \in 0 .. CAPACITY - 1 :
        LogLatest(log, 0) = log.records[i] /\ LogLatest(StampLog, 0) = stamps[i]
  BY ReadersPick
<1> QED
  BY <1>1, FrameFits, TimebaseAssumption

LEMMA ChronologicalFrame ==
  ASSUME RingTypeOK, ReportingTypes, StampsExact, NEW k \in Int
  PROVE  LET f == FaultFrame("answer", LogChronological(log, k),
                             LogChronological(StampLog, k))
         IN  /\ f \in Frames /\ f.kind = "answer"
             /\ f.exact => f.time = f.known % Word
<1>1. PICK i \in 0 .. CAPACITY - 1 :
        /\ LogChronological(log, k) = log.records[i]
        /\ LogChronological(StampLog, k) = stamps[i]
  BY ReadersPick
<1> QED
  BY <1>1, FrameFits, TimebaseAssumption

\* The absolute time is a natural number, also after a synchronisation.
LEMMA AbsoluteMsType == TimebaseTypes => AbsoluteMs \in Nat
<1> SUFFICES ASSUME TimebaseTypes PROVE AbsoluteMs \in Nat
  OBVIOUS
<1>1. /\ Word \in Nat \ {0} /\ Second \in Nat /\ local_ms \in Nat
      /\ sync_local_ms \in Int /\ unix_sec \in Nat
  BY TimebaseAssumption DEF TimebaseTypes
<1>2. local_ms - sync_local_ms \in Int
  BY <1>1
<1>3. (local_ms - sync_local_ms) % Word \in Nat
  BY <1>1, <1>2, RemainderOfOneWrap
<1>4. unix_sec * Second \in Nat
  BY <1>1
<1> QED
  BY <1>1, <1>3, <1>4 DEF AbsoluteMs

\* An append puts the stamp where the readers find the newest record.
LEMMA AppendIsNewest ==
  ASSUME RingTypeOK, ReportingTypes, NEW rec, NEW stamp \in Stamps,
         AppendRecord(rec), stamps' = LogAppend(StampLog, stamp).records
  PROVE  /\ stamps' = [stamps EXCEPT ![log.write_index] = stamp]
         /\ log.write_index \in 0 .. CAPACITY - 1
         /\ log'.count > 0
         /\ log'.total_count = (log.total_count + 1) % TotalMod
         /\ LogLatest(StampLog', 0) = stamp
<1> DEFINE w == log.write_index
<1>1. /\ CAPACITY \in Nat \ {0} /\ w \in 0 .. CAPACITY - 1 /\ log.count \in Nat
      /\ StampLog.write_index = w /\ StampLog.records = stamps
  BY CapacityAssumption DEF RingTypeOK, FaultLogType, StampLog
<1>2. stamps' = [stamps EXCEPT ![w] = stamp]
  BY <1>1 DEF LogAppend
<1>3. /\ log'.count > 0 /\ log'.total_count = (log.total_count + 1) % TotalMod
      /\ log'.write_index = (w + 1) % CAPACITY
      /\ StampLog'.write_index = log'.write_index /\ StampLog'.records = stamps'
  BY <1>1 DEF AppendRecord, LogAppend, StampLog
<1>4. (((w + 1) % CAPACITY) + CAPACITY - 1 - 0) % CAPACITY = w
  <2>1. (w + 1) % CAPACITY = Fold(w + 1)
    BY <1>1, WrapOnce
  <2>2. Fold(w + 1) + CAPACITY - 1 - 0 \in 0 .. 2 * CAPACITY - 1
    BY <1>1 DEF Fold
  <2>3. Fold(Fold(w + 1) + CAPACITY - 1 - 0) = w
    BY <1>1 DEF Fold
  <2> QED
    BY <2>1, <2>2, <2>3, WrapOnce
<1>5. stamps \in [0 .. CAPACITY - 1 -> Stamps]
  BY DEF ReportingTypes
<1>6. LogLatest(StampLog', 0) = stamps'[w]
  BY <1>3, <1>4 DEF LogLatest
<1> QED
  BY <1>1, <1>2, <1>3, <1>5, <1>6

\* While a loop has an unreported record, the ring's newest one is it.
Newest == fresh => log.count > 0 /\ LogLatest(StampLog, 0).serial = faults

\* Totals one or two ahead of the reported one: a loop has two trips.
Ahead(n) == (reported_total + n) % TotalMod

\* The reported total follows the total but for a clear; each clear excuses
\* one loop in which they are equal by chance.
Unreported ==
  /\ stage \in {"tick", "request", "time"} => ~fresh
  /\ ~fresh => log.total_count = reported_total \/ log.count = 0
  /\ missed <= clears
  /\ missed = clears =>
       /\ ~fresh => log.total_count = reported_total
       /\ fresh /\ stage = "trip" => log.total_count = Ahead(1)
       /\ fresh /\ stage # "trip" => log.total_count \in {Ahead(1), Ahead(2)}

ReportWaits == tx # NoFrame /\ tx.kind = "report"

\* Where the newest record is, unless it was excused.
Learns ==
  /\ learnt <= faults
  /\ ReportWaits => learnt <= tx.serial /\ tx.serial <= faults
  /\ excused \/ fresh \/ learnt = faults \/ (ReportWaits /\ tx.serial = faults)

ReportingInductive ==
  /\ ReportingTypes /\ StampsExact /\ ListedTimeExact
  /\ Newest /\ Unreported /\ Learns

LEMMA WaitingSerial ==
  ASSUME ReportingTypes, ReportWaits PROVE tx.serial \in Nat
BY DEF ReportingTypes, ReportWaits, Frames, Other

LEMMA ReportingInitInductive ==
  ASSUME ReportingInit PROVE ReportingInductive
<1> USE DEF ReportingInit, RingInit
<1>1. CAPACITY \in Nat \ {0} /\ 0 \in 0 .. TotalMod - 1 /\ log = EmptyLog
  BY CapacityAssumption
<1>2. ReportingTypes
  <2>1. NoStamp \in Stamps
    BY DEF NoStamp, Stamps
  <2>2. stamps \in [0 .. CAPACITY - 1 -> Stamps]
    BY <2>1
  <2>3. fresh \in BOOLEAN /\ excused \in BOOLEAN
    OBVIOUS
  <2> QED
    BY <1>1, <2>2, <2>3 DEF ReportingTypes, Stages
<1>3. StampsExact
  BY DEF StampsExact, NoStamp
<1>4. ListedTimeExact /\ Newest
  BY DEF ListedTimeExact, Newest
<1>5. Unreported
  <2>1. fresh = FALSE /\ log.total_count = reported_total
    BY DEF EmptyLog
  <2> QED
    BY <2>1 DEF Unreported
<1>6. Learns
  <2>1. ~ReportWaits /\ learnt = 0 /\ faults = 0
    BY DEF ReportWaits
  <2> QED
    BY <2>1 DEF Learns
<1> QED
  BY <1>2, <1>3, <1>4, <1>5, <1>6 DEF ReportingInductive

LEMMA MayTripInductive ==
  ASSUME Parts, ReportingInductive, TotalMod > 2,
         NEW from, NEW to, MayTrip(from, to), <<from, to>> \in {<<"tick", "trip">>, <<"trip", "frames">>}
  PROVE  ReportingInductive'
<1>1. /\ stage = from /\ stage' = to /\ from \in {"tick", "trip"} /\ to \in {"trip", "frames"}
      /\ to = "trip" => from = "tick"
      /\ UNCHANGED <<reported_total, tx, control_box, learnt, missed, clears>>
  BY DEF MayTrip, boxes
<1>2. ListedTimeExact'
  BY <1>1 DEF ReportingInductive, ListedTimeExact
<1>3. CASE UNCHANGED <<ringVars, faults, fresh, excused>>
  <2>1. UNCHANGED <<log, stamps, faults, fresh, excused>>
    BY <1>3 DEF ringVars
  <2>2. ReportingTypes'
    BY <1>1, <2>1 DEF ReportingInductive, ReportingTypes, Stages
  <2>3. StampsExact' /\ Newest'
    BY <2>1 DEF ReportingInductive, StampsExact, Newest, StampLog
  <2>4. Unreported'
    BY <1>1, <2>1 DEF ReportingInductive, Unreported, Ahead
  <2>5. Learns'
    BY <1>1, <2>1 DEF ReportingInductive, Learns, ReportWaits
  <2> QED
    BY <1>2, <2>2, <2>3, <2>4, <2>5 DEF ReportingInductive
<1>4. ASSUME NEW rec \in Records, AppendFault(rec)
      PROVE  ReportingInductive'
  <2> DEFINE stamp == [timestamp_ms |-> AbsoluteMs, serial |-> faults + 1,
                       known |-> KnownTime,
                       exact |-> synced /\ KnownTime - synced_at < Word]
  <2>1. /\ AppendRecord(rec) /\ stamps' = LogAppend(StampLog, stamp).records
        /\ faults' = faults + 1 /\ fresh' = TRUE /\ excused' = FALSE
    BY <1>4 DEF AppendFault
  <2>2. stamp \in Stamps /\ (stamp.exact => stamp.timestamp_ms = stamp.known)
        /\ stamp.serial = faults'
    <3>1. KnownTime \in Int /\ AbsoluteMs \in Nat
      BY AbsoluteMsType DEF Parts, TimebaseTypes, KnownTime
    <3>2. (synced /\ KnownTime - synced_at < Word) \in BOOLEAN
      OBVIOUS
    <3>3. faults + 1 \in Nat
      BY DEF ReportingInductive, ReportingTypes
    <3>4. synced /\ KnownTime - synced_at < Word => AbsoluteMs = KnownTime
      BY DEF Parts, SyncedTimeExact
    <3> QED
      BY <2>1, <3>1, <3>2, <3>3, <3>4 DEF Stamps
  <2> HIDE DEF stamp
  <2>3. /\ stamps' = [stamps EXCEPT ![log.write_index] = stamp]
        /\ log.write_index \in 0 .. CAPACITY - 1
        /\ log'.count > 0
        /\ log'.total_count = (log.total_count + 1) % TotalMod
        /\ LogLatest(StampLog', 0) = stamp
    BY <2>1, <2>2, AppendIsNewest DEF Parts, ReportingInductive
  <2>4. ReportingTypes'
    <3>1. stamps' \in [0 .. CAPACITY - 1 -> Stamps]
      BY <2>2, <2>3 DEF ReportingInductive, ReportingTypes
    <3>2. fresh' \in BOOLEAN /\ excused' \in BOOLEAN
      BY <2>1
    <3>3. {faults, learnt, missed, clears}' \subseteq Nat
      BY <1>1, <2>1 DEF ReportingInductive, ReportingTypes
    <3>4. stage' \in Stages
      BY <1>1 DEF Stages
    <3> QED
      BY <1>1, <3>1, <3>2, <3>3, <3>4 DEF ReportingInductive, ReportingTypes
  <2>5. StampsExact'
    BY <2>2, <2>3 DEF ReportingInductive, ReportingTypes, StampsExact
  <2>6. Newest'
    BY <2>2, <2>3 DEF Newest
  <2>7. Unreported'
    <3>1. /\ TotalMod \in Nat /\ log.total_count \in 0 .. TotalMod - 1
          /\ reported_total \in 0 .. TotalMod - 1
      BY CapacityAssumption DEF Parts, RingTypeOK, FaultLogType, ReportingInductive, ReportingTypes
    <3>2. log.total_count = reported_total => log'.total_count = Ahead(1)
      BY <2>3 DEF Ahead
    <3>3. log.total_count = Ahead(1) => log'.total_count = Ahead(2)
      <4> DEFINE t == reported_total + 1
      <4>1. t \in 1 .. TotalMod
        BY <3>1
      <4>2. ((t % TotalMod) + 1) % TotalMod = (t + 1) % TotalMod
        <5> HIDE DEF t
        <5>1. CASE t < TotalMod
          <6>1. t % TotalMod = t
            BY <3>1, <4>1, <5>1
          <6> QED
            BY <6>1
        <5>2. CASE t = TotalMod
          <6>1. t % TotalMod = 0
            BY <3>1, <5>2
          <6>2. (t + 1) % TotalMod = 1 /\ 1 % TotalMod = 1
            BY <3>1, <5>2
          <6> QED
            BY <6>1, <6>2
        <5> QED
          BY <3>1, <4>1, <5>1, <5>2
      <4>3. t + 1 = reported_total + 2
        BY <3>1
      <4> QED
        BY <2>3, <4>2, <4>3 DEF Ahead
    <3>4. from = "tick" => ~fresh
      BY <1>1 DEF ReportingInductive, Unreported
    <3>5. missed = clears =>
            /\ stage' = "trip" => log'.total_count = Ahead(1)
            /\ stage' # "trip" => log'.total_count \in {Ahead(1), Ahead(2)}
      BY <1>1, <3>2, <3>3, <3>4 DEF ReportingInductive, Unreported
    <3> QED
      BY <1>1, <2>1, <3>5 DEF ReportingInductive, Unreported, Ahead
  <2>8. Learns'
    <3>1. ReportWaits => tx.serial \in Nat
      BY WaitingSerial DEF ReportingInductive
    <3>2. faults \in Nat /\ learnt \in Nat /\ faults' = faults + 1
      BY <2>1 DEF ReportingInductive, ReportingTypes
    <3>3. ReportWaits' => ReportWaits /\ tx' = tx
      BY <1>1 DEF ReportWaits
    <3>4. ReportWaits => learnt <= tx.serial /\ tx.serial <= faults
      BY DEF ReportingInductive, Learns
    <3>5. learnt <= faults /\ learnt' = learnt
      BY <1>1 DEF ReportingInductive, Learns
    <3> QED
      BY <2>1, <3>1, <3>2, <3>3, <3>4, <3>5 DEF Learns
  <2> QED
    BY <1>2, <2>4, <2>5, <2>6, <2>7, <2>8 DEF ReportingInductive
<1> QED
  BY <1>3, <1>4 DEF MayTrip

\* A frame that is no report may replace one: then the record is excused.
LEMMA OtherFrameLearns ==
  ASSUME Learns, NEW frame, Send(frame), frame.kind # "report",
         UNCHANGED <<faults, fresh, learnt>>
  PROVE  Learns' /\ excused' \in BOOLEAN
BY DEF Learns, Send, ReportWaits

LEMMA PeriodicFramesInductive ==
  ASSUME ReportingInductive, SendPeriodicFrames
  PROVE  ReportingInductive'
<1>1. /\ stage = "frames" /\ stage' = "report"
      /\ Send(Other) \/ UNCHANGED <<tx, excused>>
      /\ UNCHANGED <<log, stamps, reported_total, control_box, faults, fresh, learnt,
                     missed, clears>>
  BY DEF SendPeriodicFrames, ringVars, boxes
<1>2. ReportingTypes' /\ ListedTimeExact' /\ Learns'
  <2>1. CASE Send(Other)
    <3>1. Other.kind = "other" /\ Other \in Frames /\ tx' = Other
      BY <2>1 DEF Other, Frames, Send
    <3>2. Learns' /\ excused' \in BOOLEAN
      BY <1>1, <2>1, <3>1, OtherFrameLearns DEF ReportingInductive
    <3> QED
      BY <1>1, <3>1, <3>2 DEF ReportingInductive, ReportingTypes, Stages, ListedTimeExact
  <2>2. CASE UNCHANGED <<tx, excused>>
    BY <1>1, <2>2 DEF ReportingInductive, ReportingTypes, Stages, ListedTimeExact,
                      Learns, ReportWaits
  <2> QED
    BY <1>1, <2>1, <2>2
<1>3. StampsExact' /\ Newest'
  BY <1>1 DEF ReportingInductive, StampsExact, Newest, StampLog
<1>4. Unreported'
  BY <1>1 DEF ReportingInductive, Unreported, Ahead
<1> QED
  BY <1>2, <1>3, <1>4 DEF ReportingInductive

\* The report step sends only news, and only the newest record.
LEMMA ReportIsNews ==
  ASSUME Parts, ReportingInductive, SendNewFaultReport,
         log.total_count # reported_total, log.count > 0
  PROVE  /\ fresh
         /\ tx' \in Frames /\ tx'.kind = "report" /\ tx'.serial = faults
         /\ tx'.exact => tx'.time = tx'.known % Word
         /\ excused' \in BOOLEAN
         /\ reported_total' = log.total_count /\ missed' = missed
<1>1. fresh
  <2>1. log.count # 0
    OBVIOUS
  <2> QED
    BY <2>1 DEF ReportingInductive, Unreported
<1>2. /\ Send(FaultFrame("report", LogLatest(log, 0), LogLatest(StampLog, 0)))
      /\ reported_total' = log.total_count /\ missed' = missed
  BY DEF SendNewFaultReport
<1>3. LogLatest(StampLog, 0).serial = faults
  BY <1>1 DEF ReportingInductive, Newest
<1> QED
  BY <1>1, <1>2, <1>3, LatestFrame DEF Send, Parts, ReportingInductive

LEMMA NewFaultReportInductive ==
  ASSUME Parts, ReportingInductive, TotalMod > 2, SendNewFaultReport
  PROVE  ReportingInductive'
<1>1. /\ stage = "report" /\ stage' = "request" /\ fresh' = FALSE
      /\ UNCHANGED <<log, stamps, control_box, faults, learnt, clears>>
  BY DEF SendNewFaultReport, ringVars, boxes
<1>2. StampsExact' /\ Newest'
  BY <1>1 DEF ReportingInductive, StampsExact, Newest
<1>3. /\ missed \in Nat /\ clears \in Nat /\ faults \in Nat /\ learnt \in Nat
      /\ log.total_count \in 0 .. TotalMod - 1 /\ log.count \in Nat
      /\ reported_total \in 0 .. TotalMod - 1 /\ TotalMod \in Nat
  BY CapacityAssumption DEF Parts, RingTypeOK, FaultLogType, ReportingInductive, ReportingTypes
<1>4. CASE log.total_count # reported_total /\ log.count > 0
  <2>1. /\ fresh
        /\ tx' \in Frames /\ tx'.kind = "report" /\ tx'.serial = faults
        /\ tx'.exact => tx'.time = tx'.known % Word
        /\ excused' \in BOOLEAN
        /\ reported_total' = log.total_count /\ missed' = missed
    BY <1>4, ReportIsNews
  <2>2. ReportingTypes' /\ ListedTimeExact'
    BY <1>1, <1>3, <2>1 DEF ReportingInductive, ReportingTypes, Stages, ListedTimeExact
  <2>3. Unreported'
    BY <1>1, <2>1 DEF ReportingInductive, Unreported
  <2>4. Learns'
    <3>1. ReportWaits' /\ tx'.serial = faults' /\ learnt' <= faults'
      BY <1>1, <2>1, ReportingAssumption DEF ReportWaits, ReportingInductive, Learns
    <3> QED
      BY <1>1, <1>3, <3>1 DEF Learns
  <2> QED
    BY <1>2, <2>2, <2>3, <2>4 DEF ReportingInductive
<1>5. CASE ~(log.total_count # reported_total /\ log.count > 0)
  <2>1. /\ missed' = (IF fresh THEN missed + 1 ELSE missed)
        /\ excused' = (excused \/ fresh)
        /\ UNCHANGED <<tx, reported_total>>
    BY <1>5 DEF SendNewFaultReport
  <2>2. ReportingTypes' /\ ListedTimeExact'
    <3>1. missed' \in Nat
      BY <1>3, <2>1
    <3>2. excused' \in BOOLEAN
      BY <2>1 DEF ReportingInductive, ReportingTypes
    <3>3. fresh' \in BOOLEAN
      BY <1>1
    <3> QED
      BY <1>1, <1>3, <2>1, <3>1, <3>2, <3>3
      DEF ReportingInductive, ReportingTypes, Stages, ListedTimeExact
  <2>3. Unreported'
    <3>1. CASE fresh
      <4>1. log.count > 0
        BY <3>1 DEF ReportingInductive, Newest
      <4>2. log.total_count = reported_total
        BY <1>5, <4>1
      <4>3. Ahead(1) # reported_total /\ Ahead(2) # reported_total
        <5> DEFINE r == reported_total
        <5>1. /\ r + 1 < TotalMod => (r + 1) % TotalMod = r + 1
              /\ r + 1 = TotalMod => (r + 1) % TotalMod = 0
          BY <1>3
        <5>2. /\ r + 2 < TotalMod => (r + 2) % TotalMod = r + 2
              /\ r + 2 = TotalMod => (r + 2) % TotalMod = 0
              /\ r + 2 = TotalMod + 1 => (r + 2) % TotalMod = 1
          BY <1>3
        <5> QED
          BY <1>3, <5>1, <5>2 DEF Ahead
      <4>4. missed # clears
        BY <1>1, <3>1, <4>2, <4>3 DEF ReportingInductive, Unreported
      <4>5. missed <= clears
        BY DEF ReportingInductive, Unreported
      <4>6. missed' = missed + 1 /\ missed' <= clears'
        BY <1>1, <1>3, <2>1, <3>1, <4>4, <4>5
      <4> QED
        BY <1>1, <2>1, <4>2, <4>6 DEF Unreported
    <3>2. CASE ~fresh
      <4>1. missed' = missed
        BY <2>1, <3>2
      <4> QED
        BY <1>1, <2>1, <3>2, <4>1 DEF ReportingInductive, Unreported
    <3> QED
      BY <3>1, <3>2
  <2>4. Learns'
    <3>1. ReportWaits' <=> ReportWaits
      BY <2>1 DEF ReportWaits
    <3> QED
      BY <1>1, <2>1, <3>1 DEF ReportingInductive, Learns
  <2> QED
    BY <1>2, <2>2, <2>3, <2>4 DEF ReportingInductive
<1> QED
  BY <1>4, <1>5

\* What a handler of requests sends, and what it may do to the log.
LEMMA HandlerSends ==
  ASSUME Parts, ReportingInductive,
         HandleTimeSync \/ HandleClear \/ HandleRead \/ NoRequest
  PROVE  \/ UNCHANGED <<tx, excused>>
         \/ \E frame \in Frames :
              /\ Send(frame) /\ frame.kind # "report"
              /\ frame.kind # "other" /\ frame.exact => frame.time = frame.known % Word
<1>1. Other \in Frames /\ Other.kind = "other"
  BY DEF Frames, Other
<1>2. CASE HandleTimeSync \/ HandleClear
  BY <1>1, <1>2 DEF HandleTimeSync, HandleClear
<1>3. CASE HandleRead
  <2>1. CASE log.count = 0
    BY <1>1, <1>3, <2>1 DEF HandleRead
  <2>2. CASE log.count # 0
    <3> DEFINE i == ClampedIndex(control_box.index)
    <3>1. control_box.index \in Nat
      BY <1>3, ReportingAssumption
      DEF HandleRead, ReportingInductive, ReportingTypes, ClearRequest, ReadRequest
    <3>2. log.count \in Nat
      BY CapacityAssumption DEF Parts, RingTypeOK, FaultLogType
    <3>3. i \in Int
      BY <3>1, <3>2 DEF ClampedIndex
    <3>4. Send(FaultFrame("answer", LogChronological(log, i), LogChronological(StampLog, i)))
      BY <1>3, <2>2 DEF HandleRead
    <3> HIDE DEF i
    <3> QED
      BY <3>3, <3>4, ChronologicalFrame DEF Parts, ReportingInductive
  <2> QED
    BY <2>1, <2>2
<1>4. CASE NoRequest
  BY <1>4 DEF NoRequest
<1> QED
  BY <1>2, <1>3, <1>4

LEMMA CanRequestInductive ==
  ASSUME Parts, ReportingInductive, HandleCanRequest
  PROVE  ReportingInductive'
<1>1. /\ stage = "request" /\ stage' = "time"
      /\ HandleTimeSync \/ HandleClear \/ HandleRead \/ NoRequest
      /\ UNCHANGED <<faults, fresh, learnt, missed>>
  BY DEF HandleCanRequest
<1>2. reported_total' = reported_total /\ control_box' \in {control_box, NoFrame}
  BY <1>1 DEF HandleTimeSync, HandleClear, HandleRead, NoRequest, boxes
<1>3. ~fresh
  BY <1>1 DEF ReportingInductive, Unreported
<1>4. /\ tx' \in Frames \cup {NoFrame} /\ excused' \in BOOLEAN
      /\ ListedTimeExact' /\ Learns'
  <2>1. CASE UNCHANGED <<tx, excused>>
    BY <1>1, <2>1 DEF ReportingInductive, ReportingTypes, ListedTimeExact, Learns, ReportWaits
  <2>2. ASSUME NEW frame \in Frames, Send(frame), frame.kind # "report",
               frame.kind # "other" /\ frame.exact => frame.time = frame.known % Word
        PROVE  /\ tx' \in Frames \cup {NoFrame} /\ excused' \in BOOLEAN
               /\ ListedTimeExact' /\ Learns'
    <3>1. tx' = frame
      BY <2>2 DEF Send
    <3>2. Learns' /\ excused' \in BOOLEAN
      BY <1>1, <2>2, OtherFrameLearns DEF ReportingInductive
    <3> QED
      BY <2>2, <3>1, <3>2 DEF ListedTimeExact
  <2> QED
    BY <1>1, <2>1, <2>2, HandlerSends
<1>5. CASE HandleClear
  <2>1. /\ log' = EmptyLog /\ clears' = clears + 1
        /\ stamps' = [i \in 0 .. CAPACITY - 1 |-> NoStamp]
    BY <1>5 DEF HandleClear, ClearLog
  <2>2. NoStamp \in Stamps /\ NoStamp.exact = FALSE
    BY DEF NoStamp, Stamps
  <2>3. stamps' \in [0 .. CAPACITY - 1 -> Stamps]
    BY <2>1, <2>2
  <2>4. /\ faults' \in Nat /\ learnt' \in Nat /\ missed' \in Nat /\ clears' \in Nat
    BY <1>1, <2>1 DEF ReportingInductive, ReportingTypes
  <2>5. ReportingTypes'
    BY <1>1, <1>2, <1>4, <2>3, <2>4 DEF ReportingInductive, ReportingTypes, Stages
  <2>6. StampsExact' /\ Newest'
    BY <1>1, <1>3, <2>1, <2>2 DEF StampsExact, Newest
  <2>7. Unreported'
    <3>1. missed \in Nat /\ clears \in Nat /\ missed <= clears
      BY DEF ReportingInductive, ReportingTypes, Unreported
    <3>2. missed' <= clears' /\ missed' # clears'
      BY <1>1, <2>1, <3>1
    <3>3. log'.count = 0
      BY <2>1 DEF EmptyLog
    <3> QED
      BY <1>1, <1>3, <3>2, <3>3 DEF Unreported
  <2> QED
    BY <1>4, <2>5, <2>6, <2>7 DEF ReportingInductive
<1>6. CASE HandleTimeSync \/ HandleRead \/ NoRequest
  <2>1. UNCHANGED <<log, stamps, clears>>
    BY <1>6 DEF HandleTimeSync, HandleRead, NoRequest, ringVars
  <2>2. ReportingTypes'
    BY <1>1, <1>2, <1>4, <2>1 DEF ReportingInductive, ReportingTypes, Stages
  <2>3. StampsExact' /\ Newest'
    BY <1>1, <1>3, <2>1 DEF ReportingInductive, StampsExact, Newest
  <2>4. Unreported'
    BY <1>1, <1>2, <1>3, <2>1 DEF ReportingInductive, Unreported
  <2> QED
    BY <1>4, <2>2, <2>3, <2>4 DEF ReportingInductive
<1> QED
  BY <1>1, <1>5, <1>6

LEMMA OutsideInductive ==
  ASSUME ReportingInductive, EndOfLoop \/ BusTransmits \/ HostSyncs \/ HostAsks
  PROVE  ReportingInductive'
<1>1. /\ UNCHANGED <<log, stamps, reported_total, faults, fresh, excused, missed, clears>>
      /\ \/ stage' = stage
         \/ stage = "time" /\ stage' = "tick"
  BY DEF EndOfLoop, BusTransmits, HostSyncs, HostAsks, ringVars, observer
<1>2. StampsExact' /\ Newest'
  BY <1>1 DEF ReportingInductive, StampsExact, Newest, StampLog
<1>3. Unreported'
  BY <1>1 DEF ReportingInductive, Unreported, Ahead
<1>4. control_box' \in {NoFrame, ClearRequest} \cup {ReadRequest(i) : i \in ReadIndices}
  BY DEF EndOfLoop, BusTransmits, HostSyncs, HostAsks, boxes, ReportingInductive, ReportingTypes
<1>5. CASE BusTransmits
  <2>1. /\ tx # NoFrame /\ tx' = NoFrame
        /\ learnt' = IF tx.kind = "report" THEN tx.serial ELSE learnt
    BY <1>5 DEF BusTransmits
  <2>2. learnt' \in Nat
    BY <2>1, WaitingSerial DEF ReportWaits, ReportingInductive, ReportingTypes
  <2>3. ReportingTypes'
    BY <1>1, <1>4, <2>1, <2>2 DEF ReportingInductive, ReportingTypes, Stages
  <2>4. ListedTimeExact' /\ ~ReportWaits'
    BY <2>1 DEF ListedTimeExact, ReportWaits
  <2>5. Learns'
    <3>1. CASE ReportWaits
      <4>1. learnt' = tx.serial
        BY <2>1, <3>1 DEF ReportWaits
      <4>2. tx.serial \in Nat /\ learnt \in Nat /\ faults \in Nat
        BY <3>1, WaitingSerial DEF ReportingInductive, ReportingTypes
      <4>3. learnt <= tx.serial /\ tx.serial <= faults
        BY <3>1 DEF ReportingInductive, Learns
      <4>4. learnt = faults => tx.serial = faults
        BY <4>2, <4>3
      <4> QED
        BY <1>1, <2>4, <3>1, <4>1, <4>3, <4>4 DEF ReportingInductive, Learns
    <3>2. CASE ~ReportWaits
      <4>1. learnt' = learnt
        BY <2>1, <3>2 DEF ReportWaits
      <4> QED
        BY <1>1, <2>4, <3>2, <4>1 DEF ReportingInductive, Learns
    <3> QED
      BY <3>1, <3>2
  <2> QED
    BY <1>2, <1>3, <2>3, <2>4, <2>5 DEF ReportingInductive
<1>6. CASE EndOfLoop \/ HostSyncs \/ HostAsks
  <2>1. UNCHANGED <<tx, learnt>>
    BY <1>6 DEF EndOfLoop, HostSyncs, HostAsks, observer
  <2>2. ReportingTypes'
    BY <1>1, <1>4, <2>1 DEF ReportingInductive, ReportingTypes, Stages
  <2>3. ListedTimeExact' /\ Learns'
    BY <1>1, <2>1 DEF ReportingInductive, ListedTimeExact, Learns, ReportWaits
  <2> QED
    BY <1>2, <1>3, <2>2, <2>3 DEF ReportingInductive
<1> QED
  BY <1>5, <1>6

LEMMA ReportingNextInductive ==
  ASSUME Parts, ReportingInductive, TotalMod > 2, [ReportingNext]_reportingVars
  PROVE  ReportingInductive'
<1>1. CASE ReportingNext
  <2>1. CASE MayTrip("tick", "trip") \/ MayTrip("trip", "frames")
    BY <2>1, MayTripInductive
  <2> QED
    BY <1>1, <2>1, PeriodicFramesInductive, NewFaultReportInductive, CanRequestInductive,
       OutsideInductive DEF ReportingNext
<1>2. CASE UNCHANGED reportingVars
  <2>1. UNCHANGED <<log, stamps, stage, reported_total, tx, control_box, faults, fresh,
                    learnt, excused, missed, clears>>
    BY <1>2 DEF reportingVars, ringVars, boxes, observer
  <2> QED
    BY <2>1 DEF ReportingInductive, ReportingTypes, StampsExact, ListedTimeExact, Newest,
                Unreported, Learns, ReportWaits, Ahead, StampLog
<1> QED
  BY <1>1, <1>2

\* The parts' theorems hold of reporting, which implements them.
LEMMA PartsHold == ReportingSpec => []Parts
<1>1. TimebaseInductive => TimebaseTypes
  BY DEF TimebaseInductive
<1>2. RingTypeOK /\ TimebaseTypes /\ SyncedTimeExact => Parts
  BY DEF Parts
<1> QED
  BY <1>1, <1>2, RingTyped, TimebaseInvariant, TimesExact, ReportingImplementsRing,
     ReportingImplementsTimebase, PTL

LEMMA ReportingInvariant ==
  ASSUME TotalMod > 2 PROVE ReportingSpec => []ReportingInductive
<1>1. ReportingInit => ReportingInductive
  BY ReportingInitInductive
<1>2. Parts /\ ReportingInductive /\ [ReportingNext]_reportingVars => ReportingInductive'
  BY ReportingNextInductive
<1> QED
  BY <1>1, <1>2, PartsHold, PTL DEF ReportingSpec

\* A fault goes unreported only in the first loop with faults after a clear,
\* and once for each clear at most.
THEOREM MissesBounded ==
  ASSUME TotalMod > 2 PROVE ReportingSpec => []MissesOnlyAfterClear
<1>1. ReportingInductive => MissesOnlyAfterClear
  BY DEF ReportingInductive, Unreported, MissesOnlyAfterClear
<1> QED
  BY <1>1, ReportingInvariant, PTL

\* The host has the newest fault once the mailbox is empty, but for a record
\* missed after a clear or replaced in the mailbox.
THEOREM NewestLearnt ==
  ASSUME TotalMod > 2 PROVE ReportingSpec => []HostLearnsNewest
<1>1. ReportingInductive => HostLearnsNewest
  BY DEF ReportingInductive, Unreported, Learns, ReportWaits, HostLearnsNewest
<1> QED
  BY <1>1, ReportingInvariant, PTL

\* Every row of the host's list has the exact time, modulo four bytes.
THEOREM RowsTimed ==
  ASSUME TotalMod > 2 PROVE ReportingSpec => []ListedTimeExact
<1>1. ReportingInductive => ListedTimeExact
  BY DEF ReportingInductive
<1> QED
  BY <1>1, ReportingInvariant, PTL

\* A report is only ever of the record its own loop appended.
THEOREM ReportsOnlyNews ==
  ASSUME TotalMod > 2 PROVE ReportingSpec => ReportsAreNews
<1> DEFINE News == tx' # tx /\ tx' # NoFrame /\ tx'.kind = "report" =>
                     fresh /\ tx'.serial = faults
<1>1. Parts /\ ReportingInductive /\ [ReportingNext]_reportingVars
        => [News]_reportingVars
  <2> SUFFICES ASSUME Parts, ReportingInductive, ReportingNext,
                      tx' # tx, tx' # NoFrame, tx'.kind = "report"
               PROVE  fresh /\ tx'.serial = faults
    OBVIOUS
  <2>1. CASE SendNewFaultReport
    <3>1. log.total_count # reported_total /\ log.count > 0
      BY <2>1 DEF SendNewFaultReport
    <3> QED
      BY <2>1, <3>1, ReportIsNews
  <2>2. CASE SendPeriodicFrames
    BY <2>2 DEF SendPeriodicFrames, Send, Other
  <2>3. CASE HandleCanRequest
    BY <2>3, HandlerSends DEF HandleCanRequest, Send
  <2>4. ASSUME NEW from, NEW to, MayTrip(from, to) PROVE FALSE
    BY <2>4 DEF MayTrip
  <2>5. CASE EndOfLoop \/ BusTransmits \/ HostSyncs \/ HostAsks
    BY <2>5 DEF EndOfLoop, BusTransmits, HostSyncs, HostAsks
  <2> QED
    BY <2>1, <2>2, <2>3, <2>4, <2>5 DEF ReportingNext
<1>2. ReportingSpec => [][News]_reportingVars
  BY <1>1, PartsHold, ReportingInvariant, PTL DEF ReportingSpec
<1> QED
  BY <1>2 DEF ReportsAreNews

-----------------------------------------------------------------------------
(* The order in which a host reads the log.                                *)

\* The observer's serial of the k-th oldest record: consecutive numbers that
\* end at the newest fault, also after wrap-arounds and clears.
SerialAt(k) == faults - log.count + 1 + k

InOrder ==
  \A k \in 0 .. log.count - 1 : LogChronological(StampLog, k).serial = SerialAt(k)

\* What the index of the last answer would find now is no older.
AnswerKept ==
  /\ answer.index \in Nat /\ answer.serial \in Int /\ answer.serial <= faults
  /\ log.count > 0 => answer.serial <= SerialAt(ClampedIndex(answer.index))

ForwardInductive == InOrder /\ AnswerKept

\* An append takes the next number, and drops the lowest of a full ring.
LEMMA AppendForward ==
  ASSUME RingTypeOK, ReportingTypes, ForwardInductive, NEW rec \in Records, AppendFault(rec),
         TimebaseTypes, answer' = answer
  PROVE  ForwardInductive'
<1> DEFINE stamp == [timestamp_ms |-> AbsoluteMs, serial |-> faults + 1,
                     known |-> KnownTime,
                     exact |-> synced /\ KnownTime - synced_at < Word]
           lost == IF log.count < CAPACITY THEN 0 ELSE 1
<1>1. /\ log' = LogAppend(log, rec) /\ stamps' = LogAppend(StampLog, stamp).records
      /\ faults' = faults + 1 /\ faults \in Nat
  BY DEF AppendFault, AppendRecord, ReportingTypes
<1>2. stamp \in Stamps /\ stamp.serial = faults + 1
  <2>1. KnownTime \in Int /\ AbsoluteMs \in Nat
    BY AbsoluteMsType DEF TimebaseTypes, KnownTime
  <2>2. (synced /\ KnownTime - synced_at < Word) \in BOOLEAN
    OBVIOUS
  <2> QED
    BY <1>1, <2>1, <2>2 DEF Stamps
<1> HIDE DEF stamp
<1>3. /\ CAPACITY \in Nat \ {0} /\ log.count \in 0 .. CAPACITY
      /\ StampLog \in RingOf(Stamps) /\ StampLog.count = log.count
  BY CapacityAssumption DEF RingTypeOK, FaultLogType, ReportingTypes, StampLog, RingOf
<1>4. StampLog' = LogAppend(StampLog, stamp)
  <2>1. log.records \in [0 .. CAPACITY - 1 -> FaultRecord]
    BY DEF RingTypeOK, FaultLogType
  <2> QED
    BY <1>1, <2>1 DEF StampLog, LogAppend
<1>5. log'.count = log.count + 1 - lost /\ StampLog'.count = log'.count
  BY <1>1, <1>3 DEF LogAppend, StampLog
<1>6. /\ \A k \in 0 .. log'.count - 2 :
           LogChronological(StampLog', k) = LogChronological(StampLog, k + lost)
      /\ LogChronological(StampLog', log'.count - 1) = stamp
  BY <1>2, <1>3, <1>4, <1>5, AppendShifts
<1>7. InOrder'
  <2> SUFFICES ASSUME NEW k \in 0 .. log'.count - 1
               PROVE  LogChronological(StampLog', k).serial = faults' - log'.count + 1 + k
    BY DEF InOrder, SerialAt
  <2>1. CASE k = log'.count - 1
    BY <1>1, <1>2, <1>3, <1>5, <1>6, <2>1
  <2>2. CASE k # log'.count - 1
    <3>1. k \in 0 .. log'.count - 2 /\ k + lost \in 0 .. log.count - 1
      BY <1>3, <1>5, <2>2
    <3>2. LogChronological(StampLog', k).serial = faults - log.count + 1 + (k + lost)
      BY <1>6, <3>1 DEF ForwardInductive, InOrder, SerialAt
    <3> QED
      BY <1>1, <1>3, <1>5, <3>1, <3>2
  <2> QED
    BY <2>1, <2>2
<1>8. AnswerKept'
  <2>1. answer.index \in Nat /\ answer.serial \in Int /\ answer.serial <= faults
    BY DEF ForwardInductive, AnswerKept
  <2>2. CASE log.count = 0
    BY <1>1, <1>3, <1>5, <2>1, <2>2 DEF AnswerKept, SerialAt, ClampedIndex
  <2>3. CASE log.count # 0
    <3>1. answer.serial <= SerialAt(ClampedIndex(answer.index))
      BY <1>3, <2>3 DEF ForwardInductive, AnswerKept
    <3>2. SerialAt(ClampedIndex(answer.index)) <= SerialAt(ClampedIndex(answer.index))'
      BY <1>1, <1>3, <1>5, <2>1, <2>3 DEF SerialAt, ClampedIndex
    <3>3. /\ SerialAt(ClampedIndex(answer.index)) \in Int
          /\ SerialAt(ClampedIndex(answer.index))' \in Int
      BY <1>1, <1>3, <1>5, <2>1 DEF SerialAt, ClampedIndex
    <3> QED
      BY <1>1, <2>1, <3>1, <3>2, <3>3 DEF AnswerKept
  <2> QED
    BY <2>2, <2>3
<1> QED
  BY <1>7, <1>8 DEF ForwardInductive

\* An answer is no older than the last one, if its index is no smaller.
LEMMA ReadForward ==
  ASSUME RingTypeOK, ReportingTypes, ForwardInductive, HandleRead, UNCHANGED faults
  PROVE  /\ ForwardInductive'
         /\ answer'.index >= answer.index => answer'.serial >= answer.serial
<1>1. /\ UNCHANGED <<log, stamps, faults>> /\ log.count \in Nat /\ faults \in Nat
      /\ control_box.index \in Nat
  BY ReportingAssumption, CapacityAssumption
  DEF HandleRead, ringVars, RingTypeOK, FaultLogType, ReportingTypes, ClearRequest, ReadRequest
<1>2. answer.index \in Nat /\ answer.serial \in Int /\ answer.serial <= faults
  BY DEF ForwardInductive, AnswerKept
<1>3. InOrder'
  BY <1>1 DEF ForwardInductive, InOrder, SerialAt, StampLog
<1>4. CASE log.count = 0
  BY <1>1, <1>2, <1>3, <1>4 DEF HandleRead, ForwardInductive, AnswerKept
<1>5. CASE log.count # 0
  <2> DEFINE i == ClampedIndex(control_box.index)
  <2>1. i \in 0 .. log.count - 1
    BY <1>1, <1>5 DEF ClampedIndex
  <2>2. answer' = [index |-> control_box.index, serial |-> LogChronological(StampLog, i).serial]
    BY <1>5 DEF HandleRead
  <2>3. answer'.index = control_box.index /\ answer'.serial = SerialAt(i)
    BY <2>1, <2>2 DEF ForwardInductive, InOrder
  <2>4. answer.serial <= SerialAt(ClampedIndex(answer.index))
    BY <1>1, <1>5 DEF ForwardInductive, AnswerKept
  <2>5. answer'.index >= answer.index => answer'.serial >= answer.serial
    BY <1>1, <1>2, <1>5, <2>3, <2>4 DEF SerialAt, ClampedIndex
  <2>6. AnswerKept'
    BY <1>1, <1>2, <2>1, <2>3 DEF AnswerKept, SerialAt, ClampedIndex
  <2> QED
    BY <1>3, <2>5, <2>6 DEF ForwardInductive
<1> QED
  BY <1>4, <1>5

LEMMA ForwardStep ==
  ASSUME Parts, ReportingTypes, ForwardInductive, [ReportingNext]_reportingVars
  PROVE  /\ ForwardInductive'
         /\ answer'.index >= answer.index => answer'.serial >= answer.serial
<1> USE DEF Parts
<1>1. answer.index \in Nat /\ answer.serial \in Int
  BY DEF ReportingTypes, ForwardInductive, AnswerKept
<1>2. ASSUME UNCHANGED <<log, stamps, faults, answer>>
      PROVE  /\ ForwardInductive'
             /\ answer'.index >= answer.index => answer'.serial >= answer.serial
  BY <1>1, <1>2 DEF ForwardInductive, InOrder, AnswerKept, SerialAt, ClampedIndex, StampLog
<1>3. ASSUME NEW from, NEW to, MayTrip(from, to)
      PROVE  /\ ForwardInductive'
             /\ answer'.index >= answer.index => answer'.serial >= answer.serial
  <2>1. CASE UNCHANGED <<ringVars, faults, fresh, excused>>
    BY <1>2, <1>3, <2>1 DEF MayTrip, ringVars
  <2>2. ASSUME NEW rec \in Records, AppendFault(rec)
        PROVE  /\ ForwardInductive'
               /\ answer'.index >= answer.index => answer'.serial >= answer.serial
    <3>1. answer' = answer
      BY <1>3 DEF MayTrip
    <3> QED
      BY <1>1, <2>2, <3>1, AppendForward
  <2> QED
    BY <1>3, <2>1, <2>2 DEF MayTrip
<1>4. CASE SendPeriodicFrames \/ SendNewFaultReport \/ BusTransmits
  BY <1>2, <1>4 DEF SendPeriodicFrames, SendNewFaultReport, BusTransmits, ringVars
<1>5. CASE EndOfLoop \/ HostSyncs \/ HostAsks
  BY <1>2, <1>5 DEF EndOfLoop, HostSyncs, HostAsks, ringVars, observer
<1>6. CASE HandleCanRequest
  <2>1. UNCHANGED faults
    BY <1>6 DEF HandleCanRequest
  <2>2. CASE HandleTimeSync \/ NoRequest
    BY <1>2, <2>1, <2>2 DEF HandleTimeSync, NoRequest, ringVars
  <2>3. CASE HandleClear
    <3>1. log'.count = 0 /\ answer' = answer
      BY <2>3 DEF HandleClear, ClearLog, EmptyLog
    <3> QED
      BY <1>1, <2>1, <3>1 DEF ForwardInductive, InOrder, AnswerKept
  <2>4. CASE HandleRead
    BY <2>1, <2>4, ReadForward
  <2> QED
    BY <1>6, <2>2, <2>3, <2>4 DEF HandleCanRequest
<1>7. CASE UNCHANGED reportingVars
  BY <1>2, <1>7 DEF reportingVars, ringVars, observer
<1> QED
  BY <1>3, <1>4, <1>5, <1>6, <1>7 DEF ReportingNext

LEMMA ForwardInvariant ==
  ASSUME TotalMod > 2 PROVE ReportingSpec => []ForwardInductive
<1>1. ReportingInit => ForwardInductive
  <2> SUFFICES ASSUME ReportingInit PROVE ForwardInductive
    OBVIOUS
  <2>1. log.count = 0 /\ faults = 0 /\ answer.index = 0 /\ answer.serial = 0
    BY DEF ReportingInit, RingInit, EmptyLog, NoAnswer
  <2> QED
    BY <2>1 DEF ForwardInductive, InOrder, AnswerKept
<1>2. Parts /\ ReportingInductive /\ ForwardInductive /\ [ReportingNext]_reportingVars
        => ForwardInductive'
  BY ForwardStep DEF ReportingInductive
<1> QED
  BY <1>1, <1>2, PartsHold, ReportingInvariant, PTL DEF ReportingSpec

\* A host that asks for no smaller an index gets no older a record, whatever
\* the ring has lost, taken in or forgotten since its last answer.
THEOREM ReadsForward ==
  ASSUME TotalMod > 2 PROVE ReportingSpec => ReadsGoForward
<1>1. Parts /\ ReportingInductive /\ ForwardInductive /\ [ReportingNext]_reportingVars
        => [answer'.index >= answer.index => answer'.serial >= answer.serial]_reportingVars
  BY ForwardStep DEF ReportingInductive
<1>2. ReportingSpec =>
        [][answer'.index >= answer.index => answer'.serial >= answer.serial]_reportingVars
  BY <1>1, PartsHold, ReportingInvariant, ForwardInvariant, PTL DEF ReportingSpec
<1> QED
  BY <1>2 DEF ReadsGoForward
=============================================================================
