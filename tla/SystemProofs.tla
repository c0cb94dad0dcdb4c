---------------------------- MODULE SystemProofs ----------------------------
(***************************************************************************)
(* Proofs about System for every value of the constants: the type          *)
(* invariant, the agreement of status word and state, and the action       *)
(* properties about leaving lockout, energising the output and recording   *)
(* what takes it off.  They start with facts about the parameter table for *)
(* every value it accepts: a write never leaves the ranges, and the        *)
(* comparator's code is the rounded value of the short threshold; and they *)
(* have the facts about the overload integrator and its threshold.         *)
(***************************************************************************)
EXTENDS System, TLAPS

-----------------------------------------------------------------------------
(* The parameter table.                                                    *)

\* What the division of C unsigned integers leaves.
LEMMA DivisionBounds ==
  ASSUME NEW a \in Nat, NEW d \in Nat \ {0}
  PROVE  /\ a \div d \in Nat
         /\ d * (a \div d) <= a
         /\ a < d * (a \div d) + d
BY SMT

\* sscb_params_set keeps the block within the ranges, whatever a host sends.
THEOREM WritesKeepRanges ==
  ASSUME NEW p \in ParamBlock, NEW id, NEW value \in Nat
  PROVE  ParamsSet(p, id, value) \in ParamBlock
BY ParamRangeAssumption DEF ParamsSet, ParamsSetAccepts, ParamBlock

\* Adding half the divisor before the division rounds to the nearest: the
\* error is at most half a step, with an even divisor as the source has.
LEMMA RoundedQuotient ==
  ASSUME NEW n \in Nat, NEW h \in Nat \ {0}
  PROVE  LET q == (n + h) \div (2 * h)
         IN  /\ q \in Nat
             /\ 2 * h * q - n <= h
             /\ n - 2 * h * q <= h
<1> DEFINE q == (n + h) \div (2 * h)
<1>1. n + h \in Nat /\ 2 * h \in Nat \ {0}
  OBVIOUS
<1>2. q \in Nat /\ (2 * h) * q <= n + h /\ n + h < (2 * h) * q + 2 * h
  BY <1>1, DivisionBounds
<1>3. (2 * h) * q \in Nat
  BY <1>1, <1>2
<1> QED
  BY <1>2, <1>3

\* Half a step of the DAC divides evenly.
LEMMA HalfStep ==
  ASSUME NEW ref \in Nat
  PROVE  (ref * 10) \div 2 = ref * 5 /\ ref * 10 = 2 * (ref * 5)
BY SMT

\* Without the clamp, and with any reference above zero, the code is the
\* threshold to within half a step of the comparator's DAC.
LEMMA UnclampedCode ==
  ASSUME NEW p \in [WritableIds -> Nat], p["CMPSS_DAC_REF_MV"] > 0,
         DacCode(p) < DacMax
  PROVE  LET step  == p["CMPSS_DAC_REF_MV"] * 10
             error == DacCode(p) * step - p["SHORT_THRESHOLD_A"] * 6 * DacMax
         IN  -step <= 2 * error /\ 2 * error <= step
<1> DEFINE ref == p["CMPSS_DAC_REF_MV"]
           h   == ref * 5
           n   == p["SHORT_THRESHOLD_A"] * 6 * DacMax
           q   == (n + h) \div (2 * h)
<1>1. ref \in Nat \ {0} /\ p["SHORT_THRESHOLD_A"] \in Nat
  BY DEF WritableIds
<1>2. h \in Nat \ {0} /\ n \in Nat
  BY <1>1 DEF DacMax
<1>3. (ref * 10) \div 2 = h /\ ref * 10 = 2 * h
  BY <1>1, HalfStep
<1>4. DacCode(p) = IF q > DacMax THEN DacMax ELSE q
  BY <1>1, <1>3 DEF DacCode
<1>5. q \in Nat /\ 2 * h * q - n <= h /\ n - 2 * h * q <= h
  <2> HIDE DEF h, n
  <2> QED
    BY <1>2, RoundedQuotient
<1>6. DacCode(p) = q
  BY <1>4, <1>5 DEF DacMax
<1>7. q * (2 * h) = 2 * h * q /\ 2 * h * q \in Nat
  <2> HIDE DEF h, n, q
  <2> QED
    BY <1>2, <1>5
<1>8. /\ -(2 * h) <= 2 * (q * (2 * h) - n)
      /\ 2 * (q * (2 * h) - n) <= 2 * h
  <2> HIDE DEF h, n, q
  <2> QED
    BY <1>2, <1>5, <1>7
<1> QED
  BY <1>3, <1>6, <1>8

\* The source's defaults lie in the source's ranges, so that the block the
\* firmware starts from, and falls back to, is one a host could have written.
THEOREM DefaultsInRange ==
  \A id \in WritableIds :
     SourceDefaults[id] \in SourceRange[id].lo .. SourceRange[id].hi
BY SMT DEF WritableIds, SourceDefaults, SourceRange

\* What a block in the source's ranges holds, parameter by parameter.
LEMMA SourceValue ==
  ASSUME ParamRange = SourceRange, NEW p \in ParamBlock, NEW id \in WritableIds
  PROVE  p[id] \in Nat /\ SourceRange[id].lo <= p[id] /\ p[id] <= SourceRange[id].hi
<1> DEFINE v == p[id]
           l == ParamRange[id].lo
           h == ParamRange[id].hi
<1>1. l \in Nat /\ h \in Nat
  BY ParamRangeAssumption
<1>2. v \in Nat /\ v \in l .. h
  BY DEF ParamBlock
<1> HIDE DEF v, l, h
<1>3. l <= v /\ v <= h
  BY <1>1, <1>2
<1> QED
  BY <1>2, <1>3 DEF v, l, h

\* The two parameters the comparator depends on, within the source's ranges.
LEMMA SourceBounds ==
  ASSUME ParamRange = SourceRange, NEW p \in ParamBlock
  PROVE  /\ p["CMPSS_DAC_REF_MV"] \in Nat /\ p["SHORT_THRESHOLD_A"] \in Nat
         /\ 2500 <= p["CMPSS_DAC_REF_MV"] /\ p["CMPSS_DAC_REF_MV"] <= 3000
         /\ 500 <= p["SHORT_THRESHOLD_A"] /\ p["SHORT_THRESHOLD_A"] <= 2000
<1>1. /\ SourceRange["CMPSS_DAC_REF_MV"] = [lo |-> 2500, hi |-> 3000]
      /\ SourceRange["SHORT_THRESHOLD_A"] = [lo |-> 500, hi |-> 2000]
  BY SMT DEF SourceRange
<1>2. {"CMPSS_DAC_REF_MV", "SHORT_THRESHOLD_A"} \subseteq WritableIds
  BY DEF WritableIds
<1>3. /\ p["CMPSS_DAC_REF_MV"] \in Nat
      /\ SourceRange["CMPSS_DAC_REF_MV"].lo <= p["CMPSS_DAC_REF_MV"]
      /\ p["CMPSS_DAC_REF_MV"] <= SourceRange["CMPSS_DAC_REF_MV"].hi
  BY <1>2, SourceValue
<1>4. /\ p["SHORT_THRESHOLD_A"] \in Nat
      /\ SourceRange["SHORT_THRESHOLD_A"].lo <= p["SHORT_THRESHOLD_A"]
      /\ p["SHORT_THRESHOLD_A"] <= SourceRange["SHORT_THRESHOLD_A"].hi
  BY <1>2, SourceValue
<1> QED
  BY <1>1, <1>3, <1>4

\* The clamp to twelve bits never bites within the source's own ranges: a
\* higher threshold a host may write is never silently capped.  2000 A under
\* 2.5 V is the largest code, 1966.
THEOREM CodeNeverCapped ==
  ASSUME ParamRange = SourceRange, NEW p \in ParamBlock
  PROVE  DacCode(p) < DacMax
<1> DEFINE ref == p["CMPSS_DAC_REF_MV"]
           h   == ref * 5
           thr == p["SHORT_THRESHOLD_A"]
           n   == thr * 6 * DacMax
           q   == (n + h) \div (2 * h)
<1>1. /\ ref \in Nat /\ 2500 <= ref /\ ref <= 3000
      /\ thr \in Nat /\ 500 <= thr /\ thr <= 2000
  BY SourceBounds
<1>2. h \in Nat \ {0} /\ n \in Nat /\ h >= 12500 /\ n <= 49140000
  <2> HIDE DEF ref, thr
  <2> QED
    BY SMT, <1>1 DEF DacMax
<1>3. (ref * 10) \div 2 = h /\ ref * 10 = 2 * h
  <2> HIDE DEF ref
  <2> QED
    BY SMTT(30), <1>1, HalfStep
<1>4. q \in Nat /\ 2 * h * q - n <= h
  <2> HIDE DEF h, n
  <2> QED
    BY SMT, <1>2, RoundedQuotient
<1>5. q < 4095
  <2> HIDE DEF h, n, q
  <2>1. SUFFICES ASSUME q >= 4095 PROVE FALSE
    BY SMT, <1>4
  <2>2. h * (2 * q - 1) <= n
    BY SMT, <1>2, <1>4
  <2>3. h * (2 * q - 1) >= 12500 * 8189
    BY SMT, <1>2, <1>4, <2>1
  <2> QED
    BY SMT, <1>2, <1>4, <2>2, <2>3
<1>6. DacCode(p) = IF ref = 0 THEN 0 ELSE IF q > DacMax THEN DacMax ELSE q
  BY <1>1, <1>3 DEF DacCode
<1> QED
  <2> HIDE DEF ref, q
  <2> QED
    BY SMT, <1>1, <1>4, <1>5, <1>6 DEF DacMax

\* With the source's ranges the comparator stands for the threshold to within
\* half a step of its DAC, for every threshold and reference a host can set.
THEOREM ThresholdRounded ==
  ASSUME ParamRange = SourceRange, NEW p \in ParamBlock
  PROVE  LET step  == p["CMPSS_DAC_REF_MV"] * 10
             error == DacCode(p) * step - p["SHORT_THRESHOLD_A"] * 6 * DacMax
         IN  -step <= 2 * error /\ 2 * error <= step
<1>1. p \in [WritableIds -> Nat] /\ p["CMPSS_DAC_REF_MV"] > 0
  <2>1. p \in [WritableIds -> Nat]
    BY DEF ParamBlock
  <2>2. p["CMPSS_DAC_REF_MV"] \in Nat /\ 2500 <= p["CMPSS_DAC_REF_MV"]
    BY SourceBounds
  <2> QED
    BY SMT, <2>1, <2>2
<1>2. DacCode(p) < DacMax
  BY SMT, CodeNeverCapped
<1> QED
  BY SMT, <1>1, <1>2, UnclampedCode

-----------------------------------------------------------------------------
(* The state machine.                                                      *)

\* What the integrator works with.
LEMMA IntegratorInputs ==
  ASSUME NEW rms \in RmsValues, NEW p \in ParamBlock
  PROVE  /\ rms \in Nat /\ U32 \in Nat \ {0}
         /\ p["OVER_CURRENT_IR_A"] \in Nat /\ p["I2T_TR_MS"] \in Nat
         /\ p["I2T_KCOOL_X10000"] \in Nat /\ p["I2T_KCOOL_X10000"] <= 10000
<1> DEFINE k  == p["I2T_KCOOL_X10000"]
           hi == ParamRange["I2T_KCOOL_X10000"].hi
<1>1. {"OVER_CURRENT_IR_A", "I2T_TR_MS", "I2T_KCOOL_X10000"} \subseteq WritableIds
  BY DEF WritableIds
<1>2. p \in [WritableIds -> Nat]
  BY DEF ParamBlock
<1>3. k \in ParamRange["I2T_KCOOL_X10000"].lo .. hi
  BY <1>1 DEF ParamBlock
<1>4. ParamRange["I2T_KCOOL_X10000"] \in [lo : Nat, hi : Nat]
  BY <1>1, ParamRangeAssumption
<1>5. k \in Nat /\ k <= hi /\ hi \in Nat /\ hi <= 10000
  BY <1>1, <1>2, <1>3, <1>4, ProtectionRangeAssumption
<1>6. k <= 10000
  <2> HIDE DEF k, hi
  <2> QED
    BY <1>5
<1>7. rms \in Nat /\ U32 \in Nat \ {0}
  BY MeasurementAssumption, WordAssumption
<1> QED
  BY <1>1, <1>2, <1>5, <1>6, <1>7

\* At or below Ir the integrator keeps a part of its value.
LEMMA IntegratorCools ==
  ASSUME NEW acc \in 0 .. U32 - 1, NEW rms \in RmsValues, NEW p \in ParamBlock,
         rms <= p["OVER_CURRENT_IR_A"]
  PROVE  I2tNext(acc, rms, p) \in 0 .. acc
<1> DEFINE ir == p["OVER_CURRENT_IR_A"]
           k  == p["I2T_KCOOL_X10000"]
           n  == acc * k
<1>1. rms \in Nat /\ ir \in Nat /\ k \in Nat /\ k <= 10000 /\ U32 \in Nat
  BY IntegratorInputs
<1>2. I2tNext(acc, rms, p) = n \div 10000
  <2>1. ~(rms > ir)
    <3> HIDE DEF ir
    <3> QED
      BY <1>1 DEF ir
  <2> QED
    BY <2>1 DEF I2tNext
<1> HIDE DEF ir, k
<1>3. n \in Nat /\ n <= acc * 10000 /\ acc \in Nat
  BY <1>1
<1> HIDE DEF n
<1>4. n \div 10000 \in 0 .. acc
  BY <1>3
<1> QED
  BY <1>2, <1>4

\* The integrator stays a 32-bit value: accumulation saturates and cooling
\* multiplies by a factor of at most one.
LEMMA I2tNextType ==
  ASSUME NEW acc \in 0 .. U32 - 1, NEW rms \in RmsValues, NEW p \in ParamBlock
  PROVE  I2tNext(acc, rms, p) \in 0 .. U32 - 1
<1> DEFINE ir == p["OVER_CURRENT_IR_A"]
           excess == rms * rms - ir * ir
<1>1. ir \in Nat /\ rms \in Nat /\ U32 \in Nat \ {0}
  BY IntegratorInputs
<1>2. CASE rms > ir
  <2> HIDE DEF ir
  <2>1. rms * rms \in Nat /\ ir * ir \in Nat /\ rms * rms >= ir * ir
    <3>1. rms * rms >= ir * rms
      BY <1>1, <1>2
    <3>2. ir * rms >= ir * ir
      BY <1>1, <1>2
    <3> QED
      BY <1>1, <3>1, <3>2
  <2>2. excess \in Nat
    BY <2>1
  <2>3. I2tNext(acc, rms, p) = IF U32 - 1 - acc < excess THEN U32 - 1 ELSE acc + excess
    BY <1>2 DEF I2tNext, ir
  <2> HIDE DEF excess
  <2> QED
    BY <1>1, <2>2, <2>3
<1>3. CASE rms <= ir
  <2>1. I2tNext(acc, rms, p) \in 0 .. acc
    BY <1>3, IntegratorCools
  <2> QED
    BY <1>1, <2>1
<1>4. rms > ir \/ rms <= ir
  <2> HIDE DEF ir
  <2> QED
    BY <1>1
<1> QED
  BY <1>2, <1>3, <1>4

\* The overload threshold before it is cut to 32 bits.
ExactThreshold(p) ==
  LET ir == p["OVER_CURRENT_IR_A"]
  IN  ((225 * ir * ir) \div 100 - ir * ir) * p["I2T_TR_MS"]

\* With the source's ranges and its 32-bit words, the product does not wrap
\* for any Ir up to 239 A, however long Tr is, and an integrator at rest is
\* below it: a host that stays under 240 A gets the delay it asks for.
THEOREM ThresholdExact ==
  ASSUME ParamRange = SourceRange, U32 = 65536 * 65536, NEW p \in ParamBlock,
         p["OVER_CURRENT_IR_A"] <= 239
  PROVE  TripAcc(p) = ExactThreshold(p) /\ ~Overloads(0, p)
<1> DEFINE ir == p["OVER_CURRENT_IR_A"]
           tr == p["I2T_TR_MS"]
           sq == ir * ir
           q  == (225 * sq) \div 100
<1>1. /\ SourceRange["OVER_CURRENT_IR_A"] = [lo |-> 100, hi |-> 500]
      /\ SourceRange["I2T_TR_MS"] = [lo |-> 100, hi |-> 60000]
  BY SMT DEF SourceRange
<1>2. {"OVER_CURRENT_IR_A", "I2T_TR_MS"} \subseteq WritableIds
  BY DEF WritableIds
<1>3. ir \in Nat /\ 100 <= ir /\ ir <= 239
  BY <1>1, <1>2, SourceValue
<1>4. tr \in Nat /\ 100 <= tr /\ tr <= 60000
  BY <1>1, <1>2, SourceValue
<1>5. 225 * ir * ir = 225 * sq
  <2> HIDE DEF ir
  <2> QED
    BY <1>3
<1> HIDE DEF ir, tr
<1>6. sq \in Nat /\ 10000 <= sq /\ sq <= 57121
  <2>1. 100 * 100 <= 100 * ir /\ 100 * ir <= ir * ir
    BY <1>3
  <2>2. ir * ir <= 239 * ir /\ 239 * ir <= 239 * 239
    BY <1>3
  <2> QED
    BY <1>3, <2>1, <2>2
<1>7. q \in Nat /\ 100 * q <= 225 * sq /\ 225 * sq < 100 * q + 100
  <2> HIDE DEF sq
  <2> QED
    BY <1>6, DivisionBounds
<1>8. q - sq \in Nat /\ q - sq >= 1 /\ q - sq <= 71401
  <2> HIDE DEF sq, q
  <2> QED
    BY <1>6, <1>7
<1> DEFINE d == q - sq
<1> HIDE DEF sq, q, d
<1>9. d * tr \in Nat /\ d * tr > 0 /\ d * tr < U32
  <2>1. d \in Nat /\ d >= 1 /\ d <= 71401
    BY <1>8 DEF d
  <2>2. d * tr <= 71401 * tr /\ 71401 * tr <= 71401 * 60000 /\ d * tr >= tr
    BY <1>4, <2>1
  <2> QED
    BY <1>4, <2>1, <2>2
<1>10. (d * tr) % U32 = d * tr
  <2> DEFINE n == d * tr
  <2>1. n \in Nat /\ n < U32 /\ U32 \in Nat
    BY <1>9
  <2> HIDE DEF n
  <2>2. n % U32 = n
    BY <2>1
  <2> QED
    BY <2>2 DEF n
<1>11. TripAcc(p) = (d * tr) % U32 /\ ExactThreshold(p) = d * tr
  BY <1>5 DEF TripAcc, ExactThreshold, d, q, sq, ir, tr
<1> QED
  BY <1>9, <1>10, <1>11 DEF Overloads

\* At or below Ir the integrator only cools: such a tick never turns an
\* integrator below the threshold into an overload, whatever the threshold.
THEOREM CoolingNeverTrips ==
  ASSUME NEW p \in ParamBlock, NEW acc \in 0 .. U32 - 1, NEW rms \in RmsValues,
         rms <= p["OVER_CURRENT_IR_A"], ~Overloads(acc, p)
  PROVE  ~Overloads(I2tNext(acc, rms, p), p)
<1>1. I2tNext(acc, rms, p) \in 0 .. acc
  BY IntegratorCools
<1>2. TripAcc(p) \in Int
  <2> DEFINE ir == p["OVER_CURRENT_IR_A"]
             tr == p["I2T_TR_MS"]
             q  == (225 * ir * ir) \div 100
             n  == (q - ir * ir) * tr
  <2>1. ir \in Nat /\ tr \in Nat /\ U32 \in Nat \ {0}
    BY IntegratorInputs
  <2> HIDE DEF ir, tr
  <2>2. 225 * ir * ir \in Nat /\ ir * ir \in Nat
    BY <2>1
  <2>3. q \in Nat
    BY <2>2, DivisionBounds
  <2> HIDE DEF q
  <2>4. n \in Int
    BY <2>1, <2>2, <2>3
  <2> HIDE DEF n
  <2>5. n % U32 \in Int
    BY <2>1, <2>4
  <2> QED
    BY <2>5 DEF TripAcc, n, q, ir, tr
<1> DEFINE next == I2tNext(acc, rms, p)
           trip == TripAcc(p)
<1>3. next \in 0 .. acc /\ trip \in Int /\ ~(acc >= trip)
  BY <1>1, <1>2 DEF Overloads
<1>4. acc \in Int
  BY WordAssumption
<1> HIDE DEF next, trip
<1>5. ~(next >= trip)
  BY <1>3, <1>4
<1> QED
  BY <1>5 DEF Overloads, next, trip

\* The overvoltage counter counts up by one below saturation, or restarts.
LEMMA OverVoltageNextType ==
  ASSUME NEW ms \in 0 .. U16 - 1, NEW acc, NEW m, NEW p
  PROVE  OverVoltageNext(acc, ms, m, p) \in 0 .. U16 - 1
BY WordAssumption DEF OverVoltageNext

\* A write through sscb_params_set keeps the block inside the ranges.
LEMMA ParamsSetType ==
  ASSUME NEW p \in ParamBlock, NEW w \in ParamWrites
  PROVE  ParamsSet(p, w.id, w.value) \in ParamBlock
<1>1. w.id \in WritableIds \cup ReadOnlyIds /\ w.value \in Nat
  BY ParamWritesAssumption
<1>2. CASE ParamsSetAccepts(w.id, w.value)
  <2> DEFINE q == [p EXCEPT ![w.id] = w.value]
  <2>1. q \in [WritableIds -> Nat]
    BY <1>1 DEF ParamBlock
  <2>2. ASSUME NEW id \in WritableIds
        PROVE  q[id] \in ParamRange[id].lo .. ParamRange[id].hi
    <3>1. CASE id = w.id
      <4>1. q[id] = w.value
        BY <3>1 DEF ParamBlock
      <4>2. ParamRange[id].lo \in Nat /\ ParamRange[id].hi \in Nat
        BY ParamRangeAssumption
      <4>3. ParamRange[id].lo <= w.value /\ w.value <= ParamRange[id].hi
        BY <3>1, <1>2 DEF ParamsSetAccepts
      <4> QED
        BY <4>1, <4>2, <4>3, <1>1
    <3>2. CASE id # w.id
      BY <3>2 DEF ParamBlock
    <3> QED
      BY <3>1, <3>2
  <2>3. ParamsSet(p, w.id, w.value) = q
    BY <1>2 DEF ParamsSet
  <2> HIDE DEF q
  <2> QED
    BY <2>1, <2>2, <2>3 DEF ParamBlock
<1>3. CASE ~ParamsSetAccepts(w.id, w.value)
  BY <1>3 DEF ParamsSet
<1> QED
  BY <1>2, <1>3

\* An append keeps the ring well formed.
LEMMA LogAppendType ==
  ASSUME NEW log \in FaultLogType, NEW rec \in FaultRecord
  PROVE  LogAppend(log, rec) \in FaultLogType
<1>1. CAPACITY \in Nat \ {0} /\ TotalMod \in Nat \ {0}
  BY CapacityAssumption
<1>2. /\ log.records \in [0 .. CAPACITY - 1 -> FaultRecord]
      /\ log.write_index \in 0 .. CAPACITY - 1
      /\ log.count \in 0 .. CAPACITY
      /\ log.total_count \in 0 .. TotalMod - 1
  BY DEF FaultLogType
<1>3. [log.records EXCEPT ![log.write_index] = rec] \in [0 .. CAPACITY - 1 -> FaultRecord]
  BY <1>2
<1>4. (log.write_index + 1) % CAPACITY \in 0 .. CAPACITY - 1
  BY <1>1, <1>2
<1>5. (IF log.count < CAPACITY THEN log.count + 1 ELSE log.count) \in 0 .. CAPACITY
  BY <1>1, <1>2
<1>6. (log.total_count + 1) % TotalMod \in 0 .. TotalMod - 1
  BY <1>1, <1>2
<1> QED
  BY <1>3, <1>4, <1>5, <1>6 DEF LogAppend, FaultLogType

-----------------------------------------------------------------------------
LEMMA SystemInitType == SystemInit => SystemTypeOK
<1> SUFFICES ASSUME SystemInit PROVE SystemTypeOK
  OBVIOUS
<1>1. U32 \in Nat \ {0} /\ U16 \in Nat \ {0}
  BY WordAssumption
<1>2. EmptyLog \in FaultLogType
  BY CapacityAssumption DEF EmptyLog, FaultLogType, ZeroRecord, FaultRecord, Faults, States
<1>3. ParamDefaults \in ParamBlock
  BY ParamDefaultsAssumption DEF ParamBlock
<1> QED
  BY <1>1, <1>2, <1>3
     DEF SystemInit, SystemTypeOK, States, Faults, StatusBits

\* A short trip is a total action: it keeps the types from every state.
LEMMA OnShortTripType == SystemTypeOK /\ OnShortTrip => SystemTypeOK'
<1> SUFFICES ASSUME SystemTypeOK, OnShortTrip PROVE SystemTypeOK'
  OBVIOUS
<1>1. [fault |-> "SHORT", state |-> "LOCKOUT"] \in FaultRecord
  BY DEF FaultRecord, Faults, States
<1>2. fault_log' \in FaultLogType
  BY <1>1, LogAppendType DEF OnShortTrip, AppendFault, SystemTypeOK
<1> QED
  BY <1>2 DEF OnShortTrip, SystemTypeOK, States, Faults, StatusBits,
              safetyInputs, protection

\* The tick keeps the types on every branch.
LEMMA TickType ==
  ASSUME SystemTypeOK, NEW rms \in RmsValues, NEW m \in Measurements, Tick(rms, m)
  PROVE  SystemTypeOK'
<1>1. CASE ProtectionTick(rms, m)
  <2> DEFINE acc   == I2tNext(i2t_acc, rms, params)
             ms    == OverVoltageNext(acc, over_voltage_ms, m, params)
             fault == TickFault(acc, ms, m, params)
  <2>1. i2t_acc' = acc /\ acc \in 0 .. U32 - 1
    BY <1>1, I2tNextType DEF ProtectionTick, SystemTypeOK
  <2>2. over_voltage_ms' = ms /\ ms \in 0 .. U16 - 1
    BY <1>1, OverVoltageNextType DEF ProtectionTick, SystemTypeOK
  <2>3. \/ fault = "OVERTEMP_WARN" /\ EnterWarn
        \/ fault \in {"OVERLOAD", "OVERVOLTAGE"} /\ EnterFault(fault)
        \/ fault = "NONE" /\ (LeaveWarn(m) \/ StayEnergised(m))
    BY <1>1 DEF ProtectionTick
  <2>4. UNCHANGED <<recover_elapsed_ms, trip_clear, driver_ready,
                    fault_conditions_clear, params>>
    BY <1>1 DEF ProtectionTick, safetyInputs
  <2> HIDE DEF fault, ms, acc
  <2>5. /\ state' \in States
        /\ active_fault' \in Faults
        /\ status_word' \subseteq StatusBits
        /\ fault_log' \in FaultLogType
    <3>1. CASE EnterWarn
      BY <3>1 DEF EnterWarn, SystemTypeOK, States, StatusBits
    <3>2. CASE fault \in {"OVERLOAD", "OVERVOLTAGE"} /\ EnterFault(fault)
      <4>1. [fault |-> fault, state |-> "FAULT_ACTIVE"] \in FaultRecord
        BY <3>2 DEF FaultRecord, Faults, States
      <4>2. fault_log' \in FaultLogType
        BY <3>2, <4>1, LogAppendType DEF EnterFault, AppendFault, SystemTypeOK
      <4> QED
        BY <3>2, <4>2 DEF EnterFault, SystemTypeOK, States, Faults, StatusBits
    <3>3. CASE LeaveWarn(m)
      BY <3>3 DEF LeaveWarn, SystemTypeOK, States, StatusBits
    <3>4. CASE StayEnergised(m)
      BY <3>4 DEF StayEnergised, SystemTypeOK, machine
    <3> QED
      BY <2>3, <3>1, <3>2, <3>3, <3>4
  <2> QED
    BY <2>1, <2>2, <2>4, <2>5 DEF SystemTypeOK
<1>2. CASE BeginRecovery
  BY <1>2, WordAssumption DEF BeginRecovery, SystemTypeOK, States, safetyInputs, protection
<1>3. CASE RecoverWait
  BY <1>3, WordAssumption DEF RecoverWait, SystemTypeOK, States, safetyInputs, protection
<1>4. CASE RecoverTry
  BY <1>4 DEF RecoverTry, SystemTypeOK, States, Faults, StatusBits, safetyInputs, protection
<1>5. CASE TickIdle
  BY <1>5 DEF TickIdle, SystemTypeOK, systemVars, machine, safetyInputs, protection
<1> QED
  BY <1>1, <1>2, <1>3, <1>4, <1>5 DEF Tick

\* Every field of sscb_system_t always holds a value of its C type and the
\* parameters stay in the ranges sscb_params_set enforces.
THEOREM SystemTypeCorrect == SystemSpec => []SystemTypeOK
<1>1. SystemInit => SystemTypeOK
  BY SystemInitType
<1>2. SystemTypeOK /\ [SystemNext]_systemVars => SystemTypeOK'
  <2> SUFFICES ASSUME SystemTypeOK, [SystemNext]_systemVars PROVE SystemTypeOK'
    OBVIOUS
  <2>1. CASE Start
    BY <2>1 DEF Start, SystemTypeOK, States, StatusBits, safetyInputs, protection
  <2>2. CASE OnShortTrip
    BY <2>2, OnShortTripType
  <2>3. CASE ManualReset
    BY <2>3 DEF ManualReset, SystemTypeOK, States, Faults, StatusBits, safetyInputs, protection
  <2>4. CASE TickSomething
    BY <2>4, TickType DEF TickSomething
  <2>5. ASSUME NEW t \in BOOLEAN, NEW d \in BOOLEAN, NEW c \in BOOLEAN,
               SetSafetyInputs(t, d, c)
        PROVE  SystemTypeOK'
    BY <2>5 DEF SetSafetyInputs, SystemTypeOK, machine, protection
  <2>6. ASSUME NEW w \in ParamWrites, SetParam(w.id, w.value)
        PROVE  SystemTypeOK'
    BY <2>6, ParamsSetType DEF SetParam, SystemTypeOK, machine, safetyInputs, protection
  <2>7. CASE UNCHANGED systemVars
    BY <2>7 DEF systemVars, machine, safetyInputs, protection, SystemTypeOK
  <2> QED
    BY <2>1, <2>2, <2>3, <2>4, <2>5, <2>6, <2>7 DEF SystemNext
<1> QED
  BY <1>1, <1>2, PTL DEF SystemSpec

-----------------------------------------------------------------------------
\* The status word keeps telling the state, whatever the callers do.
LEMMA StatusStep ==
  ASSUME StatusTellsState, [SystemNext]_systemVars
  PROVE  StatusTellsState'
<1>1. CASE Start
  BY <1>1 DEF Start, StatusTellsState
<1>2. CASE OnShortTrip
  BY <1>2 DEF OnShortTrip, StatusTellsState
<1>3. CASE ManualReset
  BY <1>3 DEF ManualReset, StatusTellsState
<1>4. ASSUME NEW rms \in RmsValues, NEW m \in Measurements, Tick(rms, m)
      PROVE  StatusTellsState'
  <2>1. CASE ProtectionTick(rms, m)
    <3>1. Energised /\ active_fault = "NONE"
      BY <2>1 DEF ProtectionTick, Energised, StatusTellsState
    <3>2. PICK fault \in {"OVERLOAD", "OVERVOLTAGE", "OVERTEMP_WARN", "NONE"} :
             \/ EnterWarn
             \/ fault \in {"OVERLOAD", "OVERVOLTAGE"} /\ EnterFault(fault)
             \/ LeaveWarn(m) \/ StayEnergised(m)
      BY <2>1 DEF ProtectionTick
    <3>3. CASE EnterWarn
      BY <3>1, <3>3 DEF EnterWarn, Energised, StatusTellsState
    <3>4. CASE fault \in {"OVERLOAD", "OVERVOLTAGE"} /\ EnterFault(fault)
      BY <3>1, <3>4 DEF EnterFault, Energised, StatusTellsState
    <3>5. CASE LeaveWarn(m)
      BY <3>1, <3>5 DEF LeaveWarn, StatusTellsState
    <3>6. CASE StayEnergised(m)
      BY <3>6 DEF StayEnergised, machine, StatusTellsState
    <3> QED
      BY <3>2, <3>3, <3>4, <3>5, <3>6
  <2>2. CASE BeginRecovery
    BY <2>2 DEF BeginRecovery, StatusTellsState
  <2>3. CASE RecoverWait
    BY <2>3 DEF RecoverWait, StatusTellsState
  <2>4. CASE RecoverTry
    BY <2>4 DEF RecoverTry, StatusTellsState
  <2>5. CASE TickIdle
    BY <2>5 DEF TickIdle, systemVars, machine, StatusTellsState
  <2> QED
    BY <1>4, <2>1, <2>2, <2>3, <2>4, <2>5 DEF Tick
<1>5. ASSUME NEW t \in BOOLEAN, NEW d \in BOOLEAN, NEW c \in BOOLEAN,
             SetSafetyInputs(t, d, c)
      PROVE  StatusTellsState'
  BY <1>5 DEF SetSafetyInputs, machine, StatusTellsState
<1>6. ASSUME NEW w \in ParamWrites, SetParam(w.id, w.value)
      PROVE  StatusTellsState'
  BY <1>6 DEF SetParam, machine, StatusTellsState
<1>7. CASE UNCHANGED systemVars
  BY <1>7 DEF systemVars, machine, StatusTellsState
<1> QED
  BY <1>1, <1>2, <1>3, <1>4, <1>5, <1>6, <1>7 DEF SystemNext, TickSomething

\* The status word in the real-time frame tells the state and its cause, with
\* NORMAL left beside LOCKOUT where no overload or overvoltage came before.
THEOREM StatusCorrect == SystemSpec => []StatusTellsState
<1>1. SystemInit => StatusTellsState
  BY DEF SystemInit, StatusTellsState
<1>2. StatusTellsState /\ [SystemNext]_systemVars => StatusTellsState'
  BY StatusStep
<1> QED
  BY <1>1, <1>2, PTL DEF SystemSpec

-----------------------------------------------------------------------------
\* A lockout is left only by a manual reset.
LEMMA LockoutStep ==
  ASSUME [SystemNext]_systemVars, state = "LOCKOUT", state' # "LOCKOUT"
  PROVE  ManualReset
<1>1. ~(\E rms \in RmsValues, m \in Measurements : Tick(rms, m))
  BY DEF Tick, ProtectionTick, Energised, BeginRecovery, RecoverWait, RecoverTry, TickIdle,
         systemVars, machine
<1>2. ~(\E t, d, c \in BOOLEAN : SetSafetyInputs(t, d, c))
  BY DEF SetSafetyInputs, machine
<1>3. ~(\E w \in ParamWrites : SetParam(w.id, w.value))
  BY DEF SetParam, machine
<1> QED
  BY <1>1, <1>2, <1>3 DEF SystemNext, TickSomething, Start, OnShortTrip, systemVars, machine

\* A lockout is left only by a manual reset that found the inputs good.
THEOREM LockoutLatched == SystemSpec => LockoutNeedsReset
<1>1. [SystemNext]_systemVars =>
        [state = "LOCKOUT" /\ state' # "LOCKOUT" =>
           state' = "READY" /\ trip_clear /\ driver_ready /\ fault_conditions_clear]_systemVars
  BY LockoutStep DEF ManualReset, ManualResetAccepts
<1> QED
  BY <1>1, PTL DEF SystemSpec, LockoutNeedsReset

\* The output is energised only by start, or by a recovery attempt whose
\* safety inputs are good.
LEMMA EnergisingStep ==
  ASSUME [SystemNext]_systemVars, ~Energised, Energised'
  PROVE  Start \/ (TickSomething /\ state = "RECOVER_TRY" /\ SafeToRecover)
<1>1. ~(OnShortTrip \/ ManualReset)
  BY DEF OnShortTrip, ManualReset, Energised
<1>2. ASSUME NEW rms \in RmsValues, NEW m \in Measurements, Tick(rms, m)
      PROVE  TickSomething /\ state = "RECOVER_TRY" /\ SafeToRecover
  <2>1. TickSomething
    BY <1>2 DEF TickSomething
  <2>2. state = "RECOVER_TRY" /\ SafeToRecover
    BY <1>2 DEF Tick, ProtectionTick, Energised, BeginRecovery, RecoverWait, RecoverTry,
                TickIdle, systemVars, machine
  <2> QED
    BY <2>1, <2>2
<1>3. ~(\E t, d, c \in BOOLEAN : SetSafetyInputs(t, d, c))
  BY DEF SetSafetyInputs, machine, Energised
<1>4. ~(\E w \in ParamWrites : SetParam(w.id, w.value))
  BY DEF SetParam, machine, Energised
<1>5. ~(UNCHANGED systemVars)
  BY DEF systemVars, machine, Energised
<1> QED
  BY <1>1, <1>2, <1>3, <1>4, <1>5 DEF SystemNext, TickSomething

\* No caller, in whatever order, energises the output otherwise.
THEOREM EnergisedSafely == SystemSpec => EnergiseOnlyWhenSafe
<1>1. [SystemNext]_systemVars =>
        [~Energised /\ Energised' =>
           state = "READY" \/ (state = "RECOVER_TRY" /\ SafeToRecover)]_systemVars
  BY EnergisingStep DEF Start
<1> QED
  BY <1>1, PTL DEF SystemSpec, EnergiseOnlyWhenSafe

-----------------------------------------------------------------------------
\* The record just appended is the one get_latest(0) returns, whether the
\* write index wrapped or not.
LEMMA LatestIsAppended ==
  ASSUME NEW log \in FaultLogType, NEW rec
  PROVE  LogLatest(LogAppend(log, rec), 0) = rec
<1> DEFINE w == log.write_index
<1>1. CAPACITY \in Nat \ {0} /\ w \in 0 .. CAPACITY - 1
  BY CapacityAssumption DEF FaultLogType
<1>2. log.records \in [0 .. CAPACITY - 1 -> FaultRecord]
  BY DEF FaultLogType
<1> HIDE DEF w
<1>3. (((w + 1) % CAPACITY) + CAPACITY - 1 - 0) % CAPACITY = w
  <2>1. CASE w + 1 < CAPACITY
    <3>1. (w + 1) % CAPACITY = w + 1
      BY <1>1, <2>1
    <3>2. (w + CAPACITY) % CAPACITY = w
      BY <1>1
    <3> QED
      BY <1>1, <3>1, <3>2
  <2>2. CASE w + 1 = CAPACITY
    <3>1. (w + 1) % CAPACITY = 0
      BY <1>1, <2>2
    <3>2. (CAPACITY - 1) % CAPACITY = CAPACITY - 1
      BY <1>1
    <3> QED
      BY <1>1, <2>2, <3>1, <3>2
  <2> QED
    BY <1>1, <2>1, <2>2
<1>4. LogAppend(log, rec).write_index = (w + 1) % CAPACITY
  BY DEF LogAppend, w
<1>5. LogAppend(log, rec).records = [log.records EXCEPT ![w] = rec]
  BY DEF LogAppend, w
<1>6. [log.records EXCEPT ![w] = rec][w] = rec
  BY <1>1, <1>2
<1> QED
  BY <1>3, <1>4, <1>5, <1>6 DEF LogLatest

\* A step that takes the output off appends the record of the fault it enters.
LEMMA TrippingStep ==
  ASSUME SystemTypeOK, [SystemNext]_systemVars, Energised, ~Energised'
  PROVE  LogLatest(fault_log', 0) = [fault |-> active_fault', state |-> state']
<1>1. CASE OnShortTrip
  <2>1. fault_log' = LogAppend(fault_log, [fault |-> "SHORT", state |-> "LOCKOUT"])
    BY <1>1 DEF OnShortTrip, AppendFault
  <2> QED
    BY <1>1, <2>1, LatestIsAppended DEF OnShortTrip, SystemTypeOK
<1>2. ASSUME NEW rms \in RmsValues, NEW m \in Measurements, Tick(rms, m)
      PROVE  LogLatest(fault_log', 0) = [fault |-> active_fault', state |-> state']
  <2>1. PICK fault \in {"OVERLOAD", "OVERVOLTAGE"} : EnterFault(fault)
    BY <1>2 DEF Tick, ProtectionTick, EnterWarn, LeaveWarn, StayEnergised,
          BeginRecovery, RecoverWait, RecoverTry, TickIdle, systemVars, machine, Energised
  <2>2. fault_log' = LogAppend(fault_log, [fault |-> fault, state |-> "FAULT_ACTIVE"])
    BY <2>1 DEF EnterFault, AppendFault
  <2> QED
    BY <2>1, <2>2, LatestIsAppended DEF EnterFault, SystemTypeOK
<1>3. ~(Start \/ ManualReset)
  BY DEF Start, ManualReset, ManualResetAccepts, Energised
<1>4. ~(\E t, d, c \in BOOLEAN : SetSafetyInputs(t, d, c))
  BY DEF SetSafetyInputs, machine, Energised
<1>5. ~(\E v \in ParamWrites : SetParam(v.id, v.value))
  BY DEF SetParam, machine, Energised
<1>6. ~(UNCHANGED systemVars)
  BY DEF systemVars, machine, Energised
<1> QED
  BY <1>1, <1>2, <1>3, <1>4, <1>5, <1>6 DEF SystemNext, TickSomething

\* Whatever takes the output off leaves the reason in the newest record.
THEOREM TripsRecorded == SystemSpec => TripsAreRecorded
<1>1. SystemTypeOK /\ [SystemNext]_systemVars =>
        [Energised /\ ~Energised' =>
           LogLatest(fault_log', 0) = [fault |-> active_fault', state |-> state']]_systemVars
  BY TrippingStep
<1> QED
  BY <1>1, SystemTypeCorrect, PTL DEF SystemSpec, TripsAreRecorded
=============================================================================
