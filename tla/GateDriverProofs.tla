------------------------- MODULE GateDriverProofs -------------------------
(***************************************************************************)
(* Proofs about GateDriver for every time-out, every reset state of the    *)
(* chip and every corruption: boot that reaches the main loop has left a   *)
(* sealed chip configured as intended.                                     *)
(***************************************************************************)
EXTENDS GateDriver, TLAPS

\* The registers and the order of the transfers.
LEMMA RegisterNames ==
  Registers = {"I2CADD", "I2CGADD", "I2CCFGOK", "UVTLVL", "D1LVL", "D1FILT", "DLEBT",
               "DRVFOFF", "DRVCFG", "TLTOC1", "TLTOC2", "CSSOFCFG", "CLCFG", "CFGOK"}
BY DEF Registers, Expected

LEMMA Sizes == Writes = 14 /\ Transfers = 25
BY DEF Writes, Transfers, ApplyOrder, VerifyOrder

LEMMA ExpectedBytes == Expected \in [Registers -> 0 .. 255]
<1>1. Tltoc1Value(36, 2) \in 0 .. 255 /\ Tltoc2Value(6, 6) \in 0 .. 255
  BY DEF Tltoc1Value, Tltoc2Value
<1> HIDE DEF Tltoc1Value, Tltoc2Value
<1> DEFINE t1 == Tltoc1Value(36, 2)
           t2 == Tltoc2Value(6, 6)
<1>2. \A reg \in Registers : Expected[reg] \in 0 .. 255
  <2> HIDE DEF t1, t2
  <2>1. /\ Expected["TLTOC1"] = t1 /\ Expected["TLTOC2"] = t2
        /\ \A reg \in Registers \ {"TLTOC1", "TLTOC2"} : Expected[reg] \in 0 .. 34
    BY RegisterNames DEF Expected, t1, t2
  <2>2. t1 \in 0 .. 255 /\ t2 \in 0 .. 255
    BY <1>1 DEF t1, t2
  <2> QED
    BY <2>1, <2>2, RegisterNames
<1>3. Expected = [reg \in Registers |-> Expected[reg]]
  BY DEF Registers, Expected
<1> QED
  BY <1>2, <1>3

LEMMA RegistersOrdered == \A n \in 1 .. Transfers : RegisterOf(n) \in Registers
BY Sizes, RegisterNames DEF RegisterOf, ApplyOrder, VerifyOrder

\* Every register that protects the switch is read back.
LEMMA VerifyCovers ==
  \A reg \in ProtectionRegisters : \E n \in Writes + 1 .. Transfers : RegisterOf(n) = reg
BY Sizes, RegisterNames DEF RegisterOf, VerifyOrder, ProtectionRegisters

\* A transfer that ends goes to the next one, or boot is over.
LEMMA TransferDoneType ==
  ASSUME GateTypeOK, TransferDone
  PROVE  phase' \in Phases /\ transfer' \in 1 .. Transfers /\ guard' \in 0 .. TimeoutLoops
BY Sizes, GateDriverAssumption DEF GateTypeOK, TransferDone, EnterWait, Phases, Waits

LEMMA CpuType == ASSUME GateTypeOK, CpuStep PROVE GateTypeOK'
<1> USE DEF GateTypeOK, peripheral, chip, Phases, Waits
<1>1. CASE InitI2c
  BY <1>1, GateDriverAssumption DEF InitI2c
<1>2. CASE Poll
  BY <1>2, GateDriverAssumption DEF Poll
<1>3. CASE TimeOut
  BY <1>3 DEF TimeOut
<1>4. CASE BeginTransfer
  <2>1. busy' \in BOOLEAN /\ stop_pending' \in BOOLEAN /\ no_ack' \in BOOLEAN
        /\ access_rdy' \in BOOLEAN /\ rx_rdy' \in BOOLEAN
    BY <1>4 DEF BeginTransfer, Passes, EnterWait
  <2>2. /\ phase' \in Phases /\ transfer' \in 1 .. Transfers /\ guard' \in 0 .. TimeoutLoops
        /\ actual' \in 0 .. 255 /\ rx_data' \in 0 .. 255
        /\ wire' \in {"none", "write", "register", "byte", "stop"}
        /\ regs' \in [Registers -> 0 .. 255] /\ pointer' \in Registers
        /\ upsets' \in 0 .. MaxUpsets /\ boots' \in 0 .. MaxBoots
    BY <1>4, GateDriverAssumption DEF BeginTransfer, Passes, EnterWait
  <2> QED
    BY <2>1, <2>2
<1>5. CASE FinishWrite
  <2>1. CASE TransferDone /\ UNCHANGED <<stop_pending, no_ack, wire, access_rdy>>
    BY <1>5, <2>1, TransferDoneType DEF FinishWrite
  <2>2. CASE /\ no_ack' = FALSE /\ stop_pending' = TRUE /\ phase' = "halted"
             /\ UNCHANGED <<transfer, guard, wire, access_rdy>>
    BY <1>5, <2>2 DEF FinishWrite
  <2> QED
    BY <1>5, <2>1, <2>2 DEF FinishWrite, CheckI2cError
<1>6. CASE SelectRegister
  <2>1. busy' \in BOOLEAN /\ stop_pending' \in BOOLEAN /\ no_ack' \in BOOLEAN
        /\ access_rdy' \in BOOLEAN /\ rx_rdy' \in BOOLEAN
    BY <1>6 DEF SelectRegister, CheckI2cError, EnterWait
  <2>2. /\ phase' \in Phases /\ transfer' \in 1 .. Transfers /\ guard' \in 0 .. TimeoutLoops
        /\ actual' \in 0 .. 255 /\ rx_data' \in 0 .. 255
        /\ wire' \in {"none", "write", "register", "byte", "stop"}
        /\ regs' \in [Registers -> 0 .. 255] /\ pointer' \in Registers
        /\ upsets' \in 0 .. MaxUpsets /\ boots' \in 0 .. MaxBoots
    BY <1>6, GateDriverAssumption DEF SelectRegister, CheckI2cError, EnterWait
  <2> QED
    BY <2>1, <2>2
<1>7. CASE TakeByte
  <2>1. busy' \in BOOLEAN /\ stop_pending' \in BOOLEAN /\ no_ack' \in BOOLEAN
        /\ access_rdy' \in BOOLEAN /\ rx_rdy' \in BOOLEAN
    BY <1>7 DEF TakeByte, EnterWait
  <2>2. /\ phase' \in Phases /\ transfer' \in 1 .. Transfers /\ guard' \in 0 .. TimeoutLoops
        /\ actual' \in 0 .. 255 /\ rx_data' \in 0 .. 255
        /\ wire' \in {"none", "write", "register", "byte", "stop"}
        /\ regs' \in [Registers -> 0 .. 255] /\ pointer' \in Registers
        /\ upsets' \in 0 .. MaxUpsets /\ boots' \in 0 .. MaxBoots
    BY <1>7, GateDriverAssumption DEF TakeByte, EnterWait
  <2> QED
    BY <2>1, <2>2
<1>8. CASE CompareByte
  <2>1. phase' \in Phases /\ transfer' \in 1 .. Transfers /\ guard' \in 0 .. TimeoutLoops
    BY <1>8, TransferDoneType DEF CompareByte
  <2> QED
    BY <1>8, <2>1 DEF CompareByte
<1> QED
  BY <1>1, <1>2, <1>3, <1>4, <1>5, <1>6, <1>7, <1>8 DEF CpuStep

LEMMA HardwareType == ASSUME GateTypeOK, HardwareStep PROVE GateTypeOK'
<1> USE DEF GateTypeOK, cpu, peripheral, chip, Phases, BusReleased
<1>0. "I2CADD" \in Registers
  BY RegisterNames
<1>1. CASE SendsWrite
  <2>1. RegisterOf(transfer) \in Registers
    BY RegistersOrdered
  <2>2. Expected[RegisterOf(transfer)] \in 0 .. 255
    BY <2>1, ExpectedBytes
  <2>3. regs' \in [Registers -> 0 .. 255] /\ upsets' \in 0 .. MaxUpsets
    <3>1. regs \in [Registers -> 0 .. 255] /\ upsets \in 0 .. MaxUpsets /\ MaxUpsets \in Nat
          /\ WrongBytes \subseteq 0 .. 255
      BY GateDriverAssumption
    <3> HIDE DEF GateTypeOK
    <3> QED
      BY <1>1, <2>1, <2>2, <3>1 DEF SendsWrite
  <2>4. /\ wire' = "none" /\ busy' = FALSE /\ stop_pending' = FALSE
        /\ UNCHANGED <<cpu, no_ack, access_rdy, rx_rdy, rx_data, pointer, boots>>
    <3> HIDE DEF GateTypeOK
    <3> QED
      BY <1>1 DEF SendsWrite
  <2> QED
    BY <2>3, <2>4
<1>2. CASE SendsRegister
  <2>1. RegisterOf(transfer) \in Registers
    BY RegistersOrdered
  <2> QED
    BY <1>2, <2>1 DEF SendsRegister
<1>3. CASE ReceivesByte \/ SendsStop
  <2>1. busy' \in BOOLEAN /\ stop_pending' \in BOOLEAN /\ no_ack' \in BOOLEAN
        /\ access_rdy' \in BOOLEAN /\ rx_rdy' \in BOOLEAN
    BY <1>3 DEF ReceivesByte, SendsStop
  <2>2. /\ phase' \in Phases /\ transfer' \in 1 .. Transfers /\ guard' \in 0 .. TimeoutLoops
        /\ actual' \in 0 .. 255 /\ rx_data' \in 0 .. 255
        /\ wire' \in {"none", "write", "register", "byte", "stop"}
        /\ regs' \in [Registers -> 0 .. 255] /\ pointer' \in Registers
        /\ upsets' \in 0 .. MaxUpsets /\ boots' \in 0 .. MaxBoots
    BY <1>3 DEF ReceivesByte, SendsStop
  <2> QED
    BY <2>1, <2>2
<1>4. CASE NotAcknowledged
  <2>1. /\ busy' \in BOOLEAN /\ stop_pending' \in BOOLEAN /\ no_ack' = TRUE
        /\ access_rdy' \in BOOLEAN /\ rx_rdy' \in BOOLEAN
    <3>1. busy \in BOOLEAN /\ stop_pending \in BOOLEAN /\ access_rdy \in BOOLEAN
          /\ rx_rdy \in BOOLEAN
      OBVIOUS
    <3> HIDE DEF GateTypeOK
    <3>2. access_rdy' \in BOOLEAN /\ rx_rdy' = rx_rdy /\ no_ack' = TRUE
      BY <1>4, <3>1 DEF NotAcknowledged
    <3>3. busy' \in BOOLEAN /\ stop_pending' \in BOOLEAN
      BY <1>4, <3>1 DEF NotAcknowledged
    <3> QED
      BY <3>1, <3>2, <3>3
  <2>2. wire' = "none" /\ UNCHANGED <<cpu, rx_data, chip, boots>>
    BY <1>4 DEF NotAcknowledged
  <2> QED
    BY <2>1, <2>2
<1>5. CASE BusFrees
  BY <1>5 DEF BusFrees
<1>6. CASE ChipReset
  BY <1>0, <1>6, GateDriverAssumption DEF ChipReset
<1>7. CASE PowerLoss
  <2>1. busy' \in BOOLEAN /\ stop_pending' \in BOOLEAN /\ no_ack' \in BOOLEAN
        /\ access_rdy' \in BOOLEAN /\ rx_rdy' \in BOOLEAN
    BY <1>7 DEF PowerLoss
  <2>2. /\ phase' \in Phases /\ transfer' \in 1 .. Transfers /\ guard' \in 0 .. TimeoutLoops
        /\ actual' \in 0 .. 255 /\ rx_data' \in 0 .. 255
        /\ wire' \in {"none", "write", "register", "byte", "stop"}
        /\ regs' \in [Registers -> 0 .. 255] /\ pointer' \in Registers
        /\ upsets' \in 0 .. MaxUpsets /\ boots' \in 0 .. MaxBoots
    BY <1>7, Sizes, GateDriverAssumption DEF PowerLoss
  <2> QED
    BY <2>1, <2>2
<1> QED
  BY <1>1, <1>2, <1>3, <1>4, <1>5, <1>6, <1>7 DEF HardwareStep

\* The variables keep their types through every fault of the bus.
THEOREM GateTyped == GateSpec => []GateTypeOK
<1>1. GateInit => GateTypeOK
  <2> SUFFICES ASSUME GateInit PROVE GateTypeOK
    OBVIOUS
  <2>1. /\ busy \in BOOLEAN /\ stop_pending \in BOOLEAN /\ no_ack \in BOOLEAN
        /\ access_rdy \in BOOLEAN /\ rx_rdy \in BOOLEAN
    BY DEF GateInit
  <2>2. /\ phase \in Phases /\ transfer \in 1 .. Transfers /\ guard \in 0 .. TimeoutLoops
        /\ actual \in 0 .. 255 /\ rx_data \in 0 .. 255
        /\ wire \in {"none", "write", "register", "byte", "stop"}
        /\ regs \in [Registers -> 0 .. 255] /\ pointer \in Registers
        /\ upsets \in 0 .. MaxUpsets /\ boots \in 0 .. MaxBoots
    <3>1. "I2CADD" \in Registers /\ ResetValue \in [Registers -> 0 .. 255]
          /\ TimeoutLoops \in Nat /\ MaxUpsets \in Nat /\ MaxBoots \in Nat
      BY RegisterNames, GateDriverAssumption
    <3>2. 1 \in 1 .. Transfers
      BY Sizes
    <3> QED
      BY <3>1, <3>2 DEF GateInit, Phases
  <2> QED
    BY <2>1, <2>2 DEF GateTypeOK
<1>2. GateTypeOK /\ [GateNext]_gateVars => GateTypeOK'
  <2>1. GateTypeOK /\ UNCHANGED gateVars => GateTypeOK'
    BY DEF GateTypeOK, gateVars, cpu, peripheral, chip
  <2> QED
    BY <2>1, CpuType, HardwareType DEF GateNext
<1> QED
  BY <1>1, <1>2, PTL DEF GateSpec

-----------------------------------------------------------------------------
(* What a wait of the processor may find on the bus.                       *)

BusAgrees ==
  /\ phase = "off" => transfer = 1
  /\ phase = "running" => wire = "none"
  /\ phase \in {"off", "not_busy"} =>
       wire = "none" /\ ~stop_pending /\ ~no_ack /\ ~access_rdy /\ ~rx_rdy
  /\ phase = "write_stop" =>
       /\ transfer <= Writes /\ ~access_rdy /\ ~rx_rdy
       /\ wire = "none" \/ (wire = "write" /\ stop_pending /\ ~no_ack)
  /\ phase = "register" =>
       /\ transfer > Writes /\ ~stop_pending /\ ~rx_rdy
       /\ wire = "none" \/ (wire = "register" /\ ~access_rdy /\ ~no_ack)
  /\ phase = "byte" =>
       /\ transfer > Writes /\ ~access_rdy /\ (rx_rdy => ~no_ack)
       /\ \/ wire = "none"
          \/ wire = "stop" /\ stop_pending
          \/ wire = "byte" /\ stop_pending /\ ~rx_rdy /\ ~no_ack
  /\ phase = "read_stop" =>
       /\ transfer > Writes /\ ~access_rdy /\ ~rx_rdy /\ ~no_ack
       /\ wire = "none" \/ (wire = "stop" /\ stop_pending)

Right(n) == regs[RegisterOf(n)] = Expected[RegisterOf(n)]

\* The chip was reset since its CFGOK was written: nothing writes it again.
Unsealed == regs["CFGOK"] # Expected["CFGOK"]

\* What a wait knows of the chip: a write that was acknowledged arrived, a
\* byte that was read is that of the register meant, and what was read back
\* still holds, unless the chip was reset.
DataAgrees ==
  /\ phase = "write_stop" /\ wire = "none" /\ ~no_ack /\ upsets = 0 => Right(transfer)
  /\ phase = "register" /\ access_rdy /\ ~no_ack =>
       Unsealed \/ pointer = RegisterOf(transfer)
  /\ phase = "byte" /\ wire = "byte" => Unsealed \/ pointer = RegisterOf(transfer)
  /\ phase = "byte" /\ rx_rdy => Unsealed \/ rx_data = regs[RegisterOf(transfer)]
  /\ phase = "read_stop" => Unsealed \/ actual = regs[RegisterOf(transfer)]

ReadBack ==
  /\ phase \in Waits => \A n \in Writes + 1 .. transfer - 1 : Unsealed \/ Right(n)
  /\ phase = "running" => \A n \in Writes + 1 .. Transfers : Unsealed \/ Right(n)

Arrived ==
  upsets = 0 /\ phase \in Waits \cup {"running"} =>
    \A n \in 1 .. Writes : n < transfer => Right(n)

GateInductive == GateTypeOK /\ BusAgrees /\ DataAgrees /\ ReadBack /\ Arrived

\* Steps that leave the chip alone, and the transfer.
SameTransfer ==
  /\ UNCHANGED <<transfer, regs, upsets>>
  /\ phase' \in Waits => phase \in Waits
  /\ phase' = "running" => phase = "running"

LEMMA SameTransferKeeps ==
  ASSUME GateInductive, SameTransfer PROVE ReadBack' /\ Arrived'
<1>1. (Unsealed' <=> Unsealed) /\ \A n : Right(n)' <=> Right(n)
  BY DEF SameTransfer, Unsealed, Right
<1> QED
  BY <1>1 DEF GateInductive, SameTransfer, ReadBack, Arrived

LEMMA InitI2cInductive ==
  ASSUME GateInductive, InitI2c PROVE BusAgrees' /\ DataAgrees' /\ ReadBack' /\ Arrived'
<1>1. /\ phase = "off" /\ phase' = "not_busy"
      /\ UNCHANGED <<transfer, stop_pending, no_ack, access_rdy, rx_rdy, wire, regs, upsets>>
  BY DEF InitI2c, chip
<1>2. transfer' = 1
  BY <1>1 DEF GateInductive, BusAgrees
<1>3. BusAgrees' /\ DataAgrees'
  BY <1>1 DEF GateInductive, BusAgrees, DataAgrees
<1>4. ReadBack' /\ Arrived'
  BY <1>1, <1>2, Sizes DEF ReadBack, Arrived
<1> QED
  BY <1>3, <1>4

LEMMA PollInductive ==
  ASSUME GateInductive, Poll \/ TimeOut PROVE BusAgrees' /\ DataAgrees' /\ ReadBack' /\ Arrived'
<1>1. /\ UNCHANGED <<transfer, actual, stop_pending, no_ack, access_rdy, rx_rdy, rx_data,
                     wire, regs, pointer, upsets>>
      /\ phase' = phase \/ phase' = "halted"
  BY DEF Poll, TimeOut, peripheral, chip
<1>2. ReadBack' /\ Arrived'
  BY <1>1, SameTransferKeeps DEF SameTransfer, Waits
<1>3. BusAgrees' /\ DataAgrees'
  BY <1>1 DEF GateInductive, BusAgrees, DataAgrees, Unsealed, Right
<1> QED
  BY <1>2, <1>3

LEMMA BeginTransferInductive ==
  ASSUME GateInductive, BeginTransfer PROVE BusAgrees' /\ DataAgrees' /\ ReadBack' /\ Arrived'
<1>1. /\ phase = "not_busy" /\ transfer \in 1 .. Transfers /\ Writes \in Nat
      /\ UNCHANGED <<transfer, actual, no_ack, access_rdy, rx_rdy, rx_data, regs, pointer, upsets>>
      /\ \/ transfer <= Writes /\ phase' = "write_stop" /\ wire' = "write" /\ stop_pending' = TRUE
         \/ /\ transfer > Writes /\ phase' = "register" /\ wire' = "register"
            /\ stop_pending' = stop_pending
  BY Sizes DEF BeginTransfer, Passes, EnterWait, chip, GateInductive, GateTypeOK
<1>2. ReadBack' /\ Arrived'
  BY <1>1, SameTransferKeeps DEF SameTransfer, Waits
<1>3. BusAgrees'
  BY <1>1 DEF GateInductive, BusAgrees
<1>4. DataAgrees'
  BY <1>1 DEF GateInductive, BusAgrees, DataAgrees
<1> QED
  BY <1>2, <1>3, <1>4

\* A transfer that is done extends what is known by its own register.
LEMMA TransferDoneKeeps ==
  ASSUME GateInductive, TransferDone, UNCHANGED <<regs, upsets>>,
         phase \in Waits,
         transfer > Writes => Unsealed \/ Right(transfer),
         transfer <= Writes /\ upsets = 0 => Right(transfer)
  PROVE  /\ ReadBack' /\ Arrived'
         /\ phase' \in {"not_busy", "running"}
<1>1. transfer \in 1 .. Transfers /\ Writes = 14 /\ Transfers = 25
  BY Sizes DEF GateInductive, GateTypeOK
<1>2. (Unsealed' <=> Unsealed) /\ \A n : Right(n)' <=> Right(n)
  BY DEF Unsealed, Right
<1>3. \A n \in Writes + 1 .. transfer : Unsealed \/ Right(n)
  BY <1>1 DEF GateInductive, ReadBack
<1>4. upsets = 0 => \A n \in 1 .. Writes : n <= transfer => Right(n)
  BY <1>1 DEF GateInductive, Arrived
<1>5. CASE transfer = Transfers
  <2>1. phase' = "running" /\ transfer' = transfer
    BY <1>5 DEF TransferDone
  <2> QED
    BY <1>1, <1>2, <1>3, <1>4, <1>5, <2>1 DEF ReadBack, Arrived, Waits
<1>6. CASE transfer # Transfers
  <2>1. phase' = "not_busy" /\ transfer' = transfer + 1
    BY <1>6 DEF TransferDone, EnterWait
  <2> QED
    BY <1>1, <1>2, <1>3, <1>4, <2>1 DEF ReadBack, Arrived, Waits
<1> QED
  BY <1>5, <1>6

LEMMA FinishWriteInductive ==
  ASSUME GateInductive, FinishWrite PROVE BusAgrees' /\ DataAgrees' /\ ReadBack' /\ Arrived'
<1>1. /\ phase = "write_stop" /\ ~stop_pending
      /\ UNCHANGED <<actual, rx_rdy, rx_data, regs, pointer, upsets>>
  BY DEF FinishWrite, Passes, Waiting, chip
<1>2. transfer <= Writes /\ ~access_rdy /\ ~rx_rdy /\ wire = "none"
  BY <1>1 DEF GateInductive, BusAgrees
<1>3. CASE ~no_ack /\ TransferDone /\ UNCHANGED <<no_ack, stop_pending, wire, access_rdy>>
  <2>1. /\ transfer \in Nat /\ Writes \in Nat
        /\ upsets = 0 => Right(transfer)
    BY <1>1, <1>2, <1>3, Sizes DEF GateInductive, GateTypeOK, DataAgrees
  <2>2. /\ ReadBack' /\ Arrived' /\ phase' \in {"not_busy", "running"}
    BY <1>1, <1>2, <1>3, <2>1, TransferDoneKeeps DEF Waits
  <2> QED
    BY <1>1, <1>2, <1>3, <2>2 DEF BusAgrees, DataAgrees
<1>4. CASE phase' = "halted" /\ UNCHANGED transfer
  <2>1. ReadBack' /\ Arrived'
    BY <1>1, <1>4, SameTransferKeeps DEF SameTransfer, Waits
  <2> QED
    BY <1>4, <2>1 DEF BusAgrees, DataAgrees
<1> QED
  BY <1>3, <1>4 DEF FinishWrite, CheckI2cError

LEMMA ReadInductive ==
  ASSUME GateInductive, SelectRegister \/ TakeByte
  PROVE  BusAgrees' /\ DataAgrees' /\ ReadBack' /\ Arrived'
<1>1. CASE SelectRegister
  <2>1. /\ phase = "register" /\ access_rdy
        /\ UNCHANGED <<transfer, rx_rdy, regs, pointer, upsets>>
        /\ \/ /\ ~no_ack /\ no_ack' = no_ack
              /\ phase' = "byte" /\ wire' = "byte" /\ stop_pending' = TRUE
              /\ access_rdy' = FALSE
           \/ phase' = "halted"
    BY <1>1 DEF SelectRegister, Passes, Waiting, CheckI2cError, EnterWait, chip
  <2>2. ReadBack' /\ Arrived'
    BY <2>1, SameTransferKeeps DEF SameTransfer, Waits
  <2>3. BusAgrees' /\ DataAgrees'
    BY <2>1 DEF GateInductive, BusAgrees, DataAgrees, Unsealed
  <2> QED
    BY <2>2, <2>3
<1>2. CASE TakeByte
  <2>1. /\ phase = "byte" /\ rx_rdy /\ phase' = "read_stop"
        /\ actual' = rx_data /\ rx_rdy' = FALSE
        /\ UNCHANGED <<transfer, stop_pending, no_ack, access_rdy, wire, regs, upsets>>
    BY <1>2 DEF TakeByte, Passes, Waiting, EnterWait, chip
  <2>2. ReadBack' /\ Arrived'
    BY <2>1, SameTransferKeeps DEF SameTransfer, Waits
  <2>3. BusAgrees' /\ DataAgrees'
    BY <2>1 DEF GateInductive, BusAgrees, DataAgrees, Unsealed
  <2> QED
    BY <2>2, <2>3
<1> QED
  BY <1>1, <1>2

LEMMA CompareByteInductive ==
  ASSUME GateInductive, CompareByte PROVE BusAgrees' /\ DataAgrees' /\ ReadBack' /\ Arrived'
<1>1. /\ phase = "read_stop" /\ ~stop_pending
      /\ UNCHANGED <<actual, stop_pending, no_ack, access_rdy, rx_rdy, wire, regs, upsets>>
  BY DEF CompareByte, Passes, Waiting, peripheral, chip
<1>2. /\ transfer > Writes /\ ~access_rdy /\ ~rx_rdy /\ ~no_ack /\ wire = "none"
      /\ Unsealed \/ actual = regs[RegisterOf(transfer)]
  BY <1>1 DEF GateInductive, BusAgrees, DataAgrees
<1>3. CASE actual = Expected[RegisterOf(transfer)] /\ TransferDone
  <2>1. transfer \in Nat /\ Writes \in Nat /\ (Unsealed \/ Right(transfer))
    BY <1>2, <1>3, Sizes DEF GateInductive, GateTypeOK, Right
  <2>2. /\ ReadBack' /\ Arrived' /\ phase' \in {"not_busy", "running"}
    BY <1>1, <1>2, <1>3, <2>1, TransferDoneKeeps DEF Waits
  <2> QED
    BY <1>1, <1>2, <2>2 DEF BusAgrees, DataAgrees
<1>4. CASE phase' = "halted" /\ UNCHANGED transfer
  <2>1. ReadBack' /\ Arrived'
    BY <1>1, <1>4, SameTransferKeeps DEF SameTransfer, Waits
  <2> QED
    BY <1>4, <2>1 DEF BusAgrees, DataAgrees
<1> QED
  BY <1>3, <1>4 DEF CompareByte

\* A byte on the wire is the one of the write that is being waited for.
LEMMA SendsWriteInductive ==
  ASSUME GateInductive, SendsWrite PROVE BusAgrees' /\ DataAgrees' /\ ReadBack' /\ Arrived'
<1> DEFINE reg == RegisterOf(transfer)
<1>1. /\ wire = "write" /\ wire' = "none" /\ stop_pending' = FALSE
      /\ UNCHANGED <<phase, transfer, actual, no_ack, access_rdy, rx_rdy, rx_data, pointer>>
      /\ \/ regs' = [regs EXCEPT ![reg] = Expected[reg]] /\ upsets' = upsets
         \/ upsets' = upsets + 1
  BY DEF SendsWrite, BusReleased, cpu
<1>2. /\ transfer \in 1 .. Transfers /\ upsets \in Nat /\ Writes = 14 /\ Transfers = 25
      /\ regs \in [Registers -> 0 .. 255] /\ phase \in Phases
  BY Sizes, GateDriverAssumption DEF GateInductive, GateTypeOK
<1>3. phase \in {"write_stop", "halted"}
  BY <1>1, <1>2 DEF GateInductive, BusAgrees, Phases, Waits
<1>4. phase = "write_stop" => transfer <= Writes
  BY DEF GateInductive, BusAgrees
<1>5. BusAgrees'
  BY <1>1, <1>3 DEF GateInductive, BusAgrees
<1>6. ReadBack'
  BY <1>1, <1>2, <1>3, <1>4 DEF ReadBack, Waits
<1>7. upsets' = 0 => /\ upsets = 0
                     /\ Right(transfer)'
                     /\ \A n \in 1 .. Writes : Right(n) => Right(n)'
  <2> SUFFICES ASSUME upsets' = 0
               PROVE  /\ upsets = 0 /\ Right(transfer)'
                      /\ \A n \in 1 .. Writes : Right(n) => Right(n)'
    OBVIOUS
  <2>1. upsets = 0 /\ regs' = [regs EXCEPT ![reg] = Expected[reg]]
    BY <1>1, <1>2
  <2>2. reg \in Registers
    BY <1>2, RegistersOrdered
  <2>3. \A r \in Registers : regs'[r] = IF r = reg THEN Expected[reg] ELSE regs[r]
    BY <1>2, <2>1, <2>2
  <2>4. \A n \in 1 .. Writes : RegisterOf(n) \in Registers
    BY <1>2, RegistersOrdered
  <2> HIDE DEF reg
  <2>5. \A n \in 1 .. Writes : Right(n) => Right(n)'
    BY <2>3, <2>4 DEF Right
  <2>6. Right(transfer)'
    BY <1>1, <2>2, <2>3 DEF Right, reg
  <2> QED
    BY <2>1, <2>5, <2>6
<1>8. DataAgrees'
  BY <1>1, <1>3, <1>7 DEF DataAgrees
<1>9. Arrived'
  BY <1>1, <1>7 DEF GateInductive, Arrived
<1> QED
  BY <1>5, <1>6, <1>8, <1>9

LEMMA PeripheralInductive ==
  ASSUME GateInductive,
         SendsRegister \/ ReceivesByte \/ SendsStop \/ NotAcknowledged \/ BusFrees
  PROVE  BusAgrees' /\ DataAgrees' /\ ReadBack' /\ Arrived'
<1>1. UNCHANGED <<phase, transfer, actual, regs, upsets>>
  BY DEF SendsRegister, ReceivesByte, SendsStop, NotAcknowledged, BusFrees, cpu, chip
<1>2. ReadBack' /\ Arrived'
  BY <1>1, SameTransferKeeps DEF SameTransfer
<1>3. CASE SendsRegister
  <2>1. /\ wire = "register" /\ wire' = "none"
        /\ pointer' = RegisterOf(transfer) /\ access_rdy' = TRUE
        /\ UNCHANGED <<stop_pending, no_ack, rx_rdy, rx_data>>
    BY <1>3 DEF SendsRegister
  <2>2. BusAgrees' /\ DataAgrees'
    BY <1>1, <2>1 DEF GateInductive, BusAgrees, DataAgrees, Unsealed, Right
  <2> QED
    BY <1>2, <2>2
<1>4. CASE ReceivesByte
  <2>1. /\ wire = "byte" /\ wire' = "stop" /\ rx_data' = regs[pointer] /\ rx_rdy' = TRUE
        /\ UNCHANGED <<stop_pending, no_ack, access_rdy, pointer>>
    BY <1>4 DEF ReceivesByte, chip
  <2>2. BusAgrees' /\ DataAgrees'
    BY <1>1, <2>1 DEF GateInductive, BusAgrees, DataAgrees, Unsealed, Right
  <2> QED
    BY <1>2, <2>2
<1>5. CASE SendsStop
  <2>1. /\ wire = "stop" /\ wire' = "none" /\ stop_pending' = FALSE
        /\ UNCHANGED <<no_ack, access_rdy, rx_rdy, rx_data, pointer>>
    BY <1>5 DEF SendsStop, BusReleased, chip
  <2>2. BusAgrees' /\ DataAgrees'
    BY <1>1, <2>1 DEF GateInductive, BusAgrees, DataAgrees, Unsealed, Right
  <2> QED
    BY <1>2, <2>2
<1>6. CASE NotAcknowledged
  <2>1. /\ wire \in {"write", "register", "byte"} /\ wire' = "none" /\ no_ack' = TRUE
        /\ wire = "register" => stop_pending' = stop_pending
        /\ wire # "register" => access_rdy' = access_rdy
        /\ UNCHANGED <<rx_rdy, rx_data, pointer>>
    BY <1>6 DEF NotAcknowledged, BusReleased, chip
  <2>2. BusAgrees' /\ DataAgrees'
    BY <1>1, <2>1 DEF GateInductive, BusAgrees, DataAgrees, Unsealed, Right
  <2> QED
    BY <1>2, <2>2
<1>7. CASE BusFrees
  <2>1. UNCHANGED <<stop_pending, no_ack, access_rdy, rx_rdy, rx_data, wire, pointer>>
    BY <1>7 DEF BusFrees, chip
  <2>2. BusAgrees' /\ DataAgrees'
    BY <1>1, <2>1 DEF GateInductive, BusAgrees, DataAgrees, Unsealed, Right
  <2> QED
    BY <1>2, <2>2
<1> QED
  BY <1>3, <1>4, <1>5, <1>6, <1>7

\* A reset of the chip takes its CFGOK, whatever it takes besides.
LEMMA ChipResetInductive ==
  ASSUME GateInductive, ChipReset PROVE BusAgrees' /\ DataAgrees' /\ ReadBack' /\ Arrived'
<1>1. /\ upsets \in Nat /\ upsets' = upsets + 1 /\ regs' = ResetValue
      /\ UNCHANGED <<phase, transfer, stop_pending, no_ack, access_rdy, rx_rdy, wire>>
  BY GateDriverAssumption DEF ChipReset, cpu, peripheral, GateInductive, GateTypeOK
<1>2. Unsealed' /\ upsets' # 0
  BY <1>1, GateDriverAssumption DEF Unsealed
<1>3. BusAgrees'
  BY <1>1 DEF GateInductive, BusAgrees
<1>4. DataAgrees' /\ ReadBack' /\ Arrived'
  BY <1>2 DEF DataAgrees, ReadBack, Arrived
<1> QED
  BY <1>3, <1>4

LEMMA PowerLossInductive ==
  ASSUME GateInductive, PowerLoss PROVE BusAgrees' /\ DataAgrees' /\ ReadBack' /\ Arrived'
<1>1. /\ phase' = "off" /\ transfer' = 1 /\ wire' = "none"
      /\ stop_pending' = FALSE /\ no_ack' = FALSE /\ access_rdy' = FALSE /\ rx_rdy' = FALSE
  BY DEF PowerLoss
<1> QED
  BY <1>1 DEF BusAgrees, DataAgrees, ReadBack, Arrived, Waits

LEMMA GateInvariant == GateSpec => []GateInductive
<1>1. GateInit => BusAgrees /\ DataAgrees /\ ReadBack /\ Arrived
  BY DEF GateInit, BusAgrees, DataAgrees, ReadBack, Arrived, Waits
<1>2. GateInductive /\ [GateNext]_gateVars => BusAgrees' /\ DataAgrees' /\ ReadBack' /\ Arrived'
  <2>1. GateInductive /\ UNCHANGED gateVars
          => BusAgrees' /\ DataAgrees' /\ ReadBack' /\ Arrived'
    BY DEF gateVars, cpu, peripheral, chip, GateInductive, BusAgrees, DataAgrees, ReadBack,
           Arrived, Unsealed, Right
  <2> QED
    BY <2>1, InitI2cInductive, PollInductive, BeginTransferInductive, FinishWriteInductive,
       ReadInductive, CompareByteInductive, SendsWriteInductive, PeripheralInductive,
       ChipResetInductive, PowerLossInductive
    DEF GateNext, CpuStep, HardwareStep
<1>3. GateTypeOK /\ BusAgrees /\ DataAgrees /\ ReadBack /\ Arrived <=> GateInductive
  BY DEF GateInductive
<1> QED
  BY <1>1, <1>2, <1>3, GateTyped, PTL DEF GateSpec

\* The main loop runs with a sealed chip only if every register that protects
\* the switch has its configured value.
THEOREM SealedConfigured == GateSpec => []SealedMeansConfigured
<1>1. GateInductive => SealedMeansConfigured
  <2> SUFFICES ASSUME GateInductive, phase = "running", ~Unsealed,
                      NEW reg \in ProtectionRegisters
               PROVE  regs[reg] = Expected[reg]
    BY DEF SealedMeansConfigured, Unsealed
  <2>1. PICK n \in Writes + 1 .. Transfers : RegisterOf(n) = reg
    BY VerifyCovers
  <2>2. Right(n)
    BY <2>1 DEF GateInductive, ReadBack
  <2> QED
    BY <2>1, <2>2 DEF Right
<1> QED
  BY <1>1, GateInvariant, PTL

\* Boot goes past no write that has not arrived.
THEOREM WritesArrive == GateSpec => []PassedWritesArrived
<1>1. GateInductive => PassedWritesArrived
  <2> SUFFICES ASSUME GateInductive, upsets = 0, phase \in Waits \cup {"running"},
                      NEW n \in 1 .. Writes, n < transfer
               PROVE  regs[ApplyOrder[n]] = Expected[ApplyOrder[n]]
    BY DEF PassedWritesArrived
  <2>1. Right(n)
    BY DEF GateInductive, Arrived
  <2>2. RegisterOf(n) = ApplyOrder[n]
    BY Sizes DEF RegisterOf
  <2> QED
    BY <2>1, <2>2 DEF Right
<1> QED
  BY <1>1, GateInvariant, PTL
=============================================================================
