---------------------------- MODULE GateDriver ----------------------------
(***************************************************************************)
(* driver/gate_driver.c over driver/i2c_driver.c: at boot the gate         *)
(* driver's registers are written one after the other and read back, each  *)
(* by a transfer whose waits are bounded by a count of polls.  main stops  *)
(* for ever when anything fails.                                           *)
(*                                                                         *)
(* The I2C peripheral and the driver chip are external: between two polls  *)
(* the peripheral finishes a phase, sees a missing acknowledge or a lost   *)
(* arbitration, or does nothing; the chip, which has a supply of its own,  *)
(* may store a corrupted byte or be reset.                                 *)
(*                                                                         *)
(* Left out: the two addresses (the default configuration gives the chip   *)
(* the address it already has, so all transfers use the same one) and the  *)
(* argument checks, which that configuration passes.                       *)
(***************************************************************************)
EXTENDS Integers, Sequences

CONSTANTS
  TimeoutLoops,  \* SSCB_I2C_TIMEOUT_LOOPS
  ResetValue,    \* the chip's registers after its reset
  WrongBytes,    \* what a corrupted byte may become
  MaxUpsets,     \* bound on chip resets and corrupted bytes together
  MaxBoots       \* bound on boots

-----------------------------------------------------------------------------
(* The configuration.  Both fields of a TLTOC value are within their bits,  *)
(* so the shifts and the or are a sum.                                      *)

Tltoc1Value(plateau_v_x4, ramp_a_code) ==
  ((plateau_v_x4 - 17) * 4 + (ramp_a_code % 4)) % 256

Tltoc2Value(ramp_b_code, time_250ns_count) ==
  ((ramp_b_code % 8) * 32) + (time_250ns_count % 32)

\* sscb_gate_driver_expected_register for sscb_gate_driver_default_config
Expected ==
  [I2CADD   |-> 13, I2CGADD  |-> 14, I2CCFGOK |-> 1,
   UVTLVL   |-> 5,  D1LVL    |-> 31, D1FILT   |-> 16, DLEBT |-> 18,
   DRVFOFF  |-> 2,  DRVCFG   |-> 0,
   TLTOC1   |-> Tltoc1Value(36, 2),  TLTOC2 |-> Tltoc2Value(6, 6),
   CSSOFCFG |-> 9,  CLCFG    |-> 34, CFGOK  |-> 1]

Registers == DOMAIN Expected

\* The registers that protect the switch: all but those of the address.
ProtectionRegisters == Registers \ {"I2CADD", "I2CGADD", "I2CCFGOK"}

\* sscb_gate_driver_apply_config writes in this order,
ApplyOrder ==
  <<"I2CADD", "I2CGADD", "I2CCFGOK", "UVTLVL", "D1LVL", "D1FILT", "DLEBT",
    "DRVFOFF", "DRVCFG", "TLTOC1", "TLTOC2", "CSSOFCFG", "CLCFG", "CFGOK">>

\* Mutant of VerifyOrder: one register is forgotten.
VerifyOrderIncomplete ==
  <<"UVTLVL", "D1LVL", "D1FILT", "DLEBT", "DRVFOFF", "DRVCFG",
    "TLTOC1", "TLTOC2", "CSSOFCFG", "CFGOK">>

\* and sscb_gate_driver_verify_config reads in this one.
VerifyOrder ==
  <<"UVTLVL", "D1LVL", "D1FILT", "DLEBT", "DRVFOFF", "DRVCFG",
    "TLTOC1", "TLTOC2", "CSSOFCFG", "CLCFG", "CFGOK">>

Writes == Len(ApplyOrder)
Transfers == Writes + Len(VerifyOrder)
RegisterOf(n) == IF n <= Writes THEN ApplyOrder[n] ELSE VerifyOrder[n - Writes]

\* A reset takes CFGOK back.
ASSUME GateDriverAssumption ==
  /\ TimeoutLoops \in Nat \ {0} /\ MaxUpsets \in Nat /\ MaxBoots \in Nat
  /\ ResetValue \in [Registers -> 0 .. 255] /\ WrongBytes \subseteq 0 .. 255
  /\ ResetValue["CFGOK"] # Expected["CFGOK"]

VARIABLES
  phase,    \* wait the processor is in, or where boot ended
  transfer, \* number of the transfer, writes first
  guard,    \* polls left
  actual,   \* byte verify_config reads into
  busy, stop_pending, no_ack, access_rdy, rx_rdy, rx_data,  \* I2C registers
  wire,     \* what the peripheral is sending
  regs, pointer,  \* the chip: registers and the one selected for reading
  upsets, boots   \* chip resets and corrupted bytes; boots so far

cpu == <<phase, transfer, guard, actual>>
peripheral == <<busy, stop_pending, no_ack, access_rdy, rx_rdy, rx_data, wire>>
chip == <<regs, pointer, upsets>>
gateVars == <<cpu, peripheral, chip, boots>>

Waits == {"not_busy", "write_stop", "register", "byte", "read_stop"}
Phases == Waits \cup {"off", "halted", "running"}

GateInit ==
  /\ phase = "off" /\ transfer = 1 /\ guard = TimeoutLoops /\ actual = 0
  /\ busy = FALSE /\ stop_pending = FALSE /\ no_ack = FALSE
  /\ access_rdy = FALSE /\ rx_rdy = FALSE /\ rx_data = 0 /\ wire = "none"
  /\ regs = ResetValue /\ pointer = "I2CADD"
  /\ upsets = 0 /\ boots = 0

-----------------------------------------------------------------------------
(* The processor.                                                          *)

\* sscb_gate_driver_init; the bus may be found busy.
InitI2c ==
  /\ phase = "off" /\ boots < MaxBoots
  /\ phase' = "not_busy" /\ boots' = boots + 1
  /\ busy' \in BOOLEAN
  /\ UNCHANGED <<transfer, guard, actual, stop_pending, no_ack, access_rdy,
                 rx_rdy, rx_data, wire, chip>>

\* The condition of the loop the processor is in.
Waiting ==
  \/ phase = "not_busy" /\ busy
  \/ phase \in {"write_stop", "read_stop"} /\ stop_pending
  \/ phase = "register" /\ ~access_rdy
  \/ phase = "byte" /\ ~rx_rdy

\* Mutant of Poll: a loop that does not count.
PollForEver ==
  /\ Waiting /\ guard > 0
  /\ UNCHANGED gateVars

Poll ==
  /\ Waiting /\ guard > 0
  /\ guard' = guard - 1
  /\ UNCHANGED <<phase, transfer, actual, peripheral, chip, boots>>

\* The count is looked at last: the poll that takes it to zero fails the
\* transfer whatever it saw.
TimeOut ==
  /\ phase \in Waits /\ guard = 0
  /\ phase' = "halted"
  /\ UNCHANGED <<transfer, guard, actual, peripheral, chip, boots>>

\* The loop of this wait ends well.
Passes(wait) == phase = wait /\ ~Waiting /\ guard > 0

EnterWait(wait) == phase' = wait /\ guard' = TimeoutLoops

TransferDone ==
  IF transfer = Transfers
    THEN phase' = "running" /\ UNCHANGED <<transfer, guard>>
    ELSE EnterWait("not_busy") /\ transfer' = transfer + 1

BeginTransfer ==
  /\ Passes("not_busy")
  /\ busy' = TRUE
  /\ IF transfer <= Writes
       THEN EnterWait("write_stop") /\ wire' = "write" /\ stop_pending' = TRUE
       ELSE EnterWait("register") /\ wire' = "register" /\ UNCHANGED stop_pending
  /\ UNCHANGED <<transfer, actual, no_ack, access_rdy, rx_rdy, rx_data, chip, boots>>

\* Mutant of CheckI2cError: the status is not looked at.
CheckI2cErrorNever(ok) ==
  ok /\ UNCHANGED no_ack

\* check_i2c_error: on an error it sends a stop and boot fails.
CheckI2cError(ok) ==
  \/ ~no_ack /\ ok /\ UNCHANGED no_ack
  \/ /\ no_ack /\ no_ack' = FALSE
     /\ stop_pending' = TRUE /\ phase' = "halted"
     /\ UNCHANGED <<transfer, guard, wire, access_rdy>>

\* The end of sscb_i2c_write_reg8.
FinishWrite ==
  /\ Passes("write_stop")
  /\ CheckI2cError(TransferDone /\ UNCHANGED <<stop_pending, wire, access_rdy>>)
  /\ UNCHANGED <<actual, busy, rx_rdy, rx_data, chip, boots>>

\* sscb_i2c_read_reg8: the register is selected, the byte is asked for,
SelectRegister ==
  /\ Passes("register")
  /\ CheckI2cError(/\ EnterWait("byte") /\ wire' = "byte"
                   /\ stop_pending' = TRUE /\ access_rdy' = FALSE
                   /\ UNCHANGED transfer)
  /\ UNCHANGED <<actual, busy, rx_rdy, rx_data, chip, boots>>

\* taken,
TakeByte ==
  /\ Passes("byte")
  /\ actual' = rx_data /\ rx_rdy' = FALSE
  /\ EnterWait("read_stop")
  /\ UNCHANGED <<transfer, busy, stop_pending, no_ack, access_rdy, rx_data,
                 wire, chip, boots>>

\* and compared by sscb_gate_driver_verify_config when the stop is out.
CompareByte ==
  /\ Passes("read_stop")
  /\ IF actual = Expected[RegisterOf(transfer)]
       THEN TransferDone
       ELSE phase' = "halted" /\ UNCHANGED <<transfer, guard>>
  /\ UNCHANGED <<actual, peripheral, chip, boots>>

CpuStep ==
  \/ InitI2c \/ Poll \/ TimeOut \/ BeginTransfer \/ FinishWrite
  \/ SelectRegister \/ TakeByte \/ CompareByte

-----------------------------------------------------------------------------
(* The peripheral, the chip and the supplies.                              *)

\* The bus goes idle and no stop is left to send.
BusReleased == busy' = FALSE /\ stop_pending' = FALSE

SendsWrite ==
  /\ wire = "write" /\ wire' = "none"
  /\ LET reg == RegisterOf(transfer)
     IN  \/ regs' = [regs EXCEPT ![reg] = Expected[reg]] /\ UNCHANGED upsets
         \/ /\ upsets < MaxUpsets /\ upsets' = upsets + 1
            /\ \E b \in WrongBytes : regs' = [regs EXCEPT ![reg] = b]
  /\ BusReleased
  /\ UNCHANGED <<cpu, no_ack, access_rdy, rx_rdy, rx_data, pointer, boots>>

SendsRegister ==
  /\ wire = "register" /\ wire' = "none"
  /\ pointer' = RegisterOf(transfer) /\ access_rdy' = TRUE
  /\ UNCHANGED <<cpu, busy, stop_pending, no_ack, rx_rdy, rx_data, regs, upsets, boots>>

ReceivesByte ==
  /\ wire = "byte" /\ wire' = "stop"
  /\ rx_data' = regs[pointer] /\ rx_rdy' = TRUE
  /\ UNCHANGED <<cpu, busy, stop_pending, no_ack, access_rdy, chip, boots>>

SendsStop ==
  /\ wire = "stop" /\ wire' = "none"
  /\ BusReleased
  /\ UNCHANGED <<cpu, no_ack, access_rdy, rx_rdy, rx_data, chip, boots>>

\* No acknowledge, or the arbitration is lost.  A write has its stop queued;
\* whether REG_ACCESS_RDY comes without an acknowledge is left open.
NotAcknowledged ==
  /\ wire \in {"write", "register", "byte"} /\ wire' = "none"
  /\ no_ack' = TRUE
  /\ IF wire = "register"
       THEN access_rdy' \in BOOLEAN /\ UNCHANGED <<busy, stop_pending>>
       ELSE BusReleased /\ UNCHANGED access_rdy
  /\ UNCHANGED <<cpu, rx_rdy, rx_data, chip, boots>>

BusFrees ==
  /\ busy /\ phase = "not_busy"
  /\ busy' = FALSE
  /\ UNCHANGED <<cpu, stop_pending, no_ack, access_rdy, rx_rdy, rx_data, wire,
                 chip, boots>>

ChipReset ==
  /\ upsets < MaxUpsets /\ upsets' = upsets + 1
  /\ regs' = ResetValue /\ pointer' = "I2CADD"
  /\ UNCHANGED <<cpu, peripheral, boots>>

\* The processor's supply fails; the chip keeps its registers.
PowerLoss ==
  /\ phase # "off" /\ boots < MaxBoots
  /\ phase' = "off" /\ transfer' = 1 /\ guard' = TimeoutLoops /\ actual' = 0
  /\ busy' = FALSE /\ stop_pending' = FALSE /\ no_ack' = FALSE
  /\ access_rdy' = FALSE /\ rx_rdy' = FALSE /\ rx_data' = 0 /\ wire' = "none"
  /\ UNCHANGED <<chip, boots>>

HardwareStep ==
  \/ SendsWrite \/ SendsRegister \/ ReceivesByte \/ SendsStop
  \/ NotAcknowledged \/ BusFrees \/ ChipReset \/ PowerLoss

GateNext == CpuStep \/ HardwareStep
GateSpec == GateInit /\ [][GateNext]_gateVars

\* The processor runs on; nothing is assumed of the bus or of the chip.
FairGateSpec == GateSpec /\ WF_gateVars(CpuStep)

-----------------------------------------------------------------------------
\* The variables hold values of their types.
GateTypeOK ==
  /\ phase \in Phases
  /\ transfer \in 1 .. Transfers /\ guard \in 0 .. TimeoutLoops
  /\ busy \in BOOLEAN /\ stop_pending \in BOOLEAN /\ no_ack \in BOOLEAN
  /\ access_rdy \in BOOLEAN /\ rx_rdy \in BOOLEAN
  /\ actual \in 0 .. 255 /\ rx_data \in 0 .. 255
  /\ wire \in {"none", "write", "register", "byte", "stop"}
  /\ regs \in [Registers -> 0 .. 255] /\ pointer \in Registers
  /\ upsets \in 0 .. MaxUpsets /\ boots \in 0 .. MaxBoots

\* If the main loop runs and the chip's CFGOK is set, every register that
\* protects the switch has its configured value: no missed write, corrupted
\* byte or reset of the chip, at whatever point of the boot, gets through.
SealedMeansConfigured ==
  phase = "running" /\ regs["CFGOK"] = Expected["CFGOK"] =>
    \A reg \in ProtectionRegisters : regs[reg] = Expected[reg]

\* A write that was not acknowledged, lost its arbitration or is still on
\* the wire is never taken for done: as long as the chip is sound, every
\* register boot has gone past holds what was written, before any read-back.
PassedWritesArrived ==
  upsets = 0 /\ phase \in Waits \cup {"running"} =>
    \A n \in 1 .. Writes :
      n < transfer => regs[ApplyOrder[n]] = Expected[ApplyOrder[n]]

\* Boot always comes to an end, running or halted, however the bus hangs.
BootEnds == phase \in Waits ~> phase \in {"running", "halted", "off"}
=============================================================================
