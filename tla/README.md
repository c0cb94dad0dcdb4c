# A verification project for the solid-state circuit breaker controller

The repository holds the firmware of a DC solid-state circuit breaker (C for a
TMS320F280049C, bare metal) and the Windows host that configures it over
CAN (C#). This directory holds TLA+ modules that model the parts with state, the TLC
configurations that check them on small instances, and TLAPS proofs of the facts
that should hold for every instance.

`src/` paths below are relative to the repository's root. The documents quoted by
number are `src/智能固态断路器_详细需求说明.md` (the requirements).

## 1. The system

| Component | State | Operations | Hard behaviour |
|---|---|---|---|
| State machine `app/system.c` | `state`, `active_fault`, `status_word`, `recover_elapsed_ms`, three safety inputs | start, 1 ms tick, short trip, set inputs, manual reset | long sequences of calls; six functions change the status bits one by one |
| Protection `protection/protection.c` | I2t accumulator, overvoltage counter, RMS ring and sum | sample, tick | 32-bit saturation, incremental sum, integer square root |
| Parameters `common/parameters.c` | one block of integers | defaults, get, set, threshold to comparator code | ranges, rounding |
| Parameter store `storage/param_store.c` | two slots with sequence number and checksum, in RAM and in FRAM | load, save | power failure inside a save |
| Fault log `storage/fault_log.c` | ring of records in RAM, one image in FRAM | append, clear, two readers, load, save | wrap-around; power failure inside a save |
| Boot and main loop `app/firmware.c`, `main.c` | saved and reported totals, period counters | `sscb_firmware_init`, `sscb_firmware_run_once` | hardware and host act between any two calls |
| CAN protocol `protocol/*.c` | none of its own | dispatch of parameter, time and control frames | effects on all of the above |
| CAN driver `driver/can_driver.c` | three one-frame receive mailboxes, one transmit mailbox | poll, send | overwritten frames |
| Comparator and ePWM `driver/cmpss_driver.c`, `epwm_driver.c` | reference code, software force, one-shot trip latch | set code, force on/off | trips without the software |
| Driver status, self-test | pin readings | read, run | |
| Time base `common/timebase.c` | millisecond counter, last synchronisation | tick, sync, absolute time | wrap-around |
| FRAM, SPI `storage/fram.c`, `driver/spi_driver.c` | the cells | byte-serial write | a write can stop anywhere |
| Host CAN bus `host/SscbHost.Core/Can/ZlgCanBus.cs` | device, `_isOpen`, `_receiveCts`, `_options`, receive task | OpenAsync, CloseAsync, ReceiveLoop | UI thread, thread pool, awaits and the end of the form interleave; a receive task may throw |
| Gate driver `driver/gate_driver.c` over `driver/i2c_driver.c` | the chip's registers, the I2C peripheral's status | apply and verify the configuration at boot | time-outs, missing acknowledges, resets of a chip with its own supply |
| ADC `driver/adc_driver.c` | none | counts to measurements | widths, truncation |
| Host protocol and forms `SscbProtocol.cs`, `MainForm.cs` | parameter rows, fault list, selected node, a running "read all" | read, write, edit, select node, show a response; log, time and control buttons | requests, responses and edits in flight together; numbers that mean something else in the firmware |
| Board support, CRC-16, report generator, tests | | | not modelled, section 8 |

How they interact: `main` calls `sscb_firmware_init` and then `run_once` for ever.
`run_once` reads the driver pins into the state machine, ticks it, reports a trip to it,
drives the gate from its state, sends frames, reports the newest fault record, handles
at most one request from the mailboxes and saves the log if it changed. The state
machine owns the protection block, the parameters and the log; a request may reset the
machine, clear the log, or change a parameter, and the last two wait for a FRAM write.
The hardware (mailboxes, bus, comparator, power supply) acts at any time. The host's CAN
bus class is driven by the form's buttons, by the closing of the form and by a receive
task; the form sends requests and shows, in its own thread, whatever comes back.

What makes each part correct:

* state machine: the status word tells the state and its cause (but NORMAL may stay
  beside LOCKOUT, section 7); LOCKOUT ends only by an accepted reset; the output is
  energised only from READY or by a recovery attempt with good inputs; whatever switches
  the output off is the newest log record;
* parameter store: after one completed save there is a valid slot at every instant; a
  boot never goes back by more than one save and never mixes two;
* fault log: the ring is the history of the last CAPACITY records, read alike by both
  readers; the FRAM equals it at the start of every loop;
* main loop: the gate follows the machine, a lockout keeps the output off until the
  next boot, records and parameters reach the FRAM, the comparator stands for the
  threshold in use;
* protection numerics: the sum never drifts from the window, the root is exact;
* time base: an exact absolute time for one counter period after a synchronisation;
* reporting: every new record is reported once, as news and with its own time, or the
  loss has one of two named causes; a log read never goes back in time;
* gate driver: boot ends, and a node that runs has a configured chip;
* host parameter table: once everything has arrived, a row marked OK shows what the node
  has;
* host bus: the device is open whenever it is used, one receive loop, closings
  end, and the device stays open behind one only for a known reason.

## 2. Modules

| Module | Models | Correspondence |
|---|---|---|
| `SscbTypes` | enumerations and word sizes | states, faults, status bits by name; `U16`, `U32` are the number of values of the C types |
| `Parameters` | `parameters.c` | a block is a function from identifier to value; `ParamsSet`, `DacCode`; `SourceRange` and `SourceDefaults` are the source's tables |
| `Protection` | `protection.c`, tick part | `I2tNext`, `OverVoltageNext`, `TickFault` |
| `FaultLog` | `fault_log.c`, RAM part | log record, `LogAppend`, `LogLatest`, `LogChronological` |
| `System` | `system.c` | variables are the fields of `sscb_system_t`; one action per function, one disjunct of `Tick` per branch |
| `FaultHistory` | abstract specification of the log | a sequence of which the oldest record is forgotten, and a total |
| `FaultLogRing` | the ring alone, refining `FaultHistory` | |
| `ParamStore` | `param_store.c` over `fram.c` | a FRAM write is ten steps, one per field of each slot, the block in two |
| `ParamPersistence` | boot, writes and power failures around `ParamStore` | `committed`, `previous`, `pending` are history |
| `FaultLogStore` | the log's FRAM image | a write is two steps; an image written in part is invalid |
| `Firmware` | `firmware.c`, `main.c`, mailboxes, comparator, power | composes `System`, `ParamStore`, `FaultLogStore`; `pc` is the next call of `init` or `run_once` |
| `RmsWindow` | RMS window and `isqrt` | the two loops of `isqrt_u64` are recursive functions over a record of its locals |
| `AdcDriver` | integer conversions of `adc_driver.c` | operators with C's widths and its truncating division |
| `CurrentPath` | the head of `run_once`: converter, window, RMS | composes `AdcDriver` and `RmsWindow`; the observer keeps the true currents |
| `Timebase` | `timebase.c` | the observer keeps the true time |
| `FaultReporting` | log, time base, reports, log and time requests, transmit mailbox, the host's fault list | composes `FaultLogRing` and `Timebase`; `stage` is the next call of `run_once`; each record carries a serial number only the observer sees |
| `GateDriver` | `gate_driver.c` over `i2c_driver.c` | `phase` is the wait the processor is in, `transfer` the number of the register access, `guard` the polls left; the peripheral, the bus and the chip are actions of their own |
| `HostSession` | parameter rows of `MainForm.cs`, parameter requests in the firmware, both mailboxes, the save | `ui` is the queue of the UI thread, `sweep` what "read all" has yet to ask; `stored` and `previous` are the two blocks a boot after an interrupted save may load |
| `HostCanBus` | `ZlgCanBus.cs`, the connect and disconnect buttons and the closing of the form | `task` and `closing` are the places in ReceiveLoop and CloseAsync reached, `TaskFaults` the ways a task can throw; `form` is how far the form's end came |
| `MC*` | instances for TLC | |
| `SystemProofs` | proofs about `Parameters`, `Protection` and `System` | |
| `ParamStoreProofs` | lemmas about the two slots, used by the next and by `FirmwareProofs` | |
| `ParamPersistenceProofs`, `FaultReportingProofs`, `GateDriverProofs`, `FirmwareProofs` | proofs about the module named; `FaultReportingProofs` has those of `FaultLogRing` and `Timebase` as well | |
| `HostProofs` | proofs about `HostCanBus` and `HostSession` | |
| `CurrentPathProofs` | proofs about `RmsWindow` and `CurrentPath` | |

`Firmware` composes `System` by extending it: `RunTick` is `TickSomething` and
`CheckTrip` is `OnShortTrip`, in the order of `run_once`, so that every action
of `Firmware` on the machine is one of `System`'s actions. `FaultReporting` and
`HostSession` are two further cuts through the same loop: the first leaves out what
makes a fault happen and keeps its way to the host, the second leaves out everything
but parameters. Each names what of the loop it leaves out in its header.

Definitions commented "Mutant of X" are what X would be after a plausible slip. No
specification uses them; each names a change the property beside it must detect.

## 3. Runs

| Run | Question | States | Time |
|---|---|---|---|
| `system` | any order of the functions, any inputs: status, lockout, energising, recording, saturation | 235 296 | 40 s |
| `param_persistence` | saves and boots with power failures between any two fields | 4 245 | 2 s |
| `fault_reporting` | from a trip to a row of the host's fault list | 1 480 485 | 50 s |
| `firmware_loop` | trips, faulty pins, resets, clears and parameter writes against gate, log, FRAM and comparator; a power failure at any instant; a driver that refuses at boot | 562 174 | 90 s |
| `firmware_liveness` | overloads: recovery attempts and log saves happen under any request traffic, and the gate follows | 109 337 | 80 s |
| `current_path` | converter, sum, root, and the error between them | 32 653 | 8 s |
| `gate_driver` | configuration over I2C with everything that can fail | 526 548 | 35 s |
| `host_session` | the host's parameter table against the node | 1 156 062 | 95 s |
| `host_can_bus` | openings, closings and receive tasks in any interleaving | 1 952 | 2 s |
| `overload_for_ever` | violated: see section 7 | | |
| `log_torn` | violated: see section 7 | | |
| `write_refused` | violated: see section 7 | | |

What the passing runs show, beyond the table:

* `system` calls the functions in any order, which includes every order of the main
  loop: its results carry over to `Firmware`. `LockoutNeedsReset`,
  `EnergiseOnlyWhenSafe` and `TripsAreRecorded` are action properties.
  `StatusTellsState` ties every bit of the word to the state and to the bits beside it. Its
  one exception is named: NORMAL is cleared by an overload and an overvoltage only, so
  the lockout after a short or a failed self-test shows NORMAL beside LOCKOUT.
* `param_persistence`: `SurvivorExists` says the defaults never come back, whenever the
  power fails. `AtMostOneSaveBack` is exact: a rollback by one save does happen. The
  save writes magic, sequence, checksum and block in that order, and the sequence
  number is not under the checksum, so a power failure after the number passes the old
  block off as the newest. `IdleMeansDurable` needs the comparison of the numbers in
  `LoadedBlock` to be the right way round.
* `fault_reporting`: a clear of the log starts `total_count` again and leaves the count
  of what was reported, so a report can be lost; `MissesOnlyAfterClear` bounds the
  loss at one loop for each clear, and `ReportsAreNews` says that the opposite, an old
  record reported again, never happens. `HostLearnsNewest` then names the only two
  ways a record can stay unknown to a host whose bus keeps up: missed after a clear,
  or replaced in the one mailbox. `ListedTimeExact` follows a time from the host's
  clock through a synchronisation, the wrapping counter, the record and four bytes of
  a frame back to the host. `ReadsGoForward`: a host that reads with rising indices
  while records shift the ring may skip records, and never sees an older one after a
  newer. `KeepsHistory` is the refinement of `FaultHistory`, checked here through the
  composition.
* `current_path`: the unamplified current fits sixteen bits only below 3276.8 A, 2440
  of the 4095 counts; `ChannelsExact` says that all three channels are exact up to
  there and that it is negative beyond. `RmsTracksCurrent` bounds the error of the whole
  path to the integrator: never above the true RMS, below it by less than 2 A.
* `gate_driver`: `SealedMeansConfigured` covers a chip that is reset at any point of
  the boot and bytes corrupted on the way. It does not say that the chip stays
  configured: nothing looks at it after boot, and the property's premise (CFGOK is
  set) is what a later reset takes away. `PassedWritesArrived` is about the writes
  alone, before any read-back: no time-out or missing acknowledge is taken for success.
* `host_session`: `RowsSettle` is the promise of the table's OK. It holds for all
  mixtures of reads, writes, "read all" and edits, and its exceptions are the losses
  the code has: a response replaced in the mailbox, one shown after another node was
  selected, a power failure between an acknowledgement and the end of its save, and
  the row that is NODE_ID in the firmware. `RenamedNodeIsDeaf` and `StoredNodeIsFilter`
  show what that row does: the host calls it ShortThreshold, a write to it makes the
  node take no further parameter request whatever node number is selected (its receive
  filters keep the old number), and since `handle_can_request` skips the save, a power
  cycle gives the node back.
* `firmware_loop`: `OutputOnlyEnergised` excuses the calls between the decision and the
  gate, where the code itself is late by a few instructions. `LockedStaysOff` also shows
  a consequence of the code: after an accepted reset the machine is READY and nothing in
  `run_once` starts it, so the output stays off until a power cycle. `LogDurable` and
  `ParamsDurable` compare whole images with the RAM at the start of each loop. The first
  would fail if a wrap-around or a clear made two different logs have equal totals when
  they are compared. The second excludes a changed NODE_ID: `handle_can_request` decides
  on the save with the identifier the request has just changed (`firmware.c:50`), so
  that write alone is not stored. `ComparatorFollowsThreshold` is stated over the
  comparator and the parameters and not by the conversion function. Here the machine is
  tripped by shorts, overvoltages, pins and the self-test; overloads, with their
  recovery attempts, are in `firmware_liveness`, which checks `OutputOnlyEnergised` once
  more, and attempts that meet bad inputs in `system`.
* `firmware_liveness` has hosts send time, log, clear and unknown frames at any time:
  neither traffic nor a clear that resets the total may make the firmware miss a save
  or a recovery attempt. Parameter requests are in `firmware_loop`.
* `host_can_bus`: `OnlyFaultedLeak` names the ways a device stays open after a closing.
  Its task had thrown, so that `CloseAsync` rethrew at its await (`ZlgCanBus.cs:85`)
  before `VCI_CloseDevice` (`:94`): the task found the cancellation source already gone
  (`:51`), or the DLL reported an error as a count (`:139-146`), or a frame came when the
  form was already disposed, on which its handler's `BeginInvoke` throws
  (`MainForm.cs:287`). A task that throws on a count while the connection is open
  leaves a connection that receives nothing, and the disconnect that follows throws. A
  device left open makes each later OpenAsync fail; the run allows deadlock for that
  reason. Once the process has ended the handle is the operating system's matter.

### Bounds

* `U32 = 25`, `U16 = 4`: the word sizes are scaled so that the integrator
  saturates and the delay counters reach their limit within a few ticks. An RMS of 5
  over an Ir of 2 adds 21 to the integrator: one tick trips, two would overflow.
* `CAPACITY` is 1 in `System` and `Firmware` and 2 in `fault_reporting`, `TotalMod` 2 or
  3: the ring is empty, partly full, full and wrapped, and the total wraps. The proofs
  cover every capacity and every `TotalMod` above two: a loop has at most two trips,
  and with a total of two values two of them would look like none.
* `MaxFaults = 3`, `MaxClears = 1` in `fault_reporting`: three records fill and wrap the
  ring of two, or one before the clear and two after it bring the total back to what
  was reported and past it. `Word = 3`, `Second = 2`, `Horizon = 3`: the counter wraps
  and a time needs more than the word of the frame. The proofs need none of these.
* `MaxSequence` stops parameter writes at that sequence number: 6 in
  `param_persistence` (each slot written three times, with failures between) and 2 in
  `firmware_loop` (the boot's save and one write; a further write meets the same
  comparison with the slots exchanged, which `param_persistence` has).
* `MaxPowerLoss = 1` in `firmware_loop`: the state after the boot that follows is
  again one the first boot could have started from; repeated failures are in
  `param_persistence`, which does not bound them.
* Two thresholds (533 A and 1000 A at 3 V) in `firmware_loop`: 533 A is where
  truncating instead of rounding would show. The proofs cover all values.
* `Window = 4` with samples of both signs and a long enough history to overwrite every
  place twice; the gains are the source's, the counts include both sides of each
  boundary (2439 and 2440 for the overflow). The offset is -2.5 A, so that the
  division truncates towards zero from both sides.
* `TimeoutLoops = 2` for 50 000 in `gate_driver`: a wait passes at once, at its last
  poll, or not at all. `MaxUpsets = 2`, `MaxBoots = 2`: a reset or corruption in each of
  two boots, the second of which finds the chip as the first left it. All fourteen
  registers have the source's values.
* `host_session` has the two rows that matter (NODE_ID and the short threshold under
  the names of the host), three requests, one power failure; three are enough for a
  response on its way, a request in the mailbox and a third that replaces it. The word
  is scaled to 1000, with 5000 a value beyond it.
* `Sessions`: four connects, enough for a stale task, a closing in progress and a
  later session to be there together.

`CHECK_DEADLOCK FALSE` is in `FirmwareLoop.cfg` and `MCGateDriver.cfg` (`main` ends in
an empty loop when a driver refuses) and in `HostCanBus.cfg` (all sessions used, the
device left open, or the process ended).

### Fairness

* `FairFirmwareSpec` has weak fairness of `FirmwareStep` only: the processor executes
  the next instruction. Nothing is assumed of hosts, the bus or the comparator.
* `FairGateSpec` has weak fairness of `CpuStep` alone: the processor polls on. The bus
  may hang for ever; `BootEnds` holds all the same, because every wait counts.
* `FairBusSpec` has weak fairness of each task's and each closing's steps: the thread
  pool runs queued work and continuations, and `VCI_Receive` returns after
  `ReceiveWaitMs` (50 ms). Nothing makes a user press a
  button or close the form. The end of the process ends its tasks too: after it no step is
  assumed, and `ClosingEnds` excuses it.

## 4. What is abstracted

* Numbers are scaled, identifiers are names. The bytes of frames and images are left
  out; a checksum is the value it covers (no collisions).
* A FRAM write is byte-serial and ascending. `ParamStore` tells the fields apart, and
  a block written in part; the bytes within the sequence number and the checksum are
  not told apart: as the module's comment explains, a half-written one behaves as
  before its first byte. In `FaultLogStore` the checksum precedes the data it covers,
  so everything between the first changed byte and the last is one invalid image.
* The save in `HostSession` is one step, or the four outcomes of an interrupted one that
  `ParamPersistence` shows field by field: nothing changed, the older block comes back as
  the newest, the older block is lost, or the save is complete.
* Time is counted in loops. `main` calls `run_once` without waiting for anything, so
  every counter the code names after milliseconds counts loops there and here; that
  a loop takes a millisecond is an assumption of the code, and `Timebase` makes it
  when it says that the true time and `local_ms` advance together.
* The parameter mailbox is left out of `FaultReporting` (its responses are other
  frames in the mailbox), and all but parameter requests of `HostSession`.
* A frame reaches a receive mailbox at once: a host's later frame of the same
  kind replaces an earlier one there, as a late arrival would.
* `time_ms` is only a time stamp and is left out of `System` and `Firmware`.
* The period counters of the frames are a free choice in every loop, a superset of
  what they allow.
* Null-pointer checks: the callers pass addresses of statics.

## 5. Proofs

Every safety property and every action property of the passing runs is proved, for
every value of the constants that the named assumptions allow. The assumptions are
on the build's constants: `ParamRangeAssumption`, `ParamDefaultsAssumption` (defaults
within the ranges), `ProtectionRangeAssumption` (a cooling factor of at most one, delays a
16-bit counter can reach, as the source's ranges have), word sizes and capacities above
zero, `BlockAssumption` (the default block is a block, `NoBlock` is not),
`GainsAssumption` (the gains no host can write are the source's), `TopBitAssumption` (the
root starts at a power of four above a quarter of any mean), and types for the inputs.
The bounds that exist for TLC only (`Horizon`, `MaxFaults`, `MaxBoots`, the sessions, ...)
are constants the proofs leave arbitrary.

* `SystemProofs`, the parameters. `WritesKeepRanges`: a write, whatever it asks, leaves the
  block in its ranges. `DefaultsInRange`: the source's defaults satisfy the assumption
  the other proofs make. `CodeNeverCapped` and `ThresholdRounded`: with the source's
  own ranges the comparator's code is below its clamp and within half a step of the
  threshold, for all 1501 thresholds and 501 references, by one fact about division.
* `SystemProofs`, the machine. `SystemTypeCorrect` proves `SystemTypeOK` inductive, action
  by action; lemmas bound `I2tNext`, `OverVoltageNext` and `LogAppend`. `StatusCorrect`
  adds `StatusTellsState`, which is inductive together with the types, with its exception
  for NORMAL in a lockout. The action
  properties `LockoutLatched`, `EnergisedSafely` and `TripsRecorded` follow, the last
  one from the lemma that the record just appended is the one `LogLatest` finds, for
  every index and capacity. `ThresholdExact` is the other side of a hazard: with the
  source's ranges and words the threshold's product does not wrap up to Ir = 239 A.
  `CoolingNeverTrips` holds for every threshold, wrapped or not.
* `ParamPersistenceProofs`. `SurvivorExists` is not inductive: it says nothing of the
  RAM copy a transfer is written from, nor of how far it came. `PersistenceInv` names the
  slot a transfer rewrites: the other slot is the same in RAM and FRAM and valid once
  a save was completed, the rewritten slot's fields below the cursor have arrived, the
  RAM copy loads the live block, and a slot that ever got a checksum has a number above
  zero, so that a blank slot is the one written first. It is proved inductive
  (`PersistenceInvariant`), with the transfer split by field and by slot; `SaveSurvives`,
  `IdleStoreDurable` and `PersistenceTyped` are its conjuncts. `OneSaveBack` relates two
  boots and needs `RecentInv` beside it: two valid slots differ in their numbers
  (`Distinct`), what the valid slots hold is the committed block and its neighbour in
  the history (`Recent`), and the slot being replaced gets the highest number while
  the other holds the committed block (`Replacing`), so that whatever a torn transfer
  has left, both candidates are recent.
* `FaultReportingProofs`. For the ring, `RingTyped`, then the index arithmetic modulo the
  capacity, from which `ReadersConsistent` follows, and the refinement
  `RingKeepsHistory`: the initial state maps to the empty history and each append and
  clear to the history's. For the time base, `OneWrap` is inductive: the counter and its
  value at the last synchronisation are the elapsed time apart, but for one wrap of
  the one or of the subtraction; `TimesExact` follows. The composition implements ring
  and time base (`ReportingImplementsRing`, `ReportingImplementsTimebase`). For the
  reports, `MissesOnlyAfterClear` is not inductive: `Unreported` adds how far the total
  can be ahead of the reported one at each call of the loop while no miss is excused
  (one or two: the tick and a trip), `Newest` that the ring's newest record is the one
  of this loop, and `Learns` where the newest serial is: with the host, in the mailbox,
  still to be reported, or excused. `MissesBounded`, `NewestLearnt`, `RowsTimed`,
  `ReportsOnlyNews` and `ReadsForward` follow, all under `TotalMod > 2` (2^32 in the
  source). The last needs that the serials in the ring rise in chronological order
  (`InOrder`) and that the record at the answer's index is no older than the answer
  (`AnswerKept`); the lemmas on `RingOf` say what an append does to that order.
* `FirmwareProofs`. `FirmwareTyped` reuses the lemmas of the components. `OutputAgrees` adds
  to the two properties of the output that a lockout leads to READY at most and
  that boot keeps the output off; `DacAgrees` ties the comparator to the parameters at
  every call of the loop (`ComparatorFollows` then needs the source's ranges, by
  `ThresholdRounded`); `LogAgrees` counts the records since the last save, at most two,
  so that equal totals mean equal logs (`LogIsDurable`, under `TotalMod > 2`);
  `ParamsAgree` says what a transfer in progress has left in the FRAM at each call, with
  the lemmas of `ParamStoreProofs` (`ParamsAreDurable`). The last section takes System's
  promises into the loop: `MachineSteps` finds the four calls that move the machine, and
  for each the step lemma of `SystemProofs` applies. What the composition adds is a
  failed self-test and the power supply, which `LoopKeepsLockout`, `LoopEnergises` and
  `LoopRecordsTrips` name; `StatusAlwaysTells` adds no exception
  to that of `StatusTellsState`.
* `GateDriverProofs`, for any time-out, reset state and set of corrupted bytes. `BusAgrees`
  says what each wait can find on the bus, `DataAgrees` what it knows of the chip,
  `ReadBack` and `Arrived` what holds of the registers already passed. The first two are
  needed because a chip reset between two waits must make the old knowledge void rather
  than false: everything is "or the chip is not sealed", and nothing seals it again in
  that boot.
* `HostProofs`, the bus, for any set of sessions. The inductive fact behind all four
  theorems is `OneHolder`: of all sessions ever opened at most one has a task and has not
  given the device back; the fields, the places of task and closing and the copied
  tokens are tied to it. `FormAgrees` ties a task that found no form to a form that has
  gone, for `OnlyFaultedLeak` (`LeakExplained`).
* `HostProofs`, the session, for any number of requests and power failures. `NodeKept`
  (requests past the filter name the filter's node, and no other is saved) gives
  `StoredNodeKept` and, with the types (`SessionTyped`), `RenamedNodeDeaf`.
  `TableSettles` needs `TableTells`: the last response under way for a row, in the
  mailbox or else in the queue of the form, or else the row itself, tells what the node
  holds; it rests on `RowsHaveParams`, that no two rows of the host are the same
  parameter in the firmware's numbering. `SessionFramesAssumption` says that the value
  for an empty mailbox is no frame.
* `CurrentPathProofs`, for every window, every set of samples and every starting power
  of four. Induction over data is done by least counterexample: a set of naturals or of
  finite sets that is not empty has a least element in the library's well-founded
  orderings, and the step below it contradicts. From it come the existence of the sum
  over a finite set and its rules (one term changed, one left out, termwise comparison),
  and the existence and unfolding of the two recursive loops. `SumIsExact` then needs
  `WindowShape` (count, index and the zeros not yet overwritten). `IsqrtIsRoot` needs
  the loop invariant of the bit-by-bit root, with `res` a multiple of the bit tried: the
  operand left is the operand less the square of the root so far. `RmsIsExact` follows,
  and `RmsIsClose` adds the truncations: a bound on one true current in terms of its
  whole amperes and the RMS value (`TenthsBound`), linear in both squares, sums to the
  bound on the mean without a square root. `ReadingsExact` is arithmetic on C's
  truncating division.

Only model-checked: liveness (`OverloadRetries`, `RecordsReachFram`, `BootEnds`,
`ClosingEnds`), which the proof system cannot express under fairness. The type
invariants `PersistenceTypeOK`, `RingTypeOK`, `GateTypeOK` and `BusTypeOK` are proved and in
no run, as are the three action properties at the end of `FirmwareProofs`.

## 6. Hazards

The list is in `PROJECT.json`, each at its line with the properties that cover it,
or the reason none does.

## 7. Where code and documents differ

Three differences have a run that shows them:

* `overload_for_ever`: RECOVER_TRY succeeds whenever the inputs are good and the
  integrator keeps its value while the output is off, so a lasting overload is retried
  for ever (`system.c:126`). The requirements ask for a lockout after one failed
  recovery.
* `log_torn`: the log has one FRAM image, rewritten in place; a power failure inside
  the write loses all records (`fault_log.c:122`). The requirements ask for the last 50
  records to be readable after a power failure.
* `write_refused`: `handle_can_request` sends no response when a request is refused
  (`firmware.c:48`). Requirement 8.4 asks for feedback on illegal parameters and failed
  writes, and `MainForm.cs:318` is prepared to show it. `RefusalsAnswered` asks that the
  step which refuses a write puts the answer into the mailbox.

Others were met while modelling; the modules follow the code, and where a property
of a passing run shows the difference it is named.

* Clearing the log resets `total_count` and leaves the count of what was reported, so the
  fault that brings the total back to the old value is taken for reported
  (`firmware.c:54-57`, `:78`). Requirement 6.5.4 asks for a report of every fault;
  `MissesOnlyAfterClear` says how many can be lost.
* A report in the transmit mailbox can be replaced by a later frame
  (`can_driver.c:58`; `HostLearnsNewest` excuses it).
* A write of NODE_ID is acknowledged and not stored (`firmware.c:50`;
  `StoredNodeIsFilter`), and until the next power cycle the node takes no parameter
  request (`RenamedNodeIsDeaf`).
* The host numbers parameters and states differently from the firmware
  (`SscbConstants.cs:13-46`, `parameters.h:7-25`, `sscb_types.h:26-37`).
* The status word shows NORMAL beside LOCKOUT after a short or a failed self-test, until
  the reset: neither `system.c:79` nor `firmware.c:140` clears it, and the host shows
  both bits (`MainForm.cs:114`, `:329`). `StatusTellsState` names this exception.
* `CloseAsync` rethrows what the receive task threw before it closes the device
  (`ZlgCanBus.cs:85`, `:94`; `OnlyFaultedLeak`); the host then cannot connect again. An
  error returned by `VCI_Receive` is taken for a count (`:139-146`).
* The command SoftwareReset of the host is acknowledged and does nothing
  (`protocol_service.c:47`).
* The overload threshold, a 32-bit product, wraps at the upper ends of Ir and Tr, which
  the ranges allow (`protection.c:91`); it is exact for Ir up to 239 A.
* The unamplified current wraps in its 16-bit field above 3276.7 A (`adc_driver.c:107`;
  `ChannelsExact`).
* A power cycle releases a lockout (`main.c:12`). The trip latch is never read
  (`epwm_driver.c:54`). A short locks out at once, where 6.3.6 asks for one recovery
  (`system.c:78`). After an overvoltage FAULT_ACTIVE is left by a short only
  (`system.c:114`).
* The absolute time falls back after 2^32 ms without a synchronisation (`timebase.c:36`)
  and is cut to 32 bits in the fault frame (`firmware.c:84`; `ListedTimeExact`).
* An interrupted save can make a boot load the block before the last completed save
  (`param_store.c:95`; `AtMostOneSaveBack`).
* Nothing paces the main loop (`main.c:16`), which every "1 ms" counter counts.

## 8. Not modelled

* The temperature in `adc_driver.c`: a logarithm in floating point, out of TLC's reach; the
  state machine takes any temperature as an input. The converter's flags are read by
  no code. Gains other than the source's are excluded by `GainsAssumption`:
  no code writes them.
* The simulated registers of `i2c_driver.c` and `can_driver.c` in builds for the host's
  tests.
* The argument checks of `sscb_gate_driver_apply_config`: the one configuration used passes.
* Board support: register writes without state. CRC-16: used by tests only.
* FRAM and SPI: the order of a write is modelled; timing is not, and
  `sscb_spi_transfer` has no error path for the arguments used. Nor is the layout of a
  byte: on this processor a char has sixteen bits, so `uint8_t` and `sizeof` mean
  something else than on the test host, and what `spi_driver.c:31` puts on the wire for
  one element of a buffer depends on it. The models take each field to be written and
  read back as it was.
* Host: the labels that show the latest measurement, state and status, which nothing
  reads back; sending and frame conversion, which keep no state. The vendor's DLL is
  external: it opens a closed device, refuses an open one, and may report an error as a
  count.
* Report generator and tests.

## 9. Plan

Done: the core (`System`), the stores, the main loop, the numeric parts from the
converter on, reporting and the host's fault list, the host's parameter table, the
gate driver, the host bus; the proofs of section 5, which now cover every safety and
action property of the runs. What is left, in this order:

1. A refinement of the one boot step of `Firmware` (`InitDrivers` passes or halts) by
   `GateDriver`, through an abstract boot both share.
2. `HostSession` and `FaultReporting` as two cuts through the same loop: that each step
   of `Firmware` on the parameters is a step of the node part of `HostSession`, so that
   the host's view is proved over the whole loop and not over a part of it.
