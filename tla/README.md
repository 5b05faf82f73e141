# Verification of robotFirmware

TLA+ models, TLC runs and TLAPS proofs for the firmware of a two-wheeled
balancing robot (STM32H7, bare metal). The models are translated from the C and
C++ sources under `src/app`; `PROJECT.json` maps every definition to the lines
it stands for, lists the runs, the mutants, the findings and the hazards.

Contents: 1 the system, 2 components and what makes them correct, 3 modules,
4 runs and bounds, 5 fairness, 6 proofs, 7 what the checks found,
8 abstractions and what is not modelled, 9 plan.

## 1 The system

One thread and interrupts, no RTOS. `app_main` (`app_main.c:46`) is a
super-loop of four pieces, each of which runs to completion:

1. the **control tick** (`motion_control_tick`), when TIM2 has released one:
   samples, estimator, motion modes, controller, wheel torques, hips, log record;
2. the **link poll** (`app_link_poll`): decodes frames of the operator and runs
   their handlers (`app_cmd.c`, `app_rpc.c`, `app_motor.c`, `app_arm.c`);
3. the polls of the motor link and of the IMU scheduler;
4. the **idle tick** (`app_idle_tick`), only if 1216 us are left of the period:
   watchdog, manual motor output, telemetry, link timeout, pending reboot.

Interrupts write what the thread reads: TIM2 (`control_timer.c`), IMU data-ready
lines and SPI/DMA completion (`imu_*.c`, `spi_bus.c`, which start the next
transfer themselves), CAN receive and bus-off (the motor backend and
`hip_control.c`), USB and UART bytes. A watchdog reset restarts the firmware
while the motor drives keep what they were told last.

How the parts interact:

| From | To | By |
|---|---|---|
| operator frames | modes, manual mode, reboot, parameters | calls in the link poll |
| motion modes | motor link | disable when leaving BALANCING, torques each tick |
| `app_arm.c`, `app_motor.c` | motor link, modes, output switch | enable/disable, mode and output writes |
| bus-off interrupt | motor link, hips | clears their enable flags at any moment |
| CAN receive interrupt | hips, wheel telemetry | stamps, validity, fault bits |
| data-ready interrupt | IMU scheduler, motion modes | pending mask, `last_irq_ms` |
| SPI interrupt | IMU scheduler | ends a transfer, chooses and starts the next one |
| TIM2 | super-loop | `pending`, the deadline of the idle budget |
| idle tick | modes, watchdog | link timeout disarms |
| parameter store | flash | saves block the loop; a reset may cut them short |

What is hard here, and a test does not reach: CAN frames refused half-way
through an operation; the bus-off interrupt between two frames; modes that
several handlers change and a power switch with two users; time stamps taken by
interrupts and compared with a `now_ms` that is older; an interrupt and the
thread both running the IMU scheduler; read-modify-write of shared flags; the
schedule itself when the idle tick overruns; resets in the middle of a flash
write. `PROJECT.json` "hazards" has each at its line.

## 2 Components

| Component | State | Operations | Correct means | Modelled by |
|---|---|---|---|---|
| Wheel motor link (CAN) | init, enable, bus-off flags, last torque sent | enable, disable, mode, torque, bus-off | belief agrees with the drives; no torque suppressed or misdirected | MotorLink, MotorLinkIsr, MotorLinkSpec |
| Modes, arming, manual mode, commands | mode, output switch, manual mode and torques, stamps | arm, disarm, teleop, RPC motor methods, control tick, link timeout | one owner of the wheels; torque needs authority; silent link, lost sensors and lost bus end balancing | RobotSafety |
| Super-loop, control timer, watchdog | pending, period, deadline | release, tick, poll, idle, rate change | ticks start in time, link loss noticed, watchdog fed | SuperLoop |
| IMU scheduler, SPI bus | pending mask, active sensor, bus owner, DMA | request, run, done, timeout, abort | one transfer, watched, no sensor starves, hung transfers end | ImuSched |
| Hip drives | target, fault bits, per-hip stamps | tick, CAN receive, bus-off | commanded only while balancing, on fresh data, on a live bus | HipControl |
| Parameter store | sector, write address, sequence, cache | save, erase, program, load | acknowledged parameters survive resets | ParamStorage |
| Blackbox log, dump, QSPI flash | RAM queue, chunk, flash ring, metadata, capture, dump | push, writer, erase ahead, save, capture, dump | no record torn or reordered on flash or in a dump; captures end; metadata survives power loss | QspiFlash, LogMeta, LogMetaSaves, Blackbox |
| Operator link | receive ring, decoder, transmit ring, DMAs in flight | poll, dispatch, send, kick, interrupts | no frame twice, out of order or lost; transmit never stalls | OperatorLink |
| Log ring | ring, DMA in flight | print, kick, complete | text in order, interrupts left as they were | plan |
| Hip behaviour, limit switches | jump phase, recovery | tick, request | phases end; recovery ends and can start again | plan |
| Estimator, controller, kinematics | floating point | | numeric | environment of RobotSafety |
| RPC, telemetry, files, LED, ADC, profiling | | | formatting and reads | not modelled |
| Robust UART motor backend | | | compiled out | not modelled |

## 3 Modules

**MotorLink** (no variables): the state of the SteadyWin backend and of the two
drives it commands, and for each operation the set of its outcomes, one per
combination of refused frames. `EnableOutcomes` is `motor_link_enable(true)`
(eight frames; a refused one makes the call fail, idles nothing and may leave a
drive in closed loop), `TorqueOutcomes` sends on change only, `BusOffIsr` and
`Restart` are the interrupt and a new boot. `lost` is history: the last power
command was not carried out in full, or bus-off or a restart came since.

**RobotSafety** composes it with everything that may move the wheels. An action
is a handler that runs to completion in the super-loop: `Teleop`, `ArmRequest`,
`DisarmRequest`, `ManualOn`, `ManualOff`, `ManualRun`, `RebootRequest`,
`Heartbeat`, `ControlTick`, `IdleTick`; and `BusOff`, `McuReset`, `Elapse` between
them. `TryArm` and `DisarmFrom` are `app_try_arm_balancing` and
`app_disarm_robot`, which several of them call. The controller's output is any
torque, the estimate is invalid, upright or leaning; the stamps are ages. An IMU
interrupt that comes inside a tick, after a millisecond boundary, is modelled
for what it does: `now_ms - last_imu_irq_ms` wraps round (`IrqAge`).

**MotorLinkIsr** is the same backend a frame at a time: an operation begins with
the frames it will queue (`EnableFrames`, `DisableFrames`, ...), `Check` is the
guard of `motor_link_can_send`, `Refuse` its answer when the FIFO is full, `Add`
puts the frame in, `Skip` passes over the side whose torque has not changed,
`Finish` is the last assignments of the operation, and the bus-off interrupt
(`BusOffSet`, `BusOffClear`: its two assignments) may fall between any two of
them. **MotorLinkSpec** is what the
callers rely on, atomic operations of MotorLink; `ImplementsSpec` is the
refinement, under the mapping `View`: an operation takes effect at its last
assignment, or when the interrupt cuts it short.

**SuperLoop** is the schedule in discrete time: the timer (`Release`), the
pieces of a round with any duration up to a maximum, the deadline
(`TimeToDeadline`, `EnoughLeft`), rate changes (whose update event counts as a
release) and, as clocks, the silence of the link and the time since the
watchdog was refreshed. It justifies what the other modules assume of the loop.

**ImuSched** interleaves the thread's `imu_sched_tick` (pc: look at the bus,
check the timeout, abort in two steps, tell the sensor, run the scheduler,
record the transfer, release the lock) with the data-ready and SPI interrupts,
which run the same scheduler unless `s_running` is set. `hw` is the SPI and its
DMA; a transfer may hang for ever or finish just before it is aborted.

**ParamStorage**: one sector of flash words; a save erases if the record does
not fit and programs it word by word; every operation may fail, a reset may
come before, in or after any, and `Scan` is what `param_scan_sector` then finds
(`ScanFrom`, a recursive function over addresses, at 0). Newer firmware may use larger records.

**HipControl** interleaves the steps of the hips' tick (coordinate, check, send
hip by hip, copy the faults, judge and mark hip by hip, write the faults back)
with the CAN interrupt and with time, since the tick works with one `now_ms`
taken at its start: `TooOld` is the unsigned comparison with both its outcomes.

**QspiFlash** (no variables) is the asynchronous half of the QSPI driver: what
starting and polling an operation may return, the write that reports success
with nothing in flight included. **LogMeta** (no variables) is the metadata on
it: two slots, sequence numbers that wrap round, `MetaTick`, the choice at boot.
**LogMetaSaves** drives LogMeta with saves of any address and resets anywhere.
**Blackbox** composes both with the log and the dump: `log` is what
`blackbox.c` keeps together with the chip, `dump` what `blackbox_dump.c` keeps,
and an action is one of the calls the loop makes: a push in the control tick, or
an idle tick, which runs the writer, the erase-ahead, the metadata, the capture
and the dump in the order of the code. Between two of them the chip works. The loop that fills
a chunk (`Gather`) is a recursive function over its `Round`s.

**OperatorLink** interleaves, byte by byte, the line, the receive DMA, the poll
that decodes what the DMA stored (`ReadCounter`, `Begin`, `Byte`, `Frame`,
`EndPoll`), the error interrupt that restarts both, the ring of frames to be
sent with the thread's kick (`CheckKick`, `Transmit`), and the interrupts at the
end of a transmission and after its failure.

Modules named `...Proofs` hold the theorems about the module they are named
after (section 6), BlackboxProofs those of LogMetaSaves too. MC modules (`MC*.tla`) only name the instance for TLC. `Bug_` operators are
mutants, plausible mistakes in the code; PROJECT.json says which property each
must break.

## 4 Runs

Passing runs:

- `robot_safety` (127,770 states): every order of commands, ticks, refused
  frames, bus-off and resets, two wheels, zero and one other torque. Shows
  `PowerHasOwner`, `ManualExcludesController`, `BeliefMatchesDrives`,
  `SentRecordTruthful`, `ArmFromRest` (balancing starts upright, from DISARMED or
  FALLEN, drives closed at zero torque) and `TorqueNeedsAuthority`.
- `robot_live` (34,730 states, one wheel): `SilentLinkDisarms`,
  `SensorLossStopsBalancing`, `BusOffStopsBalancing`.
- `motor_link_isr` (17,127 states, two nodes): the frame-by-frame backend
  implements the atomic one, and a torque reaches only a drive that was closed.
- `superloop` (20,958 states): control ticks late by at most `Latency`, link loss
  noticed within `Timeout + Gap`, watchdog fed.
- `imu_sched` (69,136 states, three sensors): `TransferWatched`,
  `InflightOwnsBus`, `NoStarvation`, `HungTransferEnds`.
- `param_storage` (44,655 states): `AckedSurvives`, `RamMatchesFlash`.
- `hip_control` (11.5 million states, two hips): `CommandsFollowMode`,
  `BusOffSilences`, `CommandsOnFreshEncoder`, `HeartbeatLossStops`.
- `log_meta` (3,250 states): `VerifiedSurvives`: wherever power is lost in a
  save, a boot that can read both slots restarts from the record taken for safe
  or the one being saved.
- `blackbox` (225,516 states): `ChunksOnErased`, `RingHoldsTail` (the last
  records, whole and in order, back to the erase frontier), `CapturedWhole`,
  `DumpIsTail` (a finished dump is the log's tail at the capture, but for at most
  the sector erased since and the records that overran it) and `CaptureEnds`.
- `operator_link` (451,302 states): `FramesOnce`, `SentOnce`, `SentInTheEnd`,
  `HandledInTheEnd`.

Runs that end in a violation, each a disagreement between the code and what it
is said to do, are in section 7.

Bounds, and why they are enough:

- *Thresholds of RobotSafety* (`ImuFallen = 0`, `ImuFatal = 1`, `MotorFallen =
  MotorFatal = LinkTimeout = 0`): an age counts to one above its threshold.
  The code only compares, so one value below and one above each threshold shows
  every case; `ImuFallen < ImuFatal` keeps FALLEN and FAULT apart. The safety
  properties are proved for all values, and for `KtKnown = TRUE` except
  `SentRecordTruthful`, which needs `FALSE` (the shipped configuration).
- *Two torques*: the link compares torques for equality with the last one; zero
  and another show agreement and disagreement. *One wheel* in `robot_live`:
  no rule there relates the two wheels.
- *SuperLoop*: the unit is 304 us, so that the idle budget is 4 units and 400 Hz
  is a period of 8; `IdleMax = 6` overruns the budget. Two periods, so that rate
  changes go both ways. Ages stop at `AgeCap`, above all that is compared with
  them (`CapAssumption`).
- *ImuSched*: three sensors as in the product, one failing start.
- *ParamStorage*: five words and records of two and three words: a sector that
  fills after two records, with and without a remainder; two values, four
  saves, one failing flash operation in all.
- *HipControl*: two hips, `Timeout` twice the longest loop, the other periods one
  unit (`HipAssumption`: no timeout runs out during start-up, as with the real
  200 ms and 10 ms). A report can be fresh, too old, or younger than `now_ms` at
  every step, and a tick may take as long as the period of the loop.

- *LogMeta*: eight sequence numbers, so that they wrap round; an address that
  is not a whole number of records from the ring's start.
- *Blackbox*: a ring of three sectors of five cells, records of two cells,
  chunks of two records. As on the chip a chunk is shorter than a sector and the
  ring is not a whole number of records, so chunks go over sector boundaries and
  over the ring's end. Eight records go round the ring once; five in the
  behaviours with a reset or a failed operation, of which there is one.
- *OperatorLink*: frames of a byte and its delimiter, a ring of four bytes, so
  that the third frame wraps; three slots, two of them usable; one error.

Deadlock is not checked in `motor_link_isr` (the bus-off interrupt and a failed
`motor_link_init` leave operations that do nothing, and a behaviour without
another call ends) and in `log_meta`, `blackbox` and `operator_link`, where a
behaviour ends when the bounded pushes, saves and frames are used up and all is
written and sent. `TypeOK` of SuperLoop and of ImuSched is part of what is
proved (section 6) and not a run.

## 5 Fairness

- `RobotSafety!FairSpec`: weak fairness of the control tick, the idle tick and
  time. The super-loop always comes round to both ticks: SuperLoop shows when
  (`LinkLossInTime`, `ControlInTime`); it needs a control period the idle budget
  fits into (`Feasible`). No fairness of commands, frames or telemetry: liveness
  holds for an operator and drives that do anything.
- `ImuSched`: weak fairness of the thread, of the end of transfers that do not
  hang, and of time; strong fairness of the thread's `Run`, which an interrupt
  between LDREX and STREX may refuse but not for ever. None for data-ready
  interrupts.
- `Blackbox`: weak fairness of the idle tick in which the chip's operation has
  ended: the loop comes round and an operation of the chip does not take for
  ever. None of pushes, captures or of a robot that is safe to dump.
- `OperatorLink`: weak fairness of the poll and of the thread's kick (the loop
  comes round), of the end of a transmission and of the error interrupt once
  the DMA has stopped. None of the operator's bytes or of what is sent.
- The other specifications state safety only.

## 6 Proofs

Eight modules hold theorems that TLAPS checks for every value of the constants
that the named assumptions allow. Each rests on an inductive invariant, `IInv`,
and an `Invariance` theorem, `Spec => []IInv`; TLC checked every `IInv` on the
instances of section 4 before it was proved. (For the saves of LogMetaSaves they are
called `SavesInv` and `SavesInvariance`.)

**RobotSafetyProofs** (`TorqueAssumption`, `AgeAssumption`):

| Theorem | States |
|---|---|
| `TypeCorrect` | `Spec => []TypeOK` |
| `PowerOwned` | `Spec => []PowerHasOwner` |
| `OneOwner` | `Spec => []ManualExcludesController` |
| `BeliefIsTrue` | `Spec => []BeliefMatchesDrives` |
| `RecordIsTrue` | `Spec => []SentRecordTruthful` |
| `ArmsFromRest` | `Spec => ArmFromRest` |
| `AuthorisedTorque` | `Spec => TorqueNeedsAuthority` |

The properties are not inductive. `IInv` adds what they need: `Sound`, that an
enabled link is up and on the bus and that a link which is not up has sent
nothing (otherwise a disable that is refused for want of a bus would leave an
enabled link without an owner); `Believed`, the link's part of
`BeliefMatchesDrives`, that both drives of an enabled link are closed; and `Recorded`, that
without a torque constant a record of the last torque sent is zero or nothing
unless the balancer owns the link, and agrees with an enabled drive
(otherwise a record left by one owner would suppress the zero of the next).
The module has a lemma per operation of the link, what each outcome keeps
and changes, then a lemma per handler that takes the part
about owners and the link (`Ctl`) through it and one lemma for the types of the
rest; `NextInv` combines them. `NextAuthority` and `NextArm` are the
action properties, from the same invariant.

**MotorLinkIsrProofs** (`TorqueAssumption`, `OrderAssumption`): `Implements`,
`Spec => ImplementsSpec`, for any nodes, addressed in any order; and
`OnlyClosedDrives`, `Spec => TorqueReachesClosedDrive`. The invariant says how far
the operation in progress has come: `On`, `Off`, `ModeSet` and `Torqued` relate
the frames still to be queued (`Pending`), what the drives hold, what they held
before the operation, and whether a frame was refused; `Found` is what the
operation found. It is not claimed once the bus is off. From it, what an
operation has come to (`Outcome`) is at every moment an outcome of the atomic
operation (`OnReached`, `OffReached`, `ModeReached`, `TorqueReached`), so the step
that ends an operation, `Finish` or the interrupt's first assignment, is a step
of MotorLinkSpec; the interrupt's second one is its `BusOff`; all others leave
`View` as it is (`StepImplements`). This is what entitles RobotSafety to atomic
operations.

**SuperLoopProofs** (`TimeAssumption`): `ControlStarts`, `LinkLossNoticed` and
`WatchdogIsFed`, that is `ControlInTime`, `LinkLossInTime` and `WatchdogFed`
whatever the maxima of the pieces of a round, at all rates that are `Feasible`
(a late control tick and a poll still leave the idle budget) and, for the
watchdog, with a period longer than a control period and a round. `Timed` says
where the loop can be how long after a release, `Restarted` the same of an age
that only the idle tick restarts.

**ImuSchedProofs** (`SensorAssumption`): `ActiveIsWatched` and `FlagsOwnBus`
(`TransferWatched`, `InflightOwnsBus`) for any number of sensors. `Located` says
what the thread may rely on at each of its steps, above all that while it
records a transfer no interrupt has started another one.

**HipControlProofs** (`HipAssumption`): `TypeCorrect`, `OnlyBalancing`
(`CommandsFollowMode`), `SilentOffTheBus` (`BusOffSilences`), `FreshEncoders`
(`CommandsOnFreshEncoder`) and `HeartbeatsNeeded` (`HeartbeatLossStops`), for any
number of hips and any periods the assumption allows. `Recent` and `Judged` say
how old a report that counts as valid can be at each step of the tick,
`LossNoted` that the loss of all heartbeats is in the copy of the faults or in
the faults themselves, `EnabledRecent` how long the target may stay enabled,
`BusHeld` that a loop over the hips that is under way began on a live bus.

**BlackboxProofs** (`MetaAssumption`, `NoMetaAssumption`, `GeometryAssumption`,
`BoundsAssumption`), for any range of sequence numbers and any geometry, queue,
chunk and window the assumptions allow:

| Theorem | States |
|---|---|
| `SavesTypeCorrect` | `SavesSpec => []SavesTypeOK` |
| `NoSaveLosesBoth` | `SavesSpec => []VerifiedSurvives` |
| `TypeCorrect` | `Spec => []TypeOK` |
| `ErasedFirst` | `Spec => []ChunksOnErased` |
| `TailIsKept` | `Spec => []RingHoldsTail` |
| `CaptureIsWhole` | `Spec => []CapturedWhole` |
| `DumpIsWhole` | `Spec => []DumpIsTail` |

The first two rest on `SavesInv`: `DurableHeld` says that the slot of its parity
holds the record taken for safe and what the other one may hold, `SaveSound` and
`FormatHeld` the same of a save under way and of a ring that was just formatted.

The others rest on `IInv`. `Sized` and `Lined` say how many records are where in
RAM, and that they are in their order; `Owing` that what a capture waits for is
still on its way; `Laid` what each cell of the ring holds, counted from the write
address: forward up to the erase pointer it is blank, and back from it lie the last
records, whole and in order. `Laid` is claimed only while nothing has failed and no
reset happened, since the code loses it then (section 7). `Retained` says how far the
log may have gone on since the capture, `Advanced` (with `Progress`) how far the
dump has come, and `Exported` what it has read: each cell is the captured record's
or, among the first, blank. An idle tick
changes nearly all of it, so it is followed part by part, from what the writer
leaves (`Between`) to the dump. The loop that fills a chunk is taken by induction
on its rounds (`RoundsFacts`, `RoundsKeep`). `ReadCell` says of each cell the dump
reads that it still holds the captured record unless erase-ahead has taken it, and
`AllowedFacts` bounds that loss by a sector and the records that overran.

**OperatorLinkProofs** (`LinkAssumption`): `TypeCorrect` and `EachSentOnce`
(`SentOnce`), for rings of any size and any number of frames. `Numbered` says
that the slots from the tail hold the last numbers accepted, in order;
`Accounted` that each earlier number is on the wire or given up, once, and the
wire's in their order; `KickSound` that a kick under way, or the DMA, has a first
waiting slot to send, so the end of a transmission settles that slot and no other.
The arithmetic of the ring is in `RingFacts`. `EachHandledOnce` (`FramesOnce`) is the
receiver's half, for a ring and frames of any length, the ring overrun by what
comes between two polls included. What the ring keeps of the operator's bytes
(`Held`) is not an invariant by itself: a poll reads the DMA's position once and
goes on with it while bytes still come, so `FramesInv` says it of what the poll
has yet to decode, of what its snapshot covers and of what has come since
(`Seen`), and that the decoder stands where the frame of the byte it took last
puts it (`InStep`). It is claimed up to the restart that `raced`.

**ParamStorageProofs** (`SectorAssumption`, `WordAssumption`): `TypeCorrect`,
`ResetFindsLast` (`AckedSurvives`) and `RamIsFlash` (`RamMatchesFlash`), for any
sector, any sizes of records and any parameters. The scan is a loop over what the
sector holds, so the module starts with an induction over addresses, built from
the well-foundedness of finite sets (`Least`, `Downward`): the recursive function
exists and is what its rounds say (`Unfolds`), it ends at or above where it starts
with a parameter set or nothing (`ScanTyped`), and the scan of a sector is the scan
of what lies below a cut joined to the scan from there, if the first gets as far
(`ScanJoins`). The invariant says what a save makes of the sector in terms of the scan of `Cut`,
the sector without what lies at or after the next record's place: that scan gets
just there and finds what RAM holds (`Reached`); beyond are at most words of one
attempt to program the next record (`Beyond`), the record's own up to the one in
progress (`Programming`), and none while no save has failed (`Settled`); after an
erase that failed the sector may be blank instead (`Emptied`). Without `Beyond` a
record would be programmed over words; and it is the scan of `Cut` that an
attempt cut short leaves alone, since its first word is its header. None of it is
claimed once a header word was torn (`soiled`, section 7).

Only model-checked: what the prover cannot reach, which is liveness and fairness
(`SilentLinkDisarms`, `SensorLossStopsBalancing`, `BusOffStopsBalancing`, `NoStarvation`,
`HungTransferEnds`, `CaptureEnds`, `SentInTheEnd`, `HandledInTheEnd`). Every safety
property that a run checks and that holds is proved.

## 7 What the checks found

Two runs end in a violation of what the documents say:

- `robot_spurious_fault` (`FaultOnlyOnLoss`): a data-ready interrupt inside a
  control tick, past a millisecond boundary, makes an unsigned age wrap round;
  a healthy balancing robot goes to FAULT, motors off.
- `blackbox_reset` (`ErasedUnderWriter`): after a reboot the erase pointer is
  mostly below the write address and passes for one a ring ahead, so chunks are
  programmed over old records, where the documents keep the next sectors erased.

Met while modelling, without a run of their own. Each is in the models as the
code has it, and where a property would fail because of it, the property names
the exception:

- A disarmed robot's drives may stay in closed loop: refused idle frames are
  never repeated, and a restarted firmware does not idle drives it finds on.
- The link timeout takes FAULT back to DISARMED without any command, which
  `docs/MotionControl.md:105` and `docs/MainControl.md:541` exclude.
- Control rates above about 822 Hz are accepted and leave no room for the idle
  tick: a silent link is not noticed and the watchdog is not fed. Each SET_PARAM
  of the rate restarts the period (`app_rpc.c:493`), so a stream of them holds
  the idle tick and the control tick off.
- A reset while the parameter sector is being erased loses all parameters,
  where `param_storage.h:71` promises that a save can be cut short; a save asked
  for in manual mode blocks the loop for that long.
- One fault bit stands for both hips (`hip_control.c:604`), so one leg goes on
  being commanded when the other has gone silent (`docs/MotionControlv3.md:291`);
  the write-back of the faults may lose a bus-off bit set in between
  (`hip_control.c:371`); `recovery_blocked`, once set, is never cleared
  (`hip_control.c:249`).
- One IMU whose initialisation fails leaves the whole bus not ready
  (`app_imu.c:99`).
- Link, receiving: an error interrupt in the middle of a poll restarts the DMA,
  and the poll then writes its old position back: old bytes of the ring are
  decoded again, commands among them (`FramesOnce` excepts it as `raced`). A
  receiver whose restart fails is not tried again. A loop held up for longer
  than 512 bytes take (5.5 ms at 921600 baud) loses bytes, and exactly a ring of
  unread bytes looks like none.
- Link, sending: a transmit DMA error leaves `s_link_tx_busy` set for ever; the
  log ring has the same when USB is unplugged during a transfer.
- Blackbox: the erase that the writer tick starts makes the driver refuse the
  flush of the same tick, whose records are dropped; after the ring has wrapped,
  its length not being a multiple of a record, every metadata save of such an
  address is rejected at boot; a write whose first page cannot be started wedges
  the writer; a capture with nothing queued never ends; the retention that
  `log_capture_protect` computes is short of up to a sector and a chunk; a failed erase ahead
  is taken for done; formatting after an invalid tail restarts the sequence at 0
  below a valid slot; the dump's trailer counts numbers, not records, when some
  were dropped.

## 8 Abstractions, and what is not modelled

- A CAN frame the FIFO accepts reaches its drive. The drives obey: axis state
  and input torque are what they were told last. No caller sets a control mode
  other than torque, and no header of this board defines the enable pin.
- Receiving telemetry is "both wheels report or not" (`WheelReports`), which a
  link that cannot send never does.
- Floating point is left to the environment: any torque, any estimate.
- The bootloader is a restart. Firmware downgrades are not modelled.
- A sector erase that is cut short leaves the sector as it was, erased or
  unreadable as a whole; the CRC tells a whole record from any other words.
- In HipControl the drives report at any time, so the requests for telemetry
  are left out; so are heights, limit switches and the faults that stop nothing.
- In Blackbox records are numbered over boots, to tell them apart; the pages of
  a write are one operation, of which a failure or a reset leaves any part.
- In OperatorLink a byte is its number on the line, and the CRC tells a whole
  frame from any other bytes; ring memory no byte came to may hold a delimiter.
  The USB receive ring, the branch without circular DMA and the sequence numbers
  are left out.
- `param_storage_erase`, `hip_control_on_bus_recovered`, `log_flush_pending` and
  MOTION_MODE_CALIBRATION are never used by the code and not modelled.
- Not modelled at all: vendored drivers (CMSIS, HAL, USB, FatFs), which are most
  of the source; numeric code (estimator, controller, kinematics, calibration);
  formatting (RPC answers, telemetry); indicators; the motor backend that is not
  compiled in. PROJECT.json "components" gives the reason for each.

## 9 Plan

Done, most important first: MotorLink and RobotSafety; MotorLinkIsr; SuperLoop;
ImuSched; ParamStorage; HipControl; QspiFlash, LogMeta and Blackbox;
OperatorLink; the proofs of section 6.

Left, in this order:

1. `HipLimits`: debounce, recovery and its block, with the phases of
   `hip_behavior.c`; then the calibration of the hips' zero.
2. `LogRing`: `utils/log.c`, the thread and interrupts at both ends; interrupts
   enabled exactly when the caller had them enabled.
3. Wheel telemetry: the receive ring of the CAN backend, full as well, and its
   freshness, in place of `WheelReports`.
4. Proofs: the invariants of these modules, and of the hips' limits that a
   recovery leaves them inside the limit it recovered from.
