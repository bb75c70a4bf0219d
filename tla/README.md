# A verification of the CellKeeper battery controller

The firmware controls a Tesla battery pack that feeds an inverter. Two RP2350
processors take part. The *battery controller* (`bms/`) samples the pack, runs
the state machines that open and close the contactors, and talks to the
inverter, the user interface and the other processor. The *supervisor*
(`supervisor/`) listens on the bus to the cell monitors and enables the power
of the contactor drivers only while the cells it sees are good. Both run a
single-threaded loop; what interleaves is the machines inside a loop, which
share single-slot request variables, the two processors, the interrupt handlers
and DMA rings under them, and resets.

This directory holds TLA+ modules of that program, the configurations that
check them with TLC, and proofs checked by TLAPS.

## Inventory

| Part | State it keeps | Operations | What makes it correct |
|---|---|---|---|
| Contactor machine, `app/state_machines/contactors.c` and `drivers/contactors` | state and its age, request slot, `enable_current`, coils | one tick per state, an early reaction to open requests | coils on one at a time and through the resistor, no opening under allowed current, a failed closing is counted, a closing sequence ends |
| System machine, `state_machines/system.c` | state, request slot, `operating`, scheduled save | RUN, STOP, calibrations, fault | a fault opens in bounded time; idle stays open; what is saved is what was decided |
| Calibration machine, `app/calibration` | state, request slot, contactor state at the start | three sequences | measures only with the contactors as the sequence requires, always ends |
| Loop, `app/bms.c`, `app/init.c`, `main.c` | the order of a tick | read, check, machines, save, wait | every machine copes with what the others wrote in this tick and the last |
| Events, `sys/events` | level, accumulator and count per event | raise, count, clear, tick | FATAL never clears; leeway is a bound on how long a fault may last |
| Safety and hardware checks | none (event slots) | confirm... | stale readings are faults, but not while initializing |
| Supervisor, `supervisor/supervisor_logic.c` | OFF, ON, LATCHED; last status and scan; good scans | on_status, on_scan, tick, reply | never enables without three fresh good scans and a live controller; latches a lasting cell fault |
| Link, `shared/supervisor_protocol.c`, `internal_serial`, `duart` | parser position, last reply and its time | send, feed, receive | a frame is delivered whole or not at all; an old reply stops counting |
| Cell snooping, `supervisor/cell_snoop.c` | partial scan | feed, take | a scan is only taken complete, never mixed from two |
| Cell monitors, `drivers/bmb3y` | step of the cycle, slow mode, balancing masks | cycle step, start and stop | readings of one cycle, slow mode only while open |
| Balancing, `app/battery/balancing.c` | state, masks, timers | start, tick, finish | never while operating conditions forbid it, ends |
| Limits, `app/model.c`, `current_limits.c` | buffers, filtered limits | tick | zero when current is not allowed; saturating arithmetic |
| Rings and log, `lib/ringbuf.h`, `sys/logging` | indices | write, read, peek, free, flush | first in, first out; nothing lost unnoticed |
| Flash, `drivers/chip/nvm.c` | files, scheduled save | save, load, tick | the last completed save is what is loaded |
| Isolation monitor, `app/isolation.c` | autozero steps | step | zeroed only while the pack floats |
| Sampling, `drivers/sensors`, `i2c`, PIO programs | queues, timestamps | asynchronous reads | readings carry the time they were taken |
| Estimators, inverter and HMI protocols | filters, messages | tick | (numeric, formatting) |

The hard behaviours are: request slots that a later writer overwrites; checks
made seconds before their result is used; resets between a decision and its
save; timeouts that race with completion; two processors that must time out in
the right order; ring indices shared with interrupt handlers. `PROJECT.json`
lists them as hazards, each at the line where it bites.

## Modules

| Module | Models | Content |
|---|---|---|
| `Contactors` | `contactor_sm_tick()` and the coil driver | one action per case of the switch; requests and readings come from outside |
| `SystemSM` | `system_sm_tick()` | one action per case; reads the two other machines and writes their request slots |
| `Calibration` | `calibration_sm_tick()` | one action per case |
| `Bms` | `bms_tick()` | composes the three: it extends `Contactors` and instantiates the other two over its own variables; it implements `Contactors` |
| `Events` | `events.c` | record, clear and tick of the slots, and time |
| `Supervisor` | `supervisor_logic.c` | one action per function, and one per outcome of its tick |
| `Supervision` | `supervisor.c`, `internal_serial.c`, and of the controller what the supervisor depends on | extends `Supervisor`; two processors, the link, faults |
| `ReadCycle` | | abstract: a snapshot and then its banks in order |
| `Balancing`, `CellMonitors` | `balancing.c`, `bmb3y.c` | the cycle of the cell monitors, one action per step; implements `ReadCycle` |
| `CellSnoop`, `Acquisition` | `cell_snoop.c` | the supervisor's scans; `Acquisition` composes them with `ReadCycle` |
| `I2c`, `Ina228`, `Ads1115` | `i2c.c`, `ina228.c`, `ads1115.c` | asynchronous transfers as operators on a context; the two drivers that use them, in interrupts, with the control loop beside |
| `ByteQueue` | | abstract: a bounded queue of bytes, messages taken whole or refused |
| `RingBuf`, `Duart` | `ringbuf.h`, the sending side of `duart.c` | the arithmetic of the indices; the loop and the interrupt handlers that share them; implements `ByteQueue` |
| `Framing` | the receiving side of `duart.c`, `supervisor_protocol.c` | both parsers on one noisy line |
| `LogRing` | `logging.c` | the overwriting ring and its two readers |
| `Nvm` | `nvm.c` | two files, periodic and scheduled saves |
| `HmiSerial` | `hmi_serial.c` | announcements, address, settings, pages of events |
| `Contactors_proofs`, `Bms_proofs`, `Events_proofs`, `Supervision_proofs`, `OpensFirst_proofs`, `Duart_proofs`, `Links_proofs`, `Acquisition_proofs` | | the theorems |
| `MCContactors`, `MCBms`, `MCSupervision`, `MCLinks`, `MCAcquisition` | | values for the constants; the last two put several parts side by side |

### How the state corresponds to the code

A machine's `..._state` is its `sm_t.state`, and its `..._elapsed` is the time
since `last_transition_time`. The code compares that time only with the
timeouts of the current state, so the model stops counting at the longest of
these (`Deadline`, `SystemDeadline`, `CalibrationDeadline`): ages beyond it are
not told apart and the state space is finite without any bound of its own. The
one exception is `FaultHorizon`, up to which the age of FAULT is counted
although the code never looks at it, so that a property can speak of it.
`contactor_req`, `system_req` and `calibration_req` are the single slots of the
model structure. `coils` is the set of coils that `set_with_pwm` drives; the
coil called `pre` belongs to the contactor that *bypasses* the precharge
resistor, as in the driver, so that precharging is `{"pos", "neg"}`. Two constants
choose the build: `PrechargeOnNegative` is the board's `PRECHARGE_ON_NEGATIVE`, and
`FcPosContactor` is `BMS_FC_POS_CONTACTOR`, in which the driver sets a fourth coil,
`fc_pos`, from the same argument and in the same call as the main positive one
(`WithFcPos`).

`critical` holds the zero-leeway CRITICAL events the contactor machine raises,
until `events_tick` turns them into FATAL ones; `closing_failures` is the count
of `CONTACTOR_CLOSING_FAILED` up to its leeway; `fatal` says that the highest
level is FATAL. Every voltage check is a Boolean the tick chooses, since no
property tells the voltages apart; the current is kept as a magnitude because
three different thresholds are compared with it, and a reading may be `Stale`.

`Bms` runs a tick in phases, in the order of the calls in `bms_tick`: the
commands of the CLI and the HMI are one phase, wherever in the loop they are
polled, because nothing between those places looks at the system's request.
The system machine runs before the contactor machine and the calibration
machine after it, so that each sees what the one before it wrote in this tick
and what the ones after it wrote in the last. `save` follows
`nvm_fast_saved_timestep`: a save scheduled in one tick is made by `nvm_tick` in
the next one, and the five-minute save may come at any time. A reset may come
between any two phases; only `saved_operating` survives it.

`Supervisor` stores, like the code, the last status and the last scan, but
instead of the times of events their ages, each up to the first value that no
comparison tells from a later one. A scan is what `sup_check_cells` makes of
it: `good`, `low` for any cell out of range, or `missing`. Whether both sides'
readings agree is a choice of the tick unless the last status shows what the
last good scan shows. `uptime` counts up to `UptimeBound`: a controller that has
run for longer than the heartbeat delay cannot come back with a greater uptime
before it counts as lost.

`Supervision` runs in units of a second, about a cycle of the cell monitors, in
which both loops run many times. The phases of a unit are: the cells are read
(and snooped); the controller acts and sends a status; the supervisor takes the
scan, takes the status, decides and replies; time passes. Of the controller it
keeps the readings and their age, the events CELL_VOLTAGE_VERY_LOW,
CELL_VOLTAGES_STALE and SUPERVISOR_DISABLED_CONTACTORS with their accumulators,
the last reply, hangs and resets. The three machines are reduced to
`ContactorChoices`: close with consent at any time, open at any time, and after a
fault within `ForceOpen`, which is what `FaultOpensInTime` of `Bms` shows. An
escalation that takes 20 ms in the code takes until the next unit in the model,
so the controller is never faster than it is. `faults` is the combination of
kinds of fault in a behaviour, `settled` says that they are over; `exposure` and
`blind` are history variables that only the properties read.

`Events` has the clock of `events_tick` in units of which `PerDs` make the
decisecond that it truncates to. Milliseconds, deciseconds and counters wrap or
saturate at `MillisLimit` and `DsLimit`. Boot takes up to `MaxGap` units before the
first tick, which adds them: an event raised in the meantime gets older by the
time before it was raised. `lasted` is a history of how long a slot has been
critical.

`CellMonitors` has `phase`, the count of ticks modulo the slow period; the step of
a tick is the phase modulo the period in force, as the code's masks make it. What
the rest of the controller decides (slow mode, stop, conditions for balancing) is
chosen in every tick. `stored` are the banks stored since the snapshot, `bus` is
the bank read in this tick, which is what the supervisor may overhear.
`Balancing` has the cells' physical channels, because two neighbours are never
discharged at once.

`Duart` cuts `duart_send` where an interrupt handler may see or change what it
reads next: after it takes the flag, after `ringbuf_write` has loaded `read_idx`,
and after the store of `write_idx`. Handlers run whole, on the same core. Indices
run over twice the array as in the code, so that a full ring differs from an
empty one. `line` is the last transfer as it left.

`Framing` sends frames over one line that loses, changes and adds bytes, and both
parsers listen: the supervisor's, fed byte by byte, and the controller's, which
polls its DMA ring with every wrap of header, payload and CRC at the end of the
array. A payload's CRC is two bytes of any values (`Crc`), which a parser out of step
takes for sync or for a length like any other byte; ideal is only the matching, as a
CRC belongs to the one payload that it was sent with. No ring overruns. `FeedLoss` and
`PollLoss` are the numbers of good frames that a parser may lose after the last noise,
where good frames count while they come in a row with no sync byte in payload or CRC.

`LogRing` writes with interrupts disabled and reads without: a read loads the
count, then the head, then copies, and a write may come between any two. A byte
is the number of its write, counted modulo `CountLimit`, so that a property can
tell whether a reader gets what its own count says.

`Nvm` counts time in ticks modulo `StepLimit`, in which the sums of the code wrap
as well. A save works or does not, and what it returns is ignored; `behind` is a
history of how old the data in flash are. The slow data are saved on request and
never on a clock.

`HmiSerial` has the device's side of the line: whether an announcement is due is
looked at before the message that may postpone it. The HMI is external and sends
anything in any order; messages that change nothing here are one choice. Limits
are stored one higher than written, in a width that wraps.

In `Ina228` and `Ads1115` timers and ends of transfers are interrupts and atomic;
the steps of the control loop on variables shared with them are actions of their
own. The converter is modelled by which channel it converts and for how long yet,
so that a reading that comes too early or of another channel is told apart. A
transfer that fails may or may not have reached the converter. A configuration that
reaches an ADS1115 while it converts has no effect (its OS bit then has none), so that
what it does goes on; `late` is a history of the converters found so by the timer
that begins a new cycle. The code's `round_idx`
counts the converters of the table and skips the absent ones; here it is the place
among those that are present, of which a round takes those with a channel left.

## Runs

| Run | Shows |
|---|---|
| `contactors` | The contactor machine under any requests and readings at any time, precharge resistor beside the negative contactor, FC+ coil driven with the positive one. |
| `bms` | The whole loop, precharge resistor beside the negative contactor, no FC+ coil, every request but the online calibration: calibrations measure with the contactors as they need them and end, an inactive system stays open, flash follows `operating`. |
| `bms_online` | The whole loop with the precharge resistor beside the positive contactor and every request: a fault opens the contactors in time, the isolation zero is taken with the pack floating, and the loop is a refinement of `Contactors` (`ContactorSpec`). |
| `supervision` | Both processors and the link under five combinations of faults: the order of the timeouts, the bounds of exposure and of driving blind, and recovery. |
| `links` | `Duart`, `LogRing`, `Framing`, `Nvm` and `HmiSerial`: the sender is a queue of bytes (`SentInOrder`), calls return and bytes do not stay behind while there are calls, lapped readers of the log catch up, both parsers recover from noise whatever the CRCs look like, flash is recent, settings survive a restart, events are told once. |
| `acquisition` | `CellMonitors`, `Acquisition`, `Ina228`, `Ads1115` and `Events`: reads come in cycles (`ReadsInCycles`), stamped readings are whole and taken without balancing, balancing neither lasts nor hides readings for ever, scans are of one snapshot whatever transfers are missed but for a whole cycle, samples and temperatures are of their own channel, current measurement resumes, events escalate in time. |
| `bms_inactive_closes`, `bms_long_stores`, `bms_stopped_closes`, `bms_fatal_resumes`, `supervision_missing_cell`, `supervision_unlatched` | Each a disagreement between what the repository says and what the code does, see below. |

The parts of `links` and of `acquisition` share no state. One run checks all of
them, each alone: `part`, chosen initially, says which one moves.

In the runs of `Contactors` and `Bms` one unit of time is a tick and stands for about a second; the waits of the code
keep their order but are shortened to one or two units (`OpenTimeout` 30 s to
2 or 3, `CalibrationTimeout` 120 s to more than a calibration sequence takes).
Nothing in the code depends on how long a wait is, only on which of two comes
first: both orders occur, since each check that ends a wait may also succeed or
fail in every tick. The currents are one for each range between the thresholds
(200 mA, 1 A, 5 A; above it acts as a stale reading does); the `bms` runs use
fewer of them. `ClosingLeeway` is 1 or 2 for 20. `FaultHorizon` is
`ForceOpenTimeout` and three ticks: one for the request that a calibration
timeout leaves to the next tick, one to enter AWAITING_OPEN and one to leave
it. `FlashResults` is `{TRUE}`: flash is taken to work, since a failed save is
not repeated and the operating flag then is simply the old one.

The `supervision` runs use the delays of `limits.h` themselves, in seconds: 1 and 2
for escalation and forced opening, 6 for a cell fault, 15 and 36 for stale
readings and scans, 5 and 10 for watchdog and heartbeat, 2 for replies. The
combinations of faults are of two or three kinds, any number of times and at any
moment. `BmsOpensFirst` is asked of those in `ToleratedFaults`: low cells with lost
frames and resets, hangs with resets, CRC errors with lost frames; the others of the
run are low cells with CRC errors and missing ones with lost frames. It does not hold for low cells
with hangs (a hang may use up the whole margin without a reset), for hangs with
lost frames, nor for a cell that flaps around the limit while reads have CRC
errors: the controller takes the good modules of such a read and clears its
event, while the supervisor drops the whole scan and goes on counting. The
repository promises the order without saying for how many faults at once, and
these are not counted as disagreements. `ExposureBounded` and `BlindBounded` are
reached exactly by the run; a hang adds its length to the second.

`bms` leaves out the online calibration because of what `bms_inactive_closes`
shows: with it, an idle system may close its contactors.

The bounds of `links`: a ring of 4 bytes and messages of 1 to 3, so that messages
are refused, wrap, and meet any fill; one pending alarm, since a second would
only give up the pin twice. The log's ring has 2 bytes, its records up to 3 and its
counter wraps at 8, so that records lap readers and wrap within one write. Frames have
payloads of two bytes, in one of them sync bytes, and of one byte, with a CRC that looks
like a sync byte and the length of the others. One byte of noise of any kind comes at any
moment: the parsers are memoryless once they have recovered, so more noise only begins
anew. The ring's 16 bytes are more than a frame, and frames are of 5 and 6, so that each
wraps everywhere. Noise makes the values 0, 1 and the sync value 4: the two lengths there
are, and one that is too long for either parser. The supervisor's parser may lose one
good frame and the controller's two.
`SavePeriod` 4 with a clock that wraps at 12 lets scheduled saves, periodic
saves, the wrap and one failure come together. The HMI has two addresses, three
slots of events and pages of one, registers of both kinds, and messages of two writes.

The bounds of `acquisition`: the five banks and the cycle of the code with short
waits (14 ticks for 64, pause cycles of 10, a slow period of 28: as in the code the rest of
a cycle is longer than the tick or two that a session takes to act on a request), two neighbouring cells
with times up to 2 and a pause after 2 cycles. Scans have 4 banks and two modules of
which one is the pack's, and any number of transfers in a row are missed. A scan in the
midst of which a whole cycle of them is missed may be of two snapshots, since
`cell_snoop.c:47` compares the numbers of banks only, and is excused. Conversions take as long as the
driver waits for them at least; two converters have two channels and one, and a third
one of the table is absent. Two units make a decisecond, calls of `events_tick`
are up to 3 units apart, the clock wraps at 8 and the counters at 3, leeway is 2.

### Fairness

`main()` calls `bms_tick` for ever, so `FairBmsSpec` has weak fairness of the
phases together, and `FairSpec` of the contactor tick and of the passing of
time. Nothing is assumed of requests, readings, the supervisor or the outcome
of any check: closing ends and calibrating ends by the timeouts alone.

`FairSupervisionSpec` has weak fairness of `Run`, the phases that both endless
loops and the clock go through, and of the reset at the end of the watchdog's
timeout. Faults need not happen, and need not end: `EnabledAgain` says what
follows once they have.

`DuartFairness` says that the loop goes on with a call it has begun, that
transfers end (the UART has no flow control) and that alarms fire. Nobody has to
call: `SentWhileCalled` has the calls as its premise, because without one a byte
may really stay behind (below). `MonitorsSpec` has weak fairness of `Tick`, one
per control loop. `Ina228Fairness` has weak fairness of the timer, of the loop, of
time and of the end of a transfer, and strong fairness of a successful end: the bus
does not fail every time for ever. A transfer that never ended would stop the
driver for good, as the code has no timeout for it.

### Where the code and the repository disagree

* `StoppedNeverCloses`: TESTING_PRE_CLOSED is missing from the states that react
  to an open request at once. A stop in that state followed by a calibration
  request loses the open request, and the sequence runs to CLOSED.
* `InactiveStaysOpen`: CALIBRATE_ONLINE does not leave INACTIVE. An offline
  calibration requested meanwhile is taken up after the system has gone back to
  INACTIVE, and closes contactors there.
* `LongStoresClosed`: the long calibration does not look at the contactors
  again before it stores.
* `FatalIsNotResumed`: a FAULT entered by a timeout never clears `operating`,
  although a FATAL event follows.
* `BmsOpensFirst` with a missing cell: `model_process_cell_voltages` skips a cell
  that reads -1, so that the controller raises nothing for up to four missing
  cells (20 V of the sum), while the supervisor counts them as a fault and cuts
  the drivers of closed contactors after 6 s.
* `LatchedUntilRestart`: a silence of the link of more than 10 s is taken for a
  restart and ends the latch, although the controller has not restarted.

Met while modelling, and without a run of their own, since the repository promises
nothing definite or its promise has only to be read more narrowly:

* `duart.c:141` says that bytes can be left behind only with separate cores. An
  interrupt between taking the flag and `ringbuf_write` does it on one: the bytes
  wait for the next call, which `SentWhileCalled` is about.
* `contactors.c:546` (and 592) does not want more than one contactor to close per state,
  because of the current that it draws. Where the FC+ coil is driven with the positive one
  two coils turn on in one call of the driver. `OneCoilAtATime` excepts these two.
* After a failed transfer the timer may begin a cycle (`ads1115.c:244`, 289) while a
  converter still converts for the abandoned one. The new configuration then has no
  effect, and the first sample of that converter is the old channel's.
  `SamplesAreTheirOwn` excepts it.
* A good frame with a sync byte in its CRC (0xFF 0x12, say) can be lost, and the next one
  with it, by a parser that noise has put out of step: such frames do not count for
  `FeedRecovers` and `PollRecovers`.
* `logging.c:191` writes as many bytes as vsnprintf would have liked to, also where the
  message is longer than the buffer it was formatted into: what the ring gets behind these
  is not the message. `LogRing` tells bytes apart by number, not by content.
* `logging.c:114` calls reading safe, but a jump of a lapped reader uses a count
  and a head of two moments (`misled` in `LogRing`).
* Leaving slow mode within a cycle of the cell monitors goes on with whatever step
  the short period gives, and may stamp readings of an older snapshot (`switched`). After
  `should_stop` the balancing mask stays what it was.
* A flash that cannot be mounted at boot is formatted; a failed open leaves it
  mounted; the results of write and close are ignored. Saves scheduled in tick after tick
  put one another off. In the last save period before the clock wraps every tick
  saves.
* `hmi_serial.c:746` says that the capacity is saved automatically, but `init.c:124`
  overwrites it at boot. A limit of 0xFFFF wraps to "none" and is flashed each time it
  is written. In the last period before the clock wraps announcements never stop.
* An online calibration that is given up leaves `cal_samples_left` behind, and the
  next one's sums may begin while it still takes samples (`disturbed` in `Ads1115`).

## Proofs

`Contactors_proofs` proves, for every value of the constants that satisfies the
assumptions of `Contactors` (every build, any waits in their order, any
currents):

* `TypeCorrect`, `Spec => []TypeOK`. Each group of cases has a lemma; `TickTypes`
  collects what a tick has to show.
* `OutputsCorrect`, `Spec => []OutputsFollowState`. `OutputsFollowState` is the
  inductive invariant, together with `TypeOK`: it says for every state which
  coils may still be on from the state before. Without it nothing is known of
  the coils a state starts from, which is what a step's safety depends on.
* `OneCoilHolds`, `BypassHolds`, `CurrentDisallowedHolds`: the three action
  properties of the coils, all from `NextOutputs`, which shows `SafeStep` for
  every step from a state of the invariant. In the build with the FC+ coil the two coils
  that the driver sets together are the one pair that may turn on in one step.
* `FailuresCount`, `Spec => FailedClosingIsCounted`: one lemma per group of cases that
  can fail, about what the tick adds to the count or leaves raised.

`Bms_proofs` is about the whole loop:

* `LoopDrivesContactors`, `BmsSpec => ContactorSpec`. Every phase maps to a step of
  `Contactors` or to a stutter: the system and the calibration machine touch
  nothing of it but the request slot, with a request that `Contactors` knows. So
  `LoopOneCoilHolds` and `LoopFailuresCount` follow, and the type invariant.
* `FaultOpens`, `BmsSpec => []FaultOpensInTime`, from assumptions on three bounds:
  the waits count at least one tick, and `FaultHorizon` leaves three ticks for what
  is pending when the fault comes. `FaultInv` bounds the age of the contactor state
  by the age of the fault along every path to OPEN: the request that a calibration
  overwrites is repeated, a test of the bypass ends first, and AWAITING_OPEN ends with
  the forced opening.
* `IsolationZeroFloats`: `IsolationInv` says that between the grant and the
  measurement the contactor machine either has yet to run, in OPEN, or has left the
  coils off; a request that it takes up in between turns on none before its next tick.
* `InactiveKeepsOpen` and `ShortMeasuresWithOpen`, where no user asks for the
  online calibration (the run `bms_inactive_closes` shows that this is needed).
  `IdleInv` relates the three machines: a calibration is asked for only while the
  system calibrates, a closing only while it calibrates, operates or is in FAULT, and
  a calibration that has found OPEN keeps it.
* `FlashFollows`, where saves succeed: a reset may come between any two phases, and
  `SaveInv` says that the two flags then differ only with a save scheduled or due.

`Events_proofs` proves `EscalationIsInTime` for any widths and leeways. `EventsInv`
says that a slot that has been critical for a time has at least that time in its
accumulator and in what the clock has still to count, the truncated rest included.
`HighestIsCurrent` is about `HighestLevelIsCurrent`: the cached level is right after
any order of records, clears and ticks; it has no run of its own.

`Duart_proofs` begins with the lemmas of the ring's arithmetic: an index moves on by
what was written or read, the fill changes by as much, and places of the array do not
overlap. On them rest

* `DuartKeepsTypes`, `FlagIsHeldOnce` and `TransfersOwnTheirBytes`, from `DuartInv`:
  the flag has one holder, and an old `read_idx` that the writer holds only makes
  the ring look fuller than it is (`LoadedFits`).
* `DuartIsAQueue`, `DuartSpec => SentInOrder`: a step is a put of a whole message, the
  end of a transfer takes the bytes it has sent from the front, any other step
  stutters.

and then, of the two parsers, for any messages with any CRCs, any noise and any size of the
ring:

* `FeedAlwaysRecovers`, `FramingSpec => []FeedRecovers`, for a `FeedLoss` of as many
  frames as `MaxPayload + 2` bytes can hold (`FeedLossFits`). After the last noise the
  parser is at a frame's beginning, in step within the frame that is sent, searching, or
  it lags: then it waits for the rest of something that is no frame, and what has been
  sent since is a part of that rest.
* `PollAlwaysRecovers`, `FramingSpec => []PollRecovers`, for a `PollLoss` of as many
  frames as are in what `duart_read_packet` consumes at one wrong length
  (`PollLossFits`). `PollInv` says that from some place on, the unread bytes are
  frames, and that the parser is at one of them, before all of them, inside one
  with no sync byte to its end, in payload or CRC, or inside the one that is being sent.
  `RingReads` shows that a packet is read as it came wherever the array ends in it.

The hypotheses hold of the `links` run (4 <= 1 * 5 and 8 <= 2 * 5 bytes). In the code
the length byte is at most 255, so that at most 259 bytes are consumed: the number
of frames lost is what fits into these, eleven replies of 24 bytes. That sync is 0xFF makes it
at least as large as any payload's length, which both proofs need.

`Links_proofs`:

* `FlashStaysRecent`, `NvmSpec => []FlashIsRecent`: `NvmInv` relates the age of the data
  to the failures and to the time since `nvm_fast_saved_timestep`, which a
  scheduled save has set back, over the wraps of both.
* `QuietDuringPolls`, `HmiSpec => QuietWhilePolled`: `PutOff` says that the next
  announcement is due one period after some tick since registers were read.
* `SettingsStaySaved`, `HmiSpec => []SettingsAreSaved`, for a message of any number of
  writes: what has changed so far in the message is also what is to be saved.
* `EventsAreToldOnce`, `HmiSpec => []EventsPagedOnce`: `ToldOnce` splits the slots at
  `page_from`; a page is told whole and the next one begins behind it.
* `LogReadsInOrder`, `LogSpec => []ReadsInOrder`: the ring holds the last `LogSize`
  numbers at the places they have modulo `LogSize`, a tail is in step with its own count
  unless the reader is misled, and what a reader has loaded is no newer than the log.
  It needs that the counter wraps at a multiple of the ring's size.

`Acquisition_proofs`:

* `ScansAreOfOneSnapshot`, for any number of banks and any missed transfers: the bank
  that the supervisor waits for is behind the one the controller reads next by just what
  it has missed. So a bank expected of one snapshot and heard of the next means that a
  whole cycle was missed in a row (`MissedAll`), which is the case that is excused.
* `MonitorsReadInCycles`, `MonitorsSpec => ReadsInCycles`: the driver implements
  `ReadCycle` for every period, of ordinary and of slow mode. It is arithmetic of
  the step counter modulo the period: a step goes one further in the cycle or
  starts it again, also where the slow period ends.
* `StampsAreGood`, `MonitorsSpec => StampedReadingsAreGood`: unless slow mode changed
  within the cycle, a reading with a new time has every bank stored since the
  snapshot, which was taken while no cell was balanced. `StampInv` says that the
  monitors discharge what they were last told, and which banks have been stored so
  far in a cycle.
* `ReadingsAreLeft`, `MonitorsSpec => []BalancingLeavesReadings`: `ReadIsDue` bounds the
  time without a reading, and what is still to pass until one is due, together. What is to
  pass follows from the counters of the session and of the pause; that a session is
  stopped when a pause is due does not make it shorter.
* `SumsAreWhole`, `Ads1115Spec => []CalibrationSumsAreWhole`: for any table of channels
  and any number of samples. `SumInv` numbers the steps of the calibration: up to the
  step that sets a channel's count, nothing is left of it, so an interrupt that comes
  in between adds nothing to the sum that is being cleared.
* `SamplesAreOwn`, `Ads1115Spec => SamplesAreTheirOwn`: `RoundInv` says what each state
  of the scan means for the converters: those before `round_idx` convert the round's
  channels, then all do for no longer than the alarm takes, then all have finished, so
  that the next round finds them free. Converters that a failure has left converting may
  keep the channel that they had (`LeftOverIsOwn`), in the first round only (`LateIsFirst`).
* `TemperaturesAreOwn`: `Ina228Inv` follows a measurement through its states and says
  which of the channel asked for, the channel converted, and the channel the result is
  taken for have to agree in each.

`Supervision_proofs` proves, for all delays:

* `SupervisionTypes`, `SupervisionSpec => []SupervisionTypeOK`, with `HungInTime`: what
  is hung when the cells have been read has not been hung for as long as the watchdog
  waits.
* `ExposureHolds`, `SupervisionSpec => []ExposureBounded`: the drivers are never
  enabled with a faulty cell for longer than `ScanStaleDrop + CellFaultDrop`. The
  combinations of faults are all allowed, and of the controller nothing is used but
  which variables its steps leave alone. The property is not inductive:
  `ExposureInv` adds that a fault is younger than the last good scan, that a violation begins with at most `ScanStaleDrop` of exposure
  and the exposure then grows with it, and what every tick that leaves the
  drivers enabled has checked. Each of the clocks is preserved by a lemma per
  action that touches it; `StepAside` covers the other actions.
* `BlindHolds`, `SupervisionSpec => []BlindBounded` where the controller does not hang
  (a hang adds its length): contactors are not driven for longer than `LongestBlind`
  while their drivers are disabled, whichever replies are lost. `BlindInv` bounds the
  blindness by what will end it: the age of the last reply that said ON, then the
  event that has been raised, then the time in FAULT.

`OpensFirst_proofs` proves `OpensFirst`, `SupervisionSpec => BmsOpensFirst`, for all
delays that fit (`DelaysFit`, for each combination of faults that is tolerated). The
supervisor disables for three reasons, and each has its invariant and its hypothesis:

* the controller is silent or has restarted (`SilenceFits`): a status that is lost is also
  a reply that does not come, so the controller gives up after `ReplyStale` and the time
  to open, which has to be less than `HeartbeatDrop`; a hang ends by the watchdog, and a
  restart begins with open contactors;
* scans stop (`ScansFit`): the reads stop with them, and the controller acts on their age,
  or the watchdog on the hang;
* a cell fault lasts (`CellsFit`): a cell out of range in every scan is so in every
  reading. A controller that restarts counts from zero; its event must be there
  before contactors can close, which is why it has to escalate within two units.

The delays of the run, which are those of `limits.h`, satisfy all three for each of the
combinations in `ToleratedFaults`. No delays satisfy them for the combinations for which the
order fails (above).

Checked by TLC only, because liveness and `ENABLED` are beyond the prover:
`ClosingEnds`, `CalibratingEnds`, `EnabledAgain`, `BlockingSendReturns`,
`SentWhileCalled`, `BalancingEnds`, `CurrentResumes`. Every other property of a passing
run is proved for all values of the constants.

## Not modelled

* The estimators, limits and charge buffers: arithmetic on readings, mostly in
  floating point, without states that other parts wait for.
* Register-level drivers, the PIO programs and the set-up of DMA and UART. The
  receiving DMA is a ring that the loop empties in time.
* The CAN frames of the inverter, the HMI's cell voltages, times and log, the CLI's
  text: formatting of the model's values. Requests that come from there are
  commands in `Bms`; writes of the HMI to request, charge and capacity are not in
  `HmiSerial`.
* USB, identification of the board, pack tables, vendored libraries.
* Checks that repeat the two cell voltage checks for other readings.

The physical behaviour of the pack, the contactors and the inverter is an
unconstrained input.

## What is left

1. The current limits and the isolation autozero as functions against reference
   definitions (rounding and saturation included).
2. `Events` in the place of the events of `Bms` and `Supervision`, and the cycle of
   `CellMonitors` in the place of the unit of `Supervision`, so that balancing
   delays the readings that `BmsOpensFirst` depends on.
3. Theorems about 1 and 2; until then `ForceOpen` connects `FaultOpens` of `Bms_proofs`
   with `OpensFirst` by its value only.
