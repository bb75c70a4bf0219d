------------------------------ MODULE CellMonitors ------------------------------
(***************************************************************************)
(* drivers/bmb3y/bmb3y.c: the cycle in which the controller wakes the cell  *)
(* monitors, has them take a snapshot, sets what they discharge, reads the  *)
(* five banks of cell voltages one per tick, and reads temperatures.  The   *)
(* cycle is longer in slow mode.                                            *)
(*                                                                         *)
(* phase is (timestep() + bmb3y_timestep_offset - 5) modulo the slow        *)
(* period.  A fast cycle is a part of it, so leaving or entering slow mode  *)
(* in the middle of a cycle goes on with the step that the other period     *)
(* gives.  Every condition that the rest of the controller decides (want    *)
(* slow mode, want balancing, give up) may change in any tick.              *)
(***************************************************************************)
EXTENDS Balancing

CONSTANTS
  Period, SlowPeriod,      \* 0x3f + 1, 0x7ff + 1
  PauseCycle,              \* PAUSE_CYCLE_LENGTH
  Banks                    \* banks of cell voltages: CELL_MAP_BANKS

ASSUME CellMonitorsAssumption ==
  /\ Banks \in Nat \ {0} /\ PauseCycle \in Nat /\ PauseCycle >= Banks + 5
  /\ Period \in Nat /\ Period > PauseCycle
  /\ SlowPeriod \in Nat /\ SlowPeriod > Period /\ SlowPeriod % Period = 0

VARIABLES
  phase,
  wants_slow, stopped,     \* should_use_slow_mode(), should_stop()
  slow_mode,               \* cell_voltage_slow_mode
  balancing_active, crc_failed,
  modules_counted,         \* cell_modules_ok_count >= 0, cell_read_from_bank_a
  read_from_a, ids_read,   \* module_ids_millis # 0
  discharging,             \* cells the monitors have been told to discharge
  quiet,                   \* whether none was when the snapshot was taken
  stored,                  \* the banks stored of this snapshot, by all modules
  unstamped,               \* history: ticks since cell_voltages_millis was set,
                           \*   as long as nothing but balancing hinders it
  switched,                \* history: wants_slow has changed since the snapshot
  bus                      \* the bank read in this tick, or None

monitorOwn == << slow_mode, balancing_active, crc_failed, modules_counted, read_from_a,
                 ids_read, discharging, quiet, stored >>
conditions == << wants_slow, stopped >>
monitorVars == << phase, conditions, monitorOwn, unstamped, switched, bus, balancingVars >>

AllBanks == 0 .. (Banks - 1)
None == -1

\* The longest time between full reads while cells are balanced: what is left of the
\* cycle in which a session starts, PauseAfter more of them, one in which no cell is
\* chosen, and the next up to its read.  A pause makes the last but one shorter; to stop
\* when a pause is due does not.
LongestUnstamped == (PauseAfter + 2) * Period - 1

\* At boot the cycle is at rest.
MonitorsInit ==
  /\ BalancingInit
  /\ phase = SlowPeriod - 1
  /\ wants_slow = FALSE /\ stopped = FALSE /\ slow_mode = FALSE
  /\ balancing_active = FALSE /\ crc_failed = FALSE
  /\ modules_counted = FALSE /\ read_from_a = FALSE /\ ids_read = FALSE
  /\ discharging = {} /\ quiet = TRUE /\ stored = {}
  /\ unstamped = 0 /\ switched = FALSE /\ bus = None

Mask(wants) == IF wants THEN SlowPeriod ELSE Period

\* The step of this tick, which the tick's own decision about slow mode gives.
Step == phase % Mask(wants_slow')

Hello == Step = 0 /\ UNCHANGED << monitorOwn, balancingVars >>

Snapshot ==
  /\ Step = 1
  /\ balancing_active' = (balance_request # {})
  /\ quiet' = (discharging = {}) /\ stored' = {}
  /\ UNCHANGED << crc_failed, modules_counted, read_from_a, ids_read, discharging, balancingVars >>

\* balancing_sm_tick and bmb3y_send_balancing_blocking; conditions for balancing are
\* never good in slow mode.
Balance ==
  /\ Step = 2
  /\ \E good \in BOOLEAN : BalancingTick(good /\ ~slow_mode')
  /\ discharging' = balance_request'
  /\ crc_failed' = FALSE
  /\ UNCHANGED << balancing_active, modules_counted, read_from_a, ids_read, quiet, stored >>

\* A bank is read: well, with CRC errors in some modules, or not at all.
ReadBank(outcome) ==
  LET bank == Step - 3 IN
  /\ bank \in AllBanks
  /\ bus' = bank
  /\ crc_failed' = (crc_failed \/ outcome # "good")
  /\ stored' = IF outcome = "good" /\ ~balancing_active THEN stored \union {bank} ELSE stored
  /\ read_from_a' = (read_from_a \/ (bank = 0 /\ outcome # "failed"))
  /\ modules_counted' =
       (modules_counted \/ (bank = Banks - 1 /\ outcome # "failed" /\ read_from_a'))
  /\ UNCHANGED << balancing_active, ids_read, discharging, quiet, balancingVars >>

\* Fault variant: readings made while cells are balanced are stamped as well.
StampsDespiteBalancing == Step = Banks + 2 /\ ~crc_failed'

\* All banks have been read and cell_voltages_millis is set.
Stamps == Step = Banks + 2 /\ ~crc_failed' /\ ~balancing_active

ReadTemperatures == Step = Banks + 3 /\ UNCHANGED << monitorOwn, balancingVars >>

EndSlowMode ==
  /\ Step = Banks + 4
  /\ UNCHANGED << balancing_active, crc_failed, modules_counted, read_from_a, ids_read,
                  discharging, quiet, stored, balancingVars >>

\* The bus is free: module IDs are read once all modules have had a full read.
Rest ==
  /\ Step >= PauseCycle
  /\ ids_read' = (ids_read \/ modules_counted)
  /\ UNCHANGED << balancing_active, crc_failed, modules_counted, read_from_a, discharging,
                  quiet, stored, balancingVars >>

\* Fault variant: it is cut short before its reads are over.
CutsShortEarly == Step = Banks /\ is_pause_cycle

\* A pause cycle is cut short; where in the slow period that leads depends on the
\* time since boot.
CutsShort == Step = PauseCycle /\ is_pause_cycle

NextPhase ==
  IF CutsShort
    THEN phase' \in (IF wants_slow' THEN {0} ELSE {p \in 0 .. (SlowPeriod - 1) : p % Period = 0})
    ELSE phase' = (phase + 1) % SlowPeriod

\* Slow mode is entered at once, and left after a full read of every cell.
SlowMode ==
  slow_mode' =
    IF wants_slow' THEN TRUE
    ELSE slow_mode /\ ~(Step = Banks + 4 /\ ~crc_failed /\ ~balancing_active)

Counted(n) == IF n <= LongestUnstamped THEN n + 1 ELSE n

\* The history of a tick with an outcome of its read, if it has one.
Histories ==
  /\ switched' = (wants_slow' # wants_slow \/ (switched /\ Step # 1))
  /\ unstamped' = IF Stamps \/ slow_mode' \/ crc_failed' \/ switched' THEN 0
                  ELSE Counted(unstamped)

CycleStep ==
  \/ bus' = None /\ (Hello \/ Snapshot \/ Balance \/ ReadTemperatures \/ EndSlowMode \/ Rest)
  \/ \E outcome \in {"good", "crc", "failed"} : ReadBank(outcome)

\* bmb3y_tick.  Once the pack has been found too low, the monitors are left alone
\* for good, as they are.
Tick ==
  /\ ~stopped
  /\ stopped' = FALSE /\ wants_slow' \in BOOLEAN
  /\ SlowMode
  /\ CycleStep
  /\ NextPhase
  /\ Histories

StoppedTick ==
  /\ stopped' = TRUE
  /\ UNCHANGED << phase, wants_slow, monitorOwn, unstamped, switched, bus, balancingVars >>

MonitorsNext == Tick \/ StoppedTick

MonitorsSpec == MonitorsInit /\ [][MonitorsNext]_monitorVars /\ WF_monitorVars(Tick)
-----------------------------------------------------------------------------
\* The reads on the bus are those of a cycle: a snapshot and its banks in order, none
\* twice and none left out, unless slow mode comes or goes, whatever is read well or
\* badly and wherever a pause cycle cuts the period short.
Cycle == INSTANCE ReadCycle WITH
  ReadBanks <- Banks, reading <- bus, jumped <- switched,
  place <- LET step == phase % Mask(wants_slow) IN
           IF step = 2 THEN 0 ELSE IF step - 3 \in AllBanks THEN step - 3 ELSE Banks
ReadsInCycles == Cycle!CycleSpec

\* A full read is stamped only if every bank was stored since the snapshot, and the
\* snapshot was taken while no cell was discharging: the shared mask, the flag that
\* remembers it and what the monitors do are three things.  Leaving slow mode within
\* a cycle is excepted: it goes on with whatever step the short period gives.
StampedReadingsAreGood ==
  [][(Tick /\ Stamps /\ ~switched') => (stored' = AllBanks /\ quiet)]_monitorVars

\* Balancing keeps readings from being stored, but never for longer than until the
\* cycle after the one in which a pause is due, whether there is a pause or the session
\* is stopped just then.
BalancingLeavesReadings == unstamped <= LongestUnstamped

\* A session ends, whatever times it began with and whichever cells have to wait
\* for a neighbour, unless the wish for slow mode comes and goes for ever.
BalancingEnds ==
  (<>[]wants_slow \/ <>[]~wants_slow) =>
    ((balancing_state = "ACTIVE") ~> (balancing_state = "IDLE" \/ stopped))
===============================================================================
