------------------------------- MODULE Supervision ------------------------------
(***************************************************************************)
(* The supervisor, the battery controller it watches and the link between   *)
(* them: two processors that see the same cells and must time out in the    *)
(* right order.  Supervisor is the supervisor's side; this module adds its  *)
(* main loop, the internal serial link, and of the battery controller what  *)
(* the supervisor depends on: the cell readings, the two events about them, *)
(* the contactors those events open, and resets and hangs.                  *)
(*                                                                         *)
(* A unit of time is a cycle of the cell monitors, in which both loops run  *)
(* many times.  phase is the part of the unit that comes next: the cells    *)
(* are read (and snooped), the controller acts on the reading and sends its *)
(* status, the supervisor polls both and decides.                           *)
(*                                                                         *)
(* faults are the kinds of fault that happen in a behaviour until it has    *)
(* settled: cells that get low or go missing, hangs and resets of the       *)
(* controller, frames lost on the link, bank reads with CRC errors.         *)
(***************************************************************************)
EXTENDS Supervisor

CONSTANTS
  FaultSets,         \* the combinations of kinds of fault to look at
  Tolerated,         \* those in which the controller opens before the supervisor
  Escalation,        \* CELL_VOLTAGE_FAULT_ESCALATION_MS, ..._STALE_...
  ForceOpen,         \* CONTACTORS_FORCE_OPEN_TIMEOUT_MS
  Watchdog,          \* BMS_WATCHDOG_TIMEOUT_MS
  ReplyStale         \* SUPERVISOR_REPLY_STALE_MS

ASSUME SupervisionAssumption ==
  /\ FaultSets \subseteq SUBSET {"low", "missing", "hang", "reset", "link", "crc"}
  /\ Tolerated \subseteq FaultSets
  /\ Escalation \in Nat \ {0} /\ ForceOpen \in Nat
  /\ Watchdog \in Nat \ {0} /\ ReplyStale \in Nat

VARIABLES
  phase,                    \* the part of the unit that comes next
  cells,                    \* as they are
  faults,                   \* the kinds of fault of this behaviour, and whether
  settled,                  \*   they are over
  snooped,                  \* the scan cell_snoop has completed, or NoScan
  status_wire, reply_wire,  \* the frame on its way or in the receiver's ring
  got_status,               \* of the supervisor's loop
  mode, hang_age, uptime,   \* of the battery controller
  reading, reading_age,     \* cell_voltage_min/max_mV, cell_voltage_millis
  low, stale,               \* CELL_VOLTAGE_VERY_LOW, CELL_VOLTAGES_STALE
  cut,                      \* SUPERVISOR_DISABLED_CONTACTORS
  faulted, fault_elapsed,   \* FAULT, and since when
  contactors,               \* whether the contactors are driven
  reply, reply_age,         \* supervisor.state, supervisor_millis
  exposure,                 \* history: how long the drivers have been enabled
                            \*   with a faulty cell
  blind                     \* history: how long contactors have been driven
                            \*   whose drivers are disabled

world == << cells, faults, settled >>
frames == << status_wire, reply_wire >>
running == << mode, hang_age, uptime >>
readings == << reading, reading_age >>
control == << low, stale, cut, faulted, fault_elapsed, contactors, reply, reply_age >>
bms == << running, readings, control >>
history == << exposure, blind >>
supervisionVars ==
  << supervisorVars, phase, world, snooped, frames, got_status, bms, history >>

\* The longest time that the supervisor leaves the drivers enabled with a faulty
\* cell: a scan may come when the last one is about to be too old, and the cell
\* fault has to last.
LongestExposure == ScanStaleDrop + CellFaultDrop

\* The longest time that the controller drives contactors whose drivers are
\* disabled: the last reply gets stale, the event about it is FATAL in the next
\* round, and the current may not fall.
LongestBlind == ReplyStale + ForceOpen + 2

\* A kind of fault that may happen now.
May(kind) == kind \in faults /\ ~settled

NoFrame == "none"
NoReading == "none"
Phases == {"cells", "bms", "snoop", "serial", "decide", "time"}
Goto(from, to) == phase = from /\ phase' = to

-------------------------------------------------------------------------------
(* Events (sys/events/events.c) of level CRITICAL with a leeway.            *)

Event == [level : {"NONE", "CRITICAL", "FATAL"}, accumulator : 0..Escalation]
NoEvent == [level |-> "NONE", accumulator |-> 0]

\* confirm(): raise the event unless the check succeeds, then clear it; a FATAL
\* one stays.
Confirm(event, success) ==
  IF event.level = "FATAL" THEN event
  ELSE [event EXCEPT !.level = IF success THEN "NONE" ELSE "CRITICAL"]

\* events_tick(), a unit of time after the one before.  An event that has just
\* been raised has not lasted yet.
EventTick(before, event) ==
  LET accumulated == event.accumulator + (IF before.level = "CRITICAL" THEN 1 ELSE 0)
  IN CASE event.level = "FATAL" -> event
       [] event.level = "CRITICAL" ->
            [level |-> IF accumulated >= Escalation THEN "FATAL" ELSE "CRITICAL",
             accumulator |-> AtMost(accumulated, Escalation)]
       [] OTHER -> [event EXCEPT !.accumulator = IF @ = 0 THEN 0 ELSE @ - 1]

-------------------------------------------------------------------------------
(* The battery controller.                                                  *)

Fresh == reading # NoReading /\ reading_age <= StaleThreshold

\* Fault variant: a reply counts for ever.
ContactorsEnabledOnce == reply = "ON"

\* supervisor_contactors_enabled()
ContactorsEnabled == reply = "ON" /\ reply_age <= ReplyStale

\* should_stop(): no more reads once CELL_VOLTAGE_VERY_LOW is FATAL.
Stopped == low.level = "FATAL"

\* The controller's view of the cells: model_process_cell_voltages() skips a
\* cell that reads -1, as a channel without a cell does.
Seen(c) == IF c = "missing" THEN "good" ELSE c

\* One cycle of bmb3y_tick() whose five banks pass their CRCs, which the
\* supervisor snoops as a complete scan.
ReadCells ==
  /\ Goto("cells", "bms")
  /\ mode = "up" /\ ~Stopped
  /\ snooped' = cells
  /\ reading' = Seen(cells) /\ reading_age' = 0
  /\ UNCHANGED << supervisorVars, world, frames, got_status, running, control,
                  history >>

\* A cycle with a CRC error: the supervisor drops the scan, the controller keeps
\* the readings of the modules that were good, but not as a new reading.
ReadCellsPartly ==
  /\ Goto("cells", "bms")
  /\ May("crc") /\ mode = "up" /\ ~Stopped
  /\ reading' \in {reading} \union (IF reading = NoReading THEN {} ELSE {Seen(cells)})
  /\ UNCHANGED << supervisorVars, world, snooped, frames, got_status, running,
                  reading_age, control, history >>

\* Fault variant: nothing ends a hang.
ReadNothingUnwatched ==
  /\ Goto("cells", "bms")
  /\ CASE mode = "up" -> Stopped
       [] mode = "hung" -> TRUE
       [] mode = "down" -> uptime = 0
  /\ UNCHANGED << supervisorVars, world, snooped, frames, got_status, bms, history >>

\* No cycle, from a controller that does not run or has stopped reading.  The
\* watchdog ends a hang, and a boot takes one unit.
ReadNothing ==
  /\ Goto("cells", "bms")
  /\ CASE mode = "up" -> Stopped
       [] mode = "hung" -> hang_age < Watchdog
       [] mode = "down" -> uptime = 0
  /\ UNCHANGED << supervisorVars, world, snooped, frames, got_status, bms, history >>

\* What the state machines may do to the contactors in a unit: close them while
\* operating with the supervisor's consent, open them at any time, and after a
\* fault open them when the current has fallen or ForceOpen has passed.
ContactorChoices(fault, enabled) ==
  {c \in {"OPEN", "CLOSED"} :
     /\ c = "CLOSED" /\ contactors = "OPEN" => ~fault /\ enabled /\ reading # NoReading
     /\ c = "CLOSED" /\ fault => fault_elapsed < ForceOpen}

\* send_status().  Both processors are built for the same pack, and do not
\* balance here.
StatusToSend ==
  [uptime |-> uptime, compatible |-> TRUE, valid |-> Fresh, balancing |-> FALSE,
   cells |-> IF reading = NoReading THEN "low" ELSE reading]

\* bms_tick() from the safety checks on: confirm_battery_safety(), events_tick(),
\* the state machines, then the reply that waits and a status to the supervisor.
\* The time of a reply is when it is received.
BmsLoop ==
  /\ Goto("bms", "snoop")
  /\ mode = "up"
  /\ hang_age' = 0
  /\ low' = EventTick(low, IF Fresh THEN Confirm(low, reading # "low") ELSE low)
  /\ stale' = EventTick(stale, IF reading = NoReading THEN stale ELSE Confirm(stale, Fresh))
  /\ faulted' = (faulted \/ cut \/ low'.level = "FATAL" \/ stale'.level = "FATAL")
  /\ contactors' \in ContactorChoices(faulted', ContactorsEnabled)
  /\ cut' = (contactors = "CLOSED" /\ ~ContactorsEnabled)
  /\ IF reply_wire = NoFrame
     THEN UNCHANGED << reply, reply_age >>
     ELSE reply' = reply_wire /\ reply_age' = 0
  /\ reply_wire' = NoFrame
  /\ status_wire' = StatusToSend
  /\ UNCHANGED << supervisorVars, world, snooped, got_status, mode, uptime, readings,
                  fault_elapsed, history >>

BmsIdle ==
  /\ Goto("bms", "snoop")
  /\ mode # "up"
  /\ UNCHANGED << supervisorVars, world, snooped, frames, got_status, bms, history >>

\* The controller stops running its loop, for a while or until the watchdog,
\* which the loop feeds, resets it.
Hang ==
  /\ phase = "cells" /\ May("hang") /\ mode = "up"
  /\ mode' = "hung"
  /\ UNCHANGED << supervisorVars, phase, world, snooped, frames, got_status,
                  hang_age, uptime, readings, control, history >>

Resume ==
  /\ phase = "cells" /\ mode = "hung" /\ hang_age < Watchdog
  /\ mode' = "up"
  /\ UNCHANGED << supervisorVars, phase, world, snooped, frames, got_status,
                  hang_age, uptime, readings, control, history >>

\* A reset opens the contactors and empties the receiver.
BmsReset ==
  /\ phase = "cells"
  /\ May("reset") \/ (mode = "hung" /\ hang_age >= Watchdog)
  /\ mode' = "down" /\ hang_age' = 0 /\ uptime' = 0
  /\ reading' = NoReading /\ reading_age' = 0
  /\ low' = NoEvent /\ stale' = NoEvent /\ cut' = FALSE
  /\ faulted' = FALSE /\ fault_elapsed' = 0
  /\ contactors' = "OPEN"
  /\ reply' = "OFF" /\ reply_age' = ReplyStale + 1
  /\ reply_wire' = NoFrame
  /\ UNCHANGED << supervisorVars, phase, world, snooped, status_wire, got_status,
                  history >>

Boot ==
  /\ phase = "cells" /\ mode = "down" /\ uptime > 0
  /\ mode' = "up"
  /\ UNCHANGED << supervisorVars, phase, world, snooped, frames, got_status,
                  hang_age, uptime, readings, control, history >>

-------------------------------------------------------------------------------
(* The supervisor's main loop.                                              *)

\* poll_snoop()
PollSnoop ==
  /\ Goto("snoop", "serial")
  /\ IF snooped = NoScan THEN UNCHANGED supervisorVars ELSE OnScan(snooped)
  /\ snooped' = NoScan
  /\ UNCHANGED << world, frames, got_status, bms, history >>

\* poll_internal_serial()
PollSerial ==
  /\ Goto("serial", "decide")
  /\ IF status_wire = NoStatus THEN UNCHANGED supervisorVars ELSE OnStatus(status_wire)
  /\ got_status' = (status_wire # NoStatus)
  /\ status_wire' = NoStatus
  /\ UNCHANGED << world, snooped, reply_wire, bms, history >>

\* Whether both sides agree on the cells, given that the last scan is good.
Agreements == IF status # NoStatus /\ status.cells = "good" THEN {TRUE} ELSE BOOLEAN

\* The tick that follows the polls, CTR_EN, and the reply to a status.
Decide ==
  /\ Goto("decide", "time")
  /\ \E agree \in Agreements : SupervisorTick(agree)
  /\ reply_wire' = IF got_status THEN sup_state' ELSE reply_wire
  /\ got_status' = FALSE
  /\ UNCHANGED << world, snooped, status_wire, bms, history >>

-------------------------------------------------------------------------------
(* The rest of the world.                                                   *)

LoseStatus ==
  /\ phase = "serial" /\ May("link") /\ status_wire # NoStatus
  /\ status_wire' = NoStatus
  /\ UNCHANGED << supervisorVars, phase, world, snooped, reply_wire, got_status, bms,
                  history >>

LoseReply ==
  /\ phase = "time" /\ May("link") /\ reply_wire # NoFrame
  /\ reply_wire' = NoFrame
  /\ UNCHANGED << supervisorVars, phase, world, snooped, status_wire, got_status, bms,
                  history >>

CellsFail ==
  /\ phase = "cells" /\ cells = "good"
  /\ \E kind \in {"low", "missing"} : May(kind) /\ cells' = kind
  /\ UNCHANGED << supervisorVars, phase, faults, settled, snooped, frames, got_status,
                  bms, history >>

CellsRecover ==
  /\ phase = "cells" /\ cells # "good"
  /\ cells' = "good" /\ exposure' = 0
  /\ UNCHANGED << supervisorVars, phase, faults, settled, snooped, frames, got_status,
                  bms, blind >>

Settle ==
  /\ phase = "cells" /\ ~settled /\ cells = "good"
  /\ settled' = TRUE
  /\ UNCHANGED << supervisorVars, phase, cells, faults, snooped, frames, got_status, bms,
                  history >>

Time ==
  /\ Goto("time", "cells")
  /\ SupervisorAges
  /\ uptime' = AtMost(uptime + 1, UptimeBound)
  /\ hang_age' = IF mode = "hung" THEN hang_age + 1 ELSE 0
  /\ reading_age' = IF reading = NoReading THEN 0 ELSE AtMost(reading_age + 1, StaleThreshold + 1)
  /\ fault_elapsed' = IF faulted THEN AtMost(fault_elapsed + 1, ForceOpen) ELSE 0
  /\ reply_age' = AtMost(reply_age + 1, ReplyStale + 1)
  /\ exposure' = IF sup_state = "ON" /\ cells # "good"
                  THEN AtMost(exposure + 1, LongestExposure + 1) ELSE 0
  /\ blind' = IF sup_state # "ON" /\ contactors = "CLOSED"
               THEN AtMost(blind + 1, LongestBlind + 1) ELSE 0
  /\ UNCHANGED << world, snooped, frames, got_status, mode, reading, low,
                  stale, cut, faulted, contactors, reply >>

-------------------------------------------------------------------------------
SupervisionInit ==
  /\ SupervisorInit
  /\ phase = "cells"
  /\ mode = "down" /\ hang_age = 0 /\ uptime = 0
  /\ reading = NoReading /\ reading_age = 0
  /\ low = NoEvent /\ stale = NoEvent /\ cut = FALSE
  /\ faulted = FALSE /\ fault_elapsed = 0
  /\ contactors = "OPEN"
  /\ reply = "OFF" /\ reply_age = ReplyStale + 1
  /\ reply_wire = NoFrame /\ status_wire = NoStatus /\ snooped = NoScan
  /\ got_status = FALSE
  /\ cells = "good"
  /\ faults \in FaultSets /\ settled = FALSE
  /\ exposure = 0 /\ blind = 0

\* What goes on by itself, and what only a fault brings.
Run == \/ ReadCells \/ ReadNothing \/ BmsLoop \/ BmsIdle \/ Boot
       \/ PollSnoop \/ PollSerial \/ Decide \/ Time

Fault == \/ ReadCellsPartly \/ Hang \/ Resume \/ BmsReset
              \/ LoseStatus \/ LoseReply \/ CellsFail \/ CellsRecover \/ Settle

SupervisionNext == Run \/ Fault

SupervisionSpec == SupervisionInit /\ [][SupervisionNext]_supervisionVars

\* Both main loops run for ever, time passes, and the watchdog resets.
FairSupervisionSpec ==
  /\ SupervisionSpec
  /\ WF_supervisionVars(Run)
  /\ WF_supervisionVars(BmsReset /\ hang_age >= Watchdog)

-------------------------------------------------------------------------------
(* Correctness.                                                             *)

\* Every variable has its type.
SupervisionTypeOK ==
  /\ SupervisorTypeOK
  /\ phase \in Phases
  /\ cells \in Cells
  /\ faults \in FaultSets /\ settled \in BOOLEAN
  /\ exposure \in 0..LongestExposure + 1 /\ blind \in 0..LongestBlind + 1
  /\ snooped \in Cells \union {NoScan}
  /\ status_wire \in Status \union {NoStatus}
  /\ reply_wire \in SupStates \union {NoFrame}
  /\ got_status \in BOOLEAN
  /\ mode \in {"up", "hung", "down"}
  /\ hang_age \in 0..Watchdog
  /\ uptime \in 0..UptimeBound
  /\ reading \in Cells \union {NoReading}
  /\ reading_age \in 0..StaleThreshold + 1
  /\ low \in Event /\ stale \in Event
  /\ cut \in BOOLEAN /\ faulted \in BOOLEAN
  /\ fault_elapsed \in 0..ForceOpen
  /\ contactors \in {"OPEN", "CLOSED"}
  /\ reply \in SupStates
  /\ reply_age \in 0..ReplyStale + 1

\* "The doubled delays mean the BMS always gets to open the contactors first"
\* (README, Supervisor): in every combination of faults of Tolerated the
\* supervisor's decision disables the drivers only when the battery controller
\* does not drive the contactors any more.
BmsOpensFirst ==
  [][ sup_state = "ON" /\ sup_state' # "ON" /\ faults \in Tolerated
        => contactors = "OPEN" ]_supervisionVars

\* "a populated cell stays out of range or unread for twice as long as the BMS
\* takes to open the contactors itself", "the scans stop" (README, Supervisor):
\* whatever fails, the drivers are not enabled for longer than these two delays
\* while a cell is faulty.
ExposureBounded == exposure <= LongestExposure

\* supervisor_contactors_enabled() and SUPERVISOR_DISABLED_CONTACTORS: the
\* controller does not drive contactors for long that the supervisor does not
\* enable, although every reply that says so may be lost.  (A hang adds its length.)
BlindBounded == blind <= LongestBlind

\* "It re-enables once fresh scans check out again" (README, Supervisor): when
\* the faults are over the supervisor enables the drivers, unless it has latched
\* or the cells have been so low that they are not read any more.
EnabledAgain == settled ~> sup_state \in {"ON", "LATCHED"} \/ Stopped

\* "This latches until the BMS restarts" (supervisor_logic.h): the supervisor
\* does not leave LATCHED while the controller still has the FATAL event about
\* its cells, which only a restart ends.
LatchedUntilRestart ==
  [][ sup_state = "LATCHED" /\ sup_state' # "LATCHED"
        => low.level # "FATAL" ]_supervisionVars

================================================================================
