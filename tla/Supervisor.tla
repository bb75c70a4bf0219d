------------------------------- MODULE Supervisor -------------------------------
(***************************************************************************)
(* The supervisor's decision to enable the contactor drivers:               *)
(* supervisor/supervisor_logic.c.  One action per function, and one per     *)
(* outcome of sup_logic_tick().                                             *)
(*                                                                         *)
(* The code stores when something happened and compares now - then with a   *)
(* delay; here an age counts up to the first value that no comparison can   *)
(* tell from a later one.                                                   *)
(***************************************************************************)
EXTENDS Integers

CONSTANTS
  CellFaultDrop,     \* SUPERVISOR_CELL_FAULT_DROP_MS
  ScanStaleDrop,     \* SUPERVISOR_SCAN_STALE_DROP_MS
  HeartbeatDrop,     \* SUPERVISOR_HEARTBEAT_DROP_MS
  HeartbeatEnable,   \* SUPERVISOR_HEARTBEAT_ENABLE_MS
  StaleThreshold,    \* CELL_VOLTAGE_STALE_THRESHOLD_MS
  GoodScansToEnable  \* SUPERVISOR_GOOD_SCANS_TO_ENABLE

ASSUME DelayAssumption ==
  /\ CellFaultDrop \in Nat \ {0}
  /\ ScanStaleDrop \in Nat
  /\ HeartbeatDrop \in Nat
  /\ HeartbeatEnable \in 0..HeartbeatDrop
  /\ StaleThreshold \in 0..ScanStaleDrop
  /\ GoodScansToEnable \in Nat \ {0}

VARIABLES
  sup_state,      \* state; the drivers are enabled while it is ON
  status,         \* the last status from the BMS, NoStatus before the first
  status_age,     \* since status_millis
  bms_restarted,
  scan,           \* the last scan, NoScan before the first
  scan_age,       \* since scan_millis
  good_scans,
  violating,
  violation_age   \* since violation_since

supervisorVars == << sup_state, status, status_age, bms_restarted, scan,
                     scan_age, good_scans, violating, violation_age >>

SupStates == {"OFF", "ON", "LATCHED"}

\* What the cells of a scan look like to sup_check_cells(): all present ones
\* read and in range, one out of range, or one not read.
Cells == {"good", "low", "missing"}
NoScan == "none"

\* A BMS status.  uptime goes as far as a restart can hide: a BMS that was up
\* for longer than HeartbeatDrop cannot come back with a greater uptime before
\* it counts as lost.
UptimeBound == HeartbeatDrop + 2
Status == [uptime : 0..UptimeBound,
           compatible : BOOLEAN, \* protocol version and map hash are ours
           valid : BOOLEAN,      \* SUP_BMS_FLAG_CELLS_VALID
           balancing : BOOLEAN,  \* SUP_BMS_FLAG_BALANCING
           cells : Cells]        \* what cell_min_mV and cell_max_mV show
NoStatus == [uptime |-> 0]

AtMost(n, bound) == IF n > bound THEN bound ELSE n

-------------------------------------------------------------------------------
\* sup_logic_init()
SupervisorInit ==
  /\ sup_state = "OFF"
  /\ status = NoStatus /\ status_age = HeartbeatDrop + 1
  /\ bms_restarted = FALSE
  /\ scan = NoScan /\ scan_age = ScanStaleDrop + 1
  /\ good_scans = 0
  /\ violating = FALSE /\ violation_age = 0

\* sup_logic_on_status()
OnStatus(st) ==
  /\ bms_restarted' =
       \/ bms_restarted
       \/ /\ status # NoStatus
          /\ st.uptime < status.uptime \/ status_age > HeartbeatDrop
  /\ status' = st /\ status_age' = 0
  /\ UNCHANGED << sup_state, scan, scan_age, good_scans, violating, violation_age >>

\* Fault variant: every bad scan starts the violation again.
OnScanRestartsViolation(cells) ==
  /\ scan' = cells /\ scan_age' = 0
  /\ good_scans' = IF cells = "good" THEN AtMost(good_scans + 1, GoodScansToEnable) ELSE 0
  /\ violating' = (cells # "good")
  /\ violation_age' = 0
  /\ UNCHANGED << sup_state, status, status_age, bms_restarted >>

\* sup_logic_on_scan().  good_scans saturates at 255 in the code, beyond the one
\* value it is compared with.
OnScan(cells) ==
  /\ scan' = cells /\ scan_age' = 0
  /\ good_scans' = IF cells = "good" THEN AtMost(good_scans + 1, GoodScansToEnable) ELSE 0
  /\ violating' = (cells # "good")
  /\ violation_age' = IF violating /\ cells # "good" THEN violation_age ELSE 0
  /\ UNCHANGED << sup_state, status, status_age, bms_restarted >>

\* blocking_reasons() = 0.  agree: the min and max of both sides are within
\* SUPERVISOR_BMS_AGREE_TOLERANCE_mV.
NothingBlocks(agree) ==
  /\ status # NoStatus /\ status_age <= HeartbeatEnable
  /\ status.compatible
  /\ scan = "good" /\ scan_age <= StaleThreshold
  /\ good_scans >= GoodScansToEnable
  /\ status.valid
  /\ status.balancing \/ agree

-------------------------------------------------------------------------------
(* sup_logic_tick(), one action per outcome.                                *)

\* The first block of the tick: start over from fresh scans.  With good_scans
\* at zero the scans are still settling, so that OFF does not become ON.
StartOver ==
  /\ bms_restarted
  /\ sup_state' = "OFF" /\ good_scans' = 0

Enable(agree) ==
  /\ sup_state = "OFF" /\ NothingBlocks(agree)
  /\ sup_state' = "ON" /\ UNCHANGED good_scans

StayOff(agree) ==
  /\ sup_state = "OFF" /\ ~NothingBlocks(agree)
  /\ UNCHANGED << sup_state, good_scans >>

\* Fault variant: a cell fault need not last.
CellFaultAtOnce == violating

CellFaultLasts == violating /\ violation_age >= CellFaultDrop

Latch ==
  /\ sup_state = "ON" /\ CellFaultLasts
  /\ sup_state' = "LATCHED" /\ UNCHANGED good_scans

ScansStopped ==
  /\ sup_state = "ON" /\ ~CellFaultLasts /\ scan_age > ScanStaleDrop
  /\ sup_state' = "OFF" /\ good_scans' = 0

BmsGone ==
  /\ sup_state = "ON" /\ ~CellFaultLasts /\ scan_age <= ScanStaleDrop
  /\ status_age > HeartbeatDrop
  /\ sup_state' = "OFF" /\ UNCHANGED good_scans

StayOn ==
  /\ sup_state = "ON" /\ ~CellFaultLasts /\ scan_age <= ScanStaleDrop
  /\ status_age <= HeartbeatDrop
  /\ UNCHANGED << sup_state, good_scans >>

StayLatched ==
  /\ sup_state = "LATCHED"
  /\ UNCHANGED << sup_state, good_scans >>

\* Fault variant: the restart is not forgotten once it has been acted on.
SupervisorTickKeepsRestart(agree) ==
  /\ \/ StartOver
     \/ /\ ~bms_restarted
        /\ \/ Enable(agree) \/ StayOff(agree)
           \/ Latch \/ ScansStopped \/ BmsGone \/ StayOn
           \/ StayLatched
  /\ UNCHANGED << bms_restarted, status, status_age, scan, scan_age, violating, violation_age >>

\* sup_logic_tick()
SupervisorTick(agree) ==
  /\ \/ StartOver
     \/ /\ ~bms_restarted
        /\ \/ Enable(agree) \/ StayOff(agree)
           \/ Latch \/ ScansStopped \/ BmsGone \/ StayOn
           \/ StayLatched
  /\ bms_restarted' = FALSE
  /\ UNCHANGED << status, status_age, scan, scan_age, violating, violation_age >>

-------------------------------------------------------------------------------
\* One unit of time on the supervisor's clock.
SupervisorAges ==
  /\ status_age' = AtMost(status_age + 1, HeartbeatDrop + 1)
  /\ scan_age' = AtMost(scan_age + 1, ScanStaleDrop + 1)
  /\ violation_age' = IF violating THEN AtMost(violation_age + 1, CellFaultDrop) ELSE 0
  /\ UNCHANGED << sup_state, status, bms_restarted, scan, good_scans, violating >>

\* Every variable has its type.
SupervisorTypeOK ==
  /\ sup_state \in SupStates
  /\ status \in Status \union {NoStatus}
  /\ status_age \in 0..HeartbeatDrop + 1
  /\ bms_restarted \in BOOLEAN
  /\ scan \in Cells \union {NoScan}
  /\ scan_age \in 0..ScanStaleDrop + 1
  /\ good_scans \in 0..GoodScansToEnable
  /\ violating \in BOOLEAN
  /\ violation_age \in 0..CellFaultDrop

================================================================================
