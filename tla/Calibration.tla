------------------------------ MODULE Calibration ------------------------------
(***************************************************************************)
(* The calibration state machine, calibration_sm_tick() in                  *)
(* bms/app/calibration/calibration.c: one action per case of its switch.    *)
(* Whether the ADC has collected its samples (finished) and whether the     *)
(* calibrate_...() functions accept them (ok) are inputs of the tick.       *)
(***************************************************************************)
EXTENDS Naturals

CONSTANTS
  WaitTimeout, \* the contactors have this long to reach the state waited for (10 s)
  Stabilize    \* settling time before measuring (2 s)

VARIABLES
  calibration_state,       \* calibration_sm.state
  calibration_elapsed,     \* time since its last transition, up to its deadline
  calibration_req,         \* model.calibration_req, a single slot
  initial_contactor_state, \* calibration_sm.initial_contactor_state
  stored,                  \* this tick called nvm_save_persistent_slow()
  contactor_req,           \* request slot of the contactor machine
  contactor_state          \* read only here

calibrationVars == << calibration_state, calibration_elapsed, calibration_req,
                      initial_contactor_state, stored, contactor_req >>

WaitStates == {"LONG_WAIT_BOTH", "SHORT_WAIT_OPEN", "SHORT_WAIT_NEG"}
StabilizingStates == {"LONG_STABILIZING", "SHORT_STABILIZING_OPEN",
                      "SHORT_STABILIZING_NEG", "ONLINE_STABILIZING"}
MeasuringStates == {"LONG_MEASURING", "SHORT_MEASURING_OPEN",
                    "SHORT_MEASURING_NEG", "ONLINE_MEASURING"}
CalibrationStates == {"IDLE"} \union WaitStates \union StabilizingStates
                       \union MeasuringStates
CalibrationRequests == {"NULL", "OFFLINE_LONG", "OFFLINE_SHORT", "ONLINE"}

Init ==
  /\ calibration_state = "IDLE"
  /\ calibration_elapsed = 0
  /\ calibration_req = "NULL"
  /\ initial_contactor_state = "OPEN"
  /\ stored = FALSE

CalibrationDeadline(s) ==
  CASE s \in WaitStates -> WaitTimeout
    [] s \in StabilizingStates -> Stabilize
    [] OTHER -> 0

CalibrationAge ==
  IF calibration_elapsed < CalibrationDeadline(calibration_state)
  THEN calibration_elapsed + 1 ELSE calibration_elapsed

Transition(s) == calibration_state' = s /\ calibration_elapsed' = 0
Remain == UNCHANGED << calibration_state, calibration_elapsed >>
Timeout(t) == calibration_elapsed >= t

\* A START request in IDLE.  The long one asks for the contactors again, after
\* the system machine has; the others need them open, or open or closed.
Idle ==
  /\ calibration_state = "IDLE"
  /\ calibration_req' = "NULL"
  /\ stored' = FALSE
  /\ \/ /\ calibration_req = "OFFLINE_LONG"
        /\ contactor_req' = "CALIBRATE"
        /\ Transition("LONG_WAIT_BOTH")
        /\ UNCHANGED initial_contactor_state
     \/ /\ calibration_req = "OFFLINE_SHORT" /\ contactor_state = "OPEN"
        /\ Transition("SHORT_WAIT_OPEN")
        /\ UNCHANGED << initial_contactor_state, contactor_req >>
     \/ /\ calibration_req = "ONLINE" /\ contactor_state \in {"OPEN", "CLOSED"}
        /\ initial_contactor_state' = contactor_state
        /\ Transition("ONLINE_STABILIZING")
        /\ UNCHANGED contactor_req
     \/ /\ \/ calibration_req = "NULL"
           \/ calibration_req = "OFFLINE_SHORT" /\ contactor_state # "OPEN"
           \/ calibration_req = "ONLINE" /\ contactor_state \notin {"OPEN", "CLOSED"}
        /\ Remain
        /\ UNCHANGED << initial_contactor_state, contactor_req >>

\* Wait in state s until the contactors are in state until.
WaitFor(s, until, next) ==
  /\ calibration_state = s
  /\ \/ contactor_state = until /\ Transition(next)
     \/ contactor_state # until /\ Timeout(WaitTimeout) /\ Transition("IDLE")
     \/ contactor_state # until /\ ~Timeout(WaitTimeout) /\ Remain
  /\ stored' = FALSE
  /\ UNCHANGED << calibration_req, initial_contactor_state, contactor_req >>

Stabilizing(s, next) ==
  /\ calibration_state = s
  /\ IF Timeout(Stabilize) THEN Transition(next) ELSE Remain
  /\ stored' = FALSE
  /\ UNCHANGED << calibration_req, initial_contactor_state, contactor_req >>

\* The last measurement of an offline sequence.
OfflineMeasuring(s, finished, ok) ==
  /\ calibration_state = s
  /\ IF finished THEN Transition("IDLE") ELSE Remain
  /\ stored' = (finished /\ ok)
  /\ UNCHANGED << calibration_req, initial_contactor_state, contactor_req >>

\* The first half of the short sequence goes on to the negative contactor.
ShortMeasuringOpen(finished, ok) ==
  /\ calibration_state = "SHORT_MEASURING_OPEN"
  /\ IF finished THEN Transition(IF ok THEN "SHORT_WAIT_NEG" ELSE "IDLE") ELSE Remain
  /\ contactor_req' = IF finished /\ ok THEN "CALIBRATE_ONLY_NEG" ELSE contactor_req
  /\ stored' = FALSE
  /\ UNCHANGED << calibration_req, initial_contactor_state >>

\* The only measurement that looks at the contactors again.
OnlineMeasuring(finished, ok) ==
  /\ calibration_state = "ONLINE_MEASURING"
  /\ IF contactor_state # initial_contactor_state \/ finished
     THEN Transition("IDLE") ELSE Remain
  /\ stored' = (contactor_state = initial_contactor_state /\ finished /\ ok)
  /\ UNCHANGED << calibration_req, initial_contactor_state, contactor_req >>

\* calibration_sm_tick()
CalibrationTick(finished, ok) ==
  \/ Idle
  \/ WaitFor("LONG_WAIT_BOTH", "CALIBRATING_CLOSED", "LONG_STABILIZING")
  \/ WaitFor("SHORT_WAIT_OPEN", "OPEN", "SHORT_STABILIZING_OPEN")
  \/ WaitFor("SHORT_WAIT_NEG", "CALIBRATING_ONLY_NEG", "SHORT_STABILIZING_NEG")
  \/ Stabilizing("LONG_STABILIZING", "LONG_MEASURING")
  \/ Stabilizing("SHORT_STABILIZING_OPEN", "SHORT_MEASURING_OPEN")
  \/ Stabilizing("SHORT_STABILIZING_NEG", "SHORT_MEASURING_NEG")
  \/ Stabilizing("ONLINE_STABILIZING", "ONLINE_MEASURING")
  \/ OfflineMeasuring("LONG_MEASURING", finished, ok)
  \/ OfflineMeasuring("SHORT_MEASURING_NEG", finished, ok)
  \/ ShortMeasuringOpen(finished, ok)
  \/ OnlineMeasuring(finished, ok)

================================================================================
