------------------------------- MODULE SystemSM -------------------------------
(***************************************************************************)
(* The system state machine, system_sm_tick() in                           *)
(* bms/app/state_machines/system.c: one action per case of its switch and  *)
(* per request the case accepts.  It reads the contactor and calibration   *)
(* machines and writes their request slots; module Bms composes the three. *)
(***************************************************************************)
EXTENDS Naturals

CONSTANTS
  InitTime,           \* INITIALIZING lasts this long (10 s)
  CalibrationTimeout, \* CALIBRATING for this long is a fault (120 s)
  FaultHorizon        \* the age of FAULT is told apart up to here (model bound)

VARIABLES
  system_state,           \* system_sm.state
  system_elapsed,         \* time since its last transition, up to its deadline
  system_req,             \* model.system_req, a single slot
  operating,              \* model.operating, one of the persistent_fast data
  save,                   \* where nvm_fast_saved_timestep stands: "scheduled" by
                          \* this tick, "due" in nvm_tick, or "none"
  isolation_zero_pending, \* model.isolation_zero_cal_pending
  contactor_req,          \* request slot of the contactor machine
  calibration_req,        \* request slot of the calibration machine
  contactor_state,        \* read only here
  calibration_state,      \* read only here
  fatal                   \* get_highest_event_level() == LEVEL_FATAL, read only

systemVars == << system_state, system_elapsed, system_req, operating, save,
                 isolation_zero_pending, contactor_req, calibration_req >>

SystemStates == {"UNINITIALIZED", "INITIALIZING", "CALIBRATING", "INACTIVE",
                 "OPERATING", "FAULT"}
SystemRequests == {"NULL", "RUN", "STOP", "CALIBRATE_OFFLINE_LONG",
                   "CALIBRATE_OFFLINE_SHORT", "CALIBRATE_ONLINE",
                   "CALIBRATE_ISOLATION_ZERO"}
SaveStates == {"none", "scheduled", "due"}

Init ==
  /\ system_state = "UNINITIALIZED"
  /\ system_elapsed = 0
  /\ isolation_zero_pending = FALSE
  /\ save = "none"

Transition(s) == system_state' = s /\ system_elapsed' = 0
Remain == UNCHANGED << system_state, system_elapsed >>
Timeout(t) == system_elapsed >= t

SystemDeadline(s) ==
  CASE s = "INITIALIZING" -> InitTime
    [] s = "CALIBRATING" -> CalibrationTimeout
    [] s = "FAULT" -> FaultHorizon
    [] OTHER -> 0

SystemAge ==
  IF system_elapsed < SystemDeadline(system_state) THEN system_elapsed + 1 ELSE system_elapsed

\* A fatal event takes every state but FAULT to FAULT before the switch.
Faults == fatal /\ system_state # "FAULT"

In(s) == system_state = s /\ ~Faults

\* Fault variant: granted without a look at the contactors.
IsolationZeroUnchecked ==
  isolation_zero_pending' =
    (isolation_zero_pending \/ (system_req = "CALIBRATE_ISOLATION_ZERO" /\ In("INACTIVE")))

\* The isolation zero request is taken off the slot in any state, and heeded
\* only while inactive with the contactors open.
IsolationZeroRequest ==
  isolation_zero_pending' =
    (\/ isolation_zero_pending
     \/ /\ system_req = "CALIBRATE_ISOLATION_ZERO"
        /\ In("INACTIVE")
        /\ contactor_state = "OPEN")

Take(request) == system_req = request /\ system_req' = "NULL"
TakeNone(accepted) ==
  /\ system_req \notin accepted
  /\ system_req' = IF system_req = "CALIBRATE_ISOLATION_ZERO" THEN "NULL" ELSE system_req

\* Fault variant: the flag changes and no save is scheduled.
SetOperatingInRam(value) == operating' = value /\ UNCHANGED save

\* nvm_schedule_save_persistent_fast(), with the flag it is called for.
SetOperating(value) == operating' = value /\ save' = "scheduled"

\* (It goes on in the FAULT case of the same tick.)
EnterFault ==
  /\ Faults
  /\ Transition("FAULT")
  /\ SetOperating(FALSE)
  /\ contactor_req' = "FORCE_OPEN"
  /\ TakeNone({})
  /\ UNCHANGED calibration_req

Uninitialized ==
  /\ In("UNINITIALIZED")
  /\ Transition("INITIALIZING")
  /\ TakeNone({})
  /\ UNCHANGED << operating, save, contactor_req, calibration_req >>

\* initialized: successfully_initialized()
Initializing(initialized) ==
  /\ In("INITIALIZING")
  /\ IF Timeout(InitTime)
     THEN Transition(IF initialized THEN "INACTIVE" ELSE "FAULT") ELSE Remain
  /\ TakeNone({})
  /\ UNCHANGED << operating, save, contactor_req, calibration_req >>

\* Fault variants: the contactors keep the request of the calibration that ended,
\* and one that never ends is waited for.
CalibratingLeavesRequest ==
  /\ In("CALIBRATING")
  /\ IF calibration_state = "IDLE" THEN Transition("INACTIVE")
     ELSE IF Timeout(CalibrationTimeout) THEN Transition("FAULT") ELSE Remain
  /\ TakeNone({})
  /\ UNCHANGED << contactor_req, operating, save, calibration_req >>
CalibratingWithoutTimeout ==
  /\ In("CALIBRATING")
  /\ IF calibration_state = "IDLE"
     THEN contactor_req' = "OPEN" /\ Transition("INACTIVE")
     ELSE UNCHANGED contactor_req /\ Remain
  /\ TakeNone({})
  /\ UNCHANGED << operating, save, calibration_req >>

Calibrating ==
  /\ In("CALIBRATING")
  /\ IF calibration_state = "IDLE"
     THEN contactor_req' = "OPEN" /\ Transition("INACTIVE")
     ELSE /\ UNCHANGED contactor_req
          /\ IF Timeout(CalibrationTimeout) THEN Transition("FAULT") ELSE Remain
  /\ TakeNone({})
  /\ UNCHANGED << operating, save, calibration_req >>

InactiveRequests == {"RUN", "CALIBRATE_OFFLINE_LONG", "CALIBRATE_OFFLINE_SHORT",
                     "CALIBRATE_ONLINE"}

Inactive ==
  /\ In("INACTIVE")
  /\ \/ /\ Take("RUN")
        /\ SetOperating(TRUE)
        /\ Transition("OPERATING")
        /\ UNCHANGED << contactor_req, calibration_req >>
     \/ /\ Take("CALIBRATE_OFFLINE_LONG")
        /\ contactor_req' = "CALIBRATE"
        /\ calibration_req' = "OFFLINE_LONG"
        /\ Transition("CALIBRATING")
        /\ UNCHANGED << operating, save >>
     \/ /\ Take("CALIBRATE_OFFLINE_SHORT")
        /\ calibration_req' = "OFFLINE_SHORT"
        /\ Transition("CALIBRATING")
        /\ UNCHANGED << operating, save, contactor_req >>
     \/ /\ Take("CALIBRATE_ONLINE")
        /\ calibration_req' = "ONLINE"
        /\ Remain
        /\ UNCHANGED << operating, save, contactor_req >>
     \/ /\ TakeNone(InactiveRequests)
        /\ Remain
        /\ UNCHANGED << operating, save, contactor_req, calibration_req >>

\* "Keep trying to close": the request is written anew in every tick.
Operating ==
  /\ In("OPERATING")
  /\ \/ /\ Take("STOP")
        /\ contactor_req' = "OPEN"
        /\ SetOperating(FALSE)
        /\ Transition("INACTIVE")
        /\ UNCHANGED calibration_req
     \/ /\ Take("CALIBRATE_ONLINE")
        /\ contactor_req' = "CLOSE"
        /\ calibration_req' = "ONLINE"
        /\ Remain
        /\ UNCHANGED << operating, save >>
     \/ /\ TakeNone({"STOP", "CALIBRATE_ONLINE"})
        /\ contactor_req' = "CLOSE"
        /\ Remain
        /\ UNCHANGED << operating, save, calibration_req >>

\* Fault variant: the opening is requested once, on entering FAULT.
FaultRequestsOnce ==
  /\ In("FAULT")
  /\ TakeNone({})
  /\ Remain
  /\ UNCHANGED << contactor_req, operating, save, calibration_req >>

Fault ==
  /\ In("FAULT")
  /\ contactor_req' = "FORCE_OPEN"
  /\ TakeNone({})
  /\ Remain
  /\ UNCHANGED << operating, save, calibration_req >>

\* system_sm_tick()
SystemTick(initialized) ==
  /\ IsolationZeroRequest
  /\ \/ EnterFault
     \/ Uninitialized
     \/ Initializing(initialized)
     \/ Calibrating
     \/ Inactive
     \/ Operating
     \/ Fault

===============================================================================
