---------------------------------- MODULE Bms ----------------------------------
(***************************************************************************)
(* The control loop of the battery controller: bms_tick() in               *)
(* bms/app/bms.c reads its inputs, lets events escalate, runs the system,   *)
(* contactor and calibration machines in that order, saves what is due and  *)
(* lets time pass.  phase is the part of the tick that runs next, so every  *)
(* handler sees what the ones before it wrote in the same tick and what the *)
(* ones after it wrote in the tick before.                                  *)
(*                                                                         *)
(* A reset can come between any two phases; what survives it is the         *)
(* operating flag last saved to flash.                                      *)
(***************************************************************************)
EXTENDS Contactors

CONSTANTS
  InitTime, CalibrationTimeout, FaultHorizon, \* of SystemSM
  WaitTimeout, Stabilize,                     \* of Calibration
  UserRequests, \* the requests the CLI and the HMI may write
  FlashResults  \* what nvm_save() and nvm_load() may return

VARIABLES
  phase,                   \* the part of bms_tick that runs next
  supervisor_enabled,      \* supervisor_contactors_enabled(), as of this tick
  fatal,                   \* some event is FATAL
  system_state, system_elapsed, system_req, operating, save,
  isolation_zero_pending,
  calibration_state, calibration_elapsed, calibration_req,
  initial_contactor_state, stored,
  saved_operating          \* the operating flag in flash

S == INSTANCE SystemSM
K == INSTANCE Calibration

ASSUME RequestAssumption == UserRequests \subseteq S!SystemRequests

ASSUME LoopTimeAssumption ==
  /\ InitTime \in Nat /\ CalibrationTimeout \in Nat /\ FaultHorizon \in Nat
  /\ WaitTimeout \in Nat /\ Stabilize \in Nat

ASSUME FlashAssumption == FlashResults \subseteq BOOLEAN

vars == << contactorVars, phase, supervisor_enabled, fatal, system_state,
           system_elapsed, system_req, operating, save, isolation_zero_pending,
           calibration_state, calibration_elapsed, calibration_req,
           initial_contactor_state, stored, saved_operating >>

\* The variables each machine owns, besides the request slots they share.
contactorOwn == << contactor_state, contactor_elapsed, enable_current, coils,
                   critical, closing_failures, current >>
systemOwn == << system_state, system_elapsed, system_req, operating, save,
                isolation_zero_pending >>
calibrationOwn == << calibration_state, calibration_elapsed,
                     initial_contactor_state, stored >>
loopOwn == << supervisor_enabled, fatal, saved_operating >>

Phases == {"read", "command", "events", "system", "contactors", "calibration",
           "nvm", "time"}

Goto(from, to) == phase = from /\ phase' = to

-------------------------------------------------------------------------------
(* init_model(): the machines start over, and a saved operating flag asks   *)
(* the system to run again.                                                 *)
BmsInit ==
  /\ Init
  /\ S!Init
  /\ K!Init
  /\ phase = "read"
  /\ supervisor_enabled = FALSE
  /\ fatal = FALSE
  /\ saved_operating \in BOOLEAN
  /\ operating = saved_operating
  /\ system_req = IF saved_operating THEN "RUN" ELSE "NULL"

\* read_inputs() and internal_serial's replies: a current reading, whether the
\* supervisor enables the drivers, and the isolation zero if one is pending.
ReadInputs ==
  /\ Goto("read", "command")
  /\ current' \in Currents \union {Stale}
  /\ supervisor_enabled' \in BOOLEAN
  /\ isolation_zero_pending' = FALSE
  /\ UNCHANGED << contactor_state, contactor_elapsed, enable_current, coils, critical,
                  closing_failures, contactor_req, system_state,
                  system_elapsed, system_req, operating, save, calibrationOwn,
                  calibration_req, fatal, saved_operating >>

\* cli_handle_command() and the HMI's write of HMI_REG_SYSTEM_REQUEST, which
\* overwrite whatever request is still waiting, or write none.
Command ==
  /\ Goto("command", "events")
  /\ system_req' \in UserRequests \union {system_req}
  /\ UNCHANGED << contactorOwn, contactor_req, system_state, system_elapsed,
                  operating, save, isolation_zero_pending, calibrationOwn,
                  calibration_req, loopOwn >>

\* Fault variant: escalating also starts the count of failed closings again.
EventsForgetCount(other) ==
  /\ Goto("events", "system")
  /\ fatal' = (fatal \/ critical # {} \/ closing_failures = ClosingLeeway \/ other)
  /\ critical' = {} /\ closing_failures' = 0
  /\ UNCHANGED << contactor_state, contactor_elapsed, enable_current, coils, current,
                  contactor_req, systemOwn, calibrationOwn, calibration_req,
                  supervisor_enabled, saved_operating >>

\* events_tick(): the zero-leeway events of the contactors become FATAL, as
\* does any of the events the safety checks raise; no FATAL event is cleared.
Events(other) ==
  /\ Goto("events", "system")
  /\ fatal' = (fatal \/ critical # {} \/ closing_failures = ClosingLeeway \/ other)
  /\ critical' = {}
  /\ UNCHANGED << contactor_state, contactor_elapsed, enable_current, coils,
                  closing_failures, current, contactor_req, systemOwn,
                  calibrationOwn, calibration_req, supervisor_enabled, saved_operating >>

SystemPhase ==
  /\ Goto("system", "contactors")
  /\ \E initialized \in BOOLEAN : S!SystemTick(initialized)
  /\ UNCHANGED << contactorOwn, calibrationOwn, loopOwn >>

ContactorPhase ==
  /\ Goto("contactors", "calibration")
  /\ ContactorTick(supervisor_enabled)
  /\ UNCHANGED << systemOwn, calibrationOwn, calibration_req, loopOwn >>

CalibrationPhase ==
  /\ Goto("calibration", "nvm")
  /\ \E finished, ok \in BOOLEAN : K!CalibrationTick(finished, ok)
  /\ UNCHANGED << contactorOwn, systemOwn, loopOwn >>

\* nvm_tick(): a scheduled save is made in the next tick, and another one every
\* five minutes, whose moment is left open.  A save that fails is not repeated.
NvmTick(periodic, succeeds) ==
  /\ Goto("nvm", "time")
  /\ save' = IF save = "scheduled" THEN "due" ELSE "none"
  /\ saved_operating' = IF succeeds /\ (save = "due" \/ (periodic /\ save = "none"))
                        THEN operating ELSE saved_operating
  /\ UNCHANGED << contactorOwn, contactor_req, system_state, system_elapsed,
                  system_req, operating, isolation_zero_pending, calibrationOwn,
                  calibration_req, supervisor_enabled, fatal >>

\* synchronize_time()
TimePasses ==
  /\ Goto("time", "read")
  /\ contactor_elapsed' = ContactorAge
  /\ system_elapsed' = S!SystemAge
  /\ calibration_elapsed' = K!CalibrationAge
  /\ UNCHANGED << contactor_state, enable_current, coils, critical, closing_failures,
                  current, contactor_req, system_state, system_req,
                  operating, save, isolation_zero_pending, calibration_state,
                  initial_contactor_state, stored, calibration_req, loopOwn >>

\* A watchdog reset or a power cycle, at any point of the tick.  Without data
\* loaded from flash the model starts from zero.
PowerCycle(loaded) ==
  /\ Reboot
  /\ phase' = "read"
  /\ supervisor_enabled' = FALSE
  /\ fatal' = FALSE
  /\ system_state' = "UNINITIALIZED" /\ system_elapsed' = 0
  /\ isolation_zero_pending' = FALSE
  /\ save' = "none"
  /\ calibration_state' = "IDLE" /\ calibration_elapsed' = 0
  /\ calibration_req' = "NULL"
  /\ initial_contactor_state' = "OPEN"
  /\ stored' = FALSE
  /\ operating' = (loaded /\ saved_operating)
  /\ system_req' = IF loaded /\ saved_operating THEN "RUN" ELSE "NULL"
  /\ UNCHANGED saved_operating

BmsTick ==
  \/ ReadInputs
  \/ Command
  \/ \E other \in BOOLEAN : Events(other)
  \/ SystemPhase
  \/ ContactorPhase
  \/ CalibrationPhase
  \/ \E periodic \in BOOLEAN, succeeds \in FlashResults : NvmTick(periodic, succeeds)
  \/ TimePasses

BmsNext ==
  \/ BmsTick
  \/ \E loaded \in FlashResults : PowerCycle(loaded)

BmsSpec == BmsInit /\ [][BmsNext]_vars

\* main() calls bms_tick() for ever.
FairBmsSpec == BmsSpec /\ WF_vars(BmsTick)

-------------------------------------------------------------------------------
(* Correctness.                                                             *)

\* "If the current hasn't fallen below the threshold after two seconds, the
\* contactors open anyway" (README, Response time): whatever the contactors were
\* doing when the system faulted, and whatever the calibration still asks of
\* them, no coil is energized once FAULT has lasted FaultHorizon.
FaultOpensInTime ==
  system_state = "FAULT" /\ system_elapsed >= FaultHorizon => coils = Off

\* read_inputs() takes "the reading with the pack floating" (system.c): an
\* isolation zero granted in one tick is measured in the next one with no
\* contactor closed, whichever request the contactors took in between.
IsolationZeroTakenFloating ==
  isolation_zero_pending /\ phase = "read" => coils = Off

\* "Inactive (contactors open)" (bmb3y.c): nothing makes the contactors leave
\* OPEN while the system is inactive.
InactiveStaysOpen ==
  [][ contactor_state = "OPEN" /\ contactor_state' # "OPEN"
        => system_state # "INACTIVE" ]_vars

\* The battery voltage and the current offset of the short calibration are
\* measured with every contactor open, also when users and supervisor change
\* their minds on the way.
ShortMeasuresOpen ==
  calibration_state = "SHORT_MEASURING_OPEN" => coils = Off

\* "Calibration (requires contactors to be closed)" (contactors.c): what the
\* long calibration stores has been measured with the contactors closed.
LongStoresClosed ==
  [][ stored' /\ ~stored /\ calibration_state = "LONG_MEASURING"
        => contactor_state = "CALIBRATING_CLOSED" ]_vars

\* "React to open requests immediately" (contactors.c): after a stop no closing
\* sequence is carried through to its end.
StoppedNeverCloses ==
  [][ contactor_state = "PRECHARGING" /\ contactor_state' = "CLOSED"
        => system_state = "OPERATING" ]_vars

\* Flash follows the decision to operate: unless a save is still outstanding,
\* the flag in it is the one in RAM, however many decisions came in between
\* and wherever a reset struck.
SavedUnlessOutstanding ==
  save = "none" => saved_operating = operating

\* A FATAL event needs "manual intervention to reset" (README, Events): once
\* the faulted system has nothing left to save, the next boot does not operate.
FatalIsNotResumed ==
  phase = "read" /\ fatal /\ system_state = "FAULT" /\ save = "none"
    => ~saved_operating

\* The composition drives the contactors only as their own specification allows,
\* so what holds of module Contactors holds of the battery controller.
ContactorSpec == Spec

\* Calibrating always ends, finished or given up, so the user is never locked
\* out of the requests that only INACTIVE accepts.
CalibratingEnds ==
  system_state = "CALIBRATING" ~> system_state # "CALIBRATING"

================================================================================
