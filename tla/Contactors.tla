------------------------------ MODULE Contactors ------------------------------
(***************************************************************************)
(* The contactor state machine, contactor_sm_tick() in                     *)
(* bms/app/state_machines/contactors.c, and the coil driver under it,      *)
(* bms/drivers/contactors/contactors.c.  One action per state of the       *)
(* machine, each a whole tick: the supervisor check before the switch, the *)
(* immediate reaction to an open request and the case of the switch.       *)
(*                                                                         *)
(* Requests and current readings come from the rest of the firmware: this  *)
(* module lets any request arrive at any moment, module Bms composes it    *)
(* with the machines that really write them.                               *)
(***************************************************************************)
EXTENDS Naturals

CONSTANTS
  PrechargeOnNegative, \* the PRECHARGE_ON_NEGATIVE build option
  FcPosContactor,      \* the BMS_FC_POS_CONTACTOR build option
  Currents,            \* the magnitudes, in mA, that the current sensor reads
  Stale,               \* no current reading for CURRENT_STALE_THRESHOLD_MS
  EnableDelay,         \* CLOSED: current is allowed after this (500 ms)
  Settle,              \* CLOSED: unexpected opening is looked for after this (2 s)
  InitDelay,           \* PRECHARGING_INIT lasts this long (500 ms)
  PrechargeMin,        \* PRECHARGING lasts at least this long (1 s)
  PrechargeTimeout,    \* and fails after this (10 s)
  TestWait,            \* CONTACTORS_TEST_WAIT_MS (1 s)
  FailedTestWait,      \* CONTACTORS_FAILED_TEST_TIMEOUT_MS (20 s)
  FailedPrechargeWait, \* CONTACTORS_FAILED_PRECHARGE_TIMEOUT_MS (20 s)
  OpenHold,            \* CONTACTORS_REQUESTED_OPEN_HOLD_MS (8 s)
  OpenTimeout,         \* CONTACTORS_OPEN_TIMEOUT_MS (30 s)
  ForceOpenTimeout,    \* CONTACTORS_FORCE_OPEN_TIMEOUT_MS (2 s)
  ClosingLeeway        \* occurrences of CONTACTOR_CLOSING_FAILED that are FATAL (20)

\* The driver does not compile with the second option alone.
ASSUME OptionAssumption ==
  /\ PrechargeOnNegative \in BOOLEAN /\ FcPosContactor \in BOOLEAN
  /\ FcPosContactor => PrechargeOnNegative

ASSUME CurrentAssumption == Currents \subseteq Nat /\ Stale \notin Nat

ASSUME TimeAssumption ==
  /\ EnableDelay \in Nat /\ Settle \in Nat /\ EnableDelay <= Settle
  /\ InitDelay \in Nat /\ TestWait \in Nat
  /\ FailedTestWait \in Nat /\ FailedPrechargeWait \in Nat
  /\ PrechargeMin \in Nat /\ PrechargeTimeout \in Nat
  /\ PrechargeMin <= PrechargeTimeout
  /\ OpenHold \in Nat /\ ForceOpenTimeout \in Nat /\ OpenTimeout \in Nat
  /\ OpenHold <= OpenTimeout /\ ForceOpenTimeout <= OpenTimeout
  /\ ClosingLeeway \in Nat \ {0}

VARIABLES
  contactor_state,    \* contactor_sm.state
  contactor_elapsed,  \* time since its last transition, up to Deadline(state)
  contactor_req,      \* model.contactor_req, a single slot
  enable_current,     \* contactor_sm.enable_current
  coils,              \* the coils the driver energizes
  critical,           \* zero-leeway CRITICAL events raised and not yet FATAL
  closing_failures,   \* occurrences of CONTACTOR_CLOSING_FAILED, up to its leeway
  current             \* |model.current_mA| or Stale

contactorVars == << contactor_state, contactor_elapsed, contactor_req,
                    enable_current, coils, critical, closing_failures,
                    current >>

-------------------------------------------------------------------------------
(* States, requests and events.                                            *)

TestingStates == {"TESTING_PRE_CLOSED", "TESTING_NEG_OPEN", "TESTING_NEG_CLOSED",
                  "TESTING_POS_OPEN", "TESTING_POS_CLOSED"}
PrechargingStates == {"PRECHARGING_INIT", "PRECHARGING"}
CalibratingStates == {"CALIBRATING", "CALIBRATING_PRECHARGE_INIT",
                      "CALIBRATING_PRECHARGE", "CALIBRATING_CLOSED",
                      "CALIBRATING_ONLY_NEG_INIT", "CALIBRATING_ONLY_NEG"}
FailedStates == {"PRECHARGE_FAILED", "TESTING_FAILED"}
ContactorStates == {"OPEN", "CLOSED", "AWAITING_OPEN"} \union TestingStates
                     \union PrechargingStates \union CalibratingStates
                     \union FailedStates

ClosingRequests == {"CLOSE", "CALIBRATE", "CALIBRATE_ONLY_NEG"}
OpeningRequests == {"OPEN", "FORCE_OPEN"}
ContactorRequests == {"NULL"} \union ClosingRequests \union OpeningRequests

\* The events contactor_sm_tick raises that are CRITICAL with no leeway: each
\* is FATAL at the next events_tick unless it has been cleared by then.
ContactorEvents == {"POS_STUCK_CLOSED", "NEG_STUCK_CLOSED", "PRE_STUCK_OPEN",
                    "PRE_STUCK_CLOSED", "PRECHARGE_VOLTAGE_TOO_HIGH",
                    "PRECHARGE_CURRENT_TOO_HIGH", "SUPERVISOR_DISABLED_CONTACTORS"}

\* contactors_driven()
Driven(s) == s \notin {"OPEN"} \union FailedStates

\* Fault variant: the early reaction also lists CLOSED.
AbortableWithClosed == TestingStates \union PrechargingStates \union CalibratingStates
                         \union {"CLOSED"}

\* The states an open request aborts before the switch.
Abortable == (TestingStates \ {"TESTING_PRE_CLOSED"}) \union PrechargingStates
               \union CalibratingStates

\* The longest time state s compares its age with: time is not told apart
\* beyond it.
Deadline(s) ==
  CASE s = "CLOSED" -> Settle
    [] s = "AWAITING_OPEN" -> OpenTimeout
    [] s = "PRECHARGING_INIT" -> InitDelay
    [] s = "PRECHARGING" -> PrechargeTimeout
    [] s = "TESTING_FAILED" -> FailedTestWait
    [] s = "PRECHARGE_FAILED" -> FailedPrechargeWait
    [] s \in {"OPEN", "CALIBRATING_CLOSED", "CALIBRATING_ONLY_NEG"} -> 0
    [] OTHER -> TestWait

-------------------------------------------------------------------------------
(* The coil driver.  "pre" is the coil of the contactor that bypasses the   *)
(* precharge resistor, so precharging is pos and neg without pre.  "fc_pos" *)
(* is the FC+ coil of the builds that drive it, which "follows Link+        *)
(* exactly": it switches in the same call as pos.                           *)

PosCoils == IF FcPosContactor THEN {"pos", "fc_pos"} ELSE {"pos"}
Coils == PosCoils \union {"pre", "neg"}
Off == {}
AllClosed == Coils
PrechargePath == PosCoils \union {"neg"}

\* set_with_pwm() on every pin, FC+ with pos.
WithFcPos(driven) == driven \union (IF "pos" \in driven THEN PosCoils ELSE {})

\* Fault variants: the resistor's bypass driven as if it were a precharge relay,
\* and the main beside it not switched on for a precharge.
SetPosPreNegNotInverted(request) ==
  LET beside == IF PrechargeOnNegative THEN "neg" ELSE "pos"
  IN  WithFcPos(request \union (IF "pre" \in request THEN {beside} ELSE {}))
SetPosPreNegWithoutMain(request) ==
  LET beside == IF PrechargeOnNegative THEN "neg" ELSE "pos"
  IN  WithFcPos((request \ {"pre"})
        \union (IF beside \in request /\ "pre" \notin request THEN {"pre"} ELSE {}))

\* contactors_set_pos_pre_neg(): the main contactor next to the resistor is
\* also on for a precharge, and the bypass is on with it otherwise.
SetPosPreNeg(request) ==
  LET beside == IF PrechargeOnNegative THEN "neg" ELSE "pos"
      other  == IF PrechargeOnNegative THEN "pos" ELSE "neg"
  IN  WithFcPos((request \intersect {other})
        \union (IF request \intersect {beside, "pre"} # {} THEN {beside} ELSE {})
        \union (IF beside \in request /\ "pre" \notin request THEN {"pre"} ELSE {}))

\* The main contactor a precharge closes first, the one away from the resistor,
\* and the coils that are on for it.
FirstMain == IF PrechargeOnNegative THEN {"pos"} ELSE {"neg"}
FirstCoils == IF PrechargeOnNegative THEN PosCoils ELSE {"neg"}

\* check_current_is_below(): a stale reading is never below.
CurrentIsBelow(threshold) == current # Stale /\ current <= threshold

-------------------------------------------------------------------------------
(* Parts every tick is made of.                                             *)

\* confirm(): raises the event or clears it.
Confirm(events, success, event) ==
  IF success THEN events \ {event} ELSE events \union {event}

\* The supervisor check before the switch.
Supervised(enabled) ==
  IF Driven(contactor_state)
  THEN Confirm(critical, enabled, "SUPERVISOR_DISABLED_CONTACTORS")
  ELSE critical

Transition(s) == contactor_state' = s /\ contactor_elapsed' = 0
\* Fault variant: staying in a state starts its time again.
RemainAndRestart == UNCHANGED contactor_state /\ contactor_elapsed' = 0

Remain == UNCHANGED << contactor_state, contactor_elapsed >>
Timeout(t) == contactor_elapsed >= t

OpenRequested == contactor_req \in OpeningRequests
Aborts == OpenRequested /\ contactor_state \in Abortable

\* The tick runs the switch case of state s, with no current allowed.
In(s) ==
  /\ contactor_state = s
  /\ ~Aborts
  /\ enable_current' = FALSE
  /\ UNCHANGED current

\* Fault variants: no occurrence is counted, or one too many.
CountNothing == UNCHANGED closing_failures
CountPastLeeway == closing_failures' = closing_failures + 1

\* count_bms_event(ERR_CONTACTOR_CLOSING_FAILED)
CountClosingFailed ==
  closing_failures' = IF closing_failures < ClosingLeeway
                      THEN closing_failures + 1 ELSE closing_failures

Init ==
  /\ contactor_state = "OPEN"
  /\ contactor_elapsed = 0
  /\ contactor_req = "NULL"
  /\ enable_current = FALSE
  /\ coils = Off
  /\ critical = {}
  /\ closing_failures = 0
  /\ current = Stale

-------------------------------------------------------------------------------
(* contactor_sm_tick(), one action per case of its switch.  enabled is      *)
(* supervisor_contactors_enabled(); the other parameters are what the       *)
(* confirm_...() and check_...() functions find in the voltage readings,    *)
(* a stale reading failing the check as it does there.                      *)

\* "React to open requests immediately": the tick goes on in the OPEN case
\* with the request cleared.
AbortToOpen(enabled) ==
  /\ Aborts
  /\ contactor_req' = "NULL"
  /\ Transition("OPEN")
  /\ coils' = SetPosPreNeg({})
  /\ enable_current' = FALSE
  /\ critical' = Supervised(enabled)
  /\ UNCHANGED << closing_failures, current >>

\* A closing request waits, uncleared, for the supervisor.
HeldBySupervisor(enabled) == contactor_req \in ClosingRequests /\ ~enabled

AfterOpen(request) ==
  CASE request = "CLOSE" -> "TESTING_PRE_CLOSED"
    [] request = "CALIBRATE" -> "CALIBRATING"
    [] request = "CALIBRATE_ONLY_NEG" -> "CALIBRATING_ONLY_NEG_INIT"

Open(enabled) ==
  /\ In("OPEN")
  /\ coils' = SetPosPreNeg({})
  /\ IF HeldBySupervisor(enabled)
     THEN UNCHANGED contactor_req /\ Remain
     ELSE /\ contactor_req' = "NULL"
          /\ IF contactor_req \in ClosingRequests
             THEN Transition(AfterOpen(contactor_req)) ELSE Remain
  /\ UNCHANGED << critical, closing_failures >>

TryToOpen(staying) == OpenRequested \/ (Timeout(Settle) /\ ~staying)

\* staying: confirm_contactors_staying_closed()
Closed(enabled, staying) ==
  /\ contactor_state = "CLOSED"
  /\ coils' = SetPosPreNeg({"pos", "neg"})
  /\ critical' = Supervised(enabled)
  /\ enable_current' = (Timeout(EnableDelay) /\ ~TryToOpen(staying))
  /\ IF TryToOpen(staying)
     THEN Transition("AWAITING_OPEN") /\ UNCHANGED contactor_req
     ELSE /\ contactor_req' = IF contactor_req = "CLOSE" THEN "NULL" ELSE contactor_req
          /\ Remain
  /\ UNCHANGED << closing_failures, current >>

\* holding_for_inverter
HoldingForInverter == contactor_req = "OPEN" /\ ~Timeout(OpenHold)

MayOpenNow ==
  \/ CurrentIsBelow(1000) /\ ~HoldingForInverter
  \/ CurrentIsBelow(5000) /\ Timeout(OpenTimeout)
  \/ contactor_req = "FORCE_OPEN" /\ (CurrentIsBelow(1000) \/ Timeout(ForceOpenTimeout))

AwaitingOpen(enabled) ==
  /\ In("AWAITING_OPEN")
  /\ coils' = SetPosPreNeg({"pos", "neg"})
  /\ critical' = Supervised(enabled)
  /\ IF MayOpenNow
     THEN contactor_req' = "NULL" /\ Transition("OPEN")
     ELSE UNCHANGED contactor_req /\ Remain
  /\ UNCHANGED closing_failures

\* contactors_test_pre(): the bypass on its own, FC+ off with the others.
TestingPreClosed(enabled, aux_closed) ==
  /\ In("TESTING_PRE_CLOSED")
  /\ coils' = {"pre"}
  /\ IF Timeout(TestWait)
     THEN /\ critical' = Confirm(Supervised(enabled), aux_closed, "PRE_STUCK_OPEN")
          /\ Transition(IF aux_closed THEN "TESTING_NEG_OPEN" ELSE "TESTING_FAILED")
     ELSE critical' = Supervised(enabled) /\ Remain
  /\ UNCHANGED << contactor_req, closing_failures >>

\* The weld test in state s: with both contactors open, energized is
\* output_energized_externally(); pos_open and neg_open what the two
\* "seems open" checks find, both of them always made.
WeldTest(s, next, enabled, energized, pos_open, neg_open) ==
  /\ In(s)
  /\ coils' = SetPosPreNeg({})
  /\ \/ ~Timeout(TestWait) /\ Remain
        /\ critical' = Supervised(enabled)
        /\ UNCHANGED closing_failures
     \/ Timeout(TestWait) /\ energized
        /\ Transition("PRECHARGING_INIT")
        /\ critical' = Supervised(enabled)
        /\ UNCHANGED closing_failures
     \/ Timeout(TestWait) /\ ~energized
        /\ critical' = Confirm(Confirm(Supervised(enabled), pos_open, "POS_STUCK_CLOSED"),
                               neg_open, "NEG_STUCK_CLOSED")
        /\ IF pos_open /\ neg_open
           THEN Transition(next) /\ UNCHANGED closing_failures
           ELSE Transition("TESTING_FAILED") /\ CountClosingFailed
  /\ UNCHANGED contactor_req

\* Closing one main contactor on its own in state s and looking across it.
CloseTest(s, request, next, enabled, seems_closed) ==
  /\ In(s)
  /\ coils' = SetPosPreNeg(request)
  /\ critical' = Supervised(enabled)
  /\ IF Timeout(TestWait)
     THEN IF seems_closed
          THEN Transition(next) /\ UNCHANGED closing_failures
          ELSE Transition("TESTING_FAILED") /\ CountClosingFailed
     ELSE Remain /\ UNCHANGED closing_failures
  /\ UNCHANGED contactor_req

\* Fault variant: the test asks for the main contactor only.
NegOnly == {"neg"}

\* TESTING_NEG_CLOSED and TESTING_POS_CLOSED also ask for the precharge when
\* the main is the one beside the resistor, which keeps the bypass off.
NegAlone == IF PrechargeOnNegative THEN {"pre", "neg"} ELSE {"neg"}
PosAlone == IF PrechargeOnNegative THEN {"pos"} ELSE {"pos", "pre"}

Failed(s, wait) ==
  /\ In(s)
  /\ coils' = SetPosPreNeg({})
  /\ IF Timeout(wait) THEN Transition("OPEN") ELSE Remain
  /\ UNCHANGED << contactor_req, critical, closing_failures >>

PrechargingInit(enabled, aux_closed) ==
  /\ In("PRECHARGING_INIT")
  /\ coils' = SetPosPreNeg(FirstMain)
  /\ critical' = Confirm(Supervised(enabled), ~aux_closed, "PRE_STUCK_CLOSED")
  /\ \/ aux_closed /\ Transition("PRECHARGE_FAILED")
     \/ ~aux_closed /\ Timeout(InitDelay) /\ Transition("PRECHARGING")
     \/ ~aux_closed /\ ~Timeout(InitDelay) /\ Remain
  /\ UNCHANGED << contactor_req, closing_failures >>

\* The first check of check_precharge_successful() that fails, by the event
\* it logs.  Two kinds log no zero-leeway event: those made before the output
\* reading is confirmed ("unread") and those made after it ("open").
PrechargeResults == {"success", "unread", "unread_output", "open", "current", "voltage"}

LogPrecharge(events, result) ==
  CASE result = "unread" -> events
    [] result = "unread_output" -> events \union {"PRECHARGE_VOLTAGE_TOO_HIGH"}
    [] result = "open" -> events \ {"PRECHARGE_VOLTAGE_TOO_HIGH"}
    [] result = "current" -> (events \ {"PRECHARGE_VOLTAGE_TOO_HIGH"})
                               \union {"PRECHARGE_CURRENT_TOO_HIGH"}
    [] OTHER -> (events \ {"PRECHARGE_CURRENT_TOO_HIGH"})
                  \union {"PRECHARGE_VOLTAGE_TOO_HIGH"}

\* (The case's own reaction to an open request is never reached: AbortToOpen.)
Precharging(enabled, result) ==
  /\ In("PRECHARGING")
  /\ coils' = SetPosPreNeg(FirstMain \union {"pre"})
  /\ \/ /\ Timeout(PrechargeMin) /\ result = "success"
        /\ Transition("CLOSED")
        /\ critical' = Supervised(enabled)
        /\ UNCHANGED closing_failures
     \/ /\ Timeout(PrechargeTimeout) /\ result # "success"
        /\ Transition("PRECHARGE_FAILED")
        /\ critical' = LogPrecharge(Supervised(enabled), result)
        /\ CountClosingFailed
     \/ /\ ~Timeout(PrechargeTimeout) /\ ~(Timeout(PrechargeMin) /\ result = "success")
        /\ Remain
        /\ critical' = Supervised(enabled)
        /\ UNCHANGED closing_failures
  /\ UNCHANGED contactor_req

\* A calibrating state that only waits, with some coils on.
CalibratingWait(s, request, next, enabled) ==
  /\ In(s)
  /\ coils' = SetPosPreNeg(request)
  /\ critical' = Supervised(enabled)
  /\ IF Timeout(TestWait) THEN Transition(next) ELSE Remain
  /\ UNCHANGED << contactor_req, closing_failures >>

CalibratingPrecharge(enabled) ==
  /\ In("CALIBRATING_PRECHARGE")
  /\ coils' = SetPosPreNeg(FirstMain \union {"pre"})
  /\ critical' = Supervised(enabled)
  /\ IF Timeout(TestWait)
     THEN Transition(IF CurrentIsBelow(200) THEN "CALIBRATING_CLOSED" ELSE "OPEN")
     ELSE Remain
  /\ UNCHANGED << contactor_req, closing_failures >>

\* A calibrating state held for as long as (almost) no current flows.
CalibratingHold(s, request, enabled) ==
  /\ In(s)
  /\ coils' = SetPosPreNeg(request)
  /\ critical' = Supervised(enabled)
  /\ IF CurrentIsBelow(200) THEN Remain ELSE Transition("OPEN")
  /\ UNCHANGED << contactor_req, closing_failures >>

\* Only the PRECHARGE_ON_NEGATIVE build does anything here but move on.
CalibratingOnlyNegInit(enabled) ==
  /\ In("CALIBRATING_ONLY_NEG_INIT")
  /\ coils' = IF PrechargeOnNegative THEN SetPosPreNeg({"pre", "neg"}) ELSE coils
  /\ critical' = Supervised(enabled)
  /\ IF PrechargeOnNegative => Timeout(TestWait)
     THEN Transition("CALIBRATING_ONLY_NEG") ELSE Remain
  /\ UNCHANGED << contactor_req, closing_failures >>

TestingTick(enabled) ==
  \/ \E aux_closed \in BOOLEAN : TestingPreClosed(enabled, aux_closed)
  \/ \E energized, pos_open, neg_open \in BOOLEAN :
       \/ WeldTest("TESTING_NEG_OPEN", "TESTING_NEG_CLOSED",
                   enabled, energized, pos_open, neg_open)
       \/ WeldTest("TESTING_POS_OPEN", "TESTING_POS_CLOSED",
                   enabled, energized, pos_open, neg_open)
  \/ \E seems_closed \in BOOLEAN :
       \/ CloseTest("TESTING_NEG_CLOSED", NegAlone, "TESTING_POS_OPEN", enabled, seems_closed)
       \/ CloseTest("TESTING_POS_CLOSED", PosAlone, "PRECHARGING_INIT", enabled, seems_closed)
  \/ Failed("TESTING_FAILED", FailedTestWait)

CalibratingTick(enabled) ==
  \/ CalibratingWait("CALIBRATING", {}, "CALIBRATING_PRECHARGE_INIT", enabled)
  \/ CalibratingWait("CALIBRATING_PRECHARGE_INIT", FirstMain, "CALIBRATING_PRECHARGE", enabled)
  \/ CalibratingPrecharge(enabled)
  \/ CalibratingHold("CALIBRATING_CLOSED", {"pos", "neg"}, enabled)
  \/ CalibratingOnlyNegInit(enabled)
  \/ CalibratingHold("CALIBRATING_ONLY_NEG", {"neg"}, enabled)

\* contactor_sm_tick()
ContactorTick(enabled) ==
  \/ AbortToOpen(enabled)
  \/ Open(enabled)
  \/ \E staying \in BOOLEAN : Closed(enabled, staying)
  \/ AwaitingOpen(enabled)
  \/ TestingTick(enabled)
  \/ \E aux_closed \in BOOLEAN : PrechargingInit(enabled, aux_closed)
  \/ \E result \in PrechargeResults : Precharging(enabled, result)
  \/ Failed("PRECHARGE_FAILED", FailedPrechargeWait)
  \/ CalibratingTick(enabled)

-------------------------------------------------------------------------------
(* What the rest of the firmware does to this state.                        *)

\* Another state machine writes the request slot.
Request(r) ==
  /\ contactor_req' = r
  /\ UNCHANGED << contactor_state, contactor_elapsed, enable_current, coils,
                  critical, closing_failures, current >>

\* read_inputs() stores a new current reading, or none for too long.
ReadCurrent(reading) ==
  /\ current' = reading
  /\ UNCHANGED << contactor_state, contactor_elapsed, contactor_req, enable_current,
                  coils, critical, closing_failures >>

\* events_tick() turns the zero-leeway events into FATAL ones.
Escalate ==
  /\ critical' = {}
  /\ UNCHANGED << contactor_state, contactor_elapsed, contactor_req, enable_current,
                  coils, closing_failures, current >>

\* update_millis(): time is told apart up to the deadline of the state.
ContactorAge ==
  IF contactor_elapsed < Deadline(contactor_state)
  THEN contactor_elapsed + 1 ELSE contactor_elapsed

Wait ==
  /\ contactor_elapsed' = ContactorAge
  /\ UNCHANGED << contactor_state, contactor_req, enable_current, coils,
                  critical, closing_failures, current >>

\* A watchdog reset or a power cycle: the drivers float off, RAM is cleared.
Reboot ==
  /\ Transition("OPEN")
  /\ contactor_req' = "NULL"
  /\ enable_current' = FALSE
  /\ coils' = Off
  /\ critical' = {}
  /\ closing_failures' = 0
  /\ current' = Stale

Tick == \E enabled \in BOOLEAN : ContactorTick(enabled)

Next ==
  \/ Tick
  \/ \E r \in ContactorRequests \ {"NULL"} : Request(r)
  \/ \E reading \in Currents \union {Stale} : ReadCurrent(reading)
  \/ Escalate
  \/ Wait
  \/ Reboot

Spec == Init /\ [][Next]_contactorVars

\* The main loop calls the tick and advances the time for ever.
FairSpec == Spec /\ WF_contactorVars(Tick) /\ WF_contactorVars(Wait)

-------------------------------------------------------------------------------
(* Correctness.                                                             *)

\* Every variable has its type, and a state's age stays within its deadline.
TypeOK ==
  /\ contactor_state \in ContactorStates
  /\ contactor_elapsed \in 0..Deadline(contactor_state)
  /\ contactor_req \in ContactorRequests
  /\ enable_current \in BOOLEAN
  /\ coils \subseteq Coils
  /\ critical \subseteq ContactorEvents
  /\ closing_failures \in 0..ClosingLeeway
  /\ current \in Currents \union {Stale}

\* In the builds that drive it, FC+ is on when the positive main is.
FcFollowsPos == "fc_pos" \in coils <=> FcPosContactor /\ "pos" \in coils

\* The outputs in each state: the coils its own case of the switch sets or those
\* left by the state it was entered from, FC+ with the positive main and never
\* without it, and current only while closed.  The action properties below rest
\* on it, and it is inductive with TypeOK.
OutputsFollowState ==
  /\ contactor_state \in {"TESTING_PRE_CLOSED", "TESTING_NEG_OPEN"} => coils \in {Off, {"pre"}}
  /\ contactor_state \in {"TESTING_NEG_CLOSED", "TESTING_POS_OPEN"} => coils \in {Off, {"neg"}}
  /\ contactor_state = "TESTING_POS_CLOSED" => coils \in {Off, PosCoils}
  /\ contactor_state = "PRECHARGING_INIT" => coils \in {Off, PosCoils, {"neg"}}
  /\ contactor_state = "CALIBRATING" => coils = Off
  /\ contactor_state = "CALIBRATING_PRECHARGE_INIT" => coils \in {Off, FirstCoils}
  /\ contactor_state \in {"PRECHARGING", "CALIBRATING_PRECHARGE"}
       => coils \in {FirstCoils, PrechargePath}
  /\ contactor_state \in {"CLOSED", "CALIBRATING_CLOSED"} => coils \in {PrechargePath, AllClosed}
  /\ contactor_state = "AWAITING_OPEN" => coils = AllClosed
  /\ contactor_state = "CALIBRATING_ONLY_NEG_INIT"
       => coils \in IF PrechargeOnNegative THEN {Off, {"neg"}} ELSE {Off}
  /\ contactor_state = "CALIBRATING_ONLY_NEG"
       => coils \in IF PrechargeOnNegative THEN {{"neg"}, {"pre", "neg"}} ELSE {Off, {"neg"}}
  /\ enable_current => contactor_state = "CLOSED"
  /\ FcFollowsPos

\* "we don't want to close more than one contactor per state due to current
\* draw": no step turns two coils on, whichever states and requests it runs
\* through and wherever the resistor is.  The exception is the driver's: where
\* FC+ is driven it turns on with the positive main, and nothing else then does.
TurnsOnAtMostOne == \A c, d \in coils' \ coils : c = d \/ {c, d} = PosCoils
OneCoilAtATime == [][TurnsOnAtMostOne]_contactorVars

\* The bypass joins the two main contactors only when both have been on without
\* it in a state that checks the precharge or the calibration current: no path
\* through the machine connects the pack to the output without the resistor.
ClosesAfterPrecharge ==
  coils' = AllClosed /\ coils # AllClosed
    => coils = PrechargePath /\ contactor_state \in {"CLOSED", "CALIBRATING_CLOSED"}
BypassOnlyAfterPrecharge == [][ClosesAfterPrecharge]_contactorVars

\* Current is never still allowed when contactors that were closed let go, but
\* for a reset: the limits sent to the inverter are withdrawn a tick before.
OpensWithoutCurrent ==
  coils = AllClosed /\ coils' # AllClosed => ~enable_current \/ Reboot
CurrentDisallowedBeforeOpening == [][OpensWithoutCurrent]_contactorVars

\* Every failed attempt to close is on the way to FATAL: it counts one more
\* closing failure or leaves a zero-leeway event raised, so a pack that can not
\* close does not retry for ever.
FailedClosingIsCounted ==
  [][ contactor_state' \in FailedStates /\ contactor_state \notin FailedStates
        => \/ closing_failures' > closing_failures
           \/ closing_failures' = ClosingLeeway
           \/ critical' # {} ]_contactorVars

\* A closing sequence always comes to an end: closed, failed or aborted.
ClosingEnds ==
  contactor_state \in TestingStates \union PrechargingStates
    ~> contactor_state \in {"OPEN", "CLOSED"} \union FailedStates

===============================================================================
