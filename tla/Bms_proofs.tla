------------------------------- MODULE Bms_proofs -------------------------------
(***************************************************************************)
(* Proofs about the control loop, for all waiting times, currents, builds   *)
(* and user requests: that it drives the contactors as their own            *)
(* specification allows, and what it promises of the isolation zero and of  *)
(* the flash.                                                               *)
(***************************************************************************)
EXTENDS Bms, Contactors_proofs

-------------------------------------------------------------------------------
(* The other machines touch the contactors through the request slot only.   *)

LEMMA RequestsReach ==
  ASSUME NEW r \in ContactorRequests \ {"NULL"}, contactor_req' = r, UNCHANGED contactorOwn
  PROVE  [Next]_contactorVars
<1>1. Request(r)
  BY DEF Request, contactorOwn
<1> QED
  BY <1>1 DEF Next

LEMMA SystemRequestsOnly ==
  ASSUME NEW initialized \in BOOLEAN, S!SystemTick(initialized)
  PROVE  contactor_req' \in {contactor_req, "OPEN", "FORCE_OPEN", "CLOSE", "CALIBRATE"}
<1>1. CASE S!EnterFault \/ S!Uninitialized \/ S!Initializing(initialized) \/ S!Calibrating
  BY <1>1 DEF S!EnterFault, S!Uninitialized, S!Initializing, S!Calibrating
<1>2. CASE S!Inactive
  BY <1>2 DEF S!Inactive
<1>3. CASE S!Operating \/ S!Fault
  BY <1>3 DEF S!Operating, S!Fault
<1> QED
  BY <1>1, <1>2, <1>3 DEF S!SystemTick

LEMMA CalibrationRequestsOnly ==
  ASSUME NEW finished \in BOOLEAN, NEW ok \in BOOLEAN, K!CalibrationTick(finished, ok)
  PROVE  contactor_req' \in {contactor_req, "CALIBRATE", "CALIBRATE_ONLY_NEG"}
<1>1. CASE K!Idle \/ K!ShortMeasuringOpen(finished, ok) \/ K!OnlineMeasuring(finished, ok)
  BY <1>1 DEF K!Idle, K!ShortMeasuringOpen, K!OnlineMeasuring
<1>2. CASE ~(K!Idle \/ K!ShortMeasuringOpen(finished, ok) \/ K!OnlineMeasuring(finished, ok))
  BY <1>2 DEF K!CalibrationTick, K!WaitFor, K!Stabilizing, K!OfflineMeasuring
<1> QED
  BY <1>1, <1>2

\* What the supervisor has said is a Boolean.
SupervisorTypeOK == supervisor_enabled \in BOOLEAN

LEMMA SupervisorStarts == BmsInit => SupervisorTypeOK
BY DEF BmsInit, SupervisorTypeOK

LEMMA SupervisorSteps == SupervisorTypeOK /\ [BmsNext]_vars => SupervisorTypeOK'
<1> SUFFICES ASSUME SupervisorTypeOK, [BmsNext]_vars
             PROVE  supervisor_enabled' \in BOOLEAN
  BY DEF SupervisorTypeOK
<1>1. CASE ReadInputs \/ \E loaded \in FlashResults : PowerCycle(loaded)
  BY <1>1 DEF ReadInputs, PowerCycle
<1>2. CASE UNCHANGED supervisor_enabled
  BY <1>2 DEF SupervisorTypeOK
<1>3. CASE BmsTick /\ ~ReadInputs
  BY <1>2, <1>3 DEF BmsTick, Command, Events, SystemPhase, ContactorPhase, CalibrationPhase,
    NvmTick, TimePasses, loopOwn
<1> QED
  BY <1>1, <1>2, <1>3 DEF BmsNext, vars

-------------------------------------------------------------------------------
(* The loop implements the contactor machine. *)

LEMMA LoopSteps == SupervisorTypeOK /\ [BmsNext]_vars => [Next]_contactorVars
<1> SUFFICES ASSUME SupervisorTypeOK, [BmsNext]_vars PROVE [Next]_contactorVars
  OBVIOUS
<1>1. CASE ReadInputs
  <2>1. PICK reading \in Currents \union {Stale} : ReadCurrent(reading)
    BY <1>1 DEF ReadInputs, ReadCurrent
  <2> QED
    BY <2>1 DEF Next
<1>2. CASE Command \/ \E periodic \in BOOLEAN, succeeds \in FlashResults : NvmTick(periodic, succeeds)
  BY <1>2 DEF Command, NvmTick, contactorOwn, contactorVars
<1>3. ASSUME NEW other \in BOOLEAN, Events(other) PROVE Escalate
  BY <1>3 DEF Events, Escalate
<1>4. CASE SystemPhase
  <2>1. PICK initialized \in BOOLEAN : S!SystemTick(initialized)
    BY <1>4 DEF SystemPhase
  <2>2. UNCHANGED contactorOwn
    BY <1>4 DEF SystemPhase
  <2>3. CASE contactor_req' = contactor_req
    BY <2>2, <2>3 DEF contactorOwn, contactorVars
  <2>4. CASE contactor_req' \in {"OPEN", "FORCE_OPEN", "CLOSE", "CALIBRATE"}
    BY <2>2, <2>4, RequestsReach DEF ContactorRequests, ClosingRequests, OpeningRequests
  <2> QED
    BY <2>1, <2>3, <2>4, SystemRequestsOnly
<1>5. CASE ContactorPhase
  <2>1. ContactorTick(supervisor_enabled)
    BY <1>5 DEF ContactorPhase
  <2> QED
    BY <2>1 DEF Next, Tick, SupervisorTypeOK
<1>6. CASE CalibrationPhase
  <2>1. PICK finished \in BOOLEAN, ok \in BOOLEAN : K!CalibrationTick(finished, ok)
    BY <1>6 DEF CalibrationPhase
  <2>2. UNCHANGED contactorOwn
    BY <1>6 DEF CalibrationPhase
  <2>3. CASE contactor_req' = contactor_req
    BY <2>2, <2>3 DEF contactorOwn, contactorVars
  <2>4. CASE contactor_req' \in {"CALIBRATE", "CALIBRATE_ONLY_NEG"}
    BY <2>2, <2>4, RequestsReach DEF ContactorRequests, ClosingRequests, OpeningRequests
  <2> QED
    BY <2>1, <2>3, <2>4, CalibrationRequestsOnly
<1>7. CASE TimePasses
  BY <1>7 DEF TimePasses, Wait, Next
<1>8. ASSUME NEW loaded \in FlashResults, PowerCycle(loaded) PROVE Reboot
  BY <1>8 DEF PowerCycle
<1>9. CASE UNCHANGED vars
  BY <1>9 DEF vars
<1> QED
  BY <1>1, <1>2, <1>3, <1>4, <1>5, <1>6, <1>7, <1>8, <1>9 DEF BmsNext, BmsTick, Next

\* Whatever users, the supervisor and the sequences of the other machines ask, the loop
\* drives the contactors only as contactor_sm_tick() and its environment may.
THEOREM LoopDrivesContactors == BmsSpec => ContactorSpec
<1>1. BmsInit => Init
  BY DEF BmsInit
<1> QED
  BY <1>1, SupervisorStarts, SupervisorSteps, LoopSteps, PTL DEF BmsSpec, ContactorSpec, Spec

\* So in the whole loop, too, no step turns on two coils, but FC+ with the positive
\* main in the builds whose driver has them switch together.
THEOREM LoopOneCoilHolds == BmsSpec => OneCoilAtATime
BY LoopDrivesContactors, OneCoilHolds, PTL DEF ContactorSpec

\* And a closing that fails is counted, or leaves an event that becomes FATAL.
THEOREM LoopFailuresCount == BmsSpec => FailedClosingIsCounted
BY LoopDrivesContactors, FailuresCount, PTL DEF ContactorSpec

-------------------------------------------------------------------------------
(* The isolation zero.  It is granted with the contactors open; the tick of *)
(* the contactor machine that follows in the same turn of the loop may     *)
(* leave OPEN, but turns on no coil before the zero is taken.               *)

\* The phases between the grant and the reading.
AfterContactors == {"calibration", "nvm", "time", "read"}

IsolationInv ==
  isolation_zero_pending =>
    \/ phase = "contactors" /\ contactor_state = "OPEN"
    \/ phase \in AfterContactors /\ coils = Off

\* A tick in OPEN leaves every coil off.
LEMMA OpenTicks ==
  ASSUME NEW enabled, ContactorTick(enabled), contactor_state = "OPEN"
  PROVE  coils' = Off
<1>1. ~Aborts
  BY DEF Aborts, Abortable, TestingStates, PrechargingStates, CalibratingStates
<1>2. Open(enabled)
  BY <1>1 DEF ContactorTick, AbortToOpen, Closed, AwaitingOpen, TestingTick, TestingPreClosed,
    WeldTest, CloseTest, Failed, PrechargingInit, Precharging, CalibratingTick, CalibratingWait,
    CalibratingPrecharge, CalibratingHold, CalibratingOnlyNegInit, In
<1> QED
  BY <1>2, SetPosPreNegValues DEF Open

LEMMA IsolationStarts == BmsInit => IsolationInv
BY DEF BmsInit, S!Init, IsolationInv

LEMMA IsolationSteps == IsolationInv /\ [BmsNext]_vars => IsolationInv'
<1> SUFFICES ASSUME IsolationInv, [BmsNext]_vars PROVE IsolationInv'
  OBVIOUS
<1>1. CASE ReadInputs
  BY <1>1 DEF ReadInputs, IsolationInv
<1>2. CASE Command \/ \E other \in BOOLEAN : Events(other)
  BY <1>2 DEF Command, Events, Goto, systemOwn, IsolationInv, AfterContactors
<1>3. CASE SystemPhase
  <2>1. phase = "system" /\ phase' = "contactors" /\ contactor_state' = contactor_state
    BY <1>3 DEF SystemPhase, Goto, contactorOwn
  <2>2. isolation_zero_pending' => isolation_zero_pending \/ contactor_state = "OPEN"
    BY <1>3 DEF SystemPhase, S!SystemTick, S!IsolationZeroRequest
  <2> QED
    BY <2>1, <2>2 DEF IsolationInv, AfterContactors
<1>4. CASE ContactorPhase
  <2>1. /\ phase = "contactors" /\ phase' = "calibration"
        /\ isolation_zero_pending' = isolation_zero_pending
    BY <1>4 DEF ContactorPhase, Goto, systemOwn
  <2>2. ASSUME isolation_zero_pending PROVE coils' = Off
    BY <1>4, <2>1, <2>2, OpenTicks DEF ContactorPhase, IsolationInv, AfterContactors
  <2> QED
    BY <2>1, <2>2 DEF IsolationInv, AfterContactors
<1>5. CASE CalibrationPhase
  BY <1>5 DEF CalibrationPhase, Goto, contactorOwn, systemOwn, IsolationInv, AfterContactors
<1>6. CASE \E periodic \in BOOLEAN, succeeds \in FlashResults : NvmTick(periodic, succeeds)
  BY <1>6 DEF NvmTick, Goto, contactorOwn, IsolationInv, AfterContactors
<1>7. CASE TimePasses
  BY <1>7 DEF TimePasses, Goto, IsolationInv, AfterContactors
<1>8. CASE \E loaded \in FlashResults : PowerCycle(loaded)
  BY <1>8 DEF PowerCycle, IsolationInv
<1>9. CASE UNCHANGED vars
  BY <1>9 DEF vars, contactorVars, IsolationInv
<1> QED
  BY <1>1, <1>2, <1>3, <1>4, <1>5, <1>6, <1>7, <1>8, <1>9 DEF BmsNext, BmsTick

\* The isolation zero is read with every contactor open, for any requests that were
\* pending when it was granted.
THEOREM IsolationZeroFloats == BmsSpec => []IsolationZeroTakenFloating
<1>1. IsolationInv => IsolationZeroTakenFloating
  BY DEF IsolationInv, IsolationZeroTakenFloating, AfterContactors
<1> QED
  BY IsolationStarts, IsolationSteps, <1>1, PTL DEF BmsSpec

-------------------------------------------------------------------------------
(* The flash, where saves succeed. *)

SaveInv ==
  /\ SavedUnlessOutstanding
  /\ save \in {"none", "scheduled", "due"} /\ operating \in BOOLEAN /\ saved_operating \in BOOLEAN

LEMMA SaveStarts == BmsInit => SaveInv
BY DEF BmsInit, S!Init, SaveInv, SavedUnlessOutstanding

LEMMA SaveSteps ==
  ASSUME FlashResults = {TRUE}
  PROVE  SaveInv /\ [BmsNext]_vars => SaveInv'
<1> SUFFICES ASSUME SaveInv, [BmsNext]_vars PROVE SaveInv'
  OBVIOUS
<1>1. CASE UNCHANGED << save, operating, saved_operating >>
  BY <1>1 DEF SaveInv, SavedUnlessOutstanding
<1>2. CASE SystemPhase
  <2>1. saved_operating' = saved_operating
    BY <1>2 DEF SystemPhase, loopOwn
  <2>2. PICK initialized \in BOOLEAN : S!SystemTick(initialized)
    BY <1>2 DEF SystemPhase
  <2>3. \/ save' = "scheduled" /\ operating' \in BOOLEAN
        \/ UNCHANGED << save, operating >>
    <3>1. CASE S!EnterFault \/ S!Uninitialized \/ S!Initializing(initialized) \/ S!Calibrating
      BY <3>1 DEF S!EnterFault, S!Uninitialized, S!Initializing, S!Calibrating, S!SetOperating
    <3>2. CASE S!Inactive
      BY <3>2 DEF S!Inactive, S!SetOperating
    <3>3. CASE S!Operating \/ S!Fault
      BY <3>3 DEF S!Operating, S!Fault, S!SetOperating
    <3> QED
      BY <2>2, <3>1, <3>2, <3>3 DEF S!SystemTick
  <2> QED
    BY <2>1, <2>3 DEF SaveInv, SavedUnlessOutstanding
<1>3. ASSUME NEW periodic \in BOOLEAN, NvmTick(periodic, TRUE)
      PROVE  SaveInv'
  <2>1. operating' = operating /\ save' = IF save = "scheduled" THEN "due" ELSE "none"
    BY <1>3 DEF NvmTick
  <2>2. CASE save = "due"
    <3>1. saved_operating' = operating
      BY <1>3, <2>2, Zenon DEF NvmTick
    <3> QED
      BY <2>1, <2>2, <3>1 DEF SaveInv, SavedUnlessOutstanding
  <2>3. CASE save = "none"
    <3>1. saved_operating' \in {operating, saved_operating}
      BY <1>3 DEF NvmTick
    <3> QED
      BY <2>1, <2>3, <3>1 DEF SaveInv, SavedUnlessOutstanding
  <2>4. CASE save = "scheduled"
    <3>1. saved_operating' \in {operating, saved_operating}
      BY <1>3 DEF NvmTick
    <3> QED
      BY <2>1, <2>4, <3>1 DEF SaveInv, SavedUnlessOutstanding
  <2> QED
    BY <2>2, <2>3, <2>4 DEF SaveInv
<1>4. CASE PowerCycle(TRUE)
  <2>1. save' = "none" /\ saved_operating' = saved_operating
    BY <1>4 DEF PowerCycle
  <2>2. operating' = saved_operating
    BY <1>4 DEF PowerCycle, SaveInv
  <2> QED
    BY <2>1, <2>2 DEF SaveInv, SavedUnlessOutstanding
<1>5. CASE ReadInputs \/ Command \/ (\E other \in BOOLEAN : Events(other)) \/ ContactorPhase
             \/ CalibrationPhase \/ TimePasses \/ UNCHANGED vars
  BY <1>1, <1>5 DEF ReadInputs, Command, Events, ContactorPhase, CalibrationPhase, TimePasses,
    vars, loopOwn, systemOwn
<1> QED
  BY <1>2, <1>3, <1>4, <1>5 DEF BmsNext, BmsTick

\* Where saves succeed the flag in flash is that in RAM unless a save is outstanding,
\* for decisions in any ticks and resets at any point of one.
THEOREM FlashFollows ==
  ASSUME FlashResults = {TRUE}
  PROVE  BmsSpec => []SavedUnlessOutstanding
<1>1. SaveInv => SavedUnlessOutstanding
  BY DEF SaveInv
<1>2. SaveInv /\ [BmsNext]_vars => SaveInv'
  BY SaveSteps
<1> QED
  BY SaveStarts, <1>1, <1>2, PTL DEF BmsSpec

-------------------------------------------------------------------------------
(* Idle and calibrating, without the online calibration, which would leave  *)
(* the system INACTIVE while the calibration machine works.  A request to   *)
(* close is pending only while somebody has to do with it: never in an      *)
(* inactive system, and not while the short calibration wants the           *)
(* contactors open.                                                         *)

Closing == contactor_req \in ClosingRequests

\* The short calibration up to its first measurement, and from where it relies on OPEN.
WantsOpen == {"SHORT_WAIT_OPEN", "SHORT_STABILIZING_OPEN", "SHORT_MEASURING_OPEN"}
HasOpen == {"SHORT_STABILIZING_OPEN", "SHORT_MEASURING_OPEN"}

\* The calibration machine works for the system machine, in the same tick.
CalibrationIsAsked ==
  /\ system_req # "CALIBRATE_ONLINE"
  /\ calibration_req \in {"NULL", "OFFLINE_LONG", "OFFLINE_SHORT"}
  /\ calibration_req # "NULL" =>
       /\ calibration_state = "IDLE" /\ system_state = "CALIBRATING"
       /\ phase \in {"contactors", "calibration"}
  /\ calibration_state # "IDLE" => system_state \in {"CALIBRATING", "FAULT"}

ClosingIsAsked ==
  /\ Closing => system_state \in {"CALIBRATING", "OPERATING", "FAULT"}
  /\ Closing => calibration_req # "OFFLINE_SHORT" /\ calibration_state \notin WantsOpen

OpenIsKept ==
  /\ calibration_state \in HasOpen => contactor_state = "OPEN"
  /\ calibration_state = "SHORT_STABILIZING_OPEN" /\ phase = "calibration" => coils = Off
  /\ calibration_state = "SHORT_MEASURING_OPEN" => coils = Off

IdleInv == CalibrationIsAsked /\ ClosingIsAsked /\ OpenIsKept

LEMMA TickClears ==
  ASSUME NEW enabled, ContactorTick(enabled)
  PROVE  contactor_req' \in {contactor_req, "NULL"}
BY DEF ContactorTick, AbortToOpen, Open, Closed, AwaitingOpen, TestingTick, TestingPreClosed,
  WeldTest, CloseTest, Failed, PrechargingInit, Precharging, CalibratingTick, CalibratingWait,
  CalibratingPrecharge, CalibratingHold, CalibratingOnlyNegInit

\* Only a request to close takes the contactors out of OPEN.
LEMMA OpenStays ==
  ASSUME NEW enabled, ContactorTick(enabled), contactor_state = "OPEN", ~Closing
  PROVE  contactor_state' = "OPEN"
<1>1. ~Aborts
  BY DEF Aborts, Abortable, TestingStates, PrechargingStates, CalibratingStates
<1>2. Open(enabled)
  BY <1>1 DEF ContactorTick, AbortToOpen, Closed, AwaitingOpen, TestingTick, TestingPreClosed,
    WeldTest, CloseTest, Failed, PrechargingInit, Precharging, CalibratingTick, CalibratingWait,
    CalibratingPrecharge, CalibratingHold, CalibratingOnlyNegInit, In
<1> QED
  BY <1>2 DEF Open, Closing, Remain, HeldBySupervisor

LEMMA IdleStarts == BmsInit => IdleInv
BY DEF BmsInit, Init, S!Init, K!Init, IdleInv, CalibrationIsAsked, ClosingIsAsked, OpenIsKept,
  Closing, ClosingRequests, WantsOpen, HasOpen

LEMMA IdleSystem ==
  ASSUME IdleInv, SystemPhase
  PROVE  IdleInv'
<1> USE DEF IdleInv
<1>1. /\ phase = "system" /\ phase' = "contactors"
      /\ UNCHANGED << contactor_state, coils, calibration_state >>
  BY DEF SystemPhase, Goto, contactorOwn, calibrationOwn
<1>2. calibration_req = "NULL"
  BY <1>1 DEF CalibrationIsAsked
<1>3. PICK initialized \in BOOLEAN : S!SystemTick(initialized)
  BY DEF SystemPhase
<1>4. system_req' # "CALIBRATE_ONLINE"
  <2>1. system_req' \in {system_req, "NULL"}
    BY <1>3 DEF S!SystemTick, S!EnterFault, S!Uninitialized, S!Initializing, S!Calibrating,
      S!Inactive, S!Operating, S!Fault, S!Take, S!TakeNone
  <2> QED
    BY <2>1 DEF CalibrationIsAsked
<1>5. OpenIsKept'
  BY <1>1 DEF OpenIsKept
<1>6. CASE S!EnterFault \/ S!Fault
  <2>1. /\ system_state' = "FAULT" /\ contactor_req' = "FORCE_OPEN"
        /\ calibration_req' = calibration_req
    BY <1>6 DEF S!EnterFault, S!Fault, S!Transition, S!In, S!Remain
  <2> QED
    BY <1>1, <1>2, <1>4, <1>5, <2>1 DEF CalibrationIsAsked, ClosingIsAsked, Closing, ClosingRequests
<1>7. CASE S!Uninitialized \/ S!Initializing(initialized)
  <2>1. /\ system_state \in {"UNINITIALIZED", "INITIALIZING"}
        /\ UNCHANGED << contactor_req, calibration_req >>
    BY <1>7 DEF S!Uninitialized, S!Initializing, S!In
  <2> QED
    BY <1>1, <1>2, <1>4, <1>5, <2>1 DEF CalibrationIsAsked, ClosingIsAsked, Closing
<1>8. CASE S!Calibrating
  <2>1. calibration_req' = calibration_req /\ system_state = "CALIBRATING"
    BY <1>8 DEF S!Calibrating, S!In
  <2>2. CASE calibration_state = "IDLE"
    <3>1. contactor_req' = "OPEN"
      BY <1>8, <2>2 DEF S!Calibrating
    <3> QED
      BY <1>1, <1>2, <1>4, <1>5, <2>1, <2>2, <3>1
      DEF CalibrationIsAsked, ClosingIsAsked, Closing, ClosingRequests
  <2>3. CASE calibration_state # "IDLE"
    <3>1. contactor_req' = contactor_req /\ system_state' \in {"CALIBRATING", "FAULT"}
      BY <1>8, <2>1, <2>3 DEF S!Calibrating, S!Transition, S!Remain
    <3> QED
      BY <1>1, <1>2, <1>4, <1>5, <2>1, <2>3, <3>1 DEF CalibrationIsAsked, ClosingIsAsked, Closing
  <2> QED
    BY <2>2, <2>3
<1>9. CASE S!Inactive
  <2>1. system_state = "INACTIVE" /\ calibration_state = "IDLE" /\ ~Closing
    BY <1>9 DEF S!Inactive, S!In, CalibrationIsAsked, ClosingIsAsked
  <2>2. \/ /\ UNCHANGED << contactor_req, calibration_req >>
           /\ system_state' \in {"OPERATING", "INACTIVE"}
        \/ /\ system_state' = "CALIBRATING"
           /\ \/ calibration_req' = "OFFLINE_LONG"
              \/ calibration_req' = "OFFLINE_SHORT" /\ contactor_req' = contactor_req
    BY <1>9, <2>1
    DEF S!Inactive, S!Take, S!Transition, S!Remain, CalibrationIsAsked
  <2> QED
    BY <1>1, <1>2, <1>4, <1>5, <2>1, <2>2
    DEF CalibrationIsAsked, ClosingIsAsked, Closing, WantsOpen
<1>10. CASE S!Operating
  <2>1. system_state = "OPERATING" /\ calibration_state = "IDLE"
    BY <1>10 DEF S!Operating, S!In, CalibrationIsAsked
  <2>2. /\ calibration_req' = calibration_req
        /\ \/ contactor_req' = "OPEN"
           \/ contactor_req' = "CLOSE" /\ system_state' = "OPERATING"
    BY <1>10, <2>1 DEF S!Operating, S!Take, S!Remain, CalibrationIsAsked
  <2> QED
    BY <1>1, <1>2, <1>4, <1>5, <2>1, <2>2
    DEF CalibrationIsAsked, ClosingIsAsked, Closing, ClosingRequests, WantsOpen
<1> QED
  BY <1>3, <1>6, <1>7, <1>8, <1>9, <1>10 DEF S!SystemTick

LEMMA IdleContactors ==
  ASSUME IdleInv, ContactorPhase
  PROVE  IdleInv'
<1> USE DEF IdleInv
<1>1. /\ phase = "contactors" /\ phase' = "calibration"
      /\ UNCHANGED << system_state, system_req, calibration_state, calibration_req >>
  BY DEF ContactorPhase, Goto, systemOwn, calibrationOwn
<1>2. ContactorTick(supervisor_enabled)
  BY DEF ContactorPhase
<1>3. Closing' => Closing
  BY <1>2, TickClears DEF Closing, ClosingRequests
<1>4. CalibrationIsAsked' /\ ClosingIsAsked'
  BY <1>1, <1>3 DEF CalibrationIsAsked, ClosingIsAsked
<1>5. ASSUME calibration_state \in HasOpen
      PROVE  contactor_state' = "OPEN" /\ coils' = Off
  <2>1. contactor_state = "OPEN" /\ ~Closing
    BY <1>5 DEF OpenIsKept, ClosingIsAsked, WantsOpen, HasOpen
  <2> QED
    BY <1>2, <2>1, OpenStays, OpenTicks
<1>6. OpenIsKept'
  BY <1>1, <1>5 DEF OpenIsKept, HasOpen
<1> QED
  BY <1>4, <1>6

LEMMA IdleCalibration ==
  ASSUME IdleInv, CalibrationPhase
  PROVE  IdleInv'
<1> USE DEF IdleInv
<1>1. /\ phase = "calibration" /\ phase' = "nvm"
      /\ UNCHANGED << contactor_state, coils, system_state, system_req >>
  BY DEF CalibrationPhase, Goto, contactorOwn, systemOwn
<1>2. PICK finished \in BOOLEAN, ok \in BOOLEAN : K!CalibrationTick(finished, ok)
  BY DEF CalibrationPhase
<1>3. CASE K!Idle
  <2>1. calibration_req' = "NULL" /\ calibration_state = "IDLE"
    BY <1>3 DEF K!Idle
  <2>2. \/ calibration_req = "OFFLINE_LONG" /\ calibration_state' = "LONG_WAIT_BOTH"
        \/ /\ calibration_req = "OFFLINE_SHORT" /\ calibration_state' = "SHORT_WAIT_OPEN"
           /\ contactor_req' = contactor_req
        \/ calibration_state' = "IDLE" /\ contactor_req' = contactor_req
    BY <1>3, <2>1 DEF K!Idle, K!Transition, K!Remain, CalibrationIsAsked
  <2> QED
    BY <1>1, <2>1, <2>2
    DEF CalibrationIsAsked, ClosingIsAsked, OpenIsKept, Closing, WantsOpen, HasOpen
<1>4. CASE ~K!Idle
  <2>1. /\ calibration_req' = calibration_req /\ calibration_state # "IDLE"
        /\ system_state \in {"CALIBRATING", "FAULT"} /\ calibration_req = "NULL"
    <3>1. calibration_req' = calibration_req /\ calibration_state # "IDLE"
      BY <1>2, <1>4 DEF K!CalibrationTick, K!WaitFor, K!Stabilizing, K!OfflineMeasuring,
        K!ShortMeasuringOpen, K!OnlineMeasuring
    <3> QED
      BY <3>1 DEF CalibrationIsAsked
  <2>2. CalibrationIsAsked'
    BY <1>1, <2>1 DEF CalibrationIsAsked
  <2>3. CASE K!WaitFor("SHORT_WAIT_OPEN", "OPEN", "SHORT_STABILIZING_OPEN")
    <3>1. /\ calibration_state = "SHORT_WAIT_OPEN" /\ contactor_req' = contactor_req
          /\ \/ calibration_state' \in {"IDLE", "SHORT_WAIT_OPEN"}
             \/ calibration_state' = "SHORT_STABILIZING_OPEN" /\ contactor_state = "OPEN"
      BY <2>3 DEF K!WaitFor, K!Transition, K!Remain
    <3> QED
      BY <1>1, <2>1, <2>2, <3>1 DEF ClosingIsAsked, OpenIsKept, Closing, WantsOpen, HasOpen
  <2>4. CASE K!Stabilizing("SHORT_STABILIZING_OPEN", "SHORT_MEASURING_OPEN")
    <3>1. /\ calibration_state = "SHORT_STABILIZING_OPEN" /\ contactor_req' = contactor_req
          /\ calibration_state' \in HasOpen
      BY <2>4 DEF K!Stabilizing, K!Transition, K!Remain, HasOpen
    <3> QED
      BY <1>1, <2>1, <2>2, <3>1 DEF ClosingIsAsked, OpenIsKept, Closing, WantsOpen, HasOpen
  <2>5. CASE K!ShortMeasuringOpen(finished, ok)
    <3>1. /\ calibration_state = "SHORT_MEASURING_OPEN"
          /\ \/ calibration_state' \in {"IDLE", "SHORT_MEASURING_OPEN"}
                /\ contactor_req' = contactor_req
             \/ calibration_state' = "SHORT_WAIT_NEG"
      BY <2>5 DEF K!ShortMeasuringOpen, K!Transition, K!Remain
    <3> QED
      BY <1>1, <2>1, <2>2, <3>1 DEF ClosingIsAsked, OpenIsKept, Closing, WantsOpen, HasOpen
  <2>6. CASE calibration_state' \notin WantsOpen
    <3>1. ClosingIsAsked'
      BY <1>1, <2>1, <2>6 DEF ClosingIsAsked
    <3>2. OpenIsKept'
      BY <2>6 DEF OpenIsKept, WantsOpen, HasOpen
    <3> QED
      BY <2>2, <3>1, <3>2
  <2>7. ASSUME ~K!WaitFor("SHORT_WAIT_OPEN", "OPEN", "SHORT_STABILIZING_OPEN"),
               ~K!Stabilizing("SHORT_STABILIZING_OPEN", "SHORT_MEASURING_OPEN"),
               ~K!ShortMeasuringOpen(finished, ok)
        PROVE  calibration_state' \notin WantsOpen
    BY <1>2, <1>4, <2>7 DEF K!CalibrationTick, K!WaitFor, K!Stabilizing, K!OfflineMeasuring,
      K!OnlineMeasuring, K!Transition, K!Remain, WantsOpen
  <2> QED
    BY <2>3, <2>4, <2>5, <2>6, <2>7
<1> QED
  BY <1>3, <1>4

LEMMA IdleSteps ==
  ASSUME "CALIBRATE_ONLINE" \notin UserRequests
  PROVE  IdleInv /\ [BmsNext]_vars => IdleInv'
<1> SUFFICES ASSUME IdleInv, [BmsNext]_vars PROVE IdleInv'
  OBVIOUS
<1> USE DEF IdleInv
<1>1. ASSUME UNCHANGED << contactor_state, coils, contactor_req, system_state, calibration_state,
                          calibration_req >>,
             system_req' # "CALIBRATE_ONLINE",
             phase \notin {"system", "contactors", "calibration"} \/ phase' = phase,
             phase' # "calibration" \/ phase' = phase
      PROVE  IdleInv'
  BY <1>1 DEF CalibrationIsAsked, ClosingIsAsked, OpenIsKept, Closing
<1>2. CASE ReadInputs
  BY <1>1, <1>2 DEF ReadInputs, Goto, calibrationOwn, CalibrationIsAsked
<1>3. CASE Command
  BY <1>1, <1>3 DEF Command, Goto, contactorOwn, calibrationOwn, CalibrationIsAsked
<1>4. CASE \E other \in BOOLEAN : Events(other)
  BY <1>1, <1>4 DEF Events, Goto, systemOwn, calibrationOwn, CalibrationIsAsked
<1>5. CASE \E periodic \in BOOLEAN, succeeds \in FlashResults : NvmTick(periodic, succeeds)
  BY <1>1, <1>5 DEF NvmTick, Goto, contactorOwn, calibrationOwn, CalibrationIsAsked
<1>6. CASE TimePasses
  BY <1>1, <1>6 DEF TimePasses, Goto, CalibrationIsAsked
<1>7. CASE UNCHANGED vars
  BY <1>1, <1>7 DEF vars, contactorVars, CalibrationIsAsked
<1>8. CASE \E loaded \in FlashResults : PowerCycle(loaded)
  BY <1>8 DEF PowerCycle, Reboot, CalibrationIsAsked, ClosingIsAsked, OpenIsKept, Closing,
    ClosingRequests, WantsOpen, HasOpen
<1> QED
  BY <1>2, <1>3, <1>4, <1>5, <1>6, <1>7, <1>8, IdleSystem, IdleContactors, IdleCalibration
  DEF BmsNext, BmsTick

\* Without the online calibration nothing takes the contactors out of OPEN while the system
\* is inactive, whatever the machines have left in the request slots.
THEOREM InactiveKeepsOpen ==
  ASSUME "CALIBRATE_ONLINE" \notin UserRequests
  PROVE  BmsSpec => InactiveStaysOpen
<1>1. IdleInv /\ [BmsNext]_vars =>
        (contactor_state = "OPEN" /\ contactor_state' # "OPEN" => system_state # "INACTIVE")
  <2> SUFFICES ASSUME IdleInv, [BmsNext]_vars, contactor_state = "OPEN", contactor_state' # "OPEN"
               PROVE  system_state # "INACTIVE"
    OBVIOUS
  <2>1. ContactorPhase
    BY DEF BmsNext, BmsTick, ReadInputs, Command, Events, SystemPhase, CalibrationPhase, NvmTick,
      TimePasses, PowerCycle, Reboot, Transition, contactorOwn, vars, contactorVars
  <2>2. Closing
    BY <2>1, OpenStays DEF ContactorPhase
  <2> QED
    BY <2>2 DEF IdleInv, ClosingIsAsked
<1>2. IdleInv /\ [BmsNext]_vars => IdleInv'
  BY IdleSteps
<1> QED
  BY IdleStarts, <1>1, <1>2, PTL DEF BmsSpec, InactiveStaysOpen

\* The short calibration takes its first measurements with every contactor open, whatever
\* users, the supervisor and faults do meanwhile.
THEOREM ShortMeasuresWithOpen ==
  ASSUME "CALIBRATE_ONLINE" \notin UserRequests
  PROVE  BmsSpec => []ShortMeasuresOpen
<1>1. IdleInv => ShortMeasuresOpen
  BY DEF IdleInv, OpenIsKept, ShortMeasuresOpen
<1>2. IdleInv /\ [BmsNext]_vars => IdleInv'
  BY IdleSteps
<1> QED
  BY IdleStarts, <1>1, <1>2, PTL DEF BmsSpec

-------------------------------------------------------------------------------
(* A fault opens the contactors.  From the second tick in FAULT on, the     *)
(* contactor machine finds FORCE_OPEN in its slot, whatever the calibration *)
(* machine has written there since.  So the age of FAULT is bounded by what *)
(* the contactor machine can still be doing.                                *)

\* The age is a unit older before the tick of the contactor machine than after it.
Ticked == phase \in {"calibration", "nvm", "time"}
Slack == IF Ticked THEN 0 ELSE 1

\* States that FORCE_OPEN ends at once and that are not entered again.
Resting == {"OPEN", "TESTING_NEG_OPEN", "TESTING_FAILED", "PRECHARGE_FAILED"}
Lasting == Resting \union {"AWAITING_OPEN", "TESTING_PRE_CLOSED"}

ForcesOpen == phase = "contactors" /\ system_elapsed > 0 => contactor_req = "FORCE_OPEN"

WorkEnds == contactor_state \notin Lasting => system_elapsed <= Slack

AwaitingEnds ==
  contactor_state = "AWAITING_OPEN" =>
    system_elapsed <= contactor_elapsed + 1 /\ system_elapsed <= ForceOpenTimeout + Slack

TestEnds ==
  contactor_state = "TESTING_PRE_CLOSED" =>
    system_elapsed <= contactor_elapsed /\ (Ticked => contactor_elapsed < TestWait)

\* The coils of a state that has just been entered are those of the state before.
RestOpens ==
  contactor_state \in Resting /\ coils # Off =>
    system_elapsed <= ForceOpenTimeout + 1 + Slack \/ system_elapsed <= TestWait + Slack

FaultInv ==
  system_state = "FAULT" =>
    /\ system_elapsed \in Nat
    /\ ForcesOpen /\ WorkEnds /\ AwaitingEnds /\ TestEnds /\ RestOpens

\* The waits are long enough to be seen.
WaitsCount == 1 <= ForceOpenTimeout /\ 1 <= TestWait

LEMMA FaultStarts == BmsInit => FaultInv
BY DEF BmsInit, S!Init, FaultInv

\* A fault that begins is of age zero, and nothing is required of it yet.
LEMMA FaultBegins ==
  ASSUME TypeOK, system_state' = "FAULT", system_elapsed' = 0, phase' = "contactors",
         UNCHANGED << contactor_state, contactor_elapsed, coils >>
  PROVE  FaultInv'
<1>1. contactor_elapsed \in Nat
  BY DeadlineType DEF TypeOK
<1> QED
  BY <1>1, TimeAssumption DEF FaultInv, ForcesOpen, WorkEnds, AwaitingEnds, TestEnds, RestOpens,
    Slack, Ticked

LEMMA FaultSystem ==
  ASSUME TypeOK, FaultInv, SystemPhase
  PROVE  FaultInv'
<1>1. /\ phase = "system" /\ phase' = "contactors"
      /\ UNCHANGED << contactor_state, contactor_elapsed, coils >>
  BY DEF SystemPhase, Goto, contactorOwn
<1>2. PICK initialized \in BOOLEAN : S!SystemTick(initialized)
  BY DEF SystemPhase
<1>3. CASE S!Fault
  <2>1. /\ system_state = "FAULT" /\ contactor_req' = "FORCE_OPEN"
        /\ UNCHANGED << system_state, system_elapsed >>
    BY <1>3 DEF S!Fault, S!In, S!Remain
  <2> QED
    BY <1>1, <2>1 DEF FaultInv, ForcesOpen, WorkEnds, AwaitingEnds, TestEnds, RestOpens, Slack,
      Ticked
<1>4. CASE ~S!Fault
  <2>1. system_state' = "FAULT" => system_elapsed' = 0
    <3>1. CASE S!EnterFault
      BY <3>1 DEF S!EnterFault, S!Transition
    <3>2. CASE S!Uninitialized \/ S!Initializing(initialized) \/ S!Calibrating
      BY <3>2 DEF S!Uninitialized, S!Initializing, S!Calibrating, S!In, S!Transition, S!Remain
    <3>3. CASE S!Inactive \/ S!Operating
      BY <3>3 DEF S!Inactive, S!Operating, S!In, S!Transition, S!Remain
    <3> QED
      BY <1>2, <1>4, <3>1, <3>2, <3>3 DEF S!SystemTick
  <2>2. CASE system_state' = "FAULT"
    BY <1>1, <2>1, <2>2, FaultBegins
  <2>3. CASE system_state' # "FAULT"
    BY <2>3 DEF FaultInv
  <2> QED
    BY <2>2, <2>3
<1> QED
  BY <1>3, <1>4

\* What a tick makes of the contactor machine with FORCE_OPEN in the slot.
LEMMA ForcedTick ==
  ASSUME TypeOK, NEW enabled \in BOOLEAN, ContactorTick(enabled), contactor_req = "FORCE_OPEN"
  PROVE  \/ contactor_state' = "OPEN" /\ coils' = Off
         \/ contactor_state = "CLOSED" /\ contactor_state' = "AWAITING_OPEN"
            /\ contactor_elapsed' = 0
         \/ /\ contactor_state = "AWAITING_OPEN"
            /\ \/ contactor_state' = "OPEN"
               \/ /\ UNCHANGED << contactor_state, contactor_elapsed >>
                  /\ ~(contactor_elapsed >= ForceOpenTimeout)
         \/ /\ contactor_state = "TESTING_PRE_CLOSED"
            /\ \/ contactor_state' \in Resting
               \/ /\ UNCHANGED << contactor_state, contactor_elapsed >>
                  /\ ~(contactor_elapsed >= TestWait)
         \/ contactor_state' \in Resting /\ coils' = Off
<1>1. OpenRequested
  BY DEF OpenRequested, OpeningRequests
<1>2. CASE AbortToOpen(enabled) \/ Open(enabled)
  BY <1>2, SetPosPreNegValues
  DEF AbortToOpen, Open, In, Transition, Remain, HeldBySupervisor, ClosingRequests
<1>3. CASE \E staying \in BOOLEAN : Closed(enabled, staying)
  BY <1>1, <1>3 DEF Closed, TryToOpen, Transition
<1>4. CASE AwaitingOpen(enabled)
  BY <1>4 DEF AwaitingOpen, In, MayOpenNow, Transition, Remain, Timeout
<1>5. CASE Failed("TESTING_FAILED", FailedTestWait) \/ Failed("PRECHARGE_FAILED", FailedPrechargeWait)
  BY <1>5, SetPosPreNegValues DEF Failed, In, Transition, Remain, Resting
<1>6. CASE \E aux_closed \in BOOLEAN : TestingPreClosed(enabled, aux_closed)
  BY <1>6 DEF TestingPreClosed, In, Transition, Remain, Timeout, Resting
<1>7. ASSUME contactor_state \in Abortable, ~Aborts PROVE FALSE
  BY <1>1, <1>7 DEF Aborts
<1>8. CASE \/ \E aux_closed \in BOOLEAN : PrechargingInit(enabled, aux_closed)
           \/ \E result \in PrechargeResults : Precharging(enabled, result)
  BY <1>7, <1>8 DEF PrechargingInit, Precharging, In, Abortable, PrechargingStates
<1>9. CASE CalibratingTick(enabled)
  BY <1>7, <1>9 DEF CalibratingTick, CalibratingWait, CalibratingPrecharge, CalibratingHold,
    CalibratingOnlyNegInit, In, Abortable, CalibratingStates
<1>10. CASE TestingTick(enabled) /\ contactor_state \in Abortable
  BY <1>7, <1>10 DEF TestingTick, TestingPreClosed, WeldTest, CloseTest, Failed, In
<1>11. ASSUME TestingTick(enabled), contactor_state \notin Abortable
       PROVE  \/ \E aux_closed \in BOOLEAN : TestingPreClosed(enabled, aux_closed)
              \/ Failed("TESTING_FAILED", FailedTestWait)
  BY <1>11 DEF TestingTick, WeldTest, CloseTest, In, Abortable, TestingStates
<1> QED
  BY <1>2, <1>3, <1>4, <1>5, <1>6, <1>8, <1>9, <1>10, <1>11 DEF ContactorTick

\* Whatever the request, a test of the bypass that goes on is not over.
LEMMA TestGoesOn ==
  ASSUME NEW enabled \in BOOLEAN, ContactorTick(enabled), contactor_state' = "TESTING_PRE_CLOSED"
  PROVE  \/ contactor_elapsed' = 0
         \/ /\ contactor_elapsed' = contactor_elapsed
            /\ ~(contactor_elapsed >= TestWait)
<1>1. CASE Remain
  <2>1. contactor_state = "TESTING_PRE_CLOSED"
    BY <1>1 DEF Remain
  <2>2. \E aux_closed \in BOOLEAN : TestingPreClosed(enabled, aux_closed)
    BY <2>1 DEF ContactorTick, AbortToOpen, Aborts, Abortable, TestingStates, PrechargingStates,
      CalibratingStates, Open, Closed, AwaitingOpen, TestingTick,
      WeldTest, CloseTest, Failed, PrechargingInit, Precharging, CalibratingTick, CalibratingWait,
      CalibratingPrecharge, CalibratingHold, CalibratingOnlyNegInit, In
  <2> QED
    BY <1>1, <2>2 DEF TestingPreClosed, Transition, Remain, Timeout
<1>2. CASE contactor_elapsed' = 0
  BY <1>2
<1>3. Remain \/ contactor_elapsed' = 0
  BY DEF ContactorTick, AbortToOpen, Open, Closed, AwaitingOpen, TestingTick, TestingPreClosed,
    WeldTest, CloseTest, Failed, PrechargingInit, Precharging, CalibratingTick, CalibratingWait,
    CalibratingPrecharge, CalibratingHold, CalibratingOnlyNegInit, Transition
<1> QED
  BY <1>1, <1>2, <1>3

LEMMA FaultContactors ==
  ASSUME TypeOK, TypeOK', SupervisorTypeOK, WaitsCount, FaultInv, ContactorPhase,
         system_state = "FAULT"
  PROVE  FaultInv'
<1> USE TimeAssumption DEF WaitsCount
<1>1. /\ phase = "contactors" /\ phase' = "calibration"
      /\ UNCHANGED << system_state, system_elapsed >>
  BY DEF ContactorPhase, Goto, systemOwn
<1>2. ContactorTick(supervisor_enabled) /\ supervisor_enabled \in BOOLEAN
  BY DEF ContactorPhase, SupervisorTypeOK
<1>3. ~Ticked /\ Slack = 1 /\ Ticked' /\ Slack' = 0
  BY <1>1 DEF Ticked, Slack
<1>4. /\ system_elapsed \in Nat /\ contactor_elapsed \in Nat /\ contactor_elapsed' \in Nat
  BY DeadlineType DEF FaultInv, TypeOK
<1>5. ForcesOpen'
  BY <1>1 DEF ForcesOpen
<1>6. contactor_state' = "TESTING_PRE_CLOSED" => contactor_elapsed' < TestWait
  BY <1>2, <1>4, TestGoesOn
<1>7. CASE system_elapsed = 0
  <2>1. system_elapsed' = 0
    BY <1>1, <1>7
  <2>2. WorkEnds' /\ RestOpens'
    BY <1>3, <2>1 DEF WorkEnds, RestOpens
  <2>3. PICK age \in Nat : age = contactor_elapsed'
    BY <1>4
  <2>4. AwaitingEnds'
    <3>1. 0 <= age + 1 /\ 0 <= ForceOpenTimeout + 0
      OBVIOUS
    <3> QED
      BY <1>3, <2>1, <2>3, <3>1, Zenon DEF AwaitingEnds
  <2>5. TestEnds'
    BY <1>6, <2>1, <2>3 DEF TestEnds
  <2> QED
    BY <1>5, <2>1, <2>2, <2>4, <2>5 DEF FaultInv
<1>8. CASE system_elapsed > 0
  <2>1. contactor_req = "FORCE_OPEN"
    BY <1>1, <1>8 DEF FaultInv, ForcesOpen
  <2>2. CASE contactor_state' \in Resting /\ coils' = Off
    BY <1>1, <1>3, <1>4, <1>5, <2>2
    DEF FaultInv, WorkEnds, AwaitingEnds, TestEnds, RestOpens, Lasting, Resting
  <2>3. CASE contactor_state = "CLOSED" /\ contactor_state' = "AWAITING_OPEN"
             /\ contactor_elapsed' = 0
    <3>1. system_elapsed <= 1
      BY <1>3, <2>3 DEF FaultInv, WorkEnds, Lasting, Resting
    <3> QED
      BY <1>1, <1>3, <1>4, <1>5, <2>3, <3>1
      DEF FaultInv, WorkEnds, AwaitingEnds, TestEnds, RestOpens, Lasting, Resting
  <2>4. CASE contactor_state = "AWAITING_OPEN" /\ contactor_state' = "OPEN"
    <3>1. system_elapsed <= ForceOpenTimeout + 1
      BY <1>3, <2>4 DEF FaultInv, AwaitingEnds
    <3> QED
      BY <1>1, <1>3, <1>4, <1>5, <2>4, <3>1
      DEF FaultInv, WorkEnds, AwaitingEnds, TestEnds, RestOpens, Lasting, Resting
  <2>5. CASE /\ contactor_state = "AWAITING_OPEN"
             /\ UNCHANGED << contactor_state, contactor_elapsed >>
             /\ ~(contactor_elapsed >= ForceOpenTimeout)
    <3>1. system_elapsed <= contactor_elapsed + 1 /\ contactor_elapsed < ForceOpenTimeout
      BY <1>4, <2>5 DEF FaultInv, AwaitingEnds
    <3> QED
      BY <1>1, <1>3, <1>4, <1>5, <2>5, <3>1
      DEF FaultInv, WorkEnds, AwaitingEnds, TestEnds, RestOpens, Lasting, Resting
  <2>6. CASE contactor_state = "TESTING_PRE_CLOSED" /\ contactor_state' \in Resting
    <3>1. system_elapsed <= contactor_elapsed /\ contactor_elapsed <= TestWait
      BY <2>6 DEF FaultInv, TestEnds, TypeOK, Deadline
    <3>2. system_elapsed' <= TestWait + 0 /\ system_elapsed' \in Nat
      BY <1>1, <1>4, <3>1
    <3>3. RestOpens'
      BY <1>3, <3>2 DEF RestOpens
    <3> QED
      BY <1>5, <2>6, <3>2, <3>3 DEF FaultInv, WorkEnds, AwaitingEnds, TestEnds, Lasting, Resting
  <2>7. CASE /\ contactor_state = "TESTING_PRE_CLOSED"
             /\ UNCHANGED << contactor_state, contactor_elapsed >>
    <3>1. system_elapsed <= contactor_elapsed
      BY <2>7 DEF FaultInv, TestEnds
    <3> QED
      BY <1>1, <1>3, <1>4, <1>5, <1>6, <2>7, <3>1
      DEF FaultInv, WorkEnds, AwaitingEnds, TestEnds, RestOpens, Lasting, Resting
  <2> QED
    BY <1>2, <2>1, <2>2, <2>3, <2>4, <2>5, <2>6, <2>7, ForcedTick DEF Resting
<1> QED
  BY <1>4, <1>7, <1>8

LEMMA FaultTime ==
  ASSUME TypeOK, FaultInv, TimePasses, system_state = "FAULT"
  PROVE  FaultInv'
<1> USE TimeAssumption
<1>1. /\ phase = "time" /\ phase' = "read"
      /\ UNCHANGED << system_state, contactor_state, coils >>
  BY DEF TimePasses, Goto
<1>2. Ticked /\ Slack = 0 /\ ~Ticked' /\ Slack' = 1
  BY <1>1 DEF Ticked, Slack
<1>3. /\ system_elapsed \in Nat /\ contactor_elapsed \in Nat
      /\ contactor_elapsed <= Deadline(contactor_state)
  BY DeadlineType DEF FaultInv, TypeOK
<1>4. system_elapsed' \in {system_elapsed, system_elapsed + 1}
  BY DEF TimePasses, S!SystemAge
<1>5. \/ contactor_elapsed' = contactor_elapsed + 1
      \/ contactor_elapsed' = contactor_elapsed /\ ~(contactor_elapsed < Deadline(contactor_state))
  BY DEF TimePasses, ContactorAge
<1>6. ForcesOpen' /\ WorkEnds' /\ RestOpens'
  BY <1>1, <1>2, <1>3, <1>4 DEF FaultInv, ForcesOpen, WorkEnds, RestOpens
<1>7. AwaitingEnds'
  <2>1. CASE contactor_state = "AWAITING_OPEN"
    <3>1. system_elapsed <= contactor_elapsed + 1 /\ system_elapsed <= ForceOpenTimeout
      BY <1>2, <2>1 DEF FaultInv, AwaitingEnds
    <3>2. Deadline(contactor_state) = OpenTimeout
      BY <2>1 DEF Deadline
    <3> QED
      BY <1>1, <1>2, <1>3, <1>4, <1>5, <3>1, <3>2 DEF AwaitingEnds
  <2> QED
    BY <1>1, <2>1 DEF AwaitingEnds
<1>8. TestEnds'
  <2>1. CASE contactor_state = "TESTING_PRE_CLOSED"
    <3>1. system_elapsed <= contactor_elapsed /\ contactor_elapsed < TestWait
      BY <1>2, <2>1 DEF FaultInv, TestEnds
    <3>2. Deadline(contactor_state) = TestWait
      BY <2>1 DEF Deadline
    <3> QED
      BY <1>1, <1>2, <1>3, <1>4, <1>5, <3>1, <3>2 DEF TestEnds
  <2> QED
    BY <1>1, <2>1 DEF TestEnds
<1> QED
  BY <1>1, <1>3, <1>4, <1>6, <1>7, <1>8 DEF FaultInv

LEMMA FaultSteps ==
  ASSUME WaitsCount
  PROVE  TypeOK /\ TypeOK' /\ SupervisorTypeOK /\ FaultInv /\ [BmsNext]_vars => FaultInv'
<1> SUFFICES ASSUME TypeOK, TypeOK', SupervisorTypeOK, FaultInv, [BmsNext]_vars PROVE FaultInv'
  OBVIOUS
<1>1. ASSUME UNCHANGED << system_state, system_elapsed, contactor_state, contactor_elapsed, coils >>,
             phase' # "contactors" \/ UNCHANGED << phase, contactor_req >>, Ticked' = Ticked
      PROVE  FaultInv'
  <2>1. Slack' = Slack
    BY <1>1 DEF Slack
  <2> QED
    BY <1>1, <2>1 DEF FaultInv, ForcesOpen, WorkEnds, AwaitingEnds, TestEnds, RestOpens
<1>2. CASE ReadInputs \/ Command \/ \E other \in BOOLEAN : Events(other)
  BY <1>1, <1>2 DEF ReadInputs, Command, Events, Goto, contactorOwn, systemOwn, Ticked
<1>3. CASE CalibrationPhase \/ \E periodic \in BOOLEAN, succeeds \in FlashResults : NvmTick(periodic, succeeds)
  BY <1>1, <1>3 DEF CalibrationPhase, NvmTick, Goto, contactorOwn, systemOwn, Ticked
<1>4. CASE \E loaded \in FlashResults : PowerCycle(loaded)
  BY <1>4 DEF PowerCycle, FaultInv
<1>5. CASE UNCHANGED vars
  BY <1>1, <1>5 DEF vars, contactorVars, Ticked
<1>6. CASE ContactorPhase \/ TimePasses
  <2>1. CASE system_state = "FAULT"
    BY <1>6, <2>1, FaultContactors, FaultTime
  <2>2. CASE system_state # "FAULT"
    BY <1>6, <2>2 DEF ContactorPhase, TimePasses, systemOwn, FaultInv
  <2> QED
    BY <2>1, <2>2
<1> QED
  BY <1>2, <1>3, <1>4, <1>5, <1>6, FaultSystem DEF BmsNext, BmsTick

LEMMA FaultIsOver ==
  ASSUME TypeOK, WaitsCount, FaultInv,
         ForceOpenTimeout + 3 <= FaultHorizon, TestWait + 3 <= FaultHorizon
  PROVE  FaultOpensInTime
<1> SUFFICES ASSUME system_state = "FAULT", system_elapsed >= FaultHorizon, coils # Off
             PROVE  FALSE
  BY DEF FaultOpensInTime
<1> USE TimeAssumption, LoopTimeAssumption DEF WaitsCount
<1>1. Slack \in {0, 1} /\ system_elapsed \in Nat /\ contactor_elapsed \in Nat
  BY DeadlineType DEF Slack, FaultInv, TypeOK
<1>2. CASE contactor_state \notin Lasting
  BY <1>1, <1>2 DEF FaultInv, WorkEnds
<1>3. CASE contactor_state = "AWAITING_OPEN"
  BY <1>1, <1>3 DEF FaultInv, AwaitingEnds
<1>4. CASE contactor_state = "TESTING_PRE_CLOSED"
  <2>1. contactor_elapsed <= TestWait
    BY <1>4 DEF TypeOK, Deadline
  <2> QED
    BY <1>1, <1>4, <2>1 DEF FaultInv, TestEnds
<1>5. CASE contactor_state \in Resting
  BY <1>1, <1>5 DEF FaultInv, RestOpens
<1> QED
  BY <1>2, <1>3, <1>4, <1>5 DEF Lasting

\* However the contactors stood, whatever the current, the supervisor and a calibration that
\* still runs do, a fault has opened every contactor three ticks after the longer of the
\* forced opening and a test of the bypass.
THEOREM FaultOpens ==
  ASSUME WaitsCount, ForceOpenTimeout + 3 <= FaultHorizon, TestWait + 3 <= FaultHorizon
  PROVE  BmsSpec => []FaultOpensInTime
<1>1. BmsSpec => []TypeOK
  BY LoopDrivesContactors, TypeCorrect, PTL DEF ContactorSpec
<1>2. TypeOK /\ FaultInv => FaultOpensInTime
  BY FaultIsOver
<1>3. TypeOK /\ TypeOK' /\ SupervisorTypeOK /\ FaultInv /\ [BmsNext]_vars => FaultInv'
  BY FaultSteps
<1> QED
  BY FaultStarts, SupervisorStarts, SupervisorSteps, <1>1, <1>2, <1>3, PTL DEF BmsSpec

===============================================================================
