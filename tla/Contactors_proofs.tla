--------------------------- MODULE Contactors_proofs ---------------------------
(***************************************************************************)
(* Proofs about the contactor state machine, for every value of its         *)
(* constants: every build, any waiting times and any current readings.      *)
(***************************************************************************)
EXTENDS Contactors, TLAPS

\* Every state's deadline is a natural number: the waiting times are.
LEMMA DeadlineType ==
  ASSUME NEW s \in ContactorStates
  PROVE  Deadline(s) \in Nat
BY TimeAssumption, SMTT(30)
  DEF TimeAssumption, Deadline, ContactorStates, TestingStates,
      PrechargingStates, CalibratingStates, FailedStates

\* The driver energizes only coils it has.
LEMMA SetPosPreNegType ==
  ASSUME NEW request \in SUBSET Coils
  PROVE  SetPosPreNeg(request) \in SUBSET Coils
BY OptionAssumption
DEF OptionAssumption, SetPosPreNeg, WithFcPos, PosCoils, Coils

\* A transition to a state starts its time within its deadline.
LEMMA TransitionType ==
  ASSUME NEW s \in ContactorStates, Transition(s)
  PROVE  /\ contactor_state' \in ContactorStates
         /\ contactor_elapsed' \in 0..Deadline(contactor_state')
BY DeadlineType DEF Transition

\* A state's age stays within its deadline as time passes.
LEMMA AgeType ==
  ASSUME TypeOK
  PROVE  ContactorAge \in 0..Deadline(contactor_state)
BY DeadlineType DEF TypeOK, ContactorAge

\* The confirm_...() functions raise and clear events there are.
LEMMA ConfirmType ==
  ASSUME NEW events \in SUBSET ContactorEvents, NEW success \in BOOLEAN,
         NEW event \in ContactorEvents
  PROVE  Confirm(events, success, event) \in SUBSET ContactorEvents
BY DEF Confirm

LEMMA SupervisedType ==
  ASSUME TypeOK, NEW enabled \in BOOLEAN
  PROVE  Supervised(enabled) \in SUBSET ContactorEvents
BY ConfirmType DEF TypeOK, Supervised, ContactorEvents

LEMMA LogPrechargeType ==
  ASSUME NEW events \in SUBSET ContactorEvents, NEW result \in PrechargeResults
  PROVE  LogPrecharge(events, result) \in SUBSET ContactorEvents
BY DEF LogPrecharge, ContactorEvents

\* Staying in a state or leaving it, a tick keeps the types of state and age.
LEMMA StateType ==
  ASSUME TypeOK, NEW s \in ContactorStates, Remain \/ Transition(s)
  PROVE  /\ contactor_state' \in ContactorStates
         /\ contactor_elapsed' \in 0..Deadline(contactor_state')
<1>1. CASE Remain
  BY <1>1 DEF Remain, TypeOK
<1>2. CASE Transition(s)
  BY <1>2, TransitionType
<1> QED
  BY <1>1, <1>2

\* A failed closing is counted up to the leeway.
LEMMA CountType ==
  ASSUME TypeOK, CountClosingFailed \/ UNCHANGED closing_failures
  PROVE  closing_failures' \in 0..ClosingLeeway
BY TimeAssumption DEF TypeOK, TimeAssumption, CountClosingFailed

\* The coils every case of the switch asks for, in every build.
LEMMA SetPosPreNegValues ==
  /\ SetPosPreNeg({}) = Off
  /\ SetPosPreNeg({"pos", "neg"}) = AllClosed
  /\ SetPosPreNeg(FirstMain) = FirstCoils
  /\ SetPosPreNeg(FirstMain \union {"pre"}) = PrechargePath
  /\ SetPosPreNeg(NegAlone) = {"neg"}
  /\ SetPosPreNeg(PosAlone) = PosCoils
  /\ PrechargeOnNegative => SetPosPreNeg({"pre", "neg"}) = {"neg"}
  /\ SetPosPreNeg({"neg"}) = IF PrechargeOnNegative THEN {"pre", "neg"} ELSE {"neg"}
<1>1. CASE PrechargeOnNegative /\ FcPosContactor
  BY <1>1 DEF SetPosPreNeg, WithFcPos, PosCoils, Off, AllClosed, Coils, FirstMain,
              FirstCoils, PrechargePath, NegAlone, PosAlone
<1>2. CASE PrechargeOnNegative /\ ~FcPosContactor
  BY <1>2 DEF SetPosPreNeg, WithFcPos, PosCoils, Off, AllClosed, Coils, FirstMain,
              FirstCoils, PrechargePath, NegAlone, PosAlone
<1>3. CASE ~PrechargeOnNegative
  BY <1>3, OptionAssumption
  DEF OptionAssumption, SetPosPreNeg, WithFcPos, PosCoils, Off, AllClosed, Coils,
      FirstMain, FirstCoils, PrechargePath, NegAlone, PosAlone
<1> QED
  BY <1>1, <1>2, <1>3

\* What the coil sets of the cases have in common, in every build.
LEMMA CoilSets ==
  /\ PosCoils \in SUBSET Coils /\ FirstCoils \in SUBSET Coils
  /\ PrechargePath \in SUBSET Coils /\ {"pre", "neg"} \in SUBSET Coils
  /\ AllClosed = PrechargePath \union {"pre"} /\ "pre" \notin PrechargePath
  /\ PrechargePath = PosCoils \union {"neg"}
  /\ FirstCoils \in {PosCoils, {"neg"}}
  /\ "pos" \in PosCoils /\ PosCoils \subseteq {"pos", "fc_pos"}
  /\ "fc_pos" \in PosCoils <=> FcPosContactor
  /\ AllClosed \notin {Off, {"pre"}, {"neg"}, {"pre", "neg"}, PosCoils, FirstCoils}
BY OptionAssumption
DEF OptionAssumption, Off, PosCoils, FirstCoils, Coils, PrechargePath, AllClosed

-------------------------------------------------------------------------------
(* Type correctness: one lemma for each shape of case, then one step per    *)
(* action.                                                                  *)

\* What a tick has to show for the types to hold after it.
LEMMA TickTypes ==
  ASSUME TypeOK, NEW s \in ContactorStates, Remain \/ Transition(s),
         contactor_req' \in ContactorRequests, enable_current' \in BOOLEAN,
         coils' \in SUBSET Coils, critical' \in SUBSET ContactorEvents,
         CountClosingFailed \/ UNCHANGED closing_failures, UNCHANGED current
  PROVE  TypeOK'
BY StateType, CountType DEF TypeOK

LEMMA OpenType ==
  ASSUME TypeOK, NEW enabled \in BOOLEAN, AbortToOpen(enabled) \/ Open(enabled)
  PROVE  TypeOK'
<1>1. coils' = Off
  BY SetPosPreNegValues DEF AbortToOpen, Open
<1>2. CASE AbortToOpen(enabled)
  <2>1. Transition("OPEN") /\ "OPEN" \in ContactorStates
    BY <1>2 DEF AbortToOpen, ContactorStates
  <2> QED
    BY <1>1, <1>2, <2>1, TickTypes, SupervisedType
    DEF AbortToOpen, TypeOK, ContactorRequests, Off
<1>3. CASE Open(enabled)
  <2>1. PICK s \in ContactorStates : Remain \/ Transition(s)
    <3>1. CASE contactor_req \in ClosingRequests
      <4>1. AfterOpen(contactor_req) \in ContactorStates
        BY <3>1 DEF AfterOpen, ClosingRequests, ContactorStates, TestingStates,
                    CalibratingStates
      <4> QED
        BY <1>3, <4>1 DEF Open
    <3>2. CASE contactor_req \notin ClosingRequests
      BY <1>3, <3>2 DEF Open, HeldBySupervisor, TypeOK
    <3> QED
      BY <3>1, <3>2
  <2>2. contactor_req' \in ContactorRequests
    BY <1>3 DEF Open, TypeOK, ContactorRequests
  <2> QED
    BY <1>1, <1>3, <2>1, <2>2, TickTypes DEF Open, In, TypeOK, Off
<1> QED
  BY <1>2, <1>3

LEMMA ClosedType ==
  ASSUME TypeOK, NEW enabled \in BOOLEAN,
         \/ \E staying \in BOOLEAN : Closed(enabled, staying)
         \/ AwaitingOpen(enabled)
  PROVE  TypeOK'
<1>1. coils' \in SUBSET Coils
  BY SetPosPreNegValues DEF Closed, AwaitingOpen, AllClosed
<1>2. /\ {"AWAITING_OPEN", "OPEN"} \subseteq ContactorStates
      /\ "NULL" \in ContactorRequests
  BY DEF ContactorStates, ContactorRequests
<1>3. CASE \E staying \in BOOLEAN : Closed(enabled, staying)
  <2>1. PICK staying \in BOOLEAN : Closed(enabled, staying)
    BY <1>3
  <2>2. Remain \/ Transition("AWAITING_OPEN")
    BY <2>1 DEF Closed
  <2>3. contactor_req' \in ContactorRequests /\ enable_current' \in BOOLEAN
    BY <1>2, <2>1 DEF Closed, TypeOK, Timeout, TryToOpen, OpenRequested
  <2>4. /\ critical' \in SUBSET ContactorEvents
        /\ UNCHANGED << closing_failures, current >>
    BY <2>1, SupervisedType DEF Closed
  <2> QED
    BY <1>1, <1>2, <2>2, <2>3, <2>4, TickTypes
<1>4. CASE AwaitingOpen(enabled)
  <2>1. Remain \/ Transition("OPEN")
    BY <1>4 DEF AwaitingOpen
  <2>2. contactor_req' \in ContactorRequests
    BY <1>2, <1>4 DEF AwaitingOpen, TypeOK
  <2> QED
    BY <1>1, <1>2, <1>4, <2>1, <2>2, TickTypes, SupervisedType DEF AwaitingOpen, In
<1> QED
  BY <1>3, <1>4

\* The names of all states, for the steps that go from one to the next.
LEMMA TestingStateNames ==
  TestingStates \union {"TESTING_FAILED", "PRECHARGING_INIT", "OPEN"}
    \subseteq ContactorStates
BY DEF ContactorStates, TestingStates, PrechargingStates, FailedStates

LEMMA CalibratingStateNames ==
  CalibratingStates \union {"OPEN"} \subseteq ContactorStates
BY DEF ContactorStates, CalibratingStates

LEMMA TestingType ==
  ASSUME TypeOK, NEW enabled \in BOOLEAN, TestingTick(enabled)
  PROVE  TypeOK'
<1>1. ASSUME NEW aux_closed \in BOOLEAN, TestingPreClosed(enabled, aux_closed)
      PROVE  TypeOK'
  <2>1. PICK s \in ContactorStates : Remain \/ Transition(s)
    BY <1>1, TestingStateNames DEF TestingPreClosed, TestingStates
  <2>2. critical' \in SUBSET ContactorEvents
    BY <1>1, SupervisedType, ConfirmType DEF TestingPreClosed, ContactorEvents
  <2> QED
    BY <1>1, <2>1, <2>2, TickTypes DEF TestingPreClosed, In, TypeOK, Coils
<1>2. ASSUME NEW s, NEW next \in TestingStates, NEW energized \in BOOLEAN,
             NEW pos_open \in BOOLEAN, NEW neg_open \in BOOLEAN,
             WeldTest(s, next, enabled, energized, pos_open, neg_open)
      PROVE  TypeOK'
  <2>1. PICK t \in ContactorStates : Remain \/ Transition(t)
    BY <1>2, TestingStateNames DEF WeldTest
  <2>2. critical' \in SUBSET ContactorEvents
    <3>1. Confirm(Supervised(enabled), pos_open, "POS_STUCK_CLOSED")
            \in SUBSET ContactorEvents
      BY SupervisedType, ConfirmType DEF ContactorEvents
    <3>2. Confirm(Confirm(Supervised(enabled), pos_open, "POS_STUCK_CLOSED"),
                  neg_open, "NEG_STUCK_CLOSED") \in SUBSET ContactorEvents
      BY <3>1, ConfirmType DEF ContactorEvents
    <3> QED
      BY <1>2, <3>2, SupervisedType DEF WeldTest
  <2>3. CountClosingFailed \/ UNCHANGED closing_failures
    BY <1>2 DEF WeldTest
  <2>4. coils' \in SUBSET Coils
    BY <1>2, SetPosPreNegValues DEF WeldTest, Off
  <2> QED
    BY <1>2, <2>1, <2>2, <2>3, <2>4, TickTypes DEF WeldTest, In, TypeOK
<1>3. ASSUME NEW s, NEW request \in {NegAlone, PosAlone},
             NEW next \in {"TESTING_POS_OPEN", "PRECHARGING_INIT"},
             NEW seems_closed \in BOOLEAN,
             CloseTest(s, request, next, enabled, seems_closed)
      PROVE  TypeOK'
  <2>1. PICK t \in ContactorStates : Remain \/ Transition(t)
    BY <1>3, TestingStateNames DEF CloseTest, TestingStates
  <2>2. CountClosingFailed \/ UNCHANGED closing_failures
    BY <1>3 DEF CloseTest
  <2>3. coils' \in SUBSET Coils
    BY <1>3, SetPosPreNegValues DEF CloseTest, Coils
  <2> QED
    BY <1>3, <2>1, <2>2, <2>3, TickTypes, SupervisedType DEF CloseTest, In, TypeOK
<1>4. CASE Failed("TESTING_FAILED", FailedTestWait)
  <2>1. Remain \/ Transition("OPEN")
    BY <1>4 DEF Failed
  <2>2. coils' \in SUBSET Coils
    BY <1>4, SetPosPreNegValues DEF Failed, Off
  <2> QED
    BY <1>4, <2>1, <2>2, TestingStateNames, TickTypes DEF Failed, In, TypeOK
<1> QED
  BY <1>1, <1>2, <1>3, <1>4 DEF TestingTick, TestingStates

LEMMA PrechargingType ==
  ASSUME TypeOK, NEW enabled \in BOOLEAN,
         \/ \E aux_closed \in BOOLEAN : PrechargingInit(enabled, aux_closed)
         \/ \E result \in PrechargeResults : Precharging(enabled, result)
         \/ Failed("PRECHARGE_FAILED", FailedPrechargeWait)
  PROVE  TypeOK'
<1>1. {"OPEN", "CLOSED", "PRECHARGING", "PRECHARGE_FAILED"} \subseteq ContactorStates
  BY DEF ContactorStates, PrechargingStates, FailedStates
<1>2. coils' \in SUBSET Coils
  <2>1. coils' \in {Off, FirstCoils, PrechargePath}
    BY SetPosPreNegValues DEF PrechargingInit, Precharging, Failed
  <2> QED
    BY <2>1, CoilSets DEF Off
<1>3. ASSUME NEW aux_closed \in BOOLEAN, PrechargingInit(enabled, aux_closed)
      PROVE  TypeOK'
  <2>1. PICK s \in ContactorStates : Remain \/ Transition(s)
    BY <1>1, <1>3 DEF PrechargingInit
  <2>2. critical' \in SUBSET ContactorEvents
    BY <1>3, SupervisedType, ConfirmType DEF PrechargingInit, ContactorEvents
  <2> QED
    BY <1>2, <1>3, <2>1, <2>2, TickTypes DEF PrechargingInit, In, TypeOK
<1>4. ASSUME NEW result \in PrechargeResults, Precharging(enabled, result)
      PROVE  TypeOK'
  <2>1. PICK s \in ContactorStates : Remain \/ Transition(s)
    BY <1>1, <1>4 DEF Precharging
  <2>2. critical' \in SUBSET ContactorEvents
    BY <1>4, SupervisedType, LogPrechargeType DEF Precharging
  <2>3. CountClosingFailed \/ UNCHANGED closing_failures
    BY <1>4 DEF Precharging
  <2> QED
    BY <1>2, <1>4, <2>1, <2>2, <2>3, TickTypes DEF Precharging, In, TypeOK
<1>5. CASE Failed("PRECHARGE_FAILED", FailedPrechargeWait)
  <2>1. Remain \/ Transition("OPEN")
    BY <1>5 DEF Failed
  <2> QED
    BY <1>1, <1>2, <1>5, <2>1, TickTypes DEF Failed, In, TypeOK
<1> QED
  BY <1>3, <1>4, <1>5

LEMMA CalibratingType ==
  ASSUME TypeOK, NEW enabled \in BOOLEAN, CalibratingTick(enabled)
  PROVE  TypeOK'
<1>1. coils' \in SUBSET Coils
  <2>1. {Off, FirstCoils, PrechargePath, AllClosed, {"neg"}, {"pre", "neg"}}
          \subseteq SUBSET Coils
    BY CoilSets DEF Off, AllClosed
  <2>2. coils' \in {Off, FirstCoils, PrechargePath, AllClosed, {"neg"}, {"pre", "neg"}, coils}
    BY SetPosPreNegValues
    DEF CalibratingTick, CalibratingWait, CalibratingPrecharge, CalibratingHold,
        CalibratingOnlyNegInit
  <2> QED
    BY <2>1, <2>2 DEF TypeOK
<1>2. PICK s \in ContactorStates : Remain \/ Transition(s)
  BY CalibratingStateNames
  DEF CalibratingTick, CalibratingWait, CalibratingPrecharge, CalibratingHold,
      CalibratingOnlyNegInit, CalibratingStates
<1>3. /\ critical' = Supervised(enabled)
      /\ enable_current' = FALSE
      /\ UNCHANGED << contactor_req, closing_failures, current >>
  BY DEF CalibratingTick, CalibratingWait, CalibratingPrecharge, CalibratingHold,
         CalibratingOnlyNegInit, In
<1> QED
  BY <1>1, <1>2, <1>3, SupervisedType, TickTypes DEF TypeOK

\* contactor_sm_tick() and everything around it keep every variable in its type.
THEOREM TypeCorrect == Spec => []TypeOK
<1>1. Init => TypeOK
  <2>1. /\ "OPEN" \in ContactorStates /\ "NULL" \in ContactorRequests
        /\ 0 \in 0..ClosingLeeway
    BY TimeAssumption DEF ContactorStates, ContactorRequests, TimeAssumption
  <2>2. 0 \in 0..Deadline("OPEN")
    BY <2>1, DeadlineType
  <2> QED
    BY <2>1, <2>2 DEF Init, TypeOK, Off
<1>2. TypeOK /\ [Next]_contactorVars => TypeOK'
  <2> SUFFICES ASSUME TypeOK, [Next]_contactorVars
               PROVE  TypeOK'
    OBVIOUS
  <2>1. CASE Tick
    BY <2>1, OpenType, ClosedType, TestingType, PrechargingType, CalibratingType
    DEF Tick, ContactorTick
  <2>2. CASE \E r \in ContactorRequests \ {"NULL"} : Request(r)
    BY <2>2 DEF Request, TypeOK
  <2>3. CASE \E reading \in Currents \union {Stale} : ReadCurrent(reading)
    BY <2>3 DEF ReadCurrent, TypeOK
  <2>4. CASE Escalate
    BY <2>4 DEF Escalate, TypeOK
  <2>5. CASE Wait
    BY <2>5, AgeType DEF Wait, TypeOK
  <2>6. CASE Reboot
    <3>1. /\ "OPEN" \in ContactorStates /\ "NULL" \in ContactorRequests
          /\ 0 \in 0..ClosingLeeway
      BY TimeAssumption DEF ContactorStates, ContactorRequests, TimeAssumption
    <3>2. /\ contactor_state' \in ContactorStates
          /\ contactor_elapsed' \in 0..Deadline(contactor_state')
      BY <2>6, <3>1, TransitionType DEF Reboot
    <3> QED
      BY <2>6, <3>1, <3>2 DEF Reboot, TypeOK, Off
  <2>7. CASE UNCHANGED contactorVars
    BY <2>7 DEF contactorVars, TypeOK
  <2> QED
    BY <2>1, <2>2, <2>3, <2>4, <2>5, <2>6, <2>7 DEF Next
<1> QED
  BY <1>1, <1>2, PTL DEF Spec

-------------------------------------------------------------------------------
(* The outputs.  For each group of cases: they keep OutputsFollowState, and  *)
(* what they do to the coils is safe.                                       *)

SafeStep == TurnsOnAtMostOne /\ ClosesAfterPrecharge /\ OpensWithoutCurrent

\* Turning everything off is safe where current is not allowed.
LEMMA OffIsSafe ==
  ASSUME coils' = Off, ~enable_current
  PROVE  SafeStep
BY DEF SafeStep, TurnsOnAtMostOne, ClosesAfterPrecharge, OpensWithoutCurrent, Off,
       AllClosed, Coils

\* So is turning on a single coil, or the positive main with FC+, that is not the
\* bypass of two closed mains.
LEMMA OneCoilIsSafe ==
  ASSUME NEW on, coils' \subseteq coils \union on, on = PosCoils \/ \E c : on = {c},
         coils' # AllClosed, ~enable_current
  PROVE  SafeStep
<1>1. TurnsOnAtMostOne
  BY DEF TurnsOnAtMostOne, PosCoils
<1> QED
  BY <1>1 DEF SafeStep, ClosesAfterPrecharge, OpensWithoutCurrent

\* Going on from the first main to the precharge turns on the other one.
LEMMA PrechargeIsSafe ==
  ASSUME coils \in {FirstCoils, PrechargePath}, coils' = PrechargePath, ~enable_current
  PROVE  SafeStep
<1>1. coils' # AllClosed
  BY CoilSets
<1>2. CASE FirstCoils = PosCoils
  BY <1>1, <1>2, CoilSets, OneCoilIsSafe
<1>3. CASE FirstCoils = {"neg"}
  BY <1>1, <1>3, CoilSets, OneCoilIsSafe
<1> QED
  BY <1>2, <1>3, CoilSets

\* And from the precharge to closed, only the bypass.
LEMMA BypassIsSafe ==
  ASSUME coils \in {PrechargePath, AllClosed}, coils' = AllClosed,
         coils # AllClosed => contactor_state \in {"CLOSED", "CALIBRATING_CLOSED"}
  PROVE  SafeStep
<1>1. coils' \ coils \subseteq {"pre"}
  BY CoilSets
<1> QED
  BY <1>1 DEF SafeStep, TurnsOnAtMostOne, ClosesAfterPrecharge, OpensWithoutCurrent

\* FC+ follows the positive main in every set of coils there is.
LEMMA FcPosFollows ==
  ASSUME coils' \in {Off, {"pre"}, {"neg"}, {"pre", "neg"}, FirstCoils, PosCoils,
                     PrechargePath, AllClosed}
  PROVE  FcFollowsPos'
<1>1. "fc_pos" \in coils' <=> FcPosContactor /\ "pos" \in coils'
  BY CoilSets DEF Off
<1> QED
  BY <1>1 DEF FcFollowsPos

LEMMA OpenOutputs ==
  ASSUME TypeOK, OutputsFollowState, NEW enabled \in BOOLEAN,
         AbortToOpen(enabled) \/ Open(enabled)
  PROVE  OutputsFollowState' /\ SafeStep
<1>1. coils' = Off /\ enable_current' = FALSE
  BY SetPosPreNegValues DEF AbortToOpen, Open, In
<1>2. contactor_state # "CLOSED"
  BY DEF AbortToOpen, Aborts, Abortable, TestingStates, PrechargingStates,
         CalibratingStates, Open, In
<1>3. contactor_state' \in {"OPEN", "TESTING_PRE_CLOSED", "CALIBRATING",
                            "CALIBRATING_ONLY_NEG_INIT"}
  BY DEF AbortToOpen, Open, In, AfterOpen, ClosingRequests, Transition, Remain
<1>4. OutputsFollowState'
  BY <1>1, <1>3, FcPosFollows DEF OutputsFollowState
<1> QED
  BY <1>1, <1>2, <1>4, OffIsSafe DEF OutputsFollowState

LEMMA ClosedOutputs ==
  ASSUME TypeOK, OutputsFollowState, NEW enabled \in BOOLEAN,
         \/ \E staying \in BOOLEAN : Closed(enabled, staying)
         \/ AwaitingOpen(enabled)
  PROVE  OutputsFollowState' /\ SafeStep
<1>1. coils' = AllClosed
  BY SetPosPreNegValues DEF Closed, AwaitingOpen
<1>2. coils \in {PrechargePath, AllClosed}
  BY DEF Closed, AwaitingOpen, In, OutputsFollowState
<1>3. contactor_state' \in {"CLOSED", "AWAITING_OPEN", "OPEN"}
  BY DEF Closed, AwaitingOpen, In, Transition, Remain
<1>4. enable_current' => contactor_state' = "CLOSED"
  BY DEF Closed, AwaitingOpen, In, Transition, Remain
<1>5. OutputsFollowState'
  BY <1>1, <1>3, <1>4, FcPosFollows DEF OutputsFollowState
<1>6. coils # AllClosed => contactor_state = "CLOSED"
  BY DEF Closed, AwaitingOpen, In, OutputsFollowState
<1>7. SafeStep
  BY <1>1, <1>2, <1>6, BypassIsSafe
<1> QED
  BY <1>5, <1>7

LEMMA TestingOutputs ==
  ASSUME TypeOK, OutputsFollowState, NEW enabled \in BOOLEAN, TestingTick(enabled)
  PROVE  OutputsFollowState' /\ SafeStep
<1>1. contactor_state # "CLOSED" /\ enable_current' = FALSE
  BY DEF TestingTick, TestingPreClosed, WeldTest, CloseTest, Failed, In
<1>2. ~enable_current
  BY <1>1 DEF OutputsFollowState
<1>3. ASSUME NEW aux_closed \in BOOLEAN, TestingPreClosed(enabled, aux_closed)
      PROVE  OutputsFollowState' /\ SafeStep
  <2>1. coils' = {"pre"} /\ coils \in {Off, {"pre"}}
    BY <1>3 DEF TestingPreClosed, In, OutputsFollowState
  <2>2. contactor_state' \in {"TESTING_PRE_CLOSED", "TESTING_NEG_OPEN", "TESTING_FAILED"}
    BY <1>3 DEF TestingPreClosed, In, Transition, Remain
  <2>3. OutputsFollowState'
    BY <1>1, <2>1, <2>2, FcPosFollows, CoilSets DEF OutputsFollowState
  <2> QED
    BY <1>2, <2>1, <2>3, OneCoilIsSafe, CoilSets
<1>4. ASSUME NEW s, NEW next, NEW energized \in BOOLEAN,
             NEW pos_open \in BOOLEAN, NEW neg_open \in BOOLEAN,
             WeldTest(s, next, enabled, energized, pos_open, neg_open),
             \/ s = "TESTING_NEG_OPEN" /\ next = "TESTING_NEG_CLOSED"
             \/ s = "TESTING_POS_OPEN" /\ next = "TESTING_POS_CLOSED"
      PROVE  OutputsFollowState' /\ SafeStep
  <2>1. coils' = Off
    BY <1>4, SetPosPreNegValues DEF WeldTest
  <2>2. contactor_state' \in {s, next, "PRECHARGING_INIT", "TESTING_FAILED"}
    BY <1>4 DEF WeldTest, In, Transition, Remain
  <2>3. OutputsFollowState'
    BY <1>1, <1>4, <2>1, <2>2, FcPosFollows, CoilSets DEF OutputsFollowState
  <2> QED
    BY <1>2, <2>1, <2>3, OffIsSafe
<1>5. ASSUME NEW seems_closed \in BOOLEAN,
             CloseTest("TESTING_NEG_CLOSED", NegAlone, "TESTING_POS_OPEN", enabled, seems_closed)
      PROVE  OutputsFollowState' /\ SafeStep
  <2>1. coils' = {"neg"} /\ coils \in {Off, {"neg"}}
    BY <1>5, SetPosPreNegValues DEF CloseTest, In, OutputsFollowState
  <2>2. contactor_state' \in {"TESTING_NEG_CLOSED", "TESTING_POS_OPEN", "TESTING_FAILED"}
    BY <1>5 DEF CloseTest, In, Transition, Remain
  <2>3. OutputsFollowState'
    BY <1>1, <2>1, <2>2, FcPosFollows, CoilSets DEF OutputsFollowState
  <2> QED
    BY <1>2, <2>1, <2>3, OneCoilIsSafe, CoilSets
<1>6. ASSUME NEW seems_closed \in BOOLEAN,
             CloseTest("TESTING_POS_CLOSED", PosAlone, "PRECHARGING_INIT", enabled, seems_closed)
      PROVE  OutputsFollowState' /\ SafeStep
  <2>1. coils' = PosCoils /\ coils \in {Off, PosCoils}
    BY <1>6, SetPosPreNegValues DEF CloseTest, In, OutputsFollowState
  <2>2. contactor_state' \in {"TESTING_POS_CLOSED", "PRECHARGING_INIT", "TESTING_FAILED"}
    BY <1>6 DEF CloseTest, In, Transition, Remain
  <2>3. OutputsFollowState'
    BY <1>1, <2>1, <2>2, FcPosFollows, CoilSets DEF OutputsFollowState
  <2> QED
    BY <1>2, <2>1, <2>3, OneCoilIsSafe, CoilSets
<1>7. CASE Failed("TESTING_FAILED", FailedTestWait)
  <2>1. coils' = Off /\ contactor_state' \in {"TESTING_FAILED", "OPEN"}
    BY <1>7, SetPosPreNegValues DEF Failed, In, Transition, Remain
  <2>2. OutputsFollowState'
    BY <1>1, <2>1, FcPosFollows DEF OutputsFollowState
  <2> QED
    BY <1>2, <2>1, <2>2, OffIsSafe
<1> QED
  BY <1>3, <1>4, <1>5, <1>6, <1>7 DEF TestingTick

LEMMA PrechargingOutputs ==
  ASSUME TypeOK, OutputsFollowState, NEW enabled \in BOOLEAN,
         \/ \E aux_closed \in BOOLEAN : PrechargingInit(enabled, aux_closed)
         \/ \E result \in PrechargeResults : Precharging(enabled, result)
         \/ Failed("PRECHARGE_FAILED", FailedPrechargeWait)
  PROVE  OutputsFollowState' /\ SafeStep
<1>1. contactor_state # "CLOSED" /\ enable_current' = FALSE
  BY DEF PrechargingInit, Precharging, Failed, In
<1>2. ~enable_current
  BY <1>1 DEF OutputsFollowState
<1>3. ASSUME NEW aux_closed \in BOOLEAN, PrechargingInit(enabled, aux_closed)
      PROVE  OutputsFollowState' /\ SafeStep
  <2>1. coils' = FirstCoils
    BY <1>3, SetPosPreNegValues DEF PrechargingInit
  <2>2. contactor_state' \in {"PRECHARGING_INIT", "PRECHARGING", "PRECHARGE_FAILED"}
    BY <1>3 DEF PrechargingInit, In, Transition, Remain
  <2>3. OutputsFollowState'
    BY <1>1, <2>1, <2>2, FcPosFollows, CoilSets DEF OutputsFollowState
  <2> QED
    BY <1>2, <2>1, <2>3, OneCoilIsSafe, CoilSets
<1>4. ASSUME NEW result \in PrechargeResults, Precharging(enabled, result)
      PROVE  OutputsFollowState' /\ SafeStep
  <2>1. coils' = PrechargePath /\ coils \in {FirstCoils, PrechargePath}
    BY <1>4, SetPosPreNegValues DEF Precharging, In, OutputsFollowState
  <2>2. contactor_state' \in {"PRECHARGING", "CLOSED", "PRECHARGE_FAILED"}
    BY <1>4 DEF Precharging, In, Transition, Remain
  <2>3. OutputsFollowState'
    BY <1>1, <2>1, <2>2, FcPosFollows, CoilSets DEF OutputsFollowState
  <2> QED
    BY <1>2, <2>1, <2>3, PrechargeIsSafe
<1>5. CASE Failed("PRECHARGE_FAILED", FailedPrechargeWait)
  <2>1. coils' = Off /\ contactor_state' \in {"PRECHARGE_FAILED", "OPEN"}
    BY <1>5, SetPosPreNegValues DEF Failed, In, Transition, Remain
  <2>2. OutputsFollowState'
    BY <1>1, <2>1, FcPosFollows DEF OutputsFollowState
  <2> QED
    BY <1>2, <2>1, <2>2, OffIsSafe
<1> QED
  BY <1>3, <1>4, <1>5

LEMMA CalibratingOutputs ==
  ASSUME TypeOK, OutputsFollowState, NEW enabled \in BOOLEAN, CalibratingTick(enabled)
  PROVE  OutputsFollowState' /\ SafeStep
<1>1. contactor_state # "CLOSED" /\ enable_current' = FALSE
  BY DEF CalibratingTick, CalibratingWait, CalibratingPrecharge, CalibratingHold,
         CalibratingOnlyNegInit, In
<1>2. ~enable_current
  BY <1>1 DEF OutputsFollowState
<1>3. CASE CalibratingWait("CALIBRATING", {}, "CALIBRATING_PRECHARGE_INIT", enabled)
  <2>1. /\ coils' = Off
        /\ contactor_state' \in {"CALIBRATING", "CALIBRATING_PRECHARGE_INIT"}
    BY <1>3, SetPosPreNegValues DEF CalibratingWait, In, Transition, Remain
  <2>2. OutputsFollowState'
    BY <1>1, <2>1, FcPosFollows DEF OutputsFollowState
  <2> QED
    BY <1>2, <2>1, <2>2, OffIsSafe
<1>4. CASE CalibratingWait("CALIBRATING_PRECHARGE_INIT", FirstMain,
                           "CALIBRATING_PRECHARGE", enabled)
  <2>1. /\ coils' = FirstCoils
        /\ contactor_state' \in {"CALIBRATING_PRECHARGE_INIT", "CALIBRATING_PRECHARGE"}
    BY <1>4, SetPosPreNegValues DEF CalibratingWait, In, Transition, Remain
  <2>2. OutputsFollowState'
    BY <1>1, <2>1, FcPosFollows, CoilSets DEF OutputsFollowState
  <2> QED
    BY <1>2, <2>1, <2>2, OneCoilIsSafe, CoilSets
<1>5. CASE CalibratingPrecharge(enabled)
  <2>1. coils' = PrechargePath /\ coils \in {FirstCoils, PrechargePath}
    BY <1>5, SetPosPreNegValues DEF CalibratingPrecharge, In, OutputsFollowState
  <2>2. contactor_state' \in {"CALIBRATING_PRECHARGE", "CALIBRATING_CLOSED", "OPEN"}
    BY <1>5 DEF CalibratingPrecharge, In, Transition, Remain
  <2>3. OutputsFollowState'
    BY <1>1, <2>1, <2>2, FcPosFollows, CoilSets DEF OutputsFollowState
  <2> QED
    BY <1>2, <2>1, <2>3, PrechargeIsSafe
<1>6. CASE CalibratingHold("CALIBRATING_CLOSED", {"pos", "neg"}, enabled)
  <2>1. /\ contactor_state = "CALIBRATING_CLOSED" /\ coils' = AllClosed
        /\ coils \in {PrechargePath, AllClosed}
    BY <1>6, SetPosPreNegValues DEF CalibratingHold, In, OutputsFollowState
  <2>2. contactor_state' \in {"CALIBRATING_CLOSED", "OPEN"}
    BY <1>6 DEF CalibratingHold, In, Transition, Remain
  <2>3. OutputsFollowState'
    BY <1>1, <2>1, <2>2, FcPosFollows, CoilSets DEF OutputsFollowState
  <2>4. SafeStep
    BY <2>1, BypassIsSafe
  <2> QED
    BY <2>3, <2>4
<1>7. CASE CalibratingOnlyNegInit(enabled)
  <2>1. /\ coils \in (IF PrechargeOnNegative THEN {Off, {"neg"}} ELSE {Off})
        /\ coils' = IF PrechargeOnNegative THEN {"neg"} ELSE Off
    BY <1>7, SetPosPreNegValues DEF CalibratingOnlyNegInit, In, OutputsFollowState
  <2>2. /\ contactor_state' \in {"CALIBRATING_ONLY_NEG_INIT", "CALIBRATING_ONLY_NEG"}
    BY <1>7 DEF CalibratingOnlyNegInit, In, Transition, Remain
  <2>3. OutputsFollowState'
    BY <1>1, <2>1, <2>2, FcPosFollows, CoilSets DEF OutputsFollowState
  <2> QED
    BY <1>2, <2>1, <2>3, OneCoilIsSafe, CoilSets
<1>8. CASE CalibratingHold("CALIBRATING_ONLY_NEG", {"neg"}, enabled)
  <2>1. /\ coils \in IF PrechargeOnNegative THEN {{"neg"}, {"pre", "neg"}}
                     ELSE {Off, {"neg"}}
        /\ coils' = IF PrechargeOnNegative THEN {"pre", "neg"} ELSE {"neg"}
    BY <1>8, SetPosPreNegValues DEF CalibratingHold, In, OutputsFollowState
  <2>2. contactor_state' \in {"CALIBRATING_ONLY_NEG", "OPEN"}
    BY <1>8 DEF CalibratingHold, In, Transition, Remain
  <2>3. OutputsFollowState'
    BY <1>1, <2>1, <2>2, FcPosFollows, CoilSets DEF OutputsFollowState
  <2>4. coils' # AllClosed
    BY <2>1, CoilSets
  <2>5. CASE PrechargeOnNegative
    BY <1>2, <2>1, <2>3, <2>4, <2>5, OneCoilIsSafe, CoilSets
  <2>6. CASE ~PrechargeOnNegative
    BY <1>2, <2>1, <2>3, <2>4, <2>6, OneCoilIsSafe, CoilSets
  <2> QED
    BY <2>5, <2>6
<1> QED
  BY <1>3, <1>4, <1>5, <1>6, <1>7, <1>8 DEF CalibratingTick

\* One step of the machine or of what is around it.  Only a tick and a reset
\* touch the coils, and a reset turns them off whatever current is allowed.
LEMMA NextOutputs ==
  ASSUME TypeOK, OutputsFollowState, [Next]_contactorVars
  PROVE  OutputsFollowState' /\ SafeStep
<1>1. CASE Tick
  BY <1>1, OpenOutputs, ClosedOutputs, TestingOutputs, PrechargingOutputs,
     CalibratingOutputs
  DEF Tick, ContactorTick
<1>2. ASSUME UNCHANGED << contactor_state, enable_current, coils >>
      PROVE  OutputsFollowState' /\ SafeStep
  BY <1>2 DEF OutputsFollowState, FcFollowsPos, SafeStep, TurnsOnAtMostOne, ClosesAfterPrecharge,
              OpensWithoutCurrent
<1>3. CASE Reboot
  <2>1. contactor_state' = "OPEN" /\ enable_current' = FALSE /\ coils' = Off
    BY <1>3 DEF Reboot, Transition
  <2>2. OutputsFollowState'
    BY <2>1, FcPosFollows DEF OutputsFollowState
  <2> QED
    BY <1>3, <2>1, <2>2 DEF SafeStep, TurnsOnAtMostOne, ClosesAfterPrecharge,
       OpensWithoutCurrent, Off, AllClosed, Coils
<1>4. CASE \/ \E r \in ContactorRequests \ {"NULL"} : Request(r)
           \/ \E reading \in Currents \union {Stale} : ReadCurrent(reading)
           \/ Escalate \/ Wait \/ UNCHANGED contactorVars
  BY <1>2, <1>4 DEF Request, ReadCurrent, Escalate, Wait, contactorVars
<1> QED
  BY <1>1, <1>3, <1>4 DEF Next

LEMMA InitOutputs == Init => OutputsFollowState
BY DEF Init, OutputsFollowState, FcFollowsPos, Off

\* In every state of the machine the coils are those its case of the switch
\* sets or those of the state before it, and current is allowed only in CLOSED.
THEOREM OutputsCorrect == Spec => []OutputsFollowState
<1>1. TypeOK /\ OutputsFollowState /\ [Next]_contactorVars => OutputsFollowState'
  BY NextOutputs
<1> QED
  BY <1>1, InitOutputs, TypeCorrect, PTL DEF Spec

\* No step of contactor_sm_tick turns two coils on, in any build, but for FC+
\* with the positive main where the driver has them switch together.
THEOREM OneCoilHolds == Spec => OneCoilAtATime
<1>1. TypeOK /\ OutputsFollowState /\ [Next]_contactorVars
        => [TurnsOnAtMostOne]_contactorVars
  BY NextOutputs DEF SafeStep
<1> QED
  BY <1>1, TypeCorrect, OutputsCorrect, PTL DEF Spec, OneCoilAtATime

\* The pack never reaches the output past the precharge resistor: both mains have
\* been on through it in a state that checks the precharge.
THEOREM BypassHolds == Spec => BypassOnlyAfterPrecharge
<1>1. TypeOK /\ OutputsFollowState /\ [Next]_contactorVars
        => [ClosesAfterPrecharge]_contactorVars
  BY NextOutputs DEF SafeStep
<1> QED
  BY <1>1, TypeCorrect, OutputsCorrect, PTL DEF Spec, BypassOnlyAfterPrecharge

\* Closed contactors only let go after a tick that no longer allowed current,
\* unless the processor resets.
THEOREM CurrentDisallowedHolds == Spec => CurrentDisallowedBeforeOpening
<1>1. TypeOK /\ OutputsFollowState /\ [Next]_contactorVars
        => [OpensWithoutCurrent]_contactorVars
  BY NextOutputs DEF SafeStep
<1> QED
  BY <1>1, TypeCorrect, OutputsCorrect, PTL DEF Spec, CurrentDisallowedBeforeOpening

-------------------------------------------------------------------------------
(* Failed closings.                                                         *)

FailureCounts ==
  contactor_state' \in FailedStates /\ contactor_state \notin FailedStates
    => \/ closing_failures' > closing_failures
       \/ closing_failures' = ClosingLeeway
       \/ critical' # {}

\* A counted failure shows in the count, which stops at its leeway.
LEMMA CountedShows ==
  ASSUME TypeOK, CountClosingFailed
  PROVE  closing_failures' > closing_failures \/ closing_failures' = ClosingLeeway
BY TimeAssumption DEF TypeOK, TimeAssumption, CountClosingFailed

\* A check that fails raises its event.
LEMMA ConfirmRaises ==
  ASSUME NEW events, NEW event
  PROVE  Confirm(events, FALSE, event) # {}
BY DEF Confirm

\* Only the tests and the precharge lead to a failed state.
LEMMA FailuresAreOfTests ==
  ASSUME NEW enabled \in BOOLEAN,
         \/ AbortToOpen(enabled) \/ Open(enabled)
         \/ \E staying \in BOOLEAN : Closed(enabled, staying)
         \/ AwaitingOpen(enabled) \/ CalibratingTick(enabled)
         \/ Failed("TESTING_FAILED", FailedTestWait)
         \/ Failed("PRECHARGE_FAILED", FailedPrechargeWait)
  PROVE  FailureCounts
<1>1. CASE \/ AbortToOpen(enabled) \/ Open(enabled)
           \/ \E staying \in BOOLEAN : Closed(enabled, staying)
           \/ AwaitingOpen(enabled)
  <2>1. contactor_state' \in {contactor_state, "OPEN", "AWAITING_OPEN", "TESTING_PRE_CLOSED",
                              "CALIBRATING", "CALIBRATING_ONLY_NEG_INIT"}
    BY <1>1 DEF AbortToOpen, Open, Closed, AwaitingOpen, AfterOpen, ClosingRequests, In,
      Transition, Remain
  <2> QED
    BY <2>1 DEF FailureCounts, FailedStates
<1>2. CASE CalibratingTick(enabled)
  <2>1. contactor_state' \in {contactor_state, "OPEN"} \union CalibratingStates
    BY <1>2 DEF CalibratingTick, CalibratingWait, CalibratingPrecharge, CalibratingHold,
      CalibratingOnlyNegInit, In, Transition, Remain, CalibratingStates
  <2> QED
    BY <2>1 DEF FailureCounts, FailedStates, CalibratingStates
<1>3. CASE \/ Failed("TESTING_FAILED", FailedTestWait)
           \/ Failed("PRECHARGE_FAILED", FailedPrechargeWait)
  BY <1>3 DEF Failed, In, FailureCounts, FailedStates
<1> QED
  BY <1>1, <1>2, <1>3

LEMMA TestsCountFailures ==
  ASSUME TypeOK, NEW enabled \in BOOLEAN, TestingTick(enabled)
  PROVE  FailureCounts
<1>1. ASSUME NEW aux_closed \in BOOLEAN, TestingPreClosed(enabled, aux_closed)
      PROVE  FailureCounts
  <2>1. CASE ~aux_closed /\ Timeout(TestWait)
    <3>1. critical' = Confirm(Supervised(enabled), FALSE, "PRE_STUCK_OPEN")
      BY <1>1, <2>1 DEF TestingPreClosed
    <3> QED
      BY <3>1, ConfirmRaises DEF FailureCounts
  <2>2. CASE aux_closed \/ ~Timeout(TestWait)
    <3>1. contactor_state' \in {contactor_state, "TESTING_NEG_OPEN"}
      BY <1>1, <2>2 DEF TestingPreClosed, Transition, Remain
    <3> QED
      BY <3>1 DEF FailureCounts, FailedStates
  <2> QED
    BY <2>1, <2>2
<1>2. ASSUME NEW s, NEW next \in TestingStates, NEW energized \in BOOLEAN,
             NEW pos_open \in BOOLEAN, NEW neg_open \in BOOLEAN,
             WeldTest(s, next, enabled, energized, pos_open, neg_open)
      PROVE  FailureCounts
  <2>1. \/ contactor_state' \in {contactor_state, "PRECHARGING_INIT"} \union TestingStates
        \/ CountClosingFailed
    BY <1>2 DEF WeldTest, Transition, Remain
  <2> QED
    BY <2>1, CountedShows DEF FailureCounts, FailedStates, TestingStates
<1>3. ASSUME NEW s, NEW request, NEW next \in {"TESTING_POS_OPEN", "PRECHARGING_INIT"},
             NEW seems_closed \in BOOLEAN,
             CloseTest(s, request, next, enabled, seems_closed)
      PROVE  FailureCounts
  <2>1. contactor_state' \in {contactor_state, next} \/ CountClosingFailed
    BY <1>3 DEF CloseTest, Transition, Remain
  <2> QED
    BY <2>1, CountedShows DEF FailureCounts, FailedStates
<1> QED
  BY <1>1, <1>2, <1>3, FailuresAreOfTests DEF TestingTick, TestingStates

LEMMA PrechargeCountsFailures ==
  ASSUME TypeOK, NEW enabled \in BOOLEAN,
         \/ \E aux_closed \in BOOLEAN : PrechargingInit(enabled, aux_closed)
         \/ \E result \in PrechargeResults : Precharging(enabled, result)
  PROVE  FailureCounts
<1>1. ASSUME NEW aux_closed \in BOOLEAN, PrechargingInit(enabled, aux_closed)
      PROVE  FailureCounts
  <2>1. CASE aux_closed
    <3>1. critical' = Confirm(Supervised(enabled), FALSE, "PRE_STUCK_CLOSED")
      BY <1>1, <2>1 DEF PrechargingInit
    <3> QED
      BY <3>1, ConfirmRaises DEF FailureCounts
  <2>2. CASE ~aux_closed
    <3>1. contactor_state' \in {contactor_state, "PRECHARGING"}
      BY <1>1, <2>2 DEF PrechargingInit, Transition, Remain
    <3> QED
      BY <3>1 DEF FailureCounts, FailedStates
  <2> QED
    BY <2>1, <2>2
<1>2. ASSUME NEW result \in PrechargeResults, Precharging(enabled, result)
      PROVE  FailureCounts
  <2>1. contactor_state' \in {contactor_state, "CLOSED"} \/ CountClosingFailed
    BY <1>2 DEF Precharging, Transition, Remain
  <2> QED
    BY <2>1, CountedShows DEF FailureCounts, FailedStates
<1> QED
  BY <1>1, <1>2

\* A closing that fails counts as one more failure or leaves an event that becomes FATAL
\* (contactors.c), for any waits and leeway: nothing retries for ever unnoticed.
THEOREM FailuresCount == Spec => FailedClosingIsCounted
<1>1. TypeOK /\ [Next]_contactorVars => [FailureCounts]_contactorVars
  <2>1. ASSUME TypeOK, Tick
        PROVE  FailureCounts
    BY <2>1, FailuresAreOfTests, TestsCountFailures, PrechargeCountsFailures
    DEF Tick, ContactorTick
  <2>2. ASSUME Next, ~Tick
        PROVE  FailureCounts
    <3>1. contactor_state' \in {contactor_state, "OPEN"}
      BY <2>2 DEF Next, Request, ReadCurrent, Escalate, Wait, Reboot, Transition
    <3> QED
      BY <3>1 DEF FailureCounts, FailedStates
  <2> QED
    BY <2>1, <2>2
<1> QED
  BY <1>1, TypeCorrect, PTL DEF Spec, FailedClosingIsCounted, FailureCounts

===============================================================================
