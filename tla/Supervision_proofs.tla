--------------------------- MODULE Supervision_proofs ---------------------------
(***************************************************************************)
(* Proofs about the supervisor watching the battery controller, for all     *)
(* delays, all combinations of faults and any behaviour of the controller:  *)
(* the time for which drivers stay enabled with a faulty cell is bounded,   *)
(* and so is the time for which contactors are driven whose drivers are     *)
(* disabled.                                                                *)
(***************************************************************************)
EXTENDS Supervision, TLAPS

(***************************************************************************)
(* The argument.  Two clocks limit the exposure while the drivers are       *)
(* enabled.  As long as the last scan is good, the fault is younger than    *)
(* that scan, and a scan older than ScanStaleDrop disables the drivers.     *)
(* Once a scan has shown the fault, the exposure was at most ScanStaleDrop  *)
(* when the violation began, and grows with the violation's age, which is   *)
(* below CellFaultDrop after every tick that leaves the drivers enabled.    *)
(***************************************************************************)

\* The types the argument needs; the controller's variables are left out.
WatchTypes ==
  /\ phase \in Phases
  /\ cells \in Cells /\ snooped \in Cells \union {NoScan}
  /\ sup_state \in SupStates
  /\ scan \in Cells \union {NoScan} /\ scan_age \in 0..ScanStaleDrop + 1
  /\ violating \in BOOLEAN /\ violation_age \in 0..CellFaultDrop
  /\ exposure \in Nat

\* A scan shows the cells as they are from the read to the end of the unit.
ScansAreCurrent ==
  /\ snooped # NoScan => phase \in {"bms", "snoop"} /\ snooped = cells
  /\ scan_age = 0 => phase \in {"serial", "decide", "time"} /\ scan = cells

ViolatingShowsScan == violating <=> scan \in {"low", "missing"}

\* Exposure needs a faulty cell and enabled drivers.
ExposureNeedsBoth ==
  /\ cells = "good" => exposure = 0
  /\ sup_state # "ON" /\ phase # "time" => exposure = 0

\* The two clocks.
YoungerThanScan ==
  sup_state = "ON" /\ scan = "good" => exposure = 0 \/ exposure < scan_age
GrowsWithViolation ==
  sup_state = "ON" /\ violating => exposure <= ScanStaleDrop + violation_age

\* What the tick that leaves the drivers enabled has checked.
CheckedByTick ==
  /\ sup_state = "ON" => scan # NoScan
  /\ sup_state = "ON" /\ phase = "time" =>
       /\ scan_age <= ScanStaleDrop
       /\ violating => violation_age < CellFaultDrop

ExposureInv ==
  /\ WatchTypes /\ ScansAreCurrent /\ ViolatingShowsScan /\ ExposureNeedsBoth
  /\ YoungerThanScan /\ GrowsWithViolation /\ CheckedByTick
  /\ ExposureBounded

-------------------------------------------------------------------------------

watched == << cells, snooped, sup_state, scan, scan_age, violating, violation_age,
              exposure >>

\* Initially there is no scan and the drivers are disabled.
LEMMA ExposureStarts ==
  ASSUME SupervisionInit
  PROVE  ExposureInv
<1> USE DelayAssumption DEF DelayAssumption
<1>1. /\ phase = "cells" /\ cells = "good" /\ snooped = "none" /\ exposure = 0
      /\ sup_state = "OFF" /\ scan = "none" /\ scan_age = ScanStaleDrop + 1
      /\ violating = FALSE /\ violation_age = 0
  BY DEF SupervisionInit, SupervisorInit, NoScan
<1>2. violating \in BOOLEAN /\ cells \in Cells /\ phase \in Phases /\ sup_state \in SupStates
  BY <1>1 DEF Phases, Cells, SupStates
<1>3. /\ snooped \in Cells \union {NoScan} /\ scan \in Cells \union {NoScan}
      /\ scan_age \in 0..ScanStaleDrop + 1 /\ violation_age \in 0..CellFaultDrop
      /\ exposure \in Nat
  BY <1>1 DEF NoScan
<1>4. WatchTypes
  BY <1>2, <1>3 DEF WatchTypes
<1> QED
  BY <1>1, <1>4
  DEF ExposureInv, ScansAreCurrent, ViolatingShowsScan, ExposureNeedsBoth,
      YoungerThanScan, GrowsWithViolation, CheckedByTick, ExposureBounded,
      LongestExposure, NoScan

\* Steps of the controller and of the link do not concern the argument, as long
\* as they stay on their side of the scan and of the tick.
LEMMA StepAside ==
  ASSUME ExposureInv, UNCHANGED watched, phase' \in Phases,
         phase = "time" <=> phase' = "time",
         phase \in {"bms", "snoop"} => phase' \in {"bms", "snoop"},
         phase \in {"serial", "decide", "time"} => phase' \in {"serial", "decide", "time"}
  PROVE  ExposureInv'
BY DEF watched, ExposureInv, WatchTypes, ScansAreCurrent, ViolatingShowsScan,
       ExposureNeedsBoth, YoungerThanScan, GrowsWithViolation, CheckedByTick,
       ExposureBounded, LongestExposure

\* Snooping a scan.
LEMMA ReadCellsKeeps ==
  ASSUME ExposureInv, ReadCells
  PROVE  ExposureInv'
BY DEF ReadCells, Goto, Phases, supervisorVars, world, history, ExposureInv, WatchTypes,
       ScansAreCurrent, ViolatingShowsScan, ExposureNeedsBoth, YoungerThanScan,
       GrowsWithViolation, CheckedByTick, ExposureBounded, LongestExposure

\* Cells fail and recover before they are read.
LEMMA CellsKeep ==
  ASSUME ExposureInv, CellsFail \/ CellsRecover
  PROVE  ExposureInv'
BY DelayAssumption
DEF DelayAssumption, CellsFail, CellsRecover, Phases, Cells, supervisorVars, history,
    ExposureInv, WatchTypes, ScansAreCurrent, ViolatingShowsScan, ExposureNeedsBoth,
    YoungerThanScan, GrowsWithViolation, CheckedByTick, ExposureBounded,
    LongestExposure

\* Taking the scan: a good one shows that there is no exposure, the first bad one
\* starts the violation with no more exposure than the last good one allows.
LEMMA PollSnoopKeeps ==
  ASSUME ExposureInv, PollSnoop
  PROVE  ExposureInv'
<1> USE DelayAssumption DEF DelayAssumption
<1>1. CASE snooped = NoScan
  <2>1. UNCHANGED watched /\ phase = "snoop" /\ phase' = "serial" /\ scan_age # 0
    BY <1>1 DEF PollSnoop, Goto, watched, supervisorVars, world, history, ExposureInv,
                ScansAreCurrent
  <2> QED
    BY <2>1, <1>1 DEF watched, Phases, ExposureInv, WatchTypes, ScansAreCurrent,
      ViolatingShowsScan, ExposureNeedsBoth, YoungerThanScan, GrowsWithViolation,
      CheckedByTick, ExposureBounded, LongestExposure
<1>2. CASE snooped # NoScan
  <2>1. /\ OnScan(snooped) /\ snooped = cells /\ snooped' = NoScan
        /\ phase' = "serial" /\ phase = "snoop"
        /\ UNCHANGED << cells, sup_state, exposure >>
    BY <1>2 DEF PollSnoop, Goto, world, history, ExposureInv, ScansAreCurrent, OnScan
  <2>2. WatchTypes'
    BY <2>1 DEF OnScan, ExposureInv, WatchTypes, Phases, Cells
  <2>3. ScansAreCurrent' /\ ViolatingShowsScan' /\ ExposureNeedsBoth' /\ CheckedByTick'
    BY <1>2, <2>1 DEF OnScan, ExposureInv, WatchTypes, Cells, NoScan, ScansAreCurrent,
                ViolatingShowsScan, ExposureNeedsBoth, CheckedByTick
  <2>4. YoungerThanScan'
    BY <2>1 DEF OnScan, ExposureInv, ExposureNeedsBoth, YoungerThanScan
  <2>5. GrowsWithViolation'
    <3> SUFFICES ASSUME sup_state' = "ON", violating'
                 PROVE  exposure' <= ScanStaleDrop + violation_age'
      BY DEF GrowsWithViolation
    <3>1. CASE violating
      BY <2>1, <3>1 DEF OnScan, ExposureInv, GrowsWithViolation
    <3>2. CASE ~violating
      <4>1. scan = "good"
        BY <2>1, <3>2 DEF ExposureInv, WatchTypes, Cells, ViolatingShowsScan,
                          CheckedByTick
      <4>2. exposure = 0 \/ exposure < scan_age
        BY <2>1, <4>1 DEF ExposureInv, YoungerThanScan
      <4> QED
        BY <2>1, <3>2, <4>2 DEF OnScan, ExposureInv, WatchTypes
    <3> QED
      BY <3>1, <3>2
  <2>6. ExposureBounded'
    BY <2>1 DEF ExposureInv, ExposureBounded, LongestExposure
  <2> QED
    BY <2>2, <2>3, <2>4, <2>5, <2>6 DEF ExposureInv
<1> QED
  BY <1>1, <1>2

\* Every outcome of the tick: drivers that stay enabled have passed its checks,
\* and drivers that get enabled start with no exposure.
LEMMA DecideKeeps ==
  ASSUME ExposureInv, Decide
  PROVE  ExposureInv'
<1> USE DelayAssumption DEF DelayAssumption
<1>1. /\ phase = "decide" /\ phase' = "time"
      /\ UNCHANGED << cells, snooped, scan, scan_age, violating, violation_age, exposure >>
  BY DEF Decide, Goto, SupervisorTick, world, history
<1>2. PICK agree \in BOOLEAN : SupervisorTick(agree)
  BY DEF Decide, Agreements
<1>3. /\ sup_state' \in SupStates
      /\ sup_state' = "ON" =>
           /\ scan # NoScan /\ scan_age <= ScanStaleDrop
           /\ violating => violation_age < CellFaultDrop
           /\ sup_state # "ON" => scan = "good" /\ exposure = 0
  <2>1. CASE StartOver
    BY <2>1 DEF StartOver, SupStates
  <2>2. CASE Enable(agree)
    BY <2>2, <1>1 DEF Enable, NothingBlocks, ExposureInv, WatchTypes, SupStates, NoScan,
                ViolatingShowsScan, ExposureNeedsBoth
  <2>3. CASE StayOn
    BY <2>3 DEF StayOn, CellFaultLasts, ExposureInv, WatchTypes, SupStates, CheckedByTick
  <2>4. CASE StayOff(agree) \/ Latch \/ ScansStopped \/ BmsGone \/ StayLatched
    BY <2>4 DEF StayOff, Latch, ScansStopped, BmsGone, StayLatched, SupStates
  <2> QED
    BY <1>2, <2>1, <2>2, <2>3, <2>4 DEF SupervisorTick
<1>4. WatchTypes' /\ ScansAreCurrent' /\ ViolatingShowsScan'
  BY <1>1, <1>3 DEF ExposureInv, WatchTypes, Phases, ScansAreCurrent, ViolatingShowsScan
<1>5. ExposureNeedsBoth' /\ CheckedByTick' /\ ExposureBounded'
  BY <1>1, <1>3 DEF ExposureInv, ExposureNeedsBoth, CheckedByTick, ExposureBounded,
                    LongestExposure
<1>6. YoungerThanScan' /\ GrowsWithViolation'
  BY <1>1, <1>3 DEF ExposureInv, WatchTypes, YoungerThanScan, GrowsWithViolation,
                    ViolatingShowsScan
<1> QED
  BY <1>4, <1>5, <1>6 DEF ExposureInv

\* Time: the exposure and the clock that limits it grow together.
LEMMA TimeKeeps ==
  ASSUME ExposureInv, Time
  PROVE  ExposureInv'
<1> USE DelayAssumption DEF DelayAssumption
<1>1. /\ phase = "time" /\ phase' = "cells"
      /\ scan_age' = AtMost(scan_age + 1, ScanStaleDrop + 1)
      /\ violation_age' = IF violating THEN AtMost(violation_age + 1, CellFaultDrop) ELSE 0
      /\ exposure' = IF sup_state = "ON" /\ cells # "good"
                     THEN AtMost(exposure + 1, LongestExposure + 1) ELSE 0
      /\ UNCHANGED << cells, snooped, sup_state, scan, violating >>
  BY DEF Time, Goto, SupervisorAges, world
<1>2. WatchTypes'
  BY <1>1 DEF ExposureInv, WatchTypes, Phases, AtMost, LongestExposure
<1>3. ScansAreCurrent' /\ ViolatingShowsScan' /\ ExposureNeedsBoth' /\ CheckedByTick'
  BY <1>1 DEF ExposureInv, WatchTypes, AtMost, ScansAreCurrent, ViolatingShowsScan,
              ExposureNeedsBoth, CheckedByTick
<1>4. YoungerThanScan'
  <2> SUFFICES ASSUME sup_state = "ON", scan = "good", cells # "good"
               PROVE  exposure' < scan_age'
    BY <1>1 DEF YoungerThanScan
  <2>1. scan_age # 0 /\ scan_age' = scan_age + 1 /\ exposure' <= exposure + 1
    BY <1>1 DEF ExposureInv, WatchTypes, ScansAreCurrent, CheckedByTick, AtMost,
                LongestExposure
  <2> QED
    BY <2>1, <1>1, <1>2 DEF ExposureInv, WatchTypes, YoungerThanScan
<1>5. GrowsWithViolation'
  <2> SUFFICES ASSUME sup_state = "ON", violating, cells # "good"
               PROVE  exposure' <= ScanStaleDrop + violation_age'
    BY <1>1, <1>2 DEF GrowsWithViolation, WatchTypes
  <2>1. violation_age' = violation_age + 1 /\ exposure' <= exposure + 1
    BY <1>1 DEF ExposureInv, WatchTypes, CheckedByTick, AtMost, LongestExposure
  <2> QED
    BY <2>1, <1>2 DEF ExposureInv, WatchTypes, GrowsWithViolation
<1>6. ExposureBounded'
  <2>1. CASE sup_state = "ON" /\ cells # "good"
    <3>1. scan = "good" \/ violating
      BY <2>1 DEF ExposureInv, WatchTypes, Cells, ViolatingShowsScan, CheckedByTick
    <3> QED
      BY <2>1, <3>1, <1>1, <1>2, <1>4, <1>5 DEF WatchTypes, YoungerThanScan,
        GrowsWithViolation, ExposureBounded, LongestExposure
  <2>2. CASE ~(sup_state = "ON" /\ cells # "good")
    BY <2>2, <1>1 DEF ExposureBounded, LongestExposure
  <2> QED
    BY <2>1, <2>2
<1> QED
  BY <1>2, <1>3, <1>4, <1>5, <1>6 DEF ExposureInv

\* Every step keeps the invariant, one case for each action.
LEMMA ExposureSteps ==
  ASSUME ExposureInv, [SupervisionNext]_supervisionVars
  PROVE  ExposureInv'
<1> USE DEF Goto, watched, supervisorVars, world, history, Phases
<1>1. CASE ReadNothing \/ ReadCellsPartly
  <2>1. scan_age # 0 /\ snooped = NoScan
    BY <1>1 DEF ReadNothing, ReadCellsPartly, ExposureInv, ScansAreCurrent
  <2> QED
    BY <1>1, <2>1, StepAside DEF ReadNothing, ReadCellsPartly
<1>2. CASE BmsLoop \/ BmsIdle
  BY <1>2, StepAside DEF BmsLoop, BmsIdle
<1>3. CASE PollSerial
  BY <1>3, StepAside DEF PollSerial, OnStatus
<1>4. CASE Boot \/ Hang \/ Resume \/ BmsReset \/ LoseStatus \/ LoseReply \/ Settle
  <2>1. UNCHANGED << watched, phase >> /\ phase \in Phases
    BY <1>4 DEF Boot, Hang, Resume, BmsReset, LoseStatus, LoseReply, Settle, ExposureInv,
                WatchTypes
  <2> QED
    BY <2>1, StepAside
<1>5. CASE UNCHANGED supervisionVars
  <2>1. UNCHANGED << watched, phase >> /\ phase \in Phases
    BY <1>5 DEF supervisionVars, ExposureInv, WatchTypes
  <2> QED
    BY <2>1, StepAside
<1> QED
  BY <1>1, <1>2, <1>3, <1>4, <1>5, ReadCellsKeeps, CellsKeep, PollSnoopKeeps, DecideKeeps,
     TimeKeeps DEF SupervisionNext, Run, Fault

\* The drivers are never enabled for longer than the two delays of
\* supervisor_logic.c while a cell is out of range or missing: whatever the
\* controller does, whichever frames and scans are lost, for all delays.
THEOREM ExposureHolds == SupervisionSpec => []ExposureBounded
<1>1. ExposureInv /\ [SupervisionNext]_supervisionVars => ExposureInv'
  BY ExposureSteps
<1>2. ExposureInv => ExposureBounded
  BY DEF ExposureInv
<1> QED
  BY ExposureStarts, <1>1, <1>2, PTL DEF SupervisionSpec

-------------------------------------------------------------------------------
(***************************************************************************)
(* Driving blind.  While the supervisor does not enable the drivers, no     *)
(* reply says that it does, so that the last one that did gets older with   *)
(* every unit that the contactors are driven blind.  When it does not count *)
(* any more, or another one has come, the next round raises the event, the  *)
(* one after that is in FAULT, and ForceOpen later the contactors open.     *)
(***************************************************************************)

\* The round of the controller is still to come in this unit.
BeforeRound == phase \in {"cells", "bms"}

BlindTypes ==
  /\ phase \in Phases /\ sup_state \in SupStates
  /\ faults \in FaultSets /\ mode \in {"up", "down"}
  /\ cut \in BOOLEAN /\ faulted \in BOOLEAN
  /\ fault_elapsed \in 0..ForceOpen
  /\ contactors \in {"OPEN", "CLOSED"}
  /\ reply_age \in 0..ReplyStale + 1
  /\ uptime \in Nat
  /\ blind \in Nat

\* Frames are taken in the round after they were sent, by a controller that runs.
FramesAreCurrent ==
  /\ status_wire # NoStatus => phase \in {"snoop", "serial"} /\ mode = "up"
  /\ got_status => phase = "decide" /\ mode = "up"
  /\ reply_wire # NoFrame =>
       phase \in {"time", "cells", "bms"} /\ mode = "up" /\ reply_wire = sup_state

\* A controller that does not run drives nothing, and in FAULT not for long.
DrivingIsRunning ==
  /\ contactors = "CLOSED" => mode = "up"
  /\ contactors = "CLOSED" /\ faulted /\ ~BeforeRound => fault_elapsed < ForceOpen
  /\ ~faulted => fault_elapsed = 0

\* Blindness needs both.
NotBlind ==
  /\ sup_state = "ON" /\ phase # "time" => blind = 0
  /\ contactors = "OPEN" /\ BeforeRound => blind = 0 \/ (mode = "down" /\ uptime = 0)

\* How long the contactors may have been driven blind, by what ends it.
BlindFor ==
  sup_state # "ON" /\ contactors = "CLOSED" =>
    /\ faulted => blind <= ReplyStale + 2 + fault_elapsed
    /\ ~faulted /\ cut => blind <= ReplyStale + 1 + (IF BeforeRound THEN 1 ELSE 0)
    /\ ~faulted /\ ~cut /\ ContactorsEnabled => blind <= reply_age
    /\ ~faulted /\ ~cut /\ ~ContactorsEnabled =>
         blind <= ReplyStale + (IF BeforeRound THEN 1 ELSE 0)

BlindInv ==
  /\ BlindTypes /\ FramesAreCurrent /\ DrivingIsRunning /\ NotBlind /\ BlindFor
  /\ BlindBounded

\* Where no controller hangs: one that does keeps driving until the watchdog resets it.
NoHangs == \A kinds \in FaultSets : "hang" \notin kinds

guarded == << sup_state, faults, status_wire, reply_wire, got_status, mode, uptime, cut,
              faulted, fault_elapsed, contactors, reply, reply_age, blind >>

LEMMA BlindStarts ==
  ASSUME NoHangs, SupervisionInit
  PROVE  BlindInv
<1> USE SupervisionAssumption DEF SupervisionAssumption
<1>1. /\ phase = "cells" /\ sup_state = "OFF" /\ mode = "down" /\ faults \in FaultSets
      /\ cut = FALSE /\ faulted = FALSE /\ got_status = FALSE
      /\ fault_elapsed = 0 /\ contactors = "OPEN" /\ reply_age = ReplyStale + 1
      /\ uptime = 0 /\ blind = 0 /\ status_wire = NoStatus /\ reply_wire = NoFrame
  BY DEF SupervisionInit, SupervisorInit
<1>2. phase \in Phases /\ sup_state \in SupStates /\ cut \in BOOLEAN /\ faulted \in BOOLEAN
  BY <1>1 DEF Phases, SupStates
<1>3. fault_elapsed \in 0..ForceOpen /\ reply_age \in 0..ReplyStale + 1 /\ uptime \in Nat
        /\ blind \in Nat
  BY <1>1
<1>4. BlindTypes
  BY <1>1, <1>2, <1>3 DEF BlindTypes
<1>5. FramesAreCurrent
  BY <1>1 DEF FramesAreCurrent
<1> QED
  BY <1>1, <1>4, <1>5 DEF BlindInv, DrivingIsRunning, NotBlind, BlindFor, BlindBounded,
    LongestBlind

\* Steps that change nothing of this, on the same side of the round and of the frames.
LEMMA BlindAside ==
  ASSUME BlindInv, UNCHANGED guarded, phase' \in Phases,
         phase = "time" <=> phase' = "time",
         BeforeRound <=> BeforeRound',
         phase = "decide" <=> phase' = "decide",
         phase \in {"snoop", "serial"} => phase' \in {"snoop", "serial"}
  PROVE  BlindInv'
<1>1. phase \in {"time", "cells", "bms"} => phase' \in {"time", "cells", "bms"}
  BY DEF BeforeRound
<1>2. BlindTypes'
  BY DEF guarded, BlindInv, BlindTypes
<1>3. FramesAreCurrent'
  BY <1>1 DEF guarded, BlindInv, FramesAreCurrent
<1>4. DrivingIsRunning' /\ NotBlind'
  BY DEF guarded, BlindInv, DrivingIsRunning, NotBlind
<1>5. BlindFor' /\ BlindBounded'
  BY DEF guarded, BlindInv, BlindFor, BlindBounded, ContactorsEnabled
<1> QED
  BY <1>2, <1>3, <1>4, <1>5 DEF BlindInv

\* The controller's round: contactors that stay closed are a round nearer to opening.
LEMMA RoundKeepsBlind ==
  ASSUME BlindInv, BmsLoop
  PROVE  BlindInv'
<1> USE SupervisionAssumption DEF SupervisionAssumption
<1>1. /\ phase = "bms" /\ phase' = "snoop" /\ mode = "up" /\ mode' = "up"
      /\ faulted => faulted'
      /\ cut => faulted'
      /\ contactors' \in ContactorChoices(faulted', ContactorsEnabled)
      /\ cut' = (contactors = "CLOSED" /\ ~ContactorsEnabled)
      /\ faulted' \in BOOLEAN
      /\ reply_wire' = NoFrame
      /\ UNCHANGED << sup_state, faults, uptime, fault_elapsed, blind >>
  BY DEF BmsLoop, Goto, supervisorVars, world, history, BlindInv, BlindTypes
<1>2. /\ contactors' \in {"OPEN", "CLOSED"}
      /\ contactors' = "CLOSED" /\ contactors = "OPEN" => ~faulted' /\ ContactorsEnabled
      /\ contactors' = "CLOSED" /\ faulted' => fault_elapsed < ForceOpen
  BY <1>1 DEF ContactorChoices
<1>3. \/ reply' = reply /\ reply_age' = reply_age
      \/ reply' = sup_state /\ reply_age' = 0
  BY <1>1 DEF BmsLoop, BlindInv, FramesAreCurrent
<1>4. cut' \in BOOLEAN /\ reply_age' \in 0..ReplyStale + 1
  BY <1>1, <1>3 DEF BlindInv, BlindTypes
<1>5. ~BeforeRound' /\ BeforeRound
  BY <1>1 DEF BeforeRound
<1>6. BlindTypes'
  BY <1>1, <1>2, <1>4 DEF BlindInv, BlindTypes, Phases
<1>7. FramesAreCurrent'
  BY <1>1 DEF BmsLoop, BlindInv, FramesAreCurrent
<1>8. DrivingIsRunning'
  BY <1>1, <1>2 DEF BlindInv, DrivingIsRunning
<1>9. NotBlind'
  BY <1>1, <1>5 DEF BlindInv, NotBlind
<1>10. BlindFor'
  <2> SUFFICES ASSUME sup_state # "ON", contactors' = "CLOSED"
               PROVE  /\ faulted' => blind <= ReplyStale + 2 + fault_elapsed
                      /\ ~faulted' /\ cut' => blind <= ReplyStale + 1
                      /\ ~faulted' /\ ~cut' /\ ContactorsEnabled' => blind <= reply_age'
                      /\ ~faulted' /\ ~cut' /\ ~ContactorsEnabled' => blind <= ReplyStale
    BY <1>1, <1>5 DEF BlindFor
  <2>1. blind \in Nat /\ ReplyStale \in Nat /\ fault_elapsed \in Nat /\ reply_age \in Nat
    BY DEF BlindInv, BlindTypes
  <2>2. CASE contactors = "OPEN"
    <3>1. blind = 0
      BY <1>1, <1>5, <2>2 DEF BlindInv, NotBlind
    <3> QED
      BY <2>1, <3>1, <1>4
  <2>3. CASE contactors = "CLOSED"
    <3>1. /\ faulted => blind <= ReplyStale + 2 + fault_elapsed
          /\ ~faulted /\ cut => blind <= ReplyStale + 2
          /\ ~faulted /\ ~cut /\ ContactorsEnabled => blind <= reply_age
          /\ ~faulted /\ ~cut /\ ~ContactorsEnabled => blind <= ReplyStale + 1
      BY <1>5, <2>1, <2>3 DEF BlindInv, BlindFor
    <3>2. ContactorsEnabled => reply_age <= ReplyStale
      BY DEF ContactorsEnabled
    <3>3. faulted' => blind <= ReplyStale + 2 + fault_elapsed
      BY <2>1, <3>1, <3>2
    <3>4. cut' <=> ~ContactorsEnabled
      BY <1>1, <2>3
    <3>5. ~faulted' => ~faulted /\ ~cut
      BY <1>1
    <3>6. ~faulted' /\ cut' => blind <= ReplyStale + 1
      BY <3>1, <3>4, <3>5
    <3>7. ~faulted' /\ ~cut' => blind <= reply_age /\ reply_age <= ReplyStale
      BY <3>1, <3>2, <3>4, <3>5
    <3>8. ContactorsEnabled' => reply_age' = reply_age
      BY <1>3 DEF ContactorsEnabled
    <3> QED
      BY <2>1, <3>3, <3>6, <3>7, <3>8
  <2> QED
    BY <2>2, <2>3 DEF BlindInv, BlindTypes
<1>11. BlindBounded'
  BY <1>1 DEF BlindInv, BlindBounded, LongestBlind
<1> QED
  BY <1>6, <1>7, <1>8, <1>9, <1>10, <1>11 DEF BlindInv

\* The decision: drivers that are disabled only now have been driven blind for no time.
LEMMA DecisionKeepsBlind ==
  ASSUME BlindInv, Decide
  PROVE  BlindInv'
<1> USE SupervisionAssumption DEF SupervisionAssumption
<1>1. /\ phase = "decide" /\ phase' = "time"
      /\ reply_wire' = IF got_status THEN sup_state' ELSE reply_wire
      /\ got_status' = FALSE
      /\ UNCHANGED << faults, status_wire, mode, uptime, cut, faulted, fault_elapsed, contactors,
                      reply, reply_age, blind >>
  BY DEF Decide, Goto, world, bms, running, control, history
<1>2. sup_state' \in SupStates
  BY DEF Decide, Agreements, SupervisorTick, StartOver, Enable, StayOff, Latch, ScansStopped,
    BmsGone, StayOn, StayLatched, BlindInv, BlindTypes, SupStates
<1>3. ~BeforeRound /\ ~BeforeRound'
  BY <1>1 DEF BeforeRound
<1>4. BlindTypes'
  BY <1>1, <1>2 DEF BlindInv, BlindTypes, Phases
<1>5. FramesAreCurrent'
  BY <1>1 DEF BlindInv, FramesAreCurrent
<1>6. DrivingIsRunning' /\ NotBlind'
  BY <1>1, <1>3 DEF BlindInv, DrivingIsRunning, NotBlind
<1>7. BlindFor'
  <2>1. CASE sup_state = "ON"
    <3>1. blind = 0
      BY <1>1, <2>1 DEF BlindInv, NotBlind
    <3> QED
      BY <1>1, <1>3, <3>1 DEF BlindInv, BlindTypes, BlindFor
  <2>2. CASE sup_state # "ON"
    BY <1>1, <1>3, <2>2 DEF BlindInv, BlindFor, ContactorsEnabled
  <2> QED
    BY <2>1, <2>2
<1>8. BlindBounded'
  BY <1>1 DEF BlindInv, BlindBounded, LongestBlind
<1> QED
  BY <1>4, <1>5, <1>6, <1>7, <1>8 DEF BlindInv

\* Time: what ends it gets older together with the blindness.
LEMMA TimeKeepsBlind ==
  ASSUME BlindInv, Time
  PROVE  BlindInv'
<1> USE SupervisionAssumption DEF SupervisionAssumption
<1>1. /\ phase = "time" /\ phase' = "cells"
      /\ fault_elapsed' = IF faulted THEN AtMost(fault_elapsed + 1, ForceOpen) ELSE 0
      /\ reply_age' = AtMost(reply_age + 1, ReplyStale + 1)
      /\ blind' = IF sup_state # "ON" /\ contactors = "CLOSED"
                    THEN AtMost(blind + 1, LongestBlind + 1) ELSE 0
      /\ uptime' = AtMost(uptime + 1, UptimeBound)
      /\ UNCHANGED << sup_state, faults, status_wire, reply_wire, got_status, mode, cut, faulted,
                      contactors, reply >>
  BY DEF Time, Goto, SupervisorAges, world, frames
<1>2. BeforeRound' /\ ~BeforeRound
  BY <1>1 DEF BeforeRound
<1>3. /\ blind \in Nat /\ ReplyStale \in Nat /\ ForceOpen \in Nat /\ reply_age \in 0..ReplyStale + 1
      /\ fault_elapsed \in 0..ForceOpen /\ uptime \in Nat
  BY DEF BlindInv, BlindTypes
<1>4. blind' \in Nat /\ reply_age' \in 0..ReplyStale + 1 /\ fault_elapsed' \in 0..ForceOpen
        /\ uptime' \in Nat
  BY <1>1, <1>3, DelayAssumption DEF AtMost, LongestBlind, UptimeBound, DelayAssumption
<1>5. BlindTypes'
  BY <1>1, <1>4 DEF BlindInv, BlindTypes, Phases
<1>6. FramesAreCurrent'
  BY <1>1 DEF BlindInv, FramesAreCurrent
<1>7. DrivingIsRunning'
  BY <1>1, <1>2 DEF BlindInv, DrivingIsRunning
<1>8. NotBlind'
  BY <1>1 DEF NotBlind
<1>9. CASE sup_state # "ON" /\ contactors = "CLOSED"
  <2>1. blind' <= blind + 1
    BY <1>1, <1>3, <1>9 DEF AtMost, LongestBlind
  <2>2. faulted => fault_elapsed' = fault_elapsed + 1
    BY <1>1, <1>2, <1>3, <1>9 DEF BlindInv, DrivingIsRunning, AtMost
  <2>3. /\ faulted => blind <= ReplyStale + 2 + fault_elapsed
        /\ ~faulted /\ cut => blind <= ReplyStale + 1
        /\ ~faulted /\ ~cut /\ ContactorsEnabled => blind <= reply_age
        /\ ~faulted /\ ~cut /\ ~ContactorsEnabled => blind <= ReplyStale
    BY <1>2, <1>3, <1>9 DEF BlindInv, BlindFor
  <2>4. ContactorsEnabled => reply_age <= ReplyStale /\ reply_age' = reply_age + 1
    BY <1>1, <1>3 DEF ContactorsEnabled, AtMost
  <2>5. ContactorsEnabled' => ContactorsEnabled
    BY <1>1, <1>3 DEF ContactorsEnabled, AtMost
  <2>6. /\ faulted => blind' <= ReplyStale + 2 + fault_elapsed'
        /\ ~faulted /\ cut => blind' <= ReplyStale + 2
        /\ ~faulted /\ ~cut /\ ContactorsEnabled' => blind' <= reply_age'
        /\ ~faulted /\ ~cut /\ ~ContactorsEnabled' => blind' <= ReplyStale + 1
    <3> PICK b \in Nat, a \in Nat, e \in Nat : b = blind' /\ a = reply_age' /\ e = fault_elapsed'
      BY <1>4
    <3>1. faulted => b <= ReplyStale + 2 + e
      BY <1>3, <2>1, <2>2, <2>3
    <3>2. ~faulted /\ cut => b <= ReplyStale + 2
      BY <1>3, <2>1, <2>3
    <3>3. ~faulted /\ ~cut /\ ContactorsEnabled => b <= a
      BY <1>3, <2>1, <2>3, <2>4
    <3>4. ~faulted /\ ~cut => b <= ReplyStale + 1
      BY <1>3, <2>1, <2>3, <2>4
    <3> QED
      BY <2>5, <3>1, <3>2, <3>3, <3>4
  <2>7. BlindFor'
    BY <1>1, <1>2, <2>6 DEF BlindFor
  <2>8. blind' <= ReplyStale + ForceOpen + 2
    <3>1. CASE faulted
      <4>1. blind <= ReplyStale + 2 + fault_elapsed /\ fault_elapsed + 1 <= ForceOpen
        BY <1>1, <1>2, <1>3, <1>9, <2>3, <3>1 DEF BlindInv, DrivingIsRunning
      <4> QED
        BY <1>3, <1>4, <2>1, <4>1
    <3>2. CASE ~faulted
      <4>1. blind <= ReplyStale + 1
        BY <1>3, <2>3, <2>4, <3>2
      <4> QED
        BY <1>3, <1>4, <2>1, <4>1
    <3> QED
      BY <3>1, <3>2
  <2> QED
    BY <1>5, <1>6, <1>7, <1>8, <2>7, <2>8 DEF BlindInv, BlindBounded, LongestBlind
<1>10. CASE ~(sup_state # "ON" /\ contactors = "CLOSED")
  <2>1. BlindFor'
    BY <1>1, <1>10 DEF BlindFor
  <2>2. BlindBounded'
    BY <1>1, <1>3, <1>10 DEF BlindBounded, LongestBlind
  <2> QED
    BY <1>5, <1>6, <1>7, <1>8, <2>1, <2>2 DEF BlindInv
<1> QED
  BY <1>9, <1>10

\* A reset, and what happens to frames on their way.
LEMMA ResetKeepsBlind ==
  ASSUME BlindInv, BmsReset
  PROVE  BlindInv'
<1> USE SupervisionAssumption DEF SupervisionAssumption
<1>1. /\ phase = "cells" /\ phase' = "cells" /\ mode' = "down" /\ uptime' = 0
      /\ cut' = FALSE /\ faulted' = FALSE /\ fault_elapsed' = 0 /\ contactors' = "OPEN"
      /\ reply_age' = ReplyStale + 1 /\ reply_wire' = NoFrame
      /\ UNCHANGED << sup_state, faults, status_wire, got_status, blind >>
  BY DEF BmsReset, supervisorVars, world, history
<1>2. cut' \in BOOLEAN /\ faulted' \in BOOLEAN
  BY <1>1
<1>3. reply_age' \in 0..ReplyStale + 1 /\ fault_elapsed' \in 0..ForceOpen /\ uptime' \in Nat
  BY <1>1
<1>4. BlindTypes'
  BY <1>1, <1>2, <1>3 DEF BlindInv, BlindTypes
<1>5. FramesAreCurrent'
  BY <1>1 DEF BlindInv, FramesAreCurrent
<1>6. DrivingIsRunning' /\ NotBlind' /\ BlindFor' /\ BlindBounded'
  BY <1>1 DEF BlindInv, DrivingIsRunning, NotBlind, BlindFor, BlindBounded, LongestBlind,
    BeforeRound
<1> QED
  BY <1>4, <1>5, <1>6 DEF BlindInv

LEMMA FramesKeepBlind ==
  ASSUME BlindInv, LoseStatus \/ LoseReply \/ PollSerial
  PROVE  BlindInv'
<1>1. UNCHANGED << sup_state, faults, mode, uptime, cut, faulted, fault_elapsed, contactors,
                   reply, reply_age, blind >>
  BY DEF LoseStatus, LoseReply, PollSerial, OnStatus, supervisorVars, world, bms, running,
    control, history
<1>2. \/ phase' = phase /\ phase \in {"serial", "time"}
      \/ phase = "serial" /\ phase' = "decide"
  BY DEF LoseStatus, LoseReply, PollSerial, Goto
<1>3. BeforeRound' = BeforeRound /\ ~BeforeRound
  BY <1>2 DEF BeforeRound
<1>4. BlindTypes'
  BY <1>1, <1>2 DEF BlindInv, BlindTypes, Phases
<1>5. FramesAreCurrent'
  <2>1. CASE LoseStatus
    BY <2>1 DEF LoseStatus, bms, running, supervisorVars, BlindInv, FramesAreCurrent
  <2>2. CASE LoseReply
    BY <2>2 DEF LoseReply, bms, running, supervisorVars, BlindInv, FramesAreCurrent
  <2>3. CASE PollSerial
    BY <1>1, <2>3 DEF PollSerial, Goto, BlindInv, FramesAreCurrent
  <2> QED
    BY <2>1, <2>2, <2>3
<1>6. DrivingIsRunning' /\ NotBlind'
  BY <1>1, <1>2, <1>3 DEF BlindInv, DrivingIsRunning, NotBlind
<1>7. BlindFor'
  BY <1>1, <1>3 DEF BlindInv, BlindFor, ContactorsEnabled
<1>8. BlindBounded'
  BY <1>1 DEF BlindInv, BlindBounded, LongestBlind
<1> QED
  BY <1>4, <1>5, <1>6, <1>7, <1>8 DEF BlindInv

\* A controller that is down drives no contactors.
LEMMA IdleKeepsBlind ==
  ASSUME BlindInv, BmsIdle
  PROVE  BlindInv'
<1>1. /\ phase = "bms" /\ phase' = "snoop" /\ mode # "up"
      /\ UNCHANGED << sup_state, faults, status_wire, reply_wire, got_status, mode, uptime, cut,
                      faulted, fault_elapsed, contactors, reply, reply_age, blind >>
  BY DEF BmsIdle, Goto, supervisorVars, world, frames, bms, running, control, history
<1>2. contactors = "OPEN"
  BY <1>1 DEF BlindInv, BlindTypes, DrivingIsRunning
<1>3. BlindTypes'
  BY <1>1 DEF BlindInv, BlindTypes, Phases
<1>4. FramesAreCurrent'
  BY <1>1 DEF BlindInv, FramesAreCurrent
<1>5. DrivingIsRunning' /\ NotBlind'
  BY <1>1, <1>2 DEF BlindInv, DrivingIsRunning, NotBlind, BeforeRound
<1>6. BlindFor' /\ BlindBounded'
  BY <1>1, <1>2 DEF BlindInv, BlindFor, BlindBounded, LongestBlind
<1> QED
  BY <1>3, <1>4, <1>5, <1>6 DEF BlindInv

LEMMA BootKeepsBlind ==
  ASSUME BlindInv, Boot
  PROVE  BlindInv'
<1>1. /\ phase = "cells" /\ mode = "down" /\ uptime > 0 /\ mode' = "up"
      /\ UNCHANGED << phase, sup_state, faults, status_wire, reply_wire, got_status, uptime, cut,
                      faulted, fault_elapsed, contactors, reply, reply_age, blind >>
  BY DEF Boot, supervisorVars, world, frames, control, history
<1>2. contactors = "OPEN" /\ blind = 0
  BY <1>1 DEF BlindInv, BlindTypes, DrivingIsRunning, NotBlind, BeforeRound
<1>3. BlindTypes' /\ FramesAreCurrent'
  BY <1>1 DEF BlindInv, BlindTypes, FramesAreCurrent
<1>4. DrivingIsRunning' /\ NotBlind' /\ BlindFor' /\ BlindBounded'
  BY <1>1, <1>2 DEF BlindInv, DrivingIsRunning, NotBlind, BlindFor, BlindBounded, LongestBlind,
    BeforeRound
<1> QED
  BY <1>3, <1>4 DEF BlindInv

\* Every step keeps the invariant.
LEMMA BlindSteps ==
  ASSUME NoHangs, BlindInv, [SupervisionNext]_supervisionVars
  PROVE  BlindInv'
<1>1. CASE ReadCells \/ ReadCellsPartly \/ ReadNothing
  <2>1. UNCHANGED guarded /\ phase = "cells" /\ phase' = "bms"
    BY <1>1 DEF ReadCells, ReadCellsPartly, ReadNothing, Goto, guarded, supervisorVars, world,
      frames, bms, running, control, history
  <2> QED
    BY <2>1, BlindAside DEF Phases, BeforeRound
<1>2. CASE PollSnoop
  <2>1. UNCHANGED guarded /\ phase = "snoop" /\ phase' = "serial"
    BY <1>2 DEF PollSnoop, OnScan, Goto, guarded, supervisorVars, world, frames, bms, running,
      control, history
  <2> QED
    BY <2>1, BlindAside DEF Phases, BeforeRound
<1>3. CASE CellsFail \/ CellsRecover \/ Settle \/ UNCHANGED supervisionVars
  <2>1. UNCHANGED << guarded, phase >> /\ phase \in Phases
    BY <1>3 DEF CellsFail, CellsRecover, Settle, supervisionVars, guarded, supervisorVars, world,
      frames, bms, running, control, history, BlindInv, BlindTypes
  <2> QED
    BY <2>1, BlindAside DEF BeforeRound
<1>4. ~Hang /\ ~Resume
  BY DEF NoHangs, Hang, Resume, May, BlindInv, BlindTypes
<1> QED
  BY <1>1, <1>2, <1>3, <1>4, RoundKeepsBlind, DecisionKeepsBlind, TimeKeepsBlind,
     ResetKeepsBlind, FramesKeepBlind, IdleKeepsBlind, BootKeepsBlind
  DEF SupervisionNext, Run, Fault

\* Where the controller does not hang, it never drives contactors for longer than
\* LongestBlind whose drivers the supervisor has disabled (model.h, contactors.c), for all
\* delays, whichever replies are lost, whatever the cells and resets do.
THEOREM BlindHolds ==
  ASSUME NoHangs
  PROVE  SupervisionSpec => []BlindBounded
<1>1. BlindInv /\ [SupervisionNext]_supervisionVars => BlindInv'
  BY BlindSteps
<1>2. BlindInv => BlindBounded
  BY DEF BlindInv
<1>3. SupervisionInit => BlindInv
  BY BlindStarts
<1> QED
  BY <1>1, <1>2, <1>3, PTL DEF SupervisionSpec
-------------------------------------------------------------------------------
(***************************************************************************)
(* Types.  They are inductive together with HungInTime: the watchdog ends   *)
(* a hang before the next read of the cells.                                *)
(***************************************************************************)

HungInTime == mode = "hung" /\ phase # "cells" => hang_age < Watchdog

LinkTypes ==
  /\ phase \in Phases
  /\ cells \in Cells
  /\ faults \in FaultSets /\ settled \in BOOLEAN
  /\ snooped \in Cells \union {NoScan}
  /\ status_wire \in Status \union {NoStatus}
  /\ reply_wire \in SupStates \union {NoFrame}
  /\ got_status \in BOOLEAN

HistoryTypes == exposure \in 0..LongestExposure + 1 /\ blind \in 0..LongestBlind + 1

RunningTypes ==
  /\ mode \in {"up", "hung", "down"}
  /\ hang_age \in 0..Watchdog
  /\ uptime \in 0..UptimeBound
  /\ reading \in Cells \union {NoReading}
  /\ reading_age \in 0..StaleThreshold + 1

ControlTypes ==
  /\ low \in Event /\ stale \in Event
  /\ cut \in BOOLEAN /\ faulted \in BOOLEAN
  /\ fault_elapsed \in 0..ForceOpen
  /\ contactors \in {"OPEN", "CLOSED"}
  /\ reply \in SupStates
  /\ reply_age \in 0..ReplyStale + 1

\* The parts of SupervisionTypeOK, to be shown one by one.
LEMMA TypesByParts ==
  SupervisionTypeOK
    <=> SupervisorTypeOK /\ LinkTypes /\ HistoryTypes /\ RunningTypes /\ ControlTypes
  BY DEF SupervisionTypeOK, LinkTypes, HistoryTypes, RunningTypes, ControlTypes

\* A bound on a count.
LEMMA AtMostIsBounded ==
  ASSUME NEW n \in Nat, NEW bound \in Nat
  PROVE  AtMost(n, bound) \in 0..bound
  BY DEF AtMost

LEMMA TypesStart ==
  ASSUME SupervisionInit
  PROVE  SupervisionTypeOK /\ HungInTime
<1> USE DelayAssumption, SupervisionAssumption DEF DelayAssumption, SupervisionAssumption
<1>1. SupervisorTypeOK
  <2>1. bms_restarted \in BOOLEAN /\ violating \in BOOLEAN
    BY DEF SupervisionInit, SupervisorInit
  <2>2. sup_state \in SupStates /\ status \in Status \union {NoStatus}
          /\ scan \in Cells \union {NoScan}
    BY DEF SupervisionInit, SupervisorInit, SupStates
  <2>3. /\ status_age \in 0..HeartbeatDrop + 1 /\ scan_age \in 0..ScanStaleDrop + 1
        /\ good_scans \in 0..GoodScansToEnable /\ violation_age \in 0..CellFaultDrop
    BY DEF SupervisionInit, SupervisorInit
  <2> QED
    BY <2>1, <2>2, <2>3 DEF SupervisorTypeOK
<1>2. LinkTypes
  BY DEF SupervisionInit, LinkTypes, Phases, Cells
<1>3. HistoryTypes
  BY DEF SupervisionInit, HistoryTypes, LongestExposure, LongestBlind
<1>4. RunningTypes
  BY DEF SupervisionInit, RunningTypes, UptimeBound
<1>5. NoEvent \in Event
  BY DEF NoEvent, Event
<1>6. ControlTypes
  <2>1. low \in Event /\ stale \in Event
    BY <1>5 DEF SupervisionInit
  <2>2. cut \in BOOLEAN /\ faulted \in BOOLEAN
    BY DEF SupervisionInit
  <2>3. fault_elapsed \in 0..ForceOpen /\ reply_age \in 0..ReplyStale + 1
    BY DEF SupervisionInit
  <2>4. contactors \in {"OPEN", "CLOSED"} /\ reply \in SupStates
    BY DEF SupervisionInit, SupStates
  <2> QED
    BY <2>1, <2>2, <2>3, <2>4 DEF ControlTypes
<1>7. HungInTime
  BY DEF SupervisionInit, HungInTime
<1> QED
  BY <1>1, <1>2, <1>3, <1>4, <1>6, <1>7, TypesByParts

\* The functions of the supervisor's logic keep its types.
LEMMA LogicKeepsTypes ==
  ASSUME SupervisorTypeOK,
         \/ UNCHANGED supervisorVars
         \/ \E seen \in Cells : OnScan(seen)
         \/ \E st \in Status : OnStatus(st)
         \/ \E agree \in BOOLEAN : SupervisorTick(agree)
         \/ SupervisorAges
  PROVE  SupervisorTypeOK'
<1> USE DelayAssumption DEF DelayAssumption
<1>1. CASE UNCHANGED supervisorVars
  BY <1>1 DEF supervisorVars, SupervisorTypeOK
<1>2. ASSUME NEW seen \in Cells, OnScan(seen)
      PROVE  SupervisorTypeOK'
  <2>1. AtMost(good_scans + 1, GoodScansToEnable) \in 0..GoodScansToEnable
    BY AtMostIsBounded DEF SupervisorTypeOK
  <2>2. good_scans' \in 0..GoodScansToEnable
    BY <1>2, <2>1 DEF OnScan
  <2>3. violating' \in BOOLEAN
    BY <1>2 DEF OnScan
  <2> QED
    BY <1>2, <2>2, <2>3 DEF OnScan, SupervisorTypeOK
<1>3. ASSUME NEW st \in Status, OnStatus(st)
      PROVE  SupervisorTypeOK'
  <2>1. bms_restarted' \in BOOLEAN
    BY <1>3 DEF OnStatus
  <2> QED
    BY <1>3, <2>1 DEF OnStatus, SupervisorTypeOK
<1>4. ASSUME NEW agree \in BOOLEAN, SupervisorTick(agree)
      PROVE  SupervisorTypeOK'
  <2>1. sup_state' \in SupStates /\ good_scans' \in {0, good_scans}
    BY <1>4 DEF SupervisorTick, StartOver, Enable, StayOff, Latch, ScansStopped, BmsGone, StayOn,
      StayLatched, SupStates
  <2>2. good_scans' \in 0..GoodScansToEnable
    BY <2>1 DEF SupervisorTypeOK
  <2>3. bms_restarted' \in BOOLEAN
    BY <1>4 DEF SupervisorTick
  <2>4. UNCHANGED << status, status_age, scan, scan_age, violating, violation_age >>
    BY <1>4 DEF SupervisorTick
  <2> QED
    BY <2>1, <2>2, <2>3, <2>4 DEF SupervisorTypeOK
<1>5. CASE SupervisorAges
  <2>1. /\ AtMost(status_age + 1, HeartbeatDrop + 1) \in 0..HeartbeatDrop + 1
        /\ AtMost(scan_age + 1, ScanStaleDrop + 1) \in 0..ScanStaleDrop + 1
        /\ AtMost(violation_age + 1, CellFaultDrop) \in 0..CellFaultDrop
    <3>1. status_age + 1 \in Nat /\ scan_age + 1 \in Nat /\ violation_age + 1 \in Nat
      BY DEF SupervisorTypeOK
    <3>2. HeartbeatDrop + 1 \in Nat /\ ScanStaleDrop + 1 \in Nat /\ CellFaultDrop \in Nat
      OBVIOUS
    <3> QED
      BY <3>1, <3>2, AtMostIsBounded
  <2>2. violation_age' \in 0..CellFaultDrop
    BY <1>5, <2>1 DEF SupervisorAges
  <2> QED
    BY <1>5, <2>1, <2>2 DEF SupervisorAges, SupervisorTypeOK
<1> QED
  BY <1>1, <1>2, <1>3, <1>4, <1>5

LEMMA TickedIsEvent ==
  ASSUME NEW before \in Event, NEW event \in Event
  PROVE  EventTick(before, event) \in Event
<1> USE SupervisionAssumption DEF SupervisionAssumption, Event
<1> DEFINE accumulated == event.accumulator + (IF before.level = "CRITICAL" THEN 1 ELSE 0)
<1>1. accumulated \in Nat
  OBVIOUS
<1>2. AtMost(accumulated, Escalation) \in 0..Escalation
  BY <1>1, AtMostIsBounded
<1> HIDE DEF accumulated
<1>3. CASE event.level = "FATAL"
  BY <1>3 DEF EventTick
<1>4. CASE event.level = "CRITICAL"
  BY <1>2, <1>4 DEF EventTick, accumulated
<1>5. CASE event.level = "NONE"
  BY <1>5 DEF EventTick
<1> QED
  BY <1>3, <1>4, <1>5

LEMMA ConfirmedIsEvent ==
  ASSUME NEW event \in Event, NEW success
  PROVE  Confirm(event, success) \in Event
  BY DEF Confirm, Event

\* What the controller sends has the form that the supervisor expects.
LEMMA SentIsStatus ==
  ASSUME RunningTypes
  PROVE  StatusToSend \in Status
<1>1. Fresh \in BOOLEAN
  BY DEF Fresh
<1>2. (IF reading = NoReading THEN "low" ELSE reading) \in Cells
  BY DEF RunningTypes, Cells
<1> QED
  BY <1>1, <1>2 DEF StatusToSend, Status, RunningTypes

\* The supervisor's side of a step is one of the functions of its logic.
LEMMA StepsKeepSupervisorTypes ==
  ASSUME SupervisionTypeOK, SupervisionNext
  PROVE  SupervisorTypeOK'
<1>1. SupervisorTypeOK /\ LinkTypes
  BY TypesByParts
<1>2. CASE PollSnoop
  <2>1. UNCHANGED supervisorVars \/ \E seen \in Cells : OnScan(seen)
    BY <1>1, <1>2 DEF PollSnoop, LinkTypes
  <2> QED
    BY <1>1, <2>1, LogicKeepsTypes
<1>3. CASE PollSerial
  <2>1. UNCHANGED supervisorVars \/ \E st \in Status : OnStatus(st)
    BY <1>1, <1>3 DEF PollSerial, LinkTypes
  <2> QED
    BY <1>1, <2>1, LogicKeepsTypes
<1>4. CASE Decide
  <2>1. \E agree \in BOOLEAN : SupervisorTick(agree)
    BY <1>4 DEF Decide, Agreements
  <2> QED
    BY <1>1, <2>1, LogicKeepsTypes
<1>5. CASE Time
  BY <1>1, <1>5, LogicKeepsTypes DEF Time
<1>6. CASE Fault \/ ReadCells \/ ReadNothing \/ BmsLoop \/ BmsIdle \/ Boot
  <2>1. UNCHANGED supervisorVars
    BY <1>6 DEF Fault, ReadCells, ReadNothing, BmsLoop, BmsIdle, Boot, ReadCellsPartly, Hang,
      Resume, BmsReset, LoseStatus, LoseReply, CellsFail, CellsRecover, Settle
  <2> QED
    BY <1>1, <2>1, LogicKeepsTypes
<1> QED
  BY <1>2, <1>3, <1>4, <1>5, <1>6 DEF SupervisionNext, Run

LEMMA StepsKeepLinkTypes ==
  ASSUME SupervisionTypeOK, SupervisorTypeOK', SupervisionNext
  PROVE  LinkTypes'
<1>1. LinkTypes /\ RunningTypes /\ sup_state' \in SupStates
  BY TypesByParts DEF SupervisorTypeOK
<1>2. CASE ReadCells \/ ReadCellsPartly \/ ReadNothing
  <2>1. phase' \in Phases /\ snooped' \in {cells, snooped}
    BY <1>2 DEF ReadCells, ReadCellsPartly, ReadNothing, Goto, Phases
  <2>2. UNCHANGED << world, frames, got_status >>
    BY <1>2 DEF ReadCells, ReadCellsPartly, ReadNothing
  <2> QED
    BY <1>1, <2>1, <2>2 DEF LinkTypes, world, frames
<1>3. CASE BmsLoop
  <2>1. StatusToSend \in Status
    BY <1>1, SentIsStatus
  <2>2. phase' \in Phases /\ status_wire' \in Status /\ reply_wire' = NoFrame
    BY <1>3, <2>1 DEF BmsLoop, Goto, Phases
  <2>3. UNCHANGED << world, snooped, got_status >>
    BY <1>3 DEF BmsLoop
  <2> QED
    BY <1>1, <2>2, <2>3 DEF LinkTypes, world
<1>4. CASE BmsIdle \/ Hang \/ Resume \/ BmsReset \/ Boot
  <2>1. phase' \in Phases /\ reply_wire' \in {reply_wire, NoFrame}
    BY <1>1, <1>4 DEF BmsIdle, Hang, Resume, BmsReset, Boot, Goto, Phases, frames, LinkTypes
  <2>2. UNCHANGED << world, snooped, status_wire, got_status >>
    BY <1>4 DEF BmsIdle, Hang, Resume, BmsReset, Boot, frames
  <2> QED
    BY <1>1, <2>1, <2>2 DEF LinkTypes, world
<1>5. CASE PollSnoop
  <2>1. phase' \in Phases /\ snooped' = NoScan
    BY <1>5 DEF PollSnoop, Goto, Phases
  <2>2. UNCHANGED << world, frames, got_status >>
    BY <1>5 DEF PollSnoop
  <2> QED
    BY <1>1, <2>1, <2>2 DEF LinkTypes, world, frames
<1>6. CASE PollSerial
  <2>1. phase' \in Phases /\ status_wire' = NoStatus
    BY <1>6 DEF PollSerial, Goto, Phases
  <2>2. got_status' \in BOOLEAN
    BY <1>6 DEF PollSerial
  <2>3. UNCHANGED << world, snooped, reply_wire >>
    BY <1>6 DEF PollSerial
  <2> QED
    BY <1>1, <2>1, <2>2, <2>3 DEF LinkTypes, world
<1>7. CASE Decide
  <2>1. phase' \in Phases /\ reply_wire' \in {sup_state', reply_wire}
    BY <1>7 DEF Decide, Goto, Phases
  <2>2. got_status' \in BOOLEAN
    BY <1>7 DEF Decide
  <2>3. UNCHANGED << world, snooped, status_wire >>
    BY <1>7 DEF Decide
  <2> QED
    BY <1>1, <2>1, <2>2, <2>3 DEF LinkTypes, world
<1>8. CASE Time \/ LoseStatus \/ LoseReply
  <2>1. /\ phase' \in Phases /\ status_wire' \in {status_wire, NoStatus}
        /\ reply_wire' \in {reply_wire, NoFrame}
    BY <1>1, <1>8 DEF Time, LoseStatus, LoseReply, Goto, Phases, frames, LinkTypes
  <2>2. UNCHANGED << world, snooped, got_status >>
    BY <1>8 DEF Time, LoseStatus, LoseReply
  <2> QED
    BY <1>1, <2>1, <2>2 DEF LinkTypes, world
<1>9. CASE CellsFail \/ CellsRecover \/ Settle
  <2>1. cells' \in Cells
    BY <1>1, <1>9 DEF CellsFail, CellsRecover, Settle, LinkTypes, Cells
  <2>2. settled' \in BOOLEAN
    BY <1>1, <1>9 DEF CellsFail, CellsRecover, Settle, LinkTypes
  <2>3. UNCHANGED << phase, faults, snooped, frames, got_status >>
    BY <1>9 DEF CellsFail, CellsRecover, Settle
  <2> QED
    BY <1>1, <2>1, <2>2, <2>3 DEF LinkTypes, frames
<1> QED
  BY <1>2, <1>3, <1>4, <1>5, <1>6, <1>7, <1>8, <1>9 DEF SupervisionNext, Run, Fault

LEMMA StepsKeepHistoryTypes ==
  ASSUME SupervisionTypeOK, SupervisionNext
  PROVE  HistoryTypes'
<1> USE DelayAssumption, SupervisionAssumption DEF DelayAssumption, SupervisionAssumption
<1>1. HistoryTypes
  BY TypesByParts
<1>2. LongestExposure + 1 \in Nat /\ LongestBlind + 1 \in Nat
  BY DEF LongestExposure, LongestBlind
<1>3. CASE Time
  <2>1. exposure + 1 \in Nat /\ blind + 1 \in Nat
    BY <1>1, <1>2 DEF HistoryTypes
  <2>2. /\ AtMost(exposure + 1, LongestExposure + 1) \in 0..LongestExposure + 1
        /\ AtMost(blind + 1, LongestBlind + 1) \in 0..LongestBlind + 1
    BY <1>2, <2>1, AtMostIsBounded
  <2>3. exposure' \in {0, AtMost(exposure + 1, LongestExposure + 1)}
    BY <1>3 DEF Time
  <2>4. blind' \in {0, AtMost(blind + 1, LongestBlind + 1)}
    BY <1>3 DEF Time
  <2> QED
    BY <1>2, <2>2, <2>3, <2>4 DEF HistoryTypes
<1>4. CASE CellsRecover
  <2>1. exposure' = 0 /\ blind' = blind
    BY <1>4 DEF CellsRecover
  <2> QED
    BY <1>1, <1>2, <2>1 DEF HistoryTypes
<1>5. CASE ~Time /\ ~CellsRecover
  <2>1. UNCHANGED history
    BY <1>5 DEF SupervisionNext, Run, Fault, ReadCells, ReadNothing, BmsLoop, BmsIdle, Boot,
      PollSnoop, PollSerial, Decide, ReadCellsPartly, Hang, Resume, BmsReset, LoseStatus,
      LoseReply, CellsFail, Settle
  <2> QED
    BY <1>1, <2>1 DEF history, HistoryTypes
<1> QED
  BY <1>3, <1>4, <1>5

LEMMA StepsKeepRunningTypes ==
  ASSUME SupervisionTypeOK, HungInTime, SupervisionNext
  PROVE  RunningTypes' /\ HungInTime'
<1> USE DelayAssumption, SupervisionAssumption DEF DelayAssumption, SupervisionAssumption
<1>1. RunningTypes /\ LinkTypes
  BY TypesByParts
<1>2. CASE ReadCells \/ ReadCellsPartly
  <2>1. mode = "up" /\ UNCHANGED running
    BY <1>2 DEF ReadCells, ReadCellsPartly
  <2>2. Seen(cells) \in Cells
    BY <1>1 DEF Seen, LinkTypes, Cells
  <2>3. reading' \in Cells \union {NoReading}
    BY <1>1, <1>2, <2>2 DEF ReadCells, ReadCellsPartly, RunningTypes
  <2>4. reading_age' \in {0, reading_age}
    BY <1>2 DEF ReadCells, ReadCellsPartly
  <2>5. reading_age' \in 0..StaleThreshold + 1
    BY <1>1, <2>4 DEF RunningTypes
  <2> QED
    BY <1>1, <2>1, <2>3, <2>5 DEF running, RunningTypes, HungInTime
<1>3. CASE ReadNothing
  <2>1. UNCHANGED bms
    BY <1>3 DEF ReadNothing
  <2>2. mode = "hung" => hang_age < Watchdog
    BY <1>3 DEF ReadNothing
  <2> QED
    BY <1>1, <2>1, <2>2 DEF bms, running, readings, RunningTypes, HungInTime
<1>4. CASE BmsLoop
  <2>1. mode = "up" /\ hang_age' = 0 /\ UNCHANGED << mode, uptime, readings >>
    BY <1>4 DEF BmsLoop
  <2> QED
    BY <1>1, <2>1 DEF readings, RunningTypes, HungInTime
<1>5. CASE Hang \/ Resume \/ Boot
  <2>1. phase' = "cells" /\ mode' \in {"up", "hung"} /\ UNCHANGED << hang_age, uptime, readings >>
    BY <1>5 DEF Hang, Resume, Boot
  <2> QED
    BY <1>1, <2>1 DEF readings, RunningTypes, HungInTime
<1>6. CASE BmsReset
  <2>1. /\ mode' = "down" /\ hang_age' = 0 /\ uptime' = 0
        /\ reading' = NoReading /\ reading_age' = 0
    BY <1>6 DEF BmsReset
  <2>2. 0 \in 0..Watchdog /\ 0 \in 0..UptimeBound /\ 0 \in 0..StaleThreshold + 1
    BY DEF UptimeBound
  <2> QED
    BY <2>1, <2>2 DEF RunningTypes, HungInTime
<1>7. CASE Time
  <2>1. uptime' \in 0..UptimeBound
    <3>1. uptime + 1 \in Nat /\ UptimeBound \in Nat
      BY <1>1 DEF RunningTypes, UptimeBound
    <3> QED
      BY <1>7, <3>1, AtMostIsBounded DEF Time
  <2>2. reading_age' \in 0..StaleThreshold + 1
    <3>1. reading_age + 1 \in Nat /\ StaleThreshold + 1 \in Nat
      BY <1>1 DEF RunningTypes
    <3>2. AtMost(reading_age + 1, StaleThreshold + 1) \in 0..StaleThreshold + 1
      BY <3>1, AtMostIsBounded
    <3>3. reading_age' \in {0, AtMost(reading_age + 1, StaleThreshold + 1)}
      BY <1>7 DEF Time
    <3> QED
      BY <3>1, <3>2, <3>3
  <2>3. phase' = "cells" /\ UNCHANGED << mode, reading >> /\ phase = "time"
    BY <1>7 DEF Time, Goto
  <2>4. hang_age' = IF mode = "hung" THEN hang_age + 1 ELSE 0
    BY <1>7 DEF Time
  <2>5. hang_age' \in 0..Watchdog
    BY <1>1, <2>3, <2>4 DEF RunningTypes, HungInTime
  <2> QED
    BY <1>1, <2>1, <2>2, <2>3, <2>5 DEF RunningTypes, HungInTime
<1>8. CASE BmsIdle \/ PollSnoop \/ PollSerial \/ Decide \/ LoseStatus \/ LoseReply
  <2>1. phase # "cells" /\ UNCHANGED bms
    BY <1>8 DEF BmsIdle, PollSnoop, PollSerial, Decide, LoseStatus, LoseReply, Goto
  <2> QED
    BY <1>1, <2>1 DEF bms, running, readings, RunningTypes, HungInTime
<1>9. CASE CellsFail \/ CellsRecover \/ Settle
  <2>1. UNCHANGED << phase, bms >>
    BY <1>9 DEF CellsFail, CellsRecover, Settle
  <2> QED
    BY <1>1, <2>1 DEF bms, running, readings, RunningTypes, HungInTime
<1> QED
  BY <1>2, <1>3, <1>4, <1>5, <1>6, <1>7, <1>8, <1>9 DEF SupervisionNext, Run, Fault

LEMMA StepsKeepControlTypes ==
  ASSUME SupervisionTypeOK, SupervisionNext
  PROVE  ControlTypes'
<1> USE DelayAssumption, SupervisionAssumption DEF DelayAssumption, SupervisionAssumption
<1>1. ControlTypes /\ LinkTypes
  BY TypesByParts
<1>2. CASE BmsLoop
  <2>1. low' \in Event /\ stale' \in Event
    <3>1. low \in Event /\ stale \in Event
      BY <1>1 DEF ControlTypes
    <3>2. /\ EventTick(low, Confirm(low, reading # "low")) \in Event
          /\ EventTick(low, low) \in Event
          /\ EventTick(stale, Confirm(stale, Fresh)) \in Event
          /\ EventTick(stale, stale) \in Event
      BY <3>1, TickedIsEvent, ConfirmedIsEvent
    <3>3. low' \in {EventTick(low, Confirm(low, reading # "low")), EventTick(low, low)}
      BY <1>2 DEF BmsLoop
    <3>4. stale' \in {EventTick(stale, Confirm(stale, Fresh)), EventTick(stale, stale)}
      BY <1>2 DEF BmsLoop
    <3> QED
      BY <3>2, <3>3, <3>4
  <2>2. faulted' \in BOOLEAN /\ cut' \in BOOLEAN
    BY <1>2 DEF BmsLoop
  <2>3. contactors' \in {"OPEN", "CLOSED"}
    BY <1>2 DEF BmsLoop, ContactorChoices
  <2>4. reply_wire # NoFrame => reply_wire \in SupStates
    BY <1>1 DEF LinkTypes
  <2>5. reply' \in SupStates
    BY <1>1, <1>2, <2>4 DEF BmsLoop, ControlTypes
  <2>6. reply_age' \in {0, reply_age} /\ fault_elapsed' = fault_elapsed
    BY <1>2 DEF BmsLoop
  <2>7. reply_age' \in 0..ReplyStale + 1
    BY <1>1, <2>6 DEF ControlTypes
  <2> QED
    BY <1>1, <2>1, <2>2, <2>3, <2>5, <2>6, <2>7 DEF ControlTypes
<1>3. CASE BmsReset
  <2>1. low' \in Event /\ stale' \in Event
    BY <1>3 DEF BmsReset, NoEvent, Event
  <2>2. faulted' \in BOOLEAN /\ cut' \in BOOLEAN
    BY <1>3 DEF BmsReset
  <2>3. contactors' \in {"OPEN", "CLOSED"} /\ reply' \in SupStates
    BY <1>3 DEF BmsReset, SupStates
  <2>4. fault_elapsed' \in 0..ForceOpen /\ reply_age' \in 0..ReplyStale + 1
    BY <1>3 DEF BmsReset
  <2> QED
    BY <2>1, <2>2, <2>3, <2>4 DEF ControlTypes
<1>4. CASE Time
  <2>1. fault_elapsed' \in 0..ForceOpen
    <3>1. fault_elapsed + 1 \in Nat
      BY <1>1 DEF ControlTypes
    <3>2. AtMost(fault_elapsed + 1, ForceOpen) \in 0..ForceOpen
      BY <3>1, AtMostIsBounded
    <3>3. fault_elapsed' \in {0, AtMost(fault_elapsed + 1, ForceOpen)}
      BY <1>4 DEF Time
    <3> QED
      BY <3>2, <3>3
  <2>2. reply_age' \in 0..ReplyStale + 1
    <3>1. reply_age + 1 \in Nat /\ ReplyStale + 1 \in Nat
      BY <1>1 DEF ControlTypes
    <3> QED
      BY <1>4, <3>1, AtMostIsBounded DEF Time
  <2>3. UNCHANGED << low, stale, cut, faulted, contactors, reply >>
    BY <1>4 DEF Time
  <2> QED
    BY <1>1, <2>1, <2>2, <2>3 DEF ControlTypes
<1>5. CASE ~BmsLoop /\ ~BmsReset /\ ~Time
  <2>1. UNCHANGED control
    BY <1>5 DEF SupervisionNext, Run, Fault, ReadCells, ReadNothing, BmsIdle, Boot, PollSnoop,
      PollSerial, Decide, ReadCellsPartly, Hang, Resume, LoseStatus, LoseReply, CellsFail,
      CellsRecover, Settle, bms
  <2> QED
    BY <1>1, <2>1 DEF control, ControlTypes
<1> QED
  BY <1>2, <1>3, <1>4, <1>5

\* Every variable of the supervisor, the link and the controller keeps its type, for all
\* delays and any combination of faults; in particular no clock of either processor runs
\* past the first value that no comparison of the code tells from a later one.
THEOREM SupervisionTypes == SupervisionSpec => []SupervisionTypeOK
<1> DEFINE Inv == SupervisionTypeOK /\ HungInTime
<1>1. Inv /\ [SupervisionNext]_supervisionVars => Inv'
  <2>1. ASSUME Inv, SupervisionNext
        PROVE  Inv'
    <3>1. SupervisorTypeOK'
      BY <2>1, StepsKeepSupervisorTypes
    <3>2. LinkTypes' /\ HistoryTypes' /\ ControlTypes'
      BY <2>1, <3>1, StepsKeepLinkTypes, StepsKeepHistoryTypes, StepsKeepControlTypes
    <3>3. RunningTypes' /\ HungInTime'
      BY <2>1, StepsKeepRunningTypes
    <3>4. SupervisionTypeOK'
      BY <3>1, <3>2, <3>3 DEF SupervisionTypeOK, LinkTypes, HistoryTypes, RunningTypes,
        ControlTypes
    <3> QED
      BY <3>3, <3>4
  <2>2. ASSUME Inv, UNCHANGED supervisionVars
        PROVE  Inv'
    BY <2>2 DEF supervisionVars, supervisorVars, world, frames, bms, running, readings, control,
      history, SupervisionTypeOK, SupervisorTypeOK, HungInTime
  <2> QED
    BY <2>1, <2>2
<1>2. SupervisionInit => Inv
  BY TypesStart
<1> QED
  BY <1>1, <1>2, PTL DEF SupervisionSpec

================================================================================
