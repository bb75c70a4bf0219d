---------------------------- MODULE OpensFirst_proofs ----------------------------
(***************************************************************************)
(* Proof that the supervisor disables drivers only after the controller has *)
(* opened its contactors: which delays of the two sides have to fit for     *)
(* that, by the faults that may happen together, and that they are enough   *)
(* for all their values.                                                    *)
(***************************************************************************)
EXTENDS Supervision_proofs

-------------------------------------------------------------------------------
(***************************************************************************)
(* The controller opens first.  The supervisor disables drivers for one of  *)
(* three reasons: it has not heard the controller for long or hears that it *)
(* has restarted, no scan comes, or a cell fault lasts.  For each of them   *)
(* the delays of both sides have to fit, and which do depends on the faults *)
(* that may happen.                                                         *)
(***************************************************************************)

\* A silent controller has been silent for less than HeartbeatDrop when its contactors
\* open: without hangs a lost status is also a reply that does not come, without
\* losses only a hang is silent, until the watchdog ends it.
SilenceFits(kinds) ==
  \/ "hang" \notin kinds /\ ReplyStale + ForceOpen + 2 <= HeartbeatDrop
  \/ "link" \notin kinds /\ Watchdog <= HeartbeatDrop

\* Scans stop when the reads do: after the event about a low cell, while reads
\* have CRC errors until the readings are stale, or for a hang.
ScansFit(kinds) ==
  \/ kinds \subseteq {"low", "link", "reset"} /\ ForceOpen <= ScanStaleDrop
  \/ /\ kinds \subseteq {"crc", "link", "reset"}
     /\ StaleThreshold + Escalation + ForceOpen <= ScanStaleDrop
  \/ kinds \subseteq {"hang", "reset"} /\ Watchdog <= ScanStaleDrop

\* A cell that is out of range in every scan is so in every reading.  A controller
\* that restarts counts from zero and must have its event before contactors can close.
CellsFit(kinds) ==
  \/ {"low", "missing"} \intersect kinds = {}
  \/ /\ kinds \subseteq {"low", "link", "reset"}
     /\ "reset" \in kinds => Escalation <= 2 /\ HeartbeatDrop >= 2
     /\ Escalation + ForceOpen < CellFaultDrop

DelaysFit(kinds) == SilenceFits(kinds) /\ ScansFit(kinds) /\ CellsFit(kinds)

-------------------------------------------------------------------------------
(* What the steps of the model do to the variables of the argument.         *)

theirs == << sup_state, status, status_age, bms_restarted, scan, scan_age, violating,
             violation_age >>
ours == << hang_age, uptime, reading, reading_age, low, stale, cut, faulted,
           fault_elapsed, contactors, reply, reply_age >>
between == << snooped, status_wire, reply_wire, got_status >>

LEMMA ReadStep ==
  ASSUME ReadCells
  PROVE  /\ phase = "cells" /\ phase' = "bms" /\ mode = "up" /\ mode' = "up"
         /\ low.level # "FATAL"
         /\ snooped' = cells /\ reading' = Seen(cells) /\ reading_age' = 0
         /\ UNCHANGED << theirs, cells, faults, status_wire, reply_wire, got_status, hang_age,
                         uptime, low, stale, cut, faulted, fault_elapsed, contactors,
                         reply, reply_age >>
BY DEF ReadCells, Goto, Stopped, supervisorVars, world, frames, running, control, theirs

LEMMA PartlyStep ==
  ASSUME ReadCellsPartly
  PROVE  /\ phase = "cells" /\ phase' = "bms" /\ mode = "up" /\ mode' = "up"
         /\ "crc" \in faults
         /\ reading' = reading \/ (reading # NoReading /\ reading' = Seen(cells))
         /\ UNCHANGED << theirs, between, cells, faults, hang_age, uptime, reading_age, low,
                         stale, cut, faulted, fault_elapsed, contactors, reply, reply_age >>
BY DEF ReadCellsPartly, May, Goto, supervisorVars, world, frames, running, control, theirs,
       between

\* A unit without a read or without a round.
LEMMA IdleStep ==
  ASSUME ReadNothing \/ BmsIdle
  PROVE  /\ \/ /\ phase = "cells" /\ phase' = "bms"
               /\ mode = "up" => low.level = "FATAL"
               /\ mode = "hung" => hang_age < Watchdog
               /\ mode = "down" => uptime = 0
            \/ phase = "bms" /\ phase' = "snoop" /\ mode # "up"
         /\ UNCHANGED << theirs, ours, between, cells, faults, mode >>
BY DEF ReadNothing, BmsIdle, Stopped, Goto, supervisorVars, world, frames, bms, running,
       readings, control, theirs, ours, between

LEMMA ModeStep ==
  ASSUME Hang \/ Resume \/ Boot
  PROVE  /\ phase = "cells" /\ phase' = "cells"
         /\ \/ mode = "up" /\ mode' = "hung" /\ "hang" \in faults
            \/ mode = "hung" /\ mode' = "up" /\ hang_age < Watchdog
            \/ mode = "down" /\ mode' = "up" /\ uptime > 0
         /\ UNCHANGED << theirs, ours, between, cells, faults >>
BY DEF Hang, Resume, Boot, May, supervisorVars, world, frames, readings, control, theirs,
       ours, between

LEMMA ResetStep ==
  ASSUME BmsReset
  PROVE  /\ phase = "cells" /\ phase' = "cells" /\ mode' = "down"
         /\ "reset" \in faults \/ mode = "hung"
         /\ hang_age' = 0 /\ uptime' = 0 /\ reading' = NoReading /\ reading_age' = 0
         /\ low'.level = "NONE" /\ stale'.level = "NONE" /\ faulted' = FALSE
         /\ fault_elapsed' = 0 /\ contactors' = "OPEN"
         /\ reply' = "OFF" /\ reply_wire' = NoFrame
         /\ UNCHANGED << theirs, cells, faults, snooped, status_wire, got_status >>
BY DEF BmsReset, May, NoEvent, supervisorVars, world, theirs

LEMMA LossStep ==
  ASSUME LoseStatus \/ LoseReply
  PROVE  /\ phase' = phase /\ "link" \in faults
         /\ \/ phase = "serial" /\ status_wire' = NoStatus /\ UNCHANGED reply_wire
            \/ phase = "time" /\ reply_wire' = NoFrame /\ UNCHANGED status_wire
         /\ UNCHANGED << theirs, ours, snooped, got_status, cells, faults, mode >>
BY DEF LoseStatus, LoseReply, May, supervisorVars, world, bms, running, readings, control,
       theirs, ours

LEMMA WorldStep ==
  ASSUME CellsFail \/ CellsRecover \/ Settle
  PROVE  /\ phase = "cells" /\ phase' = "cells"
         /\ cells' = cells \/ cells' = "good" \/ (cells' \in {"low", "missing"} /\ cells' \in faults)
         /\ UNCHANGED << theirs, ours, between, faults, mode >>
BY DEF CellsFail, CellsRecover, Settle, May, supervisorVars, frames, bms, running, readings,
       control, theirs, ours, between

LEMMA RoundStep ==
  ASSUME BmsLoop
  PROVE  /\ phase = "bms" /\ phase' = "snoop" /\ mode = "up" /\ mode' = "up"
         /\ hang_age' = 0
         /\ faulted => faulted'
         /\ cut => faulted'
         /\ low'.level = "FATAL" \/ stale'.level = "FATAL" => faulted'
         /\ cut' = (contactors = "CLOSED" /\ ~ContactorsEnabled)
         /\ contactors' \in {"OPEN", "CLOSED"}
         /\ contactors' = "CLOSED" /\ contactors = "OPEN" =>
              ~faulted' /\ reply = "ON" /\ reply_age <= ReplyStale /\ reading # NoReading
         /\ contactors' = "CLOSED" /\ faulted' => fault_elapsed < ForceOpen
         /\ IF reply_wire = NoFrame THEN reply' = reply /\ reply_age' = reply_age
                                    ELSE reply' = reply_wire /\ reply_age' = 0
         /\ reply_wire' = NoFrame
         /\ status_wire' = StatusToSend
         /\ UNCHANGED << theirs, cells, faults, snooped, got_status, uptime, reading,
                         reading_age, fault_elapsed >>
<1>1. contactors' \in ContactorChoices(faulted', ContactorsEnabled)
  BY DEF BmsLoop
<1>2. /\ contactors' \in {"OPEN", "CLOSED"}
      /\ contactors' = "CLOSED" /\ contactors = "OPEN" =>
           ~faulted' /\ reply = "ON" /\ reply_age <= ReplyStale /\ reading # NoReading
      /\ contactors' = "CLOSED" /\ faulted' => fault_elapsed < ForceOpen
  BY <1>1 DEF ContactorChoices, ContactorsEnabled
<1> QED
  BY <1>2 DEF BmsLoop, Goto, supervisorVars, world, readings, theirs

LEMMA SnoopStep ==
  ASSUME PollSnoop
  PROVE  /\ phase = "snoop" /\ phase' = "serial" /\ snooped' = NoScan
         /\ IF snooped = NoScan
            THEN UNCHANGED << scan, scan_age, violating, violation_age >>
            ELSE /\ scan' = snooped /\ scan_age' = 0 /\ violating' = (snooped # "good")
                 /\ violation_age' = IF violating /\ snooped # "good" THEN violation_age ELSE 0
         /\ UNCHANGED << ours, sup_state, status, status_age, bms_restarted, status_wire,
                         reply_wire, got_status, cells, faults, mode >>
BY DEF PollSnoop, OnScan, Goto, supervisorVars, world, frames, bms, running, readings,
       control, ours

LEMMA SerialStep ==
  ASSUME PollSerial
  PROVE  /\ phase = "serial" /\ phase' = "decide" /\ status_wire' = NoStatus
         /\ got_status' = (status_wire # NoStatus)
         /\ IF status_wire = NoStatus
            THEN UNCHANGED << status, status_age, bms_restarted >>
            ELSE /\ status' = status_wire /\ status_age' = 0
                 /\ bms_restarted' => bms_restarted \/ status_wire.uptime < status.uptime
                                        \/ status_age > HeartbeatDrop
         /\ UNCHANGED << ours, sup_state, scan, scan_age, violating, violation_age, snooped,
                         reply_wire, cells, faults, mode >>
BY DEF PollSerial, OnStatus, Goto, supervisorVars, world, bms, running, readings, control,
       ours

LEMMA DecideStep ==
  ASSUME Decide
  PROVE  /\ phase = "decide" /\ phase' = "time"
         /\ reply_wire' = IF got_status THEN sup_state' ELSE reply_wire
         /\ got_status' = FALSE /\ bms_restarted' = FALSE
         /\ sup_state = "ON" /\ sup_state' # "ON" =>
              \/ bms_restarted
              \/ CellFaultLasts
              \/ scan_age > ScanStaleDrop
              \/ status_age > HeartbeatDrop
         /\ UNCHANGED << ours, status, status_age, scan, scan_age, violating, violation_age,
                         snooped, status_wire, cells, faults, mode >>
<1>1. PICK agree \in BOOLEAN : SupervisorTick(agree)
  BY DEF Decide, Agreements
<1>2. sup_state = "ON" /\ sup_state' # "ON" =>
        bms_restarted \/ CellFaultLasts \/ scan_age > ScanStaleDrop \/ status_age > HeartbeatDrop
  BY <1>1 DEF SupervisorTick, StartOver, Enable, StayOff, Latch, ScansStopped, BmsGone, StayOn,
              StayLatched
<1>3. bms_restarted' = FALSE /\ UNCHANGED << status, status_age, scan, scan_age, violating, violation_age >>
  BY <1>1 DEF SupervisorTick
<1> QED
  BY <1>2, <1>3 DEF Decide, Goto, world, bms, running, readings, control, ours

LEMMA TimeStep ==
  ASSUME SupervisionTypeOK, Time
  PROVE  /\ phase = "time" /\ phase' = "cells"
         /\ uptime' = uptime + 1 \/ (uptime = HeartbeatDrop + 2 /\ uptime' = uptime)
         /\ hang_age' = IF mode = "hung" THEN hang_age + 1 ELSE 0
         /\ reading = NoReading => reading_age' = 0
         /\ reading # NoReading => \/ reading_age' = reading_age + 1
                                   \/ reading_age = StaleThreshold + 1 /\ reading_age' = reading_age
         /\ faulted => \/ fault_elapsed' = fault_elapsed + 1
                       \/ fault_elapsed = ForceOpen /\ fault_elapsed' = fault_elapsed
         /\ ~faulted => fault_elapsed' = 0
         /\ reply_age' = reply_age + 1 \/ (reply_age = ReplyStale + 1 /\ reply_age' = reply_age)
         /\ status_age' <= status_age + 1 /\ scan_age' <= scan_age + 1
         /\ violation_age' <= violation_age + 1
         /\ UNCHANGED << cells, faults, snooped, status_wire, reply_wire, got_status, mode,
                         reading, low, stale, cut, faulted, contactors, reply, sup_state,
                         status, bms_restarted, scan, violating >>
<1> USE DelayAssumption, SupervisionAssumption DEF DelayAssumption, SupervisionAssumption
<1>1. /\ uptime \in 0..HeartbeatDrop + 2 /\ reading_age \in 0..StaleThreshold + 1
      /\ fault_elapsed \in 0..ForceOpen /\ reply_age \in 0..ReplyStale + 1
      /\ status_age \in Nat /\ scan_age \in Nat /\ violation_age \in Nat
  BY DEF SupervisionTypeOK, SupervisorTypeOK, UptimeBound
<1>2. uptime' = uptime + 1 \/ (uptime = HeartbeatDrop + 2 /\ uptime' = uptime)
  BY <1>1 DEF Time, AtMost, UptimeBound
<1>3. /\ reading = NoReading => reading_age' = 0
      /\ reading # NoReading => \/ reading_age' = reading_age + 1
                                \/ reading_age = StaleThreshold + 1 /\ reading_age' = reading_age
  BY <1>1 DEF Time, AtMost
<1>4. /\ faulted => \/ fault_elapsed' = fault_elapsed + 1
                    \/ fault_elapsed = ForceOpen /\ fault_elapsed' = fault_elapsed
      /\ ~faulted => fault_elapsed' = 0
  BY <1>1 DEF Time, AtMost
<1>5. reply_age' = reply_age + 1 \/ (reply_age = ReplyStale + 1 /\ reply_age' = reply_age)
  BY <1>1 DEF Time, AtMost
<1>6. status_age' <= status_age + 1 /\ scan_age' <= scan_age + 1
  BY <1>1 DEF Time, SupervisorAges, AtMost
<1>7. violation_age' <= violation_age + 1
  BY <1>1 DEF Time, SupervisorAges, AtMost
<1> QED
  BY <1>2, <1>3, <1>4, <1>5, <1>6, <1>7
  DEF Time, Goto, SupervisorAges, world, frames

-------------------------------------------------------------------------------
(* One life of the controller, whatever the faults.                         *)

\* The supervisor's consent is on its way, has arrived or has been used.
InTouch == reply = "ON" \/ reply_wire # NoFrame \/ contactors = "CLOSED"

\* A round later at the start of a unit than after the round.
Rounds(n) == IF BeforeRound THEN n + 1 ELSE n

\* A restart begins with nothing, and runs when its first unit has passed.
LifeBegins ==
  /\ mode = "down" =>
       /\ contactors = "OPEN" /\ reply = "OFF" /\ reply_wire = NoFrame
       /\ reading = NoReading /\ low.level = "NONE" /\ ~faulted
       /\ uptime = 0 \/ (uptime = 1 /\ phase = "cells")
  /\ mode # "down" => uptime >= 1

\* The watchdog ends a hang before the next read.
HangEnds == hang_age < Watchdog \/ (mode = "hung" /\ phase = "cells")

\* A scan and a status are taken in the unit that they are from.
SentThisUnit ==
  /\ snooped # NoScan => phase \in {"bms", "snoop"} /\ mode = "up"
  /\ status_wire # NoStatus =>
       phase \in {"snoop", "serial"} /\ mode = "up" /\ status_wire.uptime = uptime
  /\ got_status =>
       phase = "decide" /\ mode = "up" /\ status_age = 0 /\ status.uptime = uptime

\* Consent is for a controller that the supervisor has heard since it started.
HeardInLife == InTouch => mode # "down" /\ status.uptime <= uptime

\* The first round sends a status, the second takes the answer, the third may close.
ThreeRoundsToClose ==
  HeartbeatDrop >= 2 =>
    /\ reply_wire # NoFrame => uptime >= Rounds(1)
    /\ reply = "ON" => uptime >= Rounds(2)
    /\ contactors = "CLOSED" => uptime >= Rounds(3)

\* In FAULT contactors open ForceOpen later at the latest.
OpensInFault ==
  /\ contactors = "CLOSED" /\ faulted /\ mode = "up" /\ ~BeforeRound => fault_elapsed < ForceOpen
  /\ ~faulted => fault_elapsed = 0
  /\ contactors = "CLOSED" => reading # NoReading

\* An event that is not FATAL has not lasted, and one that is has led to FAULT.
EventsAct ==
  /\ low.level = "CRITICAL" => low.accumulator < Escalation
  /\ stale.level = "CRITICAL" => stale.accumulator < Escalation
  /\ low.level = "FATAL" \/ stale.level = "FATAL" => faulted

LifeInv ==
  /\ LifeBegins /\ HangEnds /\ SentThisUnit /\ HeardInLife /\ ThreeRoundsToClose
  /\ OpensInFault /\ EventsAct

\* The types that the arithmetic below needs.
LifeTypes ==
  /\ phase \in Phases /\ cells \in Cells /\ mode \in {"up", "hung", "down"}
  /\ uptime \in 0..HeartbeatDrop + 2 /\ status.uptime \in Nat
  /\ hang_age \in 0..Watchdog /\ fault_elapsed \in 0..ForceOpen
  /\ reply_age \in 0..ReplyStale + 1 /\ reading_age \in 0..StaleThreshold + 1
  /\ status_age \in Nat /\ scan_age \in Nat /\ violation_age \in Nat
  /\ contactors \in {"OPEN", "CLOSED"}
  /\ sup_state \in SupStates
  /\ low \in Event /\ stale \in Event

LEMMA LifeIsTyped ==
  ASSUME SupervisionTypeOK
  PROVE  LifeTypes
<1> USE DelayAssumption DEF DelayAssumption
<1>1. status.uptime \in Nat
  <2>1. status \in Status => status.uptime \in 0..UptimeBound
    BY DEF Status
  <2>2. NoStatus.uptime = 0
    BY DEF NoStatus
  <2> QED
    BY <2>1, <2>2 DEF SupervisionTypeOK, SupervisorTypeOK, UptimeBound
<1>2. status_age \in Nat /\ scan_age \in Nat /\ violation_age \in Nat
  BY DEF SupervisionTypeOK, SupervisorTypeOK
<1> QED
  BY <1>1, <1>2 DEF SupervisionTypeOK, SupervisorTypeOK, LifeTypes, UptimeBound

LEMMA LifeStarts ==
  ASSUME SupervisionInit
  PROVE  LifeInv
<1> USE DelayAssumption, SupervisionAssumption DEF DelayAssumption, SupervisionAssumption
<1>1. /\ phase = "cells" /\ mode = "down" /\ hang_age = 0 /\ uptime = 0
      /\ reading = NoReading /\ low = NoEvent /\ stale = NoEvent
      /\ faulted = FALSE /\ fault_elapsed = 0 /\ contactors = "OPEN"
      /\ reply = "OFF" /\ reply_wire = NoFrame /\ status_wire = NoStatus
      /\ snooped = NoScan /\ got_status = FALSE
  BY DEF SupervisionInit
<1>2. low.level = "NONE" /\ stale.level = "NONE"
  BY <1>1 DEF NoEvent
<1>3. LifeBegins /\ HangEnds /\ SentThisUnit
  BY <1>1, <1>2 DEF LifeBegins, HangEnds, SentThisUnit
<1>4. HeardInLife /\ ThreeRoundsToClose
  BY <1>1 DEF HeardInLife, ThreeRoundsToClose, InTouch
<1>5. OpensInFault
  BY <1>1 DEF OpensInFault
<1>6. EventsAct
  BY <1>2 DEF EventsAct
<1> QED
  BY <1>3, <1>4, <1>5, <1>6 DEF LifeInv

\* An event that has been ticked and is not FATAL has not lasted.
LEMMA TickedHasNotLasted ==
  ASSUME NEW before \in Event, NEW event \in Event,
         EventTick(before, event).level = "CRITICAL"
  PROVE  EventTick(before, event).accumulator < Escalation
<1> USE SupervisionAssumption DEF SupervisionAssumption, Event
<1> DEFINE accumulated == event.accumulator + (IF before.level = "CRITICAL" THEN 1 ELSE 0)
<1>1. accumulated \in Nat
  OBVIOUS
<1> HIDE DEF accumulated
<1>2. CASE event.level = "CRITICAL"
  BY <1>1, <1>2 DEF EventTick, accumulated, AtMost
<1>3. CASE event.level # "CRITICAL"
  BY <1>3 DEF EventTick
<1> QED
  BY <1>2, <1>3

LEMMA RoundKeepsLife ==
  ASSUME LifeTypes, LifeInv, SupervisionTypeOK, BmsLoop
  PROVE  LifeInv'
<1> USE SupervisionAssumption DEF SupervisionAssumption
<1>1. BeforeRound /\ ~BeforeRound'
  BY RoundStep DEF BeforeRound
<1>2. LifeBegins' /\ HangEnds'
  BY RoundStep DEF LifeInv, LifeBegins, HangEnds
<1>3. SentThisUnit'
  <2>1. StatusToSend.uptime = uptime
    BY DEF StatusToSend
  <2> QED
    BY <2>1, RoundStep DEF LifeInv, SentThisUnit, theirs
<1>4. HeardInLife'
  <2>1. reply' = "ON" => reply = "ON" \/ reply_wire # NoFrame
    BY RoundStep
  <2>2. contactors' = "CLOSED" => reply = "ON" \/ contactors = "CLOSED"
    BY RoundStep DEF LifeTypes
  <2>3. reply_wire' = NoFrame /\ mode' # "down" /\ UNCHANGED << status, uptime >>
    BY RoundStep DEF theirs
  <2> QED
    BY <2>1, <2>2, <2>3 DEF LifeInv, HeardInLife, InTouch
<1>5. ThreeRoundsToClose'
  <2>1. SUFFICES ASSUME HeartbeatDrop >= 2
        PROVE  /\ reply' = "ON" => uptime >= 2
               /\ contactors' = "CLOSED" => uptime >= 3
    BY <1>1, RoundStep DEF ThreeRoundsToClose, Rounds
  <2>2. /\ reply_wire # NoFrame => uptime >= 2
        /\ reply = "ON" => uptime >= 3
        /\ contactors = "CLOSED" => uptime >= 4
    BY <1>1, <2>1 DEF LifeInv, ThreeRoundsToClose, Rounds
  <2>3. reply' = "ON" => reply = "ON" \/ reply_wire # NoFrame
    BY RoundStep
  <2>4. contactors' = "CLOSED" => reply = "ON" \/ contactors = "CLOSED"
    BY RoundStep DEF LifeTypes
  <2> QED
    BY <2>2, <2>3, <2>4 DEF LifeTypes
<1>6. OpensInFault'
  BY <1>1, RoundStep DEF LifeInv, LifeTypes, OpensInFault
<1>7. EventsAct'
  <2>1. /\ low' \in {EventTick(low, Confirm(low, reading # "low")), EventTick(low, low)}
        /\ stale' \in {EventTick(stale, Confirm(stale, Fresh)), EventTick(stale, stale)}
    BY DEF BmsLoop
  <2>2. /\ Confirm(low, reading # "low") \in Event /\ low \in Event
        /\ Confirm(stale, Fresh) \in Event /\ stale \in Event
    BY ConfirmedIsEvent DEF LifeTypes
  <2>3. low'.level = "CRITICAL" => low'.accumulator < Escalation
    BY <2>1, <2>2, TickedHasNotLasted
  <2>4. stale'.level = "CRITICAL" => stale'.accumulator < Escalation
    BY <2>1, <2>2, TickedHasNotLasted
  <2> QED
    BY <2>3, <2>4, RoundStep DEF EventsAct
<1> QED
  BY <1>2, <1>3, <1>4, <1>5, <1>6, <1>7 DEF LifeInv

\* The decision puts the answer on its way to the controller that has just been heard.
LEMMA DecisionKeepsLife ==
  ASSUME LifeTypes, LifeInv, Decide
  PROVE  LifeInv'
<1>1. ~BeforeRound /\ ~BeforeRound'
  BY DecideStep DEF BeforeRound
<1>2. /\ reply_wire' # NoFrame => reply_wire # NoFrame \/ got_status
      /\ got_status => mode = "up" /\ status.uptime = uptime /\ uptime >= 1
  BY DecideStep DEF LifeInv, SentThisUnit, LifeBegins
<1>3. LifeBegins'
  <2>1. reply_wire' # NoFrame => mode # "down"
    BY <1>2 DEF LifeInv, LifeBegins
  <2> QED
    BY <2>1, DecideStep DEF LifeInv, LifeBegins, ours
<1>4. HangEnds' /\ SentThisUnit' /\ OpensInFault' /\ EventsAct'
  BY <1>1, DecideStep DEF LifeInv, HangEnds, SentThisUnit, OpensInFault, EventsAct, ours
<1>5. HeardInLife'
  BY <1>2, DecideStep DEF LifeInv, LifeTypes, HeardInLife, InTouch, ours
<1>6. ThreeRoundsToClose'
  BY <1>1, <1>2, DecideStep DEF LifeInv, LifeTypes, ThreeRoundsToClose, Rounds, ours
<1> QED
  BY <1>3, <1>4, <1>5, <1>6 DEF LifeInv

LEMMA TimeKeepsLife ==
  ASSUME LifeTypes, LifeInv, SupervisionTypeOK, Time
  PROVE  LifeInv'
<1> USE DelayAssumption, SupervisionAssumption DEF DelayAssumption, SupervisionAssumption
<1>1. ~BeforeRound /\ BeforeRound'
  BY TimeStep DEF BeforeRound
<1>2. uptime' >= uptime /\ (uptime' = uptime + 1 \/ uptime' = HeartbeatDrop + 2)
  BY TimeStep DEF LifeTypes
<1>3. LifeBegins'
  BY <1>2, TimeStep DEF LifeInv, LifeTypes, LifeBegins
<1>4. HangEnds'
  BY TimeStep DEF LifeInv, LifeTypes, HangEnds
<1>5. SentThisUnit'
  BY TimeStep DEF LifeInv, SentThisUnit
<1>6. HeardInLife'
  BY <1>2, TimeStep DEF LifeInv, LifeTypes, HeardInLife, InTouch
<1>7. ThreeRoundsToClose'
  BY <1>1, <1>2, TimeStep DEF LifeInv, LifeTypes, ThreeRoundsToClose, Rounds
<1>8. OpensInFault' /\ EventsAct'
  BY <1>1, TimeStep DEF LifeInv, OpensInFault, EventsAct
<1> QED
  BY <1>3, <1>4, <1>5, <1>6, <1>7, <1>8 DEF LifeInv

\* The other steps touch one part or another.
LEMMA OthersKeepLife ==
  ASSUME LifeTypes, LifeInv, SupervisionNext, ~BmsLoop, ~Decide, ~Time
  PROVE  LifeInv'
<1> USE SupervisionAssumption DEF SupervisionAssumption
<1>1. CASE ReadCells \/ ReadCellsPartly
  <2>1. BeforeRound /\ BeforeRound' /\ UNCHANGED << reply, reply_wire, contactors, status, uptime, mode >>
    BY <1>1, ReadStep, PartlyStep DEF BeforeRound, theirs, between
  <2>2. LifeBegins' /\ HangEnds' /\ SentThisUnit'
    BY <1>1, ReadStep, PartlyStep DEF LifeInv, LifeBegins, HangEnds, SentThisUnit, between, theirs
  <2>3. HeardInLife' /\ ThreeRoundsToClose'
    BY <2>1 DEF LifeInv, HeardInLife, InTouch, ThreeRoundsToClose, Rounds
  <2>4. reading' # NoReading \/ reading' = reading
    BY <1>1, ReadStep, PartlyStep DEF Seen, NoReading, LifeTypes, Cells
  <2>5. OpensInFault' /\ EventsAct'
    BY <1>1, <2>1, <2>4, ReadStep, PartlyStep DEF LifeInv, OpensInFault, EventsAct
  <2> QED
    BY <2>2, <2>3, <2>5 DEF LifeInv
<1>2. CASE ReadNothing \/ BmsIdle
  <2>1. LifeBegins' /\ HangEnds' /\ SentThisUnit'
    BY <1>2, IdleStep DEF LifeInv, LifeBegins, HangEnds, SentThisUnit, theirs, ours, between
  <2>2. BeforeRound /\ UNCHANGED << reply, reply_wire, contactors, status, uptime, mode >>
    BY <1>2, IdleStep DEF BeforeRound, theirs, ours, between
  <2>3. HeardInLife'
    BY <2>2 DEF LifeInv, HeardInLife, InTouch
  <2>4. ThreeRoundsToClose'
    BY <2>2 DEF LifeInv, LifeTypes, ThreeRoundsToClose, Rounds
  <2>5. OpensInFault' /\ EventsAct'
    BY <1>2, IdleStep DEF LifeInv, OpensInFault, EventsAct, ours, BeforeRound
  <2> QED
    BY <2>1, <2>3, <2>4, <2>5 DEF LifeInv
<1>3. CASE Hang \/ Resume \/ Boot
  <2>1. BeforeRound /\ BeforeRound'
    BY <1>3, ModeStep DEF BeforeRound
  <2>2. LifeBegins' /\ HangEnds' /\ SentThisUnit'
    BY <1>3, ModeStep DEF LifeInv, LifeTypes, LifeBegins, HangEnds, SentThisUnit, theirs, ours, between
  <2>3. HeardInLife' /\ ThreeRoundsToClose'
    BY <1>3, <2>1, ModeStep
    DEF LifeInv, HeardInLife, InTouch, ThreeRoundsToClose, Rounds, theirs, ours, between
  <2>4. OpensInFault' /\ EventsAct'
    BY <1>3, <2>1, ModeStep DEF LifeInv, OpensInFault, EventsAct, ours
  <2> QED
    BY <2>2, <2>3, <2>4 DEF LifeInv
<1>4. CASE BmsReset
  <2>1. LifeBegins' /\ HangEnds' /\ SentThisUnit'
    BY <1>4, ResetStep DEF LifeInv, LifeBegins, HangEnds, SentThisUnit
  <2>2. HeardInLife' /\ ThreeRoundsToClose'
    BY <1>4, ResetStep DEF HeardInLife, InTouch, ThreeRoundsToClose
  <2>3. OpensInFault' /\ EventsAct'
    BY <1>4, ResetStep DEF OpensInFault, EventsAct
  <2> QED
    BY <2>1, <2>2, <2>3 DEF LifeInv
<1>5. CASE LoseStatus \/ LoseReply
  <2>1. BeforeRound' <=> BeforeRound
    BY <1>5, LossStep DEF BeforeRound
  <2>2. LifeBegins' /\ HangEnds' /\ SentThisUnit'
    BY <1>5, LossStep DEF LifeInv, LifeBegins, HangEnds, SentThisUnit, theirs, ours
  <2>3. HeardInLife' /\ ThreeRoundsToClose'
    BY <1>5, <2>1, LossStep
    DEF LifeInv, HeardInLife, InTouch, ThreeRoundsToClose, Rounds, theirs, ours
  <2>4. OpensInFault' /\ EventsAct'
    BY <1>5, <2>1, LossStep DEF LifeInv, OpensInFault, EventsAct, ours
  <2> QED
    BY <2>2, <2>3, <2>4 DEF LifeInv
<1>6. CASE PollSnoop \/ PollSerial
  <2>1. ~BeforeRound /\ ~BeforeRound' /\ UNCHANGED << ours, reply_wire, mode >>
    BY <1>6, SnoopStep, SerialStep DEF BeforeRound
  <2>2. LifeBegins' /\ HangEnds'
    BY <1>6, <2>1, SnoopStep, SerialStep DEF LifeInv, LifeBegins, HangEnds, ours
  <2>3. SentThisUnit'
    <3>1. CASE PollSnoop
      BY <3>1, SnoopStep DEF LifeInv, SentThisUnit, ours
    <3>2. CASE PollSerial
      <4>1. got_status' => mode = "up" /\ status_age' = 0 /\ status'.uptime = uptime
        BY <3>2, SerialStep DEF LifeInv, SentThisUnit
      <4>2. /\ phase = "serial" /\ phase' = "decide" /\ status_wire' = NoStatus
            /\ UNCHANGED << snooped, mode, uptime >>
        BY <3>2, SerialStep DEF ours
      <4> QED
        BY <4>1, <4>2 DEF LifeInv, SentThisUnit
    <3> QED
      BY <1>6, <3>1, <3>2
  <2>4. HeardInLife'
    <3>1. status' = status \/ status'.uptime = uptime
      BY <1>6, SnoopStep, SerialStep DEF LifeInv, SentThisUnit
    <3> QED
      BY <2>1, <3>1 DEF LifeInv, LifeTypes, HeardInLife, InTouch, ours
  <2>5. ThreeRoundsToClose' /\ OpensInFault' /\ EventsAct'
    BY <2>1 DEF LifeInv, ThreeRoundsToClose, Rounds, OpensInFault, EventsAct, ours
  <2> QED
    BY <2>2, <2>3, <2>4, <2>5 DEF LifeInv
<1>7. CASE CellsFail \/ CellsRecover \/ Settle
  <2>1. /\ phase' = phase /\ BeforeRound /\ BeforeRound'
        /\ UNCHANGED << theirs, ours, between, mode >>
    BY <1>7, WorldStep DEF BeforeRound
  <2> QED
    BY <2>1 DEF LifeInv, LifeBegins, HangEnds, SentThisUnit, HeardInLife, InTouch,
      ThreeRoundsToClose, Rounds, OpensInFault, EventsAct, theirs, ours, between
<1> QED
  BY <1>1, <1>2, <1>3, <1>4, <1>5, <1>6, <1>7 DEF SupervisionNext, Run, Fault

LEMMA LifeHolds == SupervisionSpec => [](SupervisionTypeOK /\ LifeInv)
<1>1. SupervisionTypeOK /\ LifeInv /\ [SupervisionNext]_supervisionVars => LifeInv'
  <2>1. ASSUME SupervisionTypeOK, LifeInv, SupervisionNext
        PROVE  LifeInv'
    BY <2>1, LifeIsTyped, RoundKeepsLife, DecisionKeepsLife, TimeKeepsLife, OthersKeepLife
  <2>2. ASSUME LifeInv, UNCHANGED supervisionVars
        PROVE  LifeInv'
    BY <2>2 DEF supervisionVars, supervisorVars, world, frames, bms, running, readings, control,
      history, LifeInv, LifeBegins, HangEnds, SentThisUnit, HeardInLife, InTouch,
      ThreeRoundsToClose, Rounds, BeforeRound, OpensInFault, EventsAct
  <2> QED
    BY <2>1, <2>2
<1>2. SupervisionInit => LifeInv
  BY LifeStarts
<1> QED
  BY <1>1, <1>2, SupervisionTypes, PTL DEF SupervisionSpec

-------------------------------------------------------------------------------
(* Silence: the heartbeat is not lost while the contactors are closed.      *)

\* Without hangs.  An answer is as old as the status it answers, the contactors'
\* consent ages with it, and the rounds after it has gone lead to FAULT.
LossesAreAnswered ==
  "hang" \notin faults =>
    /\ mode # "hung"
    /\ reply_wire # NoFrame =>
         phase \in {"time", "cells", "bms"} /\ status_age <= Rounds(0)
    /\ ContactorsEnabled => status_age <= reply_age + 1
    /\ contactors = "CLOSED" =>
         /\ faulted => status_age <= ReplyStale + 3 + fault_elapsed
         /\ ~faulted /\ cut => status_age <= ReplyStale + Rounds(2)
         /\ ~faulted /\ ~cut => status_age <= ReplyStale + Rounds(1)

\* Without losses.  A round of the controller is heard in the same unit, and only a
\* hang is silent.
HangsAreSilent ==
  "link" \notin faults =>
    /\ mode = "up" /\ phase \in {"snoop", "serial"} => status_wire # NoStatus
    /\ mode = "up" /\ phase \in {"decide", "time"} => status_age = 0
    /\ InTouch /\ (mode = "hung" \/ BeforeRound) => status_age <= hang_age + 1
    /\ Watchdog <= HeartbeatDrop /\ contactors = "CLOSED" /\ phase \in {"snoop", "serial"} =>
         status_age <= HeartbeatDrop

\* A restart is heard of when the contactors are open.
RestartIsOpen ==
  bms_restarted => phase = "decide" /\ (SilenceFits(faults) => contactors = "OPEN")

SilenceInv == LossesAreAnswered /\ HangsAreSilent /\ RestartIsOpen

LEMMA SilenceStarts ==
  ASSUME SupervisionInit
  PROVE  SilenceInv
<1>1. /\ phase = "cells" /\ mode = "down" /\ contactors = "OPEN"
      /\ reply = "OFF" /\ reply_wire = NoFrame /\ bms_restarted = FALSE
  BY DEF SupervisionInit, SupervisorInit
<1>2. LossesAreAnswered
  BY <1>1 DEF LossesAreAnswered, ContactorsEnabled
<1>3. HangsAreSilent
  BY <1>1 DEF HangsAreSilent, InTouch
<1> QED
  BY <1>1, <1>2, <1>3 DEF SilenceInv, RestartIsOpen

\* A controller with closed contactors has been heard lately.
LEMMA ClosedIsHeard ==
  ASSUME LifeTypes, LifeInv, SilenceInv, SilenceFits(faults), contactors = "CLOSED",
         phase \in {"serial", "decide"}
  PROVE  status_age <= HeartbeatDrop
<1> USE DelayAssumption, SupervisionAssumption DEF DelayAssumption, SupervisionAssumption
<1>1. ~BeforeRound /\ mode # "down"
  BY DEF BeforeRound, LifeInv, LifeBegins
<1>2. CASE "hang" \notin faults /\ ReplyStale + ForceOpen + 2 <= HeartbeatDrop
  <2>1. mode = "up"
    BY <1>1, <1>2 DEF SilenceInv, LossesAreAnswered, LifeTypes
  <2>2. faulted => fault_elapsed < ForceOpen
    BY <1>1, <2>1 DEF LifeInv, OpensInFault
  <2>3. /\ faulted => status_age <= ReplyStale + 3 + fault_elapsed
        /\ ~faulted => status_age <= ReplyStale + 2
    BY <1>1, <1>2 DEF SilenceInv, LossesAreAnswered, Rounds, LifeTypes
  <2> QED
    BY <1>2, <2>2, <2>3 DEF LifeTypes
<1>3. CASE "link" \notin faults /\ Watchdog <= HeartbeatDrop
  <2>1. CASE phase = "serial"
    BY <1>3, <2>1 DEF SilenceInv, HangsAreSilent
  <2>2. CASE phase = "decide" /\ mode = "up"
    BY <1>3, <2>2 DEF SilenceInv, HangsAreSilent
  <2>3. CASE phase = "decide" /\ mode = "hung"
    <3>1. status_age <= hang_age + 1
      BY <1>3, <2>3 DEF SilenceInv, HangsAreSilent, InTouch
    <3>2. hang_age < Watchdog
      BY <2>3 DEF LifeInv, HangEnds
    <3> QED
      BY <1>3, <3>1, <3>2 DEF LifeTypes
  <2> QED
    BY <1>1, <2>1, <2>2, <2>3 DEF LifeTypes
<1> QED
  BY <1>2, <1>3 DEF SilenceFits

LEMMA SentIsNotNoStatus == StatusToSend # NoStatus
<1>1. DOMAIN StatusToSend = {"uptime", "compatible", "valid", "balancing", "cells"}
  BY DEF StatusToSend
<1>2. DOMAIN NoStatus = {"uptime"}
  BY DEF NoStatus
<1> QED
  BY <1>1, <1>2

LEMMA RoundKeepsSilence ==
  ASSUME LifeTypes, LifeInv, SilenceInv, BmsLoop
  PROVE  SilenceInv'
<1> USE DelayAssumption, SupervisionAssumption DEF DelayAssumption, SupervisionAssumption
<1>1. BeforeRound /\ ~BeforeRound' /\ faults' = faults /\ status_age' = status_age
  BY RoundStep DEF BeforeRound, theirs
<1>2. contactors' = "CLOSED" => reply = "ON" \/ contactors = "CLOSED"
  BY RoundStep DEF LifeTypes
<1>3. LossesAreAnswered'
  <2>1. SUFFICES ASSUME "hang" \notin faults
        PROVE  /\ ContactorsEnabled' => status_age <= reply_age' + 1
               /\ contactors' = "CLOSED" =>
                    /\ faulted' => status_age <= ReplyStale + 3 + fault_elapsed
                    /\ ~faulted' /\ cut' => status_age <= ReplyStale + 2
                    /\ ~faulted' /\ ~cut' => status_age <= ReplyStale + 1
    BY <1>1, RoundStep DEF LossesAreAnswered, Rounds
  <2>2. /\ reply_wire # NoFrame => status_age <= 1
        /\ ContactorsEnabled => status_age <= reply_age + 1 /\ reply_age <= ReplyStale
    BY <1>1, <2>1 DEF SilenceInv, LossesAreAnswered, Rounds, ContactorsEnabled
  <2>3. contactors = "CLOSED" =>
          /\ faulted => status_age <= ReplyStale + 3 + fault_elapsed
          /\ ~faulted /\ cut => status_age <= ReplyStale + 3
          /\ ~faulted /\ ~cut => status_age <= ReplyStale + 2
    BY <1>1, <2>1 DEF SilenceInv, LossesAreAnswered, Rounds
  <2>4. ContactorsEnabled' => status_age <= reply_age' + 1
    <3>1. CASE reply_wire = NoFrame
      BY <2>2, <3>1, RoundStep DEF ContactorsEnabled
    <3>2. CASE reply_wire # NoFrame
      BY <2>2, <3>2, RoundStep DEF LifeTypes
    <3> QED
      BY <3>1, <3>2
  <2>5. contactors' = "CLOSED" /\ contactors = "OPEN" => ~faulted' /\ ContactorsEnabled
    BY RoundStep DEF ContactorsEnabled
  <2>6. cut' <=> contactors = "CLOSED" /\ ~ContactorsEnabled
    BY RoundStep
  <2>7. (faulted => faulted') /\ (cut => faulted')
    BY RoundStep
  <2>8. CASE contactors = "OPEN"
    BY <2>2, <2>4, <2>5, <2>6, <2>8 DEF LifeTypes
  <2>9. CASE contactors = "CLOSED"
    <3>1. faulted' => status_age <= ReplyStale + 3 + fault_elapsed
      BY <2>3, <2>9 DEF LifeTypes
    <3>2. ~faulted' => ~faulted /\ ~cut /\ status_age <= ReplyStale + 2
      BY <2>3, <2>7, <2>9
    <3>3. ~faulted' /\ ~cut' => ContactorsEnabled
      BY <2>6, <2>9
    <3>4. ~faulted' /\ ~cut' => status_age <= ReplyStale + 1
      BY <2>2, <3>3 DEF LifeTypes
    <3> QED
      BY <2>4, <3>1, <3>2, <3>4
  <2> QED
    BY <2>8, <2>9 DEF LifeTypes
<1>4. HangsAreSilent'
  <2>1. SUFFICES ASSUME "link" \notin faults
        PROVE  Watchdog <= HeartbeatDrop /\ contactors' = "CLOSED" => status_age <= HeartbeatDrop
    BY <1>1, RoundStep, SentIsNotNoStatus DEF HangsAreSilent
  <2>2. contactors' = "CLOSED" => status_age <= hang_age + 1
    BY <1>1, <1>2, <2>1 DEF SilenceInv, HangsAreSilent, InTouch
  <2>3. hang_age < Watchdog
    BY RoundStep DEF LifeInv, HangEnds
  <2> QED
    BY <2>2, <2>3 DEF LifeTypes
<1>5. RestartIsOpen'
  BY RoundStep DEF SilenceInv, RestartIsOpen, theirs
<1> QED
  BY <1>3, <1>4, <1>5 DEF SilenceInv

\* A status is a restart only when nothing has been heard in this life, or for long.
LEMMA SerialKeepsSilence ==
  ASSUME LifeTypes, LifeInv, SilenceInv, PollSerial
  PROVE  SilenceInv'
<1>1. /\ ~BeforeRound /\ ~BeforeRound' /\ phase = "serial" /\ phase' = "decide"
      /\ UNCHANGED << ours, faults, mode, reply_wire >>
  BY SerialStep DEF BeforeRound
<1>2. /\ status_age' = status_age \/ status_age' = 0
      /\ status_wire # NoStatus => status_age' = 0
  BY SerialStep
<1>3. LossesAreAnswered'
  <2>1. SUFFICES ASSUME "hang" \notin faults
        PROVE  /\ mode # "hung" /\ reply_wire = NoFrame
               /\ ContactorsEnabled => status_age' <= reply_age + 1
               /\ contactors = "CLOSED" =>
                    /\ faulted => status_age' <= ReplyStale + 3 + fault_elapsed
                    /\ ~faulted /\ cut => status_age' <= ReplyStale + 2
                    /\ ~faulted /\ ~cut => status_age' <= ReplyStale + 1
    BY <1>1 DEF LossesAreAnswered, ContactorsEnabled, Rounds, ours
  <2>2. status_age' <= status_age /\ status_age' \in Nat /\ status_age \in Nat
    BY <1>2 DEF LifeTypes
  <2>3. mode # "hung" /\ reply_wire = NoFrame
    BY <1>1, <2>1 DEF SilenceInv, LossesAreAnswered
  <2>4. ContactorsEnabled => status_age' <= reply_age + 1
    BY <2>1, <2>2 DEF SilenceInv, LossesAreAnswered, LifeTypes
  <2>5. contactors = "CLOSED" =>
          /\ faulted => status_age <= ReplyStale + 3 + fault_elapsed
          /\ ~faulted /\ cut => status_age <= ReplyStale + 2
          /\ ~faulted /\ ~cut => status_age <= ReplyStale + 1
    BY <1>1, <2>1 DEF SilenceInv, LossesAreAnswered, Rounds
  <2>6. fault_elapsed \in Nat /\ ReplyStale \in Nat
    BY SupervisionAssumption DEF SupervisionAssumption, LifeTypes
  <2>7. contactors = "CLOSED" =>
          /\ faulted => status_age' <= ReplyStale + 3 + fault_elapsed
          /\ ~faulted /\ cut => status_age' <= ReplyStale + 2
          /\ ~faulted /\ ~cut => status_age' <= ReplyStale + 1
    BY <2>2, <2>5, <2>6
  <2> QED
    BY <2>3, <2>4, <2>7
<1>4. HangsAreSilent'
  <2>1. status_age' <= status_age
    BY <1>2 DEF LifeTypes
  <2> QED
    BY <1>1, <1>2, <2>1 DEF SilenceInv, HangsAreSilent, InTouch, LifeTypes, ours
<1>5. RestartIsOpen'
  <2>1. SUFFICES ASSUME bms_restarted', SilenceFits(faults), contactors = "CLOSED"
        PROVE  FALSE
    BY <1>1 DEF RestartIsOpen, LifeTypes, SilenceFits, ours
  <2>2. ~bms_restarted
    BY <1>1 DEF SilenceInv, RestartIsOpen
  <2>3. /\ status_wire # NoStatus
        /\ status_wire.uptime < status.uptime \/ status_age > HeartbeatDrop
    BY <2>1, <2>2, SerialStep
  <2>4. status_wire.uptime = uptime /\ status.uptime <= uptime
    BY <2>1, <2>3 DEF LifeInv, SentThisUnit, HeardInLife, InTouch
  <2>5. status_age <= HeartbeatDrop
    BY <1>1, <2>1, ClosedIsHeard
  <2> QED
    BY <2>3, <2>4, <2>5, DelayAssumption DEF LifeTypes, DelayAssumption
<1> QED
  BY <1>3, <1>4, <1>5 DEF SilenceInv

LEMMA DecisionKeepsSilence ==
  ASSUME LifeTypes, LifeInv, SilenceInv, Decide
  PROVE  SilenceInv'
<1>1. /\ ~BeforeRound /\ ~BeforeRound' /\ phase = "decide" /\ phase' = "time"
      /\ UNCHANGED << ours, faults, mode, status_age >>
  BY DecideStep DEF BeforeRound
<1>2. /\ reply_wire' # NoFrame => reply_wire # NoFrame \/ got_status
      /\ got_status => mode = "up" /\ status_age = 0
  BY DecideStep DEF LifeInv, SentThisUnit
<1>3. LossesAreAnswered'
  <2>1. "hang" \notin faults => reply_wire = NoFrame
    BY <1>1 DEF SilenceInv, LossesAreAnswered
  <2>2. "hang" \notin faults /\ reply_wire' # NoFrame => status_age <= 0
    BY <1>2, <2>1, DelayAssumption DEF DelayAssumption
  <2> QED
    BY <1>1, <2>2 DEF SilenceInv, LossesAreAnswered, ContactorsEnabled, Rounds, ours
<1>4. HangsAreSilent'
  BY <1>1, <1>2 DEF SilenceInv, HangsAreSilent, InTouch, LifeTypes, ours
<1>5. RestartIsOpen'
  BY DecideStep DEF RestartIsOpen
<1> QED
  BY <1>3, <1>4, <1>5 DEF SilenceInv

LEMMA TimeKeepsSilence ==
  ASSUME LifeTypes, LifeTypes', LifeInv, SilenceInv, SupervisionTypeOK, Time
  PROVE  SilenceInv'
<1> USE DelayAssumption, SupervisionAssumption DEF DelayAssumption, SupervisionAssumption
<1>1. ~BeforeRound /\ BeforeRound' /\ phase = "time" /\ phase' = "cells"
  BY TimeStep DEF BeforeRound
<1>2. UNCHANGED << faults, mode, reply, reply_wire, contactors, cut, faulted, bms_restarted >>
  BY TimeStep
<1>3. LossesAreAnswered'
  <2>1. SUFFICES ASSUME "hang" \notin faults
        PROVE  /\ mode # "hung"
               /\ reply_wire # NoFrame => status_age' <= 1
               /\ ContactorsEnabled' => status_age' <= reply_age' + 1
               /\ contactors = "CLOSED" =>
                    /\ faulted => status_age' <= ReplyStale + 3 + fault_elapsed'
                    /\ ~faulted /\ cut => status_age' <= ReplyStale + 3
                    /\ ~faulted /\ ~cut => status_age' <= ReplyStale + 2
    BY <1>1, <1>2 DEF LossesAreAnswered, Rounds
  <2>0. status_age' <= status_age + 1 /\ status_age' \in Nat
    BY TimeStep DEF LifeTypes
  <2>2. mode # "hung" /\ (reply_wire # NoFrame => status_age' <= 1)
    BY <1>1, <2>1, TimeStep DEF SilenceInv, LossesAreAnswered, Rounds, LifeTypes
  <2>3. ContactorsEnabled' => status_age' <= reply_age' + 1
    <3>1. ContactorsEnabled' => reply_age' = reply_age + 1 /\ ContactorsEnabled
      BY <1>2, TimeStep DEF ContactorsEnabled, LifeTypes
    <3>2. ContactorsEnabled => status_age <= reply_age + 1
      BY <2>1 DEF SilenceInv, LossesAreAnswered
    <3> QED
      BY <2>0, <3>1, <3>2 DEF LifeTypes
  <2>4. contactors = "CLOSED" /\ faulted => fault_elapsed' = fault_elapsed + 1
    <3>1. contactors = "CLOSED" => mode = "up"
      BY <2>2 DEF LifeInv, LifeBegins, LifeTypes
    <3>2. contactors = "CLOSED" /\ faulted => fault_elapsed < ForceOpen
      BY <1>1, <3>1 DEF LifeInv, OpensInFault
    <3> QED
      BY <3>2, TimeStep DEF LifeTypes
  <2>5. contactors = "CLOSED" =>
          /\ faulted => status_age <= ReplyStale + 3 + fault_elapsed
          /\ ~faulted /\ cut => status_age <= ReplyStale + 2
          /\ ~faulted /\ ~cut => status_age <= ReplyStale + 1
    BY <1>1, <2>1 DEF SilenceInv, LossesAreAnswered, Rounds
  <2>6. fault_elapsed \in Nat /\ status_age \in Nat
    BY DEF LifeTypes
  <2>7. contactors = "CLOSED" =>
          /\ faulted => status_age' <= ReplyStale + 3 + fault_elapsed'
          /\ ~faulted /\ cut => status_age' <= ReplyStale + 3
          /\ ~faulted /\ ~cut => status_age' <= ReplyStale + 2
    BY <2>0, <2>4, <2>5, <2>6
  <2> QED
    BY <2>2, <2>3, <2>7
<1>4. HangsAreSilent'
  <2>1. SUFFICES ASSUME "link" \notin faults, InTouch
        PROVE  status_age' <= hang_age' + 1
    BY <1>1, <1>2 DEF HangsAreSilent, InTouch
  <2>2. mode # "down"
    BY <2>1 DEF LifeInv, HeardInLife
  <2>3. CASE mode = "up"
    BY <1>1, <2>1, <2>3, TimeStep DEF SilenceInv, HangsAreSilent, LifeTypes
  <2>4. CASE mode = "hung"
    BY <1>1, <2>1, <2>4, TimeStep DEF SilenceInv, HangsAreSilent, LifeTypes
  <2> QED
    BY <2>2, <2>3, <2>4 DEF LifeTypes
<1>5. RestartIsOpen'
  BY <1>1, <1>2 DEF SilenceInv, RestartIsOpen
<1> QED
  BY <1>3, <1>4, <1>5 DEF SilenceInv

LEMMA OthersKeepSilence ==
  ASSUME LifeTypes, LifeInv, SilenceInv, SupervisionNext,
         ~BmsLoop, ~PollSerial, ~Decide, ~Time
  PROVE  SilenceInv'
<1> USE SupervisionAssumption DEF SupervisionAssumption
<1>1. CASE ReadCells \/ ReadCellsPartly \/ CellsFail \/ CellsRecover \/ Settle
  <2>1. /\ BeforeRound /\ BeforeRound' /\ phase' \in {"cells", "bms"}
        /\ UNCHANGED << faults, mode, reply, reply_age, reply_wire, contactors, cut, faulted,
                        fault_elapsed, status_age, status_wire, hang_age, bms_restarted >>
    BY <1>1, ReadStep, PartlyStep, WorldStep DEF BeforeRound, theirs, ours, between
  <2> QED
    BY <2>1 DEF SilenceInv, LossesAreAnswered, HangsAreSilent, RestartIsOpen, Rounds, InTouch,
      ContactorsEnabled, SilenceFits, BeforeRound
<1>2. CASE ReadNothing \/ BmsIdle
  <2>1. /\ BeforeRound /\ (phase' = "bms" \/ (phase' = "snoop" /\ mode # "up"))
        /\ UNCHANGED << faults, mode, reply, reply_age, reply_wire, contactors, cut, faulted,
                        fault_elapsed, status_age, status_wire, hang_age, bms_restarted >>
        /\ ~bms_restarted
    BY <1>2, IdleStep DEF BeforeRound, theirs, ours, between, SilenceInv, RestartIsOpen
  <2>2. RestartIsOpen'
    BY <2>1 DEF RestartIsOpen
  <2>3. CASE phase' = "bms"
    BY <2>1, <2>2, <2>3 DEF SilenceInv, LossesAreAnswered, HangsAreSilent, Rounds, InTouch,
      ContactorsEnabled, BeforeRound
  <2>4. CASE phase' = "snoop" /\ mode # "up"
    <3>1. "hang" \notin faults => mode = "down"
      BY <2>4 DEF SilenceInv, LossesAreAnswered, LifeTypes
    <3>2. mode = "down" => contactors = "OPEN" /\ reply = "OFF" /\ reply_wire = NoFrame
      BY DEF LifeInv, LifeBegins
    <3>3. LossesAreAnswered'
      BY <2>1, <2>4, <3>1, <3>2 DEF LossesAreAnswered, ContactorsEnabled
    <3>4. InTouch => status_age <= HeartbeatDrop \/ "link" \in faults \/ ~(Watchdog <= HeartbeatDrop)
      <4>1. InTouch => hang_age < Watchdog
        BY <2>4, <1>2, IdleStep DEF LifeInv, HangEnds
      <4>2. InTouch /\ "link" \notin faults => status_age <= hang_age + 1
        BY <2>1 DEF SilenceInv, HangsAreSilent
      <4> QED
        BY <4>1, <4>2, DelayAssumption DEF LifeTypes, DelayAssumption
    <3>5. HangsAreSilent'
      BY <2>1, <2>4, <3>4 DEF SilenceInv, HangsAreSilent, InTouch, BeforeRound
    <3> QED
      BY <2>2, <3>3, <3>5 DEF SilenceInv
  <2> QED
    BY <2>1, <2>3, <2>4
<1>3. CASE Hang \/ Resume \/ Boot
  <2>1. /\ BeforeRound /\ BeforeRound' /\ phase' = "cells"
        /\ mode' = "hung" => "hang" \in faults \/ mode = "hung"
        /\ UNCHANGED << faults, reply, reply_age, reply_wire, contactors, cut, faulted, phase,
                        fault_elapsed, status_age, status_wire, hang_age, bms_restarted >>
    BY <1>3, ModeStep DEF BeforeRound, theirs, ours, between
  <2> QED
    BY <2>1 DEF SilenceInv, LossesAreAnswered, HangsAreSilent, RestartIsOpen, Rounds, InTouch,
      ContactorsEnabled, SilenceFits
<1>4. CASE BmsReset
  <2>1. /\ phase' = "cells" /\ mode' = "down" /\ contactors' = "OPEN" /\ reply' = "OFF"
        /\ reply_wire' = NoFrame /\ bms_restarted' = bms_restarted /\ phase = "cells"
    BY <1>4, ResetStep DEF theirs
  <2> QED
    BY <2>1 DEF SilenceInv, LossesAreAnswered, HangsAreSilent, RestartIsOpen, InTouch,
      ContactorsEnabled
<1>5. CASE LoseStatus \/ LoseReply
  <2>1. /\ phase' = phase /\ (BeforeRound' <=> BeforeRound) /\ "link" \in faults
        /\ reply_wire' # NoFrame => reply_wire' = reply_wire
        /\ UNCHANGED << faults, mode, reply, reply_age, contactors, cut, faulted,
                        fault_elapsed, status_age, bms_restarted >>
    BY <1>5, LossStep DEF BeforeRound, theirs, ours
  <2> QED
    BY <2>1 DEF SilenceInv, LossesAreAnswered, HangsAreSilent, RestartIsOpen, Rounds,
      ContactorsEnabled, SilenceFits
<1>6. CASE PollSnoop
  <2>1. /\ phase = "snoop" /\ phase' = "serial" /\ ~BeforeRound /\ ~BeforeRound'
        /\ UNCHANGED << faults, mode, reply, reply_age, reply_wire, contactors, cut, faulted,
                        fault_elapsed, status_age, status_wire, hang_age, bms_restarted >>
    BY <1>6, SnoopStep DEF BeforeRound, ours
  <2> QED
    BY <2>1 DEF SilenceInv, LossesAreAnswered, HangsAreSilent, RestartIsOpen, Rounds, InTouch,
      ContactorsEnabled, SilenceFits
<1> QED
  BY <1>1, <1>2, <1>3, <1>4, <1>5, <1>6 DEF SupervisionNext, Run, Fault

LEMMA SilenceHolds == SupervisionSpec => []SilenceInv
<1>1. /\ SupervisionTypeOK /\ SupervisionTypeOK' /\ LifeInv /\ SilenceInv
      /\ [SupervisionNext]_supervisionVars
      => SilenceInv'
  <2>1. ASSUME SupervisionTypeOK, SupervisionTypeOK', LifeInv, SilenceInv, SupervisionNext
        PROVE  SilenceInv'
    <3>1. LifeTypes /\ LifeTypes'
      BY <2>1, LifeIsTyped, PTL
    <3> QED
      BY <2>1, <3>1, RoundKeepsSilence, SerialKeepsSilence, DecisionKeepsSilence,
         TimeKeepsSilence, OthersKeepSilence
  <2>2. ASSUME SilenceInv, UNCHANGED supervisionVars
        PROVE  SilenceInv'
    BY <2>2 DEF supervisionVars, supervisorVars, world, frames, bms, running, readings, control,
      SilenceInv, LossesAreAnswered, HangsAreSilent, RestartIsOpen, Rounds, BeforeRound, InTouch,
      ContactorsEnabled, SilenceFits
  <2> QED
    BY <2>1, <2>2
<1>2. SupervisionInit => SilenceInv
  BY SilenceStarts
<1> QED
  BY <1>1, <1>2, LifeHolds, PTL DEF SupervisionSpec

-------------------------------------------------------------------------------
(* Scans: they do not stop for long while the contactors are closed.        *)

LEMMA RaisedEvent ==
  ASSUME NEW event \in Event, event.level # "FATAL"
  PROVE  \/ EventTick(event, Confirm(event, FALSE)).level = "FATAL"
         \/ EventTick(event, Confirm(event, FALSE)) =
              [level |-> "CRITICAL",
               accumulator |-> event.accumulator + (IF event.level = "CRITICAL" THEN 1 ELSE 0)]
<1> USE SupervisionAssumption DEF SupervisionAssumption
<1> DEFINE raised == [event EXCEPT !.level = "CRITICAL"]
           n == event.accumulator + (IF event.level = "CRITICAL" THEN 1 ELSE 0)
<1>1. Confirm(event, FALSE) = raised
  BY DEF Confirm
<1>2. raised.level = "CRITICAL" /\ raised.accumulator = event.accumulator
  BY DEF Event
<1>3. n \in Nat
  BY DEF Event
<1> HIDE DEF raised
<1>4. CASE n >= Escalation
  <2>1. EventTick(event, raised) = [level |-> "FATAL", accumulator |-> AtMost(n, Escalation)]
    BY <1>2, <1>4 DEF EventTick
  <2>2. EventTick(event, raised).level = "FATAL"
    BY <2>1
  <2> QED
    BY <1>1, <2>2
<1>5. CASE ~(n >= Escalation)
  <2>1. EventTick(event, raised) = [level |-> "CRITICAL", accumulator |-> AtMost(n, Escalation)]
    BY <1>2, <1>5 DEF EventTick
  <2>2. AtMost(n, Escalation) = n
    BY <1>3, <1>5 DEF AtMost
  <2> QED
    BY <1>1, <2>1, <2>2
<1> QED
  BY <1>4, <1>5

LEMMA ClearedEvent ==
  ASSUME NEW event \in Event, event.level # "FATAL"
  PROVE  EventTick(event, Confirm(event, TRUE)).level = "NONE"
BY DEF Event, Confirm, EventTick

LEMMA FatalEvent ==
  ASSUME NEW event \in Event, event.level = "FATAL", NEW success
  PROVE  EventTick(event, Confirm(event, success)) = event /\ EventTick(event, event) = event
BY DEF Confirm, EventTick

LEMMA QuietEvent ==
  ASSUME NEW event \in Event, event.level = "NONE"
  PROVE  EventTick(event, event).level = "NONE"
BY DEF Event, EventTick

\* What a round makes of the two events, given a reading.
LEMMA EventsOfRound ==
  ASSUME LifeTypes, BmsLoop, reading # NoReading
  PROVE  /\ low.level = "FATAL" => low'.level = "FATAL"
         /\ stale.level = "FATAL" => stale'.level = "FATAL"
         /\ low.level # "FATAL" /\ reading_age <= StaleThreshold /\ reading # "low" =>
              low'.level = "NONE"
         /\ low.level # "FATAL" /\ reading_age <= StaleThreshold /\ reading = "low" =>
              /\ low'.level \in {"CRITICAL", "FATAL"}
              /\ low'.level = "CRITICAL" =>
                   low'.accumulator = low.accumulator + (IF low.level = "CRITICAL" THEN 1 ELSE 0)
         /\ stale.level # "FATAL" /\ ~(reading_age <= StaleThreshold) =>
              /\ stale'.level \in {"CRITICAL", "FATAL"}
              /\ stale'.level = "CRITICAL" =>
                   stale'.accumulator = stale.accumulator + (IF stale.level = "CRITICAL" THEN 1 ELSE 0)
<1>1. low \in Event /\ stale \in Event
  BY DEF LifeTypes
<1>2. Fresh <=> reading_age <= StaleThreshold
  BY DEF Fresh
<1>3. /\ Fresh => low' = EventTick(low, Confirm(low, reading # "low"))
      /\ ~Fresh => low' = EventTick(low, low)
  BY DEF BmsLoop
<1>4. stale' = EventTick(stale, Confirm(stale, Fresh))
  BY DEF BmsLoop
<1>5. low.level = "FATAL" => low'.level = "FATAL"
  BY <1>1, <1>3, FatalEvent
<1>6. stale.level = "FATAL" => stale'.level = "FATAL"
  BY <1>1, <1>4, FatalEvent
<1>7. low.level # "FATAL" /\ Fresh /\ reading # "low" => low'.level = "NONE"
  <2>1. (reading # "low") = TRUE \/ reading = "low"
    OBVIOUS
  <2> QED
    BY <1>1, <1>3, <2>1, ClearedEvent
<1>8. low.level # "FATAL" /\ Fresh /\ reading = "low" =>
        /\ low'.level \in {"CRITICAL", "FATAL"}
        /\ low'.level = "CRITICAL" =>
             low'.accumulator = low.accumulator + (IF low.level = "CRITICAL" THEN 1 ELSE 0)
  <2>1. reading = "low" => (reading # "low") = FALSE
    OBVIOUS
  <2>2. Fresh /\ reading = "low" => low' = EventTick(low, Confirm(low, FALSE))
    BY <1>3, <2>1
  <2>3. SUFFICES ASSUME low.level # "FATAL", Fresh, reading = "low"
        PROVE  /\ low'.level \in {"CRITICAL", "FATAL"}
               /\ low'.level = "CRITICAL" =>
                    low'.accumulator = low.accumulator + (IF low.level = "CRITICAL" THEN 1 ELSE 0)
    OBVIOUS
  <2>4. \/ low'.level = "FATAL"
        \/ low' = [level |-> "CRITICAL",
                   accumulator |-> low.accumulator + (IF low.level = "CRITICAL" THEN 1 ELSE 0)]
    BY <1>1, <2>2, <2>3, RaisedEvent
  <2> QED
    BY <2>4
<1>9. stale.level # "FATAL" /\ ~Fresh =>
        /\ stale'.level \in {"CRITICAL", "FATAL"}
        /\ stale'.level = "CRITICAL" =>
             stale'.accumulator = stale.accumulator + (IF stale.level = "CRITICAL" THEN 1 ELSE 0)
  <2>1. ~Fresh => stale' = EventTick(stale, Confirm(stale, FALSE))
    <3>1. ~Fresh => Fresh = FALSE
      BY DEF Fresh
    <3> QED
      BY <1>4, <3>1
  <2>2. SUFFICES ASSUME stale.level # "FATAL", ~Fresh
        PROVE  /\ stale'.level \in {"CRITICAL", "FATAL"}
               /\ stale'.level = "CRITICAL" =>
                    stale'.accumulator = stale.accumulator + (IF stale.level = "CRITICAL" THEN 1 ELSE 0)
    OBVIOUS
  <2>3. \/ stale'.level = "FATAL"
        \/ stale' = [level |-> "CRITICAL",
                     accumulator |-> stale.accumulator + (IF stale.level = "CRITICAL" THEN 1 ELSE 0)]
    BY <1>1, <2>1, <2>2, RaisedEvent
  <2> QED
    BY <2>3
<1> QED
  BY <1>2, <1>5, <1>6, <1>7, <1>8, <1>9

\* Where no cell fails, every scan and every reading is good.
AllIsGood ==
  {"low", "missing"} \intersect faults = {} =>
    /\ cells = "good" /\ snooped \in {"good", NoScan} /\ scan \in {"good", NoScan}
    /\ ~violating
    /\ reading \in {"good", NoReading} /\ low.level = "NONE"

\* Without CRC errors and hangs every unit has a scan until reads stop altogether,
\* which is in FAULT.
ReadsAreScans ==
  faults \subseteq {"low", "link", "reset"} =>
    /\ cells \in {"good", "low"} /\ snooped \in {"good", "low", NoScan}
    /\ scan \in {"good", "low", NoScan} /\ (violating <=> scan = "low")
    /\ mode # "hung"
    /\ mode = "up" /\ ~Stopped /\ phase \in {"bms", "snoop"} =>
         snooped # NoScan /\ reading = snooped /\ reading_age = 0
    /\ mode = "up" /\ ~Stopped /\ phase \in {"serial", "decide", "time"} => scan_age = 0
    /\ contactors = "CLOSED" /\ Stopped => snooped # NoScan \/ scan_age <= fault_elapsed

\* With hangs alone a scan is missing for as long as the hang lasts.
HangsStopScans ==
  faults \subseteq {"hang", "reset"} =>
    /\ mode = "up" /\ phase \in {"bms", "snoop"} => snooped # NoScan
    /\ mode = "up" /\ phase \in {"serial", "decide", "time"} => scan_age = 0
    /\ contactors = "CLOSED" /\ (mode = "hung" \/ phase = "cells") => scan_age <= hang_age + 1

\* With CRC errors the scan is as old as the reading, and once that is stale as old
\* as the event about it has lasted.
CrcsAgeBoth ==
  faults \subseteq {"crc", "link", "reset"} =>
    /\ mode # "hung"
    /\ reading # NoReading /\ reading_age <= StaleThreshold =>
         snooped # NoScan \/ scan_age <= reading_age
    /\ reading # NoReading /\ ~(reading_age <= StaleThreshold) /\ stale.level # "FATAL" =>
         /\ snooped = NoScan
         /\ \/ stale.level = "CRITICAL" /\ scan_age <= StaleThreshold + Rounds(1) + stale.accumulator
            \/ BeforeRound /\ scan_age <= StaleThreshold + 1
    /\ contactors = "CLOSED" /\ stale.level = "FATAL" =>
         snooped # NoScan \/ scan_age <= StaleThreshold + 1 + Escalation + fault_elapsed

ScansInv == AllIsGood /\ ReadsAreScans /\ HangsStopScans /\ CrcsAgeBoth

LEMMA ScansStart ==
  ASSUME SupervisionInit
  PROVE  ScansInv
<1>1. /\ phase = "cells" /\ mode = "down" /\ contactors = "OPEN" /\ cells = "good"
      /\ snooped = NoScan /\ scan = NoScan /\ violating = FALSE
      /\ reading = NoReading /\ low = NoEvent
  BY DEF SupervisionInit, SupervisorInit
<1>2. low.level = "NONE"
  BY <1>1 DEF NoEvent
<1>3. AllIsGood
  BY <1>1, <1>2 DEF AllIsGood
<1>4. ReadsAreScans
  BY <1>1 DEF ReadsAreScans, NoScan
<1>5. HangsStopScans
  BY <1>1 DEF HangsStopScans
<1>6. CrcsAgeBoth
  BY <1>1 DEF CrcsAgeBoth
<1> QED
  BY <1>3, <1>4, <1>5, <1>6 DEF ScansInv

\* While contactors are closed scans have not stopped for long.
LEMMA ClosedIsScanned ==
  ASSUME LifeTypes, LifeInv, ScansInv, ScansFit(faults), contactors = "CLOSED",
         phase = "decide"
  PROVE  scan_age <= ScanStaleDrop
<1> USE DelayAssumption, SupervisionAssumption DEF DelayAssumption, SupervisionAssumption
<1>1. /\ ~BeforeRound /\ mode \in {"up", "hung"} /\ snooped = NoScan /\ reading # NoReading
  BY DEF BeforeRound, LifeInv, LifeBegins, LifeTypes, SentThisUnit, OpensInFault
<1>2. mode = "up" /\ faulted => fault_elapsed < ForceOpen
  BY <1>1 DEF LifeInv, OpensInFault
<1>3. CASE faults \subseteq {"low", "link", "reset"} /\ ForceOpen <= ScanStaleDrop
  <2>1. CASE Stopped
    <3>1. faulted /\ mode = "up" /\ scan_age <= fault_elapsed
      BY <1>1, <1>3, <2>1 DEF ScansInv, ReadsAreScans, LifeInv, EventsAct, Stopped
    <3> QED
      BY <1>2, <1>3, <3>1 DEF LifeTypes
  <2>2. CASE ~Stopped
    BY <1>1, <1>3, <2>2 DEF ScansInv, ReadsAreScans
  <2> QED
    BY <2>1, <2>2
<1>4. CASE /\ faults \subseteq {"crc", "link", "reset"}
           /\ StaleThreshold + Escalation + ForceOpen <= ScanStaleDrop
  <2>1. mode = "up"
    BY <1>1, <1>4 DEF ScansInv, CrcsAgeBoth
  <2>2. CASE stale.level = "FATAL"
    <3>1. faulted /\ scan_age <= StaleThreshold + 1 + Escalation + fault_elapsed
      BY <1>1, <1>4, <2>2 DEF ScansInv, CrcsAgeBoth, LifeInv, EventsAct
    <3> QED
      BY <1>2, <1>4, <2>1, <3>1 DEF LifeTypes
  <2>3. CASE stale.level # "FATAL" /\ reading_age <= StaleThreshold
    BY <1>1, <1>4, <2>3 DEF ScansInv, CrcsAgeBoth, LifeTypes
  <2>4. CASE stale.level # "FATAL" /\ ~(reading_age <= StaleThreshold)
    <3>1. stale.level = "CRITICAL" /\ scan_age <= StaleThreshold + 1 + stale.accumulator
      BY <1>1, <1>4, <2>4 DEF ScansInv, CrcsAgeBoth, Rounds
    <3>2. stale.accumulator < Escalation /\ stale.accumulator \in Nat
      BY <3>1 DEF LifeInv, EventsAct, LifeTypes, Event
    <3> QED
      BY <1>4, <3>1, <3>2 DEF LifeTypes
  <2> QED
    BY <2>2, <2>3, <2>4
<1>5. CASE faults \subseteq {"hang", "reset"} /\ Watchdog <= ScanStaleDrop
  <2>1. CASE mode = "up"
    BY <1>1, <1>5, <2>1 DEF ScansInv, HangsStopScans
  <2>2. CASE mode = "hung"
    <3>1. hang_age < Watchdog /\ scan_age <= hang_age + 1
      BY <1>5, <2>2 DEF ScansInv, HangsStopScans, LifeInv, HangEnds
    <3> QED
      BY <1>5, <3>1 DEF LifeTypes
  <2> QED
    BY <1>1, <2>1, <2>2
<1> QED
  BY <1>3, <1>4, <1>5 DEF ScansFit

LEMMA FaultsStay ==
  ASSUME SupervisionNext
  PROVE  faults' = faults
BY DEF SupervisionNext, Run, Fault, ReadCells, ReadNothing, BmsLoop, BmsIdle, Boot, PollSnoop,
       PollSerial, Decide, Time, ReadCellsPartly, Hang, Resume, BmsReset, LoseStatus, LoseReply,
       CellsFail, CellsRecover, Settle, world

LEMMA GoodStaysGood ==
  ASSUME LifeTypes, AllIsGood, SupervisionTypeOK, SupervisionNext
  PROVE  AllIsGood'
<1>1. faults' = faults
  BY FaultsStay
<1>2. SUFFICES ASSUME {"low", "missing"} \intersect faults = {}
      PROVE  /\ cells' = "good" /\ snooped' \in {"good", NoScan} /\ scan' \in {"good", NoScan}
             /\ ~violating'
             /\ reading' \in {"good", NoReading} /\ low'.level = "NONE"
  BY <1>1 DEF AllIsGood
<1>3. /\ cells = "good" /\ snooped \in {"good", NoScan} /\ scan \in {"good", NoScan}
      /\ ~violating
      /\ reading \in {"good", NoReading} /\ low.level = "NONE"
  BY <1>2 DEF AllIsGood
<1>4. CASE BmsLoop
  <2>1. low' \in {EventTick(low, Confirm(low, TRUE)), EventTick(low, low)}
    <3>1. (reading # "low") = TRUE
      BY <1>3 DEF NoReading
    <3> QED
      BY <1>4, <3>1 DEF BmsLoop
  <2>2. low'.level = "NONE"
    BY <1>3, <2>1, ClearedEvent, QuietEvent DEF LifeTypes
  <2> QED
    BY <1>3, <1>4, <2>2, RoundStep DEF theirs
<1>5. CASE ReadCells \/ ReadCellsPartly
  BY <1>3, <1>5, ReadStep, PartlyStep DEF Seen, theirs, between
<1>6. CASE ReadNothing \/ BmsIdle \/ Hang \/ Resume \/ Boot
  BY <1>3, <1>6, IdleStep, ModeStep DEF theirs, ours, between
<1>7. CASE BmsReset
  BY <1>3, <1>7, ResetStep DEF theirs
<1>8. CASE LoseStatus \/ LoseReply
  BY <1>3, <1>8, LossStep DEF theirs, ours
<1>9. CASE CellsFail \/ CellsRecover \/ Settle
  BY <1>2, <1>3, <1>9, WorldStep DEF theirs, ours, between
<1>10. CASE PollSnoop
  BY <1>3, <1>10, SnoopStep DEF ours
<1>11. CASE PollSerial \/ Decide
  <2>1. UNCHANGED << ours, scan, violating, snooped, cells >>
    BY <1>11, SerialStep, DecideStep
  <2> QED
    BY <1>3, <2>1 DEF ours
<1>12. CASE Time
  BY <1>3, <1>12, TimeStep
<1> QED
  BY <1>4, <1>5, <1>6, <1>7, <1>8, <1>9, <1>10, <1>11, <1>12 DEF SupervisionNext, Run, Fault

\* Ages stay numbers.
LEMMA TimeTypes ==
  ASSUME LifeTypes, Time
  PROVE  status_age' \in Nat /\ scan_age' \in Nat /\ violation_age' \in Nat
BY DelayAssumption DEF DelayAssumption, LifeTypes, Time, SupervisorAges, AtMost

LEMMA ReadsStayScans ==
  ASSUME LifeTypes, LifeInv, ReadsAreScans, SupervisionTypeOK, SupervisionNext
  PROVE  ReadsAreScans'
<1> USE DelayAssumption, SupervisionAssumption DEF DelayAssumption, SupervisionAssumption
<1>1. SUFFICES ASSUME faults \subseteq {"low", "link", "reset"}
      PROVE  /\ cells' \in {"good", "low"} /\ snooped' \in {"good", "low", NoScan}
             /\ scan' \in {"good", "low", NoScan} /\ (violating' <=> scan' = "low")
             /\ mode' # "hung"
             /\ mode' = "up" /\ ~Stopped' /\ phase' \in {"bms", "snoop"} =>
                  snooped' # NoScan /\ reading' = snooped' /\ reading_age' = 0
             /\ mode' = "up" /\ ~Stopped' /\ phase' \in {"serial", "decide", "time"} =>
                  scan_age' = 0
             /\ contactors' = "CLOSED" /\ Stopped' =>
                  snooped' # NoScan \/ scan_age' <= fault_elapsed'
  BY FaultsStay DEF ReadsAreScans
<1>2. /\ cells \in {"good", "low"} /\ snooped \in {"good", "low", NoScan}
      /\ scan \in {"good", "low", NoScan} /\ (violating <=> scan = "low")
      /\ mode # "hung"
      /\ mode = "up" /\ ~Stopped /\ phase \in {"bms", "snoop"} =>
           snooped # NoScan /\ reading = snooped /\ reading_age = 0
      /\ mode = "up" /\ ~Stopped /\ phase \in {"serial", "decide", "time"} => scan_age = 0
      /\ contactors = "CLOSED" /\ Stopped => snooped # NoScan \/ scan_age <= fault_elapsed
  BY <1>1 DEF ReadsAreScans
<1>3. Stopped <=> low.level = "FATAL"
  BY DEF Stopped
<1>4. Stopped' <=> low'.level = "FATAL"
  BY DEF Stopped
<1>5. CASE BmsLoop
  <2>1. Stopped => Stopped'
    <3>1. low' \in {EventTick(low, Confirm(low, reading # "low")), EventTick(low, low)}
      BY <1>5 DEF BmsLoop
    <3> QED
      BY <1>3, <1>4, <3>1, FatalEvent DEF LifeTypes
  <2>2. contactors' = "CLOSED" /\ Stopped' => contactors = "CLOSED"
    <3>1. Stopped' => faulted'
      BY <1>4, <1>5, RoundStep
    <3> QED
      BY <1>5, <3>1, RoundStep DEF LifeTypes
  <2>3. /\ phase = "bms" /\ phase' = "snoop" /\ mode = "up" /\ mode' = "up"
        /\ UNCHANGED << cells, snooped, scan, scan_age, violating, reading, reading_age, fault_elapsed >>
    BY <1>5, RoundStep DEF theirs
  <2> QED
    BY <1>2, <2>1, <2>2, <2>3
<1>6. CASE ReadCells
  <2>1. /\ phase' = "bms" /\ mode' = "up" /\ ~Stopped /\ snooped' = cells /\ reading_age' = 0
        /\ reading' = cells
        /\ UNCHANGED << low, cells, scan, violating >>
    BY <1>2, <1>3, <1>6, ReadStep DEF Seen, theirs
  <2> QED
    BY <1>2, <1>3, <1>4, <2>1 DEF NoScan
<1>7. CASE ReadCellsPartly
  BY <1>1, <1>7, PartlyStep
<1>8. CASE ReadNothing \/ BmsIdle
  <2>1. UNCHANGED << cells, snooped, scan, scan_age, violating, mode, contactors, low, fault_elapsed >>
    BY <1>8, IdleStep DEF theirs, ours, between
  <2>2. mode = "up" => Stopped
    BY <1>3, <1>8, IdleStep
  <2> QED
    BY <1>2, <1>3, <1>4, <2>1, <2>2
<1>9. CASE Hang \/ Resume \/ Boot
  <2>1. /\ mode' = "up" /\ phase' = "cells"
        /\ UNCHANGED << cells, snooped, scan, scan_age, violating, contactors, low, fault_elapsed >>
    BY <1>1, <1>2, <1>9, ModeStep DEF theirs, ours, between
  <2> QED
    BY <1>2, <1>3, <1>4, <2>1
<1>10. CASE BmsReset
  <2>1. mode' = "down" /\ contactors' = "OPEN" /\ UNCHANGED << cells, snooped, scan, violating >>
    BY <1>10, ResetStep DEF theirs
  <2> QED
    BY <1>2, <2>1
<1>11. CASE LoseStatus \/ LoseReply
  <2>1. UNCHANGED << phase, cells, snooped, scan, scan_age, violating, mode, contactors, low,
                     reading, reading_age, fault_elapsed >>
    BY <1>11, LossStep DEF theirs, ours
  <2> QED
    BY <1>2, <1>3, <1>4, <2>1
<1>12. CASE CellsFail \/ CellsRecover \/ Settle
  <2>1. /\ phase' = "cells" /\ cells' \in {"good", "low"}
        /\ UNCHANGED << snooped, scan, scan_age, violating, mode, contactors, low, fault_elapsed >>
    BY <1>1, <1>2, <1>12, WorldStep DEF theirs, ours, between
  <2> QED
    BY <1>2, <1>3, <1>4, <2>1
<1>13. CASE PollSnoop
  <2>1. /\ phase = "snoop" /\ phase' = "serial" /\ snooped' = NoScan
        /\ UNCHANGED << cells, mode, contactors, low, fault_elapsed >>
    BY <1>13, SnoopStep DEF ours
  <2>2. CASE snooped = NoScan
    <3>1. UNCHANGED << scan, scan_age, violating >>
      BY <1>13, <2>2, SnoopStep
    <3> QED
      BY <1>2, <1>3, <1>4, <2>1, <2>2, <3>1
  <2>3. CASE snooped # NoScan
    <3>1. scan' = snooped /\ scan_age' = 0 /\ violating' = (snooped # "good")
      BY <1>13, <2>3, SnoopStep
    <3>2. 0 <= fault_elapsed'
      BY <2>1 DEF LifeTypes
    <3> QED
      BY <1>2, <2>1, <2>3, <3>1, <3>2
  <2> QED
    BY <2>2, <2>3
<1>14. CASE PollSerial \/ Decide
  <2>1. /\ phase \in {"serial", "decide"} /\ phase' \in {"decide", "time"}
        /\ UNCHANGED << cells, snooped, scan, scan_age, violating, mode, contactors, low, fault_elapsed >>
    BY <1>14, SerialStep, DecideStep DEF ours
  <2> QED
    BY <1>2, <1>3, <1>4, <2>1
<1>15. CASE Time
  <2>1. /\ phase = "time" /\ phase' = "cells" /\ scan_age' <= scan_age + 1
        /\ UNCHANGED << cells, snooped, scan, violating, mode, contactors, low, faulted >>
    BY <1>15, TimeStep
  <2>2. snooped = NoScan /\ scan_age \in Nat /\ fault_elapsed \in Nat
    BY <2>1 DEF LifeInv, SentThisUnit, LifeTypes
  <2>3. contactors = "CLOSED" /\ Stopped => scan_age <= fault_elapsed /\ fault_elapsed' = fault_elapsed + 1
    <3>1. contactors = "CLOSED" => mode = "up"
      BY <1>2 DEF LifeInv, LifeBegins, LifeTypes
    <3>2. Stopped => faulted
      BY <1>3 DEF LifeInv, EventsAct
    <3>3. contactors = "CLOSED" /\ Stopped => fault_elapsed < ForceOpen
      BY <2>1, <3>1, <3>2 DEF LifeInv, OpensInFault, BeforeRound
    <3> QED
      BY <1>2, <1>15, <2>2, <3>2, <3>3, TimeStep
  <2>4. scan_age' \in Nat
    BY <1>15, TimeTypes
  <2>5. contactors' = "CLOSED" /\ Stopped' => scan_age' <= fault_elapsed'
    BY <1>3, <1>4, <2>1, <2>2, <2>3, <2>4
  <2> QED
    BY <1>2, <2>1, <2>5
<1> QED
  BY <1>5, <1>6, <1>7, <1>8, <1>9, <1>10, <1>11, <1>12, <1>13, <1>14, <1>15
  DEF SupervisionNext, Run, Fault

LEMMA HangsStayTheCause ==
  ASSUME LifeTypes, LifeInv, AllIsGood, HangsStopScans, SupervisionTypeOK, SupervisionNext
  PROVE  HangsStopScans'
<1> USE DelayAssumption, SupervisionAssumption DEF DelayAssumption, SupervisionAssumption
<1>1. SUFFICES ASSUME faults \subseteq {"hang", "reset"}
      PROVE  /\ mode' = "up" /\ phase' \in {"bms", "snoop"} => snooped' # NoScan
             /\ mode' = "up" /\ phase' \in {"serial", "decide", "time"} => scan_age' = 0
             /\ contactors' = "CLOSED" /\ (mode' = "hung" \/ phase' = "cells") =>
                  scan_age' <= hang_age' + 1
  BY FaultsStay DEF HangsStopScans
<1>2. /\ mode = "up" /\ phase \in {"bms", "snoop"} => snooped # NoScan
      /\ mode = "up" /\ phase \in {"serial", "decide", "time"} => scan_age = 0
      /\ contactors = "CLOSED" /\ (mode = "hung" \/ phase = "cells") => scan_age <= hang_age + 1
  BY <1>1 DEF HangsStopScans
<1>3. low.level # "FATAL" /\ cells = "good"
  BY <1>1 DEF AllIsGood
<1>4. contactors = "CLOSED" => mode # "down"
  BY DEF LifeInv, LifeBegins
<1>5. CASE BmsLoop
  BY <1>2, <1>5, RoundStep
<1>6. CASE ReadCells
  BY <1>3, <1>6, ReadStep DEF NoScan
<1>7. CASE ReadCellsPartly
  BY <1>1, <1>7, PartlyStep
<1>8. CASE ReadNothing \/ BmsIdle
  <2>1. /\ mode # "up" /\ phase' \in {"bms", "snoop"}
        /\ UNCHANGED << mode, contactors, scan_age, hang_age >>
    BY <1>3, <1>8, IdleStep DEF theirs, ours
  <2> QED
    BY <1>2, <2>1
<1>9. CASE Hang \/ Resume \/ Boot
  <2>1. phase = "cells" /\ phase' = "cells" /\ UNCHANGED << contactors, scan_age, hang_age >>
    BY <1>9, ModeStep DEF theirs, ours
  <2> QED
    BY <1>2, <2>1
<1>10. CASE BmsReset
  BY <1>10, ResetStep
<1>11. CASE LoseStatus \/ LoseReply
  BY <1>1, <1>11, LossStep
<1>12. CASE CellsFail \/ CellsRecover \/ Settle
  <2>1. phase = "cells" /\ phase' = "cells" /\ UNCHANGED << mode, contactors, scan_age, hang_age >>
    BY <1>12, WorldStep DEF theirs, ours
  <2> QED
    BY <1>2, <2>1
<1>13. CASE PollSnoop
  <2>1. phase = "snoop" /\ phase' = "serial" /\ UNCHANGED << mode, contactors, hang_age >>
    BY <1>13, SnoopStep DEF ours
  <2>2. scan_age' = scan_age \/ scan_age' = 0
    BY <1>13, SnoopStep
  <2>3. mode = "up" => scan_age' = 0
    BY <1>2, <1>13, <2>1, SnoopStep
  <2>4. 0 <= hang_age + 1
    BY DEF LifeTypes
  <2> QED
    BY <1>2, <2>1, <2>2, <2>3, <2>4
<1>14. CASE PollSerial \/ Decide
  <2>1. /\ phase \in {"serial", "decide"} /\ phase' \in {"decide", "time"}
        /\ UNCHANGED << scan_age, mode, contactors, hang_age >>
    BY <1>14, SerialStep, DecideStep DEF ours
  <2> QED
    BY <1>2, <2>1
<1>15. CASE Time
  <2>1. /\ phase = "time" /\ phase' = "cells" /\ scan_age' <= scan_age + 1
        /\ hang_age' = IF mode = "hung" THEN hang_age + 1 ELSE 0
        /\ UNCHANGED << mode, contactors >>
    BY <1>15, TimeStep
  <2>2. scan_age \in Nat /\ scan_age' \in Nat /\ hang_age \in Nat
    BY <1>15, TimeTypes DEF LifeTypes
  <2>3. CASE mode = "hung"
    BY <1>2, <2>1, <2>2, <2>3
  <2>4. CASE mode = "up"
    BY <1>2, <2>1, <2>2, <2>4
  <2> QED
    BY <1>4, <2>1, <2>3, <2>4 DEF LifeTypes
<1> QED
  BY <1>5, <1>6, <1>7, <1>8, <1>9, <1>10, <1>11, <1>12, <1>13, <1>14, <1>15
  DEF SupervisionNext, Run, Fault

LEMMA CrcsStayTheCause ==
  ASSUME LifeTypes, LifeInv, AllIsGood, CrcsAgeBoth, SupervisionTypeOK, SupervisionNext
  PROVE  CrcsAgeBoth'
<1> USE DelayAssumption, SupervisionAssumption DEF DelayAssumption, SupervisionAssumption
<1> DEFINE Crcs == faults \subseteq {"crc", "link", "reset"}
           FreshAge == reading # NoReading /\ reading_age <= StaleThreshold =>
                         snooped # NoScan \/ scan_age <= reading_age
           StaleAge == reading # NoReading /\ ~(reading_age <= StaleThreshold)
                         /\ stale.level # "FATAL" =>
                         /\ snooped = NoScan
                         /\ \/ /\ stale.level = "CRITICAL"
                               /\ scan_age <= StaleThreshold + Rounds(1) + stale.accumulator
                            \/ BeforeRound /\ scan_age <= StaleThreshold + 1
           FatalAge == contactors = "CLOSED" /\ stale.level = "FATAL" =>
                         snooped # NoScan
                           \/ scan_age <= StaleThreshold + 1 + Escalation + fault_elapsed
<1>1. SUFFICES ASSUME Crcs
      PROVE  mode' # "hung" /\ FreshAge' /\ StaleAge' /\ FatalAge'
  BY FaultsStay DEF CrcsAgeBoth
<1>2. mode # "hung" /\ FreshAge /\ StaleAge /\ FatalAge
  BY <1>1 DEF CrcsAgeBoth
<1>3. low.level # "FATAL" /\ cells = "good"
  BY <1>1 DEF AllIsGood
<1>4. scan_age \in Nat /\ reading_age \in Nat /\ fault_elapsed \in Nat
      /\ stale.accumulator \in 0..Escalation
  BY DEF LifeTypes, Event
<1> HIDE DEF Crcs, FreshAge, StaleAge, FatalAge
\* The stale reading's event is raised, or has lasted a round longer.
<1>5. CASE BmsLoop
  <2>1. /\ phase = "bms" /\ phase' = "snoop" /\ mode' = "up" /\ BeforeRound /\ ~BeforeRound'
        /\ UNCHANGED << snooped, scan_age, reading, reading_age, fault_elapsed >>
    BY <1>5, RoundStep DEF BeforeRound, theirs
  <2>2. FreshAge'
    BY <1>2, <2>1 DEF FreshAge
  <2>3. StaleAge'
    <3>1. SUFFICES ASSUME reading # NoReading, ~(reading_age <= StaleThreshold),
                          stale'.level # "FATAL"
          PROVE  /\ snooped = NoScan /\ stale'.level = "CRITICAL"
                 /\ scan_age <= StaleThreshold + 1 + stale'.accumulator
      BY <2>1 DEF StaleAge, Rounds
    <3>2. stale.level # "FATAL" /\ stale'.level = "CRITICAL"
          /\ stale'.accumulator = stale.accumulator + (IF stale.level = "CRITICAL" THEN 1 ELSE 0)
      BY <1>5, <3>1, EventsOfRound
    <3>3. /\ snooped = NoScan
          /\ \/ stale.level = "CRITICAL" /\ scan_age <= StaleThreshold + 2 + stale.accumulator
             \/ scan_age <= StaleThreshold + 1
      BY <1>2, <2>1, <3>1, <3>2 DEF StaleAge, Rounds
    <3> QED
      BY <1>4, <3>2, <3>3
  <2>4. FatalAge'
    <3>1. SUFFICES ASSUME contactors' = "CLOSED", stale'.level = "FATAL", snooped = NoScan
          PROVE  scan_age <= StaleThreshold + 1 + Escalation + fault_elapsed
      BY <2>1 DEF FatalAge
    <3>2. faulted' /\ contactors = "CLOSED"
      BY <1>5, <3>1, RoundStep DEF LifeTypes
    <3>3. CASE stale.level = "FATAL"
      BY <1>2, <3>1, <3>2, <3>3 DEF FatalAge
    <3>4. CASE stale.level # "FATAL"
      <4>1. reading # NoReading
        BY <3>2 DEF LifeInv, OpensInFault
      <4>2. CASE reading_age <= StaleThreshold
        BY <1>2, <1>4, <3>1, <4>1, <4>2 DEF FreshAge
      <4>3. CASE ~(reading_age <= StaleThreshold)
        <5>1. \/ stale.level = "CRITICAL" /\ scan_age <= StaleThreshold + 2 + stale.accumulator
              \/ scan_age <= StaleThreshold + 1
          BY <1>2, <2>1, <3>4, <4>1, <4>3 DEF StaleAge, Rounds
        <5>2. stale.level = "CRITICAL" => stale.accumulator < Escalation
          BY DEF LifeInv, EventsAct
        <5> QED
          BY <1>4, <5>1, <5>2
      <4> QED
        BY <4>2, <4>3
    <3> QED
      BY <3>3, <3>4
  <2> QED
    BY <2>1, <2>2, <2>3, <2>4
<1>6. CASE ReadCells
  <2>1. mode' = "up" /\ reading_age' = 0 /\ snooped' = "good"
    BY <1>3, <1>6, ReadStep
  <2> QED
    BY <2>1 DEF FreshAge, StaleAge, FatalAge, NoScan
\* What a CRC error leaves is no newer.
<1>7. CASE ReadCellsPartly
  <2>1. /\ mode' = "up" /\ BeforeRound /\ BeforeRound'
        /\ reading' # NoReading => reading # NoReading
        /\ UNCHANGED << reading_age, snooped, scan_age, stale, contactors, fault_elapsed >>
    BY <1>7, PartlyStep DEF BeforeRound, theirs, between
  <2> QED
    BY <1>2, <2>1 DEF FreshAge, StaleAge, FatalAge, Rounds
<1>8. CASE ReadNothing \/ BmsIdle
  <2>1. mode = "down"
    BY <1>2, <1>3, <1>8, IdleStep DEF LifeTypes
  <2>2. mode' = "down" /\ UNCHANGED << reading, contactors >>
    BY <1>8, <2>1, IdleStep DEF ours
  <2> QED
    BY <2>1, <2>2 DEF LifeInv, LifeBegins, FreshAge, StaleAge, FatalAge
<1>9. CASE Hang \/ Resume \/ Boot
  <2>1. /\ mode' = "up" /\ BeforeRound /\ BeforeRound'
        /\ UNCHANGED << reading, reading_age, snooped, scan_age, stale, contactors, fault_elapsed >>
    BY <1>1, <1>2, <1>9, ModeStep DEF Crcs, BeforeRound, theirs, ours, between
  <2> QED
    BY <1>2, <2>1 DEF FreshAge, StaleAge, FatalAge, Rounds
<1>10. CASE BmsReset
  <2>1. mode' = "down" /\ reading' = NoReading /\ contactors' = "OPEN"
    BY <1>10, ResetStep
  <2> QED
    BY <2>1 DEF FreshAge, StaleAge, FatalAge
<1>11. CASE \/ LoseStatus \/ LoseReply \/ PollSerial \/ Decide
            \/ CellsFail \/ CellsRecover \/ Settle
  <2>1. /\ (BeforeRound <=> BeforeRound')
        /\ UNCHANGED << mode, reading, reading_age, snooped, scan_age, stale, contactors,
                        fault_elapsed >>
    BY <1>11, LossStep, SerialStep, DecideStep, WorldStep DEF BeforeRound, theirs, ours, between
  <2> QED
    BY <1>2, <2>1 DEF FreshAge, StaleAge, FatalAge, Rounds
<1>12. CASE PollSnoop
  <2>1. /\ ~BeforeRound /\ ~BeforeRound' /\ snooped' = NoScan
        /\ snooped # NoScan => scan_age' = 0
        /\ snooped = NoScan => scan_age' = scan_age
        /\ UNCHANGED << mode, reading, reading_age, stale, contactors, fault_elapsed >>
    BY <1>12, SnoopStep DEF BeforeRound, ours
  <2>2. FreshAge'
    BY <1>2, <1>4, <2>1 DEF FreshAge
  <2>3. StaleAge'
    BY <1>2, <2>1 DEF StaleAge, Rounds
  <2>4. FatalAge'
    BY <1>2, <1>4, <2>1 DEF FatalAge
  <2> QED
    BY <1>2, <2>1, <2>2, <2>3, <2>4
<1>13. CASE Time
  <2>1. /\ phase = "time" /\ ~BeforeRound /\ BeforeRound'
        /\ scan_age' <= scan_age + 1 /\ scan_age' \in Nat
        /\ UNCHANGED << mode, reading, snooped, stale, contactors >>
    BY <1>13, TimeStep, TimeTypes DEF BeforeRound
  <2>2. snooped = NoScan
    BY <2>1 DEF LifeInv, SentThisUnit
  <2>3. reading # NoReading => \/ reading_age' = reading_age + 1
                               \/ reading_age = StaleThreshold + 1 /\ reading_age' = reading_age
    BY <1>13, TimeStep
  <2>4. FreshAge'
    BY <1>2, <1>4, <2>1, <2>2, <2>3 DEF FreshAge
  <2>5. StaleAge'
    <3>1. SUFFICES ASSUME reading # NoReading, ~(reading_age' <= StaleThreshold),
                          stale.level # "FATAL"
          PROVE  \/ stale.level = "CRITICAL" /\ scan_age' <= StaleThreshold + 2 + stale.accumulator
                 \/ scan_age' <= StaleThreshold + 1
      BY <2>1, <2>2 DEF StaleAge, Rounds
    <3>2. CASE reading_age <= StaleThreshold
      BY <1>2, <1>4, <2>1, <2>2, <2>3, <3>1, <3>2 DEF FreshAge
    <3>3. CASE ~(reading_age <= StaleThreshold)
      <4>1. stale.level = "CRITICAL" /\ scan_age <= StaleThreshold + 1 + stale.accumulator
        BY <1>2, <2>1, <3>1, <3>3 DEF StaleAge, Rounds
      <4> QED
        BY <1>4, <2>1, <4>1
    <3> QED
      BY <3>2, <3>3
  <2>6. FatalAge'
    <3>1. SUFFICES ASSUME contactors = "CLOSED", stale.level = "FATAL"
          PROVE  scan_age' <= StaleThreshold + 1 + Escalation + fault_elapsed'
      BY <2>1 DEF FatalAge
    <3>2. mode = "up" /\ faulted
      BY <1>2, <3>1 DEF LifeInv, LifeBegins, LifeTypes, EventsAct
    <3>3. fault_elapsed < ForceOpen
      BY <2>1, <3>1, <3>2 DEF LifeInv, OpensInFault
    <3>4. fault_elapsed' = fault_elapsed + 1
      BY <1>13, <3>2, <3>3, TimeStep DEF LifeTypes
    <3>5. scan_age <= StaleThreshold + 1 + Escalation + fault_elapsed
      BY <1>2, <2>2, <3>1 DEF FatalAge
    <3> QED
      BY <1>4, <2>1, <3>4, <3>5
  <2> QED
    BY <1>2, <2>1, <2>4, <2>5, <2>6
<1> QED
  BY <1>5, <1>6, <1>7, <1>8, <1>9, <1>10, <1>11, <1>12, <1>13 DEF SupervisionNext, Run, Fault

LEMMA ScansHold == SupervisionSpec => []ScansInv
<1>1. SupervisionTypeOK /\ LifeInv /\ ScansInv /\ [SupervisionNext]_supervisionVars => ScansInv'
  <2>1. ASSUME SupervisionTypeOK, LifeInv, ScansInv, SupervisionNext
        PROVE  ScansInv'
    BY <2>1, LifeIsTyped, GoodStaysGood, ReadsStayScans, HangsStayTheCause, CrcsStayTheCause
    DEF ScansInv
  <2>2. ASSUME ScansInv, UNCHANGED supervisionVars
        PROVE  ScansInv'
    BY <2>2 DEF supervisionVars, supervisorVars, world, frames, bms, running, readings, control,
      ScansInv, AllIsGood, ReadsAreScans, HangsStopScans, CrcsAgeBoth, Rounds, BeforeRound,
      Stopped
  <2> QED
    BY <2>1, <2>2
<1>2. SupervisionInit => ScansInv
  BY ScansStart
<1> QED
  BY <1>1, <1>2, LifeHolds, PTL DEF SupervisionSpec

-------------------------------------------------------------------------------
(* Cell faults: they do not last long while the contactors are closed.      *)

\* The violation is not older than the event, give or take n, or the controller has
\* not run for longer than the event has lasted.
Dated(n) ==
  \/ violation_age <= low.accumulator + n
  \/ "reset" \in faults /\ uptime <= low.accumulator + 1 + n

\* Where resets can happen, no event takes more than two units: contactors do not
\* close before the third round.
LowFits ==
  /\ faults \subseteq {"low", "link", "reset"}
  /\ "reset" \in faults => Escalation <= 2 /\ HeartbeatDrop >= 2

\* Without resets no violation is older than the controller's life.
NoOldViolation ==
  "reset" \notin faults /\ (mode = "down" \/ (BeforeRound /\ uptime <= 1)) => ~violating

\* From the scan through the poll to the end of the unit.
EventIsAsOld ==
  mode = "up" /\ ~Stopped =>
    /\ phase = "snoop" /\ snooped = "low" =>
         low.level = "CRITICAL" /\ (violating => Dated(0))
    /\ phase \in {"serial", "decide", "time"} /\ violating =>
         low.level = "CRITICAL" /\ Dated(0)
    /\ BeforeRound /\ uptime > 1 /\ violating =>
         low.level = "CRITICAL" /\ Dated(1)

\* When the event is FATAL the contactors are about to open.
FatalIsAsOld ==
  Stopped /\ contactors = "CLOSED" /\ violating /\ snooped # "good" =>
    violation_age <= Escalation + fault_elapsed

CellsInv == LowFits => NoOldViolation /\ EventIsAsOld /\ FatalIsAsOld

LEMMA CellsStart ==
  ASSUME SupervisionInit
  PROVE  CellsInv
<1>1. mode = "down" /\ violating = FALSE
  BY DEF SupervisionInit, SupervisorInit
<1> QED
  BY <1>1 DEF CellsInv, NoOldViolation, EventIsAsOld, FatalIsAsOld

\* While contactors are closed no cell fault has lasted.
LEMMA ClosedIsYoung ==
  ASSUME LifeTypes, LifeInv, ScansInv, CellsInv, CellsFit(faults),
         contactors = "CLOSED", phase = "decide"
  PROVE  ~CellFaultLasts
<1> USE DelayAssumption, SupervisionAssumption DEF DelayAssumption, SupervisionAssumption
<1>1. CASE {"low", "missing"} \intersect faults = {}
  BY <1>1 DEF ScansInv, AllIsGood, CellFaultLasts
<1>2. CASE /\ faults \subseteq {"low", "link", "reset"}
           /\ "reset" \in faults => Escalation <= 2 /\ HeartbeatDrop >= 2
           /\ Escalation + ForceOpen < CellFaultDrop
  <2>1. SUFFICES ASSUME violating
        PROVE  violation_age < CellFaultDrop
    BY DEF CellFaultLasts, LifeTypes
  <2>3. LowFits
    BY <1>2 DEF LowFits
  <2>4. mode = "up" /\ snooped = NoScan /\ ~BeforeRound
    BY <1>2 DEF ScansInv, ReadsAreScans, LifeInv, LifeBegins, LifeTypes, SentThisUnit, BeforeRound
  <2>5. CASE Stopped
    <3>1. faulted /\ fault_elapsed < ForceOpen
      BY <2>4, <2>5 DEF LifeInv, EventsAct, OpensInFault, Stopped
    <3>2. violation_age <= Escalation + fault_elapsed
      BY <2>1, <2>3, <2>4, <2>5 DEF CellsInv, FatalIsAsOld, NoScan
    <3> QED
      BY <1>2, <3>1, <3>2 DEF LifeTypes
  <2>6. CASE ~Stopped
    <3>1. low.level = "CRITICAL" /\ Dated(0)
      BY <2>1, <2>3, <2>4, <2>6 DEF CellsInv, EventIsAsOld
    <3>2. low.accumulator < Escalation /\ low.accumulator \in Nat
      BY <3>1 DEF LifeInv, EventsAct, LifeTypes, Event
    <3>3. "reset" \in faults => uptime >= 3
      BY <1>2, <2>4 DEF LifeInv, ThreeRoundsToClose, Rounds
    <3>4. violation_age <= low.accumulator
      BY <1>2, <3>1, <3>2, <3>3 DEF Dated, LifeTypes
    <3> QED
      BY <1>2, <3>2, <3>4 DEF LifeTypes
  <2> QED
    BY <2>5, <2>6
<1> QED
  BY <1>1, <1>2 DEF CellsFit

\* A round: the event about a low reading is raised, or has lasted a unit longer.
LEMMA RoundKeepsCells ==
  ASSUME LifeTypes, LifeInv, ReadsAreScans, LowFits, NoOldViolation, EventIsAsOld,
         FatalIsAsOld, BmsLoop
  PROVE  NoOldViolation' /\ EventIsAsOld' /\ FatalIsAsOld'
<1> USE DelayAssumption, SupervisionAssumption DEF DelayAssumption, SupervisionAssumption
<1>1. /\ phase = "bms" /\ phase' = "snoop" /\ mode = "up" /\ mode' = "up"
      /\ BeforeRound /\ ~BeforeRound'
      /\ UNCHANGED << faults, violating, violation_age, snooped, scan_age, uptime, reading,
                      reading_age, fault_elapsed >>
  BY RoundStep DEF BeforeRound, theirs
<1>2. NoOldViolation'
  BY <1>1 DEF NoOldViolation
<1>3. ~Stopped =>
        /\ snooped \in {"good", "low"} /\ snooped = reading /\ reading_age = 0
        /\ reading # NoReading
  BY <1>1 DEF LowFits, ReadsAreScans, NoScan, NoReading
<1>4. /\ Stopped => Stopped'
      /\ ~Stopped /\ snooped = "good" => low'.level = "NONE"
      /\ ~Stopped /\ snooped = "low" =>
           /\ low'.level \in {"CRITICAL", "FATAL"}
           /\ low'.level = "CRITICAL" =>
                low'.accumulator = low.accumulator + (IF low.level = "CRITICAL" THEN 1 ELSE 0)
  <2>1. CASE Stopped
    <3>1. low' \in {EventTick(low, Confirm(low, reading # "low")), EventTick(low, low)}
      BY DEF BmsLoop
    <3>2. low' = low
      BY <2>1, <3>1, FatalEvent DEF Stopped, LifeTypes
    <3> QED
      BY <2>1, <3>2 DEF Stopped
  <2>2. CASE ~Stopped
    <3>1. reading_age <= StaleThreshold /\ low.level # "FATAL"
      BY <1>3, <2>2 DEF Stopped
    <3> QED
      BY <1>3, <2>2, <3>1, EventsOfRound
  <2> QED
    BY <2>1, <2>2
\* An older violation than the life, in the first round.
<1>5. ~Stopped /\ violating =>
        \/ low.level = "CRITICAL" /\ Dated(1)
        \/ uptime <= 1 /\ "reset" \in faults
  BY <1>1 DEF NoOldViolation, EventIsAsOld, LifeTypes
<1>6. EventIsAsOld'
  <2>1. SUFFICES ASSUME ~Stopped', snooped = "low"
        PROVE  low'.level = "CRITICAL" /\ (violating => Dated(0)')
    BY <1>1 DEF EventIsAsOld
  <2>2. /\ low'.level = "CRITICAL" /\ ~Stopped
        /\ low'.accumulator = low.accumulator + (IF low.level = "CRITICAL" THEN 1 ELSE 0)
    BY <1>4, <2>1 DEF Stopped
  <2>3. low.accumulator \in Nat
    BY DEF LifeTypes, Event
  <2> QED
    BY <1>1, <1>5, <2>2, <2>3 DEF Dated, LifeTypes
<1>7. FatalIsAsOld'
  <2>1. SUFFICES ASSUME Stopped', contactors' = "CLOSED", violating, snooped # "good"
        PROVE  violation_age <= Escalation + fault_elapsed
    BY <1>1 DEF FatalIsAsOld
  <2>2. contactors = "CLOSED"
    BY <2>1, RoundStep DEF Stopped, LifeTypes
  <2>3. CASE Stopped
    BY <2>1, <2>2, <2>3 DEF FatalIsAsOld
  <2>4. CASE ~Stopped
    <3>1. "reset" \in faults => uptime >= 4 /\ Escalation <= 2
      BY <1>1, <2>2 DEF LowFits, LifeInv, ThreeRoundsToClose, Rounds
    <3>2. low.level = "CRITICAL" /\ Dated(1)
      BY <1>5, <2>1, <2>4, <3>1 DEF LifeTypes
    <3>3. low.accumulator \in Nat /\ low.accumulator < Escalation
      BY <3>2 DEF LifeInv, EventsAct, LifeTypes, Event
    <3>4. violation_age <= low.accumulator + 1
      BY <3>1, <3>2, <3>3 DEF Dated, LifeTypes
    <3> QED
      BY <3>3, <3>4 DEF LifeTypes
  <2> QED
    BY <2>3, <2>4
<1> QED
  BY <1>2, <1>6, <1>7

\* A poll: the first bad scan starts the violation, a good one ends it.
LEMMA PollKeepsCells ==
  ASSUME LifeTypes, LifeInv, ReadsAreScans, LowFits, NoOldViolation, EventIsAsOld,
         FatalIsAsOld, PollSnoop
  PROVE  NoOldViolation' /\ EventIsAsOld' /\ FatalIsAsOld'
<1> USE DelayAssumption, SupervisionAssumption DEF DelayAssumption, SupervisionAssumption
<1>1. /\ phase = "snoop" /\ phase' = "serial" /\ ~BeforeRound /\ ~BeforeRound'
      /\ snooped' = NoScan
      /\ UNCHANGED << faults, mode, uptime, low, contactors, fault_elapsed >>
  BY SnoopStep DEF BeforeRound, ours
<1>2. /\ snooped = NoScan => UNCHANGED << violating, violation_age >>
      /\ snooped # NoScan =>
           /\ violating' = (snooped # "good")
           /\ violation_age' = IF violating /\ snooped # "good" THEN violation_age ELSE 0
  BY SnoopStep
<1>3. snooped \in {"good", "low", NoScan} /\ (mode = "up" /\ ~Stopped => snooped # NoScan)
  BY <1>1 DEF LowFits, ReadsAreScans
<1>4. low.accumulator \in Nat /\ fault_elapsed \in Nat
  BY DEF LifeTypes, Event
<1>5. NoOldViolation'
  <2>1. mode = "down" => snooped = NoScan
    BY DEF LifeInv, SentThisUnit
  <2> QED
    BY <1>1, <1>2, <2>1 DEF NoOldViolation
<1>6. EventIsAsOld'
  <2>1. SUFFICES ASSUME mode = "up", ~Stopped, violating'
        PROVE  low.level = "CRITICAL" /\ Dated(0)'
    BY <1>1 DEF EventIsAsOld, Stopped
  <2>2. snooped = "low"
    BY <1>2, <1>3, <2>1
  <2>3. low.level = "CRITICAL" /\ (violating => Dated(0))
    BY <1>1, <2>1, <2>2 DEF EventIsAsOld
  <2>4. violation_age' = IF violating THEN violation_age ELSE 0
    BY <1>2, <2>2 DEF NoScan
  <2> QED
    BY <1>1, <1>4, <2>3, <2>4 DEF Dated
<1>7. FatalIsAsOld'
  <2>1. SUFFICES ASSUME Stopped, contactors = "CLOSED", violating'
        PROVE  violation_age' <= Escalation + fault_elapsed
    BY <1>1 DEF FatalIsAsOld, Stopped
  <2>2. CASE snooped = NoScan
    BY <1>2, <2>1, <2>2 DEF FatalIsAsOld, NoScan
  <2>3. CASE snooped # NoScan
    <3>1. snooped # "good" /\ violation_age' = IF violating THEN violation_age ELSE 0
      BY <1>2, <2>1, <2>3
    <3> QED
      BY <1>4, <2>1, <3>1 DEF FatalIsAsOld
  <2> QED
    BY <2>2, <2>3
<1> QED
  BY <1>5, <1>6, <1>7

LEMMA TimeKeepsCells ==
  ASSUME LifeTypes, LifeInv, ReadsAreScans, LowFits, NoOldViolation, EventIsAsOld,
         FatalIsAsOld, SupervisionTypeOK, Time
  PROVE  NoOldViolation' /\ EventIsAsOld' /\ FatalIsAsOld'
<1> USE DelayAssumption, SupervisionAssumption DEF DelayAssumption, SupervisionAssumption
<1>1. /\ phase = "time" /\ phase' = "cells" /\ ~BeforeRound /\ BeforeRound'
      /\ violation_age' <= violation_age + 1 /\ violation_age' \in Nat
      /\ UNCHANGED << faults, mode, low, contactors, snooped, violating >>
  BY TimeStep, TimeTypes DEF BeforeRound
<1>2. uptime' = uptime + 1 \/ (uptime = HeartbeatDrop + 2 /\ uptime' = uptime)
  BY TimeStep
<1>3. low.accumulator \in Nat /\ mode # "hung" /\ snooped = NoScan
  BY <1>1 DEF LifeTypes, Event, LowFits, ReadsAreScans, LifeInv, SentThisUnit
<1>4. NoOldViolation'
  <2>1. mode # "down" => uptime' >= 2
    BY <1>2 DEF LifeInv, LifeBegins, LifeTypes
  <2> QED
    BY <1>1, <1>2, <2>1 DEF NoOldViolation, LifeTypes
<1>5. EventIsAsOld'
  <2>1. SUFFICES ASSUME mode = "up", ~Stopped, violating
        PROVE  low.level = "CRITICAL" /\ Dated(1)'
    BY <1>1 DEF EventIsAsOld, Stopped
  <2>2. low.level = "CRITICAL" /\ Dated(0)
    BY <1>1, <2>1 DEF EventIsAsOld
  <2> QED
    BY <1>1, <1>2, <1>3, <2>2 DEF Dated, LifeTypes
<1>6. FatalIsAsOld'
  <2>1. SUFFICES ASSUME Stopped, contactors = "CLOSED", violating
        PROVE  violation_age' <= Escalation + fault_elapsed'
    BY <1>1 DEF FatalIsAsOld, Stopped
  <2>2. mode = "up" /\ faulted
    BY <1>3, <2>1 DEF LifeInv, LifeBegins, EventsAct, Stopped, LifeTypes
  <2>3. fault_elapsed < ForceOpen
    BY <1>1, <2>1, <2>2 DEF LifeInv, OpensInFault
  <2>4. fault_elapsed' = fault_elapsed + 1
    BY <2>2, <2>3, TimeStep DEF LifeTypes
  <2>5. violation_age <= Escalation + fault_elapsed
    BY <1>3, <2>1 DEF FatalIsAsOld, NoScan
  <2> QED
    BY <1>1, <2>4, <2>5 DEF LifeTypes
<1> QED
  BY <1>4, <1>5, <1>6

\* The other steps do not move the violation or the event.
LEMMA OthersKeepCells ==
  ASSUME LifeTypes, LifeInv, ReadsAreScans, LowFits, NoOldViolation, EventIsAsOld,
         FatalIsAsOld, SupervisionNext, ~BmsLoop, ~PollSnoop, ~Time
  PROVE  NoOldViolation' /\ EventIsAsOld' /\ FatalIsAsOld'
<1>1. faults' = faults /\ mode # "hung" /\ "crc" \notin faults /\ "hang" \notin faults
  BY FaultsStay DEF LowFits, ReadsAreScans
<1>2. CASE ReadCells
  <2>1. /\ BeforeRound /\ BeforeRound' /\ mode = "up" /\ mode' = "up" /\ ~Stopped /\ phase' = "bms"
        /\ UNCHANGED << violating, violation_age, low, uptime, contactors, fault_elapsed >>
    BY <1>2, ReadStep DEF BeforeRound, Stopped, theirs
  <2> QED
    BY <1>1, <2>1 DEF NoOldViolation, EventIsAsOld, FatalIsAsOld, Dated, Stopped
<1>3. CASE ReadCellsPartly
  BY <1>1, <1>3, PartlyStep
<1>4. CASE ReadNothing \/ BmsIdle
  <2>1. /\ mode = "up" => Stopped
        /\ BeforeRound
        /\ UNCHANGED << violating, violation_age, low, uptime, mode, snooped, contactors,
                        fault_elapsed >>
    BY <1>4, IdleStep DEF BeforeRound, Stopped, theirs, ours, between
  <2> QED
    BY <1>1, <2>1 DEF NoOldViolation, EventIsAsOld, FatalIsAsOld, Stopped
<1>5. CASE Hang \/ Resume \/ Boot
  <2>1. /\ mode = "down" /\ mode' = "up" /\ phase = "cells" /\ phase' = "cells"
        /\ UNCHANGED << violating, violation_age, low, uptime, snooped, contactors, fault_elapsed >>
    BY <1>1, <1>5, ModeStep DEF theirs, ours, between
  <2>2. uptime <= 1
    BY <2>1 DEF LifeInv, LifeBegins
  <2>3. contactors = "OPEN"
    BY <2>1 DEF LifeInv, LifeBegins
  <2>4. NoOldViolation' /\ FatalIsAsOld'
    BY <1>1, <2>1, <2>3 DEF NoOldViolation, FatalIsAsOld
  <2>5. EventIsAsOld'
    BY <2>1, <2>2 DEF EventIsAsOld, LifeTypes
  <2> QED
    BY <2>4, <2>5
<1>6. CASE BmsReset
  <2>1. mode' = "down" /\ contactors' = "OPEN" /\ "reset" \in faults
    BY <1>1, <1>6, ResetStep
  <2> QED
    BY <1>1, <2>1 DEF NoOldViolation, EventIsAsOld, FatalIsAsOld
<1>7. CASE \/ LoseStatus \/ LoseReply \/ PollSerial \/ Decide
           \/ CellsFail \/ CellsRecover \/ Settle
  <2>1. /\ BeforeRound <=> BeforeRound'
        /\ phase' = "snoop" => phase = "snoop"
        /\ phase' \in {"serial", "decide", "time"} => phase \in {"serial", "decide", "time"}
        /\ UNCHANGED << violating, violation_age, low, uptime, mode, snooped, contactors,
                        fault_elapsed >>
    BY <1>7, LossStep, SerialStep, DecideStep, WorldStep
    DEF BeforeRound, theirs, ours, between
  <2> QED
    BY <1>1, <2>1 DEF NoOldViolation, EventIsAsOld, FatalIsAsOld, Dated, Stopped
<1> QED
  BY <1>2, <1>3, <1>4, <1>5, <1>6, <1>7 DEF SupervisionNext, Run, Fault

LEMMA CellsHold == SupervisionSpec => []CellsInv
<1>1. /\ SupervisionTypeOK /\ LifeInv /\ ScansInv /\ CellsInv
      /\ [SupervisionNext]_supervisionVars
      => CellsInv'
  <2>1. ASSUME SupervisionTypeOK, LifeInv, ScansInv, CellsInv, SupervisionNext
        PROVE  CellsInv'
    <3>1. SUFFICES ASSUME LowFits
          PROVE  NoOldViolation' /\ EventIsAsOld' /\ FatalIsAsOld'
      BY <2>1, FaultsStay DEF CellsInv, LowFits
    <3> QED
      BY <2>1, <3>1, LifeIsTyped, RoundKeepsCells, PollKeepsCells, TimeKeepsCells, OthersKeepCells
      DEF CellsInv, ScansInv
  <2>2. ASSUME CellsInv, UNCHANGED supervisionVars
        PROVE  CellsInv'
    BY <2>2 DEF supervisionVars, supervisorVars, world, frames, bms, running, readings, control,
      CellsInv, LowFits, NoOldViolation, EventIsAsOld, FatalIsAsOld, Dated, BeforeRound, Stopped
  <2> QED
    BY <2>1, <2>2
<1>2. SupervisionInit => CellsInv
  BY CellsStart
<1> QED
  BY <1>1, <1>2, LifeHolds, ScansHold, PTL DEF SupervisionSpec

-------------------------------------------------------------------------------

\* "The doubled delays mean the BMS always gets to open the contactors first" (README,
\* Supervisor), for all delays that fit and all combinations of faults that they fit:
\* whatever cells, hangs, resets, lost frames and CRC errors do, the supervisor's decision
\* never disables drivers whose contactors are still closed.
THEOREM OpensFirst ==
  ASSUME \A kinds \in Tolerated : DelaysFit(kinds)
  PROVE  SupervisionSpec => BmsOpensFirst
<1> DEFINE First == sup_state = "ON" /\ sup_state' # "ON" /\ faults \in Tolerated
                      => contactors = "OPEN"
<1>1. /\ SupervisionTypeOK /\ LifeInv /\ SilenceInv /\ ScansInv /\ CellsInv
      /\ [SupervisionNext]_supervisionVars
      => [First]_supervisionVars
  <2>1. SUFFICES ASSUME SupervisionTypeOK, LifeInv, SilenceInv, ScansInv, CellsInv,
                        SupervisionNext, sup_state = "ON", sup_state' # "ON",
                        faults \in Tolerated, contactors # "OPEN"
        PROVE  FALSE
    OBVIOUS
  <2>2. LifeTypes /\ contactors = "CLOSED" /\ DelaysFit(faults)
    BY <2>1, LifeIsTyped DEF LifeTypes
  <2>3. Decide
    BY <2>1, RoundStep, ReadStep, PartlyStep, IdleStep, ModeStep, ResetStep, LossStep, WorldStep,
       SnoopStep, SerialStep, TimeStep
    DEF SupervisionNext, Run, Fault, theirs
  <2>4. phase = "decide"
    BY <2>3, DecideStep
  <2>5. status_age <= HeartbeatDrop /\ ~bms_restarted
    BY <2>1, <2>2, <2>4, ClosedIsHeard DEF DelaysFit, SilenceInv, RestartIsOpen
  <2>6. scan_age <= ScanStaleDrop
    BY <2>1, <2>2, <2>4, ClosedIsScanned DEF DelaysFit
  <2>7. ~CellFaultLasts
    BY <2>1, <2>2, <2>4, ClosedIsYoung DEF DelaysFit
  <2> QED
    BY <2>1, <2>2, <2>3, <2>5, <2>6, <2>7, DecideStep, DelayAssumption
    DEF DelayAssumption, LifeTypes
<1> QED
  BY <1>1, LifeHolds, SilenceHolds, ScansHold, CellsHold, PTL DEF SupervisionSpec, BmsOpensFirst

================================================================================
