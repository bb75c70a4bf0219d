------------------------------ MODULE MCAcquisition ------------------------------
(***************************************************************************)
(* How readings come about: the cycle of the cell monitors, the supervisor  *)
(* that listens to it, the two converters, and the events that readings     *)
(* raise.  They are checked side by side: part says which of them runs.     *)
(***************************************************************************)
EXTENDS CellMonitors, Acquisition, Ina228, Ads1115, Events

VARIABLE part

SomeCells == << 0, 1 >>
SomeDevices == << "a", "b" >>
SomeChannels == [a |-> << 0, 1 >>, b |-> << 2 >>, absent |-> << 3 >>]
SomeLevels == [stale |-> CRITICAL, failed |-> WARNING]
SomeLeeway == [stale |-> 2, failed |-> 2]

otherThanMonitors == << acquisitionVars, ina228Vars, ads1115Vars, eventsVars >>
otherThanSnoop == << monitorVars, ina228Vars, ads1115Vars, eventsVars >>
otherThanIna228 == << monitorVars, acquisitionVars, ads1115Vars, eventsVars >>
otherThanAds1115 == << monitorVars, acquisitionVars, ina228Vars, eventsVars >>
otherThanEvents == << monitorVars, acquisitionVars, ina228Vars, ads1115Vars >>
sensingVars == << part, monitorVars, acquisitionVars, ina228Vars, ads1115Vars, eventsVars >>

SensingInit ==
  /\ part \in {"monitors", "snoop", "ina228", "ads1115", "events"}
  /\ MonitorsInit /\ AcquisitionInit /\ Ina228Init /\ Ads1115Init /\ EventsInit
  /\ part = "events" \/ now = 0

SensingNext ==
  /\ UNCHANGED part
  /\ \/ part = "monitors" /\ MonitorsNext /\ UNCHANGED otherThanMonitors
     \/ part = "snoop" /\ AcquisitionNext /\ UNCHANGED otherThanSnoop
     \/ part = "ina228" /\ Ina228Next /\ UNCHANGED otherThanIna228
     \/ part = "ads1115" /\ Ads1115Next /\ UNCHANGED otherThanAds1115
     \/ part = "events" /\ EventsNext /\ UNCHANGED otherThanEvents

\* The fairness of MonitorsSpec and Ina228Fairness, of the part that runs.
SensingFairness ==
  /\ WF_monitorVars(part = "monitors" /\ Tick)
  /\ WF_ina228Vars(part = "ina228" /\ TimerFires)
  /\ WF_ina228Vars(part = "ina228" /\ ReadCurrentAsync)
  /\ WF_ina228Vars(part = "ina228" /\ Pass)
  /\ WF_ina228Vars(part = "ina228" /\ \E success \in BOOLEAN : TransferEnds(success))
  /\ SF_ina228Vars(part = "ina228" /\ TransferEnds(TRUE))

SensingSpec == SensingInit /\ [][SensingNext]_sensingVars /\ SensingFairness
===============================================================================
