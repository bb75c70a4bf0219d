------------------------------- MODULE Acquisition -------------------------------
(***************************************************************************)
(* The supervisor listening to the controller's reads of the cell monitors. *)
(* The controller reads in one form; the supervisor may miss any number of  *)
(* transfers or hear their data damaged, whatever the controller gets.      *)
(***************************************************************************)
EXTENDS ReadCycle, CellSnoop

CONSTANT
  LongReads          \* BMB3Y_LONG_CELL_READS

ASSUME AcquisitionAssumption == LongReads \in BOOLEAN /\ SnoopBanks = ReadBanks

VARIABLES
  lost,              \* history: transfers missed in a row, up to a whole cycle's
  origin             \* history: of the scan being put together, "this" snapshot's,
                     \*   an "older" one's, or "excused": slow mode came or went,
                     \*   or a whole cycle's transfers were missed in a row

acquisitionVars == << cycleVars, snoopVars, lost, origin >>

AcquisitionInit == CycleInit /\ SnoopInit /\ lost = 0 /\ origin = "this"

OneMore(missed) == IF missed < ReadBanks THEN missed + 1 ELSE missed

\* What the supervisor makes of the transfer on the bus, if there is one.
Overhear ==
  \/ reading' = -1 /\ UNCHANGED << snoopVars, lost >>
  \/ reading' # -1 /\ lost' = OneMore(lost) /\ UNCHANGED snoopVars
  \/ reading' # -1 /\ lost' = 0 /\ \E good \in SUBSET Modules : Hear(reading', LongReads, good)

Origin ==
  origin' =
    IF reading' = 0 /\ lost' = 0 THEN "this"
    ELSE IF jumped' \/ lost' = ReadBanks THEN "excused"
    ELSE IF TakeSnapshot /\ origin = "this" THEN "older"
    ELSE origin

AcquisitionNext ==
  \/ CycleNext /\ Overhear /\ Origin
  \/ TakeScan /\ UNCHANGED << cycleVars, lost, origin >>

AcquisitionSpec == AcquisitionInit /\ [][AcquisitionNext]_acquisitionVars
-----------------------------------------------------------------------------
\* A scan has every bank of every module of the pack, all of one snapshot, although the
\* supervisor sees no snapshots and any transfers may be missed: one that is missed is
\* noticed only by the number of the next bank heard.  Of two snapshots may be a scan in
\* the midst of which a whole cycle's transfers, or more, were missed in a row, as the
\* number is then the one expected, and one during which slow mode came or went.
ScansOfOneSnapshot ==
  [][~scan_ready /\ scan_ready' =>
       /\ origin' # "older"
       /\ \A m \in PackModules : scan'[m] = 0 .. SnoopBanks - 1]_acquisitionVars
===============================================================================
