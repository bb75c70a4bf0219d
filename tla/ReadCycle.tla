-------------------------------- MODULE ReadCycle --------------------------------
(***************************************************************************)
(* What the reads of the cell monitors look like on the bus: a snapshot,    *)
(* and then its banks in order.  The cell monitors' driver implements this, *)
(* and it is all that the supervisor, which listens, can count on.          *)
(***************************************************************************)
EXTENDS Integers

CONSTANT ReadBanks          \* CELL_MAP_BANKS

ASSUME ReadBanksAssumption == ReadBanks \in Nat \ {0}

VARIABLES
  place,      \* the bank to be read next; ReadBanks when a snapshot comes next
  reading,    \* the bank on the bus, or -1
  jumped      \* slow mode has come or gone since the snapshot

cycleVars == << place, reading, jumped >>

CycleInit == place = ReadBanks /\ reading = -1 /\ jumped = FALSE

TakeSnapshot == place = ReadBanks /\ place' = 0 /\ reading' = -1 /\ jumped' = FALSE

Read == place < ReadBanks /\ reading' = place /\ place' = place + 1 /\ UNCHANGED jumped

ReadEnds == reading' = -1 /\ UNCHANGED << place, jumped >>

\* The other period puts the cycle at any step.
Jump ==
  /\ jumped' = TRUE
  /\ place' \in 0 .. ReadBanks
  /\ reading' \in -1 .. ReadBanks - 1
  /\ reading' = -1 \/ place' - reading' = 1

CycleNext == TakeSnapshot \/ Read \/ ReadEnds \/ Jump

CycleSpec == CycleInit /\ [][CycleNext]_cycleVars
===============================================================================
