--------------------------- MODULE Acquisition_proofs ---------------------------
(***************************************************************************)
(* Proofs about how readings come about, for all constants.  The cell       *)
(* monitors' driver reads in cycles, and balancing leaves time for readings *)
(* that count.  The supervisor, which listens to such cycles, makes up a    *)
(* scan from one snapshot only, for any number of banks and modules and     *)
(* either form of the reads, whatever transfers it misses, unless a whole   *)
(* cycle of them in a row.  A sample of the converters of voltages is of    *)
(* its own channel, but for a conversion left over from an abandoned cycle, *)
(* and what a calibration adds up is whole.  No temperature of the current  *)
(* sensor is taken for that of its other channel, or read before it was     *)
(* measured.                                                                *)
(***************************************************************************)
EXTENDS Acquisition, CellMonitors, Ads1115, Ina228, WellFoundedInduction, TLAPS

(***************************************************************************)
(* The argument.  While a scan is put together, the transfers missed since  *)
(* the last one heard are what separates the bank expected from the bank    *)
(* that the controller reads next: within the snapshot that is the          *)
(* difference of the two, and after the next snapshot it is a whole cycle   *)
(* more.  Were the expected bank read again there, a whole cycle would have *)
(* been missed, and the scan is excused.                                    *)
(***************************************************************************)

BankSets == SUBSET (0 .. ReadBanks - 1)

AcquisitionTypes ==
  /\ place \in 0 .. ReadBanks /\ reading \in -1 .. ReadBanks - 1 /\ jumped \in BOOLEAN
  /\ next_bank \in {-1} \union 1 .. ReadBanks - 1
  /\ pending_is_long \in BOOLEAN /\ pending_module_ok \in SUBSET Modules
  /\ pending \in [Modules -> BankSets]
  /\ scan_ready \in BOOLEAN /\ scan \in [Modules -> BankSets]
  /\ lost \in 0 .. ReadBanks /\ origin \in {"this", "older", "excused"}

\* What was missed, within the snapshot of the scan and after it.
MissedWithin == next_bank >= 1 /\ origin = "this" => lost = place - next_bank
MissedSince == next_bank >= 1 /\ origin = "older" => lost = ReadBanks - next_bank + place

\* The modules heard so far have their banks up to the one expected.
BanksSoFar == next_bank >= 1 => \A m \in pending_module_ok : pending[m] = 0 .. next_bank - 1

\* A whole cycle was missed.
MissedAll == lost = ReadBanks => origin = "excused"

AcquisitionInv ==
  AcquisitionTypes /\ MissedWithin /\ MissedSince /\ MissedAll /\ BanksSoFar

ScanIsWhole ==
  ~scan_ready /\ scan_ready' =>
    /\ origin' # "older"
    /\ \A m \in PackModules : scan'[m] = 0 .. SnoopBanks - 1

-------------------------------------------------------------------------------

\* Both programs are built for the same number of banks.
LEMMA Bounds ==
  /\ ReadBanks \in Nat \ {0} /\ SnoopBanks = ReadBanks
  /\ LongReads \in BOOLEAN /\ PackModules \subseteq Modules
BY ReadBanksAssumption, AcquisitionAssumption, SnoopAssumption

\* The arithmetic of places in the cycle.
LEMMA OneFurther ==
  ASSUME NEW p \in Int, NEW q \in Int, NEW n \in Int, q - p = 1
  PROVE  /\ (p - n) + 1 = q - n
         /\ (ReadBanks - n + p) + 1 = ReadBanks - n + q
BY Bounds

LEMMA SamePlace ==
  ASSUME NEW p \in Int, NEW q \in Int, NEW n \in Int, q - p = 1
  PROVE  /\ n - p = 1 => q - n = 0 /\ 0 .. n - 1 = 0 .. p
         /\ p + 1 = ReadBanks => p = ReadBanks - 1
BY Bounds

LEMMA Successor ==
  ASSUME NEW p \in Int
  PROVE  (p + 1) - p = 1 /\ (p >= 0 /\ p + 1 < ReadBanks => p + 1 \in 1 .. ReadBanks - 1)
BY Bounds

\* At boot nothing has been heard.
LEMMA AcquisitionStarts == AcquisitionInit => AcquisitionInv
<1> SUFFICES ASSUME AcquisitionInit PROVE AcquisitionInv
  OBVIOUS
<1>1. NoCells \in [Modules -> BankSets]
  BY DEF NoCells, BankSets
<1>2. jumped \in BOOLEAN /\ pending_is_long \in BOOLEAN /\ scan_ready \in BOOLEAN
  BY DEF AcquisitionInit, CycleInit, SnoopInit
<1>3. AcquisitionTypes
  BY <1>1, <1>2, Bounds DEF AcquisitionInit, CycleInit, SnoopInit, AcquisitionTypes
<1>4. lost = 0 /\ next_bank = -1
  BY DEF AcquisitionInit, SnoopInit
<1>5. MissedAll
  BY <1>4, Bounds DEF MissedAll
<1> QED
  BY <1>3, <1>4, <1>5 DEF AcquisitionInv, MissedWithin, MissedSince, BanksSoFar

\* What the controller does next, as far as the supervisor can tell.
LEMMA CycleTypes ==
  ASSUME AcquisitionInv, CycleNext
  PROVE  /\ place' \in 0 .. ReadBanks /\ reading' \in -1 .. ReadBanks - 1
         /\ jumped' \in BOOLEAN
         /\ reading' # -1 => place' - reading' = 1
         /\ reading' # -1 /\ ~jumped' => place - reading' = 0
         /\ reading' = -1 /\ ~jumped' => place' = place \/ TakeSnapshot
<1> USE Bounds DEF AcquisitionInv, AcquisitionTypes
<1>1. CASE TakeSnapshot
  <2>1. jumped' = FALSE /\ place' = 0 /\ reading' = -1
    BY <1>1 DEF TakeSnapshot
  <2>2. jumped' \in BOOLEAN
    BY <2>1
  <2>3. place' \in 0 .. ReadBanks /\ reading' \in -1 .. ReadBanks - 1
    BY <2>1
  <2> QED
    BY <1>1, <2>1, <2>2, <2>3
<1>2. CASE Read
  BY <1>2 DEF Read
<1>3. CASE ReadEnds
  BY <1>3 DEF ReadEnds
<1>4. CASE Jump
  <2>1. jumped'
    BY <1>4 DEF Jump
  <2>2. jumped' \in BOOLEAN
    BY <1>4 DEF Jump
  <2>3. /\ place' \in 0 .. ReadBanks /\ reading' \in -1 .. ReadBanks - 1
        /\ reading' # -1 => place' - reading' = 1
    BY <1>4 DEF Jump
  <2> QED
    BY <2>1, <2>2, <2>3
<1> QED
  BY <1>1, <1>2, <1>3, <1>4 DEF CycleNext

\* origin keeps its type.
LEMMA OriginType ==
  ASSUME AcquisitionInv, Origin
  PROVE  origin' \in {"this", "older", "excused"}
BY DEF Origin, AcquisitionInv, AcquisitionTypes

-------------------------------------------------------------------------------

\* Nothing on the bus: a snapshot puts the banks missed a cycle further back.
LEMMA QuietKeeps ==
  ASSUME AcquisitionInv, CycleNext, Origin, reading' = -1, UNCHANGED << snoopVars, lost >>
  PROVE  AcquisitionInv'
<1> USE Bounds
<1>1. AcquisitionTypes'
  BY CycleTypes, OriginType DEF snoopVars, AcquisitionInv, AcquisitionTypes
<1>2. lost' = lost /\ (lost' = ReadBanks => origin' = "excused")
  BY DEF Origin, AcquisitionInv, MissedAll
<1>3. CASE jumped' \/ lost' = ReadBanks
  <2>1. origin' = "excused"
    <3>1. reading' # 0
      OBVIOUS
    <3> QED
      BY <1>3, <3>1 DEF Origin
  <2> QED
    BY <1>1, <1>2, <2>1
    DEF snoopVars, AcquisitionInv, MissedWithin, MissedSince, MissedAll, BanksSoFar
<1>4. CASE ~(jumped' \/ lost' = ReadBanks) /\ TakeSnapshot
  <2>1. place = ReadBanks /\ place' = 0
    BY <1>4 DEF TakeSnapshot
  <2>2. origin' = IF origin = "this" THEN "older" ELSE origin
    BY <1>4 DEF Origin
  <2>3. next_bank >= 1 => origin # "older"
    BY <2>1 DEF AcquisitionInv, AcquisitionTypes, MissedSince
  <2> QED
    BY <1>1, <1>2, <2>1, <2>2, <2>3
    DEF snoopVars, AcquisitionInv, AcquisitionTypes, MissedWithin, MissedSince, MissedAll,
        BanksSoFar
<1>5. CASE ~(jumped' \/ lost' = ReadBanks) /\ ~TakeSnapshot
  <2>1. place' = place /\ origin' = origin
    BY <1>5, CycleTypes DEF Origin
  <2> QED
    BY <1>1, <1>2, <2>1
    DEF snoopVars, AcquisitionInv, MissedWithin, MissedSince, MissedAll, BanksSoFar
<1> QED
  BY <1>3, <1>4, <1>5

\* A snapshot and a read are two steps.
LEMMA ReadIsNoSnapshot ==
  ASSUME reading' # -1
  PROVE  ~TakeSnapshot
BY DEF TakeSnapshot

\* One more is counted, up to a whole cycle's.
LEMMA MoreIs ==
  ASSUME NEW n \in 0 .. ReadBanks
  PROVE  /\ OneMore(n) \in 1 .. ReadBanks
         /\ OneMore(n) # ReadBanks => OneMore(n) = n + 1
BY Bounds DEF OneMore

\* A transfer is missed.
LEMMA MissKeeps ==
  ASSUME AcquisitionInv, CycleNext, Origin, reading' # -1, lost' = OneMore(lost),
         UNCHANGED snoopVars
  PROVE  AcquisitionInv'
<1> USE Bounds
<1>1. lost' \in 1 .. ReadBanks /\ (lost' # ReadBanks => lost' = lost + 1)
  BY Zenon, MoreIs DEF AcquisitionInv, AcquisitionTypes
<1>2. AcquisitionTypes'
  BY <1>1, CycleTypes, OriginType DEF snoopVars, AcquisitionInv, AcquisitionTypes
<1>3. CASE jumped' \/ lost' = ReadBanks
  <2>1. origin' = "excused"
    BY <1>1, <1>3 DEF Origin
  <2> QED
    BY <1>2, <2>1
    DEF snoopVars, AcquisitionInv, MissedWithin, MissedSince, MissedAll, BanksSoFar
<1>4. CASE ~jumped' /\ lost' # ReadBanks
  <2>1. origin' = origin
    BY <1>1, <1>4, ReadIsNoSnapshot DEF Origin
  <2>2. place' - place = 1
    BY <1>4, CycleTypes DEF AcquisitionInv, AcquisitionTypes
  <2>3. lost \in Int /\ place \in Int /\ place' \in Int /\ next_bank \in Int
    BY CycleTypes DEF AcquisitionInv, AcquisitionTypes
  <2>4. lost' = lost + 1
    BY <1>1, <1>4
  <2>5. /\ (place - next_bank) + 1 = place' - next_bank
        /\ (ReadBanks - next_bank + place) + 1 = ReadBanks - next_bank + place'
    BY Zenon, <2>2, <2>3, OneFurther
  <2>6. next_bank' = next_bank
    BY DEF snoopVars
  <2>7. MissedWithin'
    BY Zenon, <2>1, <2>4, <2>5, <2>6 DEF AcquisitionInv, MissedWithin
  <2>8. MissedSince'
    BY Zenon, <2>1, <2>4, <2>5, <2>6 DEF AcquisitionInv, MissedSince
  <2>9. MissedAll'
    BY <1>4 DEF MissedAll
  <2> QED
    BY <1>2, <2>7, <2>8, <2>9 DEF snoopVars, AcquisitionInv, BanksSoFar
<1> QED
  BY <1>3, <1>4

\* A transfer is heard out of sequence.
LEMMA OutOfSequenceKeeps ==
  ASSUME AcquisitionInv, CycleNext, Origin, reading' # -1, lost' = 0,
         OutOfSequence(reading', LongReads)
  PROVE  AcquisitionInv' /\ ScanIsWhole
<1>1. AcquisitionTypes'
  BY Bounds, CycleTypes, OriginType DEF OutOfSequence, AcquisitionInv, AcquisitionTypes
<1>2. MissedAll'
  BY Bounds DEF MissedAll
<1> QED
  BY <1>1, <1>2
  DEF OutOfSequence, AcquisitionInv, MissedWithin, MissedSince, BanksSoFar, ScanIsWhole

-------------------------------------------------------------------------------

\* A transfer heard in sequence, from bank A on, is of the snapshot of its scan.
LEMMA HeardOrigin ==
  ASSUME AcquisitionInv, CycleNext, Origin, reading' # -1, lost' = 0,
         reading' = Expected(reading')
  PROVE  origin' # "older"
<1> USE Bounds
<1>1. CASE reading' = 0
  BY <1>1 DEF Origin
<1>2. CASE reading' # 0 /\ jumped'
  BY <1>2 DEF Origin
<1>3. CASE reading' # 0 /\ ~jumped'
  <2>1. /\ next_bank \in Int /\ place \in Int /\ lost \in Int /\ reading' \in Int
        /\ lost \in 0 .. ReadBanks
    BY CycleTypes DEF AcquisitionInv, AcquisitionTypes
  <2>2. next_bank >= 1 /\ place - next_bank = 0
    BY <1>3, <2>1, CycleTypes DEF Expected, AcquisitionInv, AcquisitionTypes
  <2>3. origin # "older"
    BY <2>1, <2>2 DEF AcquisitionInv, MissedSince, MissedAll
  <2> QED
    BY <1>3, <2>3, ReadIsNoSnapshot DEF Origin
<1> QED
  BY <1>1, <1>2, <1>3

\* It adds its bank to those of the modules that it was good for.
LEMMA HeardBanks ==
  ASSUME AcquisitionInv, CycleNext, reading' # -1, NEW good \in SUBSET Modules,
         InSequence(reading', LongReads, good)
  PROVE  /\ pending' \in [Modules -> BankSets]
         /\ pending_module_ok' \in SUBSET Modules
         /\ \A m \in pending_module_ok' : pending'[m] = 0 .. reading'
<1> USE Bounds DEF AcquisitionInv, AcquisitionTypes
<1>1. reading' \in 0 .. ReadBanks - 1
  BY CycleTypes
<1>2. Before(reading') \in [Modules -> BankSets] /\ ModulesOk(reading') \in SUBSET Modules
  BY DEF Before, ModulesOk, NoCells, BankSets
<1>3. \A m \in ModulesOk(reading') : Before(reading')[m] = 0 .. reading' - 1
  <2>1. CASE reading' = 0
    BY <2>1 DEF Before, ModulesOk, NoCells
  <2>2. CASE reading' # 0
    <3>1. next_bank = reading' /\ next_bank >= 1
      BY <2>2, <1>1 DEF InSequence, Expected
    <3> QED
      BY <2>2, <3>1 DEF Before, ModulesOk, BanksSoFar
  <2> QED
    BY <2>1, <2>2
<1>4. pending' = [m \in Modules |-> IF m \in good THEN Before(reading')[m] \union {reading'}
                                                  ELSE Before(reading')[m]]
  BY DEF InSequence
<1>5. pending_module_ok' = ModulesOk(reading') \intersect good
  BY DEF InSequence
<1>6. pending' \in [Modules -> BankSets]
  BY <1>1, <1>2, <1>4 DEF BankSets
<1>7. ASSUME NEW m \in pending_module_ok'
      PROVE  pending'[m] = 0 .. reading'
  <2>1. m \in good /\ m \in Modules /\ m \in ModulesOk(reading')
    BY <1>2, <1>5, <1>7
  <2>2. pending'[m] = (0 .. reading' - 1) \union {reading'}
    BY <1>3, <1>4, <2>1
  <2> QED
    BY <1>1, <2>2
<1> QED
  BY <1>2, <1>5, <1>6, <1>7

\* A transfer is heard in sequence; the last one makes the scan.
LEMMA InSequenceKeeps ==
  ASSUME AcquisitionInv, CycleNext, Origin, reading' # -1, lost' = 0,
         NEW good \in SUBSET Modules, InSequence(reading', LongReads, good)
  PROVE  AcquisitionInv' /\ ScanIsWhole
<1> USE Bounds
<1>1. reading' \in 0 .. ReadBanks - 1 /\ place' \in Int /\ place' - reading' = 1
  BY CycleTypes
<1>2. origin' # "older"
  BY HeardOrigin DEF InSequence
<1>3. next_bank' \in {-1} \union 1 .. ReadBanks - 1 /\ (next_bank' >= 1 => next_bank' - reading' = 1)
  <2>1. next_bank' = IF reading' + 1 < SnoopBanks THEN reading' + 1 ELSE -1
    BY DEF InSequence
  <2>2. CASE reading' + 1 < SnoopBanks
    <3>1. next_bank' = reading' + 1
      BY <2>1, <2>2
    <3>2. reading' \in Int /\ reading' >= 0
      BY <1>1
    <3>3. reading' + 1 < ReadBanks
      BY <2>2
    <3> QED
      BY Zenon, <3>1, <3>2, <3>3, Successor
  <2>3. CASE ~(reading' + 1 < SnoopBanks)
    <3>1. next_bank' = -1
      BY <2>1, <2>3
    <3> QED
      BY <3>1
  <2> QED
    BY <2>2, <2>3
<1>4. scan_ready' \in BOOLEAN /\ scan' \in [Modules -> BankSets]
  <2>1. [m \in Modules |-> IF m \in pending_module_ok' THEN pending'[m] ELSE {}]
          \in [Modules -> BankSets]
    BY HeardBanks DEF BankSets
  <2>2. CASE reading' + 1 = ReadBanks /\ PackModules \subseteq pending_module_ok'
    BY <2>1, <2>2 DEF InSequence
  <2>3. CASE ~(reading' + 1 = ReadBanks /\ PackModules \subseteq pending_module_ok')
    <3>1. scan_ready' = scan_ready /\ scan' = scan
      BY <2>3 DEF InSequence
    <3> QED
      BY <3>1 DEF AcquisitionInv, AcquisitionTypes
  <2> QED
    BY <2>2, <2>3
<1>5. AcquisitionTypes'
  <2>1. place' \in 0 .. ReadBanks /\ reading' \in -1 .. ReadBanks - 1 /\ jumped' \in BOOLEAN
    BY CycleTypes
  <2>2. pending_is_long' \in BOOLEAN
    BY DEF InSequence
  <2>3. pending_module_ok' \in SUBSET Modules /\ pending' \in [Modules -> BankSets]
    BY HeardBanks
  <2>4. lost' \in 0 .. ReadBanks
    OBVIOUS
  <2> QED
    BY <1>3, <1>4, <2>1, <2>2, <2>3, <2>4, OriginType DEF AcquisitionTypes
<1>6. MissedWithin' /\ MissedSince' /\ MissedAll'
  <2>1. reading' \in Int /\ next_bank' \in Int
    BY <1>1, <1>3
  <2>2. next_bank' >= 1 => place' - next_bank' = 0
    BY Zenon, <1>1, <1>3, <2>1, SamePlace
  <2> QED
    BY <1>2, <2>2 DEF MissedWithin, MissedSince, MissedAll
<1>7. BanksSoFar'
  <2>1. reading' \in Int /\ next_bank' \in Int
    BY <1>1, <1>3
  <2>2. next_bank' >= 1 => 0 .. next_bank' - 1 = 0 .. reading'
    BY Zenon, <1>1, <1>3, <2>1, SamePlace
  <2>3. \A m \in pending_module_ok' : pending'[m] = 0 .. reading'
    BY HeardBanks
  <2> QED
    BY <2>2, <2>3 DEF BanksSoFar
<1>8. ScanIsWhole
  <2>1. SUFFICES ASSUME ~scan_ready, scan_ready', NEW m \in PackModules
                 PROVE  scan'[m] = 0 .. ReadBanks - 1
    BY <1>2 DEF ScanIsWhole
  <2>2. /\ reading' + 1 = ReadBanks /\ PackModules \subseteq pending_module_ok'
        /\ scan' = [n \in Modules |-> IF n \in pending_module_ok' THEN pending'[n] ELSE {}]
    BY <2>1 DEF InSequence
  <2>3. scan'[m] = 0 .. reading'
    BY <2>2, HeardBanks
  <2>4. reading' \in Int
    BY <1>1
  <2>5. reading' = ReadBanks - 1
    BY Zenon, <1>1, <2>2, <2>4, SamePlace
  <2> QED
    BY <2>3, <2>5
<1> QED
  BY <1>5, <1>6, <1>7, <1>8 DEF AcquisitionInv

-------------------------------------------------------------------------------

\* Every step keeps the invariant, and a scan it completes is whole.
LEMMA AcquisitionSteps ==
  ASSUME AcquisitionInv, [AcquisitionNext]_acquisitionVars
  PROVE  AcquisitionInv' /\ ScanIsWhole
<1>1. CASE CycleNext /\ Origin /\ reading' = -1 /\ UNCHANGED << snoopVars, lost >>
  BY <1>1, QuietKeeps DEF ScanIsWhole, snoopVars
<1>2. CASE /\ CycleNext /\ Origin /\ reading' # -1 /\ lost' = OneMore(lost)
           /\ UNCHANGED snoopVars
  BY <1>2, MissKeeps DEF ScanIsWhole, snoopVars
<1>3. CASE /\ CycleNext /\ Origin /\ reading' # -1 /\ lost' = 0
           /\ \E good \in SUBSET Modules : Hear(reading', LongReads, good)
  <2>1. PICK good \in SUBSET Modules : Hear(reading', LongReads, good)
    BY <1>3
  <2> QED
    BY <1>3, <2>1, OutOfSequenceKeeps, InSequenceKeeps DEF Hear
<1>4. CASE TakeScan /\ UNCHANGED << cycleVars, lost, origin >>
  BY <1>4
  DEF TakeScan, cycleVars, AcquisitionInv, AcquisitionTypes, MissedWithin, MissedSince,
      MissedAll, BanksSoFar, ScanIsWhole
<1>5. CASE UNCHANGED acquisitionVars
  BY <1>5 DEF acquisitionVars, cycleVars, snoopVars, AcquisitionInv, AcquisitionTypes,
    MissedWithin, MissedSince, MissedAll, BanksSoFar, ScanIsWhole
<1> QED
  BY <1>1, <1>2, <1>3, <1>4, <1>5 DEF AcquisitionNext, Overhear

\* A scan that cell_snoop.c hands to the supervisor's decision is of one snapshot and
\* has every bank of every module of the pack, for any number of banks and modules and
\* whatever transfers are missed, unless slow mode came or went while it was put together
\* or a whole cycle's transfers were missed in a row: cell_snoop.c compares only the
\* numbers of banks.
THEOREM ScansAreOfOneSnapshot == AcquisitionSpec => ScansOfOneSnapshot
<1>1. AcquisitionInv /\ [AcquisitionNext]_acquisitionVars => AcquisitionInv'
  BY AcquisitionSteps
<1>2. AcquisitionInv /\ [AcquisitionNext]_acquisitionVars
        => [~scan_ready /\ scan_ready' =>
              /\ origin' # "older"
              /\ \A m \in PackModules : scan'[m] = 0 .. SnoopBanks - 1]_acquisitionVars
  BY AcquisitionSteps DEF ScanIsWhole
<1> QED
  BY AcquisitionStarts, <1>1, <1>2, PTL DEF AcquisitionSpec, ScansOfOneSnapshot

-------------------------------------------------------------------------------
(* The cell monitors read in such cycles.                                   *)

\* Quotient and remainder.
LEMMA Divided ==
  ASSUME NEW P \in Nat \ {0}, NEW p \in Nat
  PROVE  \E q \in Nat, r \in 0 .. P - 1 : p = P * q + r /\ p % P = r
<1>1. p = P * (p \div P) + (p % P) /\ p \div P \in Nat /\ p % P \in 0 .. P - 1
  OBVIOUS
<1> QED
  BY <1>1

LEMMA NoMultiple ==
  ASSUME NEW P \in Nat \ {0}, NEW d \in Int, P * d < P, -P < P * d
  PROVE  d = 0
OBVIOUS

LEMMA RemainderIsUnique ==
  ASSUME NEW P \in Nat \ {0}, NEW a \in Int, NEW b \in Int,
         NEW r \in 0 .. P - 1, NEW s \in 0 .. P - 1, P * a + r = P * b + s
  PROVE  r = s
<1>1. P * (a - b) = s - r
  OBVIOUS
<1>2. a - b = 0
  BY <1>1, NoMultiple
<1> QED
  BY <1>1, <1>2

LEMMA RemainderIs ==
  ASSUME NEW P \in Nat \ {0}, NEW p \in Nat, NEW a \in Int, NEW s \in 0 .. P - 1,
         p = P * a + s
  PROVE  p % P = s
<1>1. PICK q \in Nat, r \in 0 .. P - 1 : p = P * q + r /\ p % P = r
  BY Divided
<1>2. q \in Int /\ P * q + r = P * a + s
  BY <1>1
<1>3. r = s
  BY <1>2, RemainderIsUnique
<1> QED
  BY <1>1, <1>3

LEMMA StepGoesOn ==
  ASSUME NEW P \in Nat \ {0}, NEW p \in Nat, p % P # P - 1
  PROVE  (p + 1) % P = (p % P) + 1
<1>1. PICK q \in Nat, r \in 0 .. P - 1 : p = P * q + r /\ p % P = r
  BY Divided
<1>2. p + 1 \in Nat /\ q \in Int /\ r + 1 \in 0 .. P - 1 /\ p + 1 = P * q + (r + 1)
  BY <1>1
<1>3. (p + 1) % P = r + 1
  BY <1>2, RemainderIs
<1> QED
  BY <1>1, <1>3

LEMMA StepStartsAgain ==
  ASSUME NEW P \in Nat \ {0}, NEW p \in Nat, p % P = P - 1
  PROVE  (p + 1) % P = 0
<1>1. PICK q \in Nat, r \in 0 .. P - 1 : p = P * q + r /\ p % P = r
  BY Divided
<1>2. p + 1 \in Nat /\ q + 1 \in Int /\ 0 \in 0 .. P - 1 /\ p + 1 = P * (q + 1) + 0
  BY <1>1
<1> QED
  BY <1>2, RemainderIs

LEMMA LastOfPeriods ==
  ASSUME NEW P \in Nat \ {0}, NEW n \in Nat \ {0}, n % P = 0
  PROVE  (n - 1) % P = P - 1
<1>1. PICK q \in Nat, r \in 0 .. P - 1 : n = P * q + r /\ n % P = r
  BY Divided
<1>2. n - 1 \in Nat /\ q - 1 \in Int /\ P - 1 \in 0 .. P - 1 /\ n - 1 = P * (q - 1) + (P - 1)
  BY <1>1
<1> QED
  BY <1>2, RemainderIs

LEMMA SmallRemainder ==
  ASSUME NEW P \in Nat \ {0}, NEW p \in 0 .. P - 1
  PROVE  p % P = p
OBVIOUS

\* The phase is one of the slow period, and the bus carries at most a bank.
MonitorsTypes ==
  /\ phase \in 0 .. SlowPeriod - 1 /\ wants_slow \in BOOLEAN /\ switched \in BOOLEAN
  /\ bus \in -1 .. Banks - 1

\* Where in ReadCycle a step of the monitors is.
PlaceOf(step) == IF step = 2 THEN 0 ELSE IF step - 3 \in AllBanks THEN step - 3 ELSE Banks

LEMMA Periods ==
  /\ Banks \in Nat \ {0} /\ PauseCycle \in Nat /\ PauseCycle >= Banks + 5
  /\ \A slow \in BOOLEAN : Mask(slow) \in Nat \ {0} /\ Mask(slow) > PauseCycle
                             /\ SlowPeriod % Mask(slow) = 0
  /\ SlowPeriod \in Nat \ {0}
<1>1. SlowPeriod % SlowPeriod = 0
  <2>1. SlowPeriod \in Nat \ {0} /\ 1 \in Int /\ 0 \in 0 .. SlowPeriod - 1
           /\ SlowPeriod = SlowPeriod * 1 + 0
    BY CellMonitorsAssumption
  <2> QED
    BY <2>1, RemainderIs
<1> QED
  BY <1>1, CellMonitorsAssumption DEF Mask

\* The next tick of the phase takes the step one further, in either period.
LEMMA PhaseGoesOn ==
  ASSUME NEW p \in 0 .. SlowPeriod - 1, NEW slow \in BOOLEAN
  PROVE  LET next == (p + 1) % SlowPeriod
             step == p % Mask(slow)
         IN /\ next \in 0 .. SlowPeriod - 1
            /\ next % Mask(slow) = IF step = Mask(slow) - 1 THEN 0 ELSE step + 1
<1> DEFINE P == Mask(slow)
           next == (p + 1) % SlowPeriod
<1>1. P \in Nat \ {0} /\ SlowPeriod % P = 0 /\ SlowPeriod \in Nat \ {0}
  BY Periods
<1>2. CASE p = SlowPeriod - 1
  <2>1. p % SlowPeriod = SlowPeriod - 1
    BY <1>1, <1>2, SmallRemainder
  <2>2. next = 0
    BY <1>1, <1>2, <2>1, StepStartsAgain
  <2>3. p % P = P - 1
    BY <1>1, <1>2, LastOfPeriods
  <2>4. 0 % P = 0
    BY <1>1, SmallRemainder
  <2> QED
    BY <1>1, <2>2, <2>3, <2>4
<1>3. CASE p # SlowPeriod - 1
  <2>1. p + 1 \in 0 .. SlowPeriod - 1
    BY <1>1, <1>3
  <2>2. next = p + 1
    BY <1>1, <2>1, SmallRemainder
  <2>3. (p + 1) % P = IF p % P = P - 1 THEN 0 ELSE (p % P) + 1
    BY <1>1, StepGoesOn, StepStartsAgain
  <2> QED
    BY <2>1, <2>2, <2>3
<1> QED
  BY <1>2, <1>3

\* So does every tick, but for the pause cycle that is cut short.
LEMMA TickGoesOn ==
  ASSUME MonitorsTypes, Tick
  PROVE  /\ phase' \in 0 .. SlowPeriod - 1 /\ wants_slow' \in BOOLEAN
         /\ Step \in Nat
         /\ \/ phase' % Mask(wants_slow') = Step + 1
            \/ phase' % Mask(wants_slow') = 0 /\ Step >= PauseCycle
<1>1. phase \in 0 .. SlowPeriod - 1 /\ wants_slow' \in BOOLEAN /\ NextPhase
  BY DEF MonitorsTypes, Tick
<1>2. Mask(wants_slow') \in Nat \ {0} /\ Mask(wants_slow') > PauseCycle /\ PauseCycle \in Nat
        /\ SlowPeriod \in Nat \ {0}
  BY <1>1, Periods
<1>3. Step \in Nat
  BY <1>1, <1>2 DEF Step
<1>4. CASE CutsShort
  <2>1. phase' \in 0 .. SlowPeriod - 1 /\ (phase' = 0 \/ phase' % Period = 0)
    BY <1>1, <1>2, <1>4 DEF NextPhase
  <2>2. 0 % Mask(wants_slow') = 0
    BY <1>2, SmallRemainder
  <2>3. ~wants_slow' => Mask(wants_slow') = Period
    BY DEF Mask
  <2>4. wants_slow' => phase' = 0
    BY <1>1, <1>4 DEF NextPhase
  <2>5. phase' % Mask(wants_slow') = 0
    BY <2>1, <2>2, <2>3, <2>4
  <2>6. Step = PauseCycle
    BY <1>4 DEF CutsShort
  <2> QED
    BY <1>1, <1>2, <1>3, <2>1, <2>5, <2>6
<1>5. CASE ~CutsShort
  <2>1. phase' = (phase + 1) % SlowPeriod
    BY <1>1, <1>5 DEF NextPhase
  <2>2. /\ phase' \in 0 .. SlowPeriod - 1
        /\ phase' % Mask(wants_slow')
             = IF Step = Mask(wants_slow') - 1 THEN 0 ELSE Step + 1
    BY <1>1, <2>1, PhaseGoesOn DEF Step
  <2>3. Step = Mask(wants_slow') - 1 => Step >= PauseCycle
    BY <1>2
  <2> QED
    BY <1>1, <1>3, <2>2, <2>3
<1> QED
  BY <1>4, <1>5

\* What a tick puts on the bus.
LEMMA TickReads ==
  ASSUME MonitorsTypes, Tick
  PROVE  /\ bus' = IF Step - 3 \in AllBanks THEN Step - 3 ELSE -1
         /\ switched' = (wants_slow' # wants_slow \/ (switched /\ Step # 1))
<1>1. Step \in Nat
  BY TickGoesOn
<1>2. bus' = IF Step - 3 \in AllBanks THEN Step - 3 ELSE -1
  <2>1. CASE \E outcome \in {"good", "crc", "failed"} : ReadBank(outcome)
    BY <2>1 DEF ReadBank
  <2>2. CASE bus' = None /\ (Hello \/ Snapshot \/ Balance \/ ReadTemperatures
                               \/ EndSlowMode \/ Rest)
    <3>1. Step \in 0 .. 2 \/ Step = Banks + 3 \/ Step = Banks + 4 \/ Step >= PauseCycle
      BY <2>2 DEF Hello, Snapshot, Balance, ReadTemperatures, EndSlowMode, Rest
    <3>2. Step - 3 \notin 0 .. Banks - 1
      BY <1>1, <3>1, Periods
    <3> QED
      BY <2>2, <3>2 DEF None, AllBanks
  <2> QED
    BY <2>1, <2>2 DEF Tick, CycleStep
<1> QED
  BY <1>2 DEF Tick, Histories

\* A place and the step it stands for.
LEMMA PlaceSteps ==
  ASSUME NEW step \in Nat
  PROVE  /\ PlaceOf(step) \in 0 .. Banks
         /\ PlaceOf(2) = 0 /\ PlaceOf(0) = Banks /\ PlaceOf(1) = Banks
         /\ step - 3 \in AllBanks => PlaceOf(step) = step - 3 /\ PlaceOf(step + 1) = step - 2
         /\ step - 3 \notin AllBanks /\ step \notin {1, 2} =>
              PlaceOf(step) = Banks /\ PlaceOf(step + 1) = Banks
         /\ PlaceOf(1 + 1) = 0 /\ PlaceOf(2 + 1) = 0
         /\ step >= PauseCycle => step - 3 \notin AllBanks /\ step \notin {1, 2}
BY Periods DEF PlaceOf, AllBanks

MonitorsPlace == PlaceOf(phase % Mask(wants_slow))

LEMMA TickIsOfCycle ==
  ASSUME MonitorsTypes, Tick
  PROVE  MonitorsTypes' /\ Cycle!CycleNext
<1> DEFINE next == phase' % Mask(wants_slow')
<1>1. /\ phase' \in 0 .. SlowPeriod - 1 /\ wants_slow' \in BOOLEAN /\ Step \in Nat
      /\ next = Step + 1 \/ (next = 0 /\ Step >= PauseCycle)
      /\ bus' = IF Step - 3 \in AllBanks THEN Step - 3 ELSE -1
      /\ switched' = (wants_slow' # wants_slow \/ (switched /\ Step # 1))
  BY TickGoesOn, TickReads
<1>2. MonitorsTypes'
  BY <1>1, Periods DEF MonitorsTypes, AllBanks
<1>3. MonitorsPlace' = PlaceOf(next)
  BY DEF MonitorsPlace, PlaceOf, Mask
<1>4. Cycle!CycleNext
  <2>1. CASE wants_slow' # wants_slow
    <3>1. MonitorsPlace' \in 0 .. Banks
      BY <1>1, <1>3, PlaceSteps, Periods
    <3>2. bus' \in -1 .. Banks - 1 /\ (bus' = -1 \/ MonitorsPlace' - bus' = 1)
      BY <1>1, <1>2, <1>3, PlaceSteps DEF MonitorsTypes
    <3> QED
      BY <1>1, <2>1, <3>1, <3>2 DEF Cycle!CycleNext, Cycle!Jump, MonitorsPlace, PlaceOf
  <2>2. CASE wants_slow' = wants_slow
    <3>1. MonitorsPlace = PlaceOf(Step)
      BY <2>2 DEF MonitorsPlace, Step
    <3>2. CASE Step = 1
      <4>1. next = 2 /\ Step - 3 \notin AllBanks
        BY <1>1, <3>2, Periods DEF AllBanks
      <4>2. MonitorsPlace = Banks /\ MonitorsPlace' = 0
        BY <1>1, <1>3, <3>1, <3>2, <4>1, PlaceSteps
      <4>3. bus' = -1 /\ switched' = FALSE
        BY <1>1, <2>2, <3>2, <4>1
      <4> QED
        BY <4>2, <4>3 DEF Cycle!CycleNext, Cycle!TakeSnapshot, MonitorsPlace, PlaceOf
    <3>3. CASE Step = 2
      <4>1. MonitorsPlace = 0 /\ MonitorsPlace' = 0 /\ bus' = -1 /\ switched' = switched
        BY <1>1, <1>3, <2>2, <3>1, <3>3, PlaceSteps, Periods DEF AllBanks, MonitorsTypes
      <4> QED
        BY <4>1 DEF Cycle!CycleNext, Cycle!ReadEnds, MonitorsPlace, PlaceOf
    <3>4. CASE Step - 3 \in AllBanks
      <4>1. /\ MonitorsPlace < Banks /\ bus' = MonitorsPlace
            /\ MonitorsPlace' = MonitorsPlace + 1 /\ switched' = switched
        BY <1>1, <1>3, <2>2, <3>1, <3>4, PlaceSteps, Periods DEF AllBanks, MonitorsTypes
      <4> QED
        BY <4>1 DEF Cycle!CycleNext, Cycle!Read, MonitorsPlace, PlaceOf
    <3>5. CASE Step - 3 \notin AllBanks /\ Step \notin {1, 2}
      <4>1. MonitorsPlace = Banks /\ MonitorsPlace' = Banks /\ bus' = -1 /\ switched' = switched
        BY <1>1, <1>3, <2>2, <3>1, <3>5, PlaceSteps DEF MonitorsTypes
      <4> QED
        BY <4>1 DEF Cycle!CycleNext, Cycle!ReadEnds, MonitorsPlace, PlaceOf
    <3> QED
      BY <3>2, <3>3, <3>4, <3>5
  <2> QED
    BY <2>1, <2>2
<1> QED
  BY <1>2, <1>4

LEMMA MonitorsStart == MonitorsInit => MonitorsTypes /\ Cycle!CycleInit
<1> SUFFICES ASSUME MonitorsInit
             PROVE  MonitorsTypes /\ Cycle!CycleInit
  OBVIOUS
<1>1. phase = SlowPeriod - 1 /\ wants_slow = FALSE /\ switched = FALSE /\ bus = -1
  BY DEF MonitorsInit, None
<1>2. phase % Mask(wants_slow) = Mask(wants_slow) - 1
  BY <1>1, Periods, LastOfPeriods
<1>3. Mask(wants_slow) - 1 \in Nat /\ Mask(wants_slow) - 1 >= PauseCycle
  <2>1. /\ Mask(wants_slow) \in Nat \ {0} /\ Mask(wants_slow) > PauseCycle
        /\ PauseCycle \in Nat
    BY <1>1, Periods
  <2> QED
    BY <2>1
<1>4. MonitorsPlace = Banks
  <2> DEFINE step == Mask(wants_slow) - 1
  <2>1. step - 3 \notin AllBanks /\ step \notin {1, 2}
    BY <1>3, PlaceSteps
  <2>2. PlaceOf(step) = Banks
    BY <1>3, <2>1, PlaceSteps
  <2> QED
    BY <1>2, <2>2 DEF MonitorsPlace
<1>5. phase \in 0 .. SlowPeriod - 1 /\ bus \in -1 .. Banks - 1
  BY <1>1, Periods
<1>6. MonitorsTypes
  BY <1>1, <1>5 DEF MonitorsTypes
<1> QED
  BY <1>1, <1>4, <1>6 DEF Cycle!CycleInit, MonitorsPlace, PlaceOf

\* ReadsInCycles.
\* The driver of the cell monitors implements ReadCycle for any periods and any number
\* of banks: whatever is read badly, balanced or cut short, the transfers on the bus are
\* a snapshot and its banks in order, unless slow mode comes or goes (bmb3y.c).
THEOREM MonitorsReadInCycles == MonitorsSpec => ReadsInCycles
<1>1. MonitorsInit => MonitorsTypes /\ Cycle!CycleInit
  BY MonitorsStart
<1>2. MonitorsTypes /\ [MonitorsNext]_monitorVars
        => MonitorsTypes' /\ [Cycle!CycleNext]_(Cycle!cycleVars)
  <2> SUFFICES ASSUME MonitorsTypes, [MonitorsNext]_monitorVars
               PROVE  MonitorsTypes' /\ [Cycle!CycleNext]_(Cycle!cycleVars)
    OBVIOUS
  <2>1. CASE Tick
    BY <2>1, TickIsOfCycle
  <2>2. CASE StoppedTick \/ UNCHANGED monitorVars
    <3>1. UNCHANGED << phase, wants_slow, switched, bus >>
      BY <2>2 DEF StoppedTick, monitorVars, conditions
    <3> QED
      BY <3>1 DEF MonitorsTypes, Cycle!cycleVars, Mask
  <2> QED
    BY <2>1, <2>2 DEF MonitorsNext
<1> QED
  BY <1>1, <1>2, PTL DEF MonitorsSpec, ReadsInCycles, Cycle!CycleSpec

-------------------------------------------------------------------------------
(* What they stamp is whole.                                                *)

\* The monitors discharge what they were last told to, and a snapshot is quiet just if
\* its readings are to be stored.
MasksAgree == discharging = balance_request /\ quiet = ~balancing_active

\* Up to the bank that is read next all have been stored, unless something hindered it.
\* (In the step before the first bank crc_failed is still that of the last cycle.)
StoredSoFar ==
  ~switched /\ MonitorsPlace < Banks
      /\ (phase % Mask(wants_slow) = 2 \/ (~crc_failed /\ ~balancing_active))
    => stored = 0 .. MonitorsPlace - 1

StampInv == MonitorsTypes /\ MasksAgree /\ StoredSoFar

StampIsGood == Tick /\ Stamps /\ ~switched' => stored' = AllBanks /\ quiet

LEMMA MasksKeep ==
  ASSUME MasksAgree, Tick
  PROVE  MasksAgree'
<1>1. CASE Snapshot
  BY <1>1 DEF Snapshot, MasksAgree, balancingVars
<1>2. CASE Balance
  BY <1>2 DEF Balance, MasksAgree
<1>3. CASE Hello \/ ReadTemperatures
  BY <1>3 DEF Hello, ReadTemperatures, MasksAgree, monitorOwn, balancingVars
<1>4. CASE EndSlowMode \/ Rest
  BY <1>4 DEF EndSlowMode, Rest, MasksAgree, balancingVars
<1>5. CASE \E outcome \in {"good", "crc", "failed"} : ReadBank(outcome)
  BY <1>5 DEF ReadBank, MasksAgree, balancingVars
<1> QED
  BY <1>1, <1>2, <1>3, <1>4, <1>5 DEF Tick, CycleStep

LEMMA StoredKeeps ==
  ASSUME StampInv, Tick
  PROVE  StoredSoFar' /\ StampIsGood
<1> DEFINE next == phase' % Mask(wants_slow')
<1>0. ~switched' => wants_slow' = wants_slow /\ (Step # 1 => ~switched)
  BY TickReads, Zenon DEF StampInv
<1>1. /\ Step \in Nat
      /\ next = Step + 1 \/ (next = 0 /\ Step >= PauseCycle)
  BY TickGoesOn DEF StampInv
<1>2. MonitorsPlace' = PlaceOf(next)
  BY DEF MonitorsPlace, PlaceOf, Mask
<1>3. next = (phase % Mask(wants_slow))'
  BY DEF Mask
<1>4. wants_slow' = wants_slow => Step = phase % Mask(wants_slow) /\ MonitorsPlace = PlaceOf(Step)
  BY DEF Step, MonitorsPlace
<1>5. Banks \in Nat \ {0} /\ PauseCycle \in Nat /\ PauseCycle >= Banks + 5
  BY Periods
<1>6. CASE Step = 1
  <2>1. next = 2 /\ PlaceOf(next) = 0
    BY <1>1, <1>5, <1>6, PlaceSteps
  <2>2. stored' = {}
    BY <1>1, <1>5, <1>6 DEF Tick, CycleStep, Hello, Snapshot, Balance, ReadTemperatures,
      EndSlowMode, Rest, ReadBank, AllBanks
  <2>3. 0 .. 0 - 1 = {}
    OBVIOUS
  <2>4. StoredSoFar'
    BY <1>2, <2>1, <2>2, <2>3 DEF StoredSoFar
  <2> QED
    BY <1>5, <1>6, <2>4 DEF StampIsGood, Stamps
<1>7. CASE Step = 2
  <2>1. next = 3 /\ PlaceOf(next) = 0 /\ PlaceOf(Step) = 0
    BY <1>1, <1>5, <1>7, PlaceSteps
  <2>2. UNCHANGED stored
    BY <1>1, <1>5, <1>7 DEF Tick, CycleStep, Hello, Snapshot, Balance, ReadTemperatures,
      EndSlowMode, Rest, ReadBank, AllBanks
  <2>3. ~switched' => MonitorsPlace = 0 /\ ~switched /\ phase % Mask(wants_slow) = 2
    BY <1>0, <1>4, <1>7, <2>1
  <2>4. StoredSoFar'
    BY <1>2, <1>5, <2>1, <2>2, <2>3 DEF StoredSoFar, StampInv
  <2> QED
    BY <1>5, <1>7, <2>4 DEF StampIsGood, Stamps
<1>8. CASE Step - 3 \in AllBanks
  <2>1. PICK outcome \in {"good", "crc", "failed"} : ReadBank(outcome)
    BY <1>1, <1>5, <1>8 DEF Tick, CycleStep, Hello, Snapshot, Balance, ReadTemperatures,
      EndSlowMode, Rest, AllBanks
  <2>2. /\ next = Step + 1 /\ Step \in Nat /\ Step >= 3 /\ Step - 3 < Banks
        /\ PlaceOf(Step) = Step - 3 /\ PlaceOf(next) = Step - 2
    BY <1>1, <1>5, <1>8, PlaceSteps DEF AllBanks
  <2>3. ~crc_failed' /\ ~balancing_active' /\ ~switched'
          => stored' = 0 .. Step - 3 /\ ~balancing_active
    <3> SUFFICES ASSUME ~crc_failed', ~balancing_active', ~switched'
                 PROVE  stored' = 0 .. Step - 3 /\ ~balancing_active
      OBVIOUS
    <3>1. /\ ~crc_failed /\ outcome = "good" /\ ~balancing_active
          /\ stored' = stored \union {Step - 3}
      BY <2>1 DEF ReadBank
    <3>2. ~switched /\ MonitorsPlace = Step - 3
      BY <1>0, <1>4, <2>2
    <3>3. stored = 0 .. Step - 3 - 1
      BY <2>2, <3>1, <3>2 DEF StampInv, StoredSoFar
    <3> QED
      BY <2>2, <3>1, <3>3
  <2>4. next # 2 /\ Step - 2 - 1 = Step - 3
    BY <2>2
  <2>5. StoredSoFar'
    BY <1>2, <1>3, <2>2, <2>3, <2>4 DEF StoredSoFar
  <2>6. StampIsGood
    <3> SUFFICES ASSUME Step = Banks + 2, ~crc_failed', ~balancing_active, ~switched'
                 PROVE  stored' = AllBanks /\ quiet
      BY DEF StampIsGood, Stamps
    <3>1. balancing_active' = balancing_active
      BY <2>1 DEF ReadBank
    <3>2. Step - 3 = Banks - 1
      BY <1>5
    <3> QED
      BY <2>3, <3>1, <3>2 DEF StampInv, MasksAgree, AllBanks
  <2> QED
    BY <2>5, <2>6
<1>9. CASE Step - 3 \notin AllBanks /\ Step \notin {1, 2}
  <2>1. PlaceOf(next) = Banks
    BY <1>1, <1>9, PlaceSteps
  <2>2. StoredSoFar'
    BY <1>2, <1>5, <2>1 DEF StoredSoFar
  <2>3. Step # Banks + 2
    BY <1>5, <1>9 DEF AllBanks
  <2> QED
    BY <2>2, <2>3 DEF StampIsGood, Stamps
<1> QED
  BY <1>6, <1>7, <1>8, <1>9

\* A full read is stamped only if all its banks were stored and no cell was discharging
\* at its snapshot, for any periods and any number of banks and cells (bmb3y.c,
\* balancing.c).
THEOREM StampsAreGood == MonitorsSpec => StampedReadingsAreGood
<1>1. MonitorsInit => StampInv
  <2> SUFFICES ASSUME MonitorsInit
               PROVE  StampInv
    OBVIOUS
  <2>1. MonitorsTypes /\ MonitorsPlace = Banks
    BY MonitorsStart DEF Cycle!CycleInit, MonitorsPlace, PlaceOf
  <2>2. MasksAgree
    BY DEF MonitorsInit, BalancingInit, MasksAgree
  <2>3. StoredSoFar
    BY <2>1, Periods DEF StoredSoFar
  <2> QED
    BY <2>1, <2>2, <2>3 DEF StampInv
<1>2. StampInv /\ [MonitorsNext]_monitorVars => StampInv'
  <2> SUFFICES ASSUME StampInv, [MonitorsNext]_monitorVars
               PROVE  StampInv'
    OBVIOUS
  <2>1. CASE Tick
    BY <2>1, TickIsOfCycle, MasksKeep, StoredKeeps DEF StampInv
  <2>2. CASE StoppedTick \/ UNCHANGED monitorVars
    BY <2>2 DEF StoppedTick, monitorVars, conditions, monitorOwn, balancingVars, StampInv,
      MonitorsTypes, MasksAgree, StoredSoFar, MonitorsPlace, PlaceOf, Mask
  <2> QED
    BY <2>1, <2>2 DEF MonitorsNext
<1>3. StampInv /\ [MonitorsNext]_monitorVars
        => [(Tick /\ Stamps /\ ~switched') => (stored' = AllBanks /\ quiet)]_monitorVars
  BY StoredKeeps DEF StampIsGood
<1> QED
  BY <1>1, <1>2, <1>3, PTL DEF MonitorsSpec, StampedReadingsAreGood
-------------------------------------------------------------------------------
(***************************************************************************)
(* Balancing leaves readings.  From any step of an undisturbed cycle the    *)
(* next full read is at most Due ticks away: in this cycle if nothing was   *)
(* discharged at its snapshot, and otherwise in the first one that begins   *)
(* with no request, which a pause or the end of the session brings about.   *)
(***************************************************************************)

\* From the start of a cycle that balances to the one after the next pause.
Ahead(count) == (PauseAfter - count + 1) * Period

\* From the start of the next cycle to its read, or to that of a later one.
DueFromStart == (IF balance_request = {} THEN 0 ELSE Ahead(pause_counter)) + Banks + 2

Due(step) ==
  IF step <= 2 THEN DueFromStart - step
  ELSE IF step <= Banks + 2 /\ ~balancing_active THEN Banks + 2 - step
  ELSE Period - step + DueFromStart

BalancingTypes ==
  /\ balancing_state \in {"IDLE", "ACTIVE"} /\ pause_counter \in 0 .. PauseAfter
  /\ balancing_active \in BOOLEAN /\ unstamped \in Nat

IdleAsksNothing == balancing_state = "IDLE" => balance_request = {}

\* The readings of a cycle are those of what was asked for at its snapshot, and a session
\* that goes on is past its first cycle.
CycleIsOfRequest ==
  ~switched /\ ~wants_slow =>
    LET step == phase % Period IN
    /\ step = 2 /\ balancing_active => balance_request # {}
    /\ step = 2 /\ balance_request # {} => balancing_active
    /\ step >= 3 /\ balancing_active => balance_request = {} \/ pause_counter >= 1

ReadIsDue ==
  unstamped > 0 =>
    ~switched /\ ~wants_slow /\ unstamped + Due(phase % Period) <= LongestUnstamped

LeaveInv ==
  MonitorsTypes /\ BalancingTypes /\ IdleAsksNothing /\ CycleIsOfRequest /\ ReadIsDue

LEMMA AheadIs ==
  ASSUME NEW count \in 0 .. PauseAfter
  PROVE  /\ Ahead(count) \in Nat /\ Ahead(0) \in Nat
         /\ Ahead(count) >= Period /\ Ahead(count) <= Ahead(0)
         /\ count # PauseAfter => Ahead(count) = Ahead(count + 1) + Period
         /\ count >= 1 => Ahead(count) <= Ahead(0) - Period
         /\ LongestUnstamped = Ahead(0) + Period - 1
<1> USE BalancingAssumption, CellMonitorsAssumption DEF Ahead
<1>1. PauseAfter \in Nat /\ Period \in Nat
  OBVIOUS
<1>2. \A n \in Nat : n * Period \in Nat /\ (n + 1) * Period = n * Period + Period
  BY <1>1
<1>3. PICK n \in Nat : n = PauseAfter - count
  OBVIOUS
<1>4. n * Period \in Nat /\ Ahead(count) = n * Period + Period
  BY <1>2, <1>3
<1>5. count * Period \in Nat /\ Ahead(0) = Ahead(count) + count * Period
  BY <1>1, <1>3, <1>4
<1>6. count >= 1 => count * Period >= Period
  <2> SUFFICES ASSUME count >= 1 PROVE count * Period >= Period
    OBVIOUS
  <2>1. PICK k \in Nat : count = k + 1
    <3>1. count - 1 \in Nat /\ count = (count - 1) + 1
      OBVIOUS
    <3> QED
      BY <3>1
  <2>2. k * Period \in Nat /\ count * Period = k * Period + Period
    BY <1>2, <2>1
  <2> QED
    BY <1>1, <2>2
<1>7. count # PauseAfter => Ahead(count) = Ahead(count + 1) + Period
  BY <1>1, <1>3
<1>8. LongestUnstamped = Ahead(0) + Period - 1
  BY <1>1 DEF LongestUnstamped
<1> HIDE DEF Ahead
<1> QED
  BY <1>1, <1>4, <1>5, <1>6, <1>7, <1>8

LEMMA LeaveStarts == MonitorsInit => LeaveInv
<1> SUFFICES ASSUME MonitorsInit PROVE LeaveInv
  OBVIOUS
<1>1. MonitorsTypes
  BY MonitorsStart
<1>2. BalancingTypes
  <2>1. PauseAfter \in Nat
    BY BalancingAssumption
  <2>2. balancing_active \in BOOLEAN
    BY DEF MonitorsInit
  <2>3. balancing_state = "IDLE" /\ pause_counter = 0 /\ unstamped = 0
    BY DEF MonitorsInit, BalancingInit
  <2> QED
    BY <2>1, <2>2, <2>3 DEF BalancingTypes
<1>3. IdleAsksNothing /\ CycleIsOfRequest
  BY DEF MonitorsInit, BalancingInit, IdleAsksNothing, CycleIsOfRequest
<1>4. ReadIsDue
  BY DEF MonitorsInit, ReadIsDue
<1> QED
  BY <1>1, <1>2, <1>3, <1>4 DEF LeaveInv

\* What the steps of a cycle do with what is asked for.
LEMMA BalancingTickKeeps ==
  ASSUME BalancingTypes, IdleAsksNothing, NEW good \in BOOLEAN, BalancingTick(good)
  PROVE  /\ balancing_state' \in {"IDLE", "ACTIVE"} /\ pause_counter' \in 0 .. PauseAfter
         /\ IdleAsksNothing'
         /\ balance_request # {} =>
              \/ balance_request' = {}
              \/ pause_counter # PauseAfter /\ pause_counter' = pause_counter + 1
<1> USE BalancingAssumption DEF BalancingTypes, IdleAsksNothing
<1>1. CASE StayIdle
  BY <1>1 DEF StayIdle
<1>2. CASE \E times \in [Cells -> 0 .. MaxTime] : StartBalancing(times)
  BY <1>2 DEF StartBalancing
<1>3. CASE StopBalancing
  BY <1>3 DEF StopBalancing
<1>4. CASE PauseBalancing
  BY <1>4 DEF PauseBalancing
<1>5. CASE ContinueBalancing
  BY <1>5 DEF ContinueBalancing
<1> QED
  BY <1>1, <1>2, <1>3, <1>4, <1>5 DEF BalancingTick

LEMMA CycleKeepsRequests ==
  ASSUME LeaveInv, Tick
  PROVE  /\ BalancingTypes' /\ IdleAsksNothing'
         /\ Step = 1 => /\ UNCHANGED balancingVars
                        /\ balancing_active' <=> balance_request # {}
         /\ Step # 1 => UNCHANGED balancing_active
         /\ Step # 2 => UNCHANGED balancingVars
         /\ Step = 2 /\ balance_request # {} =>
              \/ balance_request' = {}
              \/ pause_counter # PauseAfter /\ pause_counter' = pause_counter + 1
<1> USE DEF LeaveInv
<1>1. Step \in Nat /\ Banks \in Nat \ {0} /\ PauseCycle \in Nat /\ PauseCycle >= Banks + 5
  BY TickGoesOn, Periods
<1>2. unstamped' \in Nat
  BY DEF Tick, Histories, Counted, BalancingTypes
<1>3. CASE Step = 1
  <2>1. Snapshot
    BY <1>1, <1>3 DEF Tick, CycleStep, Hello, Balance, ReadTemperatures, EndSlowMode, Rest,
      ReadBank, AllBanks
  <2>2. UNCHANGED balancingVars /\ balancing_active' = (balance_request # {})
    BY <2>1 DEF Snapshot
  <2>3. balancing_active' \in BOOLEAN /\ (balancing_active' <=> balance_request # {})
    BY <2>2
  <2>4. BalancingTypes' /\ IdleAsksNothing'
    BY <1>2, <2>2, <2>3 DEF balancingVars, BalancingTypes, IdleAsksNothing
  <2> QED
    BY <1>3, <2>2, <2>3, <2>4
<1>4. CASE Step = 2
  <2>1. Balance
    BY <1>1, <1>4 DEF Tick, CycleStep, Hello, Snapshot, ReadTemperatures, EndSlowMode, Rest,
      ReadBank, AllBanks
  <2>2. PICK good \in BOOLEAN : BalancingTick(good)
    <3>1. PICK fine \in BOOLEAN : BalancingTick(fine /\ ~slow_mode')
      BY <2>1 DEF Balance
    <3> QED
      BY <3>1, Zenon
  <2>3. UNCHANGED balancing_active
    BY <2>1 DEF Balance
  <2> QED
    BY <1>2, <1>4, <2>2, <2>3, BalancingTickKeeps DEF BalancingTypes
<1>5. CASE Step \notin {1, 2}
  <2>1. UNCHANGED balancingVars /\ UNCHANGED balancing_active
    BY <1>5 DEF Tick, CycleStep, Hello, Snapshot, Balance, ReadTemperatures, EndSlowMode, Rest,
      ReadBank, monitorOwn
  <2> QED
    BY <1>2, <1>5, <2>1 DEF balancingVars, BalancingTypes, IdleAsksNothing
<1> QED
  BY <1>3, <1>4, <1>5

\* Where an undisturbed tick leads.
LEMMA UndisturbedTick ==
  ASSUME MonitorsTypes, Tick, ~switched', ~wants_slow'
  PROVE  /\ ~wants_slow /\ (Step # 1 => ~switched)
         /\ Step = phase % Period /\ Step \in 0 .. Period - 1
         /\ \E n \in 0 .. Period - 1 :
              /\ n = (phase % Period)'
              /\ n = Step + 1 \/ (n = 0 /\ Step >= PauseCycle)
<1>1. Mask(wants_slow') = Period
  BY DEF Mask
<1>2. wants_slow' = wants_slow /\ (Step # 1 => ~switched)
  BY TickReads, Zenon
<1>3. Step = phase % Period
  BY <1>1 DEF Step
<1>4. Period \in Nat \ {0} /\ SlowPeriod \in Nat
  BY CellMonitorsAssumption
<1>5. Step \in 0 .. Period - 1
  BY <1>3, <1>4 DEF MonitorsTypes
<1>6. /\ phase' \in 0 .. SlowPeriod - 1
      /\ phase' % Period = Step + 1 \/ (phase' % Period = 0 /\ Step >= PauseCycle)
  BY <1>1, TickGoesOn
<1>7. phase' % Period \in 0 .. Period - 1
  <2>1. PICK p \in Nat : p = phase'
    BY <1>4, <1>6
  <2>2. p % Period \in 0 .. Period - 1
    BY <1>4
  <2> QED
    BY <2>1, <2>2
<1> QED
  BY <1>2, <1>3, <1>5, <1>6, <1>7

LEMMA CycleOfRequestKeeps ==
  ASSUME LeaveInv, Tick, ~switched', ~wants_slow', NEW n \in Nat, n = (phase % Period)'
  PROVE  /\ n = 2 /\ balancing_active' => balance_request' # {}
         /\ n = 2 /\ balance_request' # {} => balancing_active'
         /\ n >= 3 /\ balancing_active' => balance_request' = {} \/ pause_counter' >= 1
<1> USE DEF LeaveInv
<1>1. /\ ~wants_slow /\ (Step # 1 => ~switched) /\ Step = phase % Period
      /\ Step \in 0 .. Period - 1
      /\ n = Step + 1 \/ (n = 0 /\ Step >= PauseCycle)
  BY UndisturbedTick
<1>2. Banks \in Nat \ {0} /\ PauseCycle \in Nat /\ PauseCycle >= Banks + 5 /\ Period \in Nat
  BY CellMonitorsAssumption
<1>3. CASE Step = 1
  <2>1. n = 2
    BY <1>1, <1>2, <1>3
  <2> QED
    BY <1>3, <2>1, CycleKeepsRequests DEF balancingVars
<1>4. CASE Step = 2
  <2>1. n = 3
    BY <1>1, <1>2, <1>4
  <2>2. balancing_active => balance_request # {}
    BY <1>1, <1>4 DEF CycleIsOfRequest
  <2>3. balance_request # {} =>
          balance_request' = {} \/ pause_counter' = pause_counter + 1
    BY <1>4, CycleKeepsRequests
  <2>4. balancing_active' = balancing_active
    BY <1>4, CycleKeepsRequests
  <2> QED
    BY <2>1, <2>2, <2>3, <2>4 DEF BalancingTypes
<1>5. CASE Step >= 3
  <2>1. n # 2 /\ UNCHANGED << balancing_active, balance_request, pause_counter >>
    BY <1>1, <1>2, <1>5, CycleKeepsRequests DEF balancingVars
  <2>2. balancing_active => balance_request = {} \/ pause_counter >= 1
    BY <1>1, <1>5 DEF CycleIsOfRequest
  <2> QED
    BY <2>1, <2>2
<1>6. CASE Step = 0
  <2>1. n = 1
    BY <1>1, <1>2, <1>6
  <2> QED
    BY <2>1
<1> QED
  BY <1>1, <1>3, <1>4, <1>5, <1>6

\* The read comes nearer with every undisturbed tick, and is never further away than
\* the bound has it.
LEMMA ReadComesNearer ==
  ASSUME LeaveInv, Tick, ~switched', ~wants_slow', ~crc_failed', ~Stamps,
         NEW n \in Nat, n = (phase % Period)'
  PROVE  /\ Due(n)' \in Nat /\ Due(n)' <= LongestUnstamped - 1
         /\ Due(phase % Period) \in Nat /\ Due(n)' <= Due(phase % Period) - 1
<1> USE DEF LeaveInv
<1>1. /\ ~wants_slow /\ (Step # 1 => ~switched) /\ Step = phase % Period
      /\ Step \in 0 .. Period - 1 /\ n <= Period - 1
      /\ n = Step + 1 \/ (n = 0 /\ Step >= PauseCycle)
  BY UndisturbedTick
<1>2. /\ Banks \in Nat \ {0} /\ PauseCycle \in Nat /\ PauseCycle >= Banks + 5
      /\ Period \in Nat /\ Period > PauseCycle
  BY CellMonitorsAssumption
<1>3. PICK s \in Nat : s = Step /\ s <= Period - 1
  BY <1>1, <1>2
<1>4. PICK a \in Nat, top \in Nat :
        /\ a = Ahead(pause_counter) /\ a >= Period /\ a <= top
        /\ pause_counter # PauseAfter => a = Ahead(pause_counter + 1) + Period
        /\ pause_counter >= 1 => a <= top - Period
        /\ LongestUnstamped = top + Period - 1
  BY AheadIs DEF BalancingTypes
<1>5. PICK b \in Nat : b = Ahead(pause_counter') /\ b <= top
                         /\ (pause_counter' >= 1 => b <= top - Period)
  <2>1. PICK p \in 0 .. PauseAfter : p = pause_counter'
    BY CycleKeepsRequests DEF BalancingTypes
  <2>2. /\ Ahead(p) \in Nat /\ Ahead(0) \in Nat /\ Ahead(p) <= Ahead(0)
        /\ p >= 1 => Ahead(p) <= Ahead(0) - Period
        /\ LongestUnstamped = Ahead(0) + Period - 1
    BY AheadIs
  <2>3. Ahead(0) = top
    BY <1>2, <1>4, <2>2
  <2> QED
    BY <2>1, <2>2, <2>3
<1>6. PICK d \in Nat :
        /\ d = DueFromStart
        /\ balance_request = {} => d = Banks + 2
        /\ balance_request # {} => d = a + Banks + 2
  BY <1>2, <1>4 DEF DueFromStart
<1>7. PICK e \in Nat :
        /\ e = DueFromStart'
        /\ balance_request' = {} => e = Banks + 2
        /\ balance_request' # {} => e = b + Banks + 2
  BY <1>2, <1>5 DEF DueFromStart, Ahead
<1>8. Due(s) = IF s <= 2 THEN d - s
               ELSE IF s <= Banks + 2 /\ ~balancing_active THEN Banks + 2 - s
               ELSE Period - s + d
  BY <1>6 DEF Due
<1>9. Due(n)' = IF n <= 2 THEN e - n
                ELSE IF n <= Banks + 2 /\ ~balancing_active' THEN Banks + 2 - n
                ELSE Period - n + e
  BY <1>7 DEF Due
<1> HIDE DEF LeaveInv
<1>10. CASE s <= 1
  <2>1. UNCHANGED << balance_request, pause_counter >> /\ n = s + 1
    BY <1>1, <1>2, <1>3, <1>10, CycleKeepsRequests DEF balancingVars
  <2>2. e = d
    BY <1>4, <1>5, <1>6, <1>7, <2>1
  <2> QED
    BY <1>1, <1>2, <1>3, <1>4, <1>6, <1>8, <1>9, <1>10, <2>1, <2>2
<1>11. CASE s = 2
  <2>1. n = 3 /\ balancing_active' = balancing_active
    BY <1>1, <1>2, <1>3, <1>11, CycleKeepsRequests
  <2>2. CASE ~balancing_active
    <3>1. balance_request = {}
      BY <1>1, <1>3, <1>11, <2>2 DEF CycleIsOfRequest, LeaveInv
    <3> QED
      BY <1>1, <1>2, <1>3, <1>4, <1>6, <1>8, <1>9, <1>11, <2>1, <2>2, <3>1
  <2>3. CASE balancing_active
    <3>1. balance_request # {}
      BY <1>1, <1>3, <1>11, <2>3 DEF CycleIsOfRequest, LeaveInv
    <3>2. \/ balance_request' = {}
          \/ pause_counter # PauseAfter /\ pause_counter' = pause_counter + 1
      BY <1>1, <1>3, <1>11, <3>1, CycleKeepsRequests
    <3>3. e <= a - Period + Banks + 2
      <4>1. CASE balance_request' = {}
        BY <1>2, <1>4, <1>7, <4>1
      <4>2. CASE balance_request' # {}
        <5>1. a = b + Period
          BY <1>4, <1>5, <3>2, <4>2
        <5> QED
          BY <1>2, <1>7, <4>2, <5>1
      <4> QED
        BY <4>1, <4>2
    <3> QED
      BY <1>1, <1>2, <1>3, <1>4, <1>6, <1>8, <1>9, <1>11, <2>1, <2>3, <3>1, <3>3
  <2> QED
    BY <2>2, <2>3
<1>12. CASE s >= 3
  <2>1. UNCHANGED << balance_request, pause_counter, balancing_active >>
    BY <1>1, <1>3, <1>12, CycleKeepsRequests DEF balancingVars
  <2>2. e = d
    BY <1>4, <1>5, <1>6, <1>7, <2>1
  <2>3. balancing_active => d <= top - Period + Banks + 2
    <3> SUFFICES ASSUME balancing_active PROVE d <= top - Period + Banks + 2
      OBVIOUS
    <3>1. balance_request = {} \/ pause_counter >= 1
      BY <1>1, <1>3, <1>12 DEF CycleIsOfRequest, LeaveInv
    <3> QED
      BY <1>2, <1>4, <1>6, <3>1
  <2>4. d <= top + Banks + 2
    BY <1>2, <1>4, <1>6
  <2>5. s = Banks + 2 => balancing_active
    BY <1>3 DEF Stamps
  <2>6. d >= Banks + 2
    BY <1>2, <1>4, <1>6
  <2>7. CASE n = 0
    BY <1>1, <1>2, <1>3, <1>4, <1>8, <1>9, <1>12, <2>2, <2>4, <2>6, <2>7
  <2>8. CASE n = s + 1 /\ balancing_active
    BY <1>1, <1>2, <1>3, <1>4, <1>8, <1>9, <1>12, <2>1, <2>2, <2>3, <2>6, <2>8
  <2>9. CASE n = s + 1 /\ ~balancing_active
    BY <1>1, <1>2, <1>3, <1>4, <1>8, <1>9, <1>12, <2>1, <2>2, <2>4, <2>5, <2>6, <2>9
  <2> QED
    BY <1>1, <1>3, <2>7, <2>8, <2>9
<1> QED
  BY <1>3, <1>10, <1>11, <1>12

LEMMA LeaveTick ==
  ASSUME LeaveInv, Tick
  PROVE  LeaveInv'
<1>1. MonitorsTypes'
  BY TickIsOfCycle DEF LeaveInv
<1>2. BalancingTypes' /\ IdleAsksNothing'
  BY CycleKeepsRequests
<1>3. CycleIsOfRequest'
  <2> SUFFICES ASSUME ~switched', ~wants_slow' PROVE CycleIsOfRequest'
    BY DEF CycleIsOfRequest
  <2>1. PICK n \in Nat : n = (phase % Period)'
    BY UndisturbedTick, CellMonitorsAssumption DEF LeaveInv
  <2> QED
    BY <2>1, CycleOfRequestKeeps DEF CycleIsOfRequest
<1>4. ReadIsDue'
  <2> SUFFICES ASSUME unstamped' > 0 PROVE ReadIsDue'
    BY DEF ReadIsDue
  <2>1. /\ ~Stamps /\ ~slow_mode' /\ ~crc_failed' /\ ~switched'
        /\ unstamped' = Counted(unstamped)
    BY DEF Tick, Histories
  <2>2. ~wants_slow'
    BY <2>1 DEF Tick, SlowMode
  <2>3. PICK n \in Nat : n = (phase % Period)'
    BY <2>1, <2>2, UndisturbedTick, CellMonitorsAssumption DEF LeaveInv
  <2>4. PICK x \in Nat, y \in Nat, top \in Nat :
          /\ x = Due(phase % Period) /\ y = Due(n)' /\ top = LongestUnstamped
          /\ y <= top - 1 /\ y <= x - 1
    <3>1. LongestUnstamped \in Nat
      <4>1. PauseAfter \in Nat /\ Period \in Nat \ {0}
        BY BalancingAssumption, CellMonitorsAssumption
      <4>2. LongestUnstamped = Ahead(0) + Period - 1 /\ Ahead(0) \in Nat
        BY <4>1, AheadIs
      <4> QED
        BY <4>1, <4>2
    <3> QED
      BY <2>1, <2>2, <2>3, <3>1, ReadComesNearer
  <2>5. PICK u \in Nat, u1 \in Nat :
          u = unstamped /\ u1 = unstamped' /\ u1 = (IF u <= top THEN u + 1 ELSE u)
    BY <1>2, <2>1, <2>4 DEF Counted, BalancingTypes, LeaveInv
  <2>6. u > 0 => u + x <= top
    BY <2>4, <2>5 DEF ReadIsDue, LeaveInv
  <2>7. u1 + y <= top
    BY <2>4, <2>5, <2>6
  <2>8. Due(phase % Period)' = y
    BY <2>3, <2>4 DEF Due
  <2>9. LongestUnstamped' = top
    BY <2>4 DEF LongestUnstamped
  <2> QED
    BY <2>1, <2>2, <2>5, <2>7, <2>8, <2>9 DEF ReadIsDue
<1> QED
  BY <1>1, <1>2, <1>3, <1>4 DEF LeaveInv

\* No full read is overdue for longer than LongestUnstamped because of balancing
\* (bmb3y.c:754, balancing.c:256), for any periods, banks and cells.
THEOREM ReadingsAreLeft == MonitorsSpec => []BalancingLeavesReadings
<1>1. LeaveInv /\ [MonitorsNext]_monitorVars => LeaveInv'
  <2> SUFFICES ASSUME LeaveInv, [MonitorsNext]_monitorVars PROVE LeaveInv'
    OBVIOUS
  <2>1. CASE StoppedTick \/ UNCHANGED monitorVars
    <3>1. UNCHANGED << phase, wants_slow, switched, unstamped, bus, balancing_active, balancingVars >>
      BY <2>1 DEF StoppedTick, monitorVars, monitorOwn, conditions
    <3> QED
      BY <3>1 DEF balancingVars, LeaveInv, MonitorsTypes, BalancingTypes, IdleAsksNothing,
        CycleIsOfRequest, ReadIsDue, Due, DueFromStart, Ahead
  <2> QED
    BY <2>1, LeaveTick DEF MonitorsNext
<1>2. LeaveInv => BalancingLeavesReadings
  <2> SUFFICES ASSUME LeaveInv PROVE BalancingLeavesReadings
    OBVIOUS
  <2>1. PauseAfter \in Nat /\ Period \in Nat \ {0} /\ Banks \in Nat
    BY BalancingAssumption, CellMonitorsAssumption
  <2>2. PICK a \in Nat, top \in Nat :
          /\ a = Ahead(pause_counter) /\ LongestUnstamped = top + Period - 1
    BY AheadIs DEF LeaveInv, BalancingTypes
  <2>3. PICK d \in Nat : d = DueFromStart /\ d >= Banks + 2
    BY <2>1, <2>2 DEF DueFromStart
  <2>4. PICK s \in Nat : s = phase % Period /\ s <= Period - 1
    BY <2>1, CellMonitorsAssumption DEF LeaveInv, MonitorsTypes
  <2>5. Due(s) >= 0 /\ Due(s) \in Int
    BY <2>1, <2>3, <2>4 DEF Due
  <2>6. unstamped > 0 => unstamped + Due(s) <= LongestUnstamped
    BY <2>4 DEF LeaveInv, ReadIsDue
  <2> QED
    BY <2>1, <2>2, <2>5, <2>6 DEF LeaveInv, BalancingTypes, BalancingLeavesReadings
<1> QED
  BY <1>1, <1>2, LeaveStarts, PTL DEF MonitorsSpec
-------------------------------------------------------------------------------
(***************************************************************************)
(* The sums of a calibration.  Before a channel is armed it has nothing     *)
(* left, so that no interrupt adds to its sum; from then on an interrupt    *)
(* moves one from what is left to what is taken.                            *)
(***************************************************************************)

Last == 2 * Cardinality(Channels) - 1

SumTypes ==
  /\ arming \in -1 .. Last
  /\ disturbed \in BOOLEAN
  /\ cal_samples_left \in [Channels -> Nat] /\ cal_taken \in [Channels -> Nat]

\* The channel's sum is cleared in step 2 * c of the calibration, its count set in the next.
SumIsWhole(c) == cal_taken[c] + cal_samples_left[c] \in {0, Samples}
SumOf(c) ==
  /\ arming = -1 \/ arming > 2 * c + 1 => SumIsWhole(c)
  /\ arming = 2 * c + 1 => cal_taken[c] = 0
  /\ arming \in 0 .. 2 * c + 1 => cal_samples_left[c] = 0
SumsSoFar == ~disturbed => \A c \in Channels : SumOf(c)

SumInv == SumTypes /\ SumsSoFar

LEMMA ChannelNumbers ==
  /\ Cardinality(Channels) \in Nat \ {0}
  /\ Samples \in Nat \ {0}
  /\ \A c \in Channels : c \in Nat /\ 2 * c + 1 <= Last
<1>1. Cardinality(Channels) \in Nat \ {0} /\ Channels = 0 .. Cardinality(Channels) - 1
        /\ Samples \in Nat \ {0}
  BY Ads1115Assumption DEF Ads1115Assumption
<1> HIDE DEF Channels
<1> QED
  BY <1>1 DEF Last

LEMMA ChannelOfStep ==
  ASSUME NEW step \in 0 .. Last
  PROVE  /\ step \div 2 \in Channels
         /\ IF step % 2 = 0 THEN step = 2 * (step \div 2) ELSE step = 2 * (step \div 2) + 1
<1>1. Cardinality(Channels) \in Nat \ {0} /\ Channels = 0 .. Cardinality(Channels) - 1
  BY Ads1115Assumption DEF Ads1115Assumption
<1> HIDE DEF Channels
<1> QED
  BY <1>1 DEF Last

LEMMA SumsStart ==
  ASSUME Ads1115Init
  PROVE  SumInv
<1> USE ChannelNumbers
<1>1. arming = -1 /\ cal_samples_left = [c \in Channels |-> 0] /\ cal_taken = [c \in Channels |-> 0]
  BY DEF Ads1115Init
<1>2. disturbed \in BOOLEAN
  BY DEF Ads1115Init
<1> HIDE DEF Channels
<1>3. SumTypes
  BY <1>1, <1>2 DEF SumTypes, Last
<1>4. ASSUME NEW c \in Channels
      PROVE  SumOf(c)
  BY <1>1 DEF SumOf, SumIsWhole
<1> QED
  BY <1>3, <1>4 DEF SumInv, SumsSoFar

\* What a calibration asks for is what is sampled, or nothing.
LEMMA AskedFor ==
  ASSUME NEW c
  PROVE  ToTake(c) \in {0, Samples}
  BY DEF ToTake

\* A sample is stored, by an interrupt between any two steps of the calibration.
LEMMA StoringKeepsSums ==
  ASSUME SumInv, NEW channel, NEW device, StoreSample(channel, device),
         UNCHANGED << arming, disturbed >>
  PROVE  SumInv'
<1> USE ChannelNumbers
<1> HIDE DEF Channels
<1>1. CASE ~(channel \in Channels /\ cal_samples_left[channel] > 0)
  <2>1. UNCHANGED << cal_samples_left, cal_taken >>
    <3>1. CASE cal_samples_left[channel] > 0
      <4>1. channel \notin Channels
        BY <1>1, <3>1
      <4>2. /\ cal_samples_left' = [cal_samples_left EXCEPT ![channel] = @ - 1]
            /\ cal_taken' = [cal_taken EXCEPT ![channel] = @ + 1]
        BY <3>1 DEF StoreSample
      <4> QED
        BY <4>1, <4>2 DEF SumInv, SumTypes
    <3>2. CASE ~(cal_samples_left[channel] > 0)
      BY <3>2 DEF StoreSample, calVars
    <3> QED
      BY <3>1, <3>2
  <2> QED
    BY <2>1 DEF SumInv, SumTypes, SumsSoFar, SumOf, SumIsWhole
<1>2. CASE channel \in Channels /\ cal_samples_left[channel] > 0
  <2>1. /\ cal_samples_left' = [cal_samples_left EXCEPT ![channel] = @ - 1]
        /\ cal_taken' = [cal_taken EXCEPT ![channel] = @ + 1]
    BY <1>2 DEF StoreSample
  <2>2. cal_samples_left' \in [Channels -> Nat] /\ cal_taken' \in [Channels -> Nat]
    BY <1>2, <2>1 DEF SumInv, SumTypes
  <2>3. SumTypes'
    BY <2>2 DEF SumInv, SumTypes
  <2>4. ASSUME NEW c \in Channels, SumOf(c)
        PROVE  SumOf(c)'
    <3>1. CASE c = channel
      <4>1. /\ cal_samples_left[c] > 0 /\ cal_samples_left[c] \in Nat /\ cal_taken[c] \in Nat
            /\ cal_samples_left'[c] = cal_samples_left[c] - 1
            /\ cal_taken'[c] = cal_taken[c] + 1
        BY <1>2, <2>1, <3>1 DEF SumInv, SumTypes
      <4>2. arming \notin 0 .. 2 * c + 1
        BY <2>4, <4>1 DEF SumOf
      <4>3. arming \in Int /\ arming' = arming
        BY DEF SumInv, SumTypes
      <4> QED
        BY <2>4, <4>1, <4>2, <4>3 DEF SumOf, SumIsWhole
    <3>2. CASE c # channel
      <4>1. cal_samples_left'[c] = cal_samples_left[c] /\ cal_taken'[c] = cal_taken[c]
        BY <2>1, <3>2 DEF SumInv, SumTypes
      <4> QED
        BY <2>4, <4>1 DEF SumOf, SumIsWhole
    <3> QED
      BY <3>1, <3>2
  <2> QED
    BY <2>3, <2>4 DEF SumInv, SumsSoFar
<1> QED
  BY <1>1, <1>2

LEMMA BeginningKeepsSums ==
  ASSUME SumInv, CalibrationBegins
  PROVE  SumInv'
<1> USE ChannelNumbers
<1> HIDE DEF Channels
<1>1. /\ arming = -1 /\ arming' = 0
      /\ UNCHANGED << cal_samples_left, cal_taken >>
  BY DEF CalibrationBegins, calVars
<1>2. disturbed' = \E c \in Channels : cal_samples_left[c] > 0
  BY DEF CalibrationBegins
<1>3. disturbed' \in BOOLEAN
  BY <1>2
<1>4. SumTypes'
  BY <1>1, <1>3 DEF SumInv, SumTypes, Last
<1>5. ASSUME ~disturbed', NEW c \in Channels
      PROVE  SumOf(c)'
  <2>1. ~(cal_samples_left[c] > 0)
    BY <1>2, <1>5
  <2>2. cal_samples_left[c] = 0
    BY <2>1 DEF SumInv, SumTypes
  <2> QED
    BY <1>1, <2>2 DEF SumOf
<1> QED
  BY <1>4, <1>5 DEF SumInv, SumsSoFar

LEMMA ArmingKeepsSums ==
  ASSUME SumInv, CalibrationArms
  PROVE  SumInv'
<1> USE ChannelNumbers
<1> HIDE DEF Channels
<1> DEFINE channel == arming \div 2
           first == arming % 2 = 0
<1>1. /\ arming \in 0 .. Last
      /\ Arm(channel, first)
      /\ arming' = IF arming = Last THEN -1 ELSE arming + 1
      /\ UNCHANGED disturbed
  BY DEF CalibrationArms, SumInv, SumTypes, Last
<1>2. channel \in Channels /\ (IF first THEN arming = 2 * channel ELSE arming = 2 * channel + 1)
  BY <1>1, ChannelOfStep
<1>3. ToTake(channel) \in {0, Samples}
  BY AskedFor
<1> HIDE DEF channel, first
<1>4. cal_samples_left' \in [Channels -> Nat] /\ cal_taken' \in [Channels -> Nat]
  BY <1>1, <1>2, <1>3 DEF Arm, SumInv, SumTypes
<1>5. arming' \in -1 .. Last
  BY <1>1 DEF Last
<1>6. SumTypes'
  BY <1>1, <1>4, <1>5 DEF SumInv, SumTypes
<1>7. ASSUME NEW c \in Channels, SumOf(c)
      PROVE  SumOf(c)'
  <2>0. cal_samples_left[c] \in Nat /\ cal_taken[c] \in Nat /\ c \in Nat /\ 2 * c + 1 <= Last
    BY DEF SumInv, SumTypes
  <2>1. CASE c = channel /\ first
    <3>1. cal_taken'[c] = 0 /\ cal_samples_left'[c] = cal_samples_left[c]
      BY <1>1, <2>1 DEF Arm, SumInv, SumTypes
    <3>2. arming = 2 * c /\ arming' = 2 * c + 1
      BY <1>1, <1>2, <2>0, <2>1
    <3> QED
      BY <1>7, <2>0, <3>1, <3>2 DEF SumOf
  <2>2. CASE c = channel /\ ~first
    <3>1. cal_taken'[c] = cal_taken[c] /\ cal_samples_left'[c] = ToTake(c)
      BY <1>1, <2>2 DEF Arm, SumInv, SumTypes
    <3>2. arming = 2 * c + 1 /\ (arming' = -1 \/ arming' = 2 * c + 2)
      BY <1>1, <1>2, <2>0, <2>2
    <3>3. cal_taken[c] = 0
      BY <1>7, <3>2 DEF SumOf
    <3>4. SumIsWhole(c)'
      BY <1>3, <2>2, <3>1, <3>3 DEF SumIsWhole
    <3> QED
      BY <2>0, <3>2, <3>4 DEF SumOf
  <2>3. CASE c # channel
    <3>1. cal_taken'[c] = cal_taken[c] /\ cal_samples_left'[c] = cal_samples_left[c]
      BY <1>1, <2>3 DEF Arm, SumInv, SumTypes
    <3>2. channel \in Nat /\ (arming = 2 * channel \/ arming = 2 * channel + 1)
      BY <1>2
    <3>3. arming > 2 * c + 1 \/ arming + 1 <= 2 * c
      BY <1>1, <2>0, <2>3, <3>2
    <3> QED
      BY <1>1, <1>7, <2>0, <3>1, <3>3 DEF SumOf, SumIsWhole
  <2> QED
    BY <2>1, <2>2, <2>3
<1> QED
  BY <1>1, <1>6, <1>7 DEF SumInv, SumsSoFar

\* When a calibration has been asked for, each sum is of none or of all the samples it
\* takes (ads1115.c), wherever interrupts add to the sums while they are being cleared,
\* for any channels and any number of samples.
THEOREM SumsAreWhole == Ads1115Spec => []CalibrationSumsAreWhole
<1>1. SumInv /\ [Ads1115Next]_ads1115Vars => SumInv'
  <2> SUFFICES ASSUME SumInv, [Ads1115Next]_ads1115Vars
               PROVE  SumInv'
    OBVIOUS
  <2>1. CASE CalibrationBegins
    BY <2>1, BeginningKeepsSums
  <2>2. CASE CalibrationArms
    BY <2>2, ArmingKeepsSums
  <2>3. CASE ConversionRead
    <3>1. \E channel, device : StoreSample(channel, device)
      BY <2>3 DEF ConversionRead
    <3>2. UNCHANGED << arming, disturbed >>
      BY <2>3 DEF ConversionRead
    <3> QED
      BY <3>1, <3>2, StoringKeepsSums
  <2>4. CASE \/ PeriodicTimer \/ TransferFails \/ ConfigWritten \/ AlarmFires \/ ConverterPasses
             \/ UNCHANGED ads1115Vars
    <3>1. UNCHANGED << calVars, arming, disturbed >>
      BY <2>4 DEF PeriodicTimer, TransferFails, Abandon, ConfigWritten, AlarmFires,
        ConverterPasses, ads1115Vars
    <3> QED
      BY <3>1 DEF calVars, SumInv, SumTypes, SumsSoFar, SumOf, SumIsWhole
  <2> QED
    BY <2>1, <2>2, <2>3, <2>4 DEF Ads1115Next
<1>2. SumInv => CalibrationSumsAreWhole
  BY DEF SumInv, SumTypes, SumsSoFar, SumOf, SumIsWhole, CalibrationSumsAreWhole
<1>3. Ads1115Init => SumInv
  BY SumsStart
<1> QED
  BY <1>1, <1>2, <1>3, PTL DEF Ads1115Spec

-------------------------------------------------------------------------------
(***************************************************************************)
(* The samples of the voltages.  The state of the scan says what the        *)
(* converters do: while configurations are written, those before round_idx  *)
(* convert the round's channel; while the alarm is awaited all of them do,  *)
(* and none for longer than the alarm takes; while results are read, all    *)
(* have finished.  So a round after the first finds them at rest.  Only the *)
(* first may find one that a failure has left converting: it is late, and   *)
(* what it converts is at least a channel of its own.                       *)
(***************************************************************************)

ScanStates == {"IDLE", "WRITING_CONFIG", "WAIT_CONVERSION", "READING_CONVERSION"}
Rounds == 0 .. ScanRounds - 1

VoltageTypes ==
  /\ scan_state \in ScanStates /\ scan_busy = (scan_state # "IDLE")
  /\ scan_round \in Rounds /\ round_idx \in InRound(scan_round)
  /\ bus1 = [state |-> bus1.state, transfer |-> bus1.transfer]
  /\ alarm \in -1 .. AlarmTime
  /\ converting \in [DOMAIN ChannelsOf -> Int]
  /\ converted_left \in [DOMAIN ChannelsOf -> 0 .. ConversionTime1]
  /\ late \in SUBSET DOMAIN ChannelsOf

Converts(k) == converting[Devices[k]] = RoundChannel(scan_round, k)
ThisTransfer == Transfer(scan_round, round_idx)

Own(k) == Devices[k] \in late \/ Converts(k)
Begun(d) == \E k \in InRound(scan_round) : k < round_idx /\ Devices[k] = d

IdleIsFree == scan_state = "IDLE" => ~Busy(bus1) /\ alarm = -1

WritesInOrder ==
  scan_state = "WRITING_CONFIG" =>
    /\ bus1.state = "WRITING" /\ bus1.transfer = ThisTransfer /\ alarm = -1
    /\ \A k \in InRound(scan_round) : k < round_idx => Own(k)
    /\ \A d \in DOMAIN ChannelsOf : converted_left[d] > 0 => d \in late \/ Begun(d)

WaitsForAll ==
  scan_state = "WAIT_CONVERSION" =>
    /\ ~Busy(bus1) /\ alarm >= 0
    /\ \A k \in InRound(scan_round) : Own(k)
    /\ \A d \in DOMAIN ChannelsOf : converted_left[d] <= alarm

ReadsWhatIsDone ==
  scan_state = "READING_CONVERSION" =>
    /\ bus1.state = "READING" /\ bus1.transfer = ThisTransfer /\ alarm = -1
    /\ \A k \in InRound(scan_round) : Own(k)
    /\ \A d \in DOMAIN ChannelsOf : converted_left[d] = 0

RoundInv == IdleIsFree /\ WritesInOrder /\ WaitsForAll /\ ReadsWhatIsDone

\* A converter is late in a first round only, and converts a channel of its own.
LateIsFirst == late # {} => scan_round = 0
LeftOverIsOwn ==
  \A d \in DOMAIN ChannelsOf :
    d \in late \/ converted_left[d] > 0 => converting[d] \in ChannelsAt(d)

VoltageInv == VoltageTypes /\ RoundInv /\ LateIsFirst /\ LeftOverIsOwn

LEMMA LeastIs ==
  ASSUME NEW S \in SUBSET Nat, S # {}
  PROVE  Least(S) \in S /\ \A i \in S : Least(S) <= i
<1>1. PICK x \in S : \A y \in S : ~(<<y, x>> \in OpToRel(<, Nat))
  BY NatLessThanWellFounded, WFMin
<1>2. ASSUME NEW y \in S, y < x
      PROVE  FALSE
  <2>1. << y, x >> \in Nat \X Nat /\ << y, x >>[1] < << y, x >>[2]
    BY <1>2
  <2>2. << y, x >> \in OpToRel(<, Nat)
    BY <2>1, Zenon DEF OpToRel
  <2> QED
    BY <1>1, <1>2, <2>2
<1>3. \A y \in S : x <= y
  BY <1>2
<1> QED
  BY <1>1, <1>3 DEF Least

\* A device with a channel in the round, and the channel.
LEMMA RoundHasChannels ==
  ASSUME NEW r \in Nat, NEW k \in InRound(r)
  PROVE  /\ k \in 1 .. Len(Devices) /\ Devices[k] \in DOMAIN ChannelsOf
         /\ RoundChannel(r, k) \in ChannelsAt(Devices[k]) /\ RoundChannel(r, k) \in Int
<1>1. k \in 1 .. Len(Devices) /\ Devices[k] \in DOMAIN ChannelsOf
  BY Ads1115Assumption DEF InRound, Ads1115Assumption
<1>2. PICK s \in Seq(Nat) : s = ChannelsOf[Devices[k]] /\ r < Len(s)
  BY <1>1, Ads1115Assumption DEF InRound, Ads1115Assumption
<1>3. r + 1 \in DOMAIN s /\ s[r + 1] \in Nat
  BY <1>2
<1>4. RoundChannel(r, k) = s[r + 1]
  BY <1>2 DEF RoundChannel
<1>5. s[r + 1] \in {s[i] : i \in DOMAIN s}
  BY <1>3
<1>6. RoundChannel(r, k) \in ChannelsAt(Devices[k])
  BY <1>1, <1>2, <1>4, <1>5 DEF ChannelsAt
<1> QED
  BY <1>1, <1>3, <1>4, <1>6

LEMMA FirstRound ==
  /\ 0 \in Rounds /\ 1 \in InRound(0) /\ Rounds \subseteq Nat
  /\ \A r \in Nat : InRound(r) \subseteq Nat
<1>1. Len(Devices) \in Nat \ {0} /\ DOMAIN Devices = 1 .. Len(Devices)
  BY Ads1115Assumption DEF Ads1115Assumption
<1>2. \A r \in Nat : InRound(r) \subseteq Nat
  BY <1>1 DEF InRound
<1>3. Devices[1] \in DOMAIN ChannelsOf
  BY <1>1, Ads1115Assumption DEF Ads1115Assumption
<1>4. Len(ChannelsOf[Devices[1]]) \in 1 .. ScanRounds /\ ScanRounds \in Nat
  BY <1>3, Ads1115Assumption DEF Ads1115Assumption
<1> QED
  BY <1>1, <1>2, <1>4 DEF InRound, Rounds

\* Whatever ended the transfer before, the next one is started.
LEMMA ContextGoesOn ==
  ASSUME VoltageTypes, NEW t
  PROVE  /\ Writing(Finished(bus1, TRUE), t) = [state |-> "WRITING", transfer |-> t]
         /\ Reading(Finished(bus1, TRUE), t) = [state |-> "READING", transfer |-> t]
         /\ \A after \in {Finished(bus1, TRUE), Finished(bus1, FALSE)} :
              ~Busy(after) /\ after = [state |-> after.state, transfer |-> after.transfer]
<1>1. Finished(bus1, TRUE) = [state |-> "IDLE", transfer |-> bus1.transfer]
  BY DEF VoltageTypes, Finished
<1>2. Finished(bus1, FALSE) = [state |-> "ERROR", transfer |-> bus1.transfer]
  BY DEF VoltageTypes, Finished
<1>3. ASSUME NEW a, NEW s \in {"IDLE", "ERROR"}, a = [state |-> s, transfer |-> bus1.transfer]
      PROVE  /\ ~Busy(a) /\ a = [state |-> a.state, transfer |-> a.transfer]
             /\ Writing(a, t) = [state |-> "WRITING", transfer |-> t]
             /\ Reading(a, t) = [state |-> "READING", transfer |-> t]
  <2>1. ~Busy(a)
    BY <1>3 DEF Busy
  <2> QED
    BY <1>3, <2>1 DEF Writing, Reading
<1>4. "IDLE" \in {"IDLE", "ERROR"} /\ "ERROR" \in {"IDLE", "ERROR"}
  OBVIOUS
<1> QED
  BY <1>1, <1>2, <1>3, <1>4, Zenon

\* The next round begins with its first device.
LEMMA RoundStarts ==
  ASSUME VoltageTypes, NEW r \in Nat, StartRound(r)
  PROVE  /\ scan_state' = "WRITING_CONFIG" /\ scan_busy' = TRUE
         /\ scan_round' \in Rounds /\ round_idx' \in InRound(scan_round')
         /\ \A k \in InRound(scan_round') : round_idx' <= k
         /\ bus1' = [state |-> "WRITING", transfer |-> Transfer(scan_round', round_idx')]
         /\ r = 0 => scan_round' = 0
<1> DEFINE rounds == {q \in r .. ScanRounds - 1 : InRound(q) # {}}
           next == IF rounds = {} THEN 0 ELSE Least(rounds)
<1>1. ScanRounds \in Nat /\ rounds \subseteq Nat
  BY Ads1115Assumption DEF Ads1115Assumption
<1>2. next \in Rounds /\ InRound(next) # {}
  <2>1. CASE rounds = {}
    BY <2>1, FirstRound
  <2>2. CASE rounds # {}
    <3>1. Least(rounds) \in rounds
      BY <1>1, <2>2, LeastIs
    <3> QED
      BY <1>1, <2>2, <3>1 DEF Rounds
  <2> QED
    BY <2>1, <2>2
<1>6. r = 0 => next = 0
  <2>1. SUFFICES ASSUME r = 0, rounds # {}
                 PROVE  Least(rounds) = 0
    OBVIOUS
  <2>2. 0 \in rounds
    BY <2>1, <1>1, FirstRound DEF Rounds
  <2> QED
    BY <1>1, <2>1, <2>2, LeastIs
<1> HIDE DEF next
<1>3. InRound(next) \subseteq Nat
  BY <1>2, FirstRound
<1>4. Least(InRound(next)) \in InRound(next) /\ \A k \in InRound(next) : Least(InRound(next)) <= k
  BY <1>2, <1>3, LeastIs
<1>5. /\ scan_round' = next /\ round_idx' = Least(InRound(next))
      /\ scan_state' = "WRITING_CONFIG" /\ scan_busy' = TRUE
      /\ bus1' = Writing(Finished(bus1, TRUE), Transfer(next, Least(InRound(next))))
  BY DEF StartRound, next
<1> QED
  BY <1>2, <1>4, <1>5, <1>6, ContextGoesOn

LEMMA VoltagesStart == Ads1115Init => VoltageInv
<1> SUFFICES ASSUME Ads1115Init PROVE VoltageInv
  OBVIOUS
<1>1. bus1 = IdleContext /\ scan_state = "IDLE" /\ scan_busy = FALSE
      /\ scan_round = 0 /\ round_idx = 1
  BY DEF Ads1115Init
<1>2. bus1 = [state |-> bus1.state, transfer |-> bus1.transfer] /\ ~Busy(bus1)
  BY <1>1 DEF IdleContext, Busy
<1>3. late = {} /\ \A d \in DOMAIN ChannelsOf : ~(converted_left[d] > 0)
  BY DEF Ads1115Init
<1>4. LateIsFirst /\ LeftOverIsOwn
  BY <1>3 DEF LateIsFirst, LeftOverIsOwn
<1>5. /\ converting \in [DOMAIN ChannelsOf -> Int]
      /\ converted_left \in [DOMAIN ChannelsOf -> 0 .. ConversionTime1]
      /\ alarm = -1 /\ alarm \in -1 .. AlarmTime
  BY Ads1115Assumption DEF Ads1115Init, Ads1115Assumption
<1>6. /\ scan_state \in ScanStates /\ scan_busy = (scan_state # "IDLE")
      /\ scan_round \in Rounds /\ round_idx \in InRound(scan_round)
  BY <1>1, FirstRound DEF ScanStates
<1>8. VoltageTypes
  BY <1>2, <1>3, <1>5, <1>6 DEF VoltageTypes
<1>7. RoundInv
  BY <1>1, <1>2, <1>5 DEF RoundInv, IdleIsFree, WritesInOrder, WaitsForAll, ReadsWhatIsDone
<1> QED
  BY <1>4, <1>7, <1>8 DEF VoltageInv

\* A round starts with no converter under way, except one that is late.
LEMMA StartKeeps ==
  ASSUME VoltageInv, NEW r \in Nat, StartRound(r), alarm = -1,
         UNCHANGED << alarm, converterVars >>,
         late' \in SUBSET DOMAIN ChannelsOf, late' # {} => r = 0,
         \A d \in DOMAIN ChannelsOf : d \in late' <=> converted_left[d] > 0
  PROVE  VoltageInv'
<1>1. /\ scan_state' = "WRITING_CONFIG" /\ scan_busy' = TRUE
      /\ scan_round' \in Rounds /\ round_idx' \in InRound(scan_round')
      /\ \A k \in InRound(scan_round') : round_idx' <= k
      /\ bus1' = [state |-> "WRITING", transfer |-> Transfer(scan_round', round_idx')]
      /\ r = 0 => scan_round' = 0
  BY RoundStarts DEF VoltageInv
<1>2. bus1'.state = "WRITING" /\ bus1'.transfer = Transfer(scan_round', round_idx')
      /\ bus1' = [state |-> bus1'.state, transfer |-> bus1'.transfer]
  BY <1>1
<1>3. VoltageTypes'
  BY <1>1, <1>2 DEF VoltageInv, VoltageTypes, ScanStates, converterVars
<1>4. \A k \in InRound(scan_round') : ~(k < round_idx')
  BY <1>1, FirstRound
<1>5. RoundInv'
  BY <1>1, <1>2, <1>4
  DEF RoundInv, IdleIsFree, WritesInOrder, WaitsForAll, ReadsWhatIsDone, ThisTransfer,
      converterVars
<1>6. LateIsFirst'
  BY <1>1 DEF LateIsFirst
<1>7. LeftOverIsOwn'
  BY DEF VoltageInv, LeftOverIsOwn, converterVars
<1> QED
  BY <1>3, <1>5, <1>6, <1>7 DEF VoltageInv

LEMMA TimerKeepsSamples ==
  ASSUME VoltageInv, PeriodicTimer
  PROVE  VoltageInv'
<1>1. scan_state = "IDLE"
  BY DEF PeriodicTimer, VoltageInv, VoltageTypes
<1>2. alarm = -1 /\ UNCHANGED << alarm, converterVars >> /\ StartRound(0)
  BY <1>1 DEF VoltageInv, RoundInv, IdleIsFree, PeriodicTimer
<1>3. late' = {d \in DOMAIN ChannelsOf : converted_left[d] > 0}
  BY DEF PeriodicTimer
<1>4. /\ late' \in SUBSET DOMAIN ChannelsOf
      /\ \A d \in DOMAIN ChannelsOf : d \in late' <=> converted_left[d] > 0
  BY <1>3
<1> QED
  BY <1>2, <1>4, StartKeeps

\* A configuration that is written changes what its converter converts, if it is free.
LEMMA ConvertKeepsTypes ==
  ASSUME VoltageTypes, LeftOverIsOwn, NEW d \in DOMAIN ChannelsOf, NEW c \in ChannelsAt(d),
         c \in Int, Convert(d, c)
  PROVE  /\ converting' \in [DOMAIN ChannelsOf -> Int]
         /\ converted_left' \in [DOMAIN ChannelsOf -> 0 .. ConversionTime1]
         /\ \A e \in DOMAIN ChannelsOf :
              e \in late \/ converted_left'[e] > 0 => converting'[e] \in ChannelsAt(e)
<1>1. ConversionTime1 \in 0 .. ConversionTime1
  BY Ads1115Assumption DEF Ads1115Assumption
<1>2. CASE UNCHANGED converterVars
  BY <1>2 DEF VoltageTypes, LeftOverIsOwn, converterVars
<1>3. CASE /\ converting' = [converting EXCEPT ![d] = c]
           /\ converted_left' = [converted_left EXCEPT ![d] = ConversionTime1]
  <2>1. /\ converting' \in [DOMAIN ChannelsOf -> Int]
        /\ converted_left' \in [DOMAIN ChannelsOf -> 0 .. ConversionTime1]
    BY <1>1, <1>3 DEF VoltageTypes
  <2>2. ASSUME NEW e \in DOMAIN ChannelsOf, e \in late \/ converted_left'[e] > 0
        PROVE  converting'[e] \in ChannelsAt(e)
    BY <1>3, <2>2 DEF VoltageTypes, LeftOverIsOwn
  <2> QED
    BY <2>1, <2>2
<1> QED
  BY <1>2, <1>3 DEF Convert

LEMMA ThisTransferIs ==
  ASSUME VoltageTypes
  PROVE  /\ ThisTransfer.device = Devices[round_idx]
         /\ ThisTransfer.channel = RoundChannel(scan_round, round_idx)
         /\ Devices[round_idx] \in DOMAIN ChannelsOf
         /\ RoundChannel(scan_round, round_idx) \in ChannelsAt(Devices[round_idx])
         /\ RoundChannel(scan_round, round_idx) \in Int
         /\ scan_round \in Nat
<1>1. scan_round \in Nat /\ round_idx \in InRound(scan_round)
  BY FirstRound DEF VoltageTypes
<1> QED
  BY <1>1, RoundHasChannels DEF ThisTransfer, Transfer

LEMMA FailureKeepsSamples ==
  ASSUME VoltageInv, TransferFails
  PROVE  VoltageInv'
<1>1. Busy(bus1)
  BY DEF TransferFails, Outcomes
<1>2. /\ scan_busy' = FALSE /\ scan_state' = "IDLE" /\ bus1' = Finished(bus1, FALSE)
      /\ late' = {} /\ UNCHANGED << scan_round, round_idx, alarm >>
  BY DEF TransferFails, Abandon
<1>3. alarm = -1
  BY <1>1 DEF VoltageInv, VoltageTypes, RoundInv, IdleIsFree, WritesInOrder, WaitsForAll,
              ReadsWhatIsDone, ScanStates
<1>4. ~Busy(bus1') /\ bus1' = [state |-> bus1'.state, transfer |-> bus1'.transfer]
  BY <1>2, ContextGoesOn DEF VoltageInv
<1>5. /\ converting' \in [DOMAIN ChannelsOf -> Int]
      /\ converted_left' \in [DOMAIN ChannelsOf -> 0 .. ConversionTime1]
      /\ \A d \in DOMAIN ChannelsOf : converted_left'[d] > 0 => converting'[d] \in ChannelsAt(d)
  <2>1. CASE UNCHANGED converterVars
    BY <2>1 DEF converterVars, VoltageInv, VoltageTypes, LeftOverIsOwn
  <2>2. CASE bus1.state = "WRITING" /\ Convert(bus1.transfer.device, bus1.transfer.channel)
    <3>1. bus1.transfer = ThisTransfer
      BY <2>2 DEF VoltageInv, VoltageTypes, RoundInv, IdleIsFree, WritesInOrder, WaitsForAll,
                  ReadsWhatIsDone, ScanStates, Busy
    <3> QED
      BY <2>2, <3>1, ThisTransferIs, ConvertKeepsTypes DEF VoltageInv
  <2> QED
    BY <2>1, <2>2 DEF TransferFails
<1>6. VoltageTypes'
  BY <1>2, <1>3, <1>4, <1>5 DEF VoltageInv, VoltageTypes, ScanStates
<1>7. RoundInv'
  BY <1>2, <1>3, <1>4 DEF RoundInv, IdleIsFree, WritesInOrder, WaitsForAll, ReadsWhatIsDone
<1>8. LateIsFirst' /\ LeftOverIsOwn'
  BY <1>2, <1>5 DEF LateIsFirst, LeftOverIsOwn
<1> QED
  BY <1>6, <1>7, <1>8 DEF VoltageInv

\* The device that follows in the round, if there is one.
LEMMA LaterIs ==
  ASSUME VoltageTypes
  PROVE  /\ Later(scan_round, round_idx) # {} =>
              /\ Least(Later(scan_round, round_idx)) \in InRound(scan_round)
              /\ \A k \in InRound(scan_round) :
                   k < Least(Later(scan_round, round_idx)) <=> (k < round_idx \/ k = round_idx)
         /\ Later(scan_round, round_idx) = {} =>
              \A k \in InRound(scan_round) : k < round_idx \/ k = round_idx
<1>1. InRound(scan_round) \subseteq Nat /\ round_idx \in Nat
  BY FirstRound DEF VoltageTypes
<1>2. Later(scan_round, round_idx) \subseteq Nat
  BY <1>1 DEF Later
<1>3. ASSUME Later(scan_round, round_idx) # {}
      PROVE  /\ Least(Later(scan_round, round_idx)) \in Later(scan_round, round_idx)
             /\ \A i \in Later(scan_round, round_idx) : Least(Later(scan_round, round_idx)) <= i
  BY <1>2, <1>3, LeastIs
<1>4. ASSUME NEW k \in InRound(scan_round), ~(k < round_idx \/ k = round_idx)
      PROVE  k \in Later(scan_round, round_idx)
  BY <1>1, <1>4 DEF Later
<1>5. Later(scan_round, round_idx) \subseteq InRound(scan_round)
  BY DEF Later
<1> QED
  <2>1. \A i, k, n \in Nat : n < i /\ k < i /\ ~(k < n \/ k = n) => n < k
    OBVIOUS
  <2> QED
    BY <1>1, <1>3, <1>4, <1>5 DEF Later

LEMMA ConfigKeepsSamples ==
  ASSUME VoltageInv, ConfigWritten
  PROVE  VoltageInv'
<1> USE DEF VoltageInv
<1>1. /\ scan_state = "WRITING_CONFIG" /\ Convert(bus1.transfer.device, bus1.transfer.channel)
      /\ UNCHANGED << scan_busy, scan_round, late >>
  BY DEF ConfigWritten, sampleVars
<1>2. bus1.transfer = ThisTransfer /\ alarm = -1
  BY <1>1 DEF RoundInv, WritesInOrder
<1>3. Convert(Devices[round_idx], RoundChannel(scan_round, round_idx))
  BY <1>1, <1>2, ThisTransferIs
<1>4. /\ converting' \in [DOMAIN ChannelsOf -> Int]
      /\ converted_left' \in [DOMAIN ChannelsOf -> 0 .. ConversionTime1]
      /\ LateIsFirst' /\ LeftOverIsOwn'
  <2>1. /\ converting' \in [DOMAIN ChannelsOf -> Int]
        /\ converted_left' \in [DOMAIN ChannelsOf -> 0 .. ConversionTime1]
        /\ \A e \in DOMAIN ChannelsOf :
             e \in late \/ converted_left'[e] > 0 => converting'[e] \in ChannelsAt(e)
    BY <1>3, ThisTransferIs, ConvertKeepsTypes
  <2> QED
    BY <1>1, <2>1 DEF LateIsFirst, LeftOverIsOwn
<1>5. \A k \in InRound(scan_round) : k < round_idx \/ k = round_idx => Own(k)'
  <2>1. SUFFICES ASSUME NEW k \in InRound(scan_round), k < round_idx \/ k = round_idx,
                        Devices[k] \notin late
                 PROVE  converting'[Devices[k]] = RoundChannel(scan_round, k)
    BY <1>1 DEF Own, Converts
  <2>2. Devices[k] \in DOMAIN ChannelsOf
    BY RoundHasChannels, ThisTransferIs
  <2>3. \A i \in InRound(scan_round) :
          Devices[i] = Devices[k] => RoundChannel(scan_round, i) = RoundChannel(scan_round, k)
    BY DEF RoundChannel
  <2>4. \A i \in InRound(scan_round) :
          i < round_idx /\ Devices[i] = Devices[k]
            => converting[Devices[k]] = RoundChannel(scan_round, k)
    BY <1>1, <2>1, <2>3 DEF RoundInv, WritesInOrder, Own, Converts
  <2>5. converted_left[Devices[k]] > 0 => converting[Devices[k]] = RoundChannel(scan_round, k)
    BY <1>1, <2>1, <2>2, <2>4 DEF RoundInv, WritesInOrder, Begun
  <2>6. k # round_idx => converting[Devices[k]] = RoundChannel(scan_round, k)
    BY <2>1, <2>4
  <2>7. CASE UNCHANGED converterVars /\ converted_left[Devices[round_idx]] > 0
    <3>1. k = round_idx => converting[Devices[k]] = RoundChannel(scan_round, k)
      BY <2>5, <2>7
    <3> QED
      BY <2>6, <2>7, <3>1 DEF converterVars
  <2>8. CASE converting' = [converting EXCEPT ![Devices[round_idx]] =
                              RoundChannel(scan_round, round_idx)]
    <3>1. round_idx \in InRound(scan_round)
      BY DEF VoltageTypes
    <3>2. Devices[k] = Devices[round_idx] =>
            RoundChannel(scan_round, round_idx) = RoundChannel(scan_round, k)
      BY <2>3, <3>1
    <3> QED
      BY <2>2, <2>6, <2>8, <3>2 DEF VoltageTypes
  <2> QED
    BY <1>3, <2>7, <2>8 DEF Convert
<1>6. ASSUME NEW d \in DOMAIN ChannelsOf, converted_left'[d] > 0
      PROVE  \/ d \in late
             \/ \E k \in InRound(scan_round) :
                  (k < round_idx \/ k = round_idx) /\ Devices[k] = d
  <2>1. CASE d = Devices[round_idx]
    BY <2>1 DEF VoltageTypes
  <2>2. CASE d # Devices[round_idx]
    <3>1. converted_left'[d] = converted_left[d]
      BY <1>3, <2>2 DEF Convert, converterVars, VoltageTypes
    <3> QED
      BY <1>1, <1>6, <3>1 DEF RoundInv, WritesInOrder, Begun
  <2> QED
    BY <2>1, <2>2
<1>7. CASE Later(scan_round, round_idx) # {}
  <2>1. /\ round_idx' = Least(Later(scan_round, round_idx))
        /\ bus1' = Writing(Finished(bus1, TRUE), Transfer(scan_round, round_idx'))
        /\ UNCHANGED << scan_state, alarm >>
    BY <1>7 DEF ConfigWritten
  <2>2. bus1' = [state |-> "WRITING", transfer |-> Transfer(scan_round', round_idx')]
    BY <1>1, <2>1, ContextGoesOn
  <2>3. bus1'.state = "WRITING" /\ bus1'.transfer = Transfer(scan_round', round_idx')
        /\ bus1' = [state |-> bus1'.state, transfer |-> bus1'.transfer]
    BY <2>2
  <2>4. /\ round_idx' \in InRound(scan_round')
        /\ \A k \in InRound(scan_round') : k < round_idx' => (k < round_idx \/ k = round_idx)
        /\ \A k \in InRound(scan_round') : (k < round_idx \/ k = round_idx) => k < round_idx'
    BY <1>1, <1>7, <2>1, LaterIs
  <2>5. VoltageTypes'
    BY <1>1, <1>4, <2>1, <2>3, <2>4 DEF VoltageTypes
  <2>6. WritesInOrder'
    <3>1. \A k \in InRound(scan_round') : k < round_idx' => Own(k)'
      BY <1>1, <1>5, <2>4
    <3>2. \A d \in DOMAIN ChannelsOf : converted_left'[d] > 0 => d \in late' \/ Begun(d)'
      BY <1>1, <1>6, <2>4 DEF Begun
    <3> QED
      BY <1>2, <2>1, <2>3, <3>1, <3>2 DEF WritesInOrder, ThisTransfer
  <2>7. RoundInv'
    BY <1>1, <2>1, <2>6 DEF RoundInv, IdleIsFree, WaitsForAll, ReadsWhatIsDone
  <2> QED
    BY <1>4, <2>5, <2>7
<1>8. CASE Later(scan_round, round_idx) = {}
  <2>1. /\ bus1' = Finished(bus1, TRUE) /\ UNCHANGED round_idx
        /\ scan_state' = "WAIT_CONVERSION" /\ alarm' = AlarmTime
    BY <1>8 DEF ConfigWritten, ConversionWait
  <2>2. ~Busy(bus1') /\ bus1' = [state |-> bus1'.state, transfer |-> bus1'.transfer]
    BY <2>1, ContextGoesOn
  <2>3. AlarmTime \in Nat /\ ConversionTime1 \in Nat /\ ConversionTime1 <= AlarmTime
    BY Ads1115Assumption DEF Ads1115Assumption
  <2>4. VoltageTypes'
    <3>1. scan_busy' = TRUE
      BY <1>1 DEF VoltageTypes
    <3>2. scan_state' \in ScanStates /\ scan_busy' = (scan_state' # "IDLE")
      BY <2>1, <3>1 DEF ScanStates
    <3>3. alarm' \in -1 .. AlarmTime
      BY <2>1, <2>3
    <3> QED
      BY <1>1, <1>4, <2>1, <2>2, <3>2, <3>3 DEF VoltageTypes
  <2>5. /\ \A k \in InRound(scan_round') : Own(k)'
        /\ \A d \in DOMAIN ChannelsOf : converted_left'[d] <= alarm'
    <3>1. \A k \in InRound(scan_round') : Own(k)'
      BY <1>1, <1>5, <1>8, LaterIs
    <3>2. \A d \in DOMAIN ChannelsOf : converted_left'[d] \in 0 .. ConversionTime1
      BY <1>4
    <3> QED
      BY <2>1, <2>3, <3>1, <3>2
  <2>6. RoundInv'
    <3>1. alarm' >= 0
      BY <2>1, <2>3
    <3> QED
      BY <2>1, <2>2, <2>5, <3>1
      DEF RoundInv, IdleIsFree, WritesInOrder, WaitsForAll, ReadsWhatIsDone
  <2> QED
    BY <1>4, <2>4, <2>6
<1> QED
  BY <1>7, <1>8

LEMMA AlarmKeepsSamples ==
  ASSUME VoltageInv, AlarmFires
  PROVE  VoltageInv'
<1> USE DEF VoltageInv
<1>1. /\ alarm = 0 /\ alarm' = -1
      /\ scan_state' = "READING_CONVERSION" /\ round_idx' = Least(InRound(scan_round))
      /\ bus1' = Reading(bus1, Transfer(scan_round, round_idx'))
      /\ UNCHANGED << scan_busy, scan_round, converterVars, late >>
  BY DEF AlarmFires, sampleVars
<1>2. scan_state = "WAIT_CONVERSION"
  BY <1>1 DEF VoltageTypes, ScanStates, RoundInv, IdleIsFree, WritesInOrder, ReadsWhatIsDone
<1>3. /\ ~Busy(bus1)
      /\ \A k \in InRound(scan_round) : Own(k)
      /\ \A d \in DOMAIN ChannelsOf : converted_left[d] <= 0
  BY <1>1, <1>2 DEF RoundInv, WaitsForAll
<1>4. bus1' = [state |-> "READING", transfer |-> Transfer(scan_round', round_idx')]
  BY <1>1, <1>3 DEF Reading
<1>5. bus1'.state = "READING" /\ bus1'.transfer = Transfer(scan_round', round_idx')
      /\ bus1' = [state |-> bus1'.state, transfer |-> bus1'.transfer]
  BY <1>4
<1>6. round_idx' \in InRound(scan_round')
  <2>1. InRound(scan_round) \subseteq Nat /\ InRound(scan_round) # {}
    BY FirstRound DEF VoltageTypes
  <2> QED
    BY <1>1, <2>1, LeastIs
<1>7. /\ \A k \in InRound(scan_round') : Own(k)'
      /\ \A d \in DOMAIN ChannelsOf : converted_left'[d] = 0
  <2>1. \A k \in InRound(scan_round') : Own(k)'
    BY <1>1, <1>3 DEF Own, Converts, converterVars
  <2>2. \A d \in DOMAIN ChannelsOf : converted_left[d] \in 0 .. ConversionTime1
    BY DEF VoltageTypes
  <2>3. ConversionTime1 \in Nat
    BY Ads1115Assumption DEF Ads1115Assumption
  <2>4. ASSUME NEW d \in DOMAIN ChannelsOf
        PROVE  converted_left[d] = 0
    BY <1>3, <2>2, <2>3
  <2>5. converted_left' = converted_left
    BY <1>1 DEF converterVars
  <2> QED
    BY <2>1, <2>4, <2>5
<1>8. VoltageTypes'
  BY <1>1, <1>2, <1>5, <1>6, Ads1115Assumption
  DEF VoltageTypes, ScanStates, converterVars, Ads1115Assumption
<1>9. RoundInv'
  BY <1>1, <1>5, <1>7
  DEF RoundInv, IdleIsFree, WritesInOrder, WaitsForAll, ReadsWhatIsDone, ThisTransfer
<1>10. LateIsFirst' /\ LeftOverIsOwn'
  BY <1>1 DEF LateIsFirst, LeftOverIsOwn, converterVars
<1> QED
  BY <1>8, <1>9, <1>10

LEMMA ReadKeepsSamples ==
  ASSUME VoltageInv, ConversionRead
  PROVE  VoltageInv'
<1> USE DEF VoltageInv
<1>1. scan_state = "READING_CONVERSION" /\ UNCHANGED << alarm, converterVars >>
  BY DEF ConversionRead
<1>2. /\ alarm = -1
      /\ \A k \in InRound(scan_round) : Own(k)
      /\ \A d \in DOMAIN ChannelsOf : converted_left[d] = 0
  BY <1>1 DEF RoundInv, ReadsWhatIsDone
<1>7. CASE Later(scan_round, round_idx) # {}
  <2>1. /\ round_idx' = Least(Later(scan_round, round_idx))
        /\ bus1' = Reading(Finished(bus1, TRUE), Transfer(scan_round, round_idx'))
        /\ UNCHANGED << scan_state, scan_busy, scan_round, late >>
    BY <1>7 DEF ConversionRead
  <2>2. bus1' = [state |-> "READING", transfer |-> Transfer(scan_round', round_idx')]
    BY <2>1, ContextGoesOn
  <2>3. bus1'.state = "READING" /\ bus1'.transfer = Transfer(scan_round', round_idx')
        /\ bus1' = [state |-> bus1'.state, transfer |-> bus1'.transfer]
    BY <2>2
  <2>4. round_idx' \in InRound(scan_round')
    BY <1>7, <2>1, LaterIs
  <2>5. VoltageTypes'
    BY <1>1, <2>1, <2>3, <2>4 DEF VoltageTypes, converterVars
  <2>6. /\ \A k \in InRound(scan_round') : Own(k)'
        /\ \A d \in DOMAIN ChannelsOf : converted_left'[d] = 0
    BY <1>1, <1>2, <2>1 DEF Own, Converts, converterVars
  <2>7. RoundInv'
    BY <1>1, <1>2, <2>1, <2>3, <2>6
    DEF RoundInv, IdleIsFree, WritesInOrder, WaitsForAll, ReadsWhatIsDone, ThisTransfer
  <2>8. LateIsFirst' /\ LeftOverIsOwn'
    BY <1>1, <2>1 DEF LateIsFirst, LeftOverIsOwn, converterVars
  <2> QED
    BY <2>5, <2>7, <2>8
<1>8. CASE Later(scan_round, round_idx) = {}
  <2>1. StartRound(scan_round + 1) /\ late' = {} /\ scan_round + 1 \in Nat
    BY <1>8, ThisTransferIs DEF ConversionRead
  <2>2. /\ late' \in SUBSET DOMAIN ChannelsOf
        /\ \A d \in DOMAIN ChannelsOf : d \in late' <=> converted_left[d] > 0
    BY <1>2, <2>1
  <2> QED
    BY <1>1, <1>2, <2>1, <2>2, StartKeeps
<1> QED
  BY <1>7, <1>8

\* What it stores is of the channel, unless the converter was late.
LEMMA ReadStoresOwn ==
  ASSUME VoltageInv, ConversionRead
  PROVE  LET channel == RoundChannel(scan_round, round_idx)
             device == Devices[round_idx]
         IN \/ sampled' = [sampled EXCEPT ![channel] = channel]
            \/ /\ device \in late /\ channel = ChannelsOf[device][1]
               /\ \E other \in ChannelsAt(device) :
                    sampled' = [sampled EXCEPT ![channel] = other]
<1> USE DEF VoltageInv
<1> DEFINE channel == RoundChannel(scan_round, round_idx)
           device == Devices[round_idx]
<1>1. /\ scan_state = "READING_CONVERSION" /\ StoreSample(channel, bus1.transfer.device)
  BY DEF ConversionRead
<1>2. bus1.transfer.device = device /\ device \in DOMAIN ChannelsOf
  BY <1>1, ThisTransferIs DEF RoundInv, ReadsWhatIsDone
<1>3. converted_left[device] = 0 /\ Own(round_idx)
  BY <1>1, <1>2 DEF RoundInv, ReadsWhatIsDone, VoltageTypes
<1>4. sampled' = [sampled EXCEPT ![channel] = converting[device]]
  BY <1>1, <1>2, <1>3 DEF StoreSample
<1>5. CASE device \notin late
  <2>1. converting[device] = channel
    BY <1>3, <1>5 DEF Own, Converts
  <2> QED
    BY <1>4, <2>1
<1>6. CASE device \in late
  <2>1. converting[device] \in ChannelsAt(device)
    BY <1>2, <1>6 DEF LeftOverIsOwn
  <2>2. channel = ChannelsOf[device][1]
    BY <1>6 DEF LateIsFirst, RoundChannel
  <2> QED
    BY <1>4, <1>6, <2>1, <2>2
<1> QED
  BY <1>5, <1>6

LEMMA PassingKeepsSamples ==
  ASSUME VoltageInv, ConverterPasses
  PROVE  VoltageInv'
<1> USE DEF VoltageInv
<1>1. /\ alarm' = IF alarm > 0 THEN alarm - 1 ELSE alarm
      /\ converted_left' = [d \in DOMAIN ChannelsOf |->
                              IF converted_left[d] > 0 THEN converted_left[d] - 1 ELSE 0]
      /\ UNCHANGED << bus1, scanVars, converting, late >>
  BY DEF ConverterPasses, sampleVars
<1>2. ConversionTime1 \in Nat /\ AlarmTime \in Nat
  BY Ads1115Assumption DEF Ads1115Assumption
<1>3. converted_left' \in [DOMAIN ChannelsOf -> 0 .. ConversionTime1] /\ alarm' \in -1 .. AlarmTime
  BY <1>1, <1>2 DEF VoltageTypes
<1>4. VoltageTypes'
  BY <1>1, <1>3 DEF VoltageTypes, scanVars
<1>5. ASSUME NEW d \in DOMAIN ChannelsOf
      PROVE  /\ converted_left'[d] > 0 => converted_left[d] > 0
             /\ converted_left[d] = 0 => converted_left'[d] = 0
             /\ (alarm >= 0 /\ converted_left[d] <= alarm) => converted_left'[d] <= alarm'
  <2>1. converted_left[d] \in Nat /\ alarm \in Int
    BY <1>2 DEF VoltageTypes
  <2>2. converted_left'[d] = IF converted_left[d] > 0 THEN converted_left[d] - 1 ELSE 0
    BY <1>1
  <2> QED
    BY <1>1, <2>1, <2>2
<1>10. /\ \A k : Own(k) => Own(k)'
       /\ \A d : Begun(d) => Begun(d)'
  BY <1>1 DEF Own, Converts, Begun, scanVars
<1>6. (alarm = -1 => alarm' = -1) /\ (alarm >= 0 => alarm' >= 0)
  BY <1>1, <1>2 DEF VoltageTypes
<1>7. IdleIsFree' /\ WritesInOrder'
  BY <1>1, <1>5, <1>6, <1>10 DEF RoundInv, IdleIsFree, WritesInOrder, ThisTransfer, scanVars
<1>8. WaitsForAll' /\ ReadsWhatIsDone'
  BY <1>1, <1>5, <1>6, <1>10 DEF RoundInv, WaitsForAll, ReadsWhatIsDone, ThisTransfer, scanVars
<1>9. LateIsFirst' /\ LeftOverIsOwn'
  BY <1>1, <1>5 DEF LateIsFirst, LeftOverIsOwn, scanVars
<1> QED
  BY <1>4, <1>7, <1>8, <1>9 DEF RoundInv

\* A sample is of its own channel (ads1115.c), for any converters, channels and rounds
\* and any conversion time that the alarm covers, whichever transfers fail at any moment
\* and whether or not they reached their converter.  Only the first channel of a converter
\* that has yet to finish a conversion of an abandoned cycle, when the periodic timer
\* begins the next, may be given the result of that one.
THEOREM SamplesAreOwn == Ads1115Spec => SamplesAreTheirOwn
<1>1. VoltageInv /\ [Ads1115Next]_ads1115Vars => VoltageInv'
  <2>1. ASSUME VoltageInv, UNCHANGED << bus1, scanVars, alarm, converterVars, late >>
        PROVE  VoltageInv'
    BY <2>1
    DEF VoltageInv, VoltageTypes, RoundInv, IdleIsFree, WritesInOrder, WaitsForAll,
        ReadsWhatIsDone, Converts, Own, Begun, ThisTransfer, LateIsFirst, LeftOverIsOwn,
        scanVars, converterVars
  <2>2. ASSUME VoltageInv, CalibrationBegins \/ CalibrationArms \/ UNCHANGED ads1115Vars
        PROVE  VoltageInv'
    BY <2>1, <2>2 DEF CalibrationBegins, CalibrationArms, ads1115Vars, sampleVars
  <2> QED
    BY <2>2, TimerKeepsSamples, FailureKeepsSamples, ConfigKeepsSamples, AlarmKeepsSamples,
       ReadKeepsSamples, PassingKeepsSamples
    DEF Ads1115Next
<1>2. VoltageInv /\ [Ads1115Next]_ads1115Vars
        => [ConversionRead =>
              LET channel == RoundChannel(scan_round, round_idx)
                  device == Devices[round_idx]
              IN \/ sampled' = [sampled EXCEPT ![channel] = channel]
                 \/ /\ device \in late /\ channel = ChannelsOf[device][1]
                    /\ \E other \in ChannelsAt(device) :
                         sampled' = [sampled EXCEPT ![channel] = other]]_ads1115Vars
  BY ReadStoresOwn
<1> QED
  BY <1>1, <1>2, VoltagesStart, PTL DEF Ads1115Spec, SamplesAreTheirOwn


-------------------------------------------------------------------------------
(***************************************************************************)
(* The argument.  The state of the measurement says who may touch what: the *)
(* loop chooses the channel only while current is measured, when no         *)
(* transfer uses it; a conversion is under way from the write that began it *)
(* to the read of its result; and that read is started only when the driver *)
(* has waited, by when the chip has finished.                               *)
(***************************************************************************)

MeasStates == {"CURRENT", "TRIGGER_PENDING", "CONVERTING", "RESTORE_PENDING"}
ControlPlaces == {"idle", "taken", "stored", "choose", "request"}
ContextStates == {"IDLE", "ERROR", "READING", "WRITING"}
Transfers == {"current", "shunt", Channel(TRUE), Channel(FALSE), NoTransfer}

Ina228Types ==
  /\ i2c \in [state : ContextStates, transfer : Transfers]
  /\ meas_state \in MeasStates /\ meas_is_ntc \in BOOLEAN
  /\ temp_result_is_ntc \in BOOLEAN /\ held_is_ntc \in BOOLEAN
  /\ waited \in 0 .. WaitTime /\ chip_left \in Nat /\ control \in ControlPlaces

\* What a transfer under way is, by the state of the measurement.
TransferFits ==
  /\ i2c.state = "WRITING" =>
       \/ meas_state = "TRIGGER_PENDING" /\ i2c.transfer = Channel(meas_is_ntc)
       \/ meas_state = "RESTORE_PENDING" /\ i2c.transfer = "shunt"
  /\ i2c.state = "READING" =>
       \/ i2c.transfer = "current" /\ meas_state \in {"CURRENT", "TRIGGER_PENDING"}
       \/ /\ i2c.transfer = Channel(meas_is_ntc) /\ meas_state = "CONVERTING"
          /\ waited = WaitTime

\* The driver waits for the conversion of the channel that it reads.
ConversionFits ==
  meas_state = "CONVERTING" => chip = Channel(meas_is_ntc) /\ chip_left + waited <= WaitTime

\* The loop chooses a channel only while current is measured.
ChoiceIsFree == control \in {"choose", "request"} => meas_state = "CURRENT"

\* What is handed over is what it is said to be.
ResultFits == temp_reading_available => temp_raw = Channel(temp_result_is_ntc)
HeldFits == control = "taken" => held_raw = Channel(held_is_ntc)
ModelFits == model_temp = [is_ntc \in BOOLEAN |-> Channel(is_ntc)]

MeasurementInv == TransferFits /\ ConversionFits /\ ChoiceIsFree
ReadingsInv == ResultFits /\ HeldFits /\ ModelFits
Ina228Inv == Ina228Types /\ MeasurementInv /\ ReadingsInv

-------------------------------------------------------------------------------

\* The names of the channels are no other transfer's.
LEMMA ChannelsDiffer ==
  ASSUME NEW is_ntc \in BOOLEAN
  PROVE  /\ Channel(is_ntc) \in Transfers
         /\ Channel(is_ntc) # "current" /\ Channel(is_ntc) # "shunt"
<1>1. CASE is_ntc = TRUE
  BY <1>1 DEF Channel, Transfers
<1>2. CASE is_ntc = FALSE
  BY <1>2 DEF Channel, Transfers
<1> QED
  BY <1>1, <1>2

LEMMA Ina228Starts == Ina228Init => Ina228Inv
<1> SUFFICES ASSUME Ina228Init PROVE Ina228Inv
  OBVIOUS
<1>1. Ina228Types
  <2>1. i2c \in [state : ContextStates, transfer : Transfers]
    BY DEF Ina228Init, IdleContext, ContextStates, Transfers
  <2>2. waited \in 0 .. WaitTime /\ chip_left \in Nat
    BY Ina228Assumption DEF Ina228Init
  <2>3. meas_is_ntc \in BOOLEAN /\ temp_result_is_ntc \in BOOLEAN /\ held_is_ntc \in BOOLEAN
    BY DEF Ina228Init
  <2> QED
    BY <2>1, <2>2, <2>3 DEF Ina228Init, Ina228Types, MeasStates, ControlPlaces
<1>2. MeasurementInv
  BY DEF Ina228Init, IdleContext, MeasurementInv, TransferFits, ConversionFits, ChoiceIsFree
<1>3. ReadingsInv
  BY DEF Ina228Init, ReadingsInv, ResultFits, HeldFits, ModelFits
<1> QED
  BY <1>1, <1>2, <1>3 DEF Ina228Inv

\* The timer starts the transfer that the state of the measurement asks for.
LEMMA TimerKeeps ==
  ASSUME Ina228Inv, TimerFires
  PROVE  Ina228Inv'
<1> USE DEF Ina228Inv, TimerFires
<1>1. /\ UNCHANGED << meas_state, meas_is_ntc, waited, chip, chip_left, control >>
      /\ UNCHANGED << temp_result_is_ntc, temp_raw, temp_reading_available >>
      /\ UNCHANGED << held_is_ntc, held_raw, model_temp >>
  BY DEF loopVars, chipVars
<1>2. Channel(meas_is_ntc) \in Transfers /\ Channel(meas_is_ntc) # "current"
  BY ChannelsDiffer DEF Ina228Types
<1>3. \/ meas_state = "CURRENT" /\ i2c' = [state |-> "READING", transfer |-> "current"]
      \/ meas_state = "TRIGGER_PENDING"
           /\ i2c' = [state |-> "WRITING", transfer |-> Channel(meas_is_ntc)]
      \/ meas_state = "CONVERTING" /\ waited = WaitTime
           /\ i2c' = [state |-> "READING", transfer |-> Channel(meas_is_ntc)]
      \/ meas_state = "RESTORE_PENDING" /\ i2c' = [state |-> "WRITING", transfer |-> "shunt"]
  BY DEF DualReading, Reading, Writing, Converted
<1>4. Ina228Types'
  <2>1. PICK s \in {"READING", "WRITING"}, t \in {"current", "shunt", Channel(meas_is_ntc)} :
          i2c' = [state |-> s, transfer |-> t]
    BY <1>3
  <2>2. i2c' \in [state : ContextStates, transfer : Transfers]
    BY <1>2, <2>1 DEF ContextStates, Transfers
  <2> QED
    BY <1>1, <2>2 DEF Ina228Types
<1>5. MeasurementInv'
  BY <1>1, <1>3 DEF MeasurementInv, TransferFits, ConversionFits, ChoiceIsFree
<1>6. ReadingsInv'
  BY <1>1 DEF ReadingsInv, ResultFits, HeldFits, ModelFits
<1> QED
  BY <1>4, <1>5, <1>6

\* A transfer ends well or badly, and its context is free.
LEMMA ContextFreed ==
  ASSUME Ina228Types, NEW success \in BOOLEAN, i2c' = Finished(i2c, success)
  PROVE  /\ i2c' \in [state : ContextStates, transfer : Transfers]
         /\ i2c'.state \in {"IDLE", "ERROR"}
<1>1. CASE success
  BY <1>1 DEF Finished, Ina228Types, ContextStates
<1>2. CASE ~success
  BY <1>2 DEF Finished, Ina228Types, ContextStates
<1> QED
  BY <1>1, <1>2

\* A reading of current changes nothing else.
LEMMA ReadCompleteKeeps ==
  ASSUME Ina228Inv, NEW success \in BOOLEAN, OnReadComplete(success),
         i2c' = Finished(i2c, success), UNCHANGED << meas_is_ntc, loopVars >>
  PROVE  Ina228Inv'
<1> USE DEF Ina228Inv, OnReadComplete, resultVars, loopVars, chipVars
<1>1. Ina228Types'
  BY ContextFreed DEF Ina228Types
<1>2. MeasurementInv'
  BY ContextFreed DEF MeasurementInv, TransferFits, ConversionFits, ChoiceIsFree
<1>3. ReadingsInv'
  BY DEF ReadingsInv, ResultFits, HeldFits, ModelFits
<1> QED
  BY <1>1, <1>2, <1>3

\* A configuration write that succeeds begins a conversion, or ends the measurement.
LEMMA ConfigWriteKeeps ==
  ASSUME Ina228Inv, NEW success \in BOOLEAN, OnConfigWriteComplete(success),
         i2c' = Finished(i2c, success), UNCHANGED << meas_is_ntc, loopVars >>
  PROVE  Ina228Inv'
<1> USE DEF Ina228Inv
<1>1. /\ UNCHANGED << meas_is_ntc, control, temp_result_is_ntc, temp_raw >>
      /\ UNCHANGED << temp_reading_available, held_is_ntc, held_raw, model_temp >>
  BY DEF OnConfigWriteComplete, resultVars, loopVars
<1>2. i2c.state = "WRITING" /\ ConfigReaches(success) /\ chip_left' \in Nat
  BY Ina228Assumption DEF OnConfigWriteComplete, ConfigReaches, chipVars, Ina228Types
<1>3. CASE success /\ meas_state = "TRIGGER_PENDING"
  <2>1. meas_state' = "CONVERTING" /\ waited' = 0
    BY <1>3 DEF OnConfigWriteComplete
  <2>2. chip' = i2c.transfer /\ chip_left' = ConversionTime
    BY <1>2, <1>3 DEF ConfigReaches
  <2>3. Ina228Types'
    BY <1>1, <1>2, <2>1, ContextFreed, Ina228Assumption DEF Ina228Types, MeasStates
  <2>4. i2c.transfer = Channel(meas_is_ntc) /\ control \notin {"choose", "request"}
    BY <1>2, <1>3 DEF MeasurementInv, TransferFits, ChoiceIsFree
  <2>5. MeasurementInv'
    BY <1>1, <2>1, <2>2, <2>4, ContextFreed, Ina228Assumption
      DEF MeasurementInv, TransferFits, ConversionFits, ChoiceIsFree
  <2> QED
    BY <1>1, <2>3, <2>5 DEF ReadingsInv, ResultFits, HeldFits, ModelFits
<1>4. CASE ~(success /\ meas_state = "TRIGGER_PENDING")
  <2>1. /\ waited' = waited
        /\ \/ meas_state' = meas_state
           \/ meas_state = "RESTORE_PENDING" /\ meas_state' = "CURRENT"
    <3>1. CASE success /\ meas_state = "RESTORE_PENDING"
      BY <1>4, <3>1 DEF OnConfigWriteComplete
    <3>2. CASE ~success
      BY <3>2 DEF OnConfigWriteComplete
    <3>3. CASE meas_state \notin {"TRIGGER_PENDING", "RESTORE_PENDING"}
      BY <3>3 DEF OnConfigWriteComplete
    <3> QED
      BY <1>4, <3>1, <3>2, <3>3
  <2>2. meas_state \in {"TRIGGER_PENDING", "RESTORE_PENDING"}
    BY <1>2 DEF MeasurementInv, TransferFits
  <2>3. Ina228Types'
    BY <1>1, <1>2, <2>1, ContextFreed DEF Ina228Types, MeasStates
  <2>4. MeasurementInv'
    BY <1>1, <2>1, <2>2, ContextFreed
      DEF MeasurementInv, TransferFits, ConversionFits, ChoiceIsFree
  <2> QED
    BY <1>1, <2>3, <2>4 DEF ReadingsInv, ResultFits, HeldFits, ModelFits
<1> QED
  BY <1>3, <1>4

\* A temperature that is read is a finished conversion of the channel it is taken for.
LEMMA TempReadKeeps ==
  ASSUME Ina228Inv, NEW success \in BOOLEAN, OnTempReadComplete(success),
         i2c' = Finished(i2c, success), UNCHANGED << meas_is_ntc, loopVars >>
  PROVE  Ina228Inv'
<1> USE DEF Ina228Inv
<1>1. /\ UNCHANGED << meas_is_ntc, control, waited, chip, chip_left >>
      /\ UNCHANGED << held_is_ntc, held_raw, model_temp >>
  BY DEF OnTempReadComplete, loopVars, chipVars
<1>2. /\ meas_state = "CONVERTING" /\ i2c.transfer = Channel(meas_is_ntc)
      /\ waited = WaitTime /\ chip = Channel(meas_is_ntc)
  BY DEF OnTempReadComplete, MeasurementInv, TransferFits, ConversionFits
<1>3. chip_left = 0
  BY <1>2, Ina228Assumption DEF MeasurementInv, ConversionFits, Ina228Types
<1>4. CASE success
  <2>1. /\ temp_raw' = Channel(meas_is_ntc) /\ temp_result_is_ntc' = meas_is_ntc
        /\ meas_state' = "RESTORE_PENDING"
    BY <1>2, <1>3, <1>4 DEF OnTempReadComplete
  <2>2. Ina228Types'
    BY <1>1, <2>1, ContextFreed DEF Ina228Types, MeasStates
  <2>3. MeasurementInv'
    BY <1>1, <1>2, <2>1, ContextFreed
      DEF MeasurementInv, TransferFits, ConversionFits, ChoiceIsFree
  <2>4. ReadingsInv'
    BY <1>1, <2>1 DEF ReadingsInv, ResultFits, HeldFits, ModelFits
  <2> QED
    BY <2>2, <2>3, <2>4
<1>5. CASE ~success
  <2>1. UNCHANGED << meas_state, temp_result_is_ntc, temp_raw, temp_reading_available >>
    BY <1>5 DEF OnTempReadComplete, resultVars
  <2>2. Ina228Types'
    BY <1>1, <2>1, ContextFreed DEF Ina228Types
  <2>3. MeasurementInv'
    BY <1>1, <2>1, ContextFreed DEF MeasurementInv, TransferFits, ConversionFits, ChoiceIsFree
  <2>4. ReadingsInv'
    BY <1>1, <2>1 DEF ReadingsInv, ResultFits, HeldFits, ModelFits
  <2> QED
    BY <2>2, <2>3, <2>4
<1> QED
  BY <1>4, <1>5

-------------------------------------------------------------------------------

\* The loop takes over what the interrupt has left.
LEMMA TakeTemperatureKeeps ==
  ASSUME Ina228Inv, TakeTemperature
  PROVE  Ina228Inv'
<1> USE DEF Ina228Inv
<1>1. /\ UNCHANGED << i2c, waited, chip, chip_left, meas_state, meas_is_ntc >>
      /\ UNCHANGED << temp_result_is_ntc, temp_raw, temp_reading_available, model_temp >>
  BY DEF TakeTemperature, sharedVars, chipVars, resultVars
<1>2. CASE temp_reading_available
  <2>1. held_is_ntc' = temp_result_is_ntc /\ held_raw' = temp_raw /\ control' = "taken"
    BY <1>2 DEF TakeTemperature
  <2>2. Ina228Types' /\ MeasurementInv'
    BY <1>1, <2>1 DEF Ina228Types, ControlPlaces, MeasurementInv, TransferFits, ConversionFits,
      ChoiceIsFree
  <2>3. ReadingsInv'
    BY <1>1, <1>2, <2>1 DEF ReadingsInv, ResultFits, HeldFits, ModelFits
  <2> QED
    BY <2>2, <2>3
<1>3. CASE ~temp_reading_available
  <2>1. held_is_ntc' = held_is_ntc /\ held_raw' = held_raw /\ control' = "stored"
    BY <1>3 DEF TakeTemperature
  <2>2. Ina228Types' /\ MeasurementInv'
    BY <1>1, <2>1 DEF Ina228Types, ControlPlaces, MeasurementInv, TransferFits, ConversionFits,
      ChoiceIsFree
  <2>3. ReadingsInv'
    BY <1>1, <2>1 DEF ReadingsInv, ResultFits, HeldFits, ModelFits
  <2> QED
    BY <2>2, <2>3
<1> QED
  BY <1>2, <1>3

\* What it stores is what the channel had.
LEMMA StoreTemperatureKeeps ==
  ASSUME Ina228Inv, StoreTemperature
  PROVE  Ina228Inv'
<1> USE DEF Ina228Inv
<1>1. /\ UNCHANGED << i2c, waited, chip, chip_left, meas_state, meas_is_ntc >>
      /\ UNCHANGED << temp_result_is_ntc, temp_raw, held_is_ntc, held_raw >>
      /\ control' = "stored" /\ temp_reading_available' = FALSE
  BY DEF StoreTemperature, sharedVars, chipVars
<1>2. Ina228Types' /\ MeasurementInv'
  BY <1>1 DEF Ina228Types, ControlPlaces, MeasurementInv, TransferFits, ConversionFits,
    ChoiceIsFree
<1>3. held_raw = Channel(held_is_ntc) /\ held_is_ntc \in BOOLEAN
  BY DEF StoreTemperature, ReadingsInv, HeldFits, Ina228Types
<1>4. model_temp' = [is_ntc \in BOOLEAN |-> Channel(is_ntc)]
  BY Zenon, <1>3 DEF StoreTemperature, ReadingsInv, ModelFits
<1> QED
  BY <1>1, <1>2, <1>4 DEF ReadingsInv, ResultFits, HeldFits, ModelFits

\* It asks for a temperature only while current is measured.
LEMMA TakeCurrentKeeps ==
  ASSUME Ina228Inv, TakeCurrent
  PROVE  Ina228Inv'
<1> USE DEF Ina228Inv
<1>1. /\ UNCHANGED << i2c, waited, chip, chip_left, meas_state, meas_is_ntc >>
      /\ UNCHANGED << temp_result_is_ntc, temp_raw, temp_reading_available >>
      /\ UNCHANGED << held_is_ntc, held_raw, model_temp >>
  BY DEF TakeCurrent, sharedVars, chipVars, resultVars
<1>2. control' = "idle" \/ (control' = "choose" /\ meas_state = "CURRENT")
  <2>1. CASE meas_state = "CURRENT"
    BY <2>1 DEF TakeCurrent
  <2>2. CASE meas_state # "CURRENT"
    <3>1. ~(temp_interval_counter + 1 >= Interval /\ meas_state = "CURRENT")
      BY <2>2
    <3> QED
      BY Zenon, <2>2, <3>1 DEF TakeCurrent
  <2> QED
    BY <2>1, <2>2
<1>3. Ina228Types' /\ MeasurementInv'
  BY <1>1, <1>2 DEF Ina228Types, ControlPlaces, MeasurementInv, TransferFits, ConversionFits,
    ChoiceIsFree
<1> QED
  BY <1>1, <1>2, <1>3 DEF ReadingsInv, ResultFits, HeldFits, ModelFits

\* No transfer uses the channel that it chooses.
LEMMA ChooseKeeps ==
  ASSUME Ina228Inv, ChooseThenRequest
  PROVE  Ina228Inv'
<1> USE DEF Ina228Inv
<1>1. /\ UNCHANGED << i2c, waited, chip, chip_left >>
      /\ UNCHANGED << temp_result_is_ntc, temp_raw, temp_reading_available >>
      /\ UNCHANGED << held_is_ntc, held_raw, model_temp >>
  BY DEF ChooseThenRequest, sharedVars, chipVars, resultVars
<1>2. /\ meas_state = "CURRENT" /\ control' \in {"request", "idle"}
      /\ meas_is_ntc' \in BOOLEAN
      /\ \/ meas_state' = "CURRENT"
         \/ meas_state' = "TRIGGER_PENDING" /\ control' = "idle"
  BY DEF ChooseThenRequest, MeasurementInv, ChoiceIsFree, Ina228Types
<1>3. Ina228Types'
  BY <1>1, <1>2 DEF Ina228Types, ControlPlaces, MeasStates
<1>4. MeasurementInv'
  BY <1>1, <1>2 DEF MeasurementInv, TransferFits, ConversionFits, ChoiceIsFree
<1> QED
  BY <1>1, <1>2, <1>3, <1>4 DEF ReadingsInv, ResultFits, HeldFits, ModelFits

\* The chip finishes no later than the driver has waited.
LEMMA PassKeeps ==
  ASSUME Ina228Inv, Pass
  PROVE  Ina228Inv'
<1> USE DEF Ina228Inv
<1>1. /\ UNCHANGED << i2c, meas_state, meas_is_ntc, chip, control >>
      /\ UNCHANGED << temp_result_is_ntc, temp_raw, temp_reading_available >>
      /\ UNCHANGED << held_is_ntc, held_raw, model_temp >>
  BY DEF Pass, loopVars, resultVars
<1>2. /\ waited \in Nat /\ waited <= WaitTime /\ WaitTime \in Nat /\ chip_left \in Nat
      /\ chip_left' = IF chip_left > 0 THEN chip_left - 1 ELSE 0
      /\ waited' = IF waited < WaitTime THEN waited + 1 ELSE waited
  BY Ina228Assumption DEF Pass, Ina228Types
<1>3. chip_left' \in Nat /\ waited' \in 0 .. WaitTime
  BY <1>2
<1>4. chip_left + waited <= WaitTime => chip_left' + waited' <= WaitTime
  BY <1>2
<1>5. waited = WaitTime => waited' = WaitTime
  BY <1>2
<1>6. Ina228Types'
  BY <1>1, <1>3 DEF Ina228Types
<1>7. MeasurementInv'
  BY <1>1, <1>4, <1>5 DEF MeasurementInv, TransferFits, ConversionFits, ChoiceIsFree
<1> QED
  BY <1>1, <1>6, <1>7 DEF ReadingsInv, ResultFits, HeldFits, ModelFits

-------------------------------------------------------------------------------

LEMMA Ina228Steps == Ina228Inv /\ [Ina228Next]_ina228Vars => Ina228Inv'
<1> SUFFICES ASSUME Ina228Inv, [Ina228Next]_ina228Vars PROVE Ina228Inv'
  OBVIOUS
<1>1. CASE TimerFires
  BY <1>1, TimerKeeps
<1>2. ASSUME NEW success \in BOOLEAN, TransferEnds(success)
      PROVE  Ina228Inv'
  BY <1>2, ReadCompleteKeeps, ConfigWriteKeeps, TempReadKeeps DEF TransferEnds
<1>3. CASE ReadCurrentAsync
  BY <1>3, TakeTemperatureKeeps, StoreTemperatureKeeps, TakeCurrentKeeps, ChooseKeeps
    DEF ReadCurrentAsync
<1>4. CASE Pass
  BY <1>4, PassKeeps
<1>5. CASE UNCHANGED ina228Vars
  <2>1. Ina228Types' /\ MeasurementInv'
    BY <1>5 DEF ina228Vars, Ina228Inv, Ina228Types, MeasurementInv, TransferFits,
      ConversionFits, ChoiceIsFree
  <2>2. ReadingsInv'
    BY <1>5 DEF ina228Vars, Ina228Inv, ReadingsInv, ResultFits, HeldFits, ModelFits
  <2> QED
    BY <2>1, <2>2 DEF Ina228Inv
<1> QED
  BY <1>1, <1>2, <1>3, <1>4, <1>5 DEF Ina228Next

\* Every temperature that the model stores is a finished conversion of its own channel,
\* for every conversion time not above the time that ina228.c waits.
THEOREM TemperaturesAreOwn == Ina228Spec => []TemperaturesAreTheirOwn
<1>1. Ina228Inv => TemperaturesAreTheirOwn
  BY DEF Ina228Inv, ReadingsInv, ModelFits, TemperaturesAreTheirOwn
<1> QED
  BY Ina228Starts, Ina228Steps, <1>1, PTL DEF Ina228Spec

================================================================================
