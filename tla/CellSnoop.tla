-------------------------------- MODULE CellSnoop --------------------------------
(***************************************************************************)
(* supervisor/cell_snoop.c: the supervisor hears the controller's reads of  *)
(* the five banks on the bus and puts them together to scans.  A transfer   *)
(* is heard with the bank and the form (long or short) that its request     *)
(* names, and with the modules whose data has a good CRC; what the decoder  *)
(* of the symbols cannot make out is not heard at all.                      *)
(***************************************************************************)
EXTENDS Integers

CONSTANTS
  SnoopBanks,        \* CELL_MAP_BANKS
  Modules,           \* all modules a reply may have,
  PackModules        \*   and those of the pack: PACK_MODULES_MASK

ASSUME SnoopAssumption == SnoopBanks \in Nat \ {0} /\ PackModules \subseteq Modules

VARIABLES
  next_bank,                     \* the bank expected next, or -1
  pending_is_long, pending_module_ok,
  pending,                       \* the banks of pending_mV, and for each module
                                 \*   which of them are its own
  scan_ready, scan               \* the last complete scan: what each module read

snoopVars == << next_bank, pending_is_long, pending_module_ok, pending, scan_ready, scan >>

NoCells == [m \in Modules |-> {}]

SnoopInit ==
  /\ next_bank = -1 /\ pending_is_long = FALSE /\ pending_module_ok = {}
  /\ pending = NoCells
  /\ scan_ready = FALSE /\ scan = NoCells

\* Bank A starts a new scan, whatever became of the last one.
Expected(bank) == IF bank = 0 THEN 0 ELSE next_bank
Form(bank, long) == IF bank = 0 THEN long ELSE pending_is_long
ModulesOk(bank) == IF bank = 0 THEN Modules ELSE pending_module_ok
Before(bank) == IF bank = 0 THEN NoCells ELSE pending

\* Fault variant: a read out of sequence is left out.
IgnoresOutOfSequence(bank, long) == UNCHANGED snoopVars

\* Out of sequence, bank A missed or the form changed: wait for the next scan.
OutOfSequence(bank, long) ==
  /\ bank # Expected(bank) \/ long # Form(bank, long)
  /\ next_bank' = -1
  /\ UNCHANGED << pending_is_long, pending_module_ok, pending, scan_ready, scan >>

\* Another bank, with the data of the modules in good.
InSequence(bank, long, good) ==
  /\ bank = Expected(bank) /\ long = Form(bank, long)
  /\ pending_is_long' = long
  /\ pending_module_ok' = ModulesOk(bank) \intersect good
  /\ pending' = [m \in Modules |-> IF m \in good THEN Before(bank)[m] \union {bank}
                                                 ELSE Before(bank)[m]]
  /\ next_bank' = IF bank + 1 < SnoopBanks THEN bank + 1 ELSE -1
  /\ IF bank + 1 = SnoopBanks /\ PackModules \subseteq pending_module_ok'
       THEN /\ scan_ready' = TRUE
            /\ scan' = [m \in Modules |-> IF m \in pending_module_ok' THEN pending'[m] ELSE {}]
       ELSE UNCHANGED << scan_ready, scan >>

\* process_bank.
Hear(bank, long, good) == OutOfSequence(bank, long) \/ InSequence(bank, long, good)

\* cell_snoop_take_scan.
TakeScan ==
  /\ scan_ready
  /\ scan_ready' = FALSE
  /\ UNCHANGED << next_bank, pending_is_long, pending_module_ok, pending, scan >>
===============================================================================
