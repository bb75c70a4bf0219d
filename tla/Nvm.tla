----------------------------------- MODULE Nvm -----------------------------------
(***************************************************************************)
(* drivers/chip/nvm.c: the fast and slow persistent data in two files, the  *)
(* periodic save of the fast data and the save scheduled for the next tick, *)
(* with the clock in ticks that they share and that wraps.                  *)
(*                                                                         *)
(* LittleFS is external: an operation works or does not, and a file changes *)
(* as a whole when it is closed, so that a reset during a save leaves the   *)
(* file as it was (the save is then one of those that do not work).         *)
(***************************************************************************)
EXTENDS Integers

CONSTANTS
  StepLimit,           \* where timestep() wraps, for 2^32
  SavePeriod,          \* 300000 / TIMESTEP_PERIOD_MS
  MaxFailures          \* bound: saves of the fast data that fail in a row

ASSUME NvmAssumption ==
  /\ SavePeriod \in Nat \ {0} /\ MaxFailures \in Nat
  /\ StepLimit \in Nat /\ StepLimit > 2 * SavePeriod

VARIABLES
  timestep, nvm_fast_saved_timestep,
  ticked,              \* nvm_tick of this tick has run
  file,                \* "none", "foreign": of another version, or "own"
  loaded_files,        \* those loaded at boot
  behind,              \* history: ticks since the fast file had the data of RAM,
                       \*   not counting those in which a save was scheduled again
  asked,               \* history: ticks since the last scheduled save, or -1
  failures             \* history: saves of the fast data that failed since one worked

nvmClock == << timestep, nvm_fast_saved_timestep, ticked >>
nvmVars == << nvmClock, file, loaded_files, behind, asked, failures >>

Files == {"fast", "slow"}

\* The longest that the file may fall behind.
LongestBehind == SavePeriod * (MaxFailures + 1)

NvmInit ==
  /\ timestep = 1 /\ nvm_fast_saved_timestep = 0 /\ ticked = FALSE
  /\ file \in [Files -> {"none", "foreign", "own"}] /\ loaded_files = {}
  /\ behind = 0 /\ asked = -1 /\ failures = 0

\* nvm_load: mount, open, read; then the version is looked at.
LoadOutcomes(name) ==
  IF file[name] = "own" THEN BOOLEAN ELSE {FALSE}

\* nvm_save: mount, open, write, close, of which the last two are not checked.  What
\* it returns is ignored by all who save on a clock.
Saved(name, done) == file' = [file EXCEPT ![name] = IF done THEN "own" ELSE @]

\* A reset, and init_model and update_boot_count, which formats what does not mount.
Boot ==
  /\ timestep' = 1 /\ nvm_fast_saved_timestep' = 0 /\ ticked' = FALSE
  /\ \E slow \in LoadOutcomes("slow"), fast \in LoadOutcomes("fast") :
       loaded_files' = {name \in Files : IF name = "slow" THEN slow ELSE fast}
  /\ \/ UNCHANGED file
     \/ loaded_files' = {} /\ file' = [name \in Files |-> "none"]
  /\ behind' = 0 /\ asked' = -1 /\ failures' = 0

\* nvm_schedule_save_persistent_fast: as if the last save had been a period ago but
\* for one tick.
Schedule ==
  /\ ~ticked
  /\ nvm_fast_saved_timestep' = (timestep + StepLimit - SavePeriod + 1) % StepLimit
  /\ asked' = 0
  /\ UNCHANGED << timestep, ticked, file, loaded_files, behind, failures >>

\* nvm_save_persistent_slow, by a calibration or for a setting.
SaveSlow ==
  /\ ~ticked
  /\ \E done \in BOOLEAN : Saved("slow", done)
  /\ UNCHANGED << nvmClock, loaded_files, behind, asked, failures >>

\* Fault variant: the sum is wider than the clock.
PeriodOverWide == timestep >= nvm_fast_saved_timestep + SavePeriod

\* timestep_every_ms: the sum wraps as the clock does.
PeriodOver == timestep >= (nvm_fast_saved_timestep + SavePeriod) % StepLimit

\* nvm_tick: the clock is set whether or not the save then works.
NvmTick ==
  /\ ~ticked /\ ticked' = TRUE
  /\ IF PeriodOver
       THEN /\ nvm_fast_saved_timestep' = timestep
            /\ \E done \in BOOLEAN :
                 /\ done \/ failures < MaxFailures
                 /\ Saved("fast", done)
                 /\ behind' = IF done THEN 0 ELSE behind
                 /\ asked' = IF done THEN -1 ELSE asked
                 /\ failures' = IF done THEN 0 ELSE failures + 1
       ELSE UNCHANGED << nvm_fast_saved_timestep, file, behind, asked, failures >>
  /\ UNCHANGED << timestep, loaded_files >>

\* The tick is over; RAM moves on.
NextTimestep ==
  /\ ticked /\ ticked' = FALSE
  /\ timestep' = (timestep + 1) % StepLimit
  /\ behind' = IF behind <= LongestBehind /\ asked # 0 THEN behind + 1 ELSE behind
  /\ asked' = IF asked \in 0 .. 1 THEN asked + 1 ELSE asked
  /\ UNCHANGED << nvm_fast_saved_timestep, file, loaded_files, failures >>

NvmNext == Boot \/ Schedule \/ SaveSlow \/ NvmTick \/ NextTimestep

NvmSpec == NvmInit /\ [][NvmNext]_nvmVars
-----------------------------------------------------------------------------
\* What a restart finds in the fast file is at most a save period old, or as many as
\* saves have failed and one more, and it is of the tick after the last scheduled
\* save or later unless a save failed, although both share one clock, each save sets
\* it back, and its sums wrap from the first tick after boot on.  Saves scheduled in
\* tick after tick put one another off (the TODO at nvm.c:227): such ticks are not
\* counted.
FlashIsRecent ==
  /\ behind <= SavePeriod * (failures + 1)
  /\ failures = 0 => (asked <= 1 /\ (asked = 1 => ~ticked))
===============================================================================
