------------------------------ MODULE Links_proofs ------------------------------
(***************************************************************************)
(* Proofs about what the battery controller logs, saves and tells: the log  *)
(* with its readers, the files in flash, and the HMI on the serial line.    *)
(***************************************************************************)
EXTENDS LogRing, Nvm, HmiSerial, FiniteSetTheorems, WellFoundedInduction, TLAPS

(***************************************************************************)
(* Flash.  How long ago the save's clock was set, modulo the clock, is      *)
(* never more than a period, because the sum that ends the period wraps as  *)
(* the clock does.  The file falls behind by that, by a period for each     *)
(* failed save, and by the tick in which a save was scheduled.              *)
(***************************************************************************)

SinceSaved ==
  IF timestep >= nvm_fast_saved_timestep
    THEN timestep - nvm_fast_saved_timestep
    ELSE timestep + StepLimit - nvm_fast_saved_timestep

NvmTypes ==
  /\ timestep \in 0 .. (StepLimit - 1) /\ nvm_fast_saved_timestep \in 0 .. (StepLimit - 1)
  /\ behind \in Nat /\ asked \in -1 .. 2 /\ failures \in Nat

SavedInPeriod ==
  /\ SinceSaved <= SavePeriod
  /\ ticked \/ asked = 0 => SinceSaved < SavePeriod

BehindByFailures ==
  behind <= SavePeriod * failures + SinceSaved + (IF asked = 0 THEN 1 ELSE 0)

\* A scheduled save is due in the next tick.
DueWhenAsked ==
  failures = 0 =>
    /\ asked = 0 => SinceSaved = SavePeriod - 1
    /\ asked = 1 => SinceSaved = SavePeriod /\ ~ticked
    /\ asked # 2

NvmInv == NvmTypes /\ SavedInPeriod /\ BehindByFailures /\ DueWhenAsked

\* A sum of the clock and less than its range wraps at most once.
LEMMA ClockSum ==
  ASSUME NEW P \in Nat \ {0}, NEW x \in Nat, x < 2 * P
  PROVE  x % P = (IF x < P THEN x ELSE x - P)
OBVIOUS

LEMMA NextSave ==
  ASSUME NvmTypes, SinceSaved <= SavePeriod
  PROVE  ~PeriodOver => SinceSaved < SavePeriod
<1>1. (nvm_fast_saved_timestep + SavePeriod) % StepLimit
        = (IF nvm_fast_saved_timestep + SavePeriod < StepLimit
             THEN nvm_fast_saved_timestep + SavePeriod
             ELSE nvm_fast_saved_timestep + SavePeriod - StepLimit)
  <2>1. PICK x \in Nat : x = nvm_fast_saved_timestep + SavePeriod
    BY NvmAssumption DEF NvmTypes
  <2>2. StepLimit \in Nat \ {0} /\ x < 2 * StepLimit
    BY <2>1, NvmAssumption DEF NvmTypes
  <2>3. x % StepLimit = (IF x < StepLimit THEN x ELSE x - StepLimit)
    BY <2>2, ClockSum
  <2>4. (nvm_fast_saved_timestep + SavePeriod) % StepLimit = x % StepLimit
    BY <2>1
  <2> QED
    BY <2>1, <2>3, <2>4, NvmAssumption DEF NvmTypes
<1> QED
  BY <1>1, NvmAssumption DEF NvmTypes, SinceSaved, PeriodOver

LEMMA NvmStarts == NvmInit => NvmInv
<1> SUFFICES ASSUME NvmInit PROVE NvmInv
  OBVIOUS
<1> USE NvmAssumption DEF NvmInit
<1>1. SinceSaved = 1 /\ SavePeriod * failures = 0
  BY DEF SinceSaved
<1> QED
  BY <1>1 DEF NvmInv, NvmTypes, SavedInPeriod, BehindByFailures, DueWhenAsked

LEMMA BootKeepsNvm ==
  ASSUME NvmInv, Boot
  PROVE  NvmInv'
<1> USE NvmAssumption DEF Boot
<1>1. SinceSaved' = 1 /\ SavePeriod * failures' = 0
  BY DEF SinceSaved
<1> QED
  BY <1>1 DEF NvmInv, NvmTypes, SavedInPeriod, BehindByFailures, DueWhenAsked

LEMMA ScheduleKeepsNvm ==
  ASSUME NvmInv, Schedule
  PROVE  NvmInv'
<1> USE NvmAssumption DEF NvmInv, Schedule
<1>1. PICK x \in Nat : x = timestep + StepLimit - SavePeriod + 1
  BY DEF NvmTypes
<1>2. nvm_fast_saved_timestep'
        = (IF timestep + StepLimit - SavePeriod + 1 < StepLimit
             THEN timestep + StepLimit - SavePeriod + 1
             ELSE timestep - SavePeriod + 1)
  <2>1. nvm_fast_saved_timestep' = x % StepLimit
    BY <1>1
  <2>2. StepLimit \in Nat \ {0} /\ x < 2 * StepLimit
    BY <1>1 DEF NvmTypes
  <2>3. x % StepLimit = (IF x < StepLimit THEN x ELSE x - StepLimit)
    BY <2>2, ClockSum
  <2> QED
    BY <1>1, <2>1, <2>3 DEF NvmTypes
<1>3. NvmTypes'
  BY <1>2 DEF NvmTypes
<1>4. SinceSaved' = SavePeriod - 1
  BY <1>2 DEF NvmTypes, SinceSaved
<1>5. PICK m \in Nat : m = SavePeriod * failures
  BY DEF NvmTypes
<1>6. behind <= m + SavePeriod
  <2>1. SinceSaved \in Nat
    BY DEF NvmTypes, SinceSaved
  <2> QED
    BY <1>5, <2>1 DEF NvmTypes, BehindByFailures, SavedInPeriod
<1>7. BehindByFailures'
  BY <1>3, <1>4, <1>5, <1>6 DEF BehindByFailures, NvmTypes
<1> QED
  BY <1>3, <1>4, <1>7 DEF SavedInPeriod, DueWhenAsked

LEMMA NvmTickKeepsNvm ==
  ASSUME NvmInv, NvmTick
  PROVE  NvmInv'
<1> USE NvmAssumption DEF NvmInv
<1>1. SinceSaved \in Nat
  BY DEF NvmTypes, SinceSaved
<1>2. CASE ~PeriodOver
  <2>1. UNCHANGED << timestep, nvm_fast_saved_timestep, behind, asked, failures >> /\ ~ticked
    BY <1>2 DEF NvmTick
  <2>2. SinceSaved < SavePeriod /\ SinceSaved' = SinceSaved
    BY <1>2, <2>1, NextSave DEF SavedInPeriod, SinceSaved
  <2> QED
    BY <2>1, <2>2 DEF NvmTypes, SavedInPeriod, BehindByFailures, DueWhenAsked
<1>3. CASE PeriodOver
  <2>1. PICK done \in BOOLEAN :
          /\ behind' = (IF done THEN 0 ELSE behind)
          /\ asked' = (IF done THEN -1 ELSE asked)
          /\ failures' = (IF done THEN 0 ELSE failures + 1)
    BY <1>3 DEF NvmTick
  <2>2. nvm_fast_saved_timestep' = timestep /\ timestep' = timestep
    BY <1>3 DEF NvmTick
  <2>3. SinceSaved' = 0 /\ NvmTypes'
    BY <2>1, <2>2 DEF NvmTypes, SinceSaved
  <2>4. CASE done
    <3>1. behind' = 0 /\ asked' = -1 /\ failures' = 0 /\ SavePeriod * 0 = 0
      BY <2>1, <2>4
    <3> QED
      BY <2>3, <3>1 DEF SavedInPeriod, BehindByFailures, DueWhenAsked
  <2>5. CASE ~done
    <3>1. behind' = behind /\ asked' = asked /\ failures' = failures + 1
      BY <2>1, <2>5
    <3>2. SavePeriod * (failures + 1) = SavePeriod * failures + SavePeriod
      BY DEF NvmTypes
    <3>3. PICK m \in Nat : m = SavePeriod * failures
      BY DEF NvmTypes
    <3>4. behind <= m + SavePeriod
      BY <1>1, <3>3 DEF NvmTypes, BehindByFailures, SavedInPeriod
    <3>5. BehindByFailures'
      BY <2>3, <3>1, <3>2, <3>3, <3>4 DEF BehindByFailures, NvmTypes
    <3> QED
      BY <2>3, <3>1, <3>5 DEF SavedInPeriod, DueWhenAsked, NvmTypes
  <2> QED
    BY <2>4, <2>5
<1> QED
  BY <1>2, <1>3

LEMMA NextTimestepKeepsNvm ==
  ASSUME NvmInv, NextTimestep
  PROVE  NvmInv'
<1> USE NvmAssumption DEF NvmInv, NextTimestep
<1>1. timestep' = (IF timestep + 1 < StepLimit THEN timestep + 1 ELSE timestep + 1 - StepLimit)
  <2>1. PICK x \in Nat : x = timestep + 1
    BY DEF NvmTypes
  <2>2. StepLimit \in Nat \ {0} /\ x < 2 * StepLimit
    BY <2>1 DEF NvmTypes
  <2>3. x % StepLimit = (IF x < StepLimit THEN x ELSE x - StepLimit)
    BY <2>2, ClockSum
  <2>4. timestep' = x % StepLimit
    BY <2>1
  <2> QED
    BY <2>1, <2>3, <2>4, NvmAssumption DEF NvmTypes
<1>2. NvmTypes'
  <2>1. asked' \in -1 .. 2 /\ behind' \in Nat
    BY DEF NvmTypes
  <2> QED
    BY <1>1, <2>1 DEF NvmTypes
<1>3. SinceSaved' = SinceSaved + 1 /\ SinceSaved \in Nat
  BY <1>1 DEF NvmTypes, SinceSaved, SavedInPeriod
<1>4. SavedInPeriod'
  BY <1>3 DEF NvmTypes, SavedInPeriod
<1>5. BehindByFailures'
  <2>1. PICK m \in Nat : m = SavePeriod * failures
    BY DEF NvmTypes
  <2>2. asked' # 0
    BY DEF NvmTypes
  <2>3. behind' <= m + SinceSaved + 1
    BY <1>3, <2>1 DEF BehindByFailures, NvmTypes
  <2> QED
    BY <1>3, <2>1, <2>2, <2>3 DEF BehindByFailures, NvmTypes
<1>6. DueWhenAsked'
  BY <1>3 DEF DueWhenAsked, NvmTypes
<1> QED
  BY <1>2, <1>4, <1>5, <1>6

LEMMA NvmSteps == NvmInv /\ [NvmNext]_nvmVars => NvmInv'
<1> SUFFICES ASSUME NvmInv, [NvmNext]_nvmVars PROVE NvmInv'
  OBVIOUS
<1>1. CASE SaveSlow \/ UNCHANGED nvmVars
  <2>1. UNCHANGED << timestep, nvm_fast_saved_timestep, ticked, behind, asked, failures >>
    BY <1>1 DEF SaveSlow, nvmVars, nvmClock
  <2> QED
    BY <2>1 DEF NvmInv, NvmTypes, SavedInPeriod, BehindByFailures, DueWhenAsked, SinceSaved
<1> QED
  BY <1>1, BootKeepsNvm, ScheduleKeepsNvm, NvmTickKeepsNvm, NextTimestepKeepsNvm DEF NvmNext

\* What a restart finds in the fast file is at most as old as FlashIsRecent says
\* (nvm.c:227), for any clock, any period and any failures, over any number of wraps.
THEOREM FlashStaysRecent == NvmSpec => []FlashIsRecent
<1>1. NvmInv => FlashIsRecent
  <2> SUFFICES ASSUME NvmInv PROVE FlashIsRecent
    OBVIOUS
  <2> USE NvmAssumption DEF NvmInv
  <2>1. SavePeriod * (failures + 1) = SavePeriod * failures + SavePeriod
    BY DEF NvmTypes
  <2>2. SinceSaved \in Nat
    BY DEF NvmTypes, SinceSaved
  <2>3. PICK m \in Nat : m = SavePeriod * failures
    BY DEF NvmTypes
  <2>4. behind <= SavePeriod * (failures + 1)
    BY <2>1, <2>2, <2>3 DEF BehindByFailures, SavedInPeriod, NvmTypes
  <2>5. failures = 0 => asked <= 1
    BY DEF NvmTypes, DueWhenAsked
  <2> QED
    BY <2>4, <2>5 DEF FlashIsRecent, DueWhenAsked
<1> QED
  BY <1>1, NvmStarts, NvmSteps, PTL DEF NvmSpec

-------------------------------------------------------------------------------
(***************************************************************************)
(* Announcements.  While registers are read often enough, the next one is   *)
(* due announce_period after some tick since they were last read: that      *)
(* reading put it off, and an announcement since then has done so again.    *)
(***************************************************************************)

DeviceTypes ==
  /\ clock \in 0 .. (ClockLimit - 1) /\ next_announce \in 0 .. (ClockLimit - 1)
  /\ since_poll \in 1 .. AnnouncePeriod

\* The tick announce_period after the one that was j ticks ago.
DueAfter(j) ==
  IF clock + AnnouncePeriod - j < ClockLimit
    THEN clock + AnnouncePeriod - j
    ELSE clock + AnnouncePeriod - j - ClockLimit

PutOff ==
  since_poll < AnnouncePeriod => \E j \in 1 .. since_poll : next_announce = DueAfter(j)

AnnounceInv == DeviceTypes /\ PutOff

LEMMA TickKeepsAnnounce ==
  ASSUME AnnounceInv, HmiTick
  PROVE  AnnounceInv'
<1> USE HmiAssumption DEF AnnounceInv
<1>1. PICK polled \in BOOLEAN : Announce(polled)
  BY DEF HmiTick
<1>2. clock' = (IF clock + 1 < ClockLimit THEN clock + 1 ELSE clock + 1 - ClockLimit)
  <2>1. PICK x \in Nat : x = clock + 1
    BY DEF DeviceTypes
  <2>2. ClockLimit \in Nat \ {0} /\ x < 2 * ClockLimit
    BY <2>1 DEF DeviceTypes
  <2>3. x % ClockLimit = (IF x < ClockLimit THEN x ELSE x - ClockLimit)
    BY <2>2, ClockSum
  <2>4. clock' = x % ClockLimit
    BY <2>1 DEF HmiTick
  <2> QED
    BY <2>1, <2>3, <2>4 DEF DeviceTypes
<1> DEFINE due == clock >= next_announce
<1>3. /\ next_announce' = Postponed(polled, due)
      /\ since_poll' = (IF polled THEN 1
                         ELSE IF since_poll < AnnouncePeriod THEN since_poll + 1
                         ELSE since_poll)
  BY <1>1 DEF Announce
<1>4. (clock + AnnouncePeriod) % ClockLimit
        = (IF clock + AnnouncePeriod < ClockLimit
             THEN clock + AnnouncePeriod ELSE clock + AnnouncePeriod - ClockLimit)
  <2>1. PICK x \in Nat : x = clock + AnnouncePeriod
    BY DEF DeviceTypes
  <2>2. ClockLimit \in Nat \ {0} /\ x < 2 * ClockLimit
    BY <2>1 DEF DeviceTypes
  <2>3. x % ClockLimit = (IF x < ClockLimit THEN x ELSE x - ClockLimit)
    BY <2>2, ClockSum
  <2>4. (clock + AnnouncePeriod) % ClockLimit = x % ClockLimit
    BY <2>1
  <2> QED
    BY <2>1, <2>3, <2>4 DEF DeviceTypes
<1>5. since_poll' \in 1 .. AnnouncePeriod
  BY <1>3 DEF DeviceTypes
<1>6. CASE polled \/ due
  <2>1. next_announce' = (clock + AnnouncePeriod) % ClockLimit
    BY <1>3, <1>6 DEF Postponed
  <2>2. next_announce' \in 0 .. (ClockLimit - 1)
    BY <1>4, <2>1 DEF DeviceTypes
  <2>3. AnnouncePeriod > 1 => next_announce' = DueAfter(1)'
    BY <1>2, <1>4, <2>1 DEF DeviceTypes, DueAfter
  <2> QED
    BY <1>2, <1>5, <2>2, <2>3 DEF DeviceTypes, PutOff
<1>7. CASE ~(polled \/ due)
  <2>1. next_announce' = next_announce
    BY <1>3, <1>7 DEF Postponed
  <2>2. ASSUME since_poll' < AnnouncePeriod
        PROVE  \E j \in 1 .. since_poll' : next_announce' = DueAfter(j)'
    <3>1. since_poll < AnnouncePeriod /\ since_poll' = since_poll + 1
      BY <1>3, <1>7, <2>2 DEF DeviceTypes
    <3>2. PICK j \in 1 .. since_poll : next_announce = DueAfter(j)
      BY <3>1 DEF PutOff
    <3>3. j + 1 \in 1 .. since_poll' /\ next_announce' = DueAfter(j + 1)'
      BY <1>2, <2>1, <2>2, <3>1, <3>2 DEF DeviceTypes, DueAfter
    <3> QED
      BY <3>3
  <2> QED
    BY <1>2, <1>5, <2>1, <2>2 DEF DeviceTypes, PutOff
<1> QED
  BY <1>6, <1>7

LEMMA AnnounceSteps == AnnounceInv /\ [HmiNext]_hmiVars => AnnounceInv'
<1> SUFFICES ASSUME AnnounceInv, [HmiNext]_hmiVars PROVE AnnounceInv'
  OBVIOUS
<1>1. CASE RaiseEvent \/ UNCHANGED hmiVars
  BY <1>1 DEF RaiseEvent, hmiVars, deviceVars, AnnounceInv, DeviceTypes, PutOff, DueAfter
<1>2. CASE Restart
  BY <1>2, HmiAssumption DEF Restart, AnnounceInv, DeviceTypes, PutOff
<1> QED
  BY <1>1, <1>2, TickKeepsAnnounce DEF HmiNext

\* No announcement gets in the way of a conversation (hmi_serial.c:940), for any
\* period and any clock, but for the last period before the clock wraps.
THEOREM QuietDuringPolls == HmiSpec => QuietWhilePolled
<1>1. HmiInit => AnnounceInv
  BY HmiAssumption DEF HmiInit, AnnounceInv, DeviceTypes, PutOff
<1>2. AnnounceInv /\ [HmiNext]_hmiVars
        => [(HmiTick /\ announced' /\ clock < ClockLimit - AnnouncePeriod)
              => since_poll >= AnnouncePeriod]_hmiVars
  <2> SUFFICES ASSUME AnnounceInv, HmiTick, announced', clock < ClockLimit - AnnouncePeriod,
                      since_poll < AnnouncePeriod
               PROVE  FALSE
    BY HmiAssumption DEF AnnounceInv, DeviceTypes
  <2>1. clock >= next_announce
    BY DEF HmiTick, Announce
  <2>2. PICK j \in 1 .. since_poll : next_announce = DueAfter(j)
    BY DEF AnnounceInv, PutOff
  <2> QED
    BY <2>1, <2>2, HmiAssumption DEF AnnounceInv, DeviceTypes, DueAfter
<1> QED
  BY <1>1, <1>2, AnnounceSteps, PTL DEF HmiSpec, QuietWhilePolled

-------------------------------------------------------------------------------
(***************************************************************************)
(* Settings.  A message that needs no flashing writes to every register     *)
(* what it holds.  The first write for which this were not so would have    *)
(* found what was there before the message.                                 *)
(***************************************************************************)

\* The least and the greatest of some numbers.
LEMMA LeastOf ==
  ASSUME NEW S \in SUBSET Nat, S # {}
  PROVE  \E x \in S : \A y \in S : x <= y
<1>1. PICK x \in S : \A y \in S : ~(<<y, x>> \in OpToRel(<, Nat))
  BY NatLessThanWellFounded, WFMin
<1>2. ASSUME NEW y \in S, y < x
      PROVE  FALSE
  <2>1. << y, x >> \in Nat \X Nat /\ << y, x >>[1] < << y, x >>[2]
    BY <1>2
  <2>2. << y, x >> \in OpToRel(<, Nat)
    BY <2>1, Zenon DEF OpToRel
  <2> QED
    BY <1>1, <2>2
<1> QED
  BY <1>2

LEMMA MinIs ==
  ASSUME NEW S \in SUBSET Nat, S # {}
  PROVE  Min(S) \in S /\ \A y \in S : Min(S) <= y
BY LeastOf DEF Min

LEMMA MaxIs ==
  ASSUME NEW n \in Nat, NEW S \in SUBSET (0 .. n), S # {}
  PROVE  Max(S) \in S /\ \A y \in S : Max(S) >= y
<1> DEFINE T == {k \in 0 .. n : n - k \in S}
<1>1. PICK y \in S : TRUE
  OBVIOUS
<1>2. n - y \in T
  <2>1. n - y \in 0 .. n /\ n - (n - y) = y
    OBVIOUS
  <2> QED
    BY <2>1
<1>3. PICK k \in T : \A j \in T : k <= j
  <2>1. T \in SUBSET Nat
    OBVIOUS
  <2>2. T # {}
    BY <1>2
  <2> HIDE DEF T
  <2> QED
    BY <2>1, <2>2, LeastOf
<1>4. n - k \in S
  OBVIOUS
<1>5. ASSUME NEW z \in S
      PROVE  n - k >= z
  <2>1. n - z \in 0 .. n /\ n - (n - z) = z
    OBVIOUS
  <2>2. n - z \in T
    BY <2>1
  <2>3. k <= n - z
    BY <1>3, <2>2
  <2> QED
    BY <2>1, <2>3
<1> QED
  BY <1>4, <1>5 DEF Max

SettingTypes ==
  /\ settings \in [Registers -> Values16] /\ flash \in [Registers -> Values16]
  /\ save_failed \in BOOLEAN

\* What a register holds is what it held before, or what the write before has stored.
LEMMA HoldsAfter ==
  ASSUME NEW writes \in Messages16, NEW i \in 1 .. Len(writes), NEW reg \in Registers
  PROVE  HoldsBefore(writes, i + 1, reg)
           = IF writes[i].reg = reg THEN StoredAs(reg, writes[i].value)
             ELSE HoldsBefore(writes, i, reg)
<1> DEFINE earlier(k) == {j \in 1 .. (k - 1) : writes[j].reg = reg}
<1>1. i \in Nat /\ (i + 1) - 1 = i
  BY DEF Messages16
<1>2. CASE writes[i].reg = reg
  <2>1. i \in earlier(i + 1) /\ \A j \in earlier(i + 1) : i >= j
    BY <1>1, <1>2
  <2>2. earlier(i + 1) \in SUBSET (0 .. i)
    BY <1>1
  <2>3. Max(earlier(i + 1)) = i
    <3> HIDE DEF earlier
    <3>1. PICK m \in earlier(i + 1) : m = Max(earlier(i + 1)) /\ m >= i
      BY <1>1, <2>1, <2>2, MaxIs
    <3>2. i >= m /\ m \in 0 .. i
      BY <2>1, <2>2, <3>1
    <3> QED
      BY <1>1, <3>1, <3>2
  <2> QED
    BY <1>2, <2>1, <2>3 DEF HoldsBefore
<1>3. CASE writes[i].reg # reg
  <2>1. earlier(i + 1) = earlier(i)
    BY <1>1, <1>3
  <2> QED
    BY <1>3, <2>1 DEF HoldsBefore
<1> QED
  BY <1>2, <1>3

LEMMA HoldsFirst ==
  ASSUME NEW writes, NEW reg
  PROVE  HoldsBefore(writes, 1, reg) = settings[reg]
<1>1. 1 .. (1 - 1) = {}
  OBVIOUS
<1> QED
  BY <1>1 DEF HoldsBefore

LEMMA LengthOf ==
  ASSUME NEW writes \in Messages16
  PROVE  /\ Len(writes) \in Nat
         /\ \A i \in 1 .. Len(writes) : writes[i] \in [reg : Registers, value : Values16]
         /\ DOMAIN writes = 1 .. Len(writes)
<1>1. PICK n \in 1 .. MaxWrites : writes \in [1 .. n -> [reg : Registers, value : Values16]]
  BY DEF Messages16
<1>2. n \in Nat /\ Len(writes) = n
  BY <1>1, HmiAssumption
<1> QED
  BY <1>1, <1>2

\* Nothing is changed by a message that needs no flashing.
LEMMA NothingToFlash ==
  ASSUME SettingTypes, NEW writes \in Messages16, ~NeedsFlashing(writes), NEW reg \in Registers,
         NEW k \in 1 .. (Len(writes) + 1)
  PROVE  HoldsBefore(writes, k, reg) = settings[reg]
<1> DEFINE wrong == {i \in 1 .. (Len(writes) + 1) : HoldsBefore(writes, i, reg) # settings[reg]}
<1> SUFFICES ASSUME wrong # {} PROVE FALSE
  OBVIOUS
<1>1. PICK m \in wrong : \A i \in wrong : m <= i
  <2>1. wrong \in SUBSET Nat
    BY LengthOf
  <2> HIDE DEF wrong
  <2> QED
    BY <2>1, LeastOf
<1>2. m # 1
  BY HoldsFirst
<1>3. PICK i \in 1 .. Len(writes) : i + 1 = m
  <2>1. m - 1 \in 1 .. Len(writes) /\ (m - 1) + 1 = m
    BY <1>2, LengthOf
  <2> QED
    BY <2>1
<1>4. HoldsBefore(writes, i, reg) = settings[reg]
  <2>1. i \in 1 .. (Len(writes) + 1) /\ ~(m <= i)
    BY <1>3, LengthOf
  <2> QED
    BY <1>1, <2>1
<1>5. CASE writes[i].reg = reg
  <2>1. /\ writes[i] \in [reg : Registers, value : Values16] /\ i \in DOMAIN writes
        /\ settings[reg] \in Values16
    BY LengthOf DEF SettingTypes
  <2>2. HoldsBefore(writes, i, reg)
          = (IF reg \in Limits THEN writes[i].value + 1 ELSE writes[i].value)
    BY <1>5, <2>1 DEF NeedsFlashing
  <2>3. StoredAs(reg, writes[i].value) = settings[reg]
    <3>1. CASE reg \in Limits
      <4>1. writes[i].value + 1 = settings[reg]
        BY <1>4, <2>2, <3>1
      <4>2. settings[reg] \in 0 .. (WriteLimit - 1)
        BY <2>1 DEF Values16
      <4>3. settings[reg] % WriteLimit = settings[reg]
        BY <4>2, HmiAssumption
      <4> QED
        BY <3>1, <4>1, <4>3 DEF StoredAs
    <3> QED
      BY <1>4, <2>2, <3>1 DEF StoredAs
  <2> QED
    BY <1>3, <1>5, <2>3, HoldsAfter
<1>6. CASE writes[i].reg # reg
  BY <1>3, <1>4, <1>6, HoldsAfter
<1> QED
  BY <1>5, <1>6

LEMMA HoldsIsTyped ==
  ASSUME SettingTypes, NEW writes \in Messages16, NEW reg \in Registers
  PROVE  HoldsBefore(writes, Len(writes) + 1, reg) \in Values16
<1> DEFINE n == Len(writes)
<1> DEFINE earlier == {j \in 1 .. ((n + 1) - 1) : writes[j].reg = reg}
<1>1. n \in Nat /\ (n + 1) - 1 = n
  BY LengthOf
<1>2. CASE earlier = {}
  BY <1>2 DEF HoldsBefore, SettingTypes
<1>3. CASE earlier # {}
  <2>1. earlier \in SUBSET (0 .. n)
    BY <1>1
  <2>2. Max(earlier) \in earlier
    <3> HIDE DEF earlier
    <3> QED
      BY <1>1, <1>3, <2>1, MaxIs
  <2>3. PICK j \in 1 .. n : j = Max(earlier)
    BY <1>1, <2>2
  <2>4. PICK v \in 0 .. (WriteLimit - 1) : v = writes[j].value
    BY LengthOf, <2>3 DEF Values16
  <2>5. StoredAs(reg, v) \in 0 .. (WriteLimit - 1)
    <3>1. (v + 1) % WriteLimit \in 0 .. (WriteLimit - 1)
      BY HmiAssumption
    <3> QED
      BY <3>1 DEF StoredAs
  <2> QED
    BY <1>3, <2>3, <2>4, <2>5 DEF HoldsBefore, Values16
<1> QED
  BY <1>2, <1>3

SettingsInv == SettingTypes /\ SettingsAreSaved

LEMMA WriteKeepsSettings ==
  ASSUME SettingsInv, NEW addr \in Addresses, NEW writes \in Messages16,
         WriteRegisters(addr, writes)
  PROVE  SettingsInv'
<1> USE DEF SettingsInv
<1>1. CASE addr = device_address
  <2>1. settings' = [r \in Registers |-> HoldsBefore(writes, Len(writes) + 1, r)]
    BY <1>1 DEF WriteRegisters
  <2>2. settings' \in [Registers -> Values16]
    BY <2>1, HoldsIsTyped
  <2>3. CASE NeedsFlashing(writes)
    <3>1. \/ flash' = settings' /\ save_failed' = FALSE
          \/ save_failed' = TRUE /\ UNCHANGED flash
      BY <1>1, <2>3 DEF WriteRegisters
    <3>2. SettingTypes'
      BY <2>2, <3>1 DEF SettingTypes
    <3>3. SettingsAreSaved'
      BY <3>1 DEF SettingsAreSaved
    <3> QED
      BY <3>2, <3>3
  <2>4. CASE ~NeedsFlashing(writes)
    <3>1. UNCHANGED << flash, save_failed >>
      BY <1>1, <2>4 DEF WriteRegisters
    <3>2. Len(writes) + 1 \in 1 .. (Len(writes) + 1)
      BY LengthOf
    <3>3. \A r \in Registers : settings'[r] = settings[r]
      BY <2>1, <2>4, <3>2, NothingToFlash
    <3>4. settings' = settings
      BY <2>2, <3>3 DEF SettingTypes
    <3> QED
      BY <3>1, <3>4 DEF SettingTypes, SettingsAreSaved
  <2> QED
    BY <2>3, <2>4
<1>2. CASE addr # device_address
  BY <1>2 DEF WriteRegisters, settingVars, SettingTypes, SettingsAreSaved
<1> QED
  BY <1>1, <1>2

LEMMA SettingsSteps == SettingsInv /\ [HmiNext]_hmiVars => SettingsInv'
<1> SUFFICES ASSUME SettingsInv, [HmiNext]_hmiVars PROVE SettingsInv'
  OBVIOUS
<1>1. CASE UNCHANGED settingVars
  BY <1>1 DEF settingVars, SettingsInv, SettingTypes, SettingsAreSaved
<1>2. CASE HmiTick
  <2>1. \/ UNCHANGED settingVars
        \/ \E addr \in Addresses, writes \in Messages16 : WriteRegisters(addr, writes)
    BY <1>2 DEF HmiTick, ReadRegisters, SetDeviceAddress, ReadEvents, NothingHandled
  <2> QED
    BY <1>1, <2>1, WriteKeepsSettings
<1>3. CASE RaiseEvent \/ UNCHANGED hmiVars
  BY <1>1, <1>3 DEF RaiseEvent, hmiVars
<1>4. CASE Restart
  BY <1>4 DEF Restart, SettingsInv, SettingTypes, SettingsAreSaved
<1> QED
  BY <1>2, <1>3, <1>4 DEF HmiNext

\* What is in use is what a restart finds, unless the last save failed
\* (hmi_handle_write_registers), for any registers and messages of any length.
THEOREM SettingsStaySaved == HmiSpec => []SettingsAreSaved
<1>1. HmiInit => SettingsInv
  <2> SUFFICES ASSUME HmiInit PROVE SettingsInv
    OBVIOUS
  <2>1. 0 \in Values16
    BY HmiAssumption DEF Values16
  <2>2. settings \in [Registers -> Values16] /\ flash = settings
    BY <2>1 DEF HmiInit
  <2>3. save_failed = FALSE
    BY DEF HmiInit
  <2> QED
    BY <2>2, <2>3 DEF SettingsInv, SettingTypes, SettingsAreSaved
<1> QED
  BY <1>1, SettingsSteps, PTL DEF HmiSpec, SettingsInv

-------------------------------------------------------------------------------
(***************************************************************************)
(* Paging.  A page ends before the slot at which the next one begins, holds *)
(* every slot raised between, and is not empty, so that the next one begins *)
(* further on.                                                              *)
(***************************************************************************)

PageTypes ==
  /\ raised \in SUBSET Slots /\ page_from \in 0 .. Highest /\ told \in [Slots -> Nat]

\* The HMI has been told once of what it could have asked for and has passed, and of
\* nothing that is still to come.
ToldOnce ==
  /\ at_start \in SUBSET raised
  /\ \A i \in Slots : told[i] <= 1 /\ (i >= page_from => told[i] = 0)
  /\ \A i \in at_start : i < page_from => told[i] = 1

PagingInv == PageTypes /\ ToldOnce

\* What NextIndex says of the page.
LEMMA PageEnds ==
  ASSUME raised \in SUBSET Slots, NEW start \in 0 .. (Highest - 1)
  PROVE  /\ NextIndex(start) \in start + 1 .. Highest
         /\ \A i \in Page(start) : i \in From(start) /\ i < NextIndex(start)
         /\ \A i \in From(start) : i < NextIndex(start) => i \in Page(start)
<1> USE HmiAssumption
<1>1. /\ From(start) \in SUBSET Slots /\ Page(start) \in SUBSET From(start)
      /\ \A i \in From(start) : i \in Nat /\ i >= start /\ i < Highest
  <2>1. From(start) \in SUBSET Slots
    BY DEF From
  <2>2. Page(start) \in SUBSET From(start)
    BY DEF Page
  <2>3. \A i \in From(start) : i >= start
    BY DEF From
  <2>4. \A i \in Slots : i \in Nat /\ i < Highest
    BY DEF Slots
  <2> QED
    BY <2>1, <2>2, <2>3, <2>4
<1>2. CASE From(start) = Page(start)
  BY <1>1, <1>2 DEF NextIndex
<1>3. CASE From(start) # Page(start)
  <2> DEFINE left == From(start) \ Page(start)
             before(i) == {j \in From(start) : j < i}
  <2>1. left # {}
    BY <1>1, <1>3
  <2>2. left \in SUBSET Nat
    BY <1>1
  <2>3. PICK m \in left : m = Min(left) /\ \A i \in left : m <= i
    <3> HIDE DEF left
    <3> QED
      BY <2>1, <2>2, MinIs
  <2>4. NextIndex(start) = m
    BY <1>3, <2>3 DEF NextIndex
  <2>5. m \in From(start) /\ ~(Cardinality(before(m)) < PageSize)
    BY DEF Page
  <2>6. IsFiniteSet(before(m)) /\ Cardinality(before(m)) \in Nat
    <3>1. before(m) \in SUBSET (0 .. Highest)
      BY <1>1
    <3>2. IsFiniteSet(0 .. Highest)
      BY FS_Interval
    <3>3. IsFiniteSet(before(m))
      BY <3>1, <3>2, FS_Subset
    <3> QED
      BY <3>3, FS_CardinalityType
  <2>7. m > start
    <3> SUFFICES ASSUME m <= start PROVE FALSE
      BY <1>1, <2>5
    <3>1. before(m) = {}
      BY <1>1
    <3>2. Cardinality(before(m)) = 0
      BY <3>1, FS_EmptySet
    <3> QED
      BY <2>5, <3>2
  <2>8. ASSUME NEW i \in Page(start)
        PROVE  i < m
    <3> SUFFICES ASSUME m <= i PROVE FALSE
      BY <1>1, <2>5
    <3>1. Cardinality(before(i)) < PageSize
      BY DEF Page
    <3>2. before(m) \in SUBSET before(i)
      BY <1>1, <2>5
    <3>3. IsFiniteSet(before(i))
      <4>1. before(i) \in SUBSET (0 .. Highest)
        BY <1>1
      <4>2. IsFiniteSet(0 .. Highest)
        BY FS_Interval
      <4> QED
        BY <4>1, <4>2, FS_Subset
    <3>4. Cardinality(before(m)) <= Cardinality(before(i)) /\ Cardinality(before(i)) \in Nat
      <4> HIDE DEF before
      <4> QED
        BY <3>2, <3>3, FS_Subset, FS_CardinalityType
    <3> QED
      BY <2>5, <2>6, <3>1, <3>4
  <2>9. ASSUME NEW i \in From(start), i < m
        PROVE  i \in Page(start)
    <3> SUFFICES ASSUME i \in left PROVE FALSE
      OBVIOUS
    <3>1. m <= i
      BY <2>3
    <3>2. i \in Nat /\ m \in Nat
      BY <1>1, <2>5
    <3> QED
      BY <2>9, <3>1, <3>2
  <2> QED
    BY <1>1, <2>4, <2>5, <2>7, <2>8, <2>9
<1> QED
  BY <1>2, <1>3

LEMMA ReadKeepsPaging ==
  ASSUME PagingInv, NEW addr \in Addresses, ReadEvents(addr), UNCHANGED raised
  PROVE  PagingInv'
<1> USE HmiAssumption DEF PagingInv, PageTypes
<1> DEFINE start == IF page_from = Highest THEN 0 ELSE page_from
           before == IF start = 0 THEN Untold ELSE told
<1>1. start \in 0 .. (Highest - 1)
  OBVIOUS
<1>2. /\ told' = [i \in Slots |-> IF i \in Page(start) THEN before[i] + 1 ELSE before[i]]
      /\ page_from' = NextIndex(start)
      /\ at_start' = IF start = 0 THEN raised ELSE at_start
  BY DEF ReadEvents
<1>3. /\ before \in [Slots -> Nat]
      /\ \A i \in Slots : before[i] <= 1 /\ (i >= start => before[i] = 0)
      /\ \A i \in at_start' : i < start => before[i] = 1
  <2>1. CASE start = 0
    <3>1. before = [i \in Slots |-> 0]
      BY <2>1 DEF Untold
    <3>2. \A i \in at_start' : i \in Nat
      BY <1>2, <2>1 DEF Slots
    <3> QED
      BY <2>1, <3>1, <3>2
  <2>2. CASE start # 0
    BY <1>2, <2>2 DEF ToldOnce
  <2> QED
    BY <2>1, <2>2
<1>4. at_start' \in SUBSET raised
  BY <1>2 DEF ToldOnce
<1> HIDE DEF start, before
<1>5. /\ page_from' \in 0 .. Highest /\ page_from' > start
      /\ \A i \in Page(start) : i \in From(start) /\ i < page_from'
      /\ \A i \in From(start) : i < page_from' => i \in Page(start)
  BY <1>1, <1>2, PageEnds
<1>6. \A i \in Slots : told'[i] = IF i \in Page(start) THEN before[i] + 1 ELSE before[i]
  BY <1>2
<1>7. PageTypes'
  <2>1. told' \in [Slots -> Nat]
    BY <1>2, <1>3
  <2> QED
    BY <1>5, <2>1
<1>8. ASSUME NEW i \in Slots
      PROVE  told'[i] <= 1 /\ (i >= page_from' => told'[i] = 0)
  <2>1. i \in Nat /\ before[i] \in Nat
    BY <1>3 DEF Slots
  <2>2. CASE i \in Page(start)
    BY <1>1, <1>3, <1>5, <1>6, <2>1, <2>2 DEF From
  <2>3. CASE i \notin Page(start)
    BY <1>1, <1>3, <1>5, <1>6, <2>1, <2>3
  <2> QED
    BY <2>2, <2>3
<1>9. ASSUME NEW i \in at_start', i < page_from'
      PROVE  told'[i] = 1
  <2>1. i \in raised /\ i \in Slots /\ i \in Nat
    BY <1>4 DEF Slots
  <2>2. CASE i < start
    <3>1. i \notin Page(start)
      BY <1>1, <1>5, <2>1, <2>2 DEF From
    <3> QED
      BY <1>3, <1>6, <2>1, <2>2, <3>1
  <2>3. CASE i >= start
    <3>1. i \in Page(start)
      BY <1>5, <1>9, <2>1, <2>3 DEF From
    <3> QED
      BY <1>3, <1>6, <2>1, <2>3, <3>1
  <2> QED
    BY <1>1, <2>1, <2>2, <2>3
<1> QED
  BY <1>4, <1>7, <1>8, <1>9 DEF ToldOnce

LEMMA PagingSteps == PagingInv /\ [HmiNext]_hmiVars => PagingInv'
<1> SUFFICES ASSUME PagingInv, [HmiNext]_hmiVars PROVE PagingInv'
  OBVIOUS
<1>1. CASE UNCHANGED pageVars /\ UNCHANGED raised
  BY <1>1 DEF pageVars, PagingInv, PageTypes, ToldOnce
<1>2. CASE HmiTick
  <2>1. UNCHANGED raised
    BY <1>2 DEF HmiTick
  <2>2. \/ UNCHANGED pageVars
        \/ \E addr \in Addresses : ReadEvents(addr)
    BY <1>2 DEF HmiTick, ReadRegisters, SetDeviceAddress, WriteRegisters, NothingHandled
  <2> QED
    BY <1>1, <2>1, <2>2, ReadKeepsPaging
<1>3. CASE RaiseEvent
  <2>1. PICK i \in Slots : raised' = raised \union {i}
    BY <1>3 DEF RaiseEvent
  <2>2. UNCHANGED pageVars
    BY <1>3 DEF RaiseEvent
  <2> QED
    BY <2>1, <2>2 DEF pageVars, PagingInv, PageTypes, ToldOnce
<1>4. CASE Restart
  BY <1>4, HmiAssumption DEF Restart, PagingInv, PageTypes, ToldOnce, Untold, Slots
<1>5. CASE UNCHANGED hmiVars
  BY <1>1, <1>5 DEF hmiVars
<1> QED
  BY <1>2, <1>3, <1>4, <1>5 DEF HmiNext

\* The HMI is told once of each event there is (hmi_handle_read_events), for any number
\* of events and any page, whichever are raised meanwhile.
THEOREM EventsAreToldOnce == HmiSpec => []EventsPagedOnce
<1>1. HmiInit => PagingInv
  BY HmiAssumption DEF HmiInit, PagingInv, PageTypes, ToldOnce, Untold, Slots
<1>2. PagingInv => EventsPagedOnce
  BY HmiAssumption DEF PagingInv, PageTypes, ToldOnce, EventsPagedOnce, Slots
<1> QED
  BY <1>1, <1>2, PagingSteps, PTL DEF HmiSpec

-------------------------------------------------------------------------------
(***************************************************************************)
(* The log.  A byte's place in the ring is its number modulo the ring, for  *)
(* the writer always and for a reader unless it is misled.  Whatever a      *)
(* reader has not read, up to a whole ring of it, is in its place.          *)
(***************************************************************************)

\* Quotient and remainder.
LEMMA Quotient ==
  ASSUME NEW P \in Nat \ {0}, NEW p \in Nat
  PROVE  p \div P \in Nat /\ p % P \in 0 .. P - 1 /\ p = P * (p \div P) + (p % P)
<1>1. p % P \in 0 .. P - 1
  OBVIOUS
<1>2. p \div P \in Nat
  OBVIOUS
<1>3. p = P * (p \div P) + (p % P)
  OBVIOUS
<1> QED
  BY <1>1, <1>2, <1>3

LEMMA SmallMultiple ==
  ASSUME NEW P \in Nat \ {0}, NEW d \in Int, P * d < P, -P < P * d
  PROVE  d = 0
OBVIOUS

LEMMA QuotientIs ==
  ASSUME NEW P \in Nat \ {0}, NEW p \in Nat, NEW a \in Int, NEW s \in 0 .. P - 1,
         p = P * a + s
  PROVE  p \div P = a /\ p % P = s
<1>1. PICK q \in Int, r \in 0 .. P - 1 : q = p \div P /\ r = p % P /\ p = P * q + r
  BY Quotient
<1>2. P * (q - a) = s - r
  BY <1>1
<1>3. q - a = 0
  BY <1>2, SmallMultiple
<1> QED
  BY <1>1, <1>2, <1>3

\* Numbers that differ by whole rings have the same place.
LEMMA SamePlaces ==
  ASSUME NEW P \in Nat \ {0}, NEW p \in Nat, NEW q \in Nat, NEW k \in Int, p = q + P * k
  PROVE  p % P = q % P
<1>1. PICK a \in Int, s \in 0 .. P - 1 : q = P * a + s /\ q % P = s
  <2>1. q \div P \in Int /\ q % P \in 0 .. P - 1 /\ q = P * (q \div P) + (q % P)
    BY Quotient
  <2> QED
    BY <2>1
<1>2. a + k \in Int /\ p = P * (a + k) + s
  BY <1>1
<1>3. p % P = s
  BY <1>2, QuotientIs
<1> QED
  BY <1>1, <1>3

\* The counters wrap at a multiple of the ring's size.
LEMMA WholeRings ==
  \E k \in Int : CountLimit = LogSize * k
<1>1. CountLimit \in Nat /\ LogSize \in Nat \ {0} /\ CountLimit % LogSize = 0
  BY LogAssumption
<1>2. CountLimit \div LogSize \in Nat /\ CountLimit = LogSize * (CountLimit \div LogSize) + 0
  BY <1>1, Quotient
<1> QED
  BY <1>1, <1>2

LEMMA WrappedPlace ==
  ASSUME NEW p \in Nat, NEW q \in Nat,
         p \in {q, q + CountLimit, q - CountLimit, q + LogSize, q - LogSize,
               q + CountLimit - LogSize, q - CountLimit + LogSize}
  PROVE  p % LogSize = q % LogSize
<1>1. PICK k \in Int : CountLimit = LogSize * k
  BY WholeRings
<1>2. \A m \in Int : p = q + LogSize * m => p % LogSize = q % LogSize
  <2> SUFFICES ASSUME NEW m \in Int, p = q + LogSize * m
               PROVE  p % LogSize = q % LogSize
    OBVIOUS
  <2>1. LogSize \in Nat \ {0}
    BY LogAssumption
  <2> QED
    BY <2>1, SamePlaces
<1>3. CountLimit \in Nat /\ LogSize \in Nat \ {0}
  BY LogAssumption
<1>4. p = q => p % LogSize = q % LogSize
  OBVIOUS
<1>5. p = q + CountLimit => p % LogSize = q % LogSize
  BY <1>1, <1>2
<1>6. p = q - CountLimit => p % LogSize = q % LogSize
  <2>1. LogSize * (-k) = -CountLimit /\ -k \in Int
    BY <1>1, <1>3
  <2> QED
    BY <1>2, <1>3, <2>1
<1>7. p = q + LogSize => p % LogSize = q % LogSize
  <2>1. LogSize * 1 = LogSize /\ 1 \in Int
    BY <1>3
  <2> QED
    BY <1>2, <1>3, <2>1
<1>8. p = q - LogSize => p % LogSize = q % LogSize
  <2>1. LogSize * (-1) = -LogSize /\ -1 \in Int
    BY <1>3
  <2> QED
    BY <1>2, <1>3, <2>1
<1>9. p = q + CountLimit - LogSize => p % LogSize = q % LogSize
  <2>1. LogSize * (k - 1) = CountLimit - LogSize /\ k - 1 \in Int
    BY <1>1, <1>3
  <2> QED
    BY <1>2, <1>3, <2>1
<1>10. p = q - CountLimit + LogSize => p % LogSize = q % LogSize
  <2>1. PICK m \in Int : m = 1 - k
    OBVIOUS
  <2>2. LogSize * m = LogSize - CountLimit
    BY <1>1, <1>3, <2>1
  <2>3. p = q - CountLimit + LogSize => p = q + LogSize * m
    BY <1>3, <2>2
  <2> QED
    BY <1>2, <2>3
<1> QED
  BY <1>4, <1>5, <1>6, <1>7, <1>8, <1>9, <1>10

\* How far behind the one number's place another's is.
LEMMA PlaceBehind ==
  ASSUME NEW x \in Nat, NEW y \in Nat
  PROVE  (((x + y) % LogSize) + LogSize - (x % LogSize)) % LogSize = y % LogSize
<1> USE LogAssumption
<1>1. PICK a \in Int, r \in 0 .. LogSize - 1 : x = LogSize * a + r /\ x % LogSize = r
  BY Quotient
<1>2. PICK n \in Nat : n = x + y
  OBVIOUS
<1>3. PICK b \in Int, s \in 0 .. LogSize - 1 : n = LogSize * b + s /\ n % LogSize = s
  BY Quotient
<1>4. PICK p \in Nat : p = s + LogSize - r
  OBVIOUS
<1>5. PICK k \in Int : k = a - b + 1
  OBVIOUS
<1>6. p = y + LogSize * k
  BY <1>1, <1>2, <1>3, <1>4, <1>5
<1>7. p % LogSize = y % LogSize
  <2>1. LogSize \in Nat \ {0}
    OBVIOUS
  <2> QED
    BY <1>6, <2>1, SamePlaces
<1>8. ((x + y) % LogSize) + LogSize - (x % LogSize) = p
  <2>1. (x + y) % LogSize = s
    BY <1>2, <1>3
  <2> QED
    BY <1>1, <1>4, <2>1
<1> QED
  BY <1>7, <1>8

\* A place further on.
LEMMA PlaceAfter ==
  ASSUME NEW x \in Nat, NEW y \in Nat
  PROVE  ((x % LogSize) + y) % LogSize = (x + y) % LogSize
<1> USE LogAssumption
<1>1. PICK a \in Int, r \in 0 .. LogSize - 1 : x = LogSize * a + r /\ x % LogSize = r
  BY Quotient
<1>2. PICK p \in Nat : p = r + y
  OBVIOUS
<1>3. PICK n \in Nat : n = x + y
  OBVIOUS
<1>4. n = p + LogSize * a
  BY <1>1, <1>2, <1>3
<1>5. n % LogSize = p % LogSize
  BY <1>4, SamePlaces
<1> QED
  BY <1>1, <1>2, <1>3, <1>5

Counts == 0 .. (CountLimit - 1)
Places0 == 0 .. (LogSize - 1)
Loaded == [at : {"counted", "copying"}, reader : Readers, len : 1 .. MaxRead, count : Counts]

LogTypes ==
  /\ buffer \in [Places0 -> Counts] /\ head \in Places0 /\ write_count \in Counts
  /\ tail \in [Readers -> Places0] /\ read_count \in [Readers -> Counts]
  /\ reading \in Loaded \union {NotReading}
  /\ interrupted \in BOOLEAN /\ misled \in SUBSET Readers

\* The number n before another.
Back(count, n) == IF count >= n THEN count - n ELSE count + CountLimit - n

InStep ==
  /\ head = write_count % LogSize
  /\ \A r \in Readers : r \notin misled => tail[r] = read_count[r] % LogSize

\* What is unread is in the ring, the last LogSize bytes of it.
BytesAreKept ==
  \A r \in Readers : \A j \in 1 .. LogSize :
    j <= Unread(r, write_count)
      => buffer[Back(write_count, j) % LogSize] = Back(write_count, j)

\* A reader believes in no more than there is, and in all of it unless something has
\* been written since; it copies no more than a ring.
CountIsOld ==
  reading # NotReading =>
    /\ Unread(reading.reader, reading.count) <= Unread(reading.reader, write_count)
    /\ ~interrupted => reading.count = write_count
    /\ (reading.at = "copying" /\ ~interrupted)
         => Unread(reading.reader, write_count) <= LogSize

LogInv == LogTypes /\ InStep /\ BytesAreKept /\ CountIsOld /\ ReadsInOrder

LEMMA Difference ==
  ASSUME NEW count \in Nat, count < CountLimit, NEW b \in Nat, b < CountLimit
  PROVE  (count + CountLimit - b) % CountLimit = Back(count, b)
<1>1. CountLimit \in Nat \ {0}
  BY LogAssumption
<1>2. PICK x \in Nat : x = count + CountLimit - b
  BY <1>1
<1>3. x % CountLimit = (IF x < CountLimit THEN x ELSE x - CountLimit)
  <2>1. x < 2 * CountLimit
    BY <1>1, <1>2
  <2> QED
    BY <1>1, <2>1, ClockSum
<1> QED
  BY <1>1, <1>2, <1>3 DEF Back

LEMMA UnreadIs ==
  ASSUME LogTypes, NEW r \in Readers, NEW count \in Counts
  PROVE  Unread(r, count) = Back(count, read_count[r])
<1>1. count \in Nat /\ count < CountLimit /\ read_count[r] \in Nat /\ read_count[r] < CountLimit
  BY LogAssumption DEF LogTypes, Counts
<1> QED
  BY <1>1, Difference DEF Unread

LEMMA BackIs ==
  ASSUME NEW count \in Nat, count < CountLimit, NEW n \in 1 .. LogSize
  PROVE  Back(count, n) \in Nat /\ Back(count, n) < CountLimit
<1>1. n \in Nat \ {0} /\ CountLimit \in Nat /\ n < CountLimit
  BY LogAssumption
<1>2. CASE count >= n
  BY <1>1, <1>2 DEF Back
<1>3. CASE count < n
  BY <1>1, <1>3 DEF Back
<1> QED
  BY <1>2, <1>3

LEMMA LogStarts == LogInit => LogInv
<1> SUFFICES ASSUME LogInit PROVE LogInv
  OBVIOUS
<1> USE LogAssumption DEF LogInit
<1>1. 0 \in Counts /\ 0 \in Places0 /\ 0 % LogSize = 0
  BY DEF Counts, Places0
<1>2. LogTypes
  <2>1. buffer \in [Places0 -> Counts]
    BY <1>1 DEF Places0
  <2>2. tail \in [Readers -> Places0] /\ read_count \in [Readers -> Counts]
    BY <1>1
  <2> QED
    BY <1>1, <2>1, <2>2 DEF LogTypes
<1>3. InStep
  BY <1>1 DEF InStep
<1>4. BytesAreKept
  <2>1. \A r \in Readers : Unread(r, write_count) = 0
    <3> SUFFICES ASSUME NEW r \in Readers PROVE Unread(r, write_count) = 0
      OBVIOUS
    <3>1. Unread(r, write_count) = Back(write_count, read_count[r])
      BY <1>1, <1>2, UnreadIs
    <3> QED
      BY <3>1 DEF Back
  <2> QED
    BY <2>1 DEF BytesAreKept
<1> QED
  BY <1>2, <1>3, <1>4 DEF LogInv, CountIsOld, ReadsInOrder, NothingRead

-------------------------------------------------------------------------------
(* A write. *)

\* The counter wraps at most once.
LEMMA CountGoesOn ==
  ASSUME LogTypes, NEW len \in 1 .. MaxRecord, Write(len)
  PROVE  \E c \in Nat :
           /\ c = write_count' /\ c < CountLimit
           /\ c = (IF write_count + len < CountLimit
                    THEN write_count + len ELSE write_count + len - CountLimit)
<1> USE LogAssumption
<1>1. PICK w \in Nat : w = write_count /\ w < CountLimit
  BY DEF LogTypes, Counts
<1>2. PICK x \in Nat : x = w + len
  OBVIOUS
<1>3. x % CountLimit = (IF x < CountLimit THEN x ELSE x - CountLimit)
  <2>1. CountLimit \in Nat \ {0} /\ x < 2 * CountLimit
    BY <1>1, <1>2
  <2> QED
    BY <2>1, ClockSum
<1>4. write_count' = x % CountLimit
  BY <1>1, <1>2 DEF Write
<1> QED
  BY <1>1, <1>2, <1>3, <1>4

\* What a record leaves at the place of the j-th byte before its end.
LEMMA RecordLeaves ==
  ASSUME LogInv, NEW len \in 1 .. MaxRecord, Write(len), NEW j \in 1 .. LogSize, j <= len
  PROVE  buffer'[Back(write_count', j) % LogSize] = Back(write_count', j)
<1> USE LogAssumption DEF LogInv
<1>1. PICK w \in Counts : w = write_count /\ head = w % LogSize
  BY DEF LogTypes, InStep
<1>2. w \in Nat /\ w < CountLimit
  BY DEF Counts
<1>3. PICK y \in Nat : y = len - j
  OBVIOUS
<1>4. PICK c \in Nat :
        /\ c = write_count' /\ c < CountLimit
        /\ c = (IF w + len < CountLimit THEN w + len ELSE w + len - CountLimit)
  BY <1>1, CountGoesOn
<1>5. PICK n \in Nat : n = Back(c, j) /\ n < CountLimit
  BY <1>4, BackIs
<1>6. PICK z \in Nat : z = w + y /\ n \in {z, z - CountLimit}
  BY <1>2, <1>3, <1>4, <1>5 DEF Back
<1>7. Back(write_count', j) = n
  BY <1>4, <1>5
<1>8. n % LogSize = (w + y) % LogSize
  BY <1>6, WrappedPlace
<1>9. z % CountLimit = n
  <2>1. CountLimit \in Nat \ {0} /\ z < 2 * CountLimit
    BY <1>2, <1>3, <1>6
  <2>2. z % CountLimit = (IF z < CountLimit THEN z ELSE z - CountLimit)
    BY <2>1, ClockSum
  <2> QED
    BY <1>2, <1>5, <1>6, <2>2
<1>10. n % LogSize \in Places0 /\ DOMAIN buffer = Places0
  BY <1>5 DEF LogTypes, Places0
<1>11. PICK q \in Nat, o \in 0 .. LogSize - 1 :
         o = y % LogSize /\ q = y \div LogSize /\ y = LogSize * q + o
  <2>1. /\ y \div LogSize \in Nat /\ y % LogSize \in 0 .. LogSize - 1
        /\ y = LogSize * (y \div LogSize) + (y % LogSize)
    BY Quotient
  <2> QED
    BY <2>1
<1>12. ((n % LogSize) + LogSize - head) % LogSize = o
  <2>1. (((w + y) % LogSize) + LogSize - (w % LogSize)) % LogSize = y % LogSize
    BY <1>2, PlaceBehind
  <2> QED
    BY <1>1, <1>8, <1>11, <2>1
<1>13. (len - 1 - o) \div LogSize = q
  <2>1. PICK p \in Nat : p = len - 1 - o
    <3>1. LogSize * q \in Nat
      OBVIOUS
    <3> QED
      BY <1>3, <1>11, <3>1
  <2>2. p = LogSize * q + (j - 1) /\ j - 1 \in 0 .. LogSize - 1 /\ q \in Int
    BY <1>3, <1>11, <2>1
  <2>3. p \div LogSize = q
    <3>1. LogSize \in Nat \ {0}
      OBVIOUS
    <3> QED
      BY <2>2, <3>1, QuotientIs
  <2> QED
    BY <2>1, <2>3
<1>14. o < len
  <2>1. LogSize * q \in Nat
    OBVIOUS
  <2> QED
    BY <1>3, <1>11, <2>1
<1>15. buffer'[n % LogSize] = (write_count + (o + LogSize * q)) % CountLimit
  BY <1>10, <1>12, <1>13, <1>14 DEF Write
<1>16. write_count + (o + LogSize * q) = z
  BY <1>1, <1>3, <1>6, <1>11
<1> QED
  BY <1>7, <1>9, <1>15, <1>16

\* What a record leaves alone.
LEMMA RecordSpares ==
  ASSUME LogInv, NEW len \in 1 .. MaxRecord, Write(len), NEW j \in 1 .. LogSize, j > len
  PROVE  /\ Back(write_count', j) = Back(write_count, j - len)
         /\ buffer'[Back(write_count', j) % LogSize] = buffer[Back(write_count', j) % LogSize]
<1> USE LogAssumption DEF LogInv
<1>1. PICK w \in Counts : w = write_count /\ head = w % LogSize
  BY DEF LogTypes, InStep
<1>2. w \in Nat /\ w < CountLimit
  BY DEF Counts
<1>3. PICK y \in Nat : y = LogSize - (j - len) /\ y < LogSize /\ y >= len
  OBVIOUS
<1>4. PICK c \in Nat :
        /\ c = write_count' /\ c < CountLimit
        /\ c = (IF w + len < CountLimit THEN w + len ELSE w + len - CountLimit)
  BY <1>1, CountGoesOn
<1>5. PICK n \in Nat : n = Back(c, j) /\ n < CountLimit
  BY <1>4, BackIs
<1>6. n = Back(write_count, j - len)
  BY <1>1, <1>2, <1>4, <1>5 DEF Back
<1>7. PICK z \in Nat : z = w + y /\ n \in {z - LogSize, z + CountLimit - LogSize}
  BY <1>1, <1>2, <1>3, <1>6 DEF Back
<1>8. n % LogSize = (w + y) % LogSize
  BY <1>7, WrappedPlace
<1>9. n % LogSize \in Places0 /\ DOMAIN buffer = Places0
  BY DEF LogTypes, Places0
<1>10. y % LogSize = y
  BY <1>3
<1>11. ((n % LogSize) + LogSize - head) % LogSize = y
  <2>1. (((w + y) % LogSize) + LogSize - (w % LogSize)) % LogSize = y % LogSize
    BY <1>2, PlaceBehind
  <2> QED
    BY <1>1, <1>8, <1>10, <2>1
<1>12. buffer'[n % LogSize] = buffer[n % LogSize]
  BY <1>3, <1>9, <1>11 DEF Write
<1> QED
  BY <1>4, <1>5, <1>6, <1>12

LEMMA WriteKeepsLog ==
  ASSUME LogInv, NEW len \in 1 .. MaxRecord, Write(len)
  PROVE  LogInv'
<1> USE LogAssumption DEF LogInv
<1>1. PICK w \in Nat : w = write_count /\ w < CountLimit /\ head = w % LogSize
  BY DEF LogTypes, InStep, Counts
<1>2. PICK c \in Nat :
        /\ c = write_count' /\ c < CountLimit
        /\ c = (IF w + len < CountLimit THEN w + len ELSE w + len - CountLimit)
  BY <1>1, CountGoesOn
<1>3. LogTypes'
  <2>1. buffer' \in [Places0 -> Counts]
    <3>1. DOMAIN buffer = Places0 /\ \A i \in Places0 : buffer[i] \in Counts
      BY DEF LogTypes
    <3>2. \A n \in Int : n % CountLimit \in Counts
      BY DEF Counts
    <3>3. ASSUME NEW i \in Places0
          PROVE  buffer'[i] \in Counts
      <4> DEFINE offset == (i + LogSize - head) % LogSize
                 last == offset + LogSize * ((len - 1 - offset) \div LogSize)
      <4>1. head \in Nat /\ i \in Nat
        BY <3>3 DEF LogTypes, Places0
      <4>2. offset \in Int
        BY <4>1
      <4>3. last \in Int
        BY <4>2
      <4>4. buffer'[i] = IF offset < len THEN (write_count + last) % CountLimit ELSE buffer[i]
        BY <3>1, <3>3 DEF Write
      <4>5. write_count + last \in Int
        BY <1>1, <4>3
      <4> HIDE DEF offset, last
      <4> QED
        BY <3>1, <3>2, <3>3, <4>4, <4>5
    <3>4. buffer' = [i \in Places0 |-> buffer'[i]]
      BY <3>1 DEF Write
    <3> QED
      BY <3>3, <3>4
  <2>2. head' \in Places0
    BY DEF Write, LogTypes, Places0
  <2>3. write_count' \in Counts
    BY <1>2 DEF Counts
  <2>4. interrupted' \in BOOLEAN
    BY DEF Write
  <2>5. UNCHANGED << tail, read_count, reading, misled >>
    BY DEF Write, readers
  <2> QED
    BY <2>1, <2>2, <2>3, <2>4, <2>5 DEF LogTypes
<1>4. InStep'
  <2>1. head' = (w + len) % LogSize
    <3>1. ((w % LogSize) + len) % LogSize = (w + len) % LogSize
      <4>1. len \in Nat
        OBVIOUS
      <4> QED
        BY <4>1, PlaceAfter
    <3> QED
      BY <1>1, <3>1 DEF Write
  <2>2. PICK x \in Nat : x = w + len
    OBVIOUS
  <2>3. c % LogSize = x % LogSize
    <3>1. c \in {x, x - CountLimit}
      BY <1>2, <2>2
    <3> QED
      BY <2>2, <3>1, WrappedPlace
  <2> QED
    BY <1>2, <2>1, <2>2, <2>3 DEF InStep, Write, readers
<1>5. ASSUME NEW r \in Readers
      PROVE  Unread(r, write_count)' = Unread(r, write_count) + len
                /\ Unread(r, write_count) \in Nat
  <2>1. PICK b \in Nat : b = read_count[r] /\ b < CountLimit
    BY DEF LogTypes, Counts
  <2>2. Unread(r, write_count) = Back(w, b)
    BY <1>1, <2>1, UnreadIs DEF Counts
  <2>3. Unread(r, write_count)' = Back(c, b)
    <3>1. Unread(r, write_count)' = Unread(r, c)
      BY <1>2 DEF Unread, Write, readers
    <3> QED
      BY <1>2, <2>1, <3>1, UnreadIs DEF Counts
  <2>4. Back(w, b) + len < CountLimit
    BY <2>2 DEF Write
  <2> QED
    BY <1>1, <1>2, <2>1, <2>2, <2>3, <2>4 DEF Back
<1>6. BytesAreKept'
  <2> SUFFICES ASSUME NEW r \in Readers, NEW j \in 1 .. LogSize, j <= Unread(r, write_count)'
               PROVE  buffer'[Back(write_count', j) % LogSize] = Back(write_count', j)
    BY DEF BytesAreKept, Back
  <2>1. CASE j <= len
    BY <2>1, RecordLeaves
  <2>2. CASE j > len
    <3>1. j - len \in 1 .. LogSize /\ j - len <= Unread(r, write_count)
      BY <1>5, <2>2
    <3> QED
      BY <2>2, <3>1, RecordSpares DEF BytesAreKept
  <2> QED
    BY <2>1, <2>2
<1>7. CountIsOld'
  <2> SUFFICES ASSUME reading # NotReading
               PROVE  /\ Unread(reading.reader, reading.count)'
                           <= Unread(reading.reader, write_count)'
                      /\ interrupted'
    BY DEF CountIsOld, Write
  <2>1. PICK r \in Readers, count \in Counts : r = reading.reader /\ count = reading.count
    BY DEF LogTypes, Loaded
  <2>2. Unread(r, count) \in Nat
    <3>1. PICK b \in Nat : b = read_count[r] /\ b < CountLimit
      BY DEF LogTypes, Counts
    <3> QED
      BY <3>1, UnreadIs DEF Back, Counts
  <2>3. Unread(r, count) <= Unread(r, write_count)
    BY <2>1 DEF CountIsOld
  <2>4. Unread(r, count)' <= Unread(r, write_count)'
    <3>1. Unread(r, count)' = Unread(r, count)
      BY DEF Unread, Write, readers
    <3> QED
      BY <1>5, <2>2, <2>3, <3>1
  <2>5. interrupted'
    BY DEF Write
  <2>6. reading' = reading
    BY DEF Write
  <2> QED
    BY <2>1, <2>4, <2>5, <2>6
<1>8. ReadsInOrder'
  BY DEF Write, ReadsInOrder
<1> QED
  BY <1>3, <1>4, <1>6, <1>7, <1>8

-------------------------------------------------------------------------------
(* A read. *)

LEMMA LoadCountKeepsLog ==
  ASSUME LogInv, NEW r \in Readers, NEW len \in 1 .. MaxRead, LoadCount(r, len)
  PROVE  LogInv'
<1> USE LogAssumption DEF LogInv
<1>1. UNCHANGED << buffer, head, write_count, tail, read_count, misled >>
  BY DEF LoadCount, writer, readers
<1>2. reading' = [at |-> "counted", reader |-> r, len |-> len, count |-> write_count]
  BY DEF LoadCount
<1>3. LogTypes'
  <2>1. reading' \in Loaded
    BY <1>2 DEF Loaded, LogTypes
  <2>2. interrupted' \in BOOLEAN
    BY DEF LoadCount
  <2> QED
    BY <1>1, <2>1, <2>2 DEF LogTypes
<1>4. InStep' /\ BytesAreKept'
  BY <1>1 DEF InStep, BytesAreKept, Back, Unread
<1>5. CountIsOld'
  <2>1. Unread(r, write_count) \in Nat
    <3>1. PICK b \in Nat : b = read_count[r] /\ b < CountLimit
      BY DEF LogTypes, Counts
    <3> QED
      BY <3>1, UnreadIs DEF Back, Counts, LogTypes
  <2> QED
    BY <1>1, <1>2, <2>1 DEF CountIsOld, Unread
<1>6. ReadsInOrder'
  BY DEF LoadCount, ReadsInOrder, NothingRead
<1> QED
  BY <1>3, <1>4, <1>5, <1>6

LEMMA LoadHeadKeepsLog ==
  ASSUME LogInv, LoadHead
  PROVE  LogInv'
<1> USE LogAssumption DEF LogInv
<1>1. PICK r \in Readers, count \in Counts :
        /\ r = reading.reader /\ count = reading.count
        /\ reading' = [reading EXCEPT !.at = "copying"] /\ reading \in Loaded
  BY DEF LoadHead, LogTypes, NotReading, Loaded
<1>2. /\ UNCHANGED << buffer, head, write_count, got, interrupted >>
      /\ reading' \in Loaded /\ reading # NotReading /\ reading'.at = "copying"
      /\ reading'.reader = r /\ reading'.count = count
  BY <1>1 DEF LoadHead, writer, NotReading, Loaded
<1>3. PICK w \in Nat, b \in Nat, c \in Nat :
        /\ w = write_count /\ b = read_count[r] /\ c = count
        /\ w < CountLimit /\ b < CountLimit /\ c < CountLimit
  BY DEF LogTypes, Counts
<1>4. Unread(r, count) = Back(c, b) /\ Unread(r, write_count) = Back(w, b)
  BY <1>3, UnreadIs DEF Counts
<1>5. Back(c, b) <= Back(w, b) /\ (~interrupted => c = w)
  BY <1>1, <1>2, <1>3, <1>4 DEF CountIsOld
<1>6. CASE Back(c, b) <= LogSize
  <2>1. UNCHANGED << tail, read_count, misled >>
    <3>1. ~(Unread(r, count) > LogSize)
      <4>1. Back(c, b) \in Nat
        BY <1>3 DEF Back
      <4> QED
        BY <1>4, <1>6, <4>1
    <3> QED
      BY <1>1, <3>1 DEF LoadHead, readers
  <2>2. LogTypes' /\ InStep' /\ BytesAreKept' /\ ReadsInOrder'
    BY <1>2, <2>1 DEF LogTypes, InStep, BytesAreKept, Back, Unread, ReadsInOrder
  <2>3. Unread(r, count)' = Unread(r, count) /\ Unread(r, write_count)' = Unread(r, write_count)
    BY <1>2, <2>1 DEF Unread
  <2>4. CountIsOld'
    BY <1>2, <1>3, <1>4, <1>5, <1>6, <2>3 DEF CountIsOld
  <2> QED
    BY <2>2, <2>4
<1>7. CASE ~(Back(c, b) <= LogSize)
  <2>1. PICK d \in Nat : d = Back(c, LogSize) /\ d < CountLimit
    <3>1. LogSize \in 1 .. LogSize
      OBVIOUS
    <3> QED
      BY <1>3, <3>1, BackIs
  <2>2. (count + CountLimit - LogSize) % CountLimit = d
    <3>1. LogSize \in Nat /\ LogSize < CountLimit
      OBVIOUS
    <3> QED
      BY <1>3, <2>1, <3>1, Difference
  <2>3. /\ tail' = [tail EXCEPT ![r] = head] /\ read_count' = [read_count EXCEPT ![r] = d]
        /\ misled' = IF interrupted THEN misled \union {r} ELSE misled \ {r}
    <3>1. Unread(r, count) > LogSize
      BY <1>3, <1>4, <1>7 DEF Back
    <3> QED
      BY <1>1, <2>2, <3>1 DEF LoadHead
  <2>4. d \in Counts
    BY <2>1 DEF Counts
  <2>5. LogTypes'
    BY <1>2, <2>3, <2>4 DEF LogTypes
  <2>6. InStep'
    <3> SUFFICES ASSUME NEW q \in Readers, q \notin misled'
                 PROVE  tail'[q] = read_count'[q] % LogSize
      BY <1>2 DEF InStep
    <3>1. CASE q # r
      BY <2>3, <3>1 DEF InStep, LogTypes
    <3>2. CASE q = r
      <4>1. c = w
        BY <1>5, <2>3, <3>2
      <4>2. d \in {w - LogSize, w + CountLimit - LogSize}
        BY <1>3, <2>1, <4>1 DEF Back
      <4>3. d % LogSize = w % LogSize
        BY <4>2, WrappedPlace
      <4>4. tail'[r] = head /\ read_count'[r] = d
        BY <2>3 DEF LogTypes
      <4> QED
        BY <1>3, <3>2, <4>3, <4>4 DEF InStep
    <3> QED
      BY <3>1, <3>2
  <2>7. BytesAreKept'
    <3> SUFFICES ASSUME NEW q \in Readers, NEW j \in 1 .. LogSize, j <= Unread(q, write_count)'
                 PROVE  buffer[Back(write_count, j) % LogSize] = Back(write_count, j)
      BY <1>2 DEF BytesAreKept, Back
    <3>1. CASE q # r
      <4>1. Unread(q, write_count)' = Unread(q, write_count)
        BY <1>2, <2>3, <3>1 DEF Unread, LogTypes
      <4> QED
        BY <4>1 DEF BytesAreKept
    <3>2. CASE q = r
      <4>1. j <= Unread(r, write_count)
        BY <1>3, <1>4, <1>5, <1>7 DEF Back
      <4> QED
        BY <4>1 DEF BytesAreKept
    <3> QED
      BY <3>1, <3>2
  <2>8. CountIsOld'
    <3>1. read_count'[r] = d
      BY <2>3 DEF LogTypes
    <3>2. Unread(r, count)' = Back(c, d) /\ Unread(r, write_count)' = Back(w, d)
      <4>1. Unread(r, count)' = (c + CountLimit - d) % CountLimit
        BY <1>3, <3>1 DEF Unread
      <4>2. Unread(r, write_count)' = (w + CountLimit - d) % CountLimit
        BY <1>2, <1>3, <3>1 DEF Unread
      <4> QED
        BY <1>3, <2>1, <4>1, <4>2, Difference
    <3>3. Back(c, d) = LogSize /\ Back(c, d) <= Back(w, d) /\ (c = w => Back(w, d) = LogSize)
      BY <1>3, <1>5, <1>7, <2>1 DEF Back
    <3> QED
      BY <1>2, <1>3, <1>5, <3>2, <3>3 DEF CountIsOld
  <2>9. ReadsInOrder'
    BY <1>2 DEF ReadsInOrder
  <2> QED
    BY <2>5, <2>6, <2>7, <2>8, <2>9
<1> QED
  BY <1>6, <1>7

LEMMA CopyKeepsLog ==
  ASSUME LogInv, Copy
  PROVE  LogInv'
<1> USE LogAssumption DEF LogInv
<1>1. PICK r \in Readers, count \in Counts :
        r = reading.reader /\ count = reading.count /\ reading \in Loaded /\ reading.at = "copying"
  BY DEF Copy, LogTypes, NotReading, Loaded
<1>2. PICK w \in Nat, b \in Nat, c \in Nat :
        /\ w = write_count /\ b = read_count[r] /\ c = count
        /\ w < CountLimit /\ b < CountLimit /\ c < CountLimit
  BY DEF LogTypes, Counts
<1>3. Unread(r, count) = Back(c, b) /\ Unread(r, write_count) = Back(w, b)
  BY <1>2, UnreadIs DEF Counts
<1>4. /\ Back(c, b) <= Back(w, b)
      /\ ~interrupted => c = w /\ Back(w, b) <= LogSize
  BY <1>1, <1>2, <1>3 DEF CountIsOld, NotReading, Loaded
<1> DEFINE m == IF reading.len > Unread(r, count) THEN Unread(r, count) ELSE reading.len
<1>5. PICK n \in Nat : n = m /\ n <= Back(c, b) /\ n < CountLimit
  <2>1. Back(c, b) \in Nat /\ Back(c, b) < CountLimit
    BY <1>2 DEF Back
  <2>2. PICK len \in Nat : len = reading.len
    BY <1>1 DEF Loaded
  <2> QED
    BY <1>3, <2>1, <2>2
<1>6. /\ got' = [bytes |-> [k \in 1 .. n |-> buffer[(tail[r] + k - 1) % LogSize]],
                 from |-> read_count[r], whole |-> ~interrupted /\ r \notin misled]
      /\ tail' = [tail EXCEPT ![r] = (tail[r] + n) % LogSize]
      /\ read_count' = [read_count EXCEPT ![r] = (read_count[r] + n) % CountLimit]
      /\ reading' = NotReading /\ interrupted' = FALSE
      /\ UNCHANGED << buffer, head, write_count, misled >>
  BY <1>1, <1>5 DEF Copy, writer
<1>7. PICK d \in Nat :
        /\ d = (read_count[r] + n) % CountLimit /\ d < CountLimit
        /\ d = (IF b + n < CountLimit THEN b + n ELSE b + n - CountLimit)
  <2>1. PICK x \in Nat : x = b + n
    OBVIOUS
  <2>2. x % CountLimit = (IF x < CountLimit THEN x ELSE x - CountLimit)
    <3>1. CountLimit \in Nat \ {0} /\ x < 2 * CountLimit
      BY <1>2, <1>5, <2>1
    <3> QED
      BY <3>1, ClockSum
  <2>3. (read_count[r] + n) % CountLimit = x % CountLimit
    BY <1>2, <2>1
  <2> QED
    BY <1>2, <1>5, <2>1, <2>2, <2>3
<1>8. LogTypes'
  <2>1. (tail[r] + n) % LogSize \in Places0 /\ d \in Counts
    BY <1>7 DEF LogTypes, Places0, Counts
  <2>2. tail' \in [Readers -> Places0] /\ read_count' \in [Readers -> Counts]
    BY <1>6, <1>7, <2>1 DEF LogTypes
  <2> QED
    BY <1>6, <2>2 DEF LogTypes
<1>9. InStep'
  <2> SUFFICES ASSUME NEW q \in Readers, q \notin misled
               PROVE  tail'[q] = read_count'[q] % LogSize
    BY <1>6 DEF InStep
  <2>1. CASE q # r
    BY <1>6, <2>1 DEF InStep, LogTypes
  <2>2. CASE q = r
    <3>1. tail'[r] = (tail[r] + n) % LogSize /\ read_count'[r] = d
      BY <1>6, <1>7 DEF LogTypes
    <3>2. tail[r] = b % LogSize
      BY <1>2, <2>2 DEF InStep
    <3>3. ((b % LogSize) + n) % LogSize = (b + n) % LogSize
      BY PlaceAfter
    <3>4. PICK x \in Nat : x = b + n
      OBVIOUS
    <3>5. d % LogSize = x % LogSize
      <4>1. d \in {x, x - CountLimit}
        BY <1>7, <3>4
      <4> QED
        BY <4>1, WrappedPlace
    <3> QED
      BY <2>2, <3>1, <3>2, <3>3, <3>4, <3>5
  <2> QED
    BY <2>1, <2>2
<1>10. BytesAreKept'
  <2> SUFFICES ASSUME NEW q \in Readers, NEW j \in 1 .. LogSize, j <= Unread(q, write_count)'
               PROVE  j <= Unread(q, write_count)
    BY <1>6 DEF BytesAreKept, Back
  <2>1. CASE q # r
    BY <1>6, <2>1 DEF Unread, LogTypes
  <2>2. CASE q = r
    <3>1. Unread(r, write_count)' = Back(w, d)
      <4>1. read_count'[r] = d
        BY <1>6, <1>7 DEF LogTypes
      <4> QED
        BY <1>2, <1>6, <1>7, <4>1, Difference DEF Unread
    <3> QED
      BY <1>2, <1>3, <1>4, <1>5, <1>7, <2>2, <3>1 DEF Back
  <2> QED
    BY <2>1, <2>2
<1>11. CountIsOld'
  BY <1>6 DEF CountIsOld
<1>12. ReadsInOrder'
  <2> SUFFICES ASSUME ~interrupted, r \notin misled, NEW k \in 1 .. n
               PROVE  buffer[(tail[r] + k - 1) % LogSize] = (read_count[r] + k - 1) % CountLimit
    BY <1>6 DEF ReadsInOrder
  <2>1. PICK j \in 1 .. LogSize : j = Back(w, b) - (k - 1) /\ j <= Back(w, b)
    BY <1>2, <1>4, <1>5 DEF Back
  <2>2. PICK e \in Nat : e = Back(w, j) /\ e < CountLimit
    BY <1>2, BackIs
  <2>3. PICK x \in Nat : x = b + k - 1 /\ e \in {x, x - CountLimit}
    BY <1>2, <2>1, <2>2 DEF Back
  <2>4. buffer[e % LogSize] = e
    BY <1>2, <1>3, <2>1, <2>2 DEF BytesAreKept
  <2>5. e % LogSize = x % LogSize
    BY <2>3, WrappedPlace
  <2>6. (tail[r] + k - 1) % LogSize = x % LogSize
    <3>1. tail[r] = b % LogSize
      BY <1>2 DEF InStep
    <3>2. PICK i \in Nat : i = k - 1
      OBVIOUS
    <3>3. ((b % LogSize) + i) % LogSize = (b + i) % LogSize
      BY PlaceAfter
    <3>4. tail[r] + k - 1 = (b % LogSize) + i /\ b + i = x
      BY <2>3, <3>1, <3>2
    <3> QED
      BY <3>3, <3>4
  <2>7. (read_count[r] + k - 1) % CountLimit = e
    <3>1. x % CountLimit = (IF x < CountLimit THEN x ELSE x - CountLimit)
      <4>1. CountLimit \in Nat \ {0} /\ x < 2 * CountLimit
        BY <1>2, <1>5, <2>3
      <4> QED
        BY <4>1, ClockSum
    <3>2. (read_count[r] + k - 1) % CountLimit = x % CountLimit
      BY <1>2, <2>3
    <3> QED
      BY <2>2, <2>3, <3>1, <3>2
  <2> QED
    BY <2>4, <2>5, <2>6, <2>7
<1> QED
  BY <1>8, <1>9, <1>10, <1>11, <1>12

LEMMA LogSteps == LogInv /\ [LogNext]_logVars => LogInv'
<1> SUFFICES ASSUME LogInv, [LogNext]_logVars PROVE LogInv'
  OBVIOUS
<1>1. CASE UNCHANGED logVars
  <2>1. UNCHANGED << buffer, head, write_count, tail, read_count, reading, got, interrupted, misled >>
    BY <1>1 DEF logVars, writer, readers
  <2> QED
    BY <2>1 DEF LogInv, LogTypes, InStep, BytesAreKept, CountIsOld, ReadsInOrder, Back, Unread
<1> QED
  BY <1>1, WriteKeepsLog, LoadCountKeepsLog, LoadHeadKeepsLog, CopyKeepsLog DEF LogNext

\* A read in which nothing was written returns the oldest unread bytes in order
\* (rb_read, logging.c:125), for rings and counters of any size, any number of readers
\* and over any number of laps.
THEOREM LogReadsInOrder == LogSpec => []ReadsInOrder
<1>1. LogInv => ReadsInOrder
  BY DEF LogInv
<1> QED
  BY <1>1, LogStarts, LogSteps, PTL DEF LogSpec

===============================================================================
